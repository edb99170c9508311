------------------------- MODULE SelfMirrorCaptureProofs -------------------------
(* In a self-mirror proof run of any configuration a dance is told to stop, and the     *)
(* frames are what their dates say of them; what the analyzer publishes of them is borne   *)
(* out by them, frame by frame, and by every judgment attached to it.                       *)
EXTENDS SelfMirrorProof, AutoJudgmentProofs, SequenceTheorems

Pages == [heard : BOOLEAN, stops : Nat, stoppedAt : Int, due : Seq({"trigger", "stop"}),
          result : {"none", "trigger", "stop"}, applied : BOOLEAN]
Dispatches == [dispatched : BOOLEAN, at : Int]

CaptureTypes ==
    /\ cfg \in Configs /\ ValidArguments(cfg)
    /\ index \in Nat /\ clock \in Nat /\ elapsed \in Nat
    /\ page \in Pages /\ trigger \in Dispatches /\ stop \in Dispatches
    /\ counted \in [value : {Unread, "still", "over"}, at : Int]
    /\ frames \in Seq([heard : BOOLEAN, stopped : BOOLEAN])

Iteration == {"trigger", "apply", "poll", "stop", "count", "shot"}

(* Where in an iteration which stimulus must have been sent: the clock is past the       *)
(* date of the frame, and what came due by the iteration's reading was sent.             *)
LoopInv ==
    /\ elapsed <= clock
    /\ pc = "frame" => Nominal(index) <= clock
    /\ pc \in Iteration => Nominal(index) <= elapsed
    /\ pc \in Iteration \ {"trigger"} /\ cfg.trigger # "none" /\ elapsed >= cfg.triggerAt =>
          trigger.dispatched
    /\ pc \in {"count", "shot"} /\ cfg.stopAt > 0 /\ elapsed >= cfg.stopAt => stop.dispatched
    /\ pc \in Iteration \cup {"frame", "late"} => failures = {}

(* What the page heard of what was sent. *)
PageInv ==
    /\ trigger.dispatched => page.heard
    /\ stop.dispatched => /\ cfg.stopAt > 0 /\ trigger.dispatched
                          /\ page.stops >= 1 /\ page.stoppedAt <= stop.at
    /\ failures = {} => page.stops = (IF stop.dispatched THEN 1 ELSE 0)
    /\ page.stoppedAt <= clock
    /\ counted.at # Never =>
          /\ stop.dispatched /\ page.stops = 1
          /\ counted.at >= stop.at + (cfg.settleAt - cfg.stopAt)

(* What the end of the loop and the finally block still owe. *)
EndInv ==
    /\ pc \in {"stop", "failsafe"} => /\ ~stop.dispatched /\ trigger.dispatched
                                     /\ cfg.stopAt > 0
    /\ pc \in {"close", "return", "captured"} /\ failures = {} /\ cfg.trigger # "none" =>
          trigger.dispatched
    /\ pc \in {"return", "captured", "failed"} /\ cfg.stopAt > 0 /\ trigger.dispatched =>
          stop.dispatched \/ "cleanup" \in failures
    /\ pc = "captured" => failures = {}

FrameInv == (pc \in Steps => Len(frames) = index) /\ FramesFollowStimuli

CaptureInv == CaptureTypes /\ LoopInv /\ PageInv /\ EndInv /\ FrameInv

-----------------------------------------------------------------------------
(* Helpers *)

(* What the assumption on the configurations says of the one at hand. *)
LEMMA ConfigFacts ==
    ASSUME CaptureTypes
    PROVE  /\ cfg.lags \subseteq Nat
           /\ cfg.interval \in Nat /\ cfg.triggerAt \in Nat /\ cfg.stopAt \in Nat
           /\ cfg.settleAt \in Nat
           /\ cfg.stopAt > 0 => /\ cfg.trigger = "dance" /\ cfg.triggerAt < cfg.stopAt
                                /\ cfg.stopAt < cfg.settleAt
  BY CaptureAssumption DEF CaptureTypes, ValidArguments

LEMMA NominalType == ASSUME CaptureTypes, NEW i \in Nat PROVE Nominal(i) \in Nat
  BY ConfigFacts DEF Nominal

(* An await takes a lag of the configuration. *)
LEMMA ClockAdvances ==
    ASSUME CaptureTypes, \E lag \in cfg.lags : Passes(lag)
    PROVE  clock' \in Nat /\ clock <= clock'
  BY ConfigFacts DEF CaptureTypes, Passes

LEMMA TriggerHeardFacts ==
    ASSUME page \in Pages
    PROVE  /\ TriggerHeard \in Pages /\ TriggerHeard.heard = TRUE
           /\ TriggerHeard.stops = page.stops /\ TriggerHeard.stoppedAt = page.stoppedAt
<1>1. Append(page.due, "trigger") \in Seq({"trigger", "stop"})
  BY DEF Pages
<1>2. TriggerHeard = [page EXCEPT !.heard = TRUE, !.due = Append(page.due, "trigger")]
  BY DEF TriggerHeard
<1>. QED  BY <1>1, <1>2 DEF Pages

LEMMA StopHeardFacts ==
    ASSUME page \in Pages, clock' \in Nat
    PROVE  /\ StopHeard \in Pages /\ StopHeard.heard = page.heard
           /\ StopHeard.stops = page.stops + 1
           /\ StopHeard.stoppedAt = IF page.stoppedAt = Never THEN clock' ELSE page.stoppedAt
<1>. DEFINE due == Append(page.due, "stop")
             first == IF page.stoppedAt = Never THEN clock' ELSE page.stoppedAt
<1>1. due \in Seq({"trigger", "stop"}) /\ first \in Int /\ page.stops + 1 \in Nat
  BY DEF Pages
<1>2. StopHeard = [page EXCEPT !.stops = page.stops + 1, !.due = due, !.stoppedAt = first]
  BY DEF StopHeard
<1>. HIDE DEF due, first
<1>3. /\ StopHeard \in Pages /\ StopHeard.heard = page.heard
      /\ StopHeard.stops = page.stops + 1 /\ StopHeard.stoppedAt = first
  BY <1>1, <1>2 DEF Pages
<1>. QED  BY <1>3 DEF first

(* The frames taken so far are only touched by taking another one. *)
LEMMA FramesStay ==
    ASSUME CaptureInv, UNCHANGED <<cfg, index, frames>>, pc \in Steps \/ pc' \notin Steps
    PROVE  FrameInv'
  BY DEF CaptureInv, FrameInv, FramesFollowStimuli, Nominal

-----------------------------------------------------------------------------
(* The page and the loop *)

LEMMA PageStepKeeps == ASSUME CaptureInv, PageStep PROVE CaptureInv'
<1>. USE DEF CaptureInv
<1>1. page' \in Pages /\ (page.heard => page'.heard)
      /\ page'.stops = page.stops /\ page'.stoppedAt = page.stoppedAt
  <2>1. CASE PublishResult
    <3>1. page.due # <<>> /\ page \in Pages
      BY <2>1 DEF PublishResult, CaptureTypes
    <3>2. Head(page.due) \in {"trigger", "stop"} /\ Tail(page.due) \in Seq({"trigger", "stop"})
      BY <3>1 DEF Pages
    <3>. QED  BY <2>1, <3>1, <3>2 DEF PublishResult, Pages
  <2>2. CASE ApplyFrame
    BY <2>2 DEF ApplyFrame, CaptureTypes, Pages
  <2>. QED  BY <2>1, <2>2 DEF PageStep
<1>2. CaptureTypes'
  BY <1>1 DEF PageStep, CaptureTypes
<1>3. LoopInv'
  BY DEF PageStep, LoopInv, Nominal
<1>4. PageInv'
  BY <1>1 DEF PageStep, PageInv
<1>5. EndInv'
  BY DEF PageStep, EndInv
<1>6. FrameInv'
  BY FramesStay DEF PageStep
<1>. QED  BY <1>2, <1>3, <1>4, <1>5, <1>6

LEMMA BeginFrameKeeps == ASSUME CaptureInv, BeginFrame PROVE CaptureInv'
<1>. USE DEF CaptureInv
<1>1. pc = "frame" /\ pc' \in {"trigger", "poll", "late", "close"} /\ elapsed' \in {elapsed, clock}
      /\ UNCHANGED <<cfg, index, clock, page, trigger, stop, counted, frames, failures>>
  BY DEF BeginFrame
<1>2. CaptureTypes'
  BY <1>1 DEF CaptureTypes, Pages, Dispatches
<1>3. LoopInv'
  <2>1. CASE index < FrameCount(cfg)
    <3>1. elapsed' = clock /\ pc' = (IF TriggerDue THEN "trigger" ELSE "poll")
      BY <2>1 DEF BeginFrame
    <3>. QED  BY <1>1, <3>1, ConfigFacts DEF LoopInv, TriggerDue, Nominal, CaptureTypes, Iteration
  <2>2. CASE ~(index < FrameCount(cfg))
    BY <1>1, <2>2 DEF BeginFrame, LoopInv, Iteration
  <2>. QED  BY <2>1, <2>2
<1>4. PageInv'
  BY <1>1 DEF PageInv
<1>5. EndInv'
  BY <1>1 DEF EndInv, BeginFrame
<1>6. FrameInv'
  BY <1>1, FramesStay DEF Steps
<1>. QED  BY <1>2, <1>3, <1>4, <1>5, <1>6

(* Sending the trigger, in the loop or after it. *)
LEMMA DispatchTriggerKeeps ==
    ASSUME CaptureInv, NEW next \in {"apply", "poll", "close"}, NEW at \in Int,
           \/ pc = "trigger" /\ next # "close" /\ DispatchTrigger("trigger", next, at)
           \/ pc = "late" /\ next = "close" /\ DispatchTrigger("late", next, at)
    PROVE  CaptureInv'
<1>. USE DEF CaptureInv
<1>1. /\ clock' \in Nat /\ clock <= clock'
      /\ pc \in {"trigger", "late"}
      /\ UNCHANGED <<cfg, index, elapsed, stop, counted, frames>>
  BY ClockAdvances DEF DispatchTrigger
<1>2. \/ page' = TriggerHeard /\ trigger' = [dispatched |-> TRUE, at |-> at] /\ pc' = next
         /\ UNCHANGED failures
      \/ page' \in {page, TriggerHeard} /\ UNCHANGED trigger /\ pc' = "close"
         /\ failures' = failures \cup {"capture"}
  BY DEF DispatchTrigger, Throw
<1>3. /\ page' \in Pages /\ (page.heard => page'.heard) /\ trigger' \in Dispatches
      /\ page'.stops = page.stops /\ page'.stoppedAt = page.stoppedAt
      /\ trigger.dispatched => trigger'.dispatched
      /\ trigger'.dispatched => page'.heard
  <2>1. /\ page' \in Pages /\ (page.heard => page'.heard)
        /\ page'.stops = page.stops /\ page'.stoppedAt = page.stoppedAt
    BY <1>2, TriggerHeardFacts DEF CaptureTypes
  <2>2. CASE page' = TriggerHeard /\ trigger' = [dispatched |-> TRUE, at |-> at]
    BY <2>1, <2>2, TriggerHeardFacts DEF CaptureTypes, Dispatches
  <2>3. CASE UNCHANGED trigger
    BY <2>1, <2>3 DEF CaptureTypes, PageInv
  <2>. QED  BY <1>2, <2>1, <2>2, <2>3
<1>4. CaptureTypes'
  BY <1>1, <1>3 DEF CaptureTypes
<1>5. LoopInv'
  BY <1>1, <1>2 DEF LoopInv, Nominal, Iteration, CaptureTypes
<1>6. PageInv'
  BY <1>1, <1>2, <1>3 DEF PageInv, CaptureTypes, Pages
<1>7. EndInv'
  BY <1>1, <1>2 DEF EndInv
<1>8. FrameInv'
  BY <1>1, FramesStay DEF Steps
<1>. QED  BY <1>4, <1>5, <1>6, <1>7, <1>8

(* Steps that change neither what was sent nor the clock, and read it or the page. *)
LEMMA AwaitExpressionKeeps == ASSUME CaptureInv, AwaitExpression PROVE CaptureInv'
<1>. USE DEF CaptureInv
<1>1. /\ pc = "apply"
      /\ UNCHANGED <<cfg, index, clock, elapsed, page, trigger, stop, counted, frames>>
      /\ \/ pc' = "poll" /\ failures' = failures
         \/ pc' = "close" /\ failures' = failures \cup {"capture"}
  BY DEF AwaitExpression, Throw
<1>2. CaptureTypes'
  BY <1>1 DEF CaptureTypes, Pages, Dispatches
<1>3. LoopInv'
  BY <1>1 DEF LoopInv, Nominal, Iteration
<1>4. PageInv'
  BY <1>1 DEF PageInv
<1>5. EndInv'
  BY <1>1 DEF EndInv
<1>6. FrameInv'
  BY <1>1, FramesStay DEF Steps
<1>. QED  BY <1>2, <1>3, <1>4, <1>5, <1>6

LEMMA PollTriggerKeeps == ASSUME CaptureInv, PollTrigger PROVE CaptureInv'
<1>. USE DEF CaptureInv
<1>1. /\ pc = "poll"
      /\ UNCHANGED <<cfg, index, clock, elapsed, page, trigger, stop, counted, frames, failures>>
      /\ pc' = IF cfg.stopAt > 0 /\ trigger.dispatched /\ ~stop.dispatched /\ elapsed >= cfg.stopAt
               THEN "stop" ELSE "count"
  BY DEF PollTrigger
<1>2. CaptureTypes'
  BY <1>1 DEF CaptureTypes, Pages, Dispatches
<1>3. LoopInv'
  BY <1>1, ConfigFacts DEF LoopInv, Nominal, Iteration, CaptureTypes
<1>4. PageInv'
  BY <1>1 DEF PageInv
<1>5. EndInv'
  BY <1>1 DEF EndInv
<1>6. FrameInv'
  BY <1>1, FramesStay DEF Steps
<1>. QED  BY <1>2, <1>3, <1>4, <1>5, <1>6

(* Telling the dance to stop, on schedule or at last: nobody did before. *)
LEMMA DispatchDanceStopKeeps ==
    ASSUME CaptureInv,
           \/ DispatchDanceStop("stop", "count", "capture")
           \/ DispatchDanceStop("failsafe", "return", "cleanup")
    PROVE  CaptureInv'
<1>. USE DEF CaptureInv
<1>. DEFINE scheduled == pc = "stop"
            sent == stop' = [dispatched |-> TRUE, at |-> clock']
<1>1. /\ clock' \in Nat /\ clock <= clock'
      /\ pc \in {"stop", "failsafe"}
      /\ UNCHANGED <<cfg, index, elapsed, trigger, counted, frames>>
  BY ClockAdvances DEF DispatchDanceStop
<1>2. \/ page' = StopHeard /\ sent /\ UNCHANGED failures
         /\ pc' = (IF scheduled THEN "count" ELSE "return")
      \/ page' \in {page, StopHeard} /\ UNCHANGED stop
         /\ pc' = (IF scheduled THEN "close" ELSE "return")
         /\ failures' = failures \cup {IF scheduled THEN "capture" ELSE "cleanup"}
  BY DEF DispatchDanceStop
<1>3. page \in Pages /\ stop \in Dispatches /\ ~stop.dispatched /\ trigger.dispatched
      /\ cfg.stopAt > 0 /\ counted.at = Never
  BY <1>1 DEF CaptureTypes, EndInv, PageInv
<1>4. /\ page' \in Pages /\ page'.heard = page.heard
      /\ page' = page \/ (/\ page'.stops = page.stops + 1
                         /\ page'.stoppedAt = IF page.stoppedAt = Never THEN clock' ELSE page.stoppedAt)
  BY <1>1, <1>2, <1>3, StopHeardFacts
<1>5. page'.stoppedAt <= clock'
  BY <1>1, <1>4, <1>3 DEF Pages, PageInv, CaptureTypes
<1>6. stop' \in Dispatches
  <2>1. [dispatched |-> TRUE, at |-> clock'] \in Dispatches
    BY <1>1 DEF Dispatches
  <2>. QED  BY <1>2, <1>3, <2>1
<1>7. CaptureTypes'
  BY <1>1, <1>4, <1>6 DEF CaptureTypes
<1>8. LoopInv'
  BY <1>1, <1>2 DEF LoopInv, Nominal, Iteration, CaptureTypes
<1>9. PageInv'
  <2>1. CASE page' = StopHeard /\ sent /\ UNCHANGED failures
    <3>1. /\ page'.stops = page.stops + 1 /\ page.stops \in Nat
          /\ stop'.dispatched /\ stop'.at = clock'
      BY <1>1, <1>3, <2>1, StopHeardFacts DEF Pages
    <3>. QED  BY <1>1, <1>3, <1>4, <1>5, <2>1, <3>1 DEF PageInv
  <2>2. CASE UNCHANGED stop /\ failures' # {}
    BY <1>1, <1>3, <1>4, <1>5, <2>2 DEF PageInv
  <2>. QED  BY <1>2, <2>1, <2>2
<1>10. EndInv'
  BY <1>1, <1>2, <1>3 DEF EndInv
<1>11. FrameInv'
  BY <1>1, FramesStay DEF Steps
<1>. QED  BY <1>7, <1>8, <1>9, <1>10, <1>11

LEMMA CountDancesKeeps == ASSUME CaptureInv, CountDances PROVE CaptureInv'
<1>. USE DEF CaptureInv
<1>1. /\ pc = "count" /\ pc' = "shot"
      /\ UNCHANGED <<cfg, index, clock, elapsed, page, trigger, stop, frames, failures>>
  BY DEF CountDances
<1>2. \/ UNCHANGED counted
      \/ /\ stop.dispatched /\ elapsed >= ReleaseCountEligibleAt
         /\ \E value \in {Unread, "still", "over"} : counted' = [value |-> value, at |-> elapsed]
  BY DEF CountDances
<1>3. CaptureTypes'
  BY <1>1, <1>2 DEF CaptureTypes
<1>4. LoopInv'
  BY <1>1 DEF LoopInv, Nominal, Iteration
<1>5. PageInv'
  <2>1. CASE UNCHANGED counted
    BY <1>1, <2>1 DEF PageInv
  <2>2. CASE /\ stop.dispatched /\ elapsed >= ReleaseCountEligibleAt
             /\ \E value \in {Unread, "still", "over"} : counted' = [value |-> value, at |-> elapsed]
    <3>1. counted'.at = elapsed /\ failures = {}
      BY <1>1, <2>2 DEF LoopInv, Iteration
    <3>. QED  BY <1>1, <2>2, <3>1 DEF PageInv, ReleaseCountEligibleAt
  <2>. QED  BY <1>2, <2>1, <2>2
<1>6. EndInv'
  BY <1>1 DEF EndInv
<1>7. FrameInv'
  BY <1>1, FramesStay DEF Steps
<1>. QED  BY <1>3, <1>4, <1>5, <1>6, <1>7

(* The frame taken at this iteration's end is dated by its number: what its date says    *)
(* was due by the iteration's reading, so it had been sent.                               *)
LEMMA CaptureFrameKeeps == ASSUME CaptureInv, CaptureFrame PROVE CaptureInv'
<1>. USE DEF CaptureInv
<1>. DEFINE frame == [heard |-> page.heard, stopped |-> page.stops > 0]
<1>1. /\ pc = "shot" /\ pc' = "frame" /\ index' = index + 1 /\ frames' = Append(frames, frame)
      /\ UNCHANGED <<cfg, elapsed, page, trigger, stop, counted, failures>>
  BY DEF CaptureFrame
<1>2. clock' \in Nat /\ clock <= clock' /\ Nominal(index + 1) <= clock'
  <2>1. Nominal(index + 1) \in Nat
    BY NominalType DEF CaptureTypes
  <2>. QED  BY <2>1, ConfigFacts DEF CaptureFrame, CaptureTypes
<1>3. frame \in [heard : BOOLEAN, stopped : BOOLEAN]
  BY DEF CaptureTypes, Pages
<1>4. CaptureTypes'
  BY <1>1, <1>2, <1>3 DEF CaptureTypes
<1>5. LoopInv'
  BY <1>1, <1>2 DEF LoopInv, Nominal, Iteration, CaptureTypes
<1>6. PageInv'
  BY <1>1, <1>2 DEF PageInv, CaptureTypes, Pages
<1>7. EndInv'
  BY <1>1 DEF EndInv
<1>8. FrameInv'
  <2>1. Len(frames) = index /\ index \in Nat /\ frames \in Seq([heard : BOOLEAN, stopped : BOOLEAN])
    BY <1>1 DEF FrameInv, Steps, CaptureTypes
  <2>2. /\ Len(frames') = index + 1 /\ frames'[index + 1] = frame
        /\ \A k \in 1 .. index : frames'[k] = frames[k]
    BY <1>1, <1>3, <2>1
  <2>3. /\ cfg.trigger # "none" /\ Nominal(index) >= cfg.triggerAt => frame.heard
        /\ cfg.stopAt > 0 /\ Nominal(index) >= cfg.stopAt => frame.stopped
    <3>1. Nominal(index) \in Nat /\ Nominal(index) <= elapsed
      BY <1>1, NominalType DEF CaptureTypes, LoopInv, Iteration
    <3>2. cfg.trigger # "none" /\ Nominal(index) >= cfg.triggerAt => trigger.dispatched
      BY <1>1, <3>1, ConfigFacts DEF LoopInv, Iteration, CaptureTypes
    <3>3. cfg.stopAt > 0 /\ Nominal(index) >= cfg.stopAt => stop.dispatched
      BY <1>1, <3>1, ConfigFacts DEF LoopInv, CaptureTypes
    <3>. QED  BY <3>2, <3>3 DEF PageInv, CaptureTypes, Pages
  <2>4. ASSUME NEW k \in 1 .. index + 1
        PROVE  /\ cfg.trigger # "none" /\ Nominal(k - 1) >= cfg.triggerAt => frames'[k].heard
               /\ cfg.stopAt > 0 /\ Nominal(k - 1) >= cfg.stopAt => frames'[k].stopped
    <3>1. CASE k \in 1 .. index
      BY <2>1, <2>2, <3>1 DEF FrameInv, FramesFollowStimuli
    <3>2. CASE k = index + 1
      <4>1. k - 1 = index
        BY <2>1, <3>2
      <4>. QED  BY <2>2, <2>3, <3>2, <4>1
    <3>. QED  BY <2>1, <2>4, <3>1, <3>2
  <2>5. DOMAIN frames' = 1 .. index + 1
    BY <1>1, <1>3, <2>1
  <2>. QED  BY <1>1, <2>2, <2>4, <2>5 DEF FrameInv, FramesFollowStimuli, Nominal
<1>. QED  BY <1>4, <1>5, <1>6, <1>7, <1>8

LEMMA CaptureFailsKeeps == ASSUME CaptureInv, CaptureFails PROVE CaptureInv'
<1>. USE DEF CaptureInv
<1>1. /\ pc = "shot" /\ pc' = "close" /\ failures' = failures \cup {"capture"}
      /\ UNCHANGED <<cfg, index, clock, elapsed, page, trigger, stop, counted, frames>>
  BY DEF CaptureFails, Throw
<1>2. CaptureTypes'
  BY <1>1 DEF CaptureTypes, Pages, Dispatches
<1>3. LoopInv' /\ EndInv'
  BY <1>1 DEF LoopInv, Iteration, EndInv
<1>4. PageInv'
  BY <1>1 DEF PageInv
<1>5. FrameInv'
  BY <1>1, FramesStay DEF Steps
<1>. QED  BY <1>2, <1>3, <1>4, <1>5

-----------------------------------------------------------------------------
(* The finally block and the return *)

LEMMA CloseSessionKeeps == ASSUME CaptureInv, CloseSession PROVE CaptureInv'
<1>. USE DEF CaptureInv
<1>1. /\ pc = "close" /\ failures' \in {failures, failures \cup {"detach"}}
      /\ pc' = IF cfg.stopAt > 0 /\ trigger.dispatched /\ ~stop.dispatched THEN "failsafe"
               ELSE "return"
      /\ UNCHANGED <<cfg, index, clock, elapsed, page, trigger, stop, counted, frames>>
  BY DEF CloseSession
<1>2. CaptureTypes'
  BY <1>1 DEF CaptureTypes, Pages, Dispatches
<1>3. LoopInv' /\ EndInv'
  BY <1>1 DEF LoopInv, Iteration, EndInv
<1>4. PageInv'
  BY <1>1 DEF PageInv
<1>5. FrameInv'
  BY <1>1, FramesStay DEF Steps
<1>. QED  BY <1>2, <1>3, <1>4, <1>5

LEMMA ReturnCaptureKeeps == ASSUME CaptureInv, ReturnCapture PROVE CaptureInv'
<1>. USE DEF CaptureInv
<1>1. /\ pc = "return" /\ pc' \in {"captured", "failed"} /\ (pc' = "captured" => failures = {})
      /\ UNCHANGED <<cfg, index, clock, elapsed, page, trigger, stop, counted, frames, failures>>
  BY DEF ReturnCapture
<1>2. CaptureTypes'
  BY <1>1 DEF CaptureTypes, Pages, Dispatches
<1>3. LoopInv' /\ EndInv'
  BY <1>1 DEF LoopInv, Iteration, EndInv
<1>4. PageInv'
  BY <1>1 DEF PageInv
<1>5. FrameInv'
  BY <1>1, FramesStay DEF Steps
<1>. QED  BY <1>2, <1>3, <1>4, <1>5

LEMMA CaptureKeeps == ASSUME CaptureInv, CaptureNext PROVE CaptureInv'
<1>1. elapsed \in Int /\ clock \in Int
  BY DEF CaptureInv, CaptureTypes
<1>2. CASE TriggerInLoop
  <2>. DEFINE next == IF cfg.trigger = "expression-visible" THEN "apply" ELSE "poll"
  <2>1. pc = "trigger" /\ DispatchTrigger("trigger", next, elapsed)
    BY <1>2 DEF TriggerInLoop, DispatchTrigger
  <2>2. next \in {"apply", "poll", "close"} /\ next # "close"
    OBVIOUS
  <2>. HIDE DEF next
  <2>. QED  BY <1>1, <2>1, <2>2, DispatchTriggerKeeps
<1>3. CASE TriggerLate
  <2>1. pc = "late" /\ DispatchTrigger("late", "close", clock)
    BY <1>3 DEF TriggerLate, DispatchTrigger
  <2>. QED  BY <1>1, <2>1, DispatchTriggerKeeps
<1>4. CASE ScheduledStop \/ FailSafeStop
  BY <1>4, DispatchDanceStopKeeps DEF ScheduledStop, FailSafeStop
<1>. QED  BY <1>2, <1>3, <1>4, BeginFrameKeeps, AwaitExpressionKeeps, PollTriggerKeeps,
            CountDancesKeeps, CaptureFrameKeeps, CaptureFailsKeeps, CloseSessionKeeps,
            ReturnCaptureKeeps, PageStepKeeps DEF CaptureNext

-----------------------------------------------------------------------------
(* The run as a whole *)

(* Analyzing and judging leave the capture as it is. *)
LEMMA AfterCaptureKeeps ==
    ASSUME CaptureInv, pc' \notin Steps \cup {"captured", "failed"} \/ pc' = pc,
           UNCHANGED <<cfg, index, clock, elapsed, page, trigger, stop, counted, frames, failures>>
    PROVE  CaptureInv'
<1>. USE DEF CaptureInv
<1>1. CaptureTypes'
  BY DEF CaptureTypes, Pages, Dispatches
<1>2. LoopInv'
  BY DEF LoopInv, Iteration, Steps, Nominal
<1>3. PageInv'
  BY DEF PageInv
<1>4. EndInv'
  BY DEF EndInv, Steps
<1>5. FrameInv'
  BY DEF FrameInv, FramesFollowStimuli, Nominal
<1>. QED  BY <1>1, <1>2, <1>3, <1>4, <1>5

LEMMA FreshFacts ==
    /\ FreshPage \in Pages /\ NotDispatched \in Dispatches
    /\ FreshPage.stops = 0 /\ FreshPage.stoppedAt = Never /\ ~NotDispatched.dispatched
  BY DEF FreshPage, NotDispatched, Pages, Dispatches, Never

(* A capture that starts, and one of which nothing is left. *)
LEMMA FreshHolds ==
    ASSUME cfg \in Configs, ValidArguments(cfg), pc \in {"frame", "published", "abandoned"},
           index = 0, clock = 0, elapsed = 0, page = FreshPage,
           trigger = NotDispatched, stop = NotDispatched,
           counted = [value |-> Unread, at |-> Never], frames = <<>>, failures = {}
    PROVE  CaptureInv
<1>1. CaptureTypes
  BY FreshFacts DEF CaptureTypes, Never
<1>2. LoopInv
  <2>1. Nominal(index) = 0
    BY <1>1, ConfigFacts DEF Nominal
  <2>. QED  BY <2>1 DEF LoopInv, Iteration
<1>3. PageInv
  BY FreshFacts DEF PageInv, Never
<1>4. EndInv
  BY DEF EndInv
<1>5. FrameInv
  BY DEF FrameInv, FramesFollowStimuli
<1>. QED  BY <1>1, <1>2, <1>3, <1>4, <1>5 DEF CaptureInv

LEMMA RemoveKeeps == ASSUME CaptureInv, RemoveBrowserRawInputs PROVE CaptureInv'
<1>1. /\ cfg' \in Configs /\ ValidArguments(cfg)' /\ pc' \in {"published", "abandoned"}
      /\ index' = 0 /\ clock' = 0 /\ elapsed' = 0 /\ page' = FreshPage
      /\ trigger' = NotDispatched /\ stop' = NotDispatched
      /\ counted' = [value |-> Unread, at |-> Never] /\ frames' = <<>> /\ failures' = {}
  BY DEF CaptureInv, CaptureTypes, RemoveBrowserRawInputs, ValidArguments
<1>2. CaptureTypes'
  BY <1>1, FreshFacts DEF CaptureTypes, Never
<1>3. LoopInv'
  <2>1. cfg' = cfg /\ cfg.interval \in Nat
    BY ConfigFacts DEF CaptureInv, RemoveBrowserRawInputs
  <2>2. Nominal(index)' = 0
    BY <1>1, <2>1 DEF Nominal
  <2>. QED  BY <1>1, <2>2 DEF LoopInv, Iteration
<1>4. PageInv'
  BY <1>1, FreshFacts DEF PageInv, Never
<1>5. EndInv'
  BY <1>1 DEF EndInv
<1>6. FrameInv'
  BY <1>1 DEF FrameInv, FramesFollowStimuli, Steps
<1>. QED  BY <1>2, <1>3, <1>4, <1>5, <1>6 DEF CaptureInv

(* The inductive invariant of the capture in a proof run, for every configuration, every  *)
(* observation and every profile: at each step of the loop what the frame's date calls    *)
(* for has been sent, the page heard what was sent, and the finally block owes the rest.  *)
THEOREM CaptureInvariant == ProofSpec => []CaptureInv
<1>1. ProofInit => CaptureInv
  BY FreshHolds DEF ProofInit, CaptureInit
<1>2. CaptureInv /\ [ProofNext]_proofVars => CaptureInv'
  <2>. SUFFICES ASSUME CaptureInv, [ProofNext]_proofVars PROVE CaptureInv'
    OBVIOUS
  <2>1. CASE Capture
    BY <2>1, CaptureKeeps DEF Capture
  <2>2. CASE Analyze
    BY <2>2, AfterCaptureKeeps DEF Analyze, Steps
  <2>3. CASE RemoveBrowserRawInputs
    BY <2>3, RemoveKeeps
  <2>4. CASE Judge
    BY <2>4, AfterCaptureKeeps DEF Judge
  <2>5. CASE UNCHANGED proofVars
    BY <2>5, AfterCaptureKeeps DEF proofVars
  <2>. QED  BY <2>1, <2>2, <2>3, <2>4, <2>5 DEF ProofNext, Done
<1>. QED  BY <1>1, <1>2, PTL DEF ProofSpec

(* Whatever failed or overran, a started dance was told to stop or its not being told is   *)
(* the failure thrown, and dances are counted no earlier than the settling time allows:     *)
(* for every duration, interval and delay.                                                  *)
THEOREM DanceIsStoppedHolds == ProofSpec => []DanceIsStopped
<1>1. CaptureInv => DanceIsStopped
  <2>. SUFFICES ASSUME CaptureInv PROVE DanceIsStopped
    OBVIOUS
  <2>1. pc \in {"captured", "failed"} /\ cfg.stopAt > 0 /\ trigger.dispatched =>
            \/ stop.dispatched /\ page.stops >= 1
            \/ "cleanup" \in failures /\ pc = "failed"
    BY DEF CaptureInv, EndInv, PageInv
  <2>2. pc = "captured" /\ cfg.stopAt > 0 => page.stops = 1
    BY ConfigFacts DEF CaptureInv, EndInv, PageInv
  <2>3. counted.at # Never =>
            page.stops = 1 /\ counted.at - page.stoppedAt >= cfg.settleAt - cfg.stopAt
    BY ConfigFacts DEF CaptureInv, CaptureTypes, PageInv, Pages, Dispatches
  <2>. QED  BY <2>1, <2>2, <2>3 DEF DanceIsStopped
<1>. QED  BY <1>1, CaptureInvariant, PTL

(* A frame dated at or after a stimulus was taken after the page heard it, for every        *)
(* duration, interval and delay, although frames are dated by number and sent by clock.     *)
THEOREM FramesFollowStimuliHolds == ProofSpec => []FramesFollowStimuli
<1>1. CaptureInv => FramesFollowStimuli
  BY DEF CaptureInv, FrameInv
<1>. QED  BY <1>1, CaptureInvariant, PTL

-----------------------------------------------------------------------------
(* The bounds of a run *)

(* The loop stays within the run, an expression is the only trigger that is waited for,    *)
(* and the page has no result of a stop that was never heard.                               *)
LoopBounds ==
    /\ index <= FrameCount(cfg) /\ (pc \in Iteration => index < FrameCount(cfg))
    /\ clock <= MaxClock /\ Len(frames) <= index
    /\ pc \in Steps \cup {"captured", "failed", "analyzed", "published", "abandoned"}

ResultBounds ==
    /\ motionResult \in {"none", "trigger"}
    /\ pc = "apply" => cfg.trigger = "expression-visible"
    /\ page.stops = 0 => page.result # "stop" /\ page.due \in Seq({"trigger"})

BoundsInv == LoopBounds /\ ResultBounds

LEMMA FrameCountFacts ==
    ASSUME CaptureTypes
    PROVE  /\ FrameCount(cfg) \in Nat /\ 0 < FrameCount(cfg)
           /\ \A i \in Nat : i <= FrameCount(cfg) => Nominal(i) <= MaxClock
<1>. DEFINE needed == (cfg.duration + cfg.interval - 1) \div cfg.interval
            count == FrameCount(cfg)
<1>1. cfg.duration \in Nat /\ cfg.interval \in Nat /\ cfg.interval > 0
  BY CaptureAssumption DEF CaptureTypes, ValidArguments
<1>2. needed \in Int
  BY <1>1
<1>3. count = Max({2, needed})
  BY DEF FrameCount
<1>. HIDE DEF needed, count
<1>4. count \in Int /\ count >= 2
  <2>1. 2 \in Int
    OBVIOUS
  <2>2. Max({2, needed}) = IF 2 >= needed THEN 2 ELSE needed
    BY <1>2, <2>1, OfTwo
  <2>. QED  BY <1>2, <1>3, <2>2
<1>5. count * cfg.interval <= MaxClock
  BY ProofAssumption DEF CaptureTypes, count
<1>6. ASSUME NEW i \in Nat, i <= count PROVE i * cfg.interval <= MaxClock
  <2>1. i * cfg.interval <= count * cfg.interval
    BY <1>1, <1>4, <1>6
  <2>2. i * cfg.interval \in Int /\ count * cfg.interval \in Int /\ MaxClock \in Int
    BY <1>1, <1>4, CaptureAssumption
  <2>. QED  BY <1>5, <2>1, <2>2
<1>. QED  BY <1>4, <1>6 DEF count, Nominal

(* An await never takes the clock past its bound. *)
LEMMA ClockStaysBounded ==
    ASSUME CaptureTypes, \E lag \in cfg.lags : Passes(lag) PROVE clock' <= MaxClock
  BY ConfigFacts DEF Passes

LEMMA PageStepStaysBounded == ASSUME CaptureInv, BoundsInv, PageStep PROVE BoundsInv'
<1>. USE DEF CaptureInv, BoundsInv
<1>1. UNCHANGED <<cfg, pc, index, clock, frames, motionResult>>
  BY DEF PageStep
<1>2. page.due \in Seq({"trigger", "stop"}) /\ page \in Pages
  BY DEF CaptureTypes, Pages
<1>3. page'.stops = 0 => page'.result # "stop" /\ page'.due \in Seq({"trigger"})
  <2>1. CASE PublishResult
    <3>1. /\ page.due # <<>> /\ page'.stops = page.stops
          /\ page'.result = Head(page.due) /\ page'.due = Tail(page.due)
      BY <2>1, <1>2 DEF PublishResult, Pages
    <3>2. page.due \in Seq({"trigger"}) => Head(page.due) = "trigger" /\ Tail(page.due) \in Seq({"trigger"})
      BY <3>1
    <3>. QED  BY <3>1, <3>2 DEF ResultBounds
  <2>2. CASE ApplyFrame
    BY <2>2, <1>2 DEF ApplyFrame, Pages, ResultBounds
  <2>. QED  BY <2>1, <2>2 DEF PageStep
<1>4. LoopBounds'
  BY <1>1 DEF LoopBounds
<1>. QED  BY <1>1, <1>3, <1>4 DEF ResultBounds

LEMMA BeginFrameStaysBounded == ASSUME CaptureInv, BoundsInv, BeginFrame PROVE BoundsInv'
<1>. USE DEF CaptureInv, BoundsInv
<1>1. /\ UNCHANGED <<cfg, index, clock, page, frames, motionResult>>
      /\ pc' \in {"trigger", "poll", "late", "close"}
      /\ pc' \in {"trigger", "poll"} => index < FrameCount(cfg)
  BY DEF BeginFrame
<1>. QED  BY <1>1 DEF LoopBounds, ResultBounds, Iteration, Steps

LEMMA TriggerHeardIsNoStop ==
    ASSUME CaptureTypes, ResultBounds, page' \in {page, TriggerHeard}
    PROVE  page'.stops = 0 => page'.result # "stop" /\ page'.due \in Seq({"trigger"})
<1>1. page \in Pages
  BY DEF CaptureTypes
<1>2. CASE page' = page
  BY <1>2 DEF ResultBounds
<1>3. CASE page' = TriggerHeard
  <2>1. /\ page'.stops = page.stops /\ page'.result = page.result
        /\ page'.due = Append(page.due, "trigger")
    BY <1>1, <1>3 DEF TriggerHeard, Pages
  <2>2. page.due \in Seq({"trigger"}) => Append(page.due, "trigger") \in Seq({"trigger"})
    OBVIOUS
  <2>. QED  BY <2>1, <2>2 DEF ResultBounds
<1>. QED  BY <1>2, <1>3

LEMMA DispatchTriggerStaysBounded ==
    ASSUME CaptureInv, BoundsInv, TriggerInLoop \/ TriggerLate PROVE BoundsInv'
<1>. USE DEF CaptureInv, BoundsInv
<1>1. /\ UNCHANGED <<cfg, index, frames, motionResult>>
      /\ pc \in {"trigger", "late"}
      /\ pc' \in {"apply", "poll", "close"} /\ (pc = "late" => pc' = "close")
      /\ pc' = "apply" => cfg.trigger = "expression-visible"
      /\ page' \in {page, TriggerHeard} /\ \E lag \in cfg.lags : Passes(lag)
  BY DEF TriggerInLoop, TriggerLate, DispatchTrigger, Throw
<1>2. clock' <= MaxClock
  BY <1>1, ClockStaysBounded
<1>3. LoopBounds'
  BY <1>1, <1>2 DEF LoopBounds, Iteration, Steps
<1>4. ResultBounds'
  BY <1>1, TriggerHeardIsNoStop DEF ResultBounds
<1>. QED  BY <1>3, <1>4

(* The result an expression's failed wait may still take is never that of a stop. *)
LEMMA AwaitExpressionStaysBounded == ASSUME CaptureInv, BoundsInv, AwaitExpression PROVE BoundsInv'
<1>. USE DEF CaptureInv, BoundsInv
<1>1. /\ pc = "apply" /\ pc' \in {"poll", "close"}
      /\ UNCHANGED <<cfg, index, clock, page, stop, frames>>
      /\ motionResult' \in {"trigger", motionResult, page.result}
  BY DEF AwaitExpression, Throw
<1>2. page.stops = 0
  <2>1. ~stop.dispatched
    BY <1>1, ConfigFacts DEF ResultBounds, PageInv
  <2>2. failures = {}
    BY <1>1 DEF LoopInv, Iteration
  <2>. QED  BY <2>1, <2>2 DEF PageInv
<1>3. page.result \in {"none", "trigger"}
  BY <1>2 DEF ResultBounds, CaptureTypes, Pages
<1>4. LoopBounds'
  BY <1>1 DEF LoopBounds, Iteration, Steps
<1>. QED  BY <1>1, <1>3, <1>4 DEF ResultBounds

LEMMA PollTriggerStaysBounded == ASSUME CaptureInv, BoundsInv, PollTrigger PROVE BoundsInv'
<1>. USE DEF CaptureInv, BoundsInv
<1>1. /\ pc = "poll" /\ pc' \in {"stop", "count"}
      /\ UNCHANGED <<cfg, index, clock, page, frames>>
      /\ motionResult' \in {"trigger", motionResult}
  BY DEF PollTrigger, ReadTriggerResult
<1>. QED  BY <1>1 DEF LoopBounds, ResultBounds, Iteration, Steps

LEMMA DispatchDanceStopStaysBounded ==
    ASSUME CaptureInv, BoundsInv, ScheduledStop \/ FailSafeStop PROVE BoundsInv'
<1>. USE DEF CaptureInv, BoundsInv
<1>1. /\ UNCHANGED <<cfg, index, frames, motionResult>>
      /\ pc \in {"stop", "failsafe"} /\ (pc = "failsafe" => pc' = "return")
      /\ pc' \in {"count", "close", "return"}
      /\ page' \in {page, StopHeard} /\ \E lag \in cfg.lags : Passes(lag)
  BY DEF ScheduledStop, FailSafeStop, DispatchDanceStop
<1>2. clock' <= MaxClock /\ clock' \in Nat
  BY <1>1, ClockStaysBounded, ClockAdvances
<1>3. page' = page \/ page'.stops > 0
  <2>1. page \in Pages /\ page.stops \in Nat
    BY DEF CaptureTypes, Pages
  <2>2. StopHeard.stops = page.stops + 1
    BY <1>2, <2>1, StopHeardFacts
  <2>. QED  BY <1>1, <2>1, <2>2
<1>4. LoopBounds'
  BY <1>1, <1>2 DEF LoopBounds, Iteration, Steps
<1>5. ResultBounds'
  BY <1>1, <1>3 DEF ResultBounds
<1>. QED  BY <1>4, <1>5

LEMMA CaptureFrameStaysBounded == ASSUME CaptureInv, BoundsInv, CaptureFrame PROVE BoundsInv'
<1>. USE DEF CaptureInv, BoundsInv
<1>1. /\ pc = "shot" /\ pc' = "frame" /\ index' = index + 1
      /\ UNCHANGED <<cfg, page, motionResult>>
  BY DEF CaptureFrame
<1>2. index + 1 \in Nat /\ index + 1 <= FrameCount(cfg)
  BY <1>1, FrameCountFacts DEF CaptureTypes, LoopBounds, Iteration
<1>3. clock' <= MaxClock
  <2>1. Nominal(index + 1) <= MaxClock
    BY <1>2, FrameCountFacts
  <2>. QED  BY <2>1 DEF CaptureFrame
<1>4. Len(frames') <= index'
  <2>1. frames \in Seq([heard : BOOLEAN, stopped : BOOLEAN]) /\ Len(frames) <= index /\ index \in Nat
    BY DEF CaptureTypes, LoopBounds
  <2>2. PICK frame : frames' = Append(frames, frame)
    BY DEF CaptureFrame
  <2>3. Len(frames') = Len(frames) + 1 /\ Len(frames) \in Nat
    BY <2>1, <2>2
  <2>. QED  BY <1>1, <2>1, <2>3
<1>5. LoopBounds'
  BY <1>1, <1>2, <1>3, <1>4 DEF LoopBounds, Iteration, Steps
<1>. QED  BY <1>1, <1>5 DEF ResultBounds

(* The steps that touch neither the clock, the page nor the frames. *)
LEMMA QuietStepStaysBounded ==
    ASSUME CaptureInv, BoundsInv, CountDances \/ CaptureFails \/ CloseSession \/ ReturnCapture
    PROVE  BoundsInv'
<1>. USE DEF CaptureInv, BoundsInv
<1>1. /\ UNCHANGED <<cfg, index, clock, page, frames>>
      /\ motionResult' \in {motionResult, "trigger"}
      /\ \/ pc = "count" /\ pc' = "shot"
         \/ pc' \in {"close", "failsafe", "return", "captured", "failed"}
  BY DEF CountDances, CaptureFails, CloseSession, ReturnCapture, ReadTriggerResult, Throw
<1>. QED  BY <1>1 DEF LoopBounds, ResultBounds, Iteration, Steps

LEMMA CaptureStaysBounded == ASSUME CaptureInv, BoundsInv, CaptureNext PROVE BoundsInv'
  BY PageStepStaysBounded, BeginFrameStaysBounded, DispatchTriggerStaysBounded,
     AwaitExpressionStaysBounded, PollTriggerStaysBounded, DispatchDanceStopStaysBounded,
     CaptureFrameStaysBounded, QuietStepStaysBounded DEF CaptureNext

-----------------------------------------------------------------------------
(* The packet *)

(* There is a packet once there was an analysis, and it is one that may be judged. *)
PacketInv ==
    /\ judgments \in 0 .. MaxJudgments
    /\ pc \in {"analyzed", "published"} \/ packet # NoPacket => IsPacket(packet)

LEMMA AnalyzePublishesPacket == ASSUME CaptureInv, PacketInv, Analyze PROVE PacketInv'
<1>1. PICK whose \in ResultRead, seen \in Observations(cfg) :
         packet' = BuildSelfMirrorMetricSummary(AnalyzeFrames(AnalyzerRun(whose, seen)))
  BY DEF Analyze
<1>. DEFINE input == AnalyzerRun(whose, seen)
<1>2. input.rois = cfg.rois /\ input.frames = seen.frames
  BY DEF AnalyzerRun
<1>. HIDE DEF input
<1>3. cfg \in Configs
  BY DEF CaptureInv, CaptureTypes
<1>4. IsFiniteSet(cfg.rois) /\ PixelsAreNumbers(seen.frames, cfg.rois)
  <2>1. Len(seen.frames) \in Nat
    BY <1>3, ProofAssumption, FrameCountFacts DEF CaptureInv
  <2>. QED  BY <1>3, <2>1, ProofAssumption DEF PixelsAreNumbers
<1>5. IsFiniteSet(input.rois) /\ PixelsAreNumbers(input.frames, input.rois)
  BY <1>2, <1>4
<1>6. IsPacket(packet')
  BY <1>1, <1>5, AnalysisIsPacket DEF input
<1>7. judgments' = judgments
  BY DEF Analyze
<1>. QED  BY <1>6, <1>7 DEF PacketInv

(* What a judgment leaves of the packet it judges, and what it makes of it. *)
LEMMA JudgeFacts ==
    ASSUME PacketInv, NEW profile, NEW cases,
           packet' = AttachAutoJudgment(packet, JudgeMetricSummary(packet, profile, cases)),
           IsPacket(packet)
    PROVE  /\ IsPacket(packet)'
           /\ packet'.judgment = JudgeMetricSummary(packet, profile, cases)
           /\ packet'.confidence = packet'.judgment.confidence
           /\ packet'.confidence <= packet.confidence
           /\ packet'.review = (packet'.judgment.result = "unclear")
           /\ packet'.id = packet.id /\ packet'.scenario = packet.scenario
           /\ packet'.refs = packet.refs /\ packet'.metrics = packet.metrics
           /\ packet'.result = packet.result /\ packet'.latest = packet.latest
<1>. DEFINE judgment == JudgeMetricSummary(packet, profile, cases)
<1>1. /\ judgment.confidence \in Thousandths /\ judgment.confidence <= packet.confidence
      /\ judgment.result \in {"pass", "fail", "unclear"}
      /\ judgment.review = (judgment.result = "unclear")
  BY JudgmentShape DEF IsPacket
<1>. HIDE DEF judgment
<1>2. packet' = AttachAutoJudgment(packet, judgment) /\ DOMAIN packet = Fields
  BY DEF judgment, IsPacket
<1>3. /\ DOMAIN packet' = Fields /\ packet'.judgment = judgment
      /\ packet'.confidence = judgment.confidence /\ packet'.review = judgment.review
      /\ packet'.id = packet.id /\ packet'.scenario = packet.scenario
      /\ packet'.refs = packet.refs /\ packet'.metrics = packet.metrics
      /\ packet'.result = packet.result /\ packet'.latest = packet.latest
  BY <1>2, AttachTouches
<1>4. IsPacket(packet)'
  BY <1>1, <1>3 DEF IsPacket, MetricsAreNumbers
<1>. QED  BY <1>1, <1>3, <1>4 DEF judgment

LEMMA JudgeKeepsPacket == ASSUME PacketInv, Judge PROVE PacketInv'
<1>1. PICK profile, cases :
         packet' = AttachAutoJudgment(packet, JudgeMetricSummary(packet, profile, cases))
  BY DEF Judge
<1>2. pc = "published" /\ judgments < MaxJudgments /\ judgments' = judgments + 1
  BY DEF Judge
<1>3. IsPacket(packet)
  BY <1>2 DEF PacketInv
<1>4. IsPacket(packet)'
  BY <1>1, <1>3, JudgeFacts
<1>5. judgments' \in 0 .. MaxJudgments
  BY <1>2, ProofAssumption DEF PacketInv
<1>. QED  BY <1>4, <1>5 DEF PacketInv

(* Everything an invariant of a proof run needs, of any step that is taken. *)
ProofInv == CaptureInv /\ BoundsInv /\ PacketInv

LEMMA ProofInvHoldsAtFirst == ASSUME ProofInit PROVE ProofInv
<1>1. CaptureInv
  BY FreshHolds DEF ProofInit, CaptureInit
<1>2. LoopBounds
  <2>1. 0 < FrameCount(cfg) /\ FrameCount(cfg) \in Nat
    BY <1>1, FrameCountFacts DEF CaptureInv
  <2>2. index = 0 /\ clock = 0 /\ frames = <<>> /\ pc = "frame"
    BY DEF ProofInit, CaptureInit
  <2>. QED  BY <2>1, <2>2, CaptureAssumption DEF LoopBounds, Iteration, Steps
<1>3. ResultBounds
  BY DEF ProofInit, CaptureInit, ResultBounds, FreshPage
<1>4. PacketInv
  BY ProofAssumption DEF ProofInit, CaptureInit, PacketInv
<1>. QED  BY <1>1, <1>2, <1>3, <1>4 DEF ProofInv, BoundsInv

LEMMA ProofInvIsInductive == ASSUME ProofInv, [ProofNext]_proofVars PROVE ProofInv'
<1>. USE DEF ProofInv
<1>1. CASE Capture
  <2>1. CaptureInv' /\ BoundsInv'
    BY <1>1, CaptureKeeps, CaptureStaysBounded DEF Capture
  <2>2. pc \in Steps /\ UNCHANGED <<packet, judgments>>
    BY <1>1 DEF Capture, CaptureNext, BeginFrame, TriggerInLoop, TriggerLate, DispatchTrigger,
           AwaitExpression, PollTrigger, ScheduledStop, FailSafeStop, DispatchDanceStop, CountDances,
           CaptureFrame, CaptureFails, CloseSession, ReturnCapture, PageStep, Steps
  <2>3. pc' \in Steps \cup {"captured", "failed"}
    BY <1>1 DEF Capture, CaptureNext, BeginFrame, TriggerInLoop, TriggerLate, DispatchTrigger,
           AwaitExpression, PollTrigger, ScheduledStop, FailSafeStop, DispatchDanceStop, CountDances,
           CaptureFrame, CaptureFails, CloseSession, ReturnCapture, PageStep, Steps, Throw
  <2>4. PacketInv'
    BY <2>2, <2>3 DEF PacketInv, Steps
  <2>. QED  BY <2>1, <2>4
<1>2. CASE Analyze
  <2>1. CaptureInv'
    BY <1>2, AfterCaptureKeeps DEF Analyze, Steps
  <2>2. BoundsInv'
    BY <1>2 DEF Analyze, BoundsInv, LoopBounds, ResultBounds, Iteration
  <2>. QED  BY <1>2, <2>1, <2>2, AnalyzePublishesPacket
<1>3. CASE RemoveBrowserRawInputs
  <2>1. CaptureInv'
    BY <1>3, RemoveKeeps
  <2>2. LoopBounds'
    <3>1. 0 < FrameCount(cfg) /\ FrameCount(cfg) \in Nat
      BY FrameCountFacts DEF CaptureInv
    <3>2. cfg' = cfg /\ index' = 0 /\ clock' = 0 /\ frames' = <<>> /\ pc' \in {"published", "abandoned"}
      BY <1>3 DEF RemoveBrowserRawInputs
    <3>. QED  BY <3>1, <3>2, CaptureAssumption DEF LoopBounds, Iteration
  <2>3. ResultBounds'
    BY <1>3 DEF RemoveBrowserRawInputs, ResultBounds, FreshPage
  <2>4. PacketInv'
    BY <1>3 DEF RemoveBrowserRawInputs, PacketInv
  <2>. QED  BY <2>1, <2>2, <2>3, <2>4 DEF BoundsInv
<1>4. CASE Judge
  <2>1. CaptureInv'
    BY <1>4, AfterCaptureKeeps DEF Judge
  <2>2. BoundsInv'
    BY <1>4 DEF Judge, BoundsInv, LoopBounds, ResultBounds
  <2>. QED  BY <1>4, <2>1, <2>2, JudgeKeepsPacket
<1>5. CASE UNCHANGED proofVars
  <2>1. CaptureInv'
    BY <1>5, AfterCaptureKeeps DEF proofVars
  <2>2. BoundsInv' /\ PacketInv'
    BY <1>5 DEF proofVars, BoundsInv, LoopBounds, ResultBounds, PacketInv
  <2>. QED  BY <2>1, <2>2
<1>. QED  BY <1>1, <1>2, <1>3, <1>4, <1>5 DEF ProofNext, Done

(* The inductive invariant of a whole proof run: the capture's, its bounds, and that what   *)
(* was published can be judged.                                                              *)
THEOREM ProofInvariant == ProofSpec => []ProofInv
  BY ProofInvHoldsAtFirst, ProofInvIsInductive, PTL DEF ProofSpec

(* The types: the loop ends within its frames and its clock's bound, the result taken is    *)
(* never the stop's, and a packet's status, confidence and judgment are those promised, for  *)
(* every score a region may have.                                                            *)
THEOREM ProofTypesHold == ProofSpec => []ProofTypeOK
<1>1. ProofInv => ProofTypeOK
  <2>. SUFFICES ASSUME ProofInv PROVE ProofTypeOK
    OBVIOUS
  <2>. USE DEF ProofInv
  <2>1. /\ cfg \in Configs /\ index \in Nat /\ clock \in Nat /\ elapsed \in Nat /\ elapsed <= clock
        /\ page.result \in {"none", "trigger", "stop"}
    BY DEF CaptureInv, CaptureTypes, LoopInv, Pages
  <2>2. /\ pc \in Steps \cup {"captured", "failed", "analyzed", "published", "abandoned"}
        /\ index <= FrameCount(cfg) /\ clock <= MaxClock /\ Len(frames) <= index
        /\ motionResult \in {"none", "trigger"}
    BY DEF BoundsInv, LoopBounds, ResultBounds
  <2>3. FrameCount(cfg) \in Nat /\ MaxClock \in Nat
    BY CaptureAssumption, FrameCountFacts DEF CaptureInv
  <2>4. judgments \in 0 .. MaxJudgments
    BY DEF PacketInv
  <2>5. packet # NoPacket =>
          /\ packet.result \in {"pass", "partial", "blocked", "fail"}
          /\ packet.confidence \in 0 .. 1000
          /\ packet.judgment.result \in {"none", "pass", "fail", "unclear"}
    BY DEF PacketInv, IsPacket, Statuses, Thousandths
  <2>. QED  BY <2>1, <2>2, <2>3, <2>4, <2>5 DEF ProofTypeOK
<1>. QED  BY <1>1, ProofInvariant, PTL

-----------------------------------------------------------------------------
(* Judging *)

(* A pass holds what its profile asks for, on the packet as it is published. *)
LEMMA PassMeetsItsProfile ==
    ASSUME IsPacket(packet), NEW profile \in Profiles \cup {NoProfile}, NEW cases,
           packet'.judgment = JudgeMetricSummary(packet, profile, cases),
           packet'.judgment.result = "pass",
           packet'.confidence = packet'.judgment.confidence,
           packet'.scenario = packet.scenario, packet'.refs = packet.refs,
           packet'.metrics = packet.metrics
    PROVE  PassIsGuarded(packet')
<1>. DEFINE matching == MatchingReferenceCases(profile, cases, packet.scenario)
            Has(roi, window) == <<roi, window>> \in DOMAIN packet'.metrics
            Metric(roi, window) == packet'.metrics[<<roi, window>>]
            moved == {roi \in profile.rois : /\ Has(roi, "active")
                                             /\ Metric(roi, "active").movement >= profile.activeMin
                                             /\ Metric(roi, "active").samples >= profile.minSamples}
<1>1. packet.confidence \in Thousandths /\ MetricsAreNumbers(packet.metrics)
  BY DEF IsPacket
<1>2. /\ profile # NoProfile /\ profile.scenario = packet.scenario
      /\ profile.status \in {"active", "calibration"}
      /\ RunRefGaps(packet, profile, matching) = {}
      /\ PretriggerReasons(packet.metrics, profile) = {}
      /\ ActiveExpectedRoiResult(packet.metrics, profile).passed >= profile.minCount
      /\ Weakest(packet, profile) >= profile.passFloor
      /\ packet'.judgment.confidence = Weakest(packet, profile)
      /\ packet'.judgment.profile = profile.id
  BY <1>1, PassPassedTheGuards
<1>. HIDE DEF matching
<1>3. profile \in Profiles
  BY <1>2
<1>4. /\ IsFiniteSet(profile.rois) /\ profile.quietMax \in Nat /\ profile.activeMin \in Nat
      /\ profile.minSamples \in Nat /\ profile.minCount \in Nat
  BY <1>3, ProofAssumption
<1>5. \A field \in profile.fields : packet'.refs[field] # ""
  BY <1>2, ReferencesAreThere
<1>6. \A roi \in profile.rois :
         Has(roi, "pretrigger") => Metric(roi, "pretrigger").movement <= profile.quietMax
  BY <1>1, <1>2, <1>4, QuietBefore
<1>7. Cardinality(moved) >= profile.minCount
  <2>1. moved = Moved(packet.metrics, profile)
    BY DEF Moved
  <2>2. /\ ActiveExpectedRoiResult(packet.metrics, profile).passed \in Nat
        /\ Cardinality(Moved(packet.metrics, profile)) \in Nat
        /\ ActiveExpectedRoiResult(packet.metrics, profile).passed <=
               Cardinality(Moved(packet.metrics, profile))
    BY <1>1, <1>4, FaultlessHasMoved
  <2>. HIDE DEF moved
  <2>. QED  BY <1>2, <1>4, <2>1, <2>2
<1>8. profile.status # "draft" /\ packet'.confidence >= profile.passFloor
  BY <1>2
<1>. QED  BY <1>2, <1>3, <1>5, <1>6, <1>7, <1>8 DEF PassIsGuarded

(* A pass names an active profile of this scenario, rests on a run whose references are all  *)
(* there, on regions quiet before and moved enough after and on enough confidence; unclear   *)
(* is what needs a review; judging again never raises the confidence, gives the same          *)
(* judgment, and leaves the verdict alone: for every profile, set of cases and packet that     *)
(* a run can publish.                                                                          *)
THEOREM JudgmentsAreGuarded == ProofSpec => JudgmentIsGuarded
<1>1. ASSUME ProofInv, [ProofNext]_proofVars, judgments' > judgments
      PROVE  /\ packet'.judgment.result = "pass" => PassIsGuarded(packet') /\ ~packet'.review
             /\ packet'.judgment.result = "unclear" <=> packet'.review
             /\ packet'.confidence <= packet.confidence
             /\ \E p \in Profiles \cup {NoProfile}, cases \in CaseSets :
                   JudgeMetricSummary(packet', p, cases) = packet'.judgment
             /\ packet'.result = packet.result /\ packet'.latest = packet.latest
             /\ packet'.metrics = packet.metrics
  <2>1. judgments \in Nat /\ PacketInv
    BY <1>1, ProofAssumption DEF ProofInv, PacketInv
  <2>2. Judge
    BY <1>1, <2>1 DEF ProofNext, Capture, Analyze, RemoveBrowserRawInputs, Done, proofVars
  <2>3. PICK profile \in Profiles \cup {NoProfile}, cases \in CaseSets :
           packet' = AttachAutoJudgment(packet, JudgeMetricSummary(packet, profile, cases))
    BY <2>2 DEF Judge
  <2>4. IsPacket(packet)
    BY <2>1, <2>2 DEF PacketInv, Judge
  <2>5. /\ packet'.judgment = JudgeMetricSummary(packet, profile, cases)
        /\ packet'.confidence = packet'.judgment.confidence
        /\ packet'.confidence <= packet.confidence
        /\ packet'.review = (packet'.judgment.result = "unclear")
        /\ packet'.id = packet.id /\ packet'.scenario = packet.scenario
        /\ packet'.refs = packet.refs /\ packet'.metrics = packet.metrics
        /\ packet'.result = packet.result /\ packet'.latest = packet.latest
    BY <2>1, <2>3, <2>4, JudgeFacts
  <2>6. JudgeMetricSummary(packet', profile, cases) = packet'.judgment
    <3>1. packet.confidence \in Thousandths /\ MetricsAreNumbers(packet.metrics)
      BY <2>4 DEF IsPacket
    <3>2. packet'.confidence = JudgeMetricSummary(packet, profile, cases).confidence
      BY <2>5
    <3>. QED  BY <2>5, <3>1, <3>2, JudgedAgain
  <2>7. packet'.judgment.result = "unclear" <=> packet'.review
    BY <2>5
  <2>8. packet'.judgment.result = "pass" => PassIsGuarded(packet') /\ ~packet'.review
    <3>. SUFFICES ASSUME packet'.judgment.result = "pass"
                  PROVE  PassIsGuarded(packet') /\ ~packet'.review
      OBVIOUS
    <3>1. PassIsGuarded(packet')
      BY <2>4, <2>5, PassMeetsItsProfile
    <3>2. ~packet'.review
      BY <2>7
    <3>. QED  BY <3>1, <3>2
  <2>. QED  BY <2>5, <2>6, <2>7, <2>8
<1>. QED  BY <1>1, ProofInvariant, PTL DEF ProofSpec, JudgmentIsGuarded

-----------------------------------------------------------------------------
(* What was analyzed *)

(* The loop is left without a failure only after its last frame. *)
LengthInv ==
    /\ pc = "late" => index >= FrameCount(cfg)
    /\ pc \in {"close", "failsafe", "return"} /\ failures = {} => index >= FrameCount(cfg)
    /\ pc \in {"captured", "analyzed"} => Len(frames) >= FrameCount(cfg)

(* A page that is sent no trigger has no result to show. *)
SilentInv ==
    cfg.trigger = "none" =>
        /\ ~trigger.dispatched /\ motionResult = "none" /\ page.result = "none" /\ page.due = <<>>
        /\ pc \notin {"trigger", "apply", "late"}

(* What the analyzer was given of the configuration and the observation, and what it    *)
(* published.                                                                            *)
AnalyzedInv ==
    pc = "analyzed" =>
        /\ packet = BuildSelfMirrorMetricSummary(AnalyzeFrames(run))
        /\ run.scenario = cfg.scenario /\ run.layer = "visible_motion"
        /\ run.interval = cfg.interval /\ run.windows = NewSelfMirrorWindows(cfg)
        /\ run.rois = cfg.rois
        /\ Len(run.frames) = FrameCount(cfg) /\ PixelsAreNumbers(run.frames, run.rois)
        /\ cfg.trigger = "none" => run.join.result = ""

EvidenceInv == LengthInv /\ SilentInv /\ AnalyzedInv
-----------------------------------------------------------------------------
(* The evidence is kept *)

LEMMA LoopKeepsLength ==
    ASSUME CaptureInv, LengthInv,
           \/ BeginFrame \/ TriggerInLoop \/ TriggerLate \/ AwaitExpression \/ PollTrigger
           \/ CountDances \/ CaptureFrame \/ CaptureFails \/ PageStep
    PROVE  LengthInv'
<1>. USE DEF LengthInv
<1>1. CASE PageStep
  BY <1>1 DEF PageStep
<1>2. CASE BeginFrame
  <2>1. /\ UNCHANGED <<cfg, index, frames>> /\ pc' \in {"trigger", "poll", "late", "close"}
        /\ pc' \in {"late", "close"} => ~(index < FrameCount(cfg))
    BY <1>2 DEF BeginFrame
  <2>2. index \in Int /\ FrameCount(cfg) \in Int
    BY FrameCountFacts DEF CaptureInv, CaptureTypes
  <2>. QED  BY <2>1, <2>2
<1>3. CASE TriggerInLoop \/ AwaitExpression \/ PollTrigger \/ CountDances \/ CaptureFails
  <2>1. /\ UNCHANGED <<cfg, index, frames>>
        /\ \/ pc' \in {"apply", "poll", "stop", "count", "shot"}
           \/ pc' = "close" /\ failures' # {}
    BY <1>3 DEF TriggerInLoop, DispatchTrigger, AwaitExpression, PollTrigger, CountDances,
                CaptureFails, Throw
  <2>. QED  BY <2>1
<1>4. CASE TriggerLate
  BY <1>4 DEF TriggerLate, DispatchTrigger, Throw
<1>5. CASE CaptureFrame
  BY <1>5 DEF CaptureFrame
<1>. QED  BY <1>1, <1>2, <1>3, <1>4, <1>5

LEMMA EndKeepsLength ==
    ASSUME CaptureInv, LengthInv, ScheduledStop \/ CloseSession \/ FailSafeStop \/ ReturnCapture
    PROVE  LengthInv'
<1>. USE DEF LengthInv
<1>1. CASE ScheduledStop
  <2>1. DispatchDanceStop("stop", "count", "capture")
    BY <1>1 DEF ScheduledStop
  <2>2. UNCHANGED <<cfg, index, frames>>
    BY <2>1 DEF DispatchDanceStop
  <2>. DEFINE scheduled == pc = "stop"
  <2>3. scheduled
    BY <2>1 DEF DispatchDanceStop
  <2>4. \/ UNCHANGED failures /\ pc' = (IF scheduled THEN "count" ELSE "return")
        \/ /\ pc' = (IF scheduled THEN "close" ELSE "return")
           /\ failures' = failures \cup {"capture"}
    BY <2>1 DEF DispatchDanceStop
  <2>. QED  BY <2>2, <2>3, <2>4
<1>2. CASE CloseSession \/ FailSafeStop
  <2>1. /\ UNCHANGED <<cfg, index, frames>> /\ pc \in {"close", "failsafe"}
        /\ pc' \in {"failsafe", "return"} /\ failures \subseteq failures'
    BY <1>2 DEF CloseSession, FailSafeStop, DispatchDanceStop
  <2>. QED  BY <2>1
<1>3. CASE ReturnCapture
  <2>1. /\ UNCHANGED <<cfg, index, frames>> /\ pc = "return" /\ pc' \in {"captured", "failed"}
        /\ pc' = "captured" => failures = {}
    BY <1>3 DEF ReturnCapture
  <2>2. Len(frames) = index
    BY <2>1 DEF CaptureInv, FrameInv, Steps
  <2>. QED  BY <2>1, <2>2
<1>. QED  BY <1>1, <1>2, <1>3

LEMMA CaptureKeepsSilent == ASSUME CaptureInv, SilentInv, CaptureNext PROVE SilentInv'
<1>. SUFFICES ASSUME cfg.trigger = "none" PROVE SilentInv'
  <2>1. cfg' = cfg
    BY DEF CaptureNext, BeginFrame, TriggerInLoop, TriggerLate, DispatchTrigger,
           AwaitExpression, PollTrigger, ScheduledStop, FailSafeStop, DispatchDanceStop, CountDances,
           CaptureFrame, CaptureFails, CloseSession, ReturnCapture, PageStep
  <2>. QED  BY <2>1 DEF SilentInv
<1>. USE DEF SilentInv
<1>1. ~trigger.dispatched /\ pc \notin {"trigger", "apply", "late", "stop", "failsafe"}
  BY DEF CaptureInv, EndInv
<1>2. CASE PageStep
  <2>1. /\ UNCHANGED <<cfg, pc, trigger, motionResult>>
        /\ page' = page \/ page' = [page EXCEPT !.applied = TRUE]
    BY <1>2 DEF PageStep, PublishResult, ApplyFrame
  <2>2. page'.result = page.result /\ page'.due = page.due
    BY <2>1 DEF CaptureInv, CaptureTypes, Pages
  <2>. QED  BY <2>1, <2>2
<1>3. CASE BeginFrame
  BY <1>3 DEF BeginFrame, TriggerDue
<1>4. CASE PollTrigger \/ ReturnCapture
  <2>1. UNCHANGED <<trigger, page>> /\ motionResult' = motionResult
        /\ pc' \in {"stop", "count", "captured", "failed"}
    BY <1>1, <1>4 DEF PollTrigger, ReturnCapture, ReadTriggerResult
  <2>. QED  BY <2>1
<1>5. CASE CountDances \/ CaptureFrame \/ CaptureFails \/ CloseSession
  BY <1>1, <1>5 DEF CountDances, CaptureFrame, CaptureFails, CloseSession, Throw
<1>. QED  BY <1>1, <1>2, <1>3, <1>4, <1>5 DEF CaptureNext, TriggerInLoop, TriggerLate, DispatchTrigger,
            AwaitExpression, ScheduledStop, FailSafeStop, DispatchDanceStop

LEMMA AnalyzeGivesEvidence ==
    ASSUME CaptureInv, EvidenceInv, Analyze PROVE EvidenceInv'
<1>. USE DEF EvidenceInv
<1>1. PICK whose \in ResultRead, seen \in Observations(cfg) :
         /\ run' = AnalyzerRun(whose, seen)
         /\ packet' = BuildSelfMirrorMetricSummary(AnalyzeFrames(AnalyzerRun(whose, seen)))
  BY DEF Analyze
<1>2. /\ pc = "captured" /\ pc' = "analyzed"
      /\ UNCHANGED <<cfg, index, page, trigger, motionResult, frames, failures>>
  BY DEF Analyze
<1>3. /\ run'.scenario = cfg.scenario /\ run'.layer = "visible_motion"
      /\ run'.interval = cfg.interval /\ run'.windows = NewSelfMirrorWindows(cfg)
      /\ run'.rois = cfg.rois /\ run'.frames = seen.frames
      /\ run'.join = RuntimeJoin(whose, seen)
  BY <1>1 DEF AnalyzerRun
<1>4. cfg \in Configs
  BY DEF CaptureInv, CaptureTypes
<1>5. Len(seen.frames) = FrameCount(cfg) /\ PixelsAreNumbers(seen.frames, cfg.rois)
  <2>1. Len(seen.frames) = FrameCount(cfg) /\ FrameCount(cfg) \in Nat
    BY <1>4, ProofAssumption, FrameCountFacts DEF CaptureInv
  <2>. QED  BY <1>4, <2>1, ProofAssumption DEF PixelsAreNumbers
<1>6. cfg.trigger = "none" => run'.join.result = ""
  <2>. SUFFICES ASSUME cfg.trigger = "none" PROVE run'.join.result = ""
    OBVIOUS
  <2>1. whose = "none"
    BY DEF SilentInv, ResultRead
  <2>2. RuntimeJoin("none", seen).result = ""
    BY DEF RuntimeJoin
  <2>. QED  BY <1>3, <2>1, <2>2
<1>7. AnalyzedInv'
  <2>1. packet' = BuildSelfMirrorMetricSummary(AnalyzeFrames(run'))
    BY <1>1
  <2>2. NewSelfMirrorWindows(cfg') = NewSelfMirrorWindows(cfg)
    BY <1>2
  <2>. QED  BY <1>2, <1>3, <1>5, <1>6, <2>1, <2>2 DEF AnalyzedInv
<1>8. LengthInv'
  BY <1>2 DEF LengthInv
<1>9. SilentInv'
  BY <1>2 DEF SilentInv
<1>. QED  BY <1>7, <1>8, <1>9

LEMMA EvidenceHoldsAtFirst == ASSUME ProofInit PROVE EvidenceInv
  BY DEF ProofInit, CaptureInit, EvidenceInv, LengthInv, SilentInv, AnalyzedInv, FreshPage,
         NotDispatched

LEMMA EvidenceIsInductive ==
    ASSUME CaptureInv, EvidenceInv, [ProofNext]_proofVars PROVE EvidenceInv'
<1>. USE DEF EvidenceInv
<1>1. CASE Capture
  <2>1. CaptureNext
    BY <1>1 DEF Capture
  <2>2. LengthInv'
    BY <2>1, LoopKeepsLength, EndKeepsLength DEF CaptureNext
  <2>3. SilentInv'
    BY <2>1, CaptureKeepsSilent
  <2>4. pc' # "analyzed"
    BY <2>1 DEF CaptureNext, BeginFrame, TriggerInLoop, TriggerLate, DispatchTrigger,
           AwaitExpression, PollTrigger, ScheduledStop, FailSafeStop, DispatchDanceStop, CountDances,
           CaptureFrame, CaptureFails, CloseSession, ReturnCapture, PageStep, Steps, Throw
  <2>. QED  BY <2>2, <2>3, <2>4 DEF AnalyzedInv
<1>2. CASE Analyze
  BY <1>2, AnalyzeGivesEvidence
<1>3. CASE RemoveBrowserRawInputs
  BY <1>3 DEF RemoveBrowserRawInputs, LengthInv, SilentInv, AnalyzedInv, FreshPage, NotDispatched
<1>4. CASE Judge
  BY <1>4 DEF Judge, LengthInv, SilentInv, AnalyzedInv
<1>5. CASE UNCHANGED proofVars
  <2>1. UNCHANGED <<cfg, pc, index, page, trigger, motionResult, frames, failures, run, packet>>
    BY <1>5 DEF proofVars
  <2>2. LengthInv' /\ SilentInv'
    BY <2>1 DEF LengthInv, SilentInv
  <2>3. AnalyzedInv'
    BY <2>1, Zenon DEF AnalyzedInv
  <2>. QED  BY <2>2, <2>3
<1>. QED  BY <1>1, <1>2, <1>3, <1>4, <1>5 DEF ProofNext, Done
-----------------------------------------------------------------------------
(* The windows of a run *)

LEMMA OneMore ==
    ASSUME NEW S, NEW s \in Seq(S), NEW n \in Nat, Len(s) = n, NEW x \in S
    PROVE  /\ Append(s, x) \in Seq(S) /\ Len(Append(s, x)) = n + 1
           /\ \A i \in 1 .. n : Append(s, x)[i] = s[i]
           /\ Append(s, x)[n + 1] = x
  BY AppendProperties

LEMMA Joined ==
    ASSUME NEW a, NEW b, NEW c, NEW d, NEW e, NEW short, NEW long,
           short = <<a, b, c>> \o <<>> \o <<e>>, long = <<a, b, c>> \o <<d>> \o <<e>>
    PROVE  /\ DOMAIN short = 1 .. 4 /\ short[1] = a /\ short[2] = b /\ short[3] = c /\ short[4] = e
           /\ DOMAIN long = 1 .. 5 /\ long[1] = a /\ long[2] = b /\ long[3] = c
           /\ long[4] = d /\ long[5] = e
<1>. DEFINE S == {a, b, c, d, e}
<1>1. a \in S /\ b \in S /\ c \in S /\ d \in S /\ e \in S
  OBVIOUS
<1>. HIDE DEF S
<1>. DEFINE three == <<a, b, c>>
<1>2. /\ three \in Seq(S) /\ Len(three) = 3 /\ three[1] = a /\ three[2] = b /\ three[3] = c
  BY <1>1
<1>3. three \o <<>> = three
  BY <1>2, ConcatEmptySeq
<1>. HIDE DEF three
<1>4. short = Append(three, e)
  BY <1>1, <1>2, <1>3, AppendIsConcat DEF three
<1>. DEFINE four == Append(three, d)
<1>5. three \o <<d>> = four
  BY <1>1, <1>2, AppendIsConcat
<1>6. /\ four \in Seq(S) /\ Len(four) = 4 /\ four[1] = a /\ four[2] = b /\ four[3] = c
      /\ four[4] = d
  <2>. DEFINE n == 3
  <2>1. n \in Nat /\ Len(three) = n
    BY <1>2
  <2>. HIDE DEF n
  <2>2. /\ four \in Seq(S) /\ Len(four) = n + 1 /\ four[n + 1] = d
        /\ \A i \in 1 .. n : four[i] = three[i]
    BY <1>1, <1>2, <2>1, OneMore
  <2>3. n + 1 = 4 /\ {1, 2, 3} \subseteq 1 .. n
    BY DEF n
  <2>. HIDE DEF four
  <2>. QED  BY <1>2, <2>2, <2>3
<1>. HIDE DEF four
<1>7. long = Append(four, e)
  BY <1>1, <1>5, <1>6, AppendIsConcat DEF three
<1>8. /\ DOMAIN short = 1 .. 4 /\ short[1] = a /\ short[2] = b /\ short[3] = c /\ short[4] = e
  BY <1>2, <1>4
<1>9. /\ DOMAIN long = 1 .. 5 /\ long[1] = a /\ long[2] = b /\ long[3] = c
      /\ long[4] = d /\ long[5] = e
  <2>. DEFINE n == 4
  <2>1. n \in Nat /\ Len(four) = n
    BY <1>6
  <2>. HIDE DEF n
  <2>. DEFINE five == Append(four, e)
  <2>2. /\ five \in Seq(S) /\ Len(five) = n + 1 /\ five[n + 1] = e
        /\ \A i \in 1 .. n : five[i] = four[i]
    BY <1>1, <1>6, <2>1, OneMore
  <2>3. n + 1 = 5 /\ {1, 2, 3, 4} \subseteq 1 .. n
    BY DEF n
  <2>4. long = five
    BY <1>7
  <2>. HIDE DEF five
  <2>5. DOMAIN long = 1 .. 5
    BY <2>2, <2>3, <2>4
  <2>. QED  BY <1>6, <2>2, <2>3, <2>4, <2>5
<1>. QED  BY <1>8, <1>9

(* The windows follow one another, and the active one opens with the trigger. *)
LEMMA WindowsOfRun ==
    ASSUME CaptureTypes, NEW windows, windows = NewSelfMirrorWindows(cfg)
    PROVE  /\ AreApart(windows)
           /\ cfg.trigger # "none" =>
                 \A i \in DOMAIN windows : windows[i].id = "active" => windows[i].from >= cfg.triggerAt
<1>. DEFINE template == cfg.scenario.template
            dur == Max({1, cfg.duration})
            latest == dur - 1
            begin == Min({cfg.triggerAt, latest})
            start == Max({1, begin})
            stopOrActive == IF cfg.stopAt > 0 THEN cfg.stopAt ELSE start + template.active
            active == Min({dur, stopOrActive})
            activeEnd == Max({start + 1, active})
            margin == IF cfg.stopAt > 0 THEN Margin ELSE 0
            released == activeEnd + template.release + margin
            release == Min({dur, released})
            releaseEnd == Max({activeEnd + 1, release})
            watches == cfg.stopAt <= 0 /\ template.late > 0 /\ releaseEnd < dur
            watched == releaseEnd + template.late
            late == Min({dur, watched})
            lateEnd == Max({releaseEnd + 1, late})
            settleStart == IF watches THEN lateEnd ELSE releaseEnd
            end == Max({settleStart + 1, dur})
            Window(id, from, until) == [id |-> id, from |-> from, until |-> until]
            w1 == Window("pretrigger", 0, start)
            w2 == Window("active", start, activeEnd)
            w3 == Window("release", activeEnd, releaseEnd)
            w4 == Window("late_watch", releaseEnd, lateEnd)
            w5 == Window("settle", settleStart, end)
<1>1. windows = <<w1, w2, w3>> \o (IF watches THEN <<w4>> ELSE <<>>) \o <<w5>>
  BY DEF NewSelfMirrorWindows
<1>2. /\ cfg.duration \in Nat /\ cfg.duration > 0 /\ cfg.triggerAt \in Nat /\ cfg.triggerAt >= 1
      /\ cfg.trigger # "none" => cfg.triggerAt < cfg.duration
      /\ cfg.stopAt \in Nat /\ Margin \in Nat
      /\ template.active \in Nat /\ template.release \in Nat /\ template.late \in Nat
  BY CaptureAssumption, ProofAssumption DEF CaptureTypes, ValidArguments
<1>. HIDE DEF template
<1>3. dur = cfg.duration
  <2>1. 1 \in Int /\ cfg.duration \in Int
    BY <1>2
  <2>2. dur = IF 1 >= cfg.duration THEN 1 ELSE cfg.duration
    BY <2>1, OfTwo
  <2>. HIDE DEF dur
  <2>. QED  BY <1>2, <2>2
<1>. HIDE DEF dur
<1>4. begin \in Int /\ (cfg.trigger # "none" => begin >= cfg.triggerAt)
  <2>1. latest \in Int
    BY <1>2, <1>3
  <2>. HIDE DEF latest
  <2>2. begin = IF cfg.triggerAt <= latest THEN cfg.triggerAt ELSE latest
    BY <1>2, <2>1, OfTwo
  <2>. QED  BY <1>2, <1>3, <2>1, <2>2 DEF latest
<1>. HIDE DEF begin
<1>5. start \in Int /\ start >= 1 /\ (cfg.trigger # "none" => start >= cfg.triggerAt)
  <2>1. start = IF 1 >= begin THEN 1 ELSE begin
    BY <1>4, OfTwo
  <2>. QED  BY <1>2, <1>4, <2>1
<1>. HIDE DEF start
<1>6. ASSUME NEW a \in Int, NEW b \in Int, NEW c \in Int
      PROVE  Max({a + 1, Min({b, c})}) \in Int /\ Max({a + 1, Min({b, c})}) > a
  <2>1. Min({b, c}) \in Int
    BY OfTwo
  <2>. DEFINE d == a + 1
              e == Min({b, c})
  <2>2. d \in Int
    OBVIOUS
  <2>. HIDE DEF d, e
  <2>3. Max({d, e}) = IF d >= e THEN d ELSE e
    BY <2>1, <2>2, OfTwo DEF e
  <2>. QED  BY <2>1, <2>2, <2>3 DEF d, e
<1>7. activeEnd \in Int /\ activeEnd > start
  <2>1. dur \in Int /\ stopOrActive \in Int
    BY <1>2, <1>3, <1>5
  <2>. HIDE DEF stopOrActive
  <2>. QED  BY <1>5, <1>6, <2>1
<1>. HIDE DEF activeEnd
<1>8. releaseEnd \in Int /\ releaseEnd > activeEnd
  <2>1. dur \in Int /\ released \in Int
    BY <1>2, <1>3, <1>7
  <2>. HIDE DEF released
  <2>. QED  BY <1>6, <1>7, <2>1
<1>. HIDE DEF releaseEnd
<1>9. lateEnd \in Int /\ lateEnd > releaseEnd
  <2>1. dur \in Int /\ watched \in Int
    BY <1>2, <1>3, <1>8
  <2>. HIDE DEF watched
  <2>. QED  BY <1>6, <1>8, <2>1
<1>. HIDE DEF lateEnd, watches
<1>10. settleStart \in Int /\ end \in Int
  <2>1. settleStart \in Int /\ settleStart + 1 \in Int /\ dur \in Int
    BY <1>2, <1>3, <1>8, <1>9
  <2>. HIDE DEF settleStart
  <2>2. Max({settleStart + 1, dur}) \in Int
    BY <2>1, OfTwo
  <2>. QED  BY <2>1, <2>2
<1>. HIDE DEF end
<1>11. /\ w1.id = "pretrigger" /\ w1.from = 0 /\ w1.until = start
       /\ w2.id = "active" /\ w2.from = start /\ w2.until = activeEnd
       /\ w3.id = "release" /\ w3.from = activeEnd /\ w3.until = releaseEnd
       /\ w4.id = "late_watch" /\ w4.from = releaseEnd /\ w4.until = lateEnd
       /\ w5.id = "settle" /\ w5.from = settleStart /\ w5.until = end
  OBVIOUS
<1>. HIDE DEF w1, w2, w3, w4, w5
<1>. DEFINE short == <<w1, w2, w3>> \o <<>> \o <<w5>>
            long == <<w1, w2, w3>> \o <<w4>> \o <<w5>>
<1>12. /\ DOMAIN short = 1 .. 4 /\ short[1] = w1 /\ short[2] = w2 /\ short[3] = w3 /\ short[4] = w5
       /\ DOMAIN long = 1 .. 5 /\ long[1] = w1 /\ long[2] = w2 /\ long[3] = w3
       /\ long[4] = w4 /\ long[5] = w5
  BY Joined
<1>13. (watches => windows = long) /\ (~watches => windows = short)
  BY <1>1
<1>. HIDE DEF short, long
<1>14. CASE watches
  <2>1. /\ DOMAIN windows = 1 .. 5 /\ windows[1] = w1 /\ windows[2] = w2 /\ windows[3] = w3
        /\ windows[4] = w4 /\ windows[5] = w5
    BY <1>14, <1>12, <1>13
  <2>2. settleStart = lateEnd
    BY <1>14
  <2>. HIDE DEF settleStart
  <2>3. \A i \in DOMAIN windows : i \in {1, 2, 3, 4, 5}
    BY <2>1
  <2>4. AreApart(windows)
    BY <1>5, <1>7, <1>8, <1>9, <1>10, <1>11, <2>1, <2>2, <2>3 DEF AreApart
  <2>5. \A i \in DOMAIN windows : windows[i].id = "active" => windows[i].from = start
    BY <1>11, <2>1, <2>3
  <2>. QED  BY <1>5, <2>4, <2>5
<1>15. CASE ~watches
  <2>1. /\ DOMAIN windows = 1 .. 4 /\ windows[1] = w1 /\ windows[2] = w2 /\ windows[3] = w3
        /\ windows[4] = w5
    BY <1>15, <1>12, <1>13
  <2>2. settleStart = releaseEnd
    BY <1>15
  <2>. HIDE DEF settleStart
  <2>3. \A i \in DOMAIN windows : i \in {1, 2, 3, 4}
    BY <2>1
  <2>4. AreApart(windows)
    BY <1>5, <1>7, <1>8, <1>9, <1>10, <1>11, <2>1, <2>2, <2>3 DEF AreApart
  <2>5. \A i \in DOMAIN windows : windows[i].id = "active" => windows[i].from = start
    BY <1>11, <2>1, <2>3
  <2>. QED  BY <1>5, <2>4, <2>5
<1>. QED  BY <1>14, <1>15

-----------------------------------------------------------------------------
(* The evidence, frame by frame *)

(* The regions and the rows the analyzer made of the run. *)
Regions == {ParseRoi(roi) : roi \in run.rois}
Rows == MeasuredRows(run.frames, run.interval, run.windows, Regions)

Analyzed == CaptureInv /\ EvidenceInv /\ pc = "analyzed"

LEMMA AnalyzedFacts ==
    ASSUME Analyzed
    PROVE  /\ run.interval \in Nat /\ run.interval > 0 /\ run.interval = cfg.interval
           /\ Len(run.frames) \in Nat /\ Len(run.frames) >= 2
           /\ AreApart(run.windows)
           /\ IsFiniteSet(Regions) /\ PixelsAreNumbers(run.frames, Regions)
           /\ run.rois = cfg.rois /\ run.rois # {}
<1>1. CaptureTypes /\ AnalyzedInv /\ cfg \in Configs
  BY DEF Analyzed, CaptureInv, EvidenceInv, CaptureTypes
<1>2. run.interval \in Nat /\ run.interval > 0 /\ run.interval = cfg.interval
  BY <1>1, CaptureAssumption DEF Analyzed, AnalyzedInv, CaptureTypes, ValidArguments
<1>3. Len(run.frames) \in Nat /\ Len(run.frames) >= 2
  <2>1. Len(run.frames) = FrameCount(cfg) /\ FrameCount(cfg) \in Nat
    BY <1>1, FrameCountFacts DEF Analyzed, AnalyzedInv
  <2>. DEFINE needed == (cfg.duration + cfg.interval - 1) \div cfg.interval
  <2>2. needed \in Int
    BY <1>1, <1>2, CaptureAssumption
  <2>3. FrameCount(cfg) = Max({2, needed})
    BY DEF FrameCount
  <2>. HIDE DEF needed
  <2>4. Max({2, needed}) = IF 2 >= needed THEN 2 ELSE needed
    <3>1. 2 \in Int
      OBVIOUS
    <3>. QED  BY <2>2, <3>1, OfTwo
  <2>. QED  BY <2>1, <2>2, <2>3, <2>4
<1>4. AreApart(run.windows)
  BY <1>1, WindowsOfRun DEF Analyzed, AnalyzedInv
<1>5. run.rois = cfg.rois /\ IsFiniteSet(run.rois) /\ run.rois # {}
  BY <1>1, ProofAssumption DEF Analyzed, AnalyzedInv
<1>6. IsFiniteSet(Regions)
  <2>. DEFINE f == [roi \in run.rois |-> ParseRoi(roi)]
  <2>1. Regions = {f[roi] : roi \in run.rois}
    BY DEF Regions
  <2>. HIDE DEF f
  <2>. QED  BY <1>5, <2>1, ImageIsFinite
<1>7. PixelsAreNumbers(run.frames, Regions)
  <2>1. PixelsAreNumbers(run.frames, run.rois)
    BY <1>1 DEF Analyzed, AnalyzedInv
  <2>2. \A roi \in run.rois : ParseRoi(roi).id = roi.id
    BY DEF ParseRoi
  <2>. QED  BY <2>1, <2>2 DEF PixelsAreNumbers, Regions
<1>. QED  BY <1>2, <1>3, <1>4, <1>5, <1>6, <1>7

(* A frame is in a window when the analyzer says so. *)
LEMMA FrameIsIn ==
    ASSUME Analyzed, NEW k \in Measured, NEW window, window # "outside"
    PROVE  In(k, window) <=> WindowOf(run.interval, run.windows, k) = window
<1>. DEFINE t == Nominal(k - 1)
<1>1. t = (k - 1) * run.interval /\ t \in Int
  BY AnalyzedFacts DEF Nominal, Measured
<1>2. WindowOf(run.interval, run.windows, k) = WindowIdAt(t, run.windows)
  BY <1>1 DEF WindowOf
<1>3. In(k, window) <=> \E i \in DOMAIN run.windows : /\ run.windows[i].id = window
                                                      /\ run.windows[i].from <= t /\ t < run.windows[i].until
  BY DEF In
<1>. HIDE DEF t
<1>4. AreApart(run.windows)
  BY AnalyzedFacts
<1>. QED  BY <1>1, <1>2, <1>3, <1>4, WindowAt

LEMMA NominalIsOrdered ==
    ASSUME Analyzed, NEW i \in Measured, NEW j \in Measured, i <= j
    PROVE  Nominal(i - 1) \in Int /\ Nominal(j - 1) \in Int /\ Nominal(i - 1) <= Nominal(j - 1)
<1>1. /\ i \in Int /\ j \in Int
      /\ Nominal(i - 1) = (i - 1) * run.interval /\ Nominal(j - 1) = (j - 1) * run.interval
      /\ run.interval \in Nat /\ run.interval > 0
  BY AnalyzedFacts DEF Nominal, Measured
<1>2. (i - 1) * run.interval <= (j - 1) * run.interval <=> i <= j
  BY <1>1, DatesAreOrdered
<1>. QED  BY <1>1, <1>2

LEMMA WindowIsUnbroken ==
    ASSUME Analyzed, NEW window, window # "outside"
    PROVE  IsUnbroken(run.frames, run.interval, run.windows, window)
<1>1. ASSUME NEW i \in Measured, NEW j \in Measured, NEW k \in Measured,
             In(i, window), i <= k, In(j, window), k <= j
      PROVE  In(k, window)
  <2>1. PICK v \in DOMAIN run.windows : /\ run.windows[v].id = window
                                        /\ run.windows[v].from <= Nominal(i - 1)
    BY <1>1 DEF In
  <2>2. PICK w \in DOMAIN run.windows : /\ run.windows[w].id = window
                                        /\ Nominal(j - 1) < run.windows[w].until
    BY <1>1 DEF In
  <2>3. AreApart(run.windows)
    BY AnalyzedFacts
  <2>4. v = w /\ run.windows[v].from \in Int /\ run.windows[v].until \in Int
    BY <2>1, <2>2, <2>3 DEF AreApart
  <2>5. /\ Nominal(i - 1) \in Int /\ Nominal(j - 1) \in Int /\ Nominal(k - 1) \in Int
        /\ Nominal(i - 1) <= Nominal(k - 1) /\ Nominal(k - 1) <= Nominal(j - 1)
    BY <1>1, NominalIsOrdered
  <2>6. run.windows[v].from <= Nominal(k - 1) /\ Nominal(k - 1) < run.windows[v].until
    BY <2>1, <2>2, <2>4, <2>5
  <2>. QED  BY <2>1, <2>6 DEF In
<1>2. ASSUME NEW i \in Measured, NEW j \in Measured, NEW k \in Measured,
             WindowOf(run.interval, run.windows, i) = window, i <= k,
             WindowOf(run.interval, run.windows, j) = window, k <= j
      PROVE  WindowOf(run.interval, run.windows, k) = window
  BY <1>1, <1>2, FrameIsIn
<1>. QED  BY <1>2 DEF IsUnbroken, Measured

(* A frame of the active window was taken after the page heard the trigger. *)
LEMMA ActiveFrameIsHeard ==
    ASSUME Analyzed, cfg.trigger # "none", NEW k \in Measured, In(k, "active")
    PROVE  frames[k].heard
<1>1. PICK w \in DOMAIN run.windows : /\ run.windows[w].id = "active"
                                      /\ run.windows[w].from <= Nominal(k - 1)
  BY DEF In
<1>2. run.windows[w].from \in Int /\ run.windows[w].from >= cfg.triggerAt
  <2>1. CaptureTypes /\ run.windows = NewSelfMirrorWindows(cfg)
    BY DEF Analyzed, CaptureInv, EvidenceInv, AnalyzedInv
  <2>. QED  BY <1>1, <2>1, WindowsOfRun DEF AreApart
<1>3. cfg.triggerAt \in Int /\ Nominal(k - 1) \in Int
  <2>1. k \in Int /\ k <= k
    BY AnalyzedFacts DEF Measured
  <2>. QED  BY <2>1, NominalIsOrdered, ConfigFacts DEF Analyzed, CaptureInv
<1>4. k \in DOMAIN frames
  <2>1. /\ Len(run.frames) = FrameCount(cfg) /\ Len(frames) >= FrameCount(cfg)
        /\ frames \in Seq([heard : BOOLEAN, stopped : BOOLEAN])
    BY DEF Analyzed, EvidenceInv, AnalyzedInv, LengthInv, CaptureInv, CaptureTypes
  <2>2. Len(run.frames) \in Nat
    BY AnalyzedFacts
  <2>. QED  BY <2>1, <2>2 DEF Measured
<1>. QED  BY <1>1, <1>2, <1>3, <1>4 DEF Analyzed, CaptureInv, FrameInv, FramesFollowStimuli

(* What the analyzer scores a frame of a region in a window. *)
Judged(k, id, window) == IF window = "settle" THEN FrameScore(k, id) ELSE Score(k, id)

LEMMA ScoresAreNumbers ==
    ASSUME Analyzed, NEW roi \in Regions, NEW k \in Measured
    PROVE  FrameScore(k, roi.id) \in Nat /\ Score(k, roi.id) \in Nat
<1>. DEFINE pixels == run.frames[k][roi.id]
            frame == FrameScore(k, roi.id)
<1>1. pixels.changed \in Nat /\ pixels.shift \in Nat /\ pixels.drift \in Nat
  BY AnalyzedFacts DEF PixelsAreNumbers, Measured
<1>2. frame = Max({pixels.changed, pixels.shift}) /\ Score(k, roi.id) = Max({frame, pixels.drift})
  BY DEF FrameScore, Score
<1>. HIDE DEF pixels, frame
<1>3. ASSUME NEW a \in Nat, NEW b \in Nat PROVE Max({a, b}) \in Nat
  <2>1. a \in Int /\ b \in Int
    OBVIOUS
  <2>2. Max({a, b}) = IF a >= b THEN a ELSE b
    BY <2>1, OfTwo
  <2>. QED  BY <2>2
<1>4. frame \in Nat
  BY <1>1, <1>2, <1>3
<1>5. Max({frame, pixels.drift}) \in Nat
  BY <1>1, <1>3, <1>4
<1>. QED  BY <1>2, <1>4, <1>5 DEF frame

LEMMA RowScores ==
    ASSUME Analyzed, NEW k \in Measured, NEW id,
           NEW row, row = RowOf(run.frames, run.interval, run.windows, k, id)
    PROVE  /\ row.motion = Score(k, id) /\ row.roi = id
           /\ row.window = WindowOf(run.interval, run.windows, k)
           /\ JudgmentMotionScore(row) = Judged(k, id, row.window)
<1>1. /\ row.frame = FrameScore(k, id) /\ row.motion = Score(k, id) /\ row.roi = id
      /\ row.window = WindowOf(run.interval, run.windows, k)
  BY DEF RowOf, MeasureRoi, FrameScore, Score, WindowOf
<1>. QED  BY <1>1 DEF JudgmentMotionScore, Judged

(* The peak of a window says how high its frames score. *)
LEMMA PeakSays ==
    ASSUME Analyzed, NEW roi \in Regions, NEW window, window # "outside",
           NEW peak, peak = Peak(Rows, roi.id, window)
    PROVE  /\ peak \in Nat
           /\ \A k \in Measured : In(k, window) => Judged(k, roi.id, window) <= peak
           /\ peak = 0 \/ \E k \in Measured : In(k, window) /\ Judged(k, roi.id, window) = peak
<1>. DEFINE There(k) == WindowOf(run.interval, run.windows, k) = window
            Row(k) == RowOf(run.frames, run.interval, run.windows, k, roi.id)
            Measure(k) == JudgmentMotionScore(Row(k))
<1>1. /\ peak \in Nat
      /\ \A k \in Measured : There(k) => Measure(k) <= peak
      /\ peak = 0 \/ \E k \in Measured : There(k) /\ Measure(k) = peak
  <2>1. PixelsAreNumbers(run.frames, Regions) /\ IsFiniteSet(Regions)
    BY AnalyzedFacts
  <2>2. Rows = MeasuredRows(run.frames, run.interval, run.windows, Regions)
    BY DEF Rows
  <2>3. /\ peak \in Nat
        /\ \A k \in 2 .. Len(run.frames) : There(k) => Measure(k) <= peak
        /\ peak = 0 \/ \E k \in 2 .. Len(run.frames) : There(k) /\ Measure(k) = peak
    BY <2>1, <2>2, PeakOfRegion
  <2>. QED  BY <2>3, Zenon DEF Measured
<1>2. ASSUME NEW k \in Measured, There(k) PROVE Measure(k) = Judged(k, roi.id, window)
  BY <1>2, RowScores
<1>3. \A k \in Measured : There(k) <=> In(k, window)
  BY FrameIsIn
<1>. HIDE DEF There, Measure
<1>. QED  BY <1>1, <1>2, <1>3

LEMMA PeakIsAtMost ==
    ASSUME Analyzed, NEW roi \in Regions, NEW window, window # "outside", NEW limit \in Nat
    PROVE  /\ Peak(Rows, roi.id, window) <= limit <=>
                 \A k \in Measured : In(k, window) => Judged(k, roi.id, window) <= limit
           /\ limit > 0 => (Peak(Rows, roi.id, window) < limit <=>
                 \A k \in Measured : In(k, window) => Judged(k, roi.id, window) < limit)
<1>. DEFINE peak == Peak(Rows, roi.id, window)
            J(k) == Judged(k, roi.id, window)
<1>1. /\ peak \in Nat
      /\ \A k \in Measured : In(k, window) => J(k) <= peak
      /\ peak = 0 \/ \E k \in Measured : In(k, window) /\ J(k) = peak
  BY PeakSays
<1>2. \A k \in Measured : J(k) \in Nat
  BY ScoresAreNumbers DEF Judged
<1>. HIDE DEF peak, J
<1>3. peak <= limit <=> \A k \in Measured : In(k, window) => J(k) <= limit
  BY <1>1, <1>2
<1>4. limit > 0 => (peak < limit <=> \A k \in Measured : In(k, window) => J(k) < limit)
  BY <1>1, <1>2
<1>. QED  BY <1>3, <1>4 DEF peak, J

(* The peaks of a region say whether it was quiet and whether it settled. *)
LEMMA PeaksOfRegion ==
    ASSUME Analyzed, NEW roi \in Regions
    PROVE  /\ \A w \in {"pretrigger", "active", "release"} :
                 /\ Peak(Rows, roi.id, w) \in Nat
                 /\ Peak(Rows, roi.id, w) < ActiveMin <=> QuietIn(roi.id, w)
           /\ Peak(Rows, roi.id, "settle") \in Nat
           /\ Peak(Rows, roi.id, "settle") <= SettleMax <=> Settles(roi.id)
           /\ Peak(Rows, roi.id, "settle") < ActiveMin <=>
                 \A k \in Measured : In(k, "settle") => FrameScore(k, roi.id) < ActiveMin
<1>1. ActiveMin \in Nat /\ ActiveMin > 0 /\ SettleMax \in Nat
  BY ThresholdAssumption
<1>2. ASSUME NEW w \in {"pretrigger", "active", "release"}
      PROVE  /\ Peak(Rows, roi.id, w) \in Nat
             /\ Peak(Rows, roi.id, w) < ActiveMin <=> QuietIn(roi.id, w)
  <2>1. w # "outside" /\ w # "settle"
    OBVIOUS
  <2>2. Peak(Rows, roi.id, w) \in Nat
    BY <2>1, PeakSays
  <2>3. Peak(Rows, roi.id, w) < ActiveMin <=>
            \A k \in Measured : In(k, w) => Judged(k, roi.id, w) < ActiveMin
    BY <1>1, <2>1, PeakIsAtMost
  <2>. QED  BY <2>1, <2>2, <2>3 DEF QuietIn, Judged
<1>3. /\ Peak(Rows, roi.id, "settle") \in Nat
      /\ Peak(Rows, roi.id, "settle") <= SettleMax <=> Settles(roi.id)
      /\ Peak(Rows, roi.id, "settle") < ActiveMin <=>
            \A k \in Measured : In(k, "settle") => FrameScore(k, roi.id) < ActiveMin
  <2>1. Peak(Rows, roi.id, "settle") \in Nat
    BY PeakSays
  <2>2. Peak(Rows, roi.id, "settle") <= SettleMax <=>
            \A k \in Measured : In(k, "settle") => Judged(k, roi.id, "settle") <= SettleMax
    BY <1>1, PeakIsAtMost
  <2>3. Peak(Rows, roi.id, "settle") < ActiveMin <=>
            \A k \in Measured : In(k, "settle") => Judged(k, roi.id, "settle") < ActiveMin
    BY <1>1, PeakIsAtMost
  <2>. QED  BY <2>1, <2>2, <2>3 DEF Settles, Judged
<1>. QED  BY <1>2, <1>3

(* The longest run of a region says whether it moved for long enough after the page heard *)
(* the trigger.                                                                            *)
LEMMA LongestRunSays ==
    ASSUME Analyzed, cfg.trigger # "none", NEW roi \in Regions
    PROVE  MaxConsecutiveAtOrAbove(Rows, roi.id, "active", ActiveMin) >= MinConsecutive
               <=> Moves(roi.id)
<1>1. MaxConsecutiveAtOrAbove(Rows, roi.id, "active", ActiveMin) >= MinConsecutive <=>
          MovesInARow(run.frames, run.interval, run.windows, roi.id, "active", ActiveMin, MinConsecutive)
  <2>1. MinConsecutive \in Nat /\ MinConsecutive > 0
    BY ThresholdAssumption
  <2>2. IsUnbroken(run.frames, run.interval, run.windows, "active")
    BY WindowIsUnbroken
  <2>3. /\ run.interval \in Nat /\ run.interval > 0
        /\ PixelsAreNumbers(run.frames, Regions) /\ IsFiniteSet(Regions)
    BY AnalyzedFacts
  <2>. QED  BY <2>1, <2>2, <2>3, LongestRun DEF Rows
<1>2. ASSUME NEW j \in Measured
      PROVE  /\ WindowOf(run.interval, run.windows, j) = "active" <=> In(j, "active")
             /\ RowOf(run.frames, run.interval, run.windows, j, roi.id).motion = Score(j, roi.id)
             /\ In(j, "active") => frames[j].heard
  BY FrameIsIn, RowScores, ActiveFrameIsHeard
<1>3. MovesInARow(run.frames, run.interval, run.windows, roi.id, "active", ActiveMin, MinConsecutive)
          <=> Moves(roi.id)
  BY <1>2 DEF MovesInARow, Moves, Measured
<1>. QED  BY <1>1, <1>3

-----------------------------------------------------------------------------
(* The verdict on the evidence *)

Results == SummarizeRois(Rows, Regions)
Reported == SafeProjectionVisualDiagnostics(run.diag)

(* The analysis of the run, in the terms above. *)
LEMMA AnalysisOfRun ==
    ASSUME NEW visual, visual = AnalyzeFrames(run)
    PROVE  /\ visual.rows = Rows /\ visual.rois = Results /\ visual.scenario = run.scenario
           /\ visual.result = OverallResult(Results, run.scenario, run.layer, run.join, Reported, run.ready)
           /\ visual.diagnostics = MotionDiagnostics(Rows, Results, run.join,
                                       NormalizedEventTimeline(run.timeline, Reported), Reported)
  BY DEF AnalyzeFrames, Results, Reported, Rows, Regions

(* Every region has one result. *)
LEMMA ResultSays ==
    ASSUME NEW roi, NEW r, r = ResultOf(Rows, roi)
    PROVE  /\ r.id = roi.id /\ r.counts = roi.counts /\ r.expected = roi.expected /\ r.kind = roi.kind
           /\ r.pre = Peak(Rows, roi.id, "pretrigger") /\ r.active = Peak(Rows, roi.id, "active")
           /\ r.release = Peak(Rows, roi.id, "release") /\ r.settle = Peak(Rows, roi.id, "settle")
           /\ r.label = RoiLabel(roi, Rows, r.pre, r.settle)
  BY DEF ResultOf

LEMMA ResultsOfRun ==
    /\ \A roi \in Regions : ResultOf(Rows, roi) \in Results
    /\ \A r \in Results : \E roi \in Regions : r = ResultOf(Rows, roi)
  BY ResultsOfRegions DEF Results

(* The label of a region is the evidence of that region. *)
LEMMA LabelOfRegion ==
    ASSUME Analyzed, NEW roi \in Regions, NEW r, r = ResultOf(Rows, roi)
    PROVE  /\ r.label = "roi-out-of-frame" <=> roi.out
           /\ roi.counts /\ roi.expected /\ ~roi.out /\ cfg.trigger # "none" =>
                 (r.label = "visual-motion-detected" <=>
                     QuietIn(roi.id, "pretrigger") /\ Moves(roi.id) /\ Settles(roi.id))
<1>. DEFINE pre == Peak(Rows, roi.id, "pretrigger")
            settle == Peak(Rows, roi.id, "settle")
            label == RoiLabel(roi, Rows, pre, settle)
            longest == MaxConsecutiveAtOrAbove(Rows, roi.id, "active", ActiveMin)
<1>1. r.label = label
  BY ResultSays
<1>2. /\ label = "roi-out-of-frame" <=> roi.out
      /\ roi.counts /\ roi.expected /\ ~roi.out =>
            (label = "visual-motion-detected" <=>
                ~(pre >= ActiveMin) /\ longest >= MinConsecutive /\ settle <= SettleMax)
  BY LabelSays
<1>3. /\ pre \in Nat /\ (pre < ActiveMin <=> QuietIn(roi.id, "pretrigger"))
      /\ settle <= SettleMax <=> Settles(roi.id)
  BY PeaksOfRegion
<1>4. cfg.trigger # "none" => (longest >= MinConsecutive <=> Moves(roi.id))
  BY LongestRunSays
<1>5. ~(pre >= ActiveMin) <=> pre < ActiveMin
  BY <1>3, ThresholdAssumption
<1>. HIDE DEF label, longest, pre, settle
<1>. QED  BY <1>1, <1>2, <1>3, <1>4, <1>5

(* The page's own report tells of a wrong surface when one of its facts does. *)
LEMMA MismatchSays ==
    TargetMismatch(Reported) <=>
        ~(/\ run.diag.facts \cap Denials = {}
          /\ "mixed_surface" \in run.diag.facts => Separations \subseteq run.diag.facts)
<1>1. Reported.facts = run.diag.facts \cap SafeFacts
  BY DEF Reported, SafeProjectionVisualDiagnostics
<1>2. Denials \subseteq SafeFacts /\ Separations \subseteq SafeFacts /\ "mixed_surface" \in SafeFacts
  BY DEF SafeFacts
<1>. HIDE DEF Reported
<1>. QED  BY <1>1, <1>2, Zenon DEF TargetMismatch, SurfacesExplicitlySeparated

(* Nothing speaks against the capture when the run can be trusted. *)
LEMMA TrustSays ==
    ASSUME Analyzed
    PROVE  Trustworthy <=>
              /\ \A r \in Results : r.label # "roi-out-of-frame"
              /\ CaptureIsReady(run.ready)
              /\ run.layer = "visible_motion" /\ run.scenario.joinRequired =>
                    RunIsJoined(run.join, run.scenario)
              /\ ~TargetMismatch(Reported)
<1>1. (\A r \in Results : r.label # "roi-out-of-frame") <=> \A roi \in cfg.rois : ~OutOfFrame(roi.rect)
  <2>1. ASSUME NEW roi \in Regions
        PROVE  ResultOf(Rows, roi).label = "roi-out-of-frame" <=> roi.out
    BY LabelOfRegion
  <2>2. (\A r \in Results : r.label # "roi-out-of-frame") <=> \A roi \in Regions : ~roi.out
    BY <2>1, ResultsOfRun
  <2>3. (\A roi \in Regions : ~roi.out) <=> \A roi \in run.rois : ~OutOfFrame(roi.rect)
    <3>1. ASSUME NEW roi PROVE ParseRoi(roi).out = OutOfFrame(roi.rect)
      BY DEF ParseRoi
    <3>. QED  BY <3>1, Zenon DEF Regions
  <2>. QED  BY <2>2, <2>3, AnalyzedFacts
<1>2. run.layer = "visible_motion" /\ run.scenario = cfg.scenario
  BY DEF Analyzed, EvidenceInv, AnalyzedInv
<1>. QED  BY <1>1, <1>2, MismatchSays DEF Trustworthy

(* Every peak of every region is below a limit when the highest of them is. *)
LEMMA HighestPeak ==
    ASSUME NEW results, IsFiniteSet(results), NEW limit \in Nat, limit > 0,
           \A r \in results : r.pre \in Nat /\ r.active \in Nat /\ r.release \in Nat /\ r.settle \in Nat
    PROVE  PeakOf(UNION {{r.pre, r.active, r.release, r.settle} : r \in results}) < limit <=>
              \A r \in results : /\ r.pre < limit /\ r.active < limit
                                 /\ r.release < limit /\ r.settle < limit
<1>. DEFINE pre == [r \in results |-> r.pre]
            active == [r \in results |-> r.active]
            release == [r \in results |-> r.release]
            settle == [r \in results |-> r.settle]
            Of(f) == {f[r] : r \in results}
            peaks == UNION {{r.pre, r.active, r.release, r.settle} : r \in results}
            parts == (Of(pre) \cup Of(active)) \cup (Of(release) \cup Of(settle))
<1>1. \A r \in results : pre[r] = r.pre /\ active[r] = r.active /\ release[r] = r.release /\ settle[r] = r.settle
  OBVIOUS
<1>2. \A p : p \in peaks <=> \E r \in results : p \in {r.pre, r.active, r.release, r.settle}
  OBVIOUS
<1>. HIDE DEF pre, active, release, settle, peaks
<1>3. peaks = parts
  BY <1>1, <1>2
<1>4. IsFiniteSet(parts)
  <2>1. IsFiniteSet(Of(pre)) /\ IsFiniteSet(Of(active)) /\ IsFiniteSet(Of(release)) /\ IsFiniteSet(Of(settle))
    BY ImageIsFinite
  <2>. HIDE DEF Of
  <2>. QED  BY <2>1, FS_Union
<1>5. peaks \in SUBSET Nat
  BY <1>2
<1>6. /\ PeakOf(peaks) \in Nat /\ PeakOf(peaks) \in {0} \cup peaks
      /\ \A p \in peaks : p <= PeakOf(peaks)
  <2>1. IsFiniteSet(peaks)
    BY <1>3, <1>4
  <2>. HIDE DEF parts
  <2>. QED  BY <1>5, <2>1, PeakIsNatural
<1>7. PeakOf(peaks) < limit <=> \A p \in peaks : p < limit
  BY <1>5, <1>6
<1>8. (\A p \in peaks : p < limit) <=>
          \A r \in results : /\ r.pre < limit /\ r.active < limit
                             /\ r.release < limit /\ r.settle < limit
  BY <1>2
<1>. QED  BY <1>7, <1>8 DEF peaks

PeaksAreNumbers(results) ==
    /\ IsFiniteSet(results)
    /\ \A r \in results : r.pre \in Nat /\ r.active \in Nat /\ r.release \in Nat /\ r.settle \in Nat

LEMMA PeaksOfRunAreNumbers == ASSUME Analyzed PROVE PeaksAreNumbers(Results)
<1>1. IsFiniteSet(Results)
  <2>. DEFINE f == [roi \in Regions |-> ResultOf(Rows, roi)]
  <2>1. Results = {f[roi] : roi \in Regions}
    BY ResultsOfRegions DEF Results
  <2>. HIDE DEF f
  <2>. QED  BY <2>1, AnalyzedFacts, ImageIsFinite
<1>2. ASSUME NEW r \in Results
      PROVE  r.pre \in Nat /\ r.active \in Nat /\ r.release \in Nat /\ r.settle \in Nat
  <2>1. PICK roi \in Regions : r = ResultOf(Rows, roi)
    BY ResultsOfRun
  <2>. QED  BY <2>1, ResultSays, PeaksOfRegion
<1>. QED  BY <1>1, <1>2, Zenon DEF PeaksAreNumbers

(* The idle scenario is a pass when nothing moved anywhere. *)
LEMMA IdleVerdict ==
    ASSUME Analyzed, cfg.scenario.motion = "none"
    PROVE  QuietResult(Results, \E r \in {q \in Results : ~q.counts /\ ~IsDiagnosticRoi(q)} :
                                    r.active >= ActiveMin) = "visual-pass" <=> Evidence
<1>. DEFINE guardMotion == \E r \in {q \in Results : ~q.counts /\ ~IsDiagnosticRoi(q)} :
                               r.active >= ActiveMin
            Calm(r) == /\ r.pre < ActiveMin /\ r.active < ActiveMin /\ r.release < ActiveMin
                       /\ r.settle < ActiveMin /\ r.settle <= SettleMax
            Still(id) == /\ \A w \in {"pretrigger", "active", "release"} : QuietIn(id, w)
                         /\ Settles(id)
                         /\ \A k \in Measured : In(k, "settle") => FrameScore(k, id) < ActiveMin
<1>1. QuietResult(Results, guardMotion) = "visual-pass" <=>
          /\ \A r \in Results : ~(r.pre >= ActiveMin) /\ ~(r.settle > SettleMax)
          /\ ~guardMotion
          /\ PeakOf(UNION {{r.pre, r.active, r.release, r.settle} : r \in Results}) < ActiveMin
  <2>. HIDE DEF guardMotion
  <2>. QED  BY QuietSays
<1>2. ActiveMin \in Nat /\ ActiveMin > 0 /\ SettleMax \in Nat
  BY ThresholdAssumption
<1>3. /\ IsFiniteSet(Results)
      /\ \A r \in Results : r.pre \in Nat /\ r.active \in Nat /\ r.release \in Nat /\ r.settle \in Nat
  BY PeaksOfRunAreNumbers, Zenon DEF PeaksAreNumbers
<1>4. PeakOf(UNION {{r.pre, r.active, r.release, r.settle} : r \in Results}) < ActiveMin <=>
          \A r \in Results : /\ r.pre < ActiveMin /\ r.active < ActiveMin
                             /\ r.release < ActiveMin /\ r.settle < ActiveMin
  BY <1>2, <1>3, HighestPeak
<1>5. QuietResult(Results, guardMotion) = "visual-pass" <=> \A r \in Results : Calm(r)
  <2>. DEFINE peak == PeakOf(UNION {{r.pre, r.active, r.release, r.settle} : r \in Results})
              verdict == QuietResult(Results, guardMotion)
  <2>. HIDE DEF peak, verdict
  <2>1. peak < ActiveMin <=>
            \A r \in Results : /\ r.pre < ActiveMin /\ r.active < ActiveMin
                               /\ r.release < ActiveMin /\ r.settle < ActiveMin
    BY <1>4, Zenon DEF peak
  <2>2. verdict = "visual-pass" <=>
            /\ \A r \in Results : ~(r.pre >= ActiveMin) /\ ~(r.settle > SettleMax)
            /\ ~guardMotion /\ peak < ActiveMin
    BY <1>1, Zenon DEF peak, verdict
  <2>3. (\A r \in Results : r.active < ActiveMin) => ~guardMotion
    BY <1>2, <1>3
  <2>. HIDE DEF guardMotion
  <2>. QED  BY <1>2, <1>3, <2>1, <2>2, <2>3 DEF verdict
<1>. HIDE DEF guardMotion
<1>6. ASSUME NEW roi \in Regions PROVE Calm(ResultOf(Rows, roi)) <=> Still(roi.id)
  BY ResultSays, PeaksOfRegion
<1>7. (\A r \in Results : Calm(r)) <=> \A roi \in Regions : Still(roi.id)
  <2>. HIDE DEF Calm, Still
  <2>. QED  BY <1>6, ResultsOfRun
<1>8. (\A roi \in Regions : Still(roi.id)) <=> \A roi \in cfg.rois : Still(roi.id)
  <2>1. \A roi : ParseRoi(roi).id = roi.id
    BY DEF ParseRoi
  <2>2. Regions = {ParseRoi(roi) : roi \in cfg.rois}
    BY AnalyzedFacts DEF Regions
  <2>. HIDE DEF Still
  <2>. QED  BY <2>1, <2>2
<1>9. Evidence <=> \A id \in {roi.id : roi \in cfg.rois} : Still(id)
  BY Zenon DEF Evidence
<1>10. (\A id \in {roi.id : roi \in cfg.rois} : Still(id)) <=> \A roi \in cfg.rois : Still(roi.id)
  <2>. HIDE DEF Still
  <2>. QED  OBVIOUS
<1>. QED  BY <1>5, <1>7, <1>8, <1>9, <1>10 DEF guardMotion

(* A result stands for an expected region that the configuration has. *)
LEMMA ExpectedRegions ==
    ASSUME Analyzed
    PROVE  /\ \A r \in ExpectedRois(Results) :
                 \E roi \in Regions : r = ResultOf(Rows, roi) /\ roi.counts /\ roi.expected
           /\ \A roi \in Regions : roi.counts /\ roi.expected => ResultOf(Rows, roi) \in ExpectedRois(Results)
           /\ \A roi \in Regions : \E s \in cfg.rois : /\ s.id = roi.id /\ s.counts = roi.counts
                                                       /\ s.expected = roi.expected
           /\ \A s \in cfg.rois : \E roi \in Regions : /\ s.id = roi.id /\ s.counts = roi.counts
                                                       /\ s.expected = roi.expected
<1>1. ASSUME NEW roi PROVE ResultOf(Rows, roi).counts = roi.counts /\ ResultOf(Rows, roi).expected = roi.expected
  BY ResultSays
<1>2. ASSUME NEW r \in ExpectedRois(Results)
      PROVE  \E roi \in Regions : r = ResultOf(Rows, roi) /\ roi.counts /\ roi.expected
  <2>1. r \in Results /\ r.counts /\ r.expected
    BY DEF ExpectedRois
  <2>2. PICK roi \in Regions : r = ResultOf(Rows, roi)
    BY <2>1, ResultsOfRun
  <2>. QED  BY <1>1, <2>1, <2>2
<1>3. ASSUME NEW roi \in Regions, roi.counts, roi.expected
      PROVE  ResultOf(Rows, roi) \in ExpectedRois(Results)
  BY <1>1, <1>3, ResultsOfRun DEF ExpectedRois
<1>4. \A s : ParseRoi(s).id = s.id /\ ParseRoi(s).counts = s.counts /\ ParseRoi(s).expected = s.expected
  BY DEF ParseRoi
<1>5. \A roi : roi \in Regions <=> \E s \in cfg.rois : roi = ParseRoi(s)
  BY AnalyzedFacts DEF Regions
<1>. QED  BY <1>2, <1>3, <1>4, <1>5

(* A run that can be trusted and should have moved had a trigger. *)
LEMMA MotionWasTriggered ==
    ASSUME Analyzed, Trustworthy, cfg.scenario.motion # "none" PROVE cfg.trigger # "none"
<1>. SUFFICES ASSUME cfg.trigger = "none" PROVE FALSE
  OBVIOUS
<1>1. cfg \in Configs /\ run.join.result = ""
  BY DEF Analyzed, CaptureInv, CaptureTypes, EvidenceInv, AnalyzedInv
<1>2. cfg.scenario.joinRequired
  BY <1>1, ProofAssumption
<1>3. RunIsJoined(run.join, cfg.scenario)
  BY <1>2 DEF Trustworthy
<1>. QED  BY <1>1, <1>3 DEF RunIsJoined, RuntimeIsJoined

(* A scenario of motion is a pass when every expected region shows it, of which there is one. *)
LEMMA MotionVerdictSays ==
    ASSUME Analyzed, Trustworthy, cfg.scenario.motion # "none"
    PROVE  Evidence <=> /\ ExpectedRois(Results) # {}
                        /\ \A r \in ExpectedRois(Results) : r.label = "visual-motion-detected"
<1>. DEFINE Shown(id) == QuietIn(id, "pretrigger") /\ Moves(id) /\ Settles(id)
            ids == {roi.id : roi \in {r \in cfg.rois : r.counts /\ r.expected}}
            Wanted(roi) == roi.counts /\ roi.expected
<1>1. Evidence <=> ids # {} /\ \A id \in ids : Shown(id)
  BY Zenon DEF Evidence
<1>2. \A id : id \in ids <=> \E roi \in Regions : Wanted(roi) /\ id = roi.id
  <2>1. \A id : id \in ids <=> \E s \in cfg.rois : Wanted(s) /\ id = s.id
    OBVIOUS
  <2>. HIDE DEF ids
  <2>. QED  BY <2>1, ExpectedRegions
<1>3. ASSUME NEW roi \in Regions, Wanted(roi)
      PROVE  ResultOf(Rows, roi).label = "visual-motion-detected" <=> Shown(roi.id)
  <2>1. ~roi.out
    <3>1. ResultOf(Rows, roi).label # "roi-out-of-frame"
      BY TrustSays, ResultsOfRun
    <3>. QED  BY <3>1, LabelOfRegion
  <2>2. cfg.trigger # "none"
    BY MotionWasTriggered
  <2>. QED  BY <1>3, <2>1, <2>2, LabelOfRegion
<1>. HIDE DEF ids, Shown
<1>4. ExpectedRois(Results) # {} <=> \E roi \in Regions : Wanted(roi)
  BY ExpectedRegions
<1>5. (\A r \in ExpectedRois(Results) : r.label = "visual-motion-detected") <=>
          \A roi \in Regions : Wanted(roi) => ResultOf(Rows, roi).label = "visual-motion-detected"
  BY ExpectedRegions
<1>. HIDE DEF Wanted
<1>. QED  BY <1>1, <1>2, <1>3, <1>4, <1>5

(* There is a surface to judge from unless nothing was expected of a scenario of motion. *)
LEMMA SurfaceSays ==
    ASSUME Analyzed, NEW visual, visual = AnalyzeFrames(run)
    PROVE  ObservabilityStatus(visual) = "present" <=>
              cfg.scenario.motion = "none" \/ ExpectedRois(Results) # {}
<1>1. visual.rows = Rows /\ visual.rois = Results /\ visual.scenario = cfg.scenario
  BY AnalysisOfRun DEF Analyzed, EvidenceInv, AnalyzedInv
<1>2. Rows # {}
  <2>1. PICK roi \in Regions : TRUE
    BY AnalyzedFacts DEF Regions
  <2>2. 2 \in 2 .. Len(run.frames)
    BY AnalyzedFacts
  <2>. DEFINE window == WindowOf(run.interval, run.windows, 2)
              row == RowOf(run.frames, run.interval, run.windows, 2, roi.id)
  <2>3. RowsAreOfFrames(Rows, run.frames, run.interval, run.windows, roi.id, window)
    BY RowsOfRegion DEF Rows
  <2>4. row \in RegionRows(Rows, roi.id, window)
    BY <2>2, <2>3, Zenon DEF RowsAreOfFrames
  <2>. QED  BY <2>4 DEF RegionRows
<1>3. AuthorityRoiIds(Results) = {} <=> ExpectedRois(Results) = {}
  BY DEF AuthorityRoiIds
<1>. QED  BY <1>1, <1>2, <1>3 DEF ObservabilityStatus

LEMMA VerdictSays ==
    ASSUME Analyzed PROVE packet.result = "pass" <=> Evidence /\ Trustworthy
<1>. DEFINE visual == AnalyzeFrames(run)
            expected == ExpectedRois(Results)
            quiet == QuietResult(Results, \E r \in {q \in Results : ~q.counts /\ ~IsDiagnosticRoi(q)} :
                                              r.active >= ActiveMin)
            motionless == cfg.scenario.motion = "none"
            Detected == \A r \in expected : r.label = "visual-motion-detected"
<1>1. packet.result = "pass" <=> visual.result = "visual-pass" /\ ObservabilityStatus(visual) = "present"
  <2>1. packet = BuildSelfMirrorMetricSummary(visual)
    BY DEF Analyzed, EvidenceInv, AnalyzedInv
  <2>. HIDE DEF visual
  <2>. QED  BY <2>1, PacketSays
<1>2. visual.result = "visual-pass" <=>
          Trustworthy /\ (IF motionless \/ expected = {} THEN quiet = "visual-pass" ELSE Detected)
  <2>1. visual.result = OverallResult(Results, run.scenario, run.layer, run.join, Reported, run.ready)
    BY AnalysisOfRun
  <2>2. run.scenario = cfg.scenario
    BY DEF Analyzed, EvidenceInv, AnalyzedInv
  <2>. DEFINE verdict == OverallResult(Results, run.scenario, run.layer, run.join, Reported, run.ready)
  <2>3. verdict = "visual-pass" <=>
            /\ \A r \in Results : r.label # "roi-out-of-frame"
            /\ CaptureIsReady(run.ready)
            /\ run.layer = "visible_motion" /\ run.scenario.joinRequired => RunIsJoined(run.join, run.scenario)
            /\ ~TargetMismatch(Reported)
            /\ IF run.scenario.motion = "none" \/ expected = {} THEN quiet = "visual-pass" ELSE Detected
    <3>1. verdict = "visual-pass" <=>
              IsVisualPass(Results, run.scenario, run.layer, run.join, Reported, run.ready)
      BY OverallSays, Zenon
    <3>. HIDE DEF verdict
    <3>. QED  BY <3>1, Zenon DEF IsVisualPass
  <2>. HIDE DEF visual, verdict, expected, quiet, Detected
  <2>. QED  BY <2>1, <2>2, <2>3, TrustSays DEF verdict
<1>3. ObservabilityStatus(visual) = "present" <=> motionless \/ expected # {}
  BY SurfaceSays
<1>4. motionless => (quiet = "visual-pass" <=> Evidence)
  BY IdleVerdict
<1>5. ~motionless /\ Trustworthy => (Evidence <=> expected # {} /\ Detected)
  BY MotionVerdictSays
<1>. HIDE DEF visual, expected, quiet, motionless, Detected
<1>. QED  BY <1>1, <1>2, <1>3, <1>4, <1>5

(* The rows of an event are the frames of an expected region that move above its idle level. *)
AboveIdle(k, id) ==
    /\ In(k, "active") /\ Score(k, id) >= ActiveMin
    /\ Score(k, id) - Peak(Rows, id, "pretrigger") >= IdleDelta

LEMMA EventRowsSay ==
    ASSUME Analyzed
    PROVE  EventRows(Rows, IdsOf(ExpectedRois(Results)), {"active"}) # {} <=>
              \E roi \in Regions : /\ roi.counts /\ roi.expected
                                   /\ \E k \in Measured : AboveIdle(k, roi.id)
<1>. DEFINE ids == IdsOf(ExpectedRois(Results))
            Row(k, id) == RowOf(run.frames, run.interval, run.windows, k, id)
<1>1. \A id : id \in ids <=> \E roi \in Regions : roi.counts /\ roi.expected /\ id = roi.id
  <2>1. \A roi : ResultOf(Rows, roi).id = roi.id
    BY ResultSays
  <2>. QED  BY <2>1, ExpectedRegions DEF IdsOf
<1>2. ASSUME NEW roi \in Regions
      PROVE  \A r : r \in RegionRows(Rows, roi.id, "active") <=>
                       \E k \in Measured : In(k, "active") /\ r = Row(k, roi.id)
  <2>1. RowsAreOfFrames(Rows, run.frames, run.interval, run.windows, roi.id, "active")
    BY RowsOfRegion DEF Rows
  <2>2. \A k \in Measured : In(k, "active") <=> WindowOf(run.interval, run.windows, k) = "active"
    BY FrameIsIn
  <2>. QED  BY <2>1, <2>2, Zenon DEF RowsAreOfFrames, Measured
<1>3. \A k \in Measured : \A id : Row(k, id).motion = Score(k, id)
  BY RowScores
<1>. HIDE DEF ids, Row
<1>4. ASSUME NEW r \in EventRows(Rows, ids, {"active"})
      PROVE  \E roi \in Regions : /\ roi.counts /\ roi.expected
                                  /\ \E k \in Measured : AboveIdle(k, roi.id)
  <2>1. /\ r \in Rows /\ r.roi \in ids /\ r.window = "active" /\ r.motion >= ActiveMin
        /\ r.motion - Peak(Rows, r.roi, "pretrigger") >= IdleDelta
    BY DEF EventRows
  <2>2. PICK roi \in Regions : roi.counts /\ roi.expected /\ r.roi = roi.id
    BY <1>1, <2>1
  <2>3. PICK k \in Measured : In(k, "active") /\ r = Row(k, roi.id)
    BY <1>2, <2>1, <2>2 DEF RegionRows
  <2>4. AboveIdle(k, roi.id)
    BY <1>3, <2>1, <2>2, <2>3 DEF AboveIdle
  <2>. QED  BY <2>2, <2>4
<1>5. ASSUME NEW roi \in Regions, roi.counts, roi.expected, NEW k \in Measured, AboveIdle(k, roi.id)
      PROVE  Row(k, roi.id) \in EventRows(Rows, ids, {"active"})
  <2>1. Row(k, roi.id) \in RegionRows(Rows, roi.id, "active")
    BY <1>2, <1>5 DEF AboveIdle
  <2>2. roi.id \in ids
    BY <1>1, <1>5
  <2>. QED  BY <1>3, <1>5, <2>1, <2>2 DEF RegionRows, EventRows, AboveIdle
<1>. QED  BY <1>4, <1>5 DEF ids

(* The diagnosis of the packet is that of the rows. *)
LEMMA DiagnosisOfPacket ==
    ASSUME Analyzed
    PROVE  /\ packet.diagnosis.result = Correlated =>
                 EventRows(Rows, IdsOf(ExpectedRois(Results)), {"active"}) # {}
           /\ /\ ~TargetMismatch(Reported)
              /\ \/ EventRows(Rows, IdsOf(ExpectedRois(Results)), {"active"}) # {}
                 \/ \E id \in IdsOf(ExpectedRois(Results)) :
                       /\ Peak(Rows, id, "active") >= ActiveMin
                       /\ Peak(Rows, id, "active") - Peak(Rows, id, "pretrigger") < IdleDelta
              => packet.diagnosis.result \in MotionSeen
<1>. DEFINE visual == AnalyzeFrames(run)
<1>1. packet = BuildSelfMirrorMetricSummary(visual)
  BY DEF Analyzed, EvidenceInv, AnalyzedInv
<1>2. visual.diagnostics = MotionDiagnostics(Rows, Results, run.join,
                               NormalizedEventTimeline(run.timeline, Reported), Reported)
  BY AnalysisOfRun
<1>. HIDE DEF visual
<1>3. packet.diagnosis = visual.diagnostics
  BY <1>1, PacketSays
<1>. QED  BY <1>2, <1>3, DiagnosisOfRows, Zenon

(* Motion is called correlated with the event only when an expected region moved above *)
(* every frame it was idle in.                                                          *)
LEMMA CorrelationSays ==
    ASSUME Analyzed, packet.diagnosis.result = Correlated
    PROVE  \E roi \in {r \in cfg.rois : r.counts /\ r.expected} : \E k \in Measured :
              /\ In(k, "active") /\ Score(k, roi.id) >= ActiveMin
              /\ \A j \in Measured :
                    In(j, "pretrigger") => Score(k, roi.id) - Score(j, roi.id) >= IdleDelta
<1>1. EventRows(Rows, IdsOf(ExpectedRois(Results)), {"active"}) # {}
  BY DiagnosisOfPacket
<1>2. PICK roi \in Regions : /\ roi.counts /\ roi.expected
                             /\ \E k \in Measured : AboveIdle(k, roi.id)
  BY <1>1, EventRowsSay
<1>3. PICK k \in Measured : AboveIdle(k, roi.id)
  BY <1>2
<1>4. ASSUME NEW j \in Measured, In(j, "pretrigger")
      PROVE  Score(k, roi.id) - Score(j, roi.id) >= IdleDelta
  <2>. DEFINE peak == Peak(Rows, roi.id, "pretrigger")
  <2>1. peak \in Nat /\ Judged(j, roi.id, "pretrigger") <= peak
    BY <1>4, PeakSays
  <2>2. Judged(j, roi.id, "pretrigger") = Score(j, roi.id)
    BY DEF Judged
  <2>3. Score(k, roi.id) - peak >= IdleDelta
    BY <1>3 DEF AboveIdle
  <2>4. Score(k, roi.id) \in Nat /\ Score(j, roi.id) \in Nat /\ IdleDelta \in Nat
    BY ScoresAreNumbers, ThresholdAssumption
  <2>. HIDE DEF peak
  <2>. QED  BY <2>1, <2>2, <2>3, <2>4
<1>5. PICK s \in cfg.rois : s.id = roi.id /\ s.counts = roi.counts /\ s.expected = roi.expected
  BY ExpectedRegions
<1>6. s \in {r \in cfg.rois : r.counts /\ r.expected}
  BY <1>2, <1>5
<1>7. In(k, "active") /\ Score(k, roi.id) >= ActiveMin
  BY <1>3 DEF AboveIdle
<1>. QED  BY <1>4, <1>5, <1>6, <1>7

(* A pass of motion is diagnosed as motion. *)
LEMMA MotionIsDiagnosed ==
    ASSUME Analyzed, Evidence, Trustworthy, cfg.scenario.motion # "none"
    PROVE  packet.diagnosis.result \in MotionSeen
<1>1. PICK s \in cfg.rois : s.counts /\ s.expected /\ Moves(s.id)
  BY DEF Evidence
<1>2. PICK roi \in Regions : /\ s.id = roi.id /\ s.counts = roi.counts /\ s.expected = roi.expected
  BY ExpectedRegions
<1>3. PICK k \in Measured : In(k, "active") /\ Score(k, roi.id) >= ActiveMin
  <2>1. PICK k \in Measured : \A j \in k .. k + MinConsecutive - 1 :
            j \in Measured /\ In(j, "active") /\ Score(j, s.id) >= ActiveMin /\ frames[j].heard
    BY <1>1 DEF Moves
  <2>2. k \in k .. k + MinConsecutive - 1
    <3>1. k \in Int /\ MinConsecutive \in Nat /\ MinConsecutive > 0
      BY AnalyzedFacts, ThresholdAssumption DEF Measured
    <3>. QED  BY <3>1
  <2>. QED  BY <1>2, <2>1, <2>2
<1>. DEFINE active == Peak(Rows, roi.id, "active")
            idle == Peak(Rows, roi.id, "pretrigger")
<1>4. /\ active \in Nat /\ idle \in Nat /\ active >= ActiveMin /\ ActiveMin \in Nat /\ ActiveMin > 0
      /\ active = 0 \/ \E m \in Measured : In(m, "active") /\ Score(m, roi.id) = active
  <2>1. /\ active \in Nat /\ Judged(k, roi.id, "active") <= active
        /\ active = 0 \/ \E m \in Measured : In(m, "active") /\ Judged(m, roi.id, "active") = active
    BY <1>3, PeakSays
  <2>2. \A m : Judged(m, roi.id, "active") = Score(m, roi.id)
    BY DEF Judged
  <2>3. idle \in Nat
    BY PeakSays
  <2>4. ActiveMin \in Nat /\ ActiveMin > 0 /\ Score(k, roi.id) \in Nat
    BY ThresholdAssumption, ScoresAreNumbers
  <2>. HIDE DEF active, idle
  <2>. QED  BY <1>3, <2>1, <2>2, <2>3, <2>4
<1>5. PICK m \in Measured : In(m, "active") /\ Score(m, roi.id) = active
  BY <1>4
<1>6. CASE active - idle < IdleDelta
  <2>1. roi.id \in IdsOf(ExpectedRois(Results))
    <3>1. ResultOf(Rows, roi).id = roi.id /\ ResultOf(Rows, roi) \in ExpectedRois(Results)
      BY <1>1, <1>2, ExpectedRegions, ResultSays
    <3>. QED  BY <3>1 DEF IdsOf
  <2>. QED  BY <1>4, <1>6, <2>1, TrustSays, DiagnosisOfPacket
<1>7. CASE ~(active - idle < IdleDelta)
  <2>1. AboveIdle(m, roi.id)
    <3>1. active - idle >= IdleDelta
      BY <1>4, <1>7, ThresholdAssumption
    <3>. QED  BY <1>4, <1>5, <3>1 DEF AboveIdle
  <2>2. EventRows(Rows, IdsOf(ExpectedRois(Results)), {"active"}) # {}
    BY <1>1, <1>2, <2>1, EventRowsSay
  <2>. QED  BY <2>2, TrustSays, DiagnosisOfPacket
<1>. QED  BY <1>6, <1>7

(* A packet agrees with the frames it was made from. *)
LEMMA PacketIsEvidence == ASSUME Analyzed PROVE VerdictHasEvidence
<1>. DEFINE visual == AnalyzeFrames(run)
<1>1. packet.result = "pass" <=> Evidence /\ Trustworthy
  BY VerdictSays
<1>2. /\ packet.result = "pass" => packet.observability.codes = {} /\ ~packet.attention /\ packet.issue = ""
      /\ packet.result # "pass" => packet.observability.codes # {} /\ packet.review
  <2>1. packet = BuildSelfMirrorMetricSummary(visual)
    BY DEF Analyzed, EvidenceInv, AnalyzedInv
  <2>. HIDE DEF visual
  <2>. QED  BY <2>1, PacketSays
<1>3. packet.result = "pass" /\ cfg.scenario.motion # "none" =>
          packet.diagnosis.result \notin SilentDiagnoses
  <2>1. MotionSeen \cap SilentDiagnoses = {}
    BY DEF MotionSeen, SilentDiagnoses, Correlated
  <2>2. ASSUME packet.result = "pass", cfg.scenario.motion # "none"
        PROVE  packet.diagnosis.result \in MotionSeen
    BY <1>1, <2>2, MotionIsDiagnosed
  <2>. QED  BY <2>1, <2>2
<1>4. packet.diagnosis.result = "event-correlated-motion" =>
          \E roi \in {r \in cfg.rois : r.counts /\ r.expected} : \E k \in Measured :
              /\ In(k, "active") /\ Score(k, roi.id) >= ActiveMin
              /\ \A j \in Measured :
                    In(j, "pretrigger") => Score(k, roi.id) - Score(j, roi.id) >= IdleDelta
  BY CorrelationSays DEF Correlated
<1>. QED  BY <1>1, <1>2, <1>3, <1>4, Zenon DEF VerdictHasEvidence

(* What was analyzed is what was observed, on every reachable state: the loop was left        *)
(* only after its last frame, a page that was sent no trigger shows no result, and the packet  *)
(* is the summary of the analysis of the whole run.                                            *)
THEOREM EvidenceInvariant == ProofSpec => []EvidenceInv
<1>1. ProofInit => EvidenceInv
  BY EvidenceHoldsAtFirst
<1>2. CaptureInv /\ EvidenceInv /\ [ProofNext]_proofVars => EvidenceInv'
  BY EvidenceIsInductive
<1>. QED  BY <1>1, <1>2, CaptureInvariant, PTL DEF ProofSpec

(* self_mirror_probe.py and the analyzer publish a pass exactly when the frames show the      *)
(* motion the scenario asks for, or its absence, on a page that can be trusted; the failure     *)
(* codes, the review and the diagnosis published with the verdict agree with it.                *)
THEOREM VerdictsHaveEvidence == ProofSpec => []VerdictHasEvidence
<1>1. CaptureInv /\ EvidenceInv => VerdictHasEvidence
  <2>1. CASE pc = "analyzed"
    BY <2>1, PacketIsEvidence DEF Analyzed
  <2>2. CASE pc # "analyzed"
    BY <2>2 DEF VerdictHasEvidence
  <2>. QED  BY <2>1, <2>2
<1>. QED  BY <1>1, CaptureInvariant, EvidenceInvariant, PTL
=============================================================================
