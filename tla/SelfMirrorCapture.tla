---------------------------- MODULE SelfMirrorCapture ----------------------------
(* The browser capture of a self-mirror run: one loop takes a screenshot per       *)
(* sampling interval and, between screenshots, sends the page the trigger, reads    *)
(* back what the page made of it, sends a dance its stop and counts the dances      *)
(* still running.  Every call to the page is an await: the page moves on, time      *)
(* passes, and the call may fail before or after it reached the page.  Whatever     *)
(* ends the loop, the finally block closes the screenshot session and, if a         *)
(* triggered dance was not told to stop, tells it.                                  *)
EXTENDS Integers, Sequences, FiniteSets, FiniteSetsExt

CONSTANTS
    Configs,      \* the argument records of the runs that are started; lags bounds
                  \* how long a screenshot or a dispatch of that run may take
    MaxClock      \* bound: a run's clock stays at or below it

Never == -1
Steps == {"frame", "trigger", "apply", "poll", "stop", "count", "shot", "late", "close", "failsafe",
          "return"}
Triggers == {"none", "context-nod", "dance", "expression-visible"}

(* What main accepts: a trigger before the end, and a dance stop only for a dance,   *)
(* after its trigger, with the count after the stop and before the end.              *)
ValidArguments(c) ==
    /\ c.duration > 0 /\ c.interval > 0 /\ c.triggerAt >= 1
    /\ c.trigger # "none" => c.triggerAt < c.duration
    /\ c.stopAt > 0 => /\ c.trigger = "dance"
                       /\ c.triggerAt < c.stopAt /\ c.stopAt < c.duration
                       /\ c.stopAt < c.settleAt /\ c.settleAt < c.duration
    /\ c.stopAt = 0 => c.settleAt = 0

ASSUME CaptureAssumption ==
    /\ MaxClock \in Nat
    /\ \A c \in Configs :
          /\ c.trigger \in Triggers
          /\ c.lags \subseteq Nat /\ 0 \in c.lags
          /\ {c.duration, c.interval, c.triggerAt, c.stopAt, c.settleAt} \subseteq Nat

VARIABLES
    cfg,          \* the arguments of this run
    pc,           \* the step of captureFrames the run is at
    index,        \* the frame the loop is at
    clock,        \* ticks since the capture started
    elapsed,      \* the loop's own reading of the clock, taken once per frame
    page,         \* external: what the page was told, when, and what it published
    trigger,      \* triggerResult
    motionResult, \* motionStimulusResult: whose result it is, or "none"
    startDiag,    \* startProjectionVisualDiagnostics was read
    stop,         \* danceStopResult
    counted,      \* danceInstancesAfterRelease and when it was sampled
    frames,       \* framePaths; ghost: what the page had been told by then
    failures      \* captureFailure, detachFailure and failSafeStopFailure

captureVars == <<cfg, pc, index, clock, elapsed, page, trigger, motionResult, startDiag,
                 stop, counted, frames, failures>>

Nominal(i) == i * cfg.interval
FrameCount(c) == Max({2, (c.duration + c.interval - 1) \div c.interval})

Unread == "unread"
NotDispatched == [dispatched |-> FALSE, at |-> Never]

FreshPage == [heard |-> FALSE, stops |-> 0, stoppedAt |-> Never, due |-> <<>>,
              result |-> "none", applied |-> FALSE]

(* What main starts captureFrames with. *)
CaptureInit ==
    /\ cfg \in {c \in Configs : ValidArguments(c)}
    /\ pc = "frame" /\ index = 0 /\ clock = 0 /\ elapsed = 0
    /\ page = FreshPage
    /\ trigger = NotDispatched /\ stop = NotDispatched
    /\ motionResult = "none" /\ startDiag = FALSE
    /\ counted = [value |-> Unread, at |-> Never]
    /\ frames = <<>> /\ failures = {}

-----------------------------------------------------------------------------
(* The page *)

(* The page publishes the result of a stimulus it heard; there is one place for it, *)
(* so the result of the stop replaces the result of the trigger.                     *)
PublishResult ==
    /\ page.due # <<>>
    /\ page' = [page EXCEPT !.result = Head(page.due), !.due = Tail(page.due)]

(* The page draws the frame the trigger asked for; only an expression looks for it. *)
ApplyFrame ==
    /\ page.heard /\ ~page.applied /\ cfg.trigger = "expression-visible"
    /\ page' = [page EXCEPT !.applied = TRUE]

PageStep ==
    /\ pc \in Steps
    /\ PublishResult \/ ApplyFrame
    /\ UNCHANGED <<cfg, pc, index, clock, elapsed, trigger, motionResult, startDiag, stop,
                   counted, frames, failures>>

TriggerHeard == [page EXCEPT !.heard = TRUE, !.due = Append(@, "trigger")]
StopHeard == [page EXCEPT !.stops = @ + 1, !.due = Append(@, "stop"),
                          !.stoppedAt = IF @ = Never THEN clock' ELSE @]

-----------------------------------------------------------------------------
(* The loop *)

(* An exception leaves the loop for the finally block. *)
Throw(failure) == pc' = "close" /\ failures' = failures \cup {failure}

Passes(lag) == clock + lag <= MaxClock /\ clock' = clock + lag

(* Mutant: the trigger is due only after its time. *)
TriggerOverdue == ~trigger.dispatched /\ cfg.trigger # "none" /\ clock > cfg.triggerAt

TriggerDue == ~trigger.dispatched /\ cfg.trigger # "none" /\ clock >= cfg.triggerAt

(* The top of an iteration reads the clock; everything in it is decided by that       *)
(* reading.  After the last frame a trigger that never came due is still sent.        *)
BeginFrame ==
    /\ pc = "frame"
    /\ IF index < FrameCount(cfg)
       THEN elapsed' = clock /\ pc' = (IF TriggerDue THEN "trigger" ELSE "poll")
       ELSE /\ UNCHANGED elapsed
            /\ pc' = (IF ~trigger.dispatched /\ cfg.trigger # "none" THEN "late" ELSE "close")
    /\ UNCHANGED <<cfg, index, clock, page, trigger, motionResult, startDiag, stop, counted,
                   frames, failures>>

(* dispatchTrigger, in the loop or after it: the evaluate may fail before or after   *)
(* the page heard it, and only one that returns counts as dispatched. An expression   *)
(* is then given time to render.                                                      *)
DispatchTrigger(from, next, at) ==
    /\ pc = from
    /\ \E lag \in cfg.lags : Passes(lag)
    /\ \/ /\ page' = TriggerHeard
          /\ trigger' = [dispatched |-> TRUE, at |-> at]
          /\ pc' = next /\ UNCHANGED failures
       \/ /\ page' \in {page, TriggerHeard}
          /\ Throw("capture") /\ UNCHANGED trigger
    /\ UNCHANGED <<cfg, index, elapsed, motionResult, startDiag, stop, counted, frames>>

TriggerInLoop ==
    DispatchTrigger("trigger", IF cfg.trigger = "expression-visible" THEN "apply" ELSE "poll", elapsed)

TriggerLate == DispatchTrigger("late", "close", clock)

(* An expression waits, up to its deadline, for the page to report that the frame     *)
(* was applied for this very stimulus.                                                *)
AwaitExpression ==
    /\ pc = "apply"
    /\ \/ /\ page.result = "trigger" /\ page.applied
          /\ motionResult' = "trigger" /\ startDiag' = TRUE
          /\ pc' = "poll" /\ UNCHANGED failures
       \/ /\ Throw("capture")
          /\ motionResult' \in {motionResult, page.result} /\ UNCHANGED startDiag
    /\ UNCHANGED <<cfg, index, clock, elapsed, page, trigger, stop, counted, frames>>

(* Mutant of the loop's read: the stimulus of the result is not compared. *)
ReadTriggerResultOfAny == motionResult' \in {motionResult, page.result}

(* A read of the page may come back empty; a result of another stimulus is not taken. *)
ReadTriggerResult ==
    motionResult' \in {motionResult} \cup
        (IF trigger.dispatched /\ motionResult = "none" /\ page.result = "trigger"
         THEN {"trigger"} ELSE {})

DiagnosticsReady == cfg.trigger = "expression-visible" => page.result = "trigger" /\ page.applied

PollTrigger ==
    /\ pc = "poll"
    /\ ReadTriggerResult
    /\ startDiag' \in {startDiag, startDiag \/ (motionResult' # "none" /\ DiagnosticsReady)}
    /\ pc' = IF cfg.stopAt > 0 /\ trigger.dispatched /\ ~stop.dispatched /\ elapsed >= cfg.stopAt
             THEN "stop" ELSE "count"
    /\ UNCHANGED <<cfg, index, clock, elapsed, page, trigger, stop, counted, frames, failures>>

(* dispatchDanceStop: dispatched once the evaluate returns, at the clock of then.     *)
DispatchDanceStop(from, next, failure) ==
    /\ pc = from
    /\ \E lag \in cfg.lags : Passes(lag)
    /\ \/ /\ page' = StopHeard
          /\ stop' = [dispatched |-> TRUE, at |-> clock']
          /\ pc' = next /\ UNCHANGED failures
       \/ /\ page' \in {page, StopHeard}
          /\ failures' = failures \cup {failure}
          /\ pc' = (IF from = "stop" THEN "close" ELSE next)
          /\ UNCHANGED stop
    /\ UNCHANGED <<cfg, index, elapsed, trigger, motionResult, startDiag, counted, frames>>

ScheduledStop == DispatchDanceStop("stop", "count", "capture")

(* Mutant of releaseCountEligibleAtMs: the planned time, however late the stop was. *)
ReleaseCountPlannedAt == cfg.settleAt

ReleaseCountEligibleAt == stop.at + (cfg.settleAt - cfg.stopAt)

(* A count that could not be read is asked again next time, its time kept all the same. *)
CountDances ==
    /\ pc = "count"
    /\ IF stop.dispatched /\ counted.value = Unread /\ elapsed >= ReleaseCountEligibleAt
       THEN \E value \in {Unread, "still", "over"} : counted' = [value |-> value, at |-> elapsed]
       ELSE UNCHANGED counted
    /\ pc' = "shot"
    /\ UNCHANGED <<cfg, index, clock, elapsed, page, trigger, motionResult, startDiag, stop,
                   frames, failures>>

(* The screenshot, and the sleep until the next frame is due. *)
CaptureFrame ==
    /\ pc = "shot"
    /\ \E lag \in cfg.lags :
          /\ clock + lag <= MaxClock
          /\ clock' = IF clock + lag < Nominal(index + 1) THEN Nominal(index + 1) ELSE clock + lag
    /\ frames' = Append(frames, [heard |-> page.heard, stopped |-> page.stops > 0])
    /\ index' = index + 1 /\ pc' = "frame"
    /\ UNCHANGED <<cfg, elapsed, page, trigger, motionResult, startDiag, stop, counted, failures>>

CaptureFails ==
    /\ pc = "shot"
    /\ Throw("capture")
    /\ UNCHANGED <<cfg, index, clock, elapsed, page, trigger, motionResult, startDiag, stop,
                   counted, frames>>

-----------------------------------------------------------------------------
(* The finally block and the return *)

CloseSession ==
    /\ pc = "close"
    /\ failures' \in {failures, failures \cup {"detach"}}
    /\ pc' = IF cfg.stopAt > 0 /\ trigger.dispatched /\ ~stop.dispatched THEN "failsafe" ELSE "return"
    /\ UNCHANGED <<cfg, index, clock, elapsed, page, trigger, motionResult, startDiag, stop,
                   counted, frames>>

FailSafeStop == DispatchDanceStop("failsafe", "return", "cleanup")

(* The first failure in the order cleanup, detach, capture is thrown; without one the  *)
(* result is read a last time, and an expression that was never seen applied throws.   *)
(* main, finding no result, takes whatever the page shows.                             *)
ReturnCapture ==
    /\ pc = "return"
    /\ ReadTriggerResult
    /\ pc' = IF failures = {} /\ (cfg.trigger = "expression-visible" => startDiag)
             THEN "captured" ELSE "failed"
    /\ UNCHANGED <<cfg, index, clock, elapsed, page, trigger, startDiag, stop, counted, frames, failures>>

CaptureNext ==
    \/ BeginFrame \/ TriggerInLoop \/ TriggerLate \/ AwaitExpression \/ PollTrigger
    \/ ScheduledStop \/ CountDances \/ CaptureFrame \/ CaptureFails
    \/ CloseSession \/ FailSafeStop \/ ReturnCapture \/ PageStep

-----------------------------------------------------------------------------
(* Properties *)

(* Once captureFrames is over, a dance that was started with a stop time set has      *)
(* been told to stop, whatever failed or overran, unless the failure to do so is       *)
(* itself the failure that is thrown.  A run that is returned told it exactly once,    *)
(* and the dances still running were counted no earlier than the promised settling     *)
(* time after the page heard the stop.                                                 *)
DanceIsStopped ==
    /\ pc \in {"captured", "failed"} /\ cfg.stopAt > 0 /\ trigger.dispatched =>
          \/ stop.dispatched /\ page.stops >= 1
          \/ "cleanup" \in failures /\ pc = "failed"
    /\ pc = "captured" /\ cfg.stopAt > 0 => page.stops = 1
    /\ counted.at # Never =>
          page.stops = 1 /\ counted.at - page.stoppedAt >= cfg.settleAt - cfg.stopAt

(* A frame that the analyzer will date at or after the trigger was taken after the     *)
(* page heard the trigger, and one dated at or after the stop after it heard the stop,  *)
(* although frames are dated by their number and stimuli sent by the clock.             *)
FramesFollowStimuli ==
    \A k \in DOMAIN frames :
        /\ cfg.trigger # "none" /\ Nominal(k - 1) >= cfg.triggerAt => frames[k].heard
        /\ cfg.stopAt > 0 /\ Nominal(k - 1) >= cfg.stopAt => frames[k].stopped
=============================================================================
