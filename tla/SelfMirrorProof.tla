----------------------------- MODULE SelfMirrorProof -----------------------------
(* A self-mirror proof run, from the browser to the judged packet: the wrapper       *)
(* chooses windows for the scenario, the capture samples the page, the analyzer       *)
(* labels the frames and publishes a metric summary, the wrapper deletes the frames,   *)
(* and afterwards anyone may judge the summary against a reference profile.            *)
(*                                                                                    *)
(* What the camera saw is an input: Observations gives, for a configuration, the        *)
(* frames' measurements and what the page reported of itself.                           *)
EXTENDS SelfMirrorCapture, AutoJudgment

CONSTANTS
    Observations(_),   \* external: what may be seen and reported in a run of a configuration
    Profiles,          \* the auto-judgment profiles at hand
    CaseSets,          \* sets of reference cases handed to the judge
    Margin,            \* postReleaseMargin, 500 ms in ticks
    MaxJudgments       \* bound: how often one packet is judged

(* Every region of a measured frame has scores that are numbers, a profile's thresholds   *)
(* are numbers, and the clock's bound leaves a run its last frame.  A scenario has regions  *)
(* and, as every one of the catalog that expects motion, needs the runtime join unless the   *)
(* run has a trigger; the camera sees as many frames as the capture takes.                    *)
ASSUME ProofAssumption ==
    /\ MaxJudgments \in Nat /\ Margin \in Nat
    /\ \A c \in Configs :
          /\ IsFiniteSet(c.rois) /\ c.rois # {}
          /\ ValidArguments(c) => FrameCount(c) * c.interval <= MaxClock
          /\ LET template == c.scenario.template
             IN  {template.active, template.release, template.late} \subseteq Nat
          /\ c.scenario.motion = "none" \/ c.scenario.joinRequired \/ c.trigger # "none"
          /\ \A seen \in Observations(c) :
                /\ Len(seen.frames) = FrameCount(c)
                /\ \A k \in 2 .. Len(seen.frames) : \A roi \in c.rois :
                      LET pixels == seen.frames[k][roi.id]
                      IN  {pixels.changed, pixels.shift, pixels.drift} \subseteq Nat
    /\ \A p \in Profiles :
          /\ IsFiniteSet(p.rois)
          /\ {p.quietMax, p.activeMin, p.minSamples, p.minCount, p.passFloor} \subseteq Nat

VARIABLES
    run,       \* what the analyzer was given; NoRun once the raw inputs are gone
    packet,    \* the metric summary, NoPacket before it
    judgments  \* how often the packet was judged

proofVars == <<cfg, pc, index, clock, elapsed, page, trigger, motionResult, startDiag, stop,
               counted, frames, failures, run, packet, judgments>>

NoRun == [frames |-> <<>>]
NoPacket == [id |-> ""]

-----------------------------------------------------------------------------
(* The wrapper *)

(* A stopped dance is released at its stop and watched after the release. *)
NewSelfMirrorWindows(c) ==
    LET template == c.scenario.template
        dur == Max({1, c.duration})
        start == Max({1, Min({c.triggerAt, dur - 1})})
        activeEnd == Max({start + 1,
                          Min({dur, IF c.stopAt > 0 THEN c.stopAt ELSE start + template.active})})
        margin == IF c.stopAt > 0 THEN Margin ELSE 0
        releaseEnd == Max({activeEnd + 1, Min({dur, activeEnd + template.release + margin})})
        watches == c.stopAt <= 0 /\ template.late > 0 /\ releaseEnd < dur
        lateEnd == Max({releaseEnd + 1, Min({dur, releaseEnd + template.late})})
        settleStart == IF watches THEN lateEnd ELSE releaseEnd
        Window(id, from, until) == [id |-> id, from |-> from, until |-> until]
    IN  <<Window("pretrigger", 0, start), Window("active", start, activeEnd),
          Window("release", activeEnd, releaseEnd)>>
        \o (IF watches THEN <<Window("late_watch", releaseEnd, lateEnd)>> ELSE <<>>)
        \o <<Window("settle", settleStart, Max({settleStart + 1, dur}))>>

(* A stop must leave the watch its time; the count is due when the release is over. *)
WrapperAccepts(c) ==
    c.stopAt > 0 =>
        LET released == c.stopAt + c.scenario.template.release + Margin
        IN  c.triggerAt < c.stopAt /\ c.settleAt = released
            /\ c.duration - released >= c.scenario.template.late

-----------------------------------------------------------------------------
(* What the capture hands over *)

(* The identifiers of the plan: the run's own, and the stop's derived from them. *)
PlannedDriver == "driver"
StopResult == "driver_stop"

(* runtimeJoin: whose names the stimulus whose result was read, or "none". *)
RuntimeJoin(whose, seen) ==
    LET none == whose = "none"
        stopped == whose = "stop"
    IN  [result |-> IF none THEN "" ELSE IF stopped THEN StopResult ELSE seen.ids.result,
         driver |-> IF none THEN PlannedDriver ELSE IF stopped THEN StopResult ELSE seen.ids.driver,
         event |-> "event", stimulus |-> "stimulus",
         status |-> IF none THEN "" ELSE IF stopped THEN "completed" ELSE seen.status,
         reason |-> IF none \/ stopped THEN "" ELSE seen.reason,
         state |-> IF none \/ stopped THEN "" ELSE seen.state]

(* The page's own times win over those the capture infers from the result that was read,  *)
(* whosever it is: it dates them from the dispatch of the trigger.                         *)
BuildEventTimeline(whose, seen) ==
    LET reported == {"motion_requested", "runtime_accepted", "runtime_started", "runtime_result",
                     "driver_applied", "frame_applied", "visual_commit"}
        Reported(timeline) == [a \in DOMAIN timeline \cap reported |-> timeline[a]]
    IN  Reported(seen.diag.fields) @@ Reported(seen.diag.nested)
        @@ [a \in IF whose # "none" THEN seen.lifecycle ELSE {} |-> trigger.at]
        @@ [a \in {"capture_started"} \cup (IF trigger.dispatched THEN {"bridge_dispatched"} ELSE {}) |->
                IF a = "capture_started" THEN 0 ELSE trigger.at]

(* main: without a result of its own the run takes whatever the page shows, if that   *)
(* can be read.                                                                       *)
ResultRead == IF motionResult # "none" THEN {motionResult} ELSE {"none", page.result}

AnalyzerRun(whose, seen) ==
    [id |-> "run", scenario |-> cfg.scenario, layer |-> "visible_motion",
     interval |-> cfg.interval, windows |-> NewSelfMirrorWindows(cfg), rois |-> cfg.rois,
     frames |-> seen.frames, ready |-> seen.ready, diag |-> seen.diag,
     join |-> RuntimeJoin(whose, seen), timeline |-> BuildEventTimeline(whose, seen),
     refs |-> [event |-> "event", stimulus |-> "stimulus",
               driver |-> RuntimeJoin(whose, seen).driver]]

-----------------------------------------------------------------------------
(* Steps *)

ProofInit ==
    /\ CaptureInit /\ WrapperAccepts(cfg)
    /\ run = NoRun /\ packet = NoPacket /\ judgments = 0

Capture == CaptureNext /\ UNCHANGED <<run, packet, judgments>>

(* The wrapper rewrites the browser's configuration and runs the analyzer on it; a    *)
(* window that does not end after it starts is refused.                                *)
Analyze ==
    /\ pc = "captured"
    /\ \E whose \in ResultRead, seen \in Observations(cfg) :
          LET input == AnalyzerRun(whose, seen)
          IN  /\ \A k \in DOMAIN input.windows : ParseWindow(input.windows[k])
              /\ run' = input
              /\ packet' = BuildSelfMirrorMetricSummary(AnalyzeFrames(input))
    /\ pc' = "analyzed"
    /\ UNCHANGED <<cfg, index, clock, elapsed, page, trigger, motionResult, startDiag, stop,
                   counted, frames, failures, judgments>>

(* The wrapper's finally block: frames and configuration go, whatever came before, and  *)
(* of the capture, its page and its process nothing is left but the packet.              *)
RemoveBrowserRawInputs ==
    /\ pc \in {"analyzed", "failed"}
    /\ pc' = IF pc = "analyzed" THEN "published" ELSE "abandoned"
    /\ run' = NoRun /\ frames' = <<>>
    /\ index' = 0 /\ clock' = 0 /\ elapsed' = 0 /\ page' = FreshPage
    /\ trigger' = NotDispatched /\ stop' = NotDispatched
    /\ motionResult' = "none" /\ startDiag' = FALSE
    /\ counted' = [value |-> Unread, at |-> Never] /\ failures' = {}
    /\ UNCHANGED <<cfg, packet, judgments>>

(* Anyone may judge the published packet, with or without a profile, and again. *)
Judge ==
    /\ pc = "published" /\ judgments < MaxJudgments
    /\ \E profile \in Profiles \cup {NoProfile}, cases \in CaseSets :
          packet' = AttachAutoJudgment(packet, JudgeMetricSummary(packet, profile, cases))
    /\ judgments' = judgments + 1
    /\ UNCHANGED <<cfg, pc, index, clock, elapsed, page, trigger, motionResult, startDiag, stop,
                   counted, frames, failures, run>>

Done == pc \in {"published", "abandoned"} /\ UNCHANGED proofVars

ProofNext == Capture \/ Analyze \/ RemoveBrowserRawInputs \/ Judge \/ Done

ProofSpec == ProofInit /\ [][ProofNext]_proofVars

-----------------------------------------------------------------------------
(* Properties *)

(* Type invariant: the steps and the packet's published vocabulary. *)
ProofTypeOK ==
    /\ pc \in Steps \cup {"captured", "failed", "analyzed", "published", "abandoned"}
    /\ cfg \in Configs /\ index \in 0 .. FrameCount(cfg) /\ clock \in 0 .. MaxClock
    /\ elapsed \in 0 .. clock /\ Len(frames) <= index /\ judgments \in 0 .. MaxJudgments
    /\ motionResult \in {"none", "trigger"} /\ page.result \in {"none", "trigger", "stop"}
    /\ packet # NoPacket =>
          /\ packet.result \in {"pass", "partial", "blocked", "fail"}
          /\ packet.confidence \in 0 .. 1000
          /\ packet.judgment.result \in {"none", "pass", "fail", "unclear"}

(* The evidence, stated on the frames themselves: k is a frame after the first. *)
Measured == 2 .. Len(run.frames)
In(k, window) ==
    \E w \in DOMAIN run.windows : /\ run.windows[w].id = window
                                  /\ run.windows[w].from <= Nominal(k - 1)
                                  /\ Nominal(k - 1) < run.windows[w].until
FrameScore(k, roi) == Max({run.frames[k][roi].changed, run.frames[k][roi].shift})
Score(k, roi) == Max({FrameScore(k, roi), run.frames[k][roi].drift})
QuietIn(roi, window) == \A k \in Measured : In(k, window) => Score(k, roi) < ActiveMin
Settles(roi) == \A k \in Measured : In(k, "settle") => FrameScore(k, roi) <= SettleMax

(* MinConsecutive frames in a row move in the active window, all taken after the page   *)
(* heard the trigger.                                                                   *)
Moves(roi) ==
    \E k \in Measured : \A j \in k .. k + MinConsecutive - 1 :
        j \in Measured /\ In(j, "active") /\ Score(j, roi) >= ActiveMin /\ frames[j].heard

Evidence ==
    LET ids == {roi.id : roi \in cfg.rois}
        expected == {roi.id : roi \in {r \in cfg.rois : r.counts /\ r.expected}}
    IN  IF cfg.scenario.motion = "none"
        THEN \A id \in ids : /\ \A w \in {"pretrigger", "active", "release"} : QuietIn(id, w)
                             /\ Settles(id)
                             /\ \A k \in Measured : In(k, "settle") => FrameScore(k, id) < ActiveMin
        ELSE /\ expected # {}
             /\ \A id \in expected : QuietIn(id, "pretrigger") /\ Moves(id) /\ Settles(id)

Trustworthy ==
    /\ \A roi \in cfg.rois : ~OutOfFrame(roi.rect)
    /\ CaptureIsReady(run.ready)
    /\ cfg.scenario.joinRequired => RunIsJoined(run.join, cfg.scenario)
    /\ run.diag.facts \cap Denials = {}
    /\ "mixed_surface" \in run.diag.facts => Separations \subseteq run.diag.facts

(* A packet is a pass exactly when the frames it was made from are evidence: every       *)
(* expected region is quiet before the trigger, moves for long enough after the page      *)
(* heard it and has settled, on a page that was ready, joined to the run and the right     *)
(* one; or, for the idle scenario, nothing moves at all.  The diagnosis published beside    *)
(* the verdict does not contradict it: a pass of motion is not diagnosed as a run           *)
(* without motion and carries no failure codes, and motion is called correlated with the     *)
(* event only when an expected region moved above its own idle level.                        *)
SilentDiagnoses ==
    {"wrong-target-or-surface-mismatch", "pretrigger-contamination", "roi-threshold-miss",
     "frame-applied-but-pixel-static", "runtime-started-but-no-frame-applied",
     "runtime-started-no-visible-motion", "no-visible-motion"}

VerdictHasEvidence ==
    pc = "analyzed" =>
        /\ packet.result = "pass" <=> Evidence /\ Trustworthy
        /\ packet.result = "pass" =>
              /\ packet.observability.codes = {} /\ ~packet.attention /\ packet.issue = ""
              /\ cfg.scenario.motion # "none" => packet.diagnosis.result \notin SilentDiagnoses
        /\ packet.result # "pass" => packet.observability.codes # {} /\ packet.review
        /\ packet.diagnosis.result = "event-correlated-motion" =>
              \E roi \in {r \in cfg.rois : r.counts /\ r.expected} : \E k \in Measured :
                  /\ In(k, "active") /\ Score(k, roi.id) >= ActiveMin
                  /\ \A j \in Measured :
                        In(j, "pretrigger") => Score(k, roi.id) - Score(j, roi.id) >= IdleDelta

(* A judgment attached to a packet is guarded: a pass names an active profile of this      *)
(* scenario, rests on a run whose references are all there and on regions that were quiet    *)
(* before and moved enough after, is confident enough for that profile, and needs no review,   *)
(* which everything unclear does.  Judging again never raises the packet's confidence, gives    *)
(* the same judgment for the same profile, and leaves the measured verdict as it was.            *)
PassIsGuarded(judged) ==
    \E p \in Profiles :
        LET Metric(roi, window) == judged.metrics[<<roi, window>>]
            Has(roi, window) == <<roi, window>> \in DOMAIN judged.metrics
            moved == {roi \in p.rois : /\ Has(roi, "active")
                                       /\ Metric(roi, "active").movement >= p.activeMin
                                       /\ Metric(roi, "active").samples >= p.minSamples}
        IN  /\ p.id = judged.judgment.profile /\ p.status # "draft" /\ p.scenario = judged.scenario
            /\ \A field \in p.fields : judged.refs[field] # ""
            /\ \A roi \in p.rois : Has(roi, "pretrigger") => Metric(roi, "pretrigger").movement <= p.quietMax
            /\ Cardinality(moved) >= p.minCount
            /\ judged.confidence >= p.passFloor

JudgmentIsGuarded ==
    [][ judgments' > judgments =>
          /\ packet'.judgment.result = "pass" => PassIsGuarded(packet') /\ ~packet'.review
          /\ packet'.judgment.result = "unclear" <=> packet'.review
          /\ packet'.confidence <= packet.confidence
          /\ \E p \in Profiles \cup {NoProfile}, cases \in CaseSets :
                JudgeMetricSummary(packet', p, cases) = packet'.judgment
          /\ packet'.result = packet.result /\ packet'.latest = packet.latest
          /\ packet'.metrics = packet.metrics ]_proofVars

(* The README's claim for a pass of motion: the region settled, so it was looked at     *)
(* while it should rest.                                                                *)
PassedHasSettled ==
    pc = "analyzed" /\ packet.result = "pass" /\ cfg.scenario.motion # "none" =>
        \E k \in Measured : In(k, "settle")

(* The README's promise: low confidence is unclear.  Every region a profile asks for     *)
(* moved enough; all that is short of a pass is the confidence.                           *)
LowConfidenceIsUnclear ==
    packet # NoPacket =>
        \A p \in Profiles :
            packet.judgment.profile = p.id /\ packet.confidence < p.passFloor
            /\ ActiveExpectedRoiResult(packet.metrics, p).reasons = {} =>
                packet.judgment.result = "unclear"
=============================================================================
