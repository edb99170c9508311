------------------------------ MODULE MotionVerdict ------------------------------
(* The visual motion analyzer: what one captured run is said to show.           *)
(* A run is a sequence of frames; every frame after the first is measured in     *)
(* every region of interest (ROI) against the frame before it and the first one. *)
(* The rows of measurements are labelled ROI by ROI, the labels and the runtime   *)
(* join give the verdict, and a second, independent pass over the same rows gives *)
(* the diagnosis that is published beside it.                                     *)
(*                                                                              *)
(* Scores are integers (the code's floats in [0, 1], scaled), times are clock     *)
(* ticks, a missing text is "" and a missing time is NoTime.                      *)
EXTENDS Integers, FiniteSets, Sequences, FiniteSetsExt, TLC

CONSTANTS
    ActiveMin,       \* active_motion_min_score
    SettleMax,       \* settle_motion_max_score
    NearMin,         \* active_motion_min_score * threshold_too_strict_ratio
    IdleDelta,       \* idle_delta_min_score
    MinConsecutive   \* min_consecutive_samples

ASSUME ThresholdAssumption ==
    /\ {ActiveMin, SettleMax, NearMin, IdleDelta, MinConsecutive} \subseteq Nat
    /\ 0 < ActiveMin /\ NearMin <= ActiveMin /\ 0 < MinConsecutive

NoTime == -1

PeakOf(scores) == Max({0} \cup scores)

(* The first rule of an ordered list that holds decides. *)
FirstRule(rules, otherwise) ==
    LET hits == {k \in DOMAIN rules : rules[k].holds}
    IN  IF hits = {} THEN otherwise ELSE rules[Min(hits)].says

Rule(holds, says) == [holds |-> holds, says |-> says]

-----------------------------------------------------------------------------
(* Rows *)

(* A window the parser accepts ends after it starts. *)
ParseWindow(w) == w.from < w.until

(* A rectangle is in percent of the frame. *)
OutOfFrame(rect) ==
    \/ rect.x < 0 \/ rect.y < 0
    \/ rect.w <= 0 \/ rect.h <= 0
    \/ rect.x + rect.w > 100 \/ rect.y + rect.h > 100

ParseRoi(roi) ==
    [id |-> roi.id, kind |-> roi.kind, counts |-> roi.counts,
     expected |-> roi.expected, out |-> OutOfFrame(roi.rect)]

(* Windows are half open and the first one that holds the time names it. *)
WindowIdAt(t, windows) ==
    LET open == {k \in DOMAIN windows : windows[k].from <= t /\ t < windows[k].until}
    IN  IF open = {} THEN "outside" ELSE windows[Min(open)].id

(* One ROI of one frame. pixels holds what the image comparison returns: the      *)
(* changed share and the shift (flow, box, centroid) against the frame before,    *)
(* the drift against the first frame. The frame score leaves the drift out.       *)
MeasureRoi(pixels, id, t, window) ==
    LET frame == Max({pixels.changed, pixels.shift})
    IN  [roi |-> id, t |-> t, window |-> window, changed |-> pixels.changed,
         frame |-> frame, motion |-> Max({frame, pixels.drift})]

(* Frame k is taken to be k - 1 sampling intervals after the first, which is only *)
(* the baseline and gives no rows.                                                *)
MeasuredRows(frames, interval, windows, rois) ==
    {MeasureRoi(frames[k][roi.id], roi.id, (k - 1) * interval,
                WindowIdAt((k - 1) * interval, windows)) :
        k \in 2 .. Len(frames), roi \in rois}

(* A settle row is judged by its frame score: a new resting pose has settled. *)
JudgmentMotionScore(row) == IF row.window = "settle" THEN row.frame ELSE row.motion

(* The peak of a window without rows is zero. *)
Peak(rows, id, window) ==
    PeakOf({JudgmentMotionScore(r) : r \in {q \in rows : q.roi = id /\ q.window = window}})

(* Mutant: the count is not reset by a row below the threshold. *)
TotalAtOrAbove(rows, id, window, threshold) ==
    Cardinality({r \in rows : r.roi = id /\ r.window = window /\ r.motion >= threshold})

MaxConsecutiveAtOrAbove(rows, id, window, threshold) ==
    LET mine == {r \in rows : r.roi = id /\ r.window = window}
        Between(a, b) == {r \in mine : a.t <= r.t /\ r.t <= b.t}
        runs == {p \in mine \X mine : \A r \in Between(p[1], p[2]) : r.motion >= threshold}
    IN  PeakOf({Cardinality(Between(p[1], p[2])) : p \in runs})

-----------------------------------------------------------------------------
(* Labels of the ROIs *)

RoiLabel(roi, rows, pre, settle) ==
    IF roi.counts /\ roi.expected /\ ~roi.out
    THEN LET run == MaxConsecutiveAtOrAbove(rows, roi.id, "active", ActiveMin)
         IN  FirstRule(<<Rule(pre >= ActiveMin, "visual-pretrigger-motion"),
                         Rule(run >= MinConsecutive /\ settle <= SettleMax, "visual-motion-detected"),
                         Rule(settle > SettleMax, "did-not-settle")>>,
                       "visual-missing-motion")
    ELSE FirstRule(<<Rule(roi.out, "roi-out-of-frame"),
                     Rule(roi.counts, "avatar-motion-not-required")>>,
                   "guard-ui-motion-excluded")

SummarizeRois(rows, rois) ==
    {LET pre == Peak(rows, roi.id, "pretrigger")
         settle == Peak(rows, roi.id, "settle")
     IN  [id |-> roi.id, kind |-> roi.kind, counts |-> roi.counts,
          expected |-> roi.expected, out |-> roi.out,
          pre |-> pre, active |-> Peak(rows, roi.id, "active"),
          release |-> Peak(rows, roi.id, "release"), settle |-> settle,
          label |-> RoiLabel(roi, rows, pre, settle)] : roi \in rois}

(* The ROIs a pass rests on, and the ones that are only looked at. *)
ExpectedRois(results) == {r \in results : r.counts /\ r.expected}

IsDiagnosticRoi(roi) ==
    \/ roi.kind = "diagnostic"
    \/ roi.id \in {"avatar_wide", "full_viewport", "non_guard_area", "scene_full"}

LooksThresholdTooStrict(roi) ==
    /\ roi.label = "visual-missing-motion"
    /\ roi.pre < ActiveMin
    /\ roi.settle <= SettleMax
    /\ NearMin <= roi.active /\ roi.active < ActiveMin

-----------------------------------------------------------------------------
(* Readiness and the runtime join *)

(* ready holds the answers of the page's readiness probe that came back false;   *)
(* a skipped or missing probe counts as ready.                                   *)
CaptureIsReady(ready) ==
    \/ ready.skipped
    \/ ready.missing \cap {"hasCanvas", "visualTestModeMatches", "vrmReady", "sceneVisible"} = {}

(* scenario.tokens are the scenario families its id or key names. *)
AllowsDistinctRuntimeDriverJoin(scenario) ==
    /\ scenario.motion = "face_visible_change"
    /\ "expression_visible_change" \in scenario.tokens

AllowsStartedRuntimeJoin(scenario) ==
    \/ scenario.motion = "broad_avatar_motion" /\ "dance_visible_motion" \in scenario.tokens
    \/ AllowsDistinctRuntimeDriverJoin(scenario)

(* The empty set stands for no restriction. *)
StartedJoinReasonCodes(scenario) ==
    IF AllowsDistinctRuntimeDriverJoin(scenario)
    THEN {"motion_runtime_expression_frame_queued"} ELSE {}

StartedJoinSafeVisibleStates(scenario) ==
    IF AllowsDistinctRuntimeDriverJoin(scenario)
    THEN {"expression_change_requested"} ELSE {}

NoJoin == [result |-> "", driver |-> "", event |-> "", stimulus |-> "",
           status |-> "", reason |-> "", state |-> ""]

RuntimeIsJoined(join, started, distinct, reasons, states) ==
    /\ join.result # ""
    /\ join.driver \in {"", join.result} \/ (distinct /\ join.event # "" /\ join.stimulus # "")
    /\ join.status \in {"", "completed"} \cup (IF started THEN {"started"} ELSE {})
    /\ join.status = "started" =>
          /\ reasons = {} \/ join.reason \in reasons
          /\ states = {} \/ join.state \in states

RunIsJoined(join, scenario) ==
    RuntimeIsJoined(join, AllowsStartedRuntimeJoin(scenario),
                    AllowsDistinctRuntimeDriverJoin(scenario),
                    StartedJoinReasonCodes(scenario), StartedJoinSafeVisibleStates(scenario))

-----------------------------------------------------------------------------
(* Event timeline and the diagnostics the page reports about itself *)

EventAnchors == {"user_request", "motion_requested", "bridge_dispatched", "runtime_accepted",
                 "runtime_started", "runtime_result", "driver_applied", "frame_applied",
                 "visual_commit", "capture_started", "analysis_started"}

NoTimeline == [a \in {} |-> 0]

(* A timeline gives anchors their times; a negative time is dropped. *)
SafeEventTimeline(timeline) ==
    [a \in {b \in DOMAIN timeline \cap EventAnchors : timeline[b] >= 0} |-> timeline[a]]

SafeNumericMs(timeline, anchor) ==
    LET safe == SafeEventTimeline(timeline)
    IN  IF anchor \in DOMAIN safe THEN safe[anchor] ELSE NoTime

(* What the page may say of itself, each fact standing for a field with the value *)
(* the analyzer acts on.  diag.nested is its own event timeline, diag.fields the   *)
(* times it carries as plain fields.                                              *)
Denials == {"not_same_page", "target_identity_differs", "surface_differs", "mismatch_status"}
Separations == {"overlay_is_not_avatar", "avatar_is_not_overlay", "avatar_canvas", "dom_overlay"}
DriverFacts == {"driver_result_applied"}
FrameFacts == {"frames_counted", "weight_applied"} \cup DriverFacts
StartFacts == {"motion_started_state", "motion_queued_reason"}
SafeFacts == Denials \cup Separations \cup FrameFacts \cup StartFacts \cup {"mixed_surface", "heartbeat"}

NoDiagnostics == [facts |-> {}, nested |-> NoTimeline, fields |-> NoTimeline]

(* Anything that is not on the allow list, or looks like a path, is dropped. *)
SafeProjectionVisualDiagnostics(diag) ==
    [facts |-> diag.facts \cap SafeFacts, nested |-> SafeEventTimeline(diag.nested),
     fields |-> diag.fields]

(* A time is looked up in the page's fields and in the run's timeline. *)
Reports(diag, timeline, anchors) ==
    \E a \in anchors : SafeNumericMs(diag.fields, a) # NoTime \/ SafeNumericMs(timeline, a) # NoTime

(* The run's own times win, then the page's timeline, then its fields. *)
NormalizedEventTimeline(timeline, diag) ==
    SafeEventTimeline(timeline) @@ SafeEventTimeline(diag.nested) @@ SafeEventTimeline(diag.fields)

SurfacesExplicitlySeparated(diag) == Separations \subseteq diag.facts

TargetMismatch(diag) ==
    \/ diag.facts \cap Denials # {}
    \/ "mixed_surface" \in diag.facts /\ ~SurfacesExplicitlySeparated(diag)

FrameApplied(diag, timeline) ==
    /\ diag # NoDiagnostics
    /\ \/ diag.facts \cap FrameFacts # {}
       \/ Reports(diag, timeline, {"frame_applied", "visual_commit"})

DriverApplied(diag, timeline) ==
    diag.facts \cap DriverFacts # {} \/ Reports(diag, timeline, {"driver_applied"})

RuntimeStarted(diag, timeline) ==
    diag.facts \cap StartFacts # {} \/ Reports(diag, timeline, {"runtime_started"})

AnchorStatus(timeline, started, driver, frame) ==
    LET supported == {p \in {<<started, "runtime_started">>, <<driver, "driver_applied">>,
                             <<frame, "frame_applied">>} : p[1]}
        available == DOMAIN SafeEventTimeline(timeline) \cup {p[2] : p \in supported}
    IN  [available |-> available, missing |-> EventAnchors \ available]

TimelineStage(timeline, started) ==
    FirstRule(
        <<Rule(timeline = NoTimeline /\ ~started, "event-timeline-unavailable"),
          Rule(timeline = NoTimeline, "runtime-started"),
          Rule(SafeNumericMs(timeline, "motion_requested") = NoTime, "request-not-emitted"),
          Rule(SafeNumericMs(timeline, "bridge_dispatched") = NoTime, "motion-requested-but-not-dispatched"),
          Rule(~started /\ SafeNumericMs(timeline, "runtime_started") = NoTime, "runtime-not-started")>>,
        "runtime-started")

-----------------------------------------------------------------------------
(* The verdict *)

QuietResult(results, guardMotion) ==
    LET peaks == UNION {{r.pre, r.active, r.release, r.settle} : r \in results}
    IN  FirstRule(
            <<Rule(\E r \in results : r.pre >= ActiveMin, "visual-pretrigger-motion"),
              Rule(guardMotion, "guard-only-motion"),
              Rule(\E r \in results : r.settle > SettleMax, "did-not-settle"),
              Rule(PeakOf(peaks) < ActiveMin, "visual-pass")>>,
            "visual-missing-motion")

OverallResult(results, scenario, layer, join, diag, ready) ==
    LET expected == ExpectedRois(results)
        guards == {r \in results : ~r.counts /\ ~IsDiagnosticRoi(r)}
        guardMotion == \E r \in guards : r.active >= ActiveMin
        Labelled(label) == \E r \in expected : r.label = label
    IN  FirstRule(
            <<Rule(\E r \in results : r.label = "roi-out-of-frame", "roi-out-of-frame"),
              Rule(~CaptureIsReady(ready), "capture-not-ready"),
              Rule(layer = "visible_motion" /\ scenario.joinRequired /\ ~RunIsJoined(join, scenario),
                   "runtime-not-joined"),
              Rule(TargetMismatch(diag), "wrong-target-or-surface-mismatch"),
              Rule(scenario.motion = "none" \/ expected = {}, QuietResult(results, guardMotion)),
              Rule(Labelled("visual-pretrigger-motion"), "visual-pretrigger-motion"),
              Rule(Labelled("did-not-settle"), "did-not-settle"),
              Rule(\A r \in expected : r.label = "visual-motion-detected", "visual-pass"),
              Rule(guardMotion, "guard-only-motion"),
              Rule(\E r \in expected : LooksThresholdTooStrict(r), "threshold-too-strict")>>,
            "visual-missing-motion")

-----------------------------------------------------------------------------
(* The diagnosis: the same rows read again, now as motion above the idle level of *)
(* the pretrigger window, with the late watch counted and the settle window not.  *)

EventRows(rows, ids, windows) ==
    {r \in rows : /\ r.roi \in ids /\ r.window \in windows
                  /\ r.motion >= ActiveMin
                  /\ r.motion - Peak(rows, r.roi, "pretrigger") >= IdleDelta}

RoiIdsWithEventMotion(rows, ids, windows) == {r.roi : r \in EventRows(rows, ids, windows)}

FirstEventMotionTime(rows, ids, windows) ==
    LET times == {r.t : r \in EventRows(rows, ids, windows)}
    IN  IF times = {} THEN NoTime ELSE Min(times)

DiagnosticResult(mismatch, active, late, guard, diagnostic, idle, contaminated, missed, applied, started, page) ==
    FirstRule(
        <<Rule(mismatch, "wrong-target-or-surface-mismatch"),
          Rule(active # {}, "event-correlated-motion"),
          Rule(late # {}, "delayed-visible-change"),
          Rule(guard # {}, "guard-or-ui-only-motion"),
          Rule(diagnostic # {}, "motion-outside-expected-roi"),
          Rule(idle # {}, "idle-only-motion"),
          Rule(contaminated # {}, "pretrigger-contamination"),
          Rule(missed # {}, "roi-threshold-miss"),
          Rule(applied, "frame-applied-but-pixel-static"),
          Rule(started /\ page, "runtime-started-but-no-frame-applied"),
          Rule(started, "runtime-started-no-visible-motion")>>,
        "no-visible-motion")

MotionDiagnostics(rows, results, join, timeline, diag) ==
    LET Ids(rois) == {r.id : r \in rois}
        expected == Ids(ExpectedRois(results))
        guards == Ids({r \in results : ~r.counts /\ r.kind # "diagnostic"})
        watched == Ids({r \in results : IsDiagnosticRoi(r) \/ (r.counts /\ ~r.expected)})
        Above(id) == Peak(rows, id, "active") - Peak(rows, id, "pretrigger")
        active == RoiIdsWithEventMotion(rows, expected, {"active"})
        late == RoiIdsWithEventMotion(rows, expected, {"late_watch"})
        guard == RoiIdsWithEventMotion(rows, guards, {"active", "late_watch"})
        diagnostic == RoiIdsWithEventMotion(rows, watched, {"active", "late_watch"})
        idleLike == {id \in expected : Peak(rows, id, "active") >= ActiveMin /\ Above(id) < IdleDelta}
        contaminated == Ids({r \in ExpectedRois(results) : r.pre >= ActiveMin})
        missed == Ids({r \in ExpectedRois(results) : LooksThresholdTooStrict(r)})
        startedAt == SafeNumericMs(timeline, "runtime_started")
        started == RuntimeIsJoined(join, TRUE, FALSE, {}, {}) \/ RuntimeStarted(diag, timeline)
        frameApplied == FrameApplied(diag, timeline)
        firstActive == FirstEventMotionTime(rows, expected, {"active"})
        first == IF firstActive # NoTime THEN firstActive
                 ELSE FirstEventMotionTime(rows, expected, {"late_watch"})
    IN  [result |-> DiagnosticResult(TargetMismatch(diag), active, late, guard, diagnostic, idleLike,
                                     contaminated, missed, frameApplied, started, diag # NoDiagnostics),
         stage |-> TimelineStage(timeline, started),
         anchors |-> AnchorStatus(timeline, started, DriverApplied(diag, timeline), frameApplied),
         expectedMoved |-> active, lateMoved |-> late, guardMoved |-> guard,
         diagnosticMoved |-> diagnostic,
         latency |-> IF startedAt = NoTime \/ first = NoTime THEN NoTime ELSE Max({0, first - startedAt})]

-----------------------------------------------------------------------------
(* The whole analysis of a run *)

AnalyzeFrames(run) ==
    LET rois == {ParseRoi(roi) : roi \in run.rois}
        rows == MeasuredRows(run.frames, run.interval, run.windows, rois)
        results == SummarizeRois(rows, rois)
        diag == SafeProjectionVisualDiagnostics(run.diag)
        timeline == NormalizedEventTimeline(run.timeline, diag)
    IN  [id |-> run.id, scenario |-> run.scenario, layer |-> run.layer, windows |-> run.windows,
         refs |-> run.refs, join |-> run.join, rows |-> rows, rois |-> results,
         result |-> OverallResult(results, run.scenario, run.layer, run.join, diag, run.ready),
         diagnostics |-> MotionDiagnostics(rows, results, run.join, timeline, diag)]
=============================================================================
