------------------------------ MODULE MirrorSummary ------------------------------
(* The metric summary: the packet that leaves the machine in place of the frames.   *)
(* It restates the analyzer's verdict as a status, says whether there was anything   *)
(* to judge from, and gives every ROI and window its scores and a confidence.        *)
(* Confidences are integers, thousandths of the code's rounded floats.               *)
EXTENDS MotionVerdict

(* _result_status *)
ResultStatus(reason) ==
    FirstRule(
        <<Rule(reason = "visual-pass", "pass"),
          Rule(reason \in {"runtime-not-joined", "capture-not-ready"}, "blocked"),
          Rule(reason \in {"visual-pretrigger-motion", "guard-only-motion", "did-not-settle"}, "partial")>>,
        "fail")

(* 0.25 + 0.55 * min(1, score / ActiveMin) + 0.20 * min(1, samples / 3), rounded.    *)
MetricConfidence(score, samples) ==
    IF samples <= 0 THEN 0
    ELSE (2 * (750 * ActiveMin + 1650 * Min({score, ActiveMin}) + 200 * ActiveMin * Min({samples, 3}))
          + 3 * ActiveMin) \div (6 * ActiveMin)

(* The sample count here is the number of ROIs that are peaked over, not of frames.  *)
SummaryConfidence(visual) ==
    LET expected == {r \in visual.rois : r.expected}
        peaked == IF expected = {} THEN visual.rois ELSE expected
    IN  MetricConfidence(PeakOf({r.active : r \in peaked}), Cardinality(peaked))

AuthorityRoiIds(rois) == {r.id : r \in ExpectedRois(rois)}

GuardRoiIds(rois) == {r.id : r \in {q \in rois : ~q.counts /\ q.kind # "diagnostic"}}

(* Every pair of an ROI and a window that has rows gets a metric. *)
RoiWindowMetrics(visual) ==
    LET Rows(roi, window) == {r \in visual.rows : r.roi = roi /\ r.window = window}
        Metric(roi, window) ==
            LET movement == PeakOf({JudgmentMotionScore(r) : r \in Rows(roi, window)})
                samples == Cardinality(Rows(roi, window))
            IN  [movement |-> movement, samples |-> samples,
                 changed |-> PeakOf({r.changed : r \in Rows(roi, window)}),
                 confidence |-> MetricConfidence(movement, samples)]
    IN  [p \in {<<r.roi, r.window>> : r \in visual.rows} |-> Metric(p[1], p[2])]

WindowCoverage(visual) ==
    LET expected == {r.id : r \in visual.rois} \X {visual.windows[k].id : k \in DOMAIN visual.windows}
        observed == {<<r.roi, r.window>> : r \in visual.rows}
        authority == {r \in visual.rows : r.window = "active" /\ r.roi \in AuthorityRoiIds(visual.rois)}
    IN  [observed |-> Cardinality(observed), missing |-> Cardinality(expected \ observed),
         activeSamples |-> Cardinality(authority)]

(* Without rows, or without an ROI a pass could rest on, there is no surface. *)
ObservabilityStatus(visual) ==
    IF \/ visual.rows = {}
       \/ visual.scenario.motion # "none" /\ AuthorityRoiIds(visual.rois) = {}
    THEN "missing_surface_blocker" ELSE "present"

VisualFailureReasonCodes(reason, diagnostics, surface) ==
    IF surface = "present" /\ reason = "visual-pass" THEN {}
    ELSE (IF surface = "present" THEN {} ELSE {"missing-surface-blocker"})
         \cup ({reason} \ {"visual-pass"})
         \cup ({diagnostics.result} \ {"event-correlated-motion"})
         \cup ({diagnostics.stage} \ {"runtime-started", "event-timeline-unavailable"})

ObservabilityBlock(visual, reason) ==
    [surface |-> ObservabilityStatus(visual), authority |-> AuthorityRoiIds(visual.rois),
     guards |-> GuardRoiIds(visual.rois), coverage |-> WindowCoverage(visual),
     codes |-> VisualFailureReasonCodes(reason, visual.diagnostics, ObservabilityStatus(visual))]

(* The references of the run: those of the runtime join, and without any join the     *)
(* planned ones of the run's configuration.                                           *)
RunRefs(visual) ==
    LET join == visual.join
        absent == join = NoJoin
    IN  [motion_event_id |-> visual.refs.event,
         stimulus_instance_id |-> visual.refs.stimulus,
         runtime_result_id |-> IF absent THEN visual.refs.driver ELSE join.result,
         driver_result_id |-> IF absent THEN visual.refs.driver ELSE join.driver,
         runtime_status |-> join.status]

ObservedIssue(reason) == IF reason = "visual-pass" THEN "" ELSE reason

(* The entry of the observation queue. *)
LatestState(visual, result, reason, attention) ==
    [id |-> visual.id, scenario |-> visual.scenario.id, result |-> result, reason |-> reason,
     diagnosis |-> visual.diagnostics.result, attention |-> attention,
     issue |-> ObservedIssue(reason), confidence |-> SummaryConfidence(visual)]

NoJudgment == [result |-> "none", confidence |-> 0, review |-> FALSE, reasons |-> {},
               profile |-> "", cases |-> {}]

(* build_self_mirror_metric_summary; a pass without a surface is taken back. *)
BuildSelfMirrorMetricSummary(visual) ==
    LET observability == ObservabilityBlock(visual, visual.result)
        takenBack == visual.result = "visual-pass" /\ observability.surface # "present"
        result == IF takenBack THEN "blocked" ELSE ResultStatus(visual.result)
        reason == IF takenBack THEN "missing-surface-blocker" ELSE visual.result
    IN  [id |-> visual.id, scenario |-> visual.scenario.id, layer |-> visual.layer,
         result |-> result, reason |-> reason, issue |-> ObservedIssue(reason),
         diagnosis |-> visual.diagnostics, observability |-> observability,
         confidence |-> SummaryConfidence(visual),
         attention |-> result # "pass", review |-> result # "pass",
         refs |-> RunRefs(visual), metrics |-> RoiWindowMetrics(visual),
         latest |-> LatestState(visual, result, reason, result # "pass"),
         judgment |-> NoJudgment]
=============================================================================
