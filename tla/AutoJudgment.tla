------------------------------ MODULE AutoJudgment ------------------------------
(* The reference judgment: a metric summary is judged against a calibrated profile   *)
(* and the reference cases it was calibrated on, and the judgment is attached to the  *)
(* summary.  It reads the redacted summary only.  A reason is a pair of its code and   *)
(* the ROI, field or category it names, "" when it names none.                         *)
EXTENDS MirrorSummary

CONSTANT NoProfile   \* no profile was given

(* _judgment; the profile's id is empty when there is none. *)
Judgment(result, confidence, review, reasons, profile, cases) ==
    [result |-> result, confidence |-> Max({0, Min({1000, confidence})}), review |-> review,
     reasons |-> reasons, profile |-> IF profile = NoProfile THEN "" ELSE profile.id,
     cases |-> {c.id : c \in cases}]

Reason(code) == <<code, "">>

(* A profile without references to cases takes every case of its scenario. *)
MatchingReferenceCases(profile, cases, scenario) ==
    {c \in cases : /\ c.scenario = scenario
                   /\ profile.wanted = {} \/ c.id \in profile.wanted}

CoverageGaps(profile, cases) ==
    LET Of(results) == Cardinality({c \in cases : c.expected \in results})
        Gap(holds, reason) == IF holds THEN {Reason(reason)} ELSE {}
    IN  Gap(Cardinality(cases) < profile.minCases, "insufficient-reference-coverage")
        \cup Gap(Of({"pass"}) < profile.minPass, "insufficient-pass-reference-coverage")
        \cup Gap(Of({"fail", "unclear"}) < profile.minOther, "insufficient-fail-or-unclear-reference-coverage")
        \cup {<<"reference-roi-missing", roi>> : roi \in profile.rois \ UNION {c.rois : c \in cases}}
        \cup {<<"reference-false-positive-category-missing", category>> :
                 category \in profile.categories \ UNION {c.categories : c \in cases}}

(* Mutant: a matching case's references are compared, missing ones are not noticed. *)
RunRefMismatches(summary, profile, cases) ==
    {<<"run-ref-mismatch", field>> :
        field \in {f \in profile.fields : \E c \in cases :
                      c.summary = summary.id /\ c.refs[f] # summary.refs[f]}}

(* Every required reference is there, and where a case was made from this very        *)
(* summary its references are the same.                                               *)
RunRefGaps(summary, profile, cases) ==
    LET missing == {<<"run-ref-missing", field>> : field \in {f \in profile.fields : summary.refs[f] = ""}}
        mismatched == {<<"run-ref-mismatch", field>> :
                          field \in {f \in profile.fields : \E c \in cases :
                                        c.summary = summary.id /\ c.refs[f] # summary.refs[f]}}
    IN  IF missing # {} THEN missing ELSE IF profile.matchRefs THEN mismatched ELSE {}

Movement(metrics, roi, window) ==
    IF <<roi, window>> \in DOMAIN metrics THEN metrics[<<roi, window>>].movement ELSE 0

PretriggerReasons(metrics, profile) ==
    {<<"pretrigger-motion", roi>> :
        roi \in {r \in profile.rois : Movement(metrics, r, "pretrigger") > profile.quietMax}}

(* Anything active that is not one of the profile's ROIs is guarded against. *)
GuardFalsePositiveReason(metrics, profile) ==
    LET others == {p \in DOMAIN metrics : p[2] = "active" /\ p[1] \notin profile.rois}
        avatar == PeakOf({Movement(metrics, roi, "active") : roi \in profile.rois})
        guard == PeakOf({metrics[p].movement : p \in others})
    IN  IF guard <= profile.guardMax THEN {}
        ELSE IF avatar <= 0 THEN {Reason("guard-motion-without-avatar-motion")}
        ELSE IF guard * profile.ratioDen > profile.ratioNum * avatar
             THEN {Reason("guard-motion-dominates-avatar-motion")} ELSE {}

(* Per ROI the first thing that is too low; the confidence is that of the weakest ROI. *)
ActiveExpectedRoiResult(metrics, profile) ==
    LET Key(roi) == <<roi, "active">>
        Fault(roi) ==
            IF Key(roi) \notin DOMAIN metrics THEN "active-metric-missing"
            ELSE LET metric == metrics[Key(roi)]
                 IN  FirstRule(
                         <<Rule(metric.samples < profile.minSamples, "sample-count-too-low"),
                           Rule(metric.movement < profile.activeMin, "movement-score-too-low"),
                           Rule(metric.changed < profile.changedMin, "changed-ratio-too-low")>>, "")
        confidences == {IF Key(roi) \in DOMAIN metrics THEN metrics[Key(roi)].confidence ELSE 0 :
                           roi \in profile.rois}
    IN  [passed |-> Cardinality({roi \in profile.rois : Fault(roi) = ""}),
         reasons |-> {<<Fault(roi), roi>> : roi \in {r \in profile.rois : Fault(r) # ""}},
         confidence |-> IF confidences = {} THEN 0 ELSE Min(confidences)]

(* judge_metric_summary *)
JudgeMetricSummary(summary, profile, allCases) ==
    LET Unclear(confidence, reasons, cases) == Judgment("unclear", confidence, TRUE, reasons, profile, cases)
        cases == MatchingReferenceCases(profile, allCases, summary.scenario)
        gaps == CoverageGaps(profile, cases)
        refGaps == RunRefGaps(summary, profile, cases)
        pretrigger == PretriggerReasons(summary.metrics, profile)
        guard == GuardFalsePositiveReason(summary.metrics, profile)
        active == ActiveExpectedRoiResult(summary.metrics, profile)
        confidence == Min({summary.confidence, active.confidence})
    IN  IF profile = NoProfile THEN Unclear(0, {Reason("profile-missing")}, {})
        ELSE IF profile.scenario # summary.scenario THEN Unclear(0, {Reason("profile-scenario-mismatch")}, {})
        ELSE IF profile.status \notin {"active", "calibration"}
             THEN Unclear(summary.confidence, {Reason("profile-not-active")}, {})
        ELSE IF gaps # {} THEN Unclear(summary.confidence, gaps, cases)
        ELSE IF refGaps # {} THEN Unclear(summary.confidence, refGaps, cases)
        ELSE IF pretrigger # {} THEN Unclear(summary.confidence, pretrigger, cases)
        ELSE IF guard # {} THEN Unclear(summary.confidence, guard, cases)
        ELSE IF active.passed >= profile.minCount /\ confidence >= profile.passFloor
             THEN Judgment("pass", confidence, FALSE, {Reason("auto-judgment-pass")}, profile, cases)
        ELSE IF confidence < profile.failFloor
             THEN Unclear(confidence, {Reason("low-confidence")} \cup active.reasons, cases)
        ELSE Judgment("fail", confidence, FALSE,
                      {Reason("expected-roi-motion-missing")} \cup active.reasons, profile, cases)

(* attach_auto_judgment: the summary's confidence and its review flag become the       *)
(* judgment's; its result, its latest state and its metrics stay.                      *)
AttachAutoJudgment(summary, judgment) ==
    [summary EXCEPT !.judgment = judgment, !.confidence = judgment.confidence,
                    !.review = judgment.review]
=============================================================================
