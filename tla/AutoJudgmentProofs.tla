--------------------------- MODULE AutoJudgmentProofs ---------------------------
(* What the judge makes of a metric summary: a confidence between nothing and one, and   *)
(* a judgment that is guarded and that judging again repeats.                             *)
EXTENDS AutoJudgment, FiniteSetTheorems, WellFoundedInduction, TLAPS

(* Maxima, minima and ordered rules *)

LEMMA MinimumOfNaturals ==
    ASSUME NEW S \in SUBSET Nat, S # {}
    PROVE  Min(S) \in S /\ \A y \in S : Min(S) <= y
<1>. DEFINE Less == {p \in Nat \X Nat : p[1] < p[2]}
<1>1. IsWellFoundedOn(Less, Nat)
  BY NatLessThanWellFounded DEF OpToRel
<1>. HIDE DEF Less
<1>2. PICK x \in S : \A y \in S : ~(<<y, x>> \in Less)
  BY <1>1, WFMin
<1>3. ASSUME NEW y \in S PROVE x <= y
  <2>1. x \in Nat /\ y \in Nat /\ <<y, x>> \notin Less
    BY <1>2
  <2>2. <<y, x>> \in Nat \X Nat /\ <<y, x>>[1] = y /\ <<y, x>>[2] = x
    BY <2>1
  <2>3. ~(y < x)
    BY <2>1, <2>2 DEF Less
  <2>. QED  BY <2>1, <2>3
<1>. QED  BY <1>3 DEF Min

(* A largest finite set of integers without a maximum would be made smaller by any      *)
(* element of it.                                                                        *)
LEMMA MaximumExists ==
    ASSUME NEW S \in SUBSET Int, IsFiniteSet(S), S # {}
    PROVE  \E x \in S : \A y \in S : x >= y
<1>. DEFINE Lacks(A) == A # {} /\ ~\E x \in A : \A y \in A : x >= y
            sizes == {n \in Nat : \E A \in SUBSET Int : IsFiniteSet(A) /\ Cardinality(A) = n /\ Lacks(A)}
<1>. SUFFICES ASSUME Lacks(S) PROVE FALSE
  OBVIOUS
<1>1. Cardinality(S) \in sizes
  BY FS_CardinalityType
<1>2. PICK n \in sizes : \A m \in sizes : n <= m
  <2>1. sizes \in SUBSET Nat /\ sizes # {}
    BY <1>1
  <2>. HIDE DEF sizes
  <2>. QED  BY <2>1, MinimumOfNaturals
<1>3. PICK A \in SUBSET Int : IsFiniteSet(A) /\ Cardinality(A) = n /\ Lacks(A)
  BY <1>2
<1>4. PICK x \in A : TRUE
  BY <1>3
<1>. DEFINE B == A \ {x}
<1>5. IsFiniteSet(B) /\ Cardinality(B) = n - 1 /\ B \in SUBSET Int /\ n \in Nat
  BY <1>3, <1>4, FS_RemoveElement
<1>6. Cardinality(B) \in Nat
  BY <1>5, FS_CardinalityType
<1>7. ~Lacks(B)
  <2>. SUFFICES ASSUME Lacks(B) PROVE FALSE
    OBVIOUS
  <2>1. n - 1 \in sizes
    BY <1>5, <1>6
  <2>. QED  BY <2>1, <1>2, <1>5
<1>8. CASE B = {}
  BY <1>3, <1>4, <1>8
<1>9. CASE B # {}
  <2>1. PICK m \in B : \A y \in B : m >= y
    BY <1>7, <1>9
  <2>2. \A y \in A : y \in B \/ y = x
    OBVIOUS
  <2>3. m \in Int /\ x \in Int /\ m \in A
    BY <1>3
  <2>4. CASE m >= x
    BY <1>3, <2>1, <2>2, <2>3, <2>4
  <2>5. CASE x >= m
    <3>1. \A y \in A : y \in Int /\ (y \in B => m >= y)
      BY <1>3, <2>1
    <3>2. \A y \in A : x >= y
      BY <2>2, <2>3, <2>5, <3>1
    <3>. QED  BY <1>3, <1>4, <3>2
  <2>. QED  BY <2>3, <2>4, <2>5
<1>. QED  BY <1>8, <1>9

LEMMA MaximumOfIntegers ==
    ASSUME NEW S \in SUBSET Int, IsFiniteSet(S), S # {}
    PROVE  Max(S) \in S /\ \A y \in S : y <= Max(S)
<1>1. \E x \in S : \A y \in S : x >= y
  BY MaximumExists
<1>2. Max(S) \in S /\ \A y \in S : Max(S) >= y
  BY <1>1 DEF Max
<1>. QED  BY <1>2

LEMMA OfTwo ==
    ASSUME NEW a \in Int, NEW b \in Int
    PROVE  /\ Min({a, b}) = IF a <= b THEN a ELSE b
           /\ Max({a, b}) = IF a >= b THEN a ELSE b
<1>1. \E x \in {a, b} : \A y \in {a, b} : x <= y
  OBVIOUS
<1>2. Min({a, b}) \in {a, b} /\ \A y \in {a, b} : Min({a, b}) <= y
  BY <1>1 DEF Min
<1>3. \E x \in {a, b} : \A y \in {a, b} : x >= y
  OBVIOUS
<1>4. Max({a, b}) \in {a, b} /\ \A y \in {a, b} : Max({a, b}) >= y
  BY <1>3 DEF Max
<1>. QED  BY <1>2, <1>4

LEMMA PeakIsNatural ==
    ASSUME NEW scores \in SUBSET Nat, IsFiniteSet(scores)
    PROVE  /\ PeakOf(scores) \in Nat /\ PeakOf(scores) \in {0} \cup scores
           /\ \A s \in scores : s <= PeakOf(scores)
<1>. DEFINE all == {0} \cup scores
<1>1. all \in SUBSET Int /\ all # {} /\ all \subseteq Nat
  OBVIOUS
<1>2. IsFiniteSet(all)
  BY FS_Union, FS_Singleton
<1>3. Max(all) \in all /\ \A y \in all : y <= Max(all)
  BY <1>1, <1>2, MaximumOfIntegers
<1>. QED  BY <1>1, <1>3 DEF PeakOf

(* The rule that decides holds, and none before it does. *)
LEMMA FirstRuleDecides ==
    ASSUME NEW rules, NEW otherwise, DOMAIN rules \subseteq Nat,
           NEW k \in DOMAIN rules, rules[k].holds
    PROVE  \E j \in DOMAIN rules : /\ rules[j].holds /\ FirstRule(rules, otherwise) = rules[j].says
                                   /\ \A i \in DOMAIN rules : rules[i].holds => j <= i
<1>. DEFINE hits == {j \in DOMAIN rules : rules[j].holds}
<1>1. hits \in SUBSET Nat /\ hits # {}
  OBVIOUS
<1>2. Min(hits) \in hits /\ \A i \in hits : Min(hits) <= i
  BY <1>1, MinimumOfNaturals
<1>3. FirstRule(rules, otherwise) = rules[Min(hits)].says
  BY <1>1 DEF FirstRule
<1>. HIDE DEF hits
<1>. DEFINE j == Min(hits)
<1>. HIDE DEF j
<1>4. j \in DOMAIN rules /\ rules[j].holds /\ FirstRule(rules, otherwise) = rules[j].says
  BY <1>2, <1>3 DEF hits, j
<1>5. \A i \in DOMAIN rules : rules[i].holds => j <= i
  BY <1>2 DEF hits, j
<1>. QED  BY <1>4, <1>5

LEMMA NoRuleHolds ==
    ASSUME NEW rules, NEW otherwise, \A k \in DOMAIN rules : ~rules[k].holds
    PROVE  FirstRule(rules, otherwise) = otherwise
  BY DEF FirstRule

(* Three ordered rules of which none says what was said. *)
LEMMA NoneOfThree ==
    ASSUME NEW a, NEW b, NEW c, NEW otherwise,
           FirstRule(<<a, b, c>>, otherwise) = otherwise,
           a.says # otherwise, b.says # otherwise, c.says # otherwise
    PROVE  ~a.holds /\ ~b.holds /\ ~c.holds
<1>. DEFINE rules == <<a, b, c>>
<1>1. DOMAIN rules = 1 .. 3 /\ rules[1] = a /\ rules[2] = b /\ rules[3] = c
  OBVIOUS
<1>. HIDE DEF rules
<1>2. ASSUME NEW k \in 1 .. 3, rules[k].holds PROVE FALSE
  <2>1. k \in DOMAIN rules /\ DOMAIN rules \subseteq Nat
    BY <1>1
  <2>2. PICK j \in DOMAIN rules : FirstRule(rules, otherwise) = rules[j].says
    BY <1>2, <2>1, FirstRuleDecides
  <2>3. j \in {1, 2, 3}
    BY <1>1
  <2>. QED  BY <1>1, <2>2, <2>3 DEF rules
<1>. QED  BY <1>1, <1>2

-----------------------------------------------------------------------------
(* Confidences *)

LEMMA QuotientAtMost ==
    ASSUME NEW x \in Nat, NEW d \in Nat, d > 0, NEW m \in Nat, x < d * (m + 1)
    PROVE  x \div d \in 0 .. m
<1>. DEFINE q == x \div d
<1>1. q \in Int /\ d * q <= x /\ x < d * (q + 1)
  OBVIOUS
<1>. HIDE DEF q
<1>2. q >= 0
  <2>. SUFFICES ASSUME q + 1 <= 0 PROVE FALSE
    BY <1>1
  <2>1. d * (q + 1) <= 0
    BY <1>1
  <2>. QED  BY <1>1, <2>1
<1>3. q <= m
  <2>. SUFFICES ASSUME q >= m + 1 PROVE FALSE
    BY <1>1
  <2>1. d * q >= d * (m + 1)
    BY <1>1
  <2>2. d * q \in Int /\ d * (m + 1) \in Int
    BY <1>1
  <2>. QED  BY <1>1, <2>1, <2>2
<1>. QED  BY <1>1, <1>2, <1>3 DEF q

Thousandths == 0 .. 1000

(* A confidence is in thousandths, for whatever score and number of samples. *)
LEMMA ConfidenceInThousandths ==
    ASSUME NEW score \in Nat, NEW samples \in Nat
    PROVE  MetricConfidence(score, samples) \in Thousandths
<1>1. ActiveMin \in Nat /\ 0 < ActiveMin
  BY ThresholdAssumption
<1>. DEFINE shown == Min({score, ActiveMin})
            counted == Min({samples, 3})
            weight == ActiveMin * counted
            total == 2 * (750 * ActiveMin + 1650 * shown + 200 * weight) + 3 * ActiveMin
<1>2. shown \in 0 .. ActiveMin /\ counted \in {0, 1, 2, 3}
  BY <1>1, OfTwo
<1>. HIDE DEF shown, counted
<1>3. weight \in 0 .. 3 * ActiveMin
  BY <1>1, <1>2
<1>4. 200 * weight = 200 * ActiveMin * counted
  BY <1>1, <1>2
<1>. HIDE DEF weight
<1>5. total \in Nat /\ total < (6 * ActiveMin) * (1000 + 1)
  BY <1>1, <1>2, <1>3
<1>6. MetricConfidence(score, samples) = IF samples <= 0 THEN 0 ELSE total \div (6 * ActiveMin)
  BY <1>4 DEF MetricConfidence, shown, counted
<1>. HIDE DEF total
<1>7. total \div (6 * ActiveMin) \in 0 .. 1000
  <2>1. 6 * ActiveMin \in Nat /\ 6 * ActiveMin > 0
    BY <1>1
  <2>. QED  BY <1>5, <2>1, QuotientAtMost
<1>. QED  BY <1>6, <1>7 DEF Thousandths

Clamped(c) == Max({0, Min({1000, c})})

LEMMA ClampKeeps == ASSUME NEW c \in Thousandths PROVE Clamped(c) = c
<1>1. Min({1000, c}) = c
  BY OfTwo DEF Thousandths
<1>2. Max({0, c}) = c
  BY OfTwo DEF Thousandths
<1>. QED  BY <1>1, <1>2 DEF Clamped

Numbers == [movement : Nat, samples : Nat, changed : Nat, confidence : Nat]
MetricsAreNumbers(metrics) == \A p \in DOMAIN metrics : metrics[p] \in Numbers

LEMMA WeakestRoiIsNumber ==
    ASSUME NEW metrics, NEW profile, MetricsAreNumbers(metrics)
    PROVE  ActiveExpectedRoiResult(metrics, profile).confidence \in Nat
<1>. DEFINE Of(roi) == IF <<roi, "active">> \in DOMAIN metrics
                       THEN metrics[<<roi, "active">>].confidence ELSE 0
            confidences == {Of(roi) : roi \in profile.rois}
<1>1. ActiveExpectedRoiResult(metrics, profile).confidence =
          IF confidences = {} THEN 0 ELSE Min(confidences)
  BY DEF ActiveExpectedRoiResult
<1>2. \A roi \in profile.rois : Of(roi) \in Nat
  BY DEF MetricsAreNumbers, Numbers
<1>3. confidences \in SUBSET Nat
  BY <1>2
<1>. HIDE DEF confidences
<1>4. CASE confidences = {}
  BY <1>1, <1>4
<1>5. CASE confidences # {}
  <2>1. Min(confidences) \in Nat
    BY <1>3, <1>5, MinimumOfNaturals
  <2>. QED  BY <1>1, <1>5, <2>1
<1>. QED  BY <1>4, <1>5

(* What a judgment is made of, whichever rule decides it. *)
LEMMA JudgmentFields ==
    \A result, review, reasons, profile, cases : \A confidence \in Thousandths :
        /\ Judgment(result, confidence, review, reasons, profile, cases).result = result
        /\ Judgment(result, confidence, review, reasons, profile, cases).confidence = confidence
        /\ Judgment(result, confidence, review, reasons, profile, cases).review = review
  BY ClampKeeps DEF Clamped, Judgment

LEMMA JudgmentNamesProfile ==
    \A result, confidence, review, reasons, profile, cases :
        profile # NoProfile =>
            Judgment(result, confidence, review, reasons, profile, cases).profile = profile.id
  BY DEF Judgment

-----------------------------------------------------------------------------
(* The judge *)

(* The rule that decides a judgment, and what it knew when it did. *)
LEMMA JudgeRules ==
    ASSUME NEW summary, NEW profile, NEW allCases
    PROVE  LET j == JudgeMetricSummary(summary, profile, allCases)
               cases == MatchingReferenceCases(profile, allCases, summary.scenario)
               gaps == CoverageGaps(profile, cases)
               refGaps == RunRefGaps(summary, profile, cases)
               pretrigger == PretriggerReasons(summary.metrics, profile)
               guard == GuardFalsePositiveReason(summary.metrics, profile)
               active == ActiveExpectedRoiResult(summary.metrics, profile)
               confidence == Min({summary.confidence, active.confidence})
           IN  j = IF profile = NoProfile
                   THEN Judgment("unclear", 0, TRUE, {Reason("profile-missing")}, profile, {})
                   ELSE IF profile.scenario # summary.scenario
                   THEN Judgment("unclear", 0, TRUE, {Reason("profile-scenario-mismatch")}, profile, {})
                   ELSE IF profile.status \notin {"active", "calibration"}
                   THEN Judgment("unclear", summary.confidence, TRUE, {Reason("profile-not-active")}, profile, {})
                   ELSE IF gaps \cup refGaps \cup pretrigger \cup guard # {}
                   THEN Judgment("unclear", summary.confidence, TRUE,
                                 IF gaps # {} THEN gaps ELSE IF refGaps # {} THEN refGaps
                                 ELSE IF pretrigger # {} THEN pretrigger ELSE guard, profile, cases)
                   ELSE IF active.passed >= profile.minCount /\ confidence >= profile.passFloor
                   THEN Judgment("pass", confidence, FALSE, {Reason("auto-judgment-pass")}, profile, cases)
                   ELSE IF confidence < profile.failFloor
                   THEN Judgment("unclear", confidence, TRUE,
                                 {Reason("low-confidence")} \cup active.reasons, profile, cases)
                   ELSE Judgment("fail", confidence, FALSE,
                                 {Reason("expected-roi-motion-missing")} \cup active.reasons, profile, cases)
  BY Zenon DEF JudgeMetricSummary

(* The confidence is that of the judged summary or of the weakest region, if lower. *)
Weakest(summary, profile) ==
    Min({summary.confidence, ActiveExpectedRoiResult(summary.metrics, profile).confidence})

LEMMA WeakestIsLower ==
    ASSUME NEW summary, NEW profile, summary.confidence \in Thousandths,
           MetricsAreNumbers(summary.metrics)
    PROVE  /\ Weakest(summary, profile) \in Thousandths
           /\ Weakest(summary, profile) <= summary.confidence
           /\ Weakest(summary, profile) <= ActiveExpectedRoiResult(summary.metrics, profile).confidence
<1>. DEFINE other == ActiveExpectedRoiResult(summary.metrics, profile).confidence
            own == summary.confidence
<1>1. other \in Nat /\ own \in Thousandths
  BY WeakestRoiIsNumber
<1>2. Weakest(summary, profile) = Min({own, other})
  BY DEF Weakest
<1>. HIDE DEF own, other
<1>3. Weakest(summary, profile) = IF own <= other THEN own ELSE other
  BY <1>1, <1>2, OfTwo DEF Thousandths
<1>4. Weakest(summary, profile) \in Thousandths /\ Weakest(summary, profile) <= own
      /\ Weakest(summary, profile) <= other
  BY <1>1, <1>3 DEF Thousandths
<1>. QED  BY <1>4 DEF own, other

(* A judgment is never more confident than what it judges, and only an unclear one      *)
(* asks for a review.                                                                     *)
LEMMA JudgmentShape ==
    ASSUME NEW summary, NEW profile, NEW allCases,
           summary.confidence \in Thousandths, MetricsAreNumbers(summary.metrics)
    PROVE  LET judgment == JudgeMetricSummary(summary, profile, allCases)
           IN  /\ judgment.confidence \in Thousandths /\ judgment.confidence <= summary.confidence
               /\ judgment.result \in {"pass", "fail", "unclear"}
               /\ judgment.review = (judgment.result = "unclear")
<1>. DEFINE judgment == JudgeMetricSummary(summary, profile, allCases)
<1>1. \E result \in {"pass", "fail", "unclear"},
         confidence \in {0, summary.confidence, Weakest(summary, profile)} :
         \E reasons, cases :
           judgment = Judgment(result, confidence, result = "unclear", reasons, profile, cases)
  BY JudgeRules DEF Weakest
<1>. HIDE DEF judgment
<1>2. PICK result, confidence, reasons, cases :
         /\ result \in {"pass", "fail", "unclear"}
         /\ confidence \in {0, summary.confidence, Weakest(summary, profile)}
         /\ judgment = Judgment(result, confidence, result = "unclear", reasons, profile, cases)
  BY <1>1
<1>3. confidence \in Thousandths /\ confidence <= summary.confidence
  <2>1. 0 \in Thousandths /\ 0 <= summary.confidence /\ summary.confidence <= summary.confidence
    BY DEF Thousandths
  <2>. HIDE DEF judgment
  <2>2. Weakest(summary, profile) \in Thousandths /\ Weakest(summary, profile) <= summary.confidence
    BY WeakestIsLower
  <2>. QED  BY <1>2, <2>1, <2>2
<1>4. judgment.confidence = confidence /\ judgment.result = result
      /\ judgment.review = (result = "unclear")
  BY <1>2, <1>3, JudgmentFields
<1>. QED  BY <1>2, <1>3, <1>4 DEF judgment

(* What a pass has been held against. *)
LEMMA PassPassedTheGuards ==
    ASSUME NEW summary, NEW profile, NEW allCases,
           summary.confidence \in Thousandths, MetricsAreNumbers(summary.metrics),
           JudgeMetricSummary(summary, profile, allCases).result = "pass"
    PROVE  /\ profile # NoProfile /\ profile.scenario = summary.scenario
           /\ profile.status \in {"active", "calibration"}
           /\ RunRefGaps(summary, profile, MatchingReferenceCases(profile, allCases, summary.scenario)) = {}
           /\ PretriggerReasons(summary.metrics, profile) = {}
           /\ ActiveExpectedRoiResult(summary.metrics, profile).passed >= profile.minCount
           /\ Weakest(summary, profile) >= profile.passFloor
           /\ JudgeMetricSummary(summary, profile, allCases).confidence = Weakest(summary, profile)
           /\ JudgeMetricSummary(summary, profile, allCases).profile = profile.id
<1>. DEFINE judgment == JudgeMetricSummary(summary, profile, allCases)
            cases == MatchingReferenceCases(profile, allCases, summary.scenario)
            gaps == CoverageGaps(profile, cases)
            refGaps == RunRefGaps(summary, profile, cases)
            pretrigger == PretriggerReasons(summary.metrics, profile)
            guard == GuardFalsePositiveReason(summary.metrics, profile)
            passed == ActiveExpectedRoiResult(summary.metrics, profile).passed
            confidence == Weakest(summary, profile)
            Pass(review, reasons) == judgment = Judgment("pass", confidence, review, reasons, profile, cases)
            Passes == /\ profile # NoProfile /\ profile.scenario = summary.scenario
                      /\ profile.status \in {"active", "calibration"}
                      /\ refGaps = {} /\ pretrigger = {}
                      /\ passed >= profile.minCount /\ confidence >= profile.passFloor
                      /\ \E review, reasons : Pass(review, reasons)
            Other == \E result \in {"fail", "unclear"},
                        held \in {0, summary.confidence, confidence} :
                        \E review, reasons, matched :
                           judgment = Judgment(result, held, review, reasons, profile, matched)
<1>1. Passes \/ Other
  BY JudgeRules DEF Weakest
<1>2. 0 \in Thousandths /\ confidence \in Thousandths
  BY WeakestIsLower DEF Thousandths
<1>. HIDE DEF judgment, cases, refGaps, pretrigger, passed, confidence
<1>3. ~Other
  <2>. SUFFICES ASSUME NEW result \in {"fail", "unclear"},
                       NEW held \in {0, summary.confidence, confidence},
                       NEW review, NEW reasons, NEW matched,
                       judgment = Judgment(result, held, review, reasons, profile, matched)
                PROVE  FALSE
    OBVIOUS
  <2>1. held \in Thousandths
    BY <1>2
  <2>2. judgment.result = result
    BY <2>1, JudgmentFields
  <2>. QED  BY <2>2 DEF judgment
<1>4. PICK review, reasons : Pass(review, reasons)
  BY <1>1, <1>3
<1>5. judgment.confidence = confidence
  BY <1>2, <1>4, JudgmentFields
<1>6. judgment.profile = profile.id
  BY <1>1, <1>3, <1>4, JudgmentNamesProfile
<1>. QED  BY <1>1, <1>3, <1>5, <1>6 DEF judgment, cases, refGaps, pretrigger, passed, confidence

(* Everything a judgment looks at but the confidence. *)
LEMMA SameSummarySameGaps ==
    ASSUME NEW before, NEW after, NEW profile, NEW cases,
           after.id = before.id, after.refs = before.refs
    PROVE  RunRefGaps(after, profile, cases) = RunRefGaps(before, profile, cases)
<1>. DEFINE Missing(s) == {f \in profile.fields : s.refs[f] = ""}
            Mismatched(s) == {f \in profile.fields : \E c \in cases :
                                  c.summary = s.id /\ c.refs[f] # s.refs[f]}
            Gaps(missing, mismatched) ==
                LET missingReasons == {<<"run-ref-missing", field>> : field \in missing}
                IN  IF missingReasons # {} THEN missingReasons
                    ELSE IF profile.matchRefs
                         THEN {<<"run-ref-mismatch", field>> : field \in mismatched} ELSE {}
<1>1. Missing(after) = Missing(before) /\ Mismatched(after) = Mismatched(before)
  OBVIOUS
<1>2. /\ RunRefGaps(after, profile, cases) = Gaps(Missing(after), Mismatched(after))
      /\ RunRefGaps(before, profile, cases) = Gaps(Missing(before), Mismatched(before))
  BY DEF RunRefGaps
<1>. HIDE DEF Missing, Mismatched, Gaps
<1>. QED  BY <1>1, <1>2

(* The confidence a judgment leaves behind is that of the same judgment made again. *)
LEMMA JudgedAgain ==
    ASSUME NEW before, NEW after, NEW profile, NEW allCases,
           before.confidence \in Thousandths, MetricsAreNumbers(before.metrics),
           after.id = before.id, after.refs = before.refs, after.scenario = before.scenario,
           after.metrics = before.metrics,
           after.confidence = JudgeMetricSummary(before, profile, allCases).confidence
    PROVE  JudgeMetricSummary(after, profile, allCases) = JudgeMetricSummary(before, profile, allCases)
<1>. DEFINE cases == MatchingReferenceCases(profile, allCases, before.scenario)
            gaps == CoverageGaps(profile, cases)
            refGaps == RunRefGaps(before, profile, cases)
            pretrigger == PretriggerReasons(before.metrics, profile)
            guard == GuardFalsePositiveReason(before.metrics, profile)
            active == ActiveExpectedRoiResult(before.metrics, profile)
            Kept(s) == IF profile.status \notin {"active", "calibration"}
                       THEN Judgment("unclear", s, TRUE, {Reason("profile-not-active")}, profile, {})
                       ELSE Judgment("unclear", s, TRUE,
                                IF gaps # {} THEN gaps ELSE IF refGaps # {} THEN refGaps
                                ELSE IF pretrigger # {} THEN pretrigger ELSE guard, profile, cases)
            Weighed(c) == IF active.passed >= profile.minCount /\ c >= profile.passFloor
                          THEN Judgment("pass", c, FALSE, {Reason("auto-judgment-pass")}, profile, cases)
                          ELSE IF c < profile.failFloor
                          THEN Judgment("unclear", c, TRUE,
                                 {Reason("low-confidence")} \cup active.reasons, profile, cases)
                          ELSE Judgment("fail", c, FALSE,
                                 {Reason("expected-roi-motion-missing")} \cup active.reasons, profile, cases)
            Zero == IF profile = NoProfile
                    THEN Judgment("unclear", 0, TRUE, {Reason("profile-missing")}, profile, {})
                    ELSE Judgment("unclear", 0, TRUE, {Reason("profile-scenario-mismatch")}, profile, {})
            zero == profile = NoProfile \/ profile.scenario # before.scenario
            kept == profile.status \notin {"active", "calibration"}
                    \/ gaps \cup refGaps \cup pretrigger \cup guard # {}
            Made(s, c) == IF zero THEN Zero ELSE IF kept THEN Kept(s) ELSE Weighed(c)
<1>1. RunRefGaps(after, profile, cases) = refGaps
  BY SameSummarySameGaps
<1>2. JudgeMetricSummary(before, profile, allCases) = Made(before.confidence, Weakest(before, profile))
  BY JudgeRules, Zenon DEF Weakest
<1>3. JudgeMetricSummary(after, profile, allCases) = Made(after.confidence, Weakest(after, profile))
  BY <1>1, JudgeRules, Zenon DEF Weakest
<1>4. Weakest(before, profile) \in Thousandths
      /\ Weakest(before, profile) <= ActiveExpectedRoiResult(before.metrics, profile).confidence
  BY WeakestIsLower
<1>5. CASE zero
  <2>. HIDE DEF zero, Zero, kept, Kept, Weighed
  <2>. QED  BY <1>2, <1>3, <1>5
<1>6. CASE ~zero /\ kept
  <2>1. \E review, reasons, matched :
           Kept(before.confidence) = Judgment("unclear", before.confidence, review, reasons, profile, matched)
    OBVIOUS
  <2>. HIDE DEF Kept, zero, kept
  <2>2. Kept(before.confidence).confidence = before.confidence
    BY <2>1, JudgmentFields
  <2>3. after.confidence = before.confidence
    BY <1>2, <1>6, <2>2
  <2>. QED  BY <1>2, <1>3, <1>6, <2>3
<1>7. CASE ~zero /\ ~kept
  <2>. DEFINE c == Weakest(before, profile)
              other == ActiveExpectedRoiResult(before.metrics, profile).confidence
  <2>1. \E result, review, reasons : Weighed(c) = Judgment(result, c, review, reasons, profile, cases)
    OBVIOUS
  <2>2. Weakest(after, profile) = Min({after.confidence, other})
    BY DEF Weakest
  <2>3. c \in Thousandths /\ c <= other /\ other \in Nat
    BY <1>4, WeakestRoiIsNumber
  <2>. HIDE DEF Weighed, zero, kept, c, other
  <2>4. Weighed(c).confidence = c
    BY <2>1, <2>3, JudgmentFields
  <2>5. after.confidence = c
    BY <1>2, <1>7, <2>4 DEF c
  <2>6. Weakest(after, profile) = c
    BY <2>2, <2>3, <2>5, OfTwo DEF Thousandths
  <2>. QED  BY <1>2, <1>3, <1>7, <2>6 DEF c
<1>. QED  BY <1>5, <1>6, <1>7

(* The guards of a pass, stated on the summary itself. *)

LEMMA ReferencesAreThere ==
    ASSUME NEW summary, NEW profile, NEW cases, RunRefGaps(summary, profile, cases) = {}
    PROVE  \A field \in profile.fields : summary.refs[field] # ""
<1>. SUFFICES ASSUME NEW field \in profile.fields, summary.refs[field] = "" PROVE FALSE
  OBVIOUS
<1>. DEFINE missing == {<<"run-ref-missing", f>> : f \in {g \in profile.fields : summary.refs[g] = ""}}
<1>1. <<"run-ref-missing", field>> \in missing
  OBVIOUS
<1>2. missing # {} => RunRefGaps(summary, profile, cases) = missing
  BY Zenon DEF RunRefGaps
<1>. HIDE DEF missing
<1>. QED  BY <1>1, <1>2

LEMMA QuietBefore ==
    ASSUME NEW metrics, NEW profile, MetricsAreNumbers(metrics), profile.quietMax \in Nat,
           PretriggerReasons(metrics, profile) = {}
    PROVE  \A roi \in profile.rois :
              <<roi, "pretrigger">> \in DOMAIN metrics =>
                  metrics[<<roi, "pretrigger">>].movement <= profile.quietMax
<1>. SUFFICES ASSUME NEW roi \in profile.rois, <<roi, "pretrigger">> \in DOMAIN metrics
              PROVE  metrics[<<roi, "pretrigger">>].movement <= profile.quietMax
  OBVIOUS
<1>1. ~(Movement(metrics, roi, "pretrigger") > profile.quietMax)
  BY DEF PretriggerReasons
<1>2. Movement(metrics, roi, "pretrigger") = metrics[<<roi, "pretrigger">>].movement
  BY DEF Movement
<1>3. metrics[<<roi, "pretrigger">>].movement \in Nat
  BY DEF MetricsAreNumbers, Numbers
<1>. QED  BY <1>1, <1>2, <1>3

Moved(metrics, profile) ==
    {roi \in profile.rois : /\ <<roi, "active">> \in DOMAIN metrics
                            /\ metrics[<<roi, "active">>].movement >= profile.activeMin
                            /\ metrics[<<roi, "active">>].samples >= profile.minSamples}

(* A region without a fault moved enough and was sampled often enough. *)
LEMMA FaultlessHasMoved ==
    ASSUME NEW metrics, NEW profile, MetricsAreNumbers(metrics), IsFiniteSet(profile.rois),
           profile.activeMin \in Nat, profile.minSamples \in Nat
    PROVE  /\ ActiveExpectedRoiResult(metrics, profile).passed \in Nat
           /\ Cardinality(Moved(metrics, profile)) \in Nat
           /\ ActiveExpectedRoiResult(metrics, profile).passed <= Cardinality(Moved(metrics, profile))
<1>. DEFINE Few(roi) == Rule(metrics[<<roi, "active">>].samples < profile.minSamples,
                             "sample-count-too-low")
            Small(roi) == Rule(metrics[<<roi, "active">>].movement < profile.activeMin,
                               "movement-score-too-low")
            Same(roi) == Rule(metrics[<<roi, "active">>].changed < profile.changedMin,
                              "changed-ratio-too-low")
            Fault(roi) == IF <<roi, "active">> \notin DOMAIN metrics THEN "active-metric-missing"
                          ELSE FirstRule(<<Few(roi), Small(roi), Same(roi)>>, "")
            faultless == {roi \in profile.rois : Fault(roi) = ""}
<1>1. ActiveExpectedRoiResult(metrics, profile).passed = Cardinality(faultless)
  BY Zenon DEF ActiveExpectedRoiResult
<1>2. ASSUME NEW roi \in faultless PROVE roi \in Moved(metrics, profile)
  <2>. DEFINE metric == metrics[<<roi, "active">>]
  <2>1. roi \in profile.rois /\ <<roi, "active">> \in DOMAIN metrics
        /\ FirstRule(<<Few(roi), Small(roi), Same(roi)>>, "") = ""
    OBVIOUS
  <2>. HIDE DEF faultless, Fault
  <2>2. metric.samples \in Nat /\ metric.movement \in Nat
    BY <2>1 DEF MetricsAreNumbers, Numbers
  <2>3. PICK few, small, same, nothing :
            few = Few(roi) /\ small = Small(roi) /\ same = Same(roi) /\ nothing = ""
    BY Zenon
  <2>4. FirstRule(<<few, small, same>>, nothing) = nothing
    BY <2>1, <2>3, Zenon
  <2>5. few.says # nothing /\ small.says # nothing /\ same.says # nothing
    BY <2>3 DEF Rule
  <2>6. ~few.holds /\ ~small.holds
    BY <2>4, <2>5, NoneOfThree
  <2>7. ~(metric.samples < profile.minSamples)
    BY <2>3, <2>6 DEF Rule
  <2>8. ~(metric.movement < profile.activeMin)
    BY <2>3, <2>6 DEF Rule
  <2>9. metric.movement >= profile.activeMin /\ metric.samples >= profile.minSamples
    BY <2>2, <2>7, <2>8
  <2>. QED  BY <2>1, <2>9 DEF Moved
<1>3. IsFiniteSet(Moved(metrics, profile))
  BY FS_Subset DEF Moved
<1>. HIDE DEF faultless
<1>4. faultless \in SUBSET Moved(metrics, profile)
  BY <1>2
<1>. QED  BY <1>1, <1>3, <1>4, FS_Subset, FS_CardinalityType

-----------------------------------------------------------------------------
(* The analyzer's numbers *)

LEMMA ImageIsFinite ==
    ASSUME NEW S, IsFiniteSet(S), NEW f
    PROVE  IsFiniteSet({f[x] : x \in S})
<1>. DEFINE image == {f[x] : x \in S}
            g == [x \in S |-> f[x]]
<1>1. g \in Surjection(S, image)
  BY DEF Surjection
<1>. HIDE DEF image, g
<1>2. IsFiniteSet(image)
  BY <1>1, FS_Surjection
<1>. QED  BY <1>2 DEF image

RowsAreNumbers(rows) ==
    /\ IsFiniteSet(rows)
    /\ \A r \in rows : r.changed \in Nat /\ r.frame \in Nat /\ r.motion \in Nat

(* What the image comparison returns for the frames that are measured. *)
PixelsAreNumbers(frames, rois) ==
    /\ Len(frames) \in Nat
    /\ \A k \in 2 .. Len(frames) : \A roi \in rois :
          /\ frames[k][roi.id].changed \in Nat
          /\ frames[k][roi.id].shift \in Nat
          /\ frames[k][roi.id].drift \in Nat

LEMMA MeasuredAreNumbers ==
    ASSUME NEW frames, NEW interval, NEW windows, NEW rois,
           PixelsAreNumbers(frames, rois), IsFiniteSet(rois)
    PROVE  RowsAreNumbers(MeasuredRows(frames, interval, windows, rois))
<1>. DEFINE Row(k, roi) == MeasureRoi(frames[k][roi.id], roi.id, (k - 1) * interval,
                                      WindowIdAt((k - 1) * interval, windows))
            pairs == (2 .. Len(frames)) \X rois
            row == [p \in pairs |-> Row(p[1], p[2])]
            rows == MeasuredRows(frames, interval, windows, rois)
<1>1. ASSUME NEW k \in 2 .. Len(frames), NEW roi \in rois
      PROVE  Row(k, roi).changed \in Nat /\ Row(k, roi).frame \in Nat /\ Row(k, roi).motion \in Nat
  <2>. DEFINE pixels == frames[k][roi.id]
              frame == Max({pixels.changed, pixels.shift})
  <2>1. pixels.changed \in Nat /\ pixels.shift \in Nat /\ pixels.drift \in Nat
    BY DEF PixelsAreNumbers
  <2>2. \A a, b \in Nat : Max({a, b}) \in Nat
    BY OfTwo
  <2>3. frame \in Nat
    BY <2>1, <2>2, Zenon
  <2>. HIDE DEF frame
  <2>5. Max({frame, pixels.drift}) \in Nat
    BY <2>1, <2>2, <2>3, Zenon
  <2>4. /\ Row(k, roi).changed = pixels.changed /\ Row(k, roi).frame = frame
        /\ Row(k, roi).motion = Max({frame, pixels.drift})
    BY DEF MeasureRoi, frame
  <2>. QED  BY <2>1, <2>3, <2>4, <2>5
<1>2. rows = {Row(k, roi) : k \in 2 .. Len(frames), roi \in rois}
  BY DEF MeasuredRows
<1>3. IsFiniteSet(pairs)
  <2>1. IsFiniteSet(2 .. Len(frames))
    BY FS_Interval DEF PixelsAreNumbers
  <2>. QED  BY <2>1, FS_Product
<1>. HIDE DEF Row
<1>4. rows = {row[p] : p \in pairs}
  <2>1. ASSUME NEW k \in 2 .. Len(frames), NEW roi \in rois
        PROVE  \E p \in pairs : Row(k, roi) = row[p]
    <3>1. <<k, roi>> \in pairs /\ row[<<k, roi>>] = Row(k, roi)
      OBVIOUS
    <3>. QED  BY <3>1
  <2>2. ASSUME NEW p \in pairs
        PROVE  \E k \in 2 .. Len(frames), roi \in rois : row[p] = Row(k, roi)
    <3>1. p[1] \in 2 .. Len(frames) /\ p[2] \in rois /\ row[p] = Row(p[1], p[2])
      OBVIOUS
    <3>. QED  BY <3>1, Zenon
  <2>. HIDE DEF pairs, row, rows
  <2>3. ASSUME NEW r \in rows PROVE r \in {row[p] : p \in pairs}
    <3>1. PICK k \in 2 .. Len(frames), roi \in rois : r = Row(k, roi)
      BY <1>2
    <3>2. PICK p \in pairs : Row(k, roi) = row[p]
      BY <2>1
    <3>. QED  BY <3>1, <3>2
  <2>4. ASSUME NEW r \in {row[p] : p \in pairs} PROVE r \in rows
    <3>1. PICK p \in pairs : r = row[p]
      OBVIOUS
    <3>2. PICK k \in 2 .. Len(frames), roi \in rois : row[p] = Row(k, roi)
      BY <2>2
    <3>. QED  BY <1>2, <3>1, <3>2
  <2>. QED  BY <2>3, <2>4
<1>5. IsFiniteSet(rows)
  <2>. HIDE DEF pairs, row, rows
  <2>1. IsFiniteSet({row[p] : p \in pairs})
    BY <1>3, ImageIsFinite
  <2>. QED  BY <1>4, <2>1
<1>. QED  BY <1>1, <1>2, <1>5 DEF RowsAreNumbers

LEMMA RowsPeak ==
    ASSUME NEW rows, RowsAreNumbers(rows), NEW some \in SUBSET rows
    PROVE  /\ PeakOf({JudgmentMotionScore(r) : r \in some}) \in Nat
           /\ PeakOf({r.changed : r \in some}) \in Nat
           /\ Cardinality(some) \in Nat
<1>. DEFINE score == [r \in some |-> JudgmentMotionScore(r)]
            changed == [r \in some |-> r.changed]
<1>1. IsFiniteSet(some)
  BY FS_Subset DEF RowsAreNumbers
<1>2. \A r \in some : JudgmentMotionScore(r) \in Nat /\ r.changed \in Nat
  BY DEF RowsAreNumbers, JudgmentMotionScore
<1>3. {JudgmentMotionScore(r) : r \in some} = {score[r] : r \in some}
      /\ {r.changed : r \in some} = {changed[r] : r \in some}
  OBVIOUS
<1>4. {score[r] : r \in some} \in SUBSET Nat /\ {changed[r] : r \in some} \in SUBSET Nat
  BY <1>2
<1>. HIDE DEF score, changed
<1>5. IsFiniteSet({score[r] : r \in some}) /\ IsFiniteSet({changed[r] : r \in some})
  BY <1>1, ImageIsFinite
<1>6. PeakOf({score[r] : r \in some}) \in Nat /\ PeakOf({changed[r] : r \in some}) \in Nat
  BY <1>4, <1>5, PeakIsNatural
<1>. QED  BY <1>1, <1>3, <1>6, FS_CardinalityType

LEMMA MetricsOfRows ==
    ASSUME NEW visual, RowsAreNumbers(visual.rows)
    PROVE  MetricsAreNumbers(RoiWindowMetrics(visual))
<1>. DEFINE Rows(roi, window) == {r \in visual.rows : r.roi = roi /\ r.window = window}
            Metric(roi, window) ==
               LET movement == PeakOf({JudgmentMotionScore(r) : r \in Rows(roi, window)})
                   samples == Cardinality(Rows(roi, window))
               IN  [movement |-> movement, samples |-> samples,
                    changed |-> PeakOf({r.changed : r \in Rows(roi, window)}),
                    confidence |-> MetricConfidence(movement, samples)]
<1>1. ASSUME NEW roi, NEW window PROVE Metric(roi, window) \in Numbers
  <2>. DEFINE some == Rows(roi, window)
              movement == PeakOf({JudgmentMotionScore(r) : r \in some})
              changed == PeakOf({r.changed : r \in some})
              samples == Cardinality(some)
  <2>1. movement \in Nat /\ changed \in Nat /\ samples \in Nat
    <3>1. some \in SUBSET visual.rows
      OBVIOUS
    <3>. HIDE DEF some
    <3>. QED  BY <3>1, RowsPeak
  <2>2. Metric(roi, window) = [movement |-> movement, samples |-> samples, changed |-> changed,
                               confidence |-> MetricConfidence(movement, samples)]
    OBVIOUS
  <2>. HIDE DEF movement, changed, samples, Metric
  <2>3. MetricConfidence(movement, samples) \in Nat
    <3>1. MetricConfidence(movement, samples) \in Thousandths
      BY <2>1, ConfidenceInThousandths
    <3>. QED  BY <3>1 DEF Thousandths
  <2>. QED  BY <2>1, <2>2, <2>3 DEF Numbers
<1>2. RoiWindowMetrics(visual) =
          [p \in {<<r.roi, r.window>> : r \in visual.rows} |-> Metric(p[1], p[2])]
  BY Zenon DEF RoiWindowMetrics
<1>. HIDE DEF Metric
<1>. QED  BY <1>1, <1>2 DEF MetricsAreNumbers

ResultsAreNumbers(results) == IsFiniteSet(results) /\ \A r \in results : r.active \in Nat

LEMMA SummarizedAreNumbers ==
    ASSUME NEW rows, RowsAreNumbers(rows), NEW rois, IsFiniteSet(rois)
    PROVE  ResultsAreNumbers(SummarizeRois(rows, rois))
<1>. DEFINE Result(roi) == LET pre == Peak(rows, roi.id, "pretrigger")
                               settle == Peak(rows, roi.id, "settle")
                           IN  [id |-> roi.id, kind |-> roi.kind, counts |-> roi.counts,
                                expected |-> roi.expected, out |-> roi.out,
                                pre |-> pre, active |-> Peak(rows, roi.id, "active"),
                                release |-> Peak(rows, roi.id, "release"), settle |-> settle,
                                label |-> RoiLabel(roi, rows, pre, settle)]
            result == [roi \in rois |-> Result(roi)]
<1>1. ASSUME NEW roi PROVE Result(roi).active \in Nat
  <2>. DEFINE some == {q \in rows : q.roi = roi.id /\ q.window = "active"}
  <2>1. Result(roi).active = PeakOf({JudgmentMotionScore(r) : r \in some})
    BY DEF Peak
  <2>2. some \in SUBSET rows
    OBVIOUS
  <2>. HIDE DEF some, Result
  <2>. QED  BY <2>1, <2>2, RowsPeak
<1>2. SummarizeRois(rows, rois) = {Result(roi) : roi \in rois}
  BY Zenon DEF SummarizeRois
<1>. HIDE DEF Result
<1>3. {Result(roi) : roi \in rois} = {result[roi] : roi \in rois}
  OBVIOUS
<1>4. IsFiniteSet({result[roi] : roi \in rois})
  <2>. HIDE DEF result
  <2>. QED  BY ImageIsFinite
<1>. QED  BY <1>1, <1>2, <1>3, <1>4 DEF ResultsAreNumbers

LEMMA SummaryConfidenceIsNumber ==
    ASSUME NEW visual, ResultsAreNumbers(visual.rois)
    PROVE  SummaryConfidence(visual) \in Thousandths
<1>. DEFINE expected == {r \in visual.rois : r.expected}
            peaked == IF expected = {} THEN visual.rois ELSE expected
            active == [r \in peaked |-> r.active]
<1>1. peaked \in SUBSET visual.rois
  OBVIOUS
<1>2. SummaryConfidence(visual) = MetricConfidence(PeakOf({r.active : r \in peaked}), Cardinality(peaked))
  BY Zenon DEF SummaryConfidence
<1>. HIDE DEF peaked
<1>3. IsFiniteSet(peaked) /\ Cardinality(peaked) \in Nat
  BY <1>1, FS_Subset, FS_CardinalityType DEF ResultsAreNumbers
<1>4. {r.active : r \in peaked} = {active[r] : r \in peaked} /\ {r.active : r \in peaked} \in SUBSET Nat
  BY <1>1 DEF ResultsAreNumbers
<1>. HIDE DEF active
<1>5. PeakOf({r.active : r \in peaked}) \in Nat
  BY <1>3, <1>4, ImageIsFinite, PeakIsNatural
<1>. QED  BY <1>2, <1>3, <1>5, ConfidenceInThousandths

LEMMA OneOfFour ==
    ASSUME NEW a, NEW b, NEW c, NEW otherwise
    PROVE  FirstRule(<<a, b, c>>, otherwise) \in {a.says, b.says, c.says, otherwise}
<1>. DEFINE rules == <<a, b, c>>
<1>1. DOMAIN rules = 1 .. 3 /\ rules[1] = a /\ rules[2] = b /\ rules[3] = c
  OBVIOUS
<1>. HIDE DEF rules
<1>2. CASE \E k \in 1 .. 3 : rules[k].holds
  <2>1. PICK k \in DOMAIN rules : rules[k].holds
    BY <1>1, <1>2
  <2>2. DOMAIN rules \subseteq Nat
    BY <1>1
  <2>3. PICK j \in DOMAIN rules : FirstRule(rules, otherwise) = rules[j].says
    BY <2>1, <2>2, FirstRuleDecides
  <2>4. j \in {1, 2, 3}
    BY <1>1
  <2>. QED  BY <1>1, <2>3, <2>4 DEF rules
<1>3. CASE \A k \in DOMAIN rules : ~rules[k].holds
  <2>1. FirstRule(rules, otherwise) = otherwise
    BY <1>3, NoRuleHolds
  <2>. QED  BY <2>1 DEF rules
<1>. QED  BY <1>1, <1>2, <1>3

Statuses == {"pass", "partial", "blocked", "fail"}

LEMMA StatusIsOneOfFour == ASSUME NEW reason PROVE ResultStatus(reason) \in Statuses
<1>1. PICK pass, blocked, partial, otherwise :
         /\ pass = Rule(reason = "visual-pass", "pass")
         /\ blocked = Rule(reason \in {"runtime-not-joined", "capture-not-ready"}, "blocked")
         /\ partial = Rule(reason \in {"visual-pretrigger-motion", "guard-only-motion", "did-not-settle"},
                           "partial")
         /\ otherwise = "fail"
  BY Zenon
<1>2. ResultStatus(reason) = FirstRule(<<pass, blocked, partial>>, otherwise)
  BY <1>1, Zenon DEF ResultStatus
<1>3. FirstRule(<<pass, blocked, partial>>, otherwise) \in
         {pass.says, blocked.says, partial.says, otherwise}
  BY OneOfFour
<1>4. pass.says = "pass" /\ blocked.says = "blocked" /\ partial.says = "partial"
  BY <1>1 DEF Rule
<1>5. otherwise = "fail"
  BY <1>1
<1>. QED  BY <1>2, <1>3, <1>4, <1>5, Zenon DEF Statuses

-----------------------------------------------------------------------------
(* The packet *)

Fields == {"id", "scenario", "layer", "result", "reason", "issue", "diagnosis", "observability",
           "confidence", "attention", "review", "refs", "metrics", "latest", "judgment"}

(* A packet has every field, and its numbers and its vocabulary are what is promised. *)
IsPacket(p) ==
    /\ DOMAIN p = Fields
    /\ p.result \in Statuses /\ p.confidence \in Thousandths
    /\ MetricsAreNumbers(p.metrics)
    /\ p.judgment.result \in {"none", "pass", "fail", "unclear"}

LEMMA SummaryIsPacket ==
    ASSUME NEW visual, RowsAreNumbers(visual.rows), ResultsAreNumbers(visual.rois)
    PROVE  IsPacket(BuildSelfMirrorMetricSummary(visual))
<1>. DEFINE p == BuildSelfMirrorMetricSummary(visual)
<1>1. /\ DOMAIN p = Fields
      /\ p.result \in {"blocked", ResultStatus(visual.result)}
      /\ p.confidence = SummaryConfidence(visual)
      /\ p.metrics = RoiWindowMetrics(visual)
      /\ p.judgment = NoJudgment
  BY DEF BuildSelfMirrorMetricSummary, Fields
<1>. HIDE DEF p
<1>2. ResultStatus(visual.result) \in Statuses /\ "blocked" \in Statuses
  BY StatusIsOneOfFour DEF Statuses
<1>3. NoJudgment.result = "none"
  BY DEF NoJudgment
<1>4. SummaryConfidence(visual) \in Thousandths
  BY SummaryConfidenceIsNumber
<1>5. MetricsAreNumbers(RoiWindowMetrics(visual))
  BY MetricsOfRows
<1>6. p.result \in Statuses
  BY <1>1, <1>2
<1>. QED  BY <1>1, <1>3, <1>4, <1>5, <1>6 DEF IsPacket, p

LEMMA AnalysisIsPacket ==
    ASSUME NEW input, IsFiniteSet(input.rois), PixelsAreNumbers(input.frames, input.rois)
    PROVE  IsPacket(BuildSelfMirrorMetricSummary(AnalyzeFrames(input)))
<1>. DEFINE parsed == [roi \in input.rois |-> ParseRoi(roi)]
            rois == {ParseRoi(roi) : roi \in input.rois}
            rows == MeasuredRows(input.frames, input.interval, input.windows, rois)
<1>1. IsFiniteSet(rois)
  <2>1. rois = {parsed[roi] : roi \in input.rois}
    OBVIOUS
  <2>. HIDE DEF rois, parsed
  <2>. QED  BY <2>1, ImageIsFinite
<1>2. PixelsAreNumbers(input.frames, rois)
  <2>1. \A roi \in rois : \E given \in input.rois : roi.id = given.id
    BY DEF ParseRoi
  <2>. HIDE DEF rois
  <2>. QED  BY <2>1 DEF PixelsAreNumbers
<1>3. AnalyzeFrames(input).rows = rows /\ AnalyzeFrames(input).rois = SummarizeRois(rows, rois)
  BY DEF AnalyzeFrames
<1>. HIDE DEF rois
<1>4. RowsAreNumbers(rows)
  BY <1>1, <1>2, MeasuredAreNumbers
<1>. HIDE DEF rows
<1>5. ResultsAreNumbers(SummarizeRois(rows, rois))
  BY <1>1, <1>4, SummarizedAreNumbers
<1>. QED  BY <1>3, <1>4, <1>5, SummaryIsPacket

(* Attaching a judgment touches the judgment, the confidence and the review flag. *)
LEMMA AttachTouches ==
    ASSUME NEW p, NEW judgment, DOMAIN p = Fields
    PROVE  /\ DOMAIN AttachAutoJudgment(p, judgment) = Fields
           /\ AttachAutoJudgment(p, judgment).judgment = judgment
           /\ AttachAutoJudgment(p, judgment).confidence = judgment.confidence
           /\ AttachAutoJudgment(p, judgment).review = judgment.review
           /\ AttachAutoJudgment(p, judgment).id = p.id
           /\ AttachAutoJudgment(p, judgment).scenario = p.scenario
           /\ AttachAutoJudgment(p, judgment).refs = p.refs
           /\ AttachAutoJudgment(p, judgment).result = p.result
           /\ AttachAutoJudgment(p, judgment).latest = p.latest
           /\ AttachAutoJudgment(p, judgment).metrics = p.metrics
  BY DEF AttachAutoJudgment, Fields

-----------------------------------------------------------------------------
(* The verdict and the diagnosis as ordered rules *)

(* What only one rule says is said when that rule holds and none before it does. *)
LEMMA FirstRuleSays ==
    ASSUME NEW rules, NEW otherwise, DOMAIN rules \subseteq Nat,
           NEW said, said # otherwise,
           NEW j \in DOMAIN rules, rules[j].says = said,
           \A i \in DOMAIN rules : rules[i].says = said => i = j
    PROVE  FirstRule(rules, otherwise) = said
               <=> rules[j].holds /\ \A i \in DOMAIN rules : i < j => ~rules[i].holds
<1>1. CASE \A i \in DOMAIN rules : ~rules[i].holds
  <2>1. FirstRule(rules, otherwise) = otherwise
    BY <1>1, NoRuleHolds
  <2>. QED  BY <1>1, <2>1
<1>2. CASE \E i \in DOMAIN rules : rules[i].holds
  <2>1. PICK i \in DOMAIN rules : /\ rules[i].holds /\ FirstRule(rules, otherwise) = rules[i].says
                                  /\ \A k \in DOMAIN rules : rules[k].holds => i <= k
    BY <1>2, FirstRuleDecides
  <2>2. i \in Nat /\ j \in Nat /\ \A k \in DOMAIN rules : k \in Nat
    OBVIOUS
  <2>3. CASE i = j
    BY <2>1, <2>2, <2>3
  <2>4. CASE i # j
    <3>1. FirstRule(rules, otherwise) # said
      BY <2>1, <2>4
    <3>2. rules[j].holds => i < j
      BY <2>1, <2>2, <2>4
    <3>. QED  BY <2>1, <3>1, <3>2
  <2>. QED  BY <2>3, <2>4
<1>. QED  BY <1>1, <1>2

(* A region outside the frame is labelled so; an expected region inside it shows the    *)
(* motion when it was quiet before, moved for long enough and has settled.               *)
LEMMA LabelSays ==
    ASSUME NEW roi, NEW rows, NEW pre, NEW settle
    PROVE  /\ RoiLabel(roi, rows, pre, settle) = "roi-out-of-frame" <=> roi.out
           /\ roi.counts /\ roi.expected /\ ~roi.out =>
                 (RoiLabel(roi, rows, pre, settle) = "visual-motion-detected" <=>
                     /\ ~(pre >= ActiveMin)
                     /\ MaxConsecutiveAtOrAbove(rows, roi.id, "active", ActiveMin) >= MinConsecutive
                     /\ settle <= SettleMax)
<1>1. CASE roi.counts /\ roi.expected /\ ~roi.out
  <2>. DEFINE run == MaxConsecutiveAtOrAbove(rows, roi.id, "active", ActiveMin)
              early == pre >= ActiveMin
              moved == run >= MinConsecutive /\ settle <= SettleMax
              restless == settle > SettleMax
              rules == <<Rule(early, "visual-pretrigger-motion"), Rule(moved, "visual-motion-detected"),
                         Rule(restless, "did-not-settle")>>
  <2>1. RoiLabel(roi, rows, pre, settle) = FirstRule(rules, "visual-missing-motion")
    BY <1>1, Zenon DEF RoiLabel
  <2>. HIDE DEF early, moved, restless
  <2>2. /\ DOMAIN rules = 1 .. 3 /\ rules[1].says = "visual-pretrigger-motion"
        /\ rules[2].says = "visual-motion-detected" /\ rules[3].says = "did-not-settle"
        /\ rules[1].holds = early /\ rules[2].holds = moved
    BY DEF Rule
  <2>. HIDE DEF rules
  <2>3. /\ DOMAIN rules \subseteq Nat /\ 2 \in DOMAIN rules
        /\ \A i \in DOMAIN rules : i \in {1, 2, 3}
    BY <2>2
  <2>4. \A i \in DOMAIN rules : rules[i].says = "visual-motion-detected" => i = 2
    BY <2>2, <2>3
  <2>5. FirstRule(rules, "visual-missing-motion") = "visual-motion-detected"
            <=> rules[2].holds /\ \A i \in DOMAIN rules : i < 2 => ~rules[i].holds
    BY <2>2, <2>3, <2>4, FirstRuleSays
  <2>6. (\A i \in DOMAIN rules : i < 2 => ~rules[i].holds) <=> ~rules[1].holds
    BY <2>2, <2>3
  <2>7. FirstRule(rules, "visual-missing-motion") = "visual-motion-detected" <=> moved /\ ~early
    BY <2>2, <2>5, <2>6
  <2>8. FirstRule(rules, "visual-missing-motion") # "roi-out-of-frame"
    <3>1. CASE \A i \in DOMAIN rules : ~rules[i].holds
      BY <3>1, NoRuleHolds
    <3>2. CASE \E i \in DOMAIN rules : rules[i].holds
      <4>1. PICK i \in DOMAIN rules : FirstRule(rules, "visual-missing-motion") = rules[i].says
        BY <2>3, <3>2, FirstRuleDecides
      <4>. QED  BY <2>2, <2>3, <4>1
    <3>. QED  BY <3>1, <3>2
  <2>. QED  BY <1>1, <2>1, <2>7, <2>8 DEF early, moved
<1>2. CASE ~(roi.counts /\ roi.expected /\ ~roi.out)
  <2>. DEFINE out == roi.out
              counts == roi.counts
              rules == <<Rule(out, "roi-out-of-frame"), Rule(counts, "avatar-motion-not-required")>>
  <2>1. RoiLabel(roi, rows, pre, settle) = FirstRule(rules, "guard-ui-motion-excluded")
    BY <1>2, Zenon DEF RoiLabel
  <2>. HIDE DEF out, counts
  <2>2. /\ DOMAIN rules = 1 .. 2 /\ rules[1].says = "roi-out-of-frame"
        /\ rules[2].says = "avatar-motion-not-required" /\ rules[1].holds = out
    BY DEF Rule
  <2>. HIDE DEF rules
  <2>3. /\ DOMAIN rules \subseteq Nat /\ 1 \in DOMAIN rules
        /\ \A i \in DOMAIN rules : i \in {1, 2}
    BY <2>2
  <2>4. FirstRule(rules, "guard-ui-motion-excluded") = "roi-out-of-frame"
            <=> rules[1].holds /\ \A i \in DOMAIN rules : i < 1 => ~rules[i].holds
    BY <2>2, <2>3, FirstRuleSays
  <2>5. FirstRule(rules, "guard-ui-motion-excluded") = "roi-out-of-frame" <=> out
    BY <2>2, <2>3, <2>4
  <2>. QED  BY <1>2, <2>1, <2>5 DEF out
<1>. QED  BY <1>1, <1>2
LEMMA QuietSays ==
    ASSUME NEW results, NEW guardMotion
    PROVE  QuietResult(results, guardMotion) = "visual-pass" <=>
              /\ \A r \in results : ~(r.pre >= ActiveMin) /\ ~(r.settle > SettleMax)
              /\ ~guardMotion
              /\ PeakOf(UNION {{r.pre, r.active, r.release, r.settle} : r \in results}) < ActiveMin
<1>. DEFINE early == \E r \in results : r.pre >= ActiveMin
            guarded == guardMotion
            restless == \E r \in results : r.settle > SettleMax
            quiet == PeakOf(UNION {{r.pre, r.active, r.release, r.settle} : r \in results}) < ActiveMin
            rules == <<Rule(early, "visual-pretrigger-motion"), Rule(guarded, "guard-only-motion"),
                       Rule(restless, "did-not-settle"), Rule(quiet, "visual-pass")>>
<1>1. QuietResult(results, guardMotion) = FirstRule(rules, "visual-missing-motion")
  BY Zenon DEF QuietResult
<1>. HIDE DEF early, guarded, restless, quiet
<1>2. /\ DOMAIN rules = 1 .. 4 /\ rules[1].says = "visual-pretrigger-motion"
      /\ rules[2].says = "guard-only-motion" /\ rules[3].says = "did-not-settle"
      /\ rules[4].says = "visual-pass"
      /\ rules[1].holds = early /\ rules[2].holds = guarded /\ rules[3].holds = restless
      /\ rules[4].holds = quiet
  BY DEF Rule
<1>. HIDE DEF rules
<1>3. /\ DOMAIN rules \subseteq Nat /\ 4 \in DOMAIN rules
      /\ \A i \in DOMAIN rules : i \in {1, 2, 3, 4}
  BY <1>2
<1>4. \A i \in DOMAIN rules : rules[i].says = "visual-pass" => i = 4
  BY <1>2, <1>3
<1>5. FirstRule(rules, "visual-missing-motion") = "visual-pass"
          <=> rules[4].holds /\ \A i \in DOMAIN rules : i < 4 => ~rules[i].holds
  BY <1>2, <1>3, <1>4, FirstRuleSays
<1>6. (\A i \in DOMAIN rules : i < 4 => ~rules[i].holds)
          <=> ~rules[1].holds /\ ~rules[2].holds /\ ~rules[3].holds
  BY <1>2, <1>3
<1>7. FirstRule(rules, "visual-missing-motion") = "visual-pass"
          <=> quiet /\ ~early /\ ~guarded /\ ~restless
  BY <1>2, <1>5, <1>6
<1>. QED  BY <1>1, <1>7 DEF early, guarded, restless, quiet

(* A run is a visual pass when nothing speaks against the capture and, as the scenario    *)
(* asks, nothing moved or every expected region shows the motion.                         *)
IsVisualPass(results, scenario, layer, join, diag, ready) ==
    /\ \A r \in results : r.label # "roi-out-of-frame"
    /\ CaptureIsReady(ready)
    /\ layer = "visible_motion" /\ scenario.joinRequired => RunIsJoined(join, scenario)
    /\ ~TargetMismatch(diag)
    /\ IF scenario.motion = "none" \/ ExpectedRois(results) = {}
       THEN QuietResult(results, \E r \in {q \in results : ~q.counts /\ ~IsDiagnosticRoi(q)} :
                                     r.active >= ActiveMin) = "visual-pass"
       ELSE \A r \in ExpectedRois(results) : r.label = "visual-motion-detected"

LEMMA OverallSays ==
    ASSUME NEW results, NEW scenario, NEW layer, NEW join, NEW diag, NEW ready
    PROVE  OverallResult(results, scenario, layer, join, diag, ready) = "visual-pass"
              <=> IsVisualPass(results, scenario, layer, join, diag, ready)
<1>. SUFFICES OverallResult(results, scenario, layer, join, diag, ready) = "visual-pass" <=>
              /\ \A r \in results : r.label # "roi-out-of-frame"
              /\ CaptureIsReady(ready)
              /\ layer = "visible_motion" /\ scenario.joinRequired => RunIsJoined(join, scenario)
              /\ ~TargetMismatch(diag)
              /\ IF scenario.motion = "none" \/ ExpectedRois(results) = {}
                 THEN QuietResult(results, \E r \in {q \in results : ~q.counts /\ ~IsDiagnosticRoi(q)} :
                                               r.active >= ActiveMin) = "visual-pass"
                 ELSE \A r \in ExpectedRois(results) : r.label = "visual-motion-detected"
  BY Zenon DEF IsVisualPass
<1>. DEFINE expected == ExpectedRois(results)
            guardMotion == \E r \in {q \in results : ~q.counts /\ ~IsDiagnosticRoi(q)} :
                               r.active >= ActiveMin
            quiet == QuietResult(results, guardMotion)
            h1 == \E r \in results : r.label = "roi-out-of-frame"
            h2 == ~CaptureIsReady(ready)
            h3 == layer = "visible_motion" /\ scenario.joinRequired /\ ~RunIsJoined(join, scenario)
            h4 == TargetMismatch(diag)
            h5 == scenario.motion = "none" \/ expected = {}
            h6 == \E r \in expected : r.label = "visual-pretrigger-motion"
            h7 == \E r \in expected : r.label = "did-not-settle"
            h8 == \A r \in expected : r.label = "visual-motion-detected"
            h9 == guardMotion
            h10 == \E r \in expected : LooksThresholdTooStrict(r)
            rules == <<Rule(h1, "roi-out-of-frame"), Rule(h2, "capture-not-ready"),
                       Rule(h3, "runtime-not-joined"), Rule(h4, "wrong-target-or-surface-mismatch"),
                       Rule(h5, quiet), Rule(h6, "visual-pretrigger-motion"),
                       Rule(h7, "did-not-settle"), Rule(h8, "visual-pass"),
                       Rule(h9, "guard-only-motion"), Rule(h10, "threshold-too-strict")>>
            says == FirstRule(rules, "visual-missing-motion")
<1>1. OverallResult(results, scenario, layer, join, diag, ready) = says
  BY Zenon DEF OverallResult
<1>2. h8 => ~h6 /\ ~h7
  OBVIOUS
<1>. HIDE DEF h1, h2, h3, h4, h5, h6, h7, h8, h9, h10, quiet
<1>3. /\ DOMAIN rules = 1 .. 10 /\ rules[1].says = "roi-out-of-frame"
      /\ rules[2].says = "capture-not-ready" /\ rules[3].says = "runtime-not-joined"
      /\ rules[4].says = "wrong-target-or-surface-mismatch" /\ rules[5].says = quiet
      /\ rules[6].says = "visual-pretrigger-motion" /\ rules[7].says = "did-not-settle"
      /\ rules[8].says = "visual-pass" /\ rules[9].says = "guard-only-motion"
      /\ rules[10].says = "threshold-too-strict"
  BY DEF Rule
<1>4. /\ rules[1].holds = h1 /\ rules[2].holds = h2 /\ rules[3].holds = h3 /\ rules[4].holds = h4
      /\ rules[5].holds = h5 /\ rules[6].holds = h6 /\ rules[7].holds = h7 /\ rules[8].holds = h8
  BY DEF Rule
<1>. HIDE DEF rules
<1>5. /\ DOMAIN rules \subseteq Nat /\ {1, 2, 3, 4, 5, 6, 7, 8} \subseteq DOMAIN rules
      /\ \A i \in DOMAIN rules : i \in {1, 2, 3, 4, 5, 6, 7, 8, 9, 10}
  BY <1>3
<1>. HIDE DEF says
<1>6. ASSUME NEW i \in DOMAIN rules, rules[i].holds
      PROVE  \E j \in DOMAIN rules : /\ rules[j].holds /\ says = rules[j].says
                                     /\ \A k \in DOMAIN rules : rules[k].holds => j <= k
  BY <1>5, <1>6, FirstRuleDecides DEF says
<1>7. CASE rules[1].holds \/ rules[2].holds \/ rules[3].holds \/ rules[4].holds
  <2>1. PICK j \in DOMAIN rules : /\ rules[j].holds /\ says = rules[j].says
                                  /\ \A k \in DOMAIN rules : rules[k].holds => j <= k
    BY <1>5, <1>6, <1>7
  <2>2. j \in {1, 2, 3, 4}
    BY <1>5, <1>7, <2>1
  <2>3. says # "visual-pass"
    BY <1>3, <2>1, <2>2
  <2>. QED  BY <1>1, <1>4, <1>7, <2>3 DEF h1, h2, h3, h4
<1>8. CASE ~(rules[1].holds \/ rules[2].holds \/ rules[3].holds \/ rules[4].holds) /\ rules[5].holds
  <2>1. PICK j \in DOMAIN rules : /\ rules[j].holds /\ says = rules[j].says
                                  /\ \A k \in DOMAIN rules : rules[k].holds => j <= k
    BY <1>5, <1>6, <1>8
  <2>2. j = 5
    <3>1. j <= 5 /\ j \notin {1, 2, 3, 4}
      BY <1>5, <1>8, <2>1
    <3>. QED  BY <1>5, <3>1
  <2>3. says = quiet
    BY <1>3, <2>1, <2>2
  <2>4. ~h1 /\ ~h2 /\ ~h3 /\ ~h4 /\ h5
    BY <1>4, <1>8
  <2>. QED  BY <1>1, <2>3, <2>4, Zenon DEF h1, h2, h3, h4, h5, quiet
<1>9. CASE ~(rules[1].holds \/ rules[2].holds \/ rules[3].holds \/ rules[4].holds) /\ ~rules[5].holds
  <2>1. ~h1 /\ ~h2 /\ ~h3 /\ ~h4 /\ ~h5
    BY <1>4, <1>9
  <2>2. says = "visual-pass" <=> rules[8].holds
    <3>1. CASE \A i \in DOMAIN rules : ~rules[i].holds
      <4>1. says = "visual-missing-motion"
        BY <3>1, NoRuleHolds DEF says
      <4>. QED  BY <1>5, <3>1, <4>1
    <3>2. CASE \E i \in DOMAIN rules : rules[i].holds
      <4>1. PICK j \in DOMAIN rules : /\ rules[j].holds /\ says = rules[j].says
                                      /\ \A k \in DOMAIN rules : rules[k].holds => j <= k
        BY <1>6, <3>2
      <4>2. j \in {6, 7, 8, 9, 10}
        BY <1>5, <1>9, <4>1
      <4>3. rules[8].holds => ~rules[6].holds /\ ~rules[7].holds
        BY <1>2, <1>4
      <4>4. rules[8].holds => j = 8
        <5>1. rules[8].holds => j <= 8 /\ j \notin {6, 7}
          BY <1>5, <4>1, <4>3
        <5>. QED  BY <4>2, <5>1
      <4>5. says = "visual-pass" => j = 8
        BY <1>3, <4>1, <4>2
      <4>. QED  BY <1>3, <4>1, <4>4, <4>5
    <3>. QED  BY <3>1, <3>2
  <2>3. says = "visual-pass" <=> h8
    BY <1>4, <2>2
  <2>. QED  BY <1>1, <2>1, <2>3, Zenon DEF h1, h2, h3, h4, h5, h8
<1>. QED  BY <1>7, <1>8, <1>9
Correlated == "event-correlated-motion"
MotionSeen == {Correlated, "delayed-visible-change", "guard-or-ui-only-motion",
               "motion-outside-expected-roi", "idle-only-motion"}

(* On the right surface, expected motion above idle is correlated with the event, and    *)
(* expected motion that is not above idle is still seen.                                  *)
LEMMA DiagnosisSays ==
    ASSUME NEW mismatch, NEW active, NEW late, NEW guard, NEW diagnostic, NEW idle,
           NEW contaminated, NEW missed, NEW applied, NEW started, NEW page, NEW result,
           result = DiagnosticResult(mismatch, active, late, guard, diagnostic, idle,
                                     contaminated, missed, applied, started, page)
    PROVE  /\ result = Correlated <=> ~mismatch /\ active # {}
           /\ ~mismatch /\ (active # {} \/ idle # {}) => result \in MotionSeen
<1>. DEFINE h2 == active # {}
            h3 == late # {}
            h4 == guard # {}
            h5 == diagnostic # {}
            h6 == idle # {}
            h7 == contaminated # {}
            h8 == missed # {}
            h10 == started /\ page
            rules == <<Rule(mismatch, "wrong-target-or-surface-mismatch"), Rule(h2, Correlated),
                       Rule(h3, "delayed-visible-change"), Rule(h4, "guard-or-ui-only-motion"),
                       Rule(h5, "motion-outside-expected-roi"), Rule(h6, "idle-only-motion"),
                       Rule(h7, "pretrigger-contamination"), Rule(h8, "roi-threshold-miss"),
                       Rule(applied, "frame-applied-but-pixel-static"),
                       Rule(h10, "runtime-started-but-no-frame-applied"),
                       Rule(started, "runtime-started-no-visible-motion")>>
<1>1. result = FirstRule(rules, "no-visible-motion")
  BY Zenon DEF DiagnosticResult, Correlated
<1>. HIDE DEF h2, h3, h4, h5, h6, h7, h8, h10
<1>2. /\ DOMAIN rules = 1 .. 11 /\ rules[1].says = "wrong-target-or-surface-mismatch"
      /\ rules[2].says = Correlated /\ rules[3].says = "delayed-visible-change"
      /\ rules[4].says = "guard-or-ui-only-motion" /\ rules[5].says = "motion-outside-expected-roi"
      /\ rules[6].says = "idle-only-motion" /\ rules[7].says = "pretrigger-contamination"
      /\ rules[8].says = "roi-threshold-miss" /\ rules[9].says = "frame-applied-but-pixel-static"
      /\ rules[10].says = "runtime-started-but-no-frame-applied"
      /\ rules[11].says = "runtime-started-no-visible-motion"
  BY DEF Rule
<1>3. rules[1].holds = mismatch /\ rules[2].holds = h2 /\ rules[6].holds = h6
  BY DEF Rule
<1>. HIDE DEF rules
<1>4. /\ DOMAIN rules \subseteq Nat /\ {1, 2, 6} \subseteq DOMAIN rules
      /\ \A i \in DOMAIN rules : i \in {1, 2, 3, 4, 5, 6, 7, 8, 9, 10, 11}
  BY <1>2
<1>5. result = Correlated <=> ~mismatch /\ h2
  <2>1. \A i \in DOMAIN rules : rules[i].says = Correlated => i = 2
    BY <1>2, <1>4 DEF Correlated
  <2>2. Correlated # "no-visible-motion"
    BY DEF Correlated
  <2>3. FirstRule(rules, "no-visible-motion") = Correlated
            <=> rules[2].holds /\ \A i \in DOMAIN rules : i < 2 => ~rules[i].holds
    BY <1>2, <1>4, <2>1, <2>2, FirstRuleSays
  <2>4. (\A i \in DOMAIN rules : i < 2 => ~rules[i].holds) <=> ~rules[1].holds
    BY <1>4
  <2>. QED  BY <1>1, <1>3, <2>3, <2>4
<1>6. ASSUME ~mismatch, h2 \/ h6 PROVE result \in MotionSeen
  <2>1. rules[2].holds \/ rules[6].holds
    BY <1>3, <1>6
  <2>2. PICK j \in DOMAIN rules : /\ rules[j].holds /\ result = rules[j].says
                                  /\ \A k \in DOMAIN rules : rules[k].holds => j <= k
    BY <1>1, <1>4, <2>1, FirstRuleDecides
  <2>3. j <= 6 /\ j # 1
    BY <1>3, <1>4, <1>6, <2>1, <2>2
  <2>4. j \in {2, 3, 4, 5, 6}
    BY <1>4, <2>3
  <2>. QED  BY <1>2, <2>2, <2>4 DEF MotionSeen
<1>. QED  BY <1>5, <1>6 DEF h2, h6

LEMMA StatusIsPass == ASSUME NEW reason PROVE ResultStatus(reason) = "pass" <=> reason = "visual-pass"
<1>. DEFINE passed == reason = "visual-pass"
            blocked == reason \in {"runtime-not-joined", "capture-not-ready"}
            partial == reason \in {"visual-pretrigger-motion", "guard-only-motion", "did-not-settle"}
            rules == <<Rule(passed, "pass"), Rule(blocked, "blocked"), Rule(partial, "partial")>>
<1>1. ResultStatus(reason) = FirstRule(rules, "fail")
  BY Zenon DEF ResultStatus
<1>. HIDE DEF passed, blocked, partial
<1>2. /\ DOMAIN rules = 1 .. 3 /\ rules[1].says = "pass" /\ rules[2].says = "blocked"
      /\ rules[3].says = "partial" /\ rules[1].holds = passed
  BY DEF Rule
<1>. HIDE DEF rules
<1>3. /\ DOMAIN rules \subseteq Nat /\ 1 \in DOMAIN rules
      /\ \A i \in DOMAIN rules : i \in {1, 2, 3}
  BY <1>2
<1>4. FirstRule(rules, "fail") = "pass"
          <=> rules[1].holds /\ \A i \in DOMAIN rules : i < 1 => ~rules[i].holds
  BY <1>2, <1>3, FirstRuleSays
<1>5. FirstRule(rules, "fail") = "pass" <=> passed
  BY <1>2, <1>3, <1>4
<1>. QED  BY <1>1, <1>5 DEF passed

(* A packet is a pass when the verdict is and there was a surface to see it on; then it     *)
(* carries no failure, and otherwise it does.                                                *)
LEMMA PacketSays ==
    ASSUME NEW visual, NEW p, p = BuildSelfMirrorMetricSummary(visual)
    PROVE  /\ p.result = "pass" <=>
                 visual.result = "visual-pass" /\ ObservabilityStatus(visual) = "present"
           /\ p.result = "pass" => p.observability.codes = {} /\ ~p.attention /\ p.issue = ""
           /\ p.result # "pass" => p.observability.codes # {} /\ p.review
           /\ p.diagnosis = visual.diagnostics
<1>. DEFINE surface == ObservabilityStatus(visual)
            codes == VisualFailureReasonCodes(visual.result, visual.diagnostics, surface)
            takenBack == visual.result = "visual-pass" /\ surface # "present"
            result == IF takenBack THEN "blocked" ELSE ResultStatus(visual.result)
            reason == IF takenBack THEN "missing-surface-blocker" ELSE visual.result
<1>1. /\ ObservabilityBlock(visual, visual.result).surface = surface
      /\ ObservabilityBlock(visual, visual.result).codes = codes
  BY DEF ObservabilityBlock
<1>2. /\ p.result = result /\ p.issue = ObservedIssue(reason)
      /\ p.attention = (result # "pass") /\ p.review = (result # "pass")
      /\ p.observability = ObservabilityBlock(visual, visual.result)
      /\ p.diagnosis = visual.diagnostics
  BY <1>1 DEF BuildSelfMirrorMetricSummary
<1>3. ResultStatus(visual.result) = "pass" <=> visual.result = "visual-pass"
  BY StatusIsPass
<1>4. result = "pass" <=> visual.result = "visual-pass" /\ surface = "present"
  BY <1>3
<1>5. visual.result = "visual-pass" /\ surface = "present" => codes = {}
  BY DEF VisualFailureReasonCodes
<1>6. ~(visual.result = "visual-pass" /\ surface = "present") => codes # {}
  <2>1. CASE surface # "present"
    <3>1. "missing-surface-blocker" \in codes
      BY <2>1 DEF VisualFailureReasonCodes
    <3>. QED  BY <3>1
  <2>2. CASE visual.result # "visual-pass"
    <3>1. visual.result \in codes
      BY <2>2 DEF VisualFailureReasonCodes
    <3>. QED  BY <3>1
  <2>. QED  BY <2>1, <2>2
<1>7. result = "pass" => reason = "visual-pass"
  BY <1>4
<1>. HIDE DEF result, reason, codes, surface
<1>. QED  BY <1>1, <1>2, <1>4, <1>5, <1>6, <1>7 DEF ObservedIssue, surface
-----------------------------------------------------------------------------
(* The rows of one region *)

(* The window frame k falls into, and its row of a region. *)
WindowOf(interval, windows, k) == WindowIdAt((k - 1) * interval, windows)
RowOf(frames, interval, windows, k, id) ==
    MeasureRoi(frames[k][id], id, (k - 1) * interval, WindowIdAt((k - 1) * interval, windows))

RegionRows(rows, id, window) == {r \in rows : r.roi = id /\ r.window = window}

(* The rows of a region and a window are those of the frames that fall into it. *)
RowsAreOfFrames(rows, frames, interval, windows, id, window) ==
    \A r : r \in RegionRows(rows, id, window) <=>
              \E k \in 2 .. Len(frames) : /\ WindowOf(interval, windows, k) = window
                                         /\ r = RowOf(frames, interval, windows, k, id)

LEMMA RowsOfRegion ==
    ASSUME NEW frames, NEW interval, NEW windows, NEW rois, NEW roi \in rois, NEW window,
           NEW rows, rows = MeasuredRows(frames, interval, windows, rois)
    PROVE  RowsAreOfFrames(rows, frames, interval, windows, roi.id, window)
<1>. DEFINE Row(k, id) == RowOf(frames, interval, windows, k, id)
            At(k) == WindowOf(interval, windows, k)
<1>1. rows = {Row(k, some.id) : k \in 2 .. Len(frames), some \in rois}
  BY DEF MeasuredRows, RowOf
<1>2. ASSUME NEW k, NEW id PROVE Row(k, id).roi = id /\ Row(k, id).window = At(k)
  BY DEF RowOf, MeasureRoi, WindowOf
<1>. HIDE DEF Row, At
<1>3. ASSUME NEW r, r \in rows /\ r.roi = roi.id /\ r.window = window
      PROVE  \E k \in 2 .. Len(frames) : At(k) = window /\ r = Row(k, roi.id)
  <2>1. PICK k \in 2 .. Len(frames), some \in rois : r = Row(k, some.id)
    BY <1>1, <1>3
  <2>2. some.id = roi.id /\ At(k) = window
    BY <1>2, <1>3, <2>1
  <2>. QED  BY <2>1, <2>2
<1>4. ASSUME NEW r, NEW k \in 2 .. Len(frames), At(k) = window /\ r = Row(k, roi.id)
      PROVE  r \in rows /\ r.roi = roi.id /\ r.window = window
  <2>1. Row(k, roi.id) \in rows
    BY <1>1
  <2>. QED  BY <1>2, <1>4, <2>1
<1>. QED  BY <1>3, <1>4 DEF Row, At, RegionRows, RowsAreOfFrames

(* The peak of a window is the largest score in it, and zero when there is none above. *)
LEMMA PeakOfRegion ==
    ASSUME NEW frames, NEW interval, NEW windows, NEW rois, NEW roi \in rois, NEW window,
           PixelsAreNumbers(frames, rois), IsFiniteSet(rois),
           NEW rows, rows = MeasuredRows(frames, interval, windows, rois),
           NEW peak, peak = Peak(rows, roi.id, window)
    PROVE  /\ peak \in Nat
           /\ \A k \in 2 .. Len(frames) : WindowOf(interval, windows, k) = window =>
                 JudgmentMotionScore(RowOf(frames, interval, windows, k, roi.id)) <= peak
           /\ \/ peak = 0
              \/ \E k \in 2 .. Len(frames) :
                    /\ WindowOf(interval, windows, k) = window
                    /\ JudgmentMotionScore(RowOf(frames, interval, windows, k, roi.id)) = peak
<1>. DEFINE Row(k) == RowOf(frames, interval, windows, k, roi.id)
            there == {j \in 2 .. Len(frames) : WindowOf(interval, windows, j) = window}
            mine == RegionRows(rows, roi.id, window)
            score == [r \in mine |-> JudgmentMotionScore(r)]
            scores == {score[r] : r \in mine}
<1>1. RowsAreNumbers(rows)
  BY MeasuredAreNumbers
<1>2. \A r : r \in mine <=> \E k \in there : r = Row(k)
  <2>1. \A r : r \in mine <=> \E k \in 2 .. Len(frames) : WindowOf(interval, windows, k) = window /\ r = Row(k)
    <3>1. RowsAreOfFrames(rows, frames, interval, windows, roi.id, window)
      BY RowsOfRegion
    <3>. QED  BY <3>1 DEF RowsAreOfFrames
  <2>. HIDE DEF Row, mine
  <2>. QED  BY <2>1
<1>3. peak = PeakOf(scores)
  <2>1. {JudgmentMotionScore(r) : r \in mine} = scores
    OBVIOUS
  <2>. QED  BY <2>1, Zenon DEF Peak, RegionRows
<1>4. IsFiniteSet(mine)
  BY <1>1, FS_Subset DEF RowsAreNumbers, RegionRows
<1>5. \A r \in mine : JudgmentMotionScore(r) \in Nat
  BY <1>1 DEF RowsAreNumbers, JudgmentMotionScore, RegionRows
<1>6. \A r \in mine : score[r] = JudgmentMotionScore(r)
  OBVIOUS
<1>. HIDE DEF mine, score
<1>7. IsFiniteSet(scores)
  BY <1>4, ImageIsFinite
<1>8. scores \in SUBSET Nat
  BY <1>5, <1>6
<1>9. /\ peak \in Nat /\ peak \in {0} \cup scores
      /\ \A s \in scores : s <= peak
  BY <1>3, <1>7, <1>8, PeakIsNatural
<1>10. \A r \in mine : JudgmentMotionScore(r) <= peak
  BY <1>6, <1>9
<1>11. peak = 0 \/ \E r \in mine : JudgmentMotionScore(r) = peak
  BY <1>6, <1>9
<1>. HIDE DEF Row
<1>12. \A k \in there : JudgmentMotionScore(Row(k)) <= peak
  BY <1>2, <1>10
<1>13. peak = 0 \/ \E k \in there : JudgmentMotionScore(Row(k)) = peak
  BY <1>2, <1>11
<1>. QED  BY <1>9, <1>12, <1>13 DEF Row
(* A window's frames follow one another. *)
IsUnbroken(frames, interval, windows, window) ==
    \A i, j, k \in 2 .. Len(frames) :
        /\ WindowOf(interval, windows, i) = window /\ i <= k
        /\ WindowOf(interval, windows, j) = window /\ k <= j
        => WindowOf(interval, windows, k) = window

MovesInARow(frames, interval, windows, id, window, threshold, least) ==
    \E k \in 2 .. Len(frames) : \A j \in k .. k + least - 1 :
        /\ j \in 2 .. Len(frames) /\ WindowOf(interval, windows, j) = window
        /\ RowOf(frames, interval, windows, j, id).motion >= threshold

LEMMA DatesAreOrdered ==
    ASSUME NEW interval \in Nat, interval > 0, NEW i \in Int, NEW j \in Int
    PROVE  (i - 1) * interval <= (j - 1) * interval <=> i <= j
<1>1. ASSUME i <= j PROVE (i - 1) * interval <= (j - 1) * interval
  <2>1. \A a, b \in Int : a <= b => a * interval <= b * interval
    OBVIOUS
  <2>. QED  BY <1>1, <2>1
<1>2. ASSUME ~(i <= j) PROVE ~((i - 1) * interval <= (j - 1) * interval)
  <2>1. \A a, b \in Int : a < b => a * interval < b * interval
    OBVIOUS
  <2>. QED  BY <1>2, <2>1
<1>. QED  BY <1>1, <1>2

(* The longest run in a window is long enough when that many frames in a row are above   *)
(* the threshold: the code walks over the rows, the definition counts what lies between   *)
(* two of them.                                                                            *)
LEMMA LongestRun ==
    ASSUME NEW frames, NEW interval \in Nat, interval > 0, NEW windows,
           NEW rois, NEW roi \in rois, NEW window,
           PixelsAreNumbers(frames, rois), IsFiniteSet(rois),
           IsUnbroken(frames, interval, windows, window),
           NEW rows, rows = MeasuredRows(frames, interval, windows, rois),
           NEW threshold, NEW least \in Nat, least > 0
    PROVE  MaxConsecutiveAtOrAbove(rows, roi.id, window, threshold) >= least <=>
               MovesInARow(frames, interval, windows, roi.id, window, threshold, least)
<1>. DEFINE Row(k) == RowOf(frames, interval, windows, k, roi.id)
            measured == 2 .. Len(frames)
            In(k) == WindowOf(interval, windows, k) = window
            mine == {r \in rows : r.roi = roi.id /\ r.window = window}
            Between(a, b) == {r \in mine : a.t <= r.t /\ r.t <= b.t}
            runs == {p \in mine \X mine : \A r \in Between(p[1], p[2]) : r.motion >= threshold}
            size == [p \in runs |-> Cardinality(Between(p[1], p[2]))]
            sizes == {size[p] : p \in runs}
            longest == MaxConsecutiveAtOrAbove(rows, roi.id, window, threshold)
<1>1. longest = PeakOf(sizes)
  <2>1. {Cardinality(Between(p[1], p[2])) : p \in runs} = sizes
    OBVIOUS
  <2>. QED  BY <2>1, Zenon DEF MaxConsecutiveAtOrAbove
<1>2. /\ \A k \in measured : In(k) => Row(k) \in mine
      /\ \A r \in mine : \E k \in measured : In(k) /\ r = Row(k)
  <2>1. RowsAreOfFrames(rows, frames, interval, windows, roi.id, window)
    BY RowsOfRegion
  <2>. QED  BY <2>1 DEF RowsAreOfFrames, RegionRows
<1>3. ASSUME NEW i \in measured, NEW j \in measured
      PROVE  Row(i).t <= Row(j).t <=> i <= j
  <2>1. Row(i).t = (i - 1) * interval /\ Row(j).t = (j - 1) * interval
    BY DEF RowOf, MeasureRoi
  <2>2. i \in Int /\ j \in Int
    BY DEF PixelsAreNumbers
  <2>. HIDE DEF Row
  <2>. QED  BY <2>1, <2>2, DatesAreOrdered
<1>4. IsFiniteSet(mine)
  <2>1. RowsAreNumbers(rows)
    BY MeasuredAreNumbers
  <2>. QED  BY <2>1, FS_Subset DEF RowsAreNumbers
<1>5. \A i, j, k \in measured : In(i) /\ i <= k /\ In(j) /\ k <= j => In(k)
  BY DEF IsUnbroken
<1>. HIDE DEF Row, mine, In
<1>6. ASSUME NEW i \in measured, In(i), NEW j \in measured, In(j)
      PROVE  /\ Between(Row(i), Row(j)) = {Row(k) : k \in i .. j}
             /\ Cardinality(Between(Row(i), Row(j))) = IF i > j THEN 0 ELSE j - i + 1
  <2>1. i \in Int /\ j \in Int /\ i .. j \subseteq measured /\ \A k \in i .. j : i <= k /\ k <= j
    BY DEF PixelsAreNumbers
  <2>2. \A k \in i .. j : In(k)
    BY <1>5, <1>6, <2>1
  <2>3. Between(Row(i), Row(j)) = {Row(k) : k \in i .. j}
    <3>1. ASSUME NEW k \in i .. j PROVE Row(k) \in Between(Row(i), Row(j))
      BY <1>2, <1>3, <2>1, <2>2
    <3>2. ASSUME NEW r \in Between(Row(i), Row(j)) PROVE \E k \in i .. j : r = Row(k)
      <4>1. PICK k \in measured : In(k) /\ r = Row(k)
        BY <1>2
      <4>2. i <= k /\ k <= j
        BY <1>3, <4>1
      <4>. QED  BY <2>1, <4>1, <4>2
    <3>. QED  BY <3>1, <3>2
  <2>. DEFINE between == Between(Row(i), Row(j))
              f == [k \in i .. j |-> Row(k)]
  <2>4. f \in Bijection(i .. j, between)
    <3>1. ASSUME NEW k \in i .. j, NEW l \in i .. j, Row(k) = Row(l) PROVE k = l
      <4>1. k \in measured /\ l \in measured /\ k \in Int /\ l \in Int
        BY <2>1
      <4>2. k <= l /\ l <= k
        <5>1. Row(k).t <= Row(l).t <=> k <= l
          BY <1>3, <4>1
        <5>2. Row(l).t <= Row(k).t <=> l <= k
          BY <1>3, <4>1
        <5>3. Row(k).t <= Row(k).t <=> k <= k
          BY <1>3, <4>1
        <5>. QED  BY <3>1, <4>1, <5>1, <5>2, <5>3
      <4>. QED  BY <4>1, <4>2
    <3>2. f \in [i .. j -> between] /\ \A r \in between : \E k \in i .. j : f[k] = r
      BY <2>3
    <3>. HIDE DEF between
    <3>. QED  BY <3>1, <3>2 DEF Bijection, Injection, Surjection, IsInjective
  <2>5. ExistsBijection(i .. j, between)
    BY <2>4 DEF ExistsBijection
  <2>6. IsFiniteSet(i .. j) /\ Cardinality(i .. j) = IF i > j THEN 0 ELSE j - i + 1
    BY <2>1, FS_Interval
  <2>. HIDE DEF between, f
  <2>7. Cardinality(between) = IF i > j THEN 0 ELSE j - i + 1
    BY <2>5, <2>6, FS_Bijection
  <2>. QED  BY <2>3, <2>7 DEF between
<1>7. ASSUME NEW p \in runs
      PROVE  \E i, j \in measured : /\ In(i) /\ In(j) /\ p[1] = Row(i) /\ p[2] = Row(j)
                                    /\ size[p] = IF i > j THEN 0 ELSE j - i + 1
  <2>1. p[1] \in mine /\ p[2] \in mine /\ size[p] = Cardinality(Between(p[1], p[2]))
    OBVIOUS
  <2>2. PICK i \in measured : In(i) /\ p[1] = Row(i)
    BY <1>2, <2>1
  <2>3. PICK j \in measured : In(j) /\ p[2] = Row(j)
    BY <1>2, <2>1
  <2>4. Cardinality(Between(Row(i), Row(j))) = IF i > j THEN 0 ELSE j - i + 1
    BY <1>6, <2>2, <2>3
  <2>. HIDE DEF Between, size, measured
  <2>. QED  BY <2>1, <2>2, <2>3, <2>4
<1>8. /\ longest \in Nat /\ longest \in {0} \cup sizes
      /\ \A s \in sizes : s <= longest
  <2>1. IsFiniteSet(runs)
    <3>1. IsFiniteSet(mine \X mine) /\ runs \subseteq mine \X mine
      BY <1>4, FS_Product
    <3>. HIDE DEF runs
    <3>. QED  BY <3>1, FS_Subset
  <2>2. IsFiniteSet(sizes)
    <3>. HIDE DEF runs, size
    <3>. QED  BY <2>1, ImageIsFinite
  <2>3. sizes \in SUBSET Nat
    <3>1. \A i, j \in measured : (IF i > j THEN 0 ELSE j - i + 1) \in Nat
      BY DEF PixelsAreNumbers
    <3>. HIDE DEF runs, size, measured
    <3>2. ASSUME NEW p \in runs PROVE size[p] \in Nat
      BY <1>7, <3>1
    <3>. QED  BY <3>2
  <2>. HIDE DEF sizes, longest
  <2>. QED  BY <1>1, <2>2, <2>3, PeakIsNatural
<1>9. ASSUME longest >= least
      PROVE  \E k \in measured : \A j \in k .. k + least - 1 :
                 j \in measured /\ In(j) /\ Row(j).motion >= threshold
  <2>1. PICK p \in runs : size[p] = longest
    <3>. HIDE DEF runs, size, longest
    <3>. QED  BY <1>8, <1>9
  <2>2. PICK i \in measured, j \in measured :
           /\ In(i) /\ In(j) /\ p[1] = Row(i) /\ p[2] = Row(j)
           /\ size[p] = IF i > j THEN 0 ELSE j - i + 1
    BY <1>7
  <2>. HIDE DEF longest, size
  <2>3. i \in Int /\ j \in Int /\ i + least - 1 <= j
    BY <1>8, <1>9, <2>1, <2>2 DEF PixelsAreNumbers
  <2>4. Between(p[1], p[2]) = {Row(k) : k \in i .. j}
    BY <1>6, <2>2
  <2>5. \A r \in Between(p[1], p[2]) : r.motion >= threshold
    OBVIOUS
  <2>6. ASSUME NEW k \in i .. i + least - 1
        PROVE  k \in measured /\ In(k) /\ Row(k).motion >= threshold
    <3>1. k \in i .. j /\ i <= k /\ k <= j
      BY <2>3
    <3>2. k \in measured
      BY <2>2, <3>1 DEF PixelsAreNumbers
    <3>3. In(k)
      BY <1>5, <2>2, <3>1, <3>2
    <3>4. Row(k).motion >= threshold
      <4>. HIDE DEF Between
      <4>. QED  BY <2>4, <2>5, <3>1
    <3>. QED  BY <3>2, <3>3, <3>4
  <2>. QED  BY <2>6
<1>10. ASSUME NEW i \in measured,
              \A j \in i .. i + least - 1 : j \in measured /\ In(j) /\ Row(j).motion >= threshold
       PROVE  longest >= least
  <2>. DEFINE j == i + least - 1
              p == <<Row(i), Row(j)>>
  <2>1. i \in Int /\ j \in Int /\ i \in i .. j /\ j \in i .. j /\ i <= j /\ j - i + 1 = least
    BY DEF PixelsAreNumbers
  <2>2. In(i) /\ In(j) /\ j \in measured
    BY <1>10, <2>1
  <2>. HIDE DEF j
  <2>3. /\ Between(Row(i), Row(j)) = {Row(k) : k \in i .. j}
        /\ Cardinality(Between(Row(i), Row(j))) = least
    BY <1>6, <2>1, <2>2
  <2>4. Row(i) \in mine /\ Row(j) \in mine
    BY <1>2, <2>2
  <2>5. \A k \in i .. j : Row(k).motion >= threshold
    BY <1>10 DEF j
  <2>6. p \in mine \X mine /\ p[1] = Row(i) /\ p[2] = Row(j)
    BY <2>4
  <2>. HIDE DEF p
  <2>7. \A r \in Between(p[1], p[2]) : r.motion >= threshold
    <3>. HIDE DEF Between
    <3>. QED  BY <2>3, <2>5, <2>6
  <2>8. p \in runs
    BY <2>6, <2>7
  <2>9. size[p] = least
    <3>1. size[p] = Cardinality(Between(p[1], p[2]))
      BY <2>8
    <3>. HIDE DEF Between
    <3>. QED  BY <2>3, <2>6, <3>1
  <2>. HIDE DEF runs, size, longest
  <2>. QED  BY <1>8, <2>8, <2>9
<1>. HIDE DEF longest
<1>11. longest >= least <=>
         \E k \in measured : \A j \in k .. k + least - 1 :
             j \in measured /\ In(j) /\ Row(j).motion >= threshold
  BY <1>9, <1>10
<1>. QED  BY <1>11 DEF longest, Row, In, MovesInARow
-----------------------------------------------------------------------------
(* Windows, results and the diagnosis of a run *)

(* Windows one after another, each with a name of its own. *)
AreApart(windows) ==
    /\ DOMAIN windows \subseteq Nat
    /\ \A i \in DOMAIN windows : /\ windows[i].from \in Int /\ windows[i].until \in Int
                                 /\ windows[i].id # "outside"
    /\ \A i, j \in DOMAIN windows :
          /\ i < j => windows[i].until <= windows[j].from
          /\ windows[i].id = windows[j].id => i = j

LEMMA WindowAt ==
    ASSUME NEW windows, AreApart(windows), NEW t \in Int, NEW window, window # "outside"
    PROVE  WindowIdAt(t, windows) = window <=>
              \E i \in DOMAIN windows : /\ windows[i].id = window
                                        /\ windows[i].from <= t /\ t < windows[i].until
<1>. DEFINE open == {k \in DOMAIN windows : windows[k].from <= t /\ t < windows[k].until}
<1>1. open \in SUBSET Nat
  BY DEF AreApart
<1>2. WindowIdAt(t, windows) = IF open = {} THEN "outside" ELSE windows[Min(open)].id
  BY DEF WindowIdAt
<1>3. CASE open = {}
  BY <1>2, <1>3
<1>4. CASE open # {}
  <2>1. Min(open) \in open
    BY <1>1, <1>4, MinimumOfNaturals
  <2>. DEFINE first == Min(open)
  <2>. HIDE DEF first
  <2>2. first \in open /\ WindowIdAt(t, windows) = windows[first].id
    BY <1>2, <1>4, <2>1 DEF first
  <2>3. ASSUME NEW i \in open PROVE i = first
    <3>1. i \in DOMAIN windows /\ first \in DOMAIN windows /\ i \in Nat /\ first \in Nat
      BY <1>1, <2>2
    <3>2. ~(i < first) /\ ~(first < i)
      BY <2>2, <3>1 DEF AreApart
    <3>. QED  BY <3>1, <3>2
  <2>4. \A i \in DOMAIN windows : windows[i].id = windows[first].id => i = first
    BY <2>2 DEF AreApart
  <2>. QED  BY <2>2, <2>3, <2>4
<1>. QED  BY <1>3, <1>4

(* The result of a region. *)
ResultOf(rows, roi) ==
    [id |-> roi.id, kind |-> roi.kind, counts |-> roi.counts,
     expected |-> roi.expected, out |-> roi.out,
     pre |-> Peak(rows, roi.id, "pretrigger"), active |-> Peak(rows, roi.id, "active"),
     release |-> Peak(rows, roi.id, "release"), settle |-> Peak(rows, roi.id, "settle"),
     label |-> RoiLabel(roi, rows, Peak(rows, roi.id, "pretrigger"), Peak(rows, roi.id, "settle"))]

LEMMA ResultsOfRegions ==
    ASSUME NEW rows, NEW rois
    PROVE  SummarizeRois(rows, rois) = {ResultOf(rows, roi) : roi \in rois}
  BY DEF SummarizeRois, ResultOf

IdsOf(results) == {r.id : r \in results}

LEMMA DiagnosisOfRows ==
    ASSUME NEW rows, NEW results, NEW join, NEW timeline, NEW diag, NEW diagnosis,
           diagnosis = MotionDiagnostics(rows, results, join, timeline, diag)
    PROVE  /\ diagnosis.result = Correlated =>
                 EventRows(rows, IdsOf(ExpectedRois(results)), {"active"}) # {}
           /\ /\ ~TargetMismatch(diag)
              /\ \/ EventRows(rows, IdsOf(ExpectedRois(results)), {"active"}) # {}
                 \/ \E id \in IdsOf(ExpectedRois(results)) :
                       /\ Peak(rows, id, "active") >= ActiveMin
                       /\ Peak(rows, id, "active") - Peak(rows, id, "pretrigger") < IdleDelta
              => diagnosis.result \in MotionSeen
<1>. DEFINE expected == IdsOf(ExpectedRois(results))
            active == RoiIdsWithEventMotion(rows, expected, {"active"})
            idle == {id \in expected : /\ Peak(rows, id, "active") >= ActiveMin
                                       /\ Peak(rows, id, "active") - Peak(rows, id, "pretrigger") < IdleDelta}
            mismatch == TargetMismatch(diag)
<1>1. PICK late, guard, diagnostic, contaminated, missed, applied, started, page :
         diagnosis.result = DiagnosticResult(mismatch, active, late, guard, diagnostic, idle,
                                             contaminated, missed, applied, started, page)
  BY Zenon DEF MotionDiagnostics, IdsOf
<1>2. active # {} <=> EventRows(rows, expected, {"active"}) # {}
  BY DEF RoiIdsWithEventMotion
<1>3. idle # {} <=> \E id \in expected : /\ Peak(rows, id, "active") >= ActiveMin
                                         /\ Peak(rows, id, "active") - Peak(rows, id, "pretrigger") < IdleDelta
  OBVIOUS
<1>. DEFINE result == diagnosis.result
<1>. HIDE DEF active, idle, mismatch, expected, result
<1>4. /\ result = Correlated <=> ~mismatch /\ active # {}
      /\ ~mismatch /\ (active # {} \/ idle # {}) => result \in MotionSeen
  <2>1. result = DiagnosticResult(mismatch, active, late, guard, diagnostic, idle,
                                  contaminated, missed, applied, started, page)
    BY <1>1 DEF result
  <2>. QED  BY <2>1, DiagnosisSays
<1>. QED  BY <1>2, <1>3, <1>4 DEF result, mismatch, expected
=============================================================================
