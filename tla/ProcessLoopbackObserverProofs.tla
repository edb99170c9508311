-------------------- MODULE ProcessLoopbackObserverProofs --------------------
(* Types of the loopback observer, and the custody of its audio client, for
   windows with any number of packets. *)
EXTENDS ProcessLoopbackObserver, FiniteSetTheorems, TLAPS

(* The types of what the COM thread shares, of the observer task and of time. *)
HandlerType ==
    /\ state \in {"Pending", "Available", "Claimed", "Abandoned", "Failed"}
    /\ slot \in BOOLEAN
    /\ waitTask \in {"pending", "TRUE", "FALSE"}
    /\ com \in {"unasked", "activating", "storing", "publishing", "retracting",
                "releasing", "failing", "signalTRUE", "signalFALSE", "done"}
    /\ client \in {"unborn", "alive", "released"}
    /\ releases \in Nat
    /\ running \in BOOLEAN

Places == {"validate", "activate", "await", "abandon", "empty", "discard", "abandoned",
           "claim", "initialize", "revalidate", "start", "capture", "stop",
           "dispose", "report", "done"}

TaskType ==
    /\ at \in Places
    /\ backend \in Backend
    /\ packets \in 0..MaxPackets
    /\ failure \in Failures
    /\ cleanupFailed \in BOOLEAN
    /\ outcome \in Outcomes

ClockType == deadline \in BOOLEAN /\ window \in BOOLEAN /\ lease \in LeaseStates

LEMMA TypeParts == ObserverTypeOK <=> HandlerType /\ TaskType /\ ClockType
  BY DEF ObserverTypeOK, HandlerType, TaskType, ClockType, Places

LEMMA TypePartsPrimed == ObserverTypeOK' <=> HandlerType' /\ TaskType' /\ ClockType'
  BY DEF ObserverTypeOK, HandlerType, TaskType, ClockType, Places

(* What a step leaves alone keeps its types. *)
LEMMA TaskFrame == TaskType /\ UNCHANGED taskVars => TaskType'
  BY DEF TaskType, taskVars

LEMMA ClockFrame == ClockType /\ UNCHANGED clockVars => ClockType'
  BY DEF ClockType, clockVars

LEMMA HandlerFrame ==
    HandlerType /\ UNCHANGED <<handlerVars, com, clientVars, running>> => HandlerType'
  BY DEF HandlerType, handlerVars, clientVars

LEMMA ReleaseType ==
    ASSUME HandlerType, Release, UNCHANGED <<state, slot, waitTask>>,
           com' \in {com, "signalFALSE"}
    PROVE  HandlerType'
<1>1. releases' \in Nat
  BY DEF Release, HandlerType
<1>. QED  BY <1>1 DEF Release, HandlerType

(* Counting a call of the backend keeps its fields typed. *)
LEMMA CountedType ==
    ASSUME NEW b \in Backend
    PROVE  /\ b.starts + 1 \in Nat /\ b.stopAttempts + 1 \in Nat /\ b.stops + 1 \in Nat
           /\ b.bufferReleases + 1 \in Nat
  BY DEF Backend

LEMMA FailureTypes ==
    /\ {"observation_deadline_exceeded", "activation", "capture"} \subseteq Failures \ {"none"}
    /\ LeaseFailures \subseteq Failures \ {"none"}
    /\ \A l \in LeaseFailures : PostActivation[l] \in Failures \ {"none"}
<1>1. LeaseFailures = {"expired", "exited", "identity_mismatch"}
  BY DEF LeaseFailures, LeaseStates
<1>2. \A l \in LeaseFailures : /\ PostActivation[l] \in PostActivationFailures
                               /\ PostActivation[l] # "none"
  BY <1>1 DEF PostActivation, PostActivationFailures
<1>. QED  BY <1>1, <1>2 DEF Failures

(* An exception leaves the observer task well typed, and the backend with the
   client if it had it. *)
LEMMA CaughtType ==
    ASSUME TaskType, NEW class \in Failures \ {"none"}, Caught(class)
    PROVE  /\ TaskType'
           /\ at' \in {"stop", "dispose"}
           /\ backend'.audioClient = backend.audioClient
<1>1. LeaveActivation(backend) \in Backend
      /\ LeaveActivation(backend).audioClient = backend.audioClient
  BY DEF TaskType, Backend, LeaveActivation
<1>2. backend' \in Backend /\ backend'.audioClient = backend.audioClient
  BY <1>1 DEF Caught, TaskType
<1>3. at' \in {"stop", "dispose"} /\ failure' \in Failures
  BY DEF Caught
<1>4. UNCHANGED <<packets, cleanupFailed, outcome>>
  BY DEF Caught
<1>. QED  BY <1>2, <1>3, <1>4 DEF TaskType, Places

LEMMA GotoType ==
    ASSUME TaskType, NEW place \in Places, Goto(place)
    PROVE  TaskType' /\ at' = place /\ backend' = backend
  BY DEF TaskType, Goto

-----------------------------------------------------------------------------
LEMMA TypeInit == Init => ObserverTypeOK
<1>. SUFFICES ASSUME Init PROVE ObserverTypeOK
  OBVIOUS
<1>1. HandlerType
  BY DEF Init, HandlerType
<1>2. backend \in Backend
  BY DEF Init, Backend
<1>3. packets \in 0..MaxPackets
  BY MaxPacketsAssumption DEF Init
<1>4. failure \in Failures /\ outcome \in Outcomes /\ at \in Places /\ cleanupFailed \in BOOLEAN
  BY DEF Init, Failures, Outcomes, Places
<1>5. ClockType
  BY DEF Init, ClockType, LeaseStates
<1>. QED  BY <1>1, <1>2, <1>3, <1>4, <1>5, TypeParts DEF TaskType

(* The COM thread and the clock keep the types. *)
LEMMA TypeOfOthers ==
    ASSUME ObserverTypeOK, ComNext \/ CancelAfter \/ WindowEnds \/ LeaseEnds
    PROVE  ObserverTypeOK'
<1>. HandlerType /\ TaskType /\ ClockType
  BY TypeParts
<1>1. CASE ComNext
  <2>1. UNCHANGED taskVars /\ UNCHANGED clockVars
    BY <1>1 DEF ComNext, ActivateCompleted, CompleteFailed, CompleteStore, CompletePublish,
        CompleteRetract, CompleteRelease, CompleteSignal
  <2>2. HandlerType'
    <3>1. CASE ActivateCompleted
      BY <3>1 DEF ActivateCompleted, HandlerType, handlerVars
    <3>2. CASE CompleteFailed
      BY <3>2 DEF CompleteFailed, HandlerType, clientVars
    <3>3. CASE CompleteStore
      BY <3>3 DEF CompleteStore, HandlerType, clientVars
    <3>4. CASE CompletePublish
      BY <3>4 DEF CompletePublish, HandlerType, clientVars
    <3>5. CASE CompleteRetract
      BY <3>5 DEF CompleteRetract, HandlerType, clientVars
    <3>6. CASE CompleteRelease
      BY <3>6, ReleaseType DEF CompleteRelease, handlerVars
    <3>7. CASE CompleteSignal
      BY <3>7 DEF CompleteSignal, SignalWaitTask, HandlerType, clientVars
    <3>. QED  BY <1>1, <3>1, <3>2, <3>3, <3>4, <3>5, <3>6, <3>7 DEF ComNext
  <2>. QED  BY <2>1, <2>2, TaskFrame, ClockFrame, TypePartsPrimed
<1>2. CASE CancelAfter \/ WindowEnds \/ LeaseEnds
  <2>1. UNCHANGED taskVars /\ UNCHANGED <<handlerVars, com, clientVars, running>>
    BY <1>2 DEF CancelAfter, WindowEnds, LeaseEnds, others, handlerVars, clientVars
  <2>2. ClockType'
    BY <1>2 DEF CancelAfter, WindowEnds, LeaseEnds, ClockType, LeaseFailures
  <2>. QED  BY <2>1, <2>2, TaskFrame, HandlerFrame, TypePartsPrimed
<1>. QED  BY <1>1, <1>2

(* Up to the claim, the observer task either goes on or fails. *)
LEMMA TypeOfTaskBegin ==
    ASSUME ObserverTypeOK,
           \/ Validate \/ Activate \/ AwaitActivation \/ Abandon \/ AbandonEmpty
           \/ AbandonDiscard \/ AbandonSignal
    PROVE  ObserverTypeOK'
<1>. HandlerType /\ TaskType /\ ClockType
  BY TypeParts
<1>. {"activate", "await", "claim", "abandon", "abandoned", "empty", "discard"} \subseteq Places
  BY DEF Places
<1>1. UNCHANGED clockVars
  BY DEF Validate, Activate, AwaitActivation, Abandon, AbandonEmpty, AbandonDiscard, AbandonSignal
<1>2. TaskType' /\ HandlerType'
  <2>1. CASE Validate
    <3>1. lease # "valid" => lease \in Failures \ {"none"}
      BY FailureTypes DEF LeaseFailures, ClockType
    <3>2. TaskType'
      BY <2>1, <3>1, CaughtType, GotoType DEF Validate
    <3>. QED  BY <2>1, <3>2, HandlerFrame DEF Validate
  <2>2. CASE Activate
    <3>1. TaskType'
      BY <2>2, CaughtType, GotoType, FailureTypes DEF Activate
    <3>. QED  BY <2>2, <3>1 DEF Activate, HandlerType, handlerVars, clientVars
  <2>3. CASE AwaitActivation
    <3>1. TaskType'
      BY <2>3, GotoType DEF AwaitActivation
    <3>. QED  BY <2>3, <3>1, HandlerFrame DEF AwaitActivation
  <2>4. CASE Abandon
    <3>1. \/ Goto("abandoned") \/ Goto("empty") \/ Caught("observation_deadline_exceeded")
      BY <2>4 DEF Abandon
    <3>2. TaskType'
      BY <3>1, CaughtType, GotoType, FailureTypes
    <3>. QED  BY <2>4, <3>2 DEF Abandon, HandlerType, clientVars
  <2>5. CASE AbandonEmpty
    <3>1. \/ Goto("abandoned") \/ Goto("discard")
      BY <2>5 DEF AbandonEmpty
    <3>2. TaskType'
      BY <3>1, GotoType
    <3>. QED  BY <2>5, <3>2 DEF AbandonEmpty, HandlerType, clientVars
  <2>6. CASE AbandonDiscard
    <3>1. TaskType'
      BY <2>6, GotoType DEF AbandonDiscard
    <3>. QED  BY <2>6, <3>1, ReleaseType DEF AbandonDiscard, handlerVars
  <2>7. CASE AbandonSignal
    <3>1. TaskType'
      BY <2>7, CaughtType, FailureTypes DEF AbandonSignal
    <3>. QED  BY <2>7, <3>1 DEF AbandonSignal, SignalWaitTask, HandlerType, clientVars
  <2>. QED  BY <2>1, <2>2, <2>3, <2>4, <2>5, <2>6, <2>7
<1>. QED  BY <1>1, <1>2, ClockFrame, TypePartsPrimed

(* From the claim on. *)
LEMMA TypeOfTaskEnd ==
    ASSUME ObserverTypeOK,
           \/ ClaimClient \/ InitializeCaptureClient \/ RevalidatePostActivation \/ Start
           \/ EndCapture \/ ReadPacket \/ StopCapture \/ Dispose \/ Report
    PROVE  ObserverTypeOK'
<1>. HandlerType /\ TaskType /\ ClockType
  BY TypeParts
<1>. {"initialize", "revalidate", "start", "capture", "stop", "dispose", "report", "done"}
        \subseteq Places
  BY DEF Places
<1>1. UNCHANGED clockVars
  BY DEF ClaimClient, InitializeCaptureClient, RevalidatePostActivation, Start, EndCapture,
         ReadPacket, StopCapture, Dispose, Report
<1>2. TaskType' /\ HandlerType'
  <2>1. CASE ClaimClient
    <3>1. CASE Caught("activation")
      <4>1. TaskType'
        BY <3>1, CaughtType, FailureTypes
      <4>2. /\ state' \in {state, "Claimed"} /\ slot' \in {slot, FALSE}
            /\ UNCHANGED <<waitTask, com>>
            /\ UNCHANGED <<clientVars, running>> \/ Release
        BY <2>1, <3>1 DEF ClaimClient
      <4>3. CASE UNCHANGED <<clientVars, running>>
        BY <4>1, <4>2, <4>3 DEF HandlerType, clientVars
      <4>4. CASE Release
        <5>1. /\ client' \in {"unborn", "alive", "released"} /\ releases' \in Nat
              /\ running' \in BOOLEAN
          <6>1. client' = "released" /\ releases' = releases + 1 /\ running' = FALSE
            BY <4>4 DEF Release
          <6>2. releases \in Nat
            BY DEF HandlerType
          <6>3. releases' \in Nat
            BY <6>1, <6>2
          <6>. QED  BY <6>1, <6>3
        <5>2. /\ state' \in {"Pending", "Available", "Claimed", "Abandoned", "Failed"}
              /\ slot' \in BOOLEAN
          BY <4>2 DEF HandlerType
        <5>. QED  BY <4>1, <4>2, <5>1, <5>2 DEF HandlerType
      <4>. QED  BY <4>2, <4>3, <4>4
    <3>2. CASE ~Caught("activation")
      <4>1. /\ state' = "Claimed" /\ slot' = FALSE
            /\ backend' = [backend EXCEPT !.audioClient = TRUE]
            /\ at' = "initialize"
            /\ UNCHANGED <<packets, failure, cleanupFailed, outcome, clientVars, running>>
            /\ UNCHANGED <<waitTask, com>>
        BY <2>1, <3>2 DEF ClaimClient
      <4>2. backend' \in Backend
        BY <4>1 DEF TaskType, Backend
      <4>3. TaskType'
        BY <4>1, <4>2 DEF TaskType
      <4>. QED  BY <4>1, <4>3 DEF HandlerType, clientVars
    <3>. QED  BY <3>1, <3>2
  <2>2. CASE InitializeCaptureClient
    <3>1. CASE Caught("activation")
      BY <2>2, <3>1, CaughtType, FailureTypes, HandlerFrame DEF InitializeCaptureClient
    <3>2. CASE ~Caught("activation")
      <4>1. /\ backend' = LeaveActivation([backend EXCEPT !.captureClient = TRUE])
            /\ at' = "revalidate"
            /\ UNCHANGED <<packets, failure, cleanupFailed, outcome>>
        BY <2>2, <3>2 DEF InitializeCaptureClient
      <4>2. [backend EXCEPT !.captureClient = TRUE] \in Backend
        BY DEF TaskType, Backend
      <4>3. \A b \in Backend : LeaveActivation(b) \in Backend
        BY DEF LeaveActivation, Backend
      <4>4. TaskType'
        BY <4>1, <4>2, <4>3 DEF TaskType
      <4>. QED  BY <2>2, <4>4, HandlerFrame DEF InitializeCaptureClient
    <3>. QED  BY <3>1, <3>2
  <2>3. CASE RevalidatePostActivation
    <3>1. lease # "valid" => PostActivation[lease] \in Failures \ {"none"}
      BY FailureTypes DEF LeaseFailures, ClockType
    <3>2. TaskType'
      BY <2>3, <3>1, CaughtType, GotoType DEF RevalidatePostActivation
    <3>. QED  BY <2>3, <3>2, HandlerFrame DEF RevalidatePostActivation
  <2>4. CASE Start
    <3>1. CASE Caught("capture")
      <4>1. TaskType'
        BY <3>1, CaughtType, FailureTypes
      <4>2. running' \in BOOLEAN
        BY <2>4 DEF Start, HandlerType
      <4>. QED  BY <2>4, <4>1, <4>2 DEF Start, HandlerType, handlerVars, clientVars
    <3>2. CASE ~Caught("capture")
      <4>1. /\ backend' = [backend EXCEPT !.started = TRUE, !.starts = @ + 1]
            /\ at' = "capture" /\ running' = TRUE
            /\ UNCHANGED <<packets, failure, cleanupFailed, outcome>>
        BY <2>4, <3>2 DEF Start
      <4>2. backend' \in Backend
        <5>1. backend' = [backend EXCEPT !.started = TRUE, !.starts = backend.starts + 1]
          BY <4>1
        <5>. QED  BY <5>1, CountedType DEF TaskType, Backend
      <4>3. TaskType'
        BY <4>1, <4>2 DEF TaskType
      <4>. QED  BY <2>4, <4>1, <4>3 DEF Start, HandlerType, handlerVars, clientVars
    <3>. QED  BY <3>1, <3>2
  <2>5. CASE EndCapture
    <3>1. TaskType'
      BY <2>5, CaughtType, GotoType, FailureTypes DEF EndCapture
    <3>. QED  BY <2>5, <3>1, HandlerFrame DEF EndCapture
  <2>6. CASE ReadPacket
    <3>1. CASE Caught("capture")
      BY <2>6, <3>1, CaughtType, FailureTypes, HandlerFrame DEF ReadPacket
    <3>2. CASE ~Caught("capture")
      <4>1. /\ packets < MaxPackets /\ packets' \in {packets, packets + 1}
            /\ backend' = [backend EXCEPT !.bufferReleases = @ + 1]
            /\ at' \in {at, "stop"} /\ failure' \in {failure, "capture"}
            /\ UNCHANGED <<cleanupFailed, outcome>>
        BY <2>6, <3>2 DEF ReadPacket
      <4>2. packets' \in 0..MaxPackets
        BY <4>1, MaxPacketsAssumption DEF TaskType
      <4>3. backend' \in Backend
        <5>1. backend' = [backend EXCEPT !.bufferReleases = backend.bufferReleases + 1]
          BY <4>1
        <5>. QED  BY <5>1, CountedType DEF TaskType, Backend
      <4>4. failure' \in Failures
        BY <4>1, FailureTypes DEF TaskType
      <4>5. TaskType'
        BY <4>1, <4>2, <4>3, <4>4 DEF TaskType
      <4>. QED  BY <2>6, <4>5, HandlerFrame DEF ReadPacket
    <3>. QED  BY <3>1, <3>2
  <2>7. CASE StopCapture
    <3>1. backend' \in Backend
      <4>1. CASE backend' = [backend EXCEPT !.stopAttempted = TRUE, !.stopAttempts = @ + 1,
                                            !.started = FALSE, !.stops = @ + 1]
        <5>1. backend' = [backend EXCEPT
                    !.stopAttempted = TRUE, !.stopAttempts = backend.stopAttempts + 1,
                    !.started = FALSE, !.stops = backend.stops + 1]
          BY <4>1
        <5>. QED  BY <5>1, CountedType DEF TaskType, Backend
      <4>2. CASE backend' = [backend EXCEPT !.stopAttempted = TRUE, !.stopAttempts = @ + 1]
        BY <4>2, CountedType DEF TaskType, Backend
      <4>. QED  BY <2>7, <4>1, <4>2 DEF StopCapture
    <3>2. cleanupFailed' \in BOOLEAN
      BY <2>7 DEF StopCapture, TaskType
    <3>3. TaskType'
      BY <2>7, <3>1, <3>2 DEF StopCapture, TaskType
    <3>4. running' \in BOOLEAN
      BY <2>7 DEF StopCapture, HandlerType
    <3>. QED  BY <2>7, <3>3, <3>4 DEF StopCapture, HandlerType, handlerVars, clientVars
  <2>8. CASE Dispose
    <3>1. backend' \in Backend
      <4>1. PICK n \in Nat : backend' = [backend EXCEPT
                !.audioClient = FALSE, !.captureClient = FALSE, !.started = FALSE,
                !.resourceReleases = n]
        <5>1. /\ backend.resourceReleases \in Nat
              /\ (IF backend.audioClient THEN 1 ELSE 0) \in Nat
              /\ (IF backend.captureClient THEN 1 ELSE 0) \in Nat
          BY DEF TaskType, Backend
        <5>2. backend.resourceReleases + (IF backend.audioClient THEN 1 ELSE 0)
                 + (IF backend.captureClient THEN 1 ELSE 0) \in Nat
          BY <5>1
        <5>. QED  BY <2>8, <5>2 DEF Dispose
      <4>. QED  BY <4>1 DEF TaskType, Backend
    <3>2. TaskType'
      BY <2>8, <3>1 DEF Dispose, TaskType
    <3>3. client' \in {client, "released"} /\ releases' \in {releases, releases + 1}
          /\ running' \in BOOLEAN
      BY <2>8 DEF Dispose, Release, HandlerType, clientVars
    <3>. QED  BY <2>8, <3>2, <3>3 DEF Dispose, HandlerType, handlerVars
  <2>9. CASE Report
    <3>1. outcome' \in Outcomes
      BY <2>9 DEF Report, Outcomes, TaskType
    <3>2. TaskType'
      BY <2>9, <3>1 DEF Report, TaskType
    <3>. QED  BY <2>9, <3>2, HandlerFrame DEF Report
  <2>. QED  BY <2>1, <2>2, <2>3, <2>4, <2>5, <2>6, <2>7, <2>8, <2>9
<1>. QED  BY <1>1, <1>2, ClockFrame, TypePartsPrimed

LEMMA TypeStep == ObserverTypeOK /\ [Next]_vars => ObserverTypeOK'
<1>1. ASSUME ObserverTypeOK, UNCHANGED vars PROVE ObserverTypeOK'
  <2>1. UNCHANGED taskVars /\ UNCHANGED clockVars
    BY <1>1 DEF vars, taskVars, clockVars
  <2>2. UNCHANGED <<handlerVars, com, clientVars, running>>
    BY <1>1 DEF vars, handlerVars, clientVars
  <2>. QED  BY <1>1, <2>1, <2>2, TypeParts, TypePartsPrimed, TaskFrame, ClockFrame, HandlerFrame
<1>. QED  BY <1>1, TypeOfOthers, TypeOfTaskBegin, TypeOfTaskEnd DEF Next, TaskStep

(* Every variable of the observation keeps its type: in particular no outcome
   is missing and none is the absence of a failure. *)
THEOREM ObserverTypeCorrect == Spec => []ObserverTypeOK
  BY TypeInit, TypeStep, PTL DEF Spec

-----------------------------------------------------------------------------
(* Who holds the client, as conditions instead of a set. *)
ByComThread == com = "storing" \/ com = "releasing"
ByTask == at = "discard"
ByBackend == backend.audioClient

(* Exactly one of them holds a live client, and nobody any other. *)
OneHolds ==
    /\ client = "alive" <=> (ByComThread \/ slot \/ ByTask \/ ByBackend)
    /\ ByComThread => ~slot /\ ~ByTask /\ ~ByBackend
    /\ slot => ~ByTask /\ ~ByBackend
    /\ ByTask => ~ByBackend
    /\ releases = IF client = "released" THEN 1 ELSE 0

(* What the two threads know of each other from _state: it is what makes the
   one that takes the client the only one that can. *)
Handover ==
    /\ com \in {"unasked", "activating", "failing"} => client = "unborn"
    /\ at \in {"validate", "activate"} => com = "unasked"
    /\ state = "Available" => slot /\ com \in {"signalTRUE", "done"}
    /\ com = "publishing" /\ state = "Pending" => slot
    /\ com = "retracting" => state # "Pending"
    /\ at = "empty" => state = "Abandoned"

CustodyInv == OneHolds /\ Handover

LEMMA CustodyInit == Init => CustodyInv
  BY DEF Init, CustodyInv, OneHolds, Handover, ByComThread, ByTask, ByBackend

(* The conditions count the custodians. *)
LEMMA CustodyCounts == CustodyInv => OneCustodian
<1>. SUFFICES ASSUME CustodyInv PROVE Cardinality(Custodians) = IF client = "alive" THEN 1 ELSE 0
  BY DEF OneCustodian, CustodyInv, OneHolds
<1>1. CASE client = "alive"
  <2>1. \E c : Custodians = {c}
    BY <1>1 DEF CustodyInv, OneHolds, ByComThread, ByTask, ByBackend, Custodians
  <2>. QED  BY <1>1, <2>1, FS_Singleton
<1>2. CASE client # "alive"
  <2>1. Custodians = {}
    BY <1>2 DEF CustodyInv, OneHolds, ByComThread, ByTask, ByBackend, Custodians
  <2>. QED  BY <1>2, <2>1, FS_EmptySet
<1>. QED  BY <1>1, <1>2

(* A step of the task that neither takes nor gives the client. *)
LEMMA QuietTask ==
    ASSUME CustodyInv, UNCHANGED <<state, slot, com, client, releases>>,
           backend'.audioClient = backend.audioClient,
           at # "discard", at' \notin {"discard", "empty"},
           at' \in {"validate", "activate"} => com = "unasked"
    PROVE  CustodyInv'
  BY DEF CustodyInv, OneHolds, Handover, ByComThread, ByTask, ByBackend

LEMMA CustodyOfComThread ==
    ASSUME ObserverTypeOK, CustodyInv, ComNext
    PROVE  CustodyInv'
<1>1. UNCHANGED <<at, backend>>
  BY DEF ComNext, ActivateCompleted, CompleteFailed, CompleteStore, CompletePublish,
      CompleteRetract, CompleteRelease, CompleteSignal, taskVars
<1>2. OneHolds /\ Handover
  BY DEF CustodyInv
<1>3. CASE ActivateCompleted
  BY <1>1, <1>2, <1>3 DEF ActivateCompleted, CustodyInv, OneHolds, Handover, ByComThread, ByTask,
      ByBackend, handlerVars
<1>4. CASE CompleteFailed
  BY <1>1, <1>2, <1>4 DEF CompleteFailed, CustodyInv, OneHolds, Handover, ByComThread, ByTask,
      ByBackend, clientVars
<1>5. CASE CompleteStore
  BY <1>1, <1>2, <1>5 DEF CompleteStore, CustodyInv, OneHolds, Handover, ByComThread, ByTask,
      ByBackend, clientVars
<1>6. CASE CompletePublish
  BY <1>1, <1>2, <1>6 DEF CompletePublish, CustodyInv, OneHolds, Handover, ByComThread, ByTask,
      ByBackend, clientVars
<1>7. CASE CompleteRetract
  BY <1>1, <1>2, <1>7 DEF CompleteRetract, CustodyInv, OneHolds, Handover, ByComThread, ByTask,
      ByBackend, clientVars
<1>8. CASE CompleteRelease
  BY <1>1, <1>2, <1>8 DEF CompleteRelease, Release, CustodyInv, OneHolds, Handover, ByComThread,
      ByTask, ByBackend, handlerVars
<1>9. CASE CompleteSignal
  BY <1>1, <1>2, <1>9 DEF CompleteSignal, CustodyInv, OneHolds, Handover, ByComThread, ByTask,
      ByBackend, clientVars
<1>. QED  BY <1>3, <1>4, <1>5, <1>6, <1>7, <1>8, <1>9 DEF ComNext

(* The task on its way to the claim or out of the activation. *)
LEMMA CustodyOfTaskBegin ==
    ASSUME ObserverTypeOK, CustodyInv,
           \/ Validate \/ Activate \/ AwaitActivation \/ Abandon \/ AbandonEmpty
           \/ AbandonDiscard \/ AbandonSignal
    PROVE  CustodyInv'
<1>. HandlerType /\ TaskType /\ ClockType
  BY TypeParts
<1>. OneHolds /\ Handover
  BY DEF CustodyInv
<1>0. \A class : Caught(class) =>
          at' \in {"stop", "dispose"} /\ backend'.audioClient = backend.audioClient
  BY DEF Caught, LeaveActivation, TaskType, Backend
<1>1. CASE Validate
  <2>1. Goto("activate") \/ Caught(lease)
    BY <1>1 DEF Validate
  <2>2. at' \in {"activate", "stop", "dispose"} /\ backend'.audioClient = backend.audioClient
    BY <1>0, <2>1 DEF Goto
  <2>. QED  BY <1>1, <2>2, QuietTask DEF Validate, Handover, handlerVars, clientVars
<1>2. CASE Activate
  <2>1. CASE Caught("activation") /\ UNCHANGED com
    BY <1>0, <1>2, <2>1, QuietTask DEF Activate, handlerVars, clientVars
  <2>2. CASE com' = "activating" /\ Goto("await")
    BY <1>2, <2>2 DEF Activate, Goto, CustodyInv, OneHolds, Handover, ByComThread, ByTask,
        ByBackend, handlerVars, clientVars
  <2>. QED  BY <1>2, <2>1, <2>2 DEF Activate
<1>3. CASE AwaitActivation
  BY <1>3, QuietTask DEF AwaitActivation, Goto, handlerVars, clientVars
<1>4. CASE Abandon
  <2>1. CASE state = "Pending"
    BY <1>4, <2>1 DEF Abandon, Goto, CustodyInv, OneHolds, Handover, ByComThread, ByTask,
        ByBackend, clientVars
  <2>2. CASE state = "Available"
    BY <1>4, <2>2 DEF Abandon, Goto, CustodyInv, OneHolds, Handover, ByComThread, ByTask,
        ByBackend, clientVars
  <2>3. CASE state \notin {"Pending", "Available"}
    <3>1. Caught("observation_deadline_exceeded")
      BY <1>4, <2>3 DEF Abandon
    <3>. QED  BY <1>0, <1>4, <2>3, <3>1, QuietTask DEF Abandon, clientVars
  <2>. QED  BY <2>1, <2>2, <2>3
<1>5. CASE AbandonEmpty
  <2>1. UNCHANGED <<state, com, client, releases, backend>> /\ state = "Abandoned"
    BY <1>5 DEF AbandonEmpty, Goto, Handover, clientVars
  <2>2. CASE slot
    BY <1>5, <2>1, <2>2 DEF AbandonEmpty, Goto, CustodyInv, OneHolds, Handover, ByComThread,
        ByTask, ByBackend
  <2>3. CASE ~slot
    BY <1>5, <2>1, <2>3 DEF AbandonEmpty, Goto, CustodyInv, OneHolds, Handover, ByComThread,
        ByTask, ByBackend
  <2>. QED  BY <2>2, <2>3
<1>6. CASE AbandonDiscard
  BY <1>6 DEF AbandonDiscard, Release, Goto, CustodyInv, OneHolds, Handover, ByComThread, ByTask,
      ByBackend, handlerVars
<1>7. CASE AbandonSignal
  BY <1>0, <1>7, QuietTask DEF AbandonSignal, clientVars
<1>. QED  BY <1>1, <1>2, <1>3, <1>4, <1>5, <1>6, <1>7

(* The claim takes the client to the backend, and Dispose releases it there;
   nothing between them touches it. *)
LEMMA CustodyOfTaskEnd ==
    ASSUME ObserverTypeOK, CustodyInv,
           \/ ClaimClient \/ InitializeCaptureClient \/ RevalidatePostActivation \/ Start
           \/ EndCapture \/ ReadPacket \/ StopCapture \/ Dispose \/ Report
    PROVE  CustodyInv'
<1>. HandlerType /\ TaskType /\ ClockType
  BY TypeParts
<1>. OneHolds /\ Handover
  BY DEF CustodyInv
<1>0. \A class : Caught(class) =>
          at' \in {"stop", "dispose"} /\ backend'.audioClient = backend.audioClient
  BY DEF Caught, LeaveActivation, TaskType, Backend
<1>1. CASE ClaimClient
  <2>1. CASE Caught("activation") /\ UNCHANGED <<state, slot, clientVars>>
    BY <1>0, <1>1, <2>1, QuietTask DEF ClaimClient, clientVars
  <2>3. CASE state = "Available" /\ state' = "Claimed" /\ ~slot' /\ Release /\ Caught("activation")
    <3>1. slot /\ client = "alive" /\ ~ByComThread /\ ~ByBackend /\ releases = 0
          /\ com \in {"signalTRUE", "done"} /\ com' = com
      BY <1>1, <2>3 DEF OneHolds, Handover, ClaimClient
    <3>2. client' = "released" /\ releases' = 1 /\ ~backend'.audioClient
          /\ at' \in {"stop", "dispose"}
      BY <1>0, <2>3, <3>1 DEF Release, ByBackend
    <3>. QED  BY <2>3, <3>1, <3>2 DEF CustodyInv, OneHolds, Handover, ByComThread, ByTask, ByBackend
  <2>2. CASE /\ state = "Available" /\ state' = "Claimed" /\ slot' = FALSE
             /\ backend' = [backend EXCEPT !.audioClient = TRUE]
             /\ at' = "initialize" /\ UNCHANGED clientVars
    <3>1. /\ state = "Available" /\ state' = "Claimed" /\ slot' = FALSE
          /\ backend' = [backend EXCEPT !.audioClient = TRUE]
          /\ at = "claim" /\ at' = "initialize"
          /\ UNCHANGED <<com, client, releases>>
      BY <1>1, <2>2 DEF ClaimClient, clientVars
    <3>2. backend'.audioClient
      BY <3>1 DEF TaskType, Backend
    <3>3. slot /\ client = "alive" /\ ~ByComThread
      BY <3>1 DEF OneHolds, Handover
    <3>. QED  BY <3>1, <3>2, <3>3 DEF CustodyInv, OneHolds, Handover, ByComThread, ByTask, ByBackend
  <2>. QED  BY <1>1, <2>1, <2>2, <2>3 DEF ClaimClient, clientVars
<1>2. CASE InitializeCaptureClient \/ RevalidatePostActivation \/ Start \/ EndCapture
           \/ ReadPacket \/ StopCapture \/ Report
  <2>1. at' \in {"revalidate", "start", "capture", "stop", "dispose", "done"}
    BY <1>0, <1>2 DEF InitializeCaptureClient, RevalidatePostActivation, Start, EndCapture,
        ReadPacket, StopCapture, Report, Goto
  <2>2. UNCHANGED <<state, slot, com, client, releases>> /\ at # "discard"
    BY <1>2 DEF InitializeCaptureClient, RevalidatePostActivation, Start, EndCapture,
        ReadPacket, StopCapture, Report, handlerVars, clientVars
  <2>3. backend'.audioClient = backend.audioClient
    BY <1>0, <1>2 DEF InitializeCaptureClient, RevalidatePostActivation, Start, EndCapture,
        ReadPacket, StopCapture, Report, Goto, LeaveActivation, TaskType, Backend
  <2>. QED  BY <2>1, <2>2, <2>3, QuietTask
<1>3. CASE Dispose
  <2>1. ~backend'.audioClient /\ at = "dispose" /\ at' = "report"
        /\ UNCHANGED <<state, slot, com>>
    BY <1>3 DEF Dispose, TaskType, Backend, handlerVars
  <2>2. CASE backend.audioClient
    <3>1. client' = "released" /\ releases' = releases + 1
      BY <1>3, <2>2 DEF Dispose, Release
    <3>. QED  BY <2>1, <2>2, <3>1 DEF CustodyInv, OneHolds, Handover, ByComThread, ByTask, ByBackend
  <2>3. CASE ~backend.audioClient
    <3>1. UNCHANGED <<client, releases>>
      BY <1>3, <2>3 DEF Dispose, clientVars
    <3>. QED  BY <2>1, <2>3, <3>1 DEF CustodyInv, OneHolds, Handover, ByComThread, ByTask, ByBackend
  <2>. QED  BY <2>2, <2>3
<1>. QED  BY <1>1, <1>2, <1>3

LEMMA CustodyStep == ObserverTypeOK /\ CustodyInv /\ [Next]_vars => CustodyInv'
<1>1. ASSUME CustodyInv, UNCHANGED vars \/ CancelAfter \/ WindowEnds \/ LeaseEnds
      PROVE  CustodyInv'
  <2>1. UNCHANGED <<state, slot, com, client, releases, at, backend>>
    BY <1>1 DEF vars, CancelAfter, WindowEnds, LeaseEnds, others, taskVars
  <2>. QED  BY <1>1, <2>1 DEF CustodyInv, OneHolds, Handover, ByComThread, ByTask, ByBackend
<1>. QED  BY <1>1, CustodyOfComThread, CustodyOfTaskBegin, CustodyOfTaskEnd DEF Next, TaskStep

(* In every interleaving of the COM thread's callback with the deadline and
   the observer task, a live audio client is in exactly one hand, and it is
   released once: nothing leaks and nothing is released twice. *)
THEOREM ClientHasOneCustodian == Spec => []OneCustodian
<1>1. Init => ObserverTypeOK /\ CustodyInv
  BY TypeInit, CustodyInit
<1>2. ObserverTypeOK /\ CustodyInv /\ [Next]_vars => (ObserverTypeOK /\ CustodyInv)'
  BY TypeStep, CustodyStep
<1>3. ObserverTypeOK /\ CustodyInv => OneCustodian
  BY CustodyCounts
<1>. QED  BY <1>1, <1>2, <1>3, PTL DEF Spec
-----------------------------------------------------------------------------
(* Where the observer task has not yet started the client, and where it has
   left the try block. *)
Unstarted == {"validate", "activate", "await", "abandon", "empty", "discard", "abandoned",
              "claim", "initialize", "revalidate", "start"}
Owning == {"initialize", "revalidate", "start", "capture", "stop"}
Leaving == {"dispose", "report", "done"}

(* What the counters of the backend are at each place, as long as no failure
   was caught: this is what the check of Report reads. *)
CountsInv ==
    /\ at \in Unstarted => /\ failure = "none" /\ ~cleanupFailed /\ packets = 0
                           /\ backend.starts = 0 /\ backend.stopAttempts = 0
                           /\ backend.stops = 0 /\ backend.bufferReleases = 0
    /\ at = "capture" => failure = "none"
    /\ at \in {"capture", "stop"} => /\ backend.starts = 1 /\ backend.stopAttempts = 0
                                     /\ backend.stops = 0 /\ ~cleanupFailed
    /\ at \in {"capture", "stop"} \cup Leaving /\ failure = "none" =>
           backend.bufferReleases = packets
    /\ at \in Leaving /\ failure = "none" =>
           /\ backend.starts = 1 /\ backend.stopAttempts = 1
           /\ ~cleanupFailed => backend.stops = 1
    /\ at \in {"revalidate", "start", "capture", "stop"} => backend.resourceReleases >= 1
    /\ at \in Leaving /\ failure = "none" => backend.resourceReleases >= 1

(* What is known of the COM thread: the task goes on to the claim when the
   callback has ended, and each class of failure tells how far it came. *)
CallbackInv ==
    /\ failure = "none" /\ waitTask # "pending" => com = "done"
    /\ at \in {"claim", "capture", "stop"} \cup Owning => com = "done"
    /\ at \in Owning => state = "Claimed"
    /\ at \in Leaving /\ failure \in {"none"} \cup PostActivationFailures =>
           com = "done" /\ state = "Claimed"
    /\ failure \in LeaseFailures => com = "unasked"
    /\ state = "Claimed" => ~slot /\ com \in {"signalTRUE", "done"}

(* The client captures only in the hands of the backend. *)
RunningInv ==
    /\ running => backend.audioClient
    /\ at \in Owning => backend.audioClient
    /\ at \in {"report", "done"} => ~backend.audioClient /\ ~backend.captureClient

(* The outcome is the failure class, unless the cleanup failed or nothing did. *)
OutcomeInv ==
    /\ outcome # "lifecycle_invariant_failed"
    /\ at = "done" => \/ outcome = "observed" /\ failure = "none"
                      \/ outcome = "cleanup_failed"
                      \/ outcome = failure /\ failure # "none"

ReportInv == CountsInv /\ CallbackInv /\ RunningInv /\ OutcomeInv

LEMMA ReportInit == Init => ReportInv
<1>1. Init => CountsInv /\ RunningInv /\ OutcomeInv
  BY DEF Init, CountsInv, RunningInv, OutcomeInv, Unstarted, Owning, Leaving
<1>2. Init => CallbackInv
  BY DEF Init, CallbackInv, Owning, Leaving, LeaseFailures, LeaseStates
<1>. QED  BY <1>1, <1>2 DEF ReportInv

(* A failure that is caught ends the claims that hold without one. *)
LEMMA CountsOfCaught ==
    ASSUME TaskType, CountsInv, NEW class, class # "none", Caught(class)
    PROVE  CountsInv'
<1>1. backend' = backend \/ backend' = LeaveActivation(backend)
  BY DEF Caught
<1>2. /\ failure' # "none" /\ UNCHANGED <<packets, cleanupFailed>>
      /\ at' \in {"stop", "dispose"} /\ (at' = "stop" => at = "capture")
  BY DEF Caught
<1>3. at = "capture" => UNCHANGED backend
  BY DEF Caught
<1>. QED  BY <1>2, <1>3 DEF CountsInv, Unstarted, Leaving

LEMMA CountsOfGoto ==
    ASSUME CountsInv, NEW place \in Unstarted, Goto(place), at \in Unstarted,
           place = "start" => at \in {"revalidate", "start"},
           place # "revalidate"
    PROVE  CountsInv'
  BY DEF Goto, CountsInv, Unstarted, Leaving

LEMMA CountsStep == ObserverTypeOK /\ CountsInv /\ [Next]_vars => CountsInv'
<1>. SUFFICES ASSUME ObserverTypeOK, CountsInv, [Next]_vars PROVE CountsInv'
  OBVIOUS
<1>. TaskType /\ ClockType
  BY TypeParts
<1>0. \A l \in LeaseStates : l # "none" /\ (l # "valid" => PostActivation[l] # "none")
  <2>. QED  BY FailureTypes DEF LeaseFailures, LeaseStates
<1>1. CASE UNCHANGED taskVars
  BY <1>1 DEF taskVars, CountsInv
<1>2. CASE Validate
  <2>1. lease \in LeaseStates
    BY DEF ClockType
  <2>2. Goto("activate") \/ Caught(lease)
    BY <1>2 DEF Validate
  <2>3. at = "validate"
    BY <1>2 DEF Validate
  <2>. QED  BY <1>0, <2>1, <2>2, <2>3, CountsOfCaught, CountsOfGoto DEF Unstarted
<1>3. CASE Activate
  <2>1. at = "activate" /\ (Goto("await") \/ Caught("activation"))
    BY <1>3 DEF Activate
  <2>. QED  BY <2>1, CountsOfCaught, CountsOfGoto DEF Unstarted
<1>4. CASE AwaitActivation
  <2>1. at = "await" /\ (Goto("claim") \/ Goto("abandon"))
    BY <1>4 DEF AwaitActivation
  <2>. QED  BY <2>1, CountsOfGoto DEF Unstarted
<1>5. CASE Abandon
  <2>1. /\ at = "abandon"
        /\ Goto("abandoned") \/ Goto("empty") \/ Caught("observation_deadline_exceeded")
    BY <1>5 DEF Abandon
  <2>. QED  BY <2>1, CountsOfCaught, CountsOfGoto DEF Unstarted
<1>6. CASE AbandonEmpty
  <2>1. at = "empty" /\ (Goto("discard") \/ Goto("abandoned"))
    BY <1>6 DEF AbandonEmpty
  <2>. QED  BY <2>1, CountsOfGoto DEF Unstarted
<1>7. CASE AbandonDiscard
  <2>1. at = "discard" /\ Goto("abandoned")
    BY <1>7 DEF AbandonDiscard
  <2>. QED  BY <2>1, CountsOfGoto DEF Unstarted
<1>8. CASE AbandonSignal
  BY <1>8, CountsOfCaught DEF AbandonSignal
<1>9. CASE ClaimClient
  <2>1. CASE Caught("activation")
    BY <2>1, CountsOfCaught
  <2>2. CASE ~Caught("activation")
    <3>1. /\ at = "claim" /\ at' = "initialize"
          /\ backend' = [backend EXCEPT !.audioClient = TRUE]
          /\ UNCHANGED <<packets, failure, cleanupFailed>>
      BY <1>9, <2>2 DEF ClaimClient
    <3>. QED  BY <3>1 DEF CountsInv, Unstarted, Leaving, TaskType, Backend
  <2>. QED  BY <2>1, <2>2
<1>10. CASE InitializeCaptureClient
  <2>1. CASE Caught("activation")
    BY <2>1, CountsOfCaught
  <2>2. CASE ~Caught("activation")
    <3>1. /\ at = "initialize" /\ at' = "revalidate"
          /\ backend' = LeaveActivation([backend EXCEPT !.captureClient = TRUE])
          /\ UNCHANGED <<packets, failure, cleanupFailed>>
      BY <1>10, <2>2 DEF InitializeCaptureClient
    <3>2. /\ backend'.starts = backend.starts /\ backend'.stopAttempts = backend.stopAttempts
          /\ backend'.stops = backend.stops /\ backend'.bufferReleases = backend.bufferReleases
          /\ backend'.resourceReleases >= 1
      BY <3>1 DEF LeaveActivation, TaskType, Backend
    <3>. QED  BY <3>1, <3>2 DEF CountsInv, Unstarted, Leaving
  <2>. QED  BY <2>1, <2>2
<1>11. CASE RevalidatePostActivation
  <2>1. lease \in LeaseStates /\ at = "revalidate"
    BY <1>11 DEF ClockType, RevalidatePostActivation
  <2>2. Goto("start") \/ (lease # "valid" /\ Caught(PostActivation[lease]))
    BY <1>11 DEF RevalidatePostActivation
  <2>. QED  BY <1>0, <2>1, <2>2, CountsOfCaught, CountsOfGoto DEF Unstarted
<1>12. CASE Start
  <2>1. CASE Caught("capture")
    BY <2>1, CountsOfCaught
  <2>2. CASE ~Caught("capture")
    <3>1. /\ at = "start" /\ at' = "capture"
          /\ backend' = [backend EXCEPT !.started = TRUE, !.starts = @ + 1]
          /\ UNCHANGED <<packets, failure, cleanupFailed>>
      BY <1>12, <2>2 DEF Start
    <3>2. /\ backend'.starts = backend.starts + 1
          /\ backend'.stopAttempts = backend.stopAttempts
          /\ backend'.stops = backend.stops /\ backend'.bufferReleases = backend.bufferReleases
          /\ backend'.resourceReleases = backend.resourceReleases
      BY <3>1 DEF TaskType, Backend
    <3>. QED  BY <3>1, <3>2 DEF CountsInv, Unstarted, Leaving
  <2>. QED  BY <2>1, <2>2
<1>13. CASE EndCapture
  <2>1. CASE Caught("observation_deadline_exceeded")
    BY <2>1, CountsOfCaught
  <2>2. CASE Goto("stop")
    BY <1>13, <2>2 DEF EndCapture, Goto, CountsInv, Unstarted, Leaving
  <2>. QED  BY <1>13, <2>1, <2>2 DEF EndCapture
<1>14. CASE ReadPacket
  <2>1. CASE Caught("capture")
    BY <2>1, CountsOfCaught
  <2>2. CASE ~Caught("capture")
    <3>1. /\ at = "capture" /\ backend' = [backend EXCEPT !.bufferReleases = @ + 1]
          /\ UNCHANGED cleanupFailed
          /\ \/ packets' = packets + 1 /\ UNCHANGED <<at, failure>>
             \/ failure' = "capture" /\ at' = "stop"
      BY <1>14, <2>2 DEF ReadPacket
    <3>2. /\ backend'.starts = backend.starts /\ backend'.stopAttempts = backend.stopAttempts
          /\ backend'.stops = backend.stops
          /\ backend'.bufferReleases = backend.bufferReleases + 1
          /\ backend'.resourceReleases = backend.resourceReleases
      BY <3>1 DEF TaskType, Backend
    <3>. QED  BY <3>1, <3>2 DEF CountsInv, Unstarted, Leaving
  <2>. QED  BY <2>1, <2>2
<1>15. CASE StopCapture
  <2>1. at = "stop" /\ at' = "dispose" /\ UNCHANGED <<packets, failure>>
    BY <1>15 DEF StopCapture
  <2>2. /\ backend'.starts = backend.starts
        /\ backend'.stopAttempts = backend.stopAttempts + 1
        /\ backend'.stops = backend.stops + 1 \/ cleanupFailed'
        /\ backend'.bufferReleases = backend.bufferReleases
        /\ backend'.resourceReleases = backend.resourceReleases
    BY <1>15 DEF StopCapture, TaskType, Backend
  <2>. QED  BY <2>1, <2>2 DEF CountsInv, Unstarted, Leaving
<1>16. CASE Dispose
  <2>1. at = "dispose" /\ at' = "report" /\ UNCHANGED <<packets, failure, cleanupFailed>>
    BY <1>16 DEF Dispose
  <2>2. /\ backend'.starts = backend.starts /\ backend'.stopAttempts = backend.stopAttempts
        /\ backend'.stops = backend.stops /\ backend'.bufferReleases = backend.bufferReleases
    BY <1>16 DEF Dispose, TaskType, Backend
  <2>3. backend'.resourceReleases >= backend.resourceReleases
    <3>1. backend'.resourceReleases = backend.resourceReleases
              + (IF backend.audioClient THEN 1 ELSE 0) + (IF backend.captureClient THEN 1 ELSE 0)
      BY <1>16 DEF Dispose, TaskType, Backend
    <3>2. backend.resourceReleases \in Nat
      BY DEF TaskType, Backend
    <3>. QED  BY <3>1, <3>2
  <2>4. backend.resourceReleases \in Nat /\ backend'.resourceReleases \in Nat
    BY <1>16, TypeOfTaskEnd, TypePartsPrimed DEF TaskType, Backend
  <2>. QED  BY <2>1, <2>2, <2>3, <2>4 DEF CountsInv, Unstarted, Leaving
<1>17. CASE Report
  BY <1>17 DEF Report, CountsInv, Unstarted, Leaving
<1>18. CASE ComNext \/ CancelAfter \/ WindowEnds \/ LeaseEnds \/ UNCHANGED vars
  <2>1. UNCHANGED taskVars
    BY <1>18 DEF ComNext, ActivateCompleted, CompleteFailed, CompleteStore, CompletePublish,
        CompleteRetract, CompleteRelease, CompleteSignal, CancelAfter, WindowEnds, LeaseEnds,
        others, vars, taskVars
  <2>. QED  BY <1>1, <2>1
<1>. QED
  BY <1>2, <1>3, <1>4, <1>5, <1>6, <1>7, <1>8, <1>9, <1>10, <1>11, <1>12, <1>13, <1>14, <1>15,
     <1>16, <1>17, <1>18 DEF Next, TaskStep

LEMMA FailureClasses ==
    /\ LeaseFailures = {"expired", "exited", "identity_mismatch"}
    /\ PostActivationFailures = {"post_activation_expired", "post_activation_exited",
                                 "post_activation_identity_mismatch"}
    /\ \A l \in LeaseFailures : PostActivation[l] \in PostActivationFailures
<1>1. LeaseFailures = {"expired", "exited", "identity_mismatch"}
  BY DEF LeaseFailures, LeaseStates
<1>2. /\ PostActivation["expired"] = "post_activation_expired"
      /\ PostActivation["exited"] = "post_activation_exited"
      /\ PostActivation["identity_mismatch"] = "post_activation_identity_mismatch"
  BY DEF PostActivation
<1>. QED  BY <1>1, <1>2 DEF PostActivationFailures

(* The COM thread goes on only to its end, and leaves a claimed handler alone. *)
LEMMA CallbackOfComThread ==
    ASSUME ObserverTypeOK, CallbackInv, ComNext
    PROVE  CallbackInv'
<1>. UNCHANGED <<at, failure>> /\ com \notin {"unasked", "done"}
  BY DEF ComNext, ActivateCompleted, CompleteFailed, CompleteStore, CompletePublish,
      CompleteRetract, CompleteRelease, CompleteSignal, taskVars
<1>1. CASE ActivateCompleted
  BY <1>1 DEF ActivateCompleted, CallbackInv, handlerVars
<1>2. CASE CompleteFailed
  BY <1>2 DEF CompleteFailed, CallbackInv
<1>3. CASE CompleteStore
  BY <1>3 DEF CompleteStore, CallbackInv
<1>4. CASE CompletePublish
  BY <1>4 DEF CompletePublish, CallbackInv
<1>5. CASE CompleteRetract
  BY <1>5 DEF CompleteRetract, CallbackInv
<1>6. CASE CompleteRelease
  BY <1>6 DEF CompleteRelease, CallbackInv, handlerVars
<1>7. CASE CompleteSignal
  BY <1>7 DEF CompleteSignal, SignalWaitTask, CallbackInv
<1>. QED  BY <1>1, <1>2, <1>3, <1>4, <1>5, <1>6, <1>7 DEF ComNext

LEMMA CallbackStep ==
    ObserverTypeOK /\ CustodyInv /\ CountsInv /\ CallbackInv /\ [Next]_vars => CallbackInv'
<1>. SUFFICES ASSUME ObserverTypeOK, CustodyInv, CountsInv, CallbackInv, [Next]_vars
              PROVE  CallbackInv'
  OBVIOUS
<1>. TaskType /\ ClockType /\ Handover
  BY TypeParts DEF CustodyInv
<1>. /\ LeaseFailures = {"expired", "exited", "identity_mismatch"}
     /\ PostActivationFailures = {"post_activation_expired", "post_activation_exited",
                                  "post_activation_identity_mismatch"}
  BY FailureClasses
<1>1. CASE Validate
  <2>1. UNCHANGED <<state, slot, waitTask, com>> /\ at = "validate" /\ com = "unasked"
    BY <1>1 DEF Validate, handlerVars, Handover
  <2>2. CASE lease = "valid"
    BY <1>1, <2>1, <2>2 DEF Validate, Goto, CallbackInv, Owning, Leaving
  <2>3. CASE lease # "valid"
    <3>1. failure' = lease /\ lease \in LeaseFailures /\ at' = "dispose"
      BY <1>1, <2>3 DEF Validate, Caught, ClockType, LeaseFailures
    <3>. QED  BY <2>1, <3>1 DEF CallbackInv, Owning, Leaving
  <2>. QED  BY <2>2, <2>3
<1>2. CASE Activate
  <2>1. UNCHANGED <<state, slot, waitTask>> /\ at = "activate" /\ com = "unasked"
    BY <1>2 DEF Activate, handlerVars, Handover
  <2>2. CASE Caught("activation") /\ UNCHANGED com
    BY <2>1, <2>2 DEF Caught, CallbackInv, Owning, Leaving
  <2>3. CASE com' = "activating" /\ Goto("await")
    BY <2>1, <2>3 DEF Goto, CallbackInv, CountsInv, Unstarted, Owning, Leaving
  <2>. QED  BY <1>2, <2>2, <2>3 DEF Activate
<1>3. CASE AwaitActivation
  <2>1. UNCHANGED <<state, slot, waitTask, com>> /\ failure = "none"
    BY <1>3 DEF AwaitActivation, handlerVars, CountsInv, Unstarted
  <2>. QED  BY <1>3, <2>1 DEF AwaitActivation, Goto, CallbackInv, Owning, Leaving
<1>4. CASE Abandon
  <2>1. UNCHANGED <<slot, waitTask, com>> /\ at = "abandon" /\ failure = "none"
    BY <1>4 DEF Abandon, CountsInv, Unstarted
  <2>2. state' = "Claimed" => state = "Claimed"
    BY <1>4 DEF Abandon
  <2>3. \/ Goto("abandoned") \/ Goto("empty") \/ Caught("observation_deadline_exceeded")
    BY <1>4 DEF Abandon
  <2>. QED  BY <2>1, <2>2, <2>3 DEF Goto, Caught, CallbackInv, Owning, Leaving
<1>5. CASE AbandonEmpty
  BY <1>5 DEF AbandonEmpty, Goto, CallbackInv, Owning, Leaving
<1>6. CASE AbandonDiscard
  BY <1>6 DEF AbandonDiscard, Goto, CallbackInv, Owning, Leaving, handlerVars
<1>7. CASE AbandonSignal
  BY <1>7 DEF AbandonSignal, Caught, CallbackInv, Owning, Leaving
<1>8. CASE ClaimClient
  <2>1. at = "claim" /\ com = "done" /\ UNCHANGED <<waitTask, com>>
    BY <1>8 DEF ClaimClient, CallbackInv
  <2>2. CASE Caught("activation") /\ UNCHANGED <<state, slot>>
    BY <2>1, <2>2 DEF Caught, CallbackInv, Owning, Leaving
  <2>3. CASE state' = "Claimed" /\ slot' = FALSE /\ at' = "initialize" /\ UNCHANGED failure
    BY <2>1, <2>3 DEF CallbackInv, CountsInv, Unstarted, Owning, Leaving
  <2>4. CASE Caught("activation") /\ state' = "Claimed" /\ slot' = FALSE
    BY <2>1, <2>4 DEF Caught, CallbackInv, Owning, Leaving
  <2>. QED  BY <1>8, <2>2, <2>3, <2>4 DEF ClaimClient
<1>9. CASE InitializeCaptureClient \/ RevalidatePostActivation \/ Start \/ EndCapture
           \/ ReadPacket \/ StopCapture
  <2>1. /\ UNCHANGED <<state, slot, waitTask, com>>
        /\ com = "done" /\ state = "Claimed" /\ ~slot
    BY <1>9 DEF InitializeCaptureClient, RevalidatePostActivation, Start, EndCapture, ReadPacket,
        StopCapture, handlerVars, CallbackInv, Owning
  <2>2. failure' \notin LeaseFailures
    <3>1. failure \notin LeaseFailures
      BY <2>1 DEF CallbackInv
    <3>2. lease # "valid" => PostActivation[lease] \in PostActivationFailures
      BY FailureClasses DEF ClockType, LeaseFailures
    <3>. QED
      BY <1>9, <3>1, <3>2 DEF InitializeCaptureClient, RevalidatePostActivation, Start, EndCapture,
          ReadPacket, StopCapture, Goto, Caught
  <2>. QED  BY <2>1, <2>2 DEF CallbackInv
<1>10. CASE Dispose \/ Report
  BY <1>10 DEF Dispose, Report, handlerVars, CallbackInv, Owning, Leaving
<1>11. CASE CancelAfter \/ WindowEnds \/ LeaseEnds \/ UNCHANGED vars
  <2>1. UNCHANGED <<state, slot, waitTask, com, at, failure>>
    BY <1>11 DEF CancelAfter, WindowEnds, LeaseEnds, others, vars, taskVars
  <2>. QED  BY <2>1 DEF CallbackInv
<1>. QED
  BY <1>1, <1>2, <1>3, <1>4, <1>5, <1>6, <1>7, <1>8, <1>9, <1>10, <1>11, CallbackOfComThread
     DEF Next, TaskStep

(* A client that captures is in the hands of the backend until it is stopped
   or released. *)
LEMMA RunningStep == ObserverTypeOK /\ RunningInv /\ [Next]_vars => RunningInv'
<1>. SUFFICES ASSUME ObserverTypeOK, RunningInv, [Next]_vars PROVE RunningInv'
  OBVIOUS
<1>. TaskType /\ HandlerType
  BY TypeParts
<1>0. \A class : Caught(class) =>
          /\ at' \in {"stop", "dispose"} /\ (at' = "stop" => at = "capture")
          /\ backend'.audioClient = backend.audioClient
  BY DEF Caught, LeaveActivation, TaskType, Backend
<1>1. CASE Validate \/ Activate \/ AwaitActivation \/ Abandon \/ AbandonEmpty \/ AbandonSignal
  <2>1. UNCHANGED running
    BY <1>1 DEF Validate, Activate, AwaitActivation, Abandon, AbandonEmpty, AbandonSignal
  <2>2. \/ \E class : Caught(class)
        \/ \E place \in {"activate", "await", "claim", "abandon", "abandoned", "empty", "discard"} :
               Goto(place)
    BY <1>1 DEF Validate, Activate, AwaitActivation, Abandon, AbandonEmpty, AbandonSignal
  <2>3. at \notin {"capture"}
    BY <1>1 DEF Validate, Activate, AwaitActivation, Abandon, AbandonEmpty, AbandonSignal
  <2>. QED  BY <1>0, <2>1, <2>2, <2>3 DEF RunningInv, Owning, Goto
<1>2. CASE AbandonDiscard
  BY <1>2 DEF AbandonDiscard, Release, Goto, RunningInv, Owning
<1>3. CASE ClaimClient
  <2>1. CASE Caught("activation")
    <3>1. running' => running
      BY <1>3 DEF ClaimClient, Release
    <3>2. at = "claim" /\ at' = "dispose" /\ backend'.audioClient = backend.audioClient
      BY <1>0, <1>3, <2>1 DEF ClaimClient, Caught
    <3>. QED  BY <3>1, <3>2 DEF RunningInv, Owning
  <2>2. CASE at' = "initialize" /\ backend' = [backend EXCEPT !.audioClient = TRUE]
    BY <1>3, <2>2 DEF ClaimClient, RunningInv, Owning, TaskType, Backend
  <2>. QED  BY <1>3, <2>1, <2>2 DEF ClaimClient
<1>4. CASE InitializeCaptureClient \/ RevalidatePostActivation \/ Start \/ EndCapture
           \/ ReadPacket \/ StopCapture
  <2>1. backend'.audioClient /\ at' \notin {"report", "done"}
    <3>1. backend.audioClient /\ at \in Owning
      BY <1>4 DEF InitializeCaptureClient, RevalidatePostActivation, Start, EndCapture,
          ReadPacket, StopCapture, RunningInv, Owning
    <3>2. backend'.audioClient = backend.audioClient
      BY <1>0, <1>4 DEF InitializeCaptureClient, RevalidatePostActivation, Start, EndCapture,
          ReadPacket, StopCapture, Goto, LeaveActivation, TaskType, Backend
    <3>3. at' \notin {"report", "done"}
      BY <1>0, <1>4 DEF InitializeCaptureClient, RevalidatePostActivation, Start, EndCapture,
          ReadPacket, StopCapture, Goto
    <3>. QED  BY <3>1, <3>2, <3>3
  <2>. QED  BY <2>1 DEF RunningInv
<1>5. CASE Dispose
  <2>1. ~backend'.audioClient /\ ~backend'.captureClient /\ at' = "report"
    BY <1>5 DEF Dispose, TaskType, Backend
  <2>2. ~running'
    BY <1>5 DEF Dispose, Release, RunningInv
  <2>. QED  BY <2>1, <2>2 DEF RunningInv, Owning
<1>6. CASE Report
  BY <1>6 DEF Report, RunningInv, Owning
<1>7. CASE ComNext \/ CancelAfter \/ WindowEnds \/ LeaseEnds \/ UNCHANGED vars
  <2>1. UNCHANGED <<at, backend>> /\ (running' => running)
    BY <1>7 DEF ComNext, ActivateCompleted, CompleteFailed, CompleteStore, CompletePublish,
        CompleteRetract, CompleteRelease, CompleteSignal, Release, CancelAfter, WindowEnds,
        LeaseEnds, others, vars, taskVars
  <2>. QED  BY <2>1 DEF RunningInv
<1>. QED
  BY <1>1, <1>2, <1>3, <1>4, <1>5, <1>6, <1>7 DEF Next, TaskStep

LEMMA OutcomeStep ==
    ObserverTypeOK /\ CountsInv /\ OutcomeInv /\ [Next]_vars => OutcomeInv'
<1>. SUFFICES ASSUME ObserverTypeOK, CountsInv, OutcomeInv, [Next]_vars PROVE OutcomeInv'
  OBVIOUS
<1>. TaskType
  BY TypeParts
<1>1. CASE Report
  <2>1. failure = "none" /\ ~cleanupFailed => LifecycleComplete
    BY <1>1 DEF Report, CountsInv, Leaving, LifecycleComplete
  <2>2. failure # "lifecycle_invariant_failed"
    <3>1. failure \in Failures
      BY DEF TaskType
    <3>. QED  BY <3>1, FailureClasses DEF Failures
  <2>3. UNCHANGED failure
    BY <1>1 DEF Report
  <2>. QED  BY <1>1, <2>1, <2>2, <2>3 DEF Report, OutcomeInv, TaskType
<1>2. CASE UNCHANGED <<at, outcome, failure>>
  BY <1>2 DEF OutcomeInv
<1>3. CASE UNCHANGED outcome /\ at' # "done"
  BY <1>3 DEF OutcomeInv
<1>4. CASE ReadPacket \/ (TaskStep /\ ~Report)
  <2>1. UNCHANGED outcome
    BY <1>4 DEF TaskStep, Validate, Activate, AwaitActivation, Abandon, AbandonEmpty,
        AbandonDiscard, AbandonSignal, ClaimClient, InitializeCaptureClient,
        RevalidatePostActivation, Start, EndCapture, ReadPacket, StopCapture, Dispose, Goto, Caught
  <2>2. at' # "done"
    BY <1>4 DEF TaskStep, Validate, Activate, AwaitActivation, Abandon, AbandonEmpty,
        AbandonDiscard, AbandonSignal, ClaimClient, InitializeCaptureClient,
        RevalidatePostActivation, Start, EndCapture, ReadPacket, StopCapture, Dispose, Goto, Caught
  <2>. QED  BY <1>3, <2>1, <2>2
<1>5. CASE ComNext \/ CancelAfter \/ WindowEnds \/ LeaseEnds \/ UNCHANGED vars
  <2>1. UNCHANGED <<at, outcome, failure>>
    BY <1>5 DEF ComNext, ActivateCompleted, CompleteFailed, CompleteStore, CompletePublish,
        CompleteRetract, CompleteRelease, CompleteSignal, CancelAfter, WindowEnds, LeaseEnds,
        others, vars, taskVars
  <2>. QED  BY <1>2, <2>1
<1>. QED  BY <1>1, <1>4, <1>5 DEF Next

(* A class of cleanup other than "not proven" goes with outcomes from which the
   place of the client can be told. *)
LEMMA ReportFollows == ObserverTypeOK /\ CustodyInv /\ ReportInv => ReportIsTrue
<1>. SUFFICES ASSUME ObserverTypeOK, CustodyInv, ReportInv PROVE ReportIsTrue
  OBVIOUS
<1>. CountsInv /\ CallbackInv /\ RunningInv /\ OutcomeInv /\ OneHolds /\ Handover
  BY DEF ReportInv, CustodyInv
<1>1. LifecycleCheckNeverFires
  BY DEF OutcomeInv, LifecycleCheckNeverFires
<1>2. ASSUME at = "done", CleanupClass # "cleanup_not_proven"
      PROVE  /\ client # "alive" /\ ~running
             /\ com \in {"unasked", "done"}
             /\ ~backend.audioClient /\ ~backend.captureClient
  <2>1. ~backend.audioClient /\ ~backend.captureClient /\ ~running
    BY <1>2 DEF RunningInv
  <2>2. outcome = "observed" \/ outcome \in PostActivationFailures \/ outcome \in LeaseFailures
    BY <1>2 DEF CleanupClass
  <2>3. /\ "cleanup_failed" \notin PostActivationFailures \cup LeaseFailures
        /\ "none" \notin PostActivationFailures \cup LeaseFailures
        /\ "observed" \notin PostActivationFailures \cup LeaseFailures
    BY FailureClasses
  <2>4. failure \in {"none"} \cup PostActivationFailures \/ failure \in LeaseFailures
    <3>1. CASE outcome = "observed"
      <4>1. failure # "observed"
        BY FailureClasses DEF ObserverTypeOK, Failures
      <4>. QED  BY <1>2, <3>1, <4>1 DEF OutcomeInv
    <3>2. CASE outcome \in PostActivationFailures \/ outcome \in LeaseFailures
      <4>1. outcome # "observed" /\ outcome # "cleanup_failed"
        BY <2>3, <3>2
      <4>2. outcome = failure
        BY <1>2, <4>1 DEF OutcomeInv
      <4>. QED  BY <3>2, <4>2
    <3>. QED  BY <2>2, <3>1, <3>2
  <2>5. CASE failure \in LeaseFailures
    BY <1>2, <2>1, <2>5 DEF CallbackInv, Handover
  <2>6. CASE failure \in {"none"} \cup PostActivationFailures
    <3>1. com = "done" /\ ~slot
      BY <1>2, <2>6 DEF CallbackInv, Leaving
    <3>. QED  BY <1>2, <2>1, <3>1 DEF OneHolds, ByComThread, ByTask, ByBackend
  <2>. QED  BY <2>4, <2>5, <2>6
<1>. QED  BY <1>1, <1>2 DEF ReportIsTrue, CleanReportIsTrue

(* The final report can be relied on: an outcome that claims a clear cleanup or
   that nothing was started comes when no client is alive, running or on its
   way and stays true, however late the COM callback runs; and the observer's
   check of its own counters never fires. *)
THEOREM ReportCanBeReliedOn == Spec => []ReportIsTrue
<1>. DEFINE Ind == ObserverTypeOK /\ CustodyInv /\ ReportInv
<1>1. Init => Ind
  BY TypeInit, CustodyInit, ReportInit
<1>2. Ind /\ [Next]_vars => Ind'
  BY TypeStep, CustodyStep, CountsStep, CallbackStep, RunningStep, OutcomeStep DEF ReportInv
<1>3. Ind => ReportIsTrue
  BY ReportFollows
<1>. QED  BY <1>1, <1>2, <1>3, PTL DEF Spec
=============================================================================
