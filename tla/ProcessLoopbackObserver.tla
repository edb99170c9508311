----------------------- MODULE ProcessLoopbackObserver -----------------------
(***************************************************************************)
(* One native process-loopback observation                                 *)
(* (runtime/audio-awareness/windows/ProcessLoopbackObserver.cs) and the    *)
(* class that invoke-process-loopback-observer.ps1 reports for it.         *)
(*                                                                         *)
(* Three parties interleave: the observer task (ObserveWithBackendAsync on *)
(* a WasapiProcessLoopbackBackend), the COM thread that calls              *)
(* ActivationHandler.ActivateCompleted, if it ever does, and the clock     *)
(* (the deadline, the window, the lease and its process).  The observer    *)
(* and the COM thread pass the activated audio client through the          *)
(* handler's _state and _completedInterface with interlocked operations,   *)
(* which are the steps here.                                               *)
(***************************************************************************)
EXTENDS Integers, FiniteSets

CONSTANT MaxPackets \* bound: packets read in one window

ASSUME MaxPacketsAssumption == MaxPackets \in Nat

VARIABLES
    state,    \* ActivationHandler._state
    slot,     \* _completedInterface holds the client
    waitTask, \* WaitTask: pending, or completed with TRUE or FALSE
    com,      \* where the COM thread is in ActivateCompleted
    client,   \* the activated audio client: unborn, alive or released
    releases, \* how often it was released
    running,  \* the client is capturing
    at,       \* where the observer task is
    backend,  \* the fields of WasapiProcessLoopbackBackend
    packets,  \* packetCount
    failure,  \* failureClass, "none" as long as nothing was caught
    cleanupFailed,
    outcome,  \* how ObserveWithBackendAsync ended
    deadline, \* the linked token is cancelled
    window,   \* the observation window is over
    lease     \* what RevalidateProcessLease would find now

handlerVars == <<state, slot, waitTask>>
clientVars == <<client, releases>>
clockVars == <<deadline, window, lease>>
taskVars == <<at, backend, packets, failure, cleanupFailed, outcome>>
vars == <<state, slot, waitTask, com, client, releases, running, at, backend, packets,
          failure, cleanupFailed, outcome, deadline, window, lease>>

LeaseStates == {"valid", "expired", "exited", "identity_mismatch"}
LeaseFailures == LeaseStates \ {"valid"}
PostActivation == [expired |-> "post_activation_expired", exited |-> "post_activation_exited",
                   identity_mismatch |-> "post_activation_identity_mismatch"]
PostActivationFailures == {PostActivation[l] : l \in LeaseFailures}
Failures == {"none", "observation_deadline_exceeded", "activation", "capture"}
                \cup LeaseFailures \cup PostActivationFailures
Outcomes == {"pending", "observed", "cleanup_failed", "lifecycle_invariant_failed"}
                \cup (Failures \ {"none"})

Backend == [audioClient: BOOLEAN, captureClient: BOOLEAN, started: BOOLEAN,
            stopAttempted: BOOLEAN, starts: Nat, stopAttempts: Nat, stops: Nat,
            bufferReleases: Nat, resourceReleases: Nat]

ObserverTypeOK ==
    /\ state \in {"Pending", "Available", "Claimed", "Abandoned", "Failed"}
    /\ slot \in BOOLEAN
    /\ waitTask \in {"pending", "TRUE", "FALSE"}
    /\ com \in {"unasked", "activating", "storing", "publishing", "retracting",
                "releasing", "failing", "signalTRUE", "signalFALSE", "done"}
    /\ client \in {"unborn", "alive", "released"}
    /\ releases \in Nat
    /\ running \in BOOLEAN
    /\ at \in {"validate", "activate", "await", "abandon", "empty", "discard", "abandoned",
               "claim", "initialize", "revalidate", "start", "capture", "stop",
               "dispose", "report", "done"}
    /\ backend \in Backend
    /\ packets \in 0..MaxPackets
    /\ failure \in Failures
    /\ cleanupFailed \in BOOLEAN
    /\ outcome \in Outcomes
    /\ deadline \in BOOLEAN /\ window \in BOOLEAN
    /\ lease \in LeaseStates

-----------------------------------------------------------------------------
(* The COM thread: ActivateCompleted and Complete *)

(* TrySetResult: the first result stays. *)
SignalWaitTask(result) == waitTask' = IF waitTask = "pending" THEN result ELSE waitTask

Release ==
    /\ client' = "released"
    /\ releases' = releases + 1
    /\ running' = FALSE

(* Windows ends the activation with a client or with an error, at any time. *)
ActivateCompleted ==
    /\ com = "activating"
    /\ \/ com' = "storing" /\ client' = "alive"
       \/ com' = "failing" /\ UNCHANGED client
    /\ UNCHANGED <<handlerVars, releases, running, taskVars, clockVars>>

CompleteFailed ==
    /\ com = "failing"
    /\ state' = IF state = "Pending" THEN "Failed" ELSE state
    /\ com' = "signalFALSE"
    /\ UNCHANGED <<slot, waitTask, clientVars, running, taskVars, clockVars>>

CompleteStore ==
    /\ com = "storing"
    /\ slot' = TRUE
    /\ com' = "publishing"
    /\ UNCHANGED <<state, waitTask, clientVars, running, taskVars, clockVars>>

(* Mutant: the state is set without looking whether the observer gave up. *)
CompletePublishBlindly ==
    /\ com = "publishing"
    /\ state' = "Available" /\ com' = "signalTRUE"
    /\ UNCHANGED <<slot, waitTask, clientVars, running, taskVars, clockVars>>

CompletePublish ==
    /\ com = "publishing"
    /\ IF state = "Pending"
       THEN state' = "Available" /\ com' = "signalTRUE"
       ELSE com' = "retracting" /\ UNCHANGED state
    /\ UNCHANGED <<slot, waitTask, clientVars, running, taskVars, clockVars>>

CompleteRetract ==
    /\ com = "retracting"
    /\ slot' = FALSE
    /\ com' = IF slot THEN "releasing" ELSE "signalFALSE"
    /\ UNCHANGED <<state, waitTask, clientVars, running, taskVars, clockVars>>

CompleteRelease ==
    /\ com = "releasing"
    /\ Release
    /\ com' = "signalFALSE"
    /\ UNCHANGED <<handlerVars, taskVars, clockVars>>

CompleteSignal ==
    /\ com \in {"signalTRUE", "signalFALSE"}
    /\ SignalWaitTask(IF com = "signalTRUE" THEN "TRUE" ELSE "FALSE")
    /\ com' = "done"
    /\ UNCHANGED <<state, slot, clientVars, running, taskVars, clockVars>>

ComNext == \/ ActivateCompleted \/ CompleteFailed \/ CompleteStore \/ CompletePublish
           \/ CompleteRetract \/ CompleteRelease \/ CompleteSignal

-----------------------------------------------------------------------------
(* The observer task *)

(* ActivateAsync releases the COM operation object on every way out. *)
LeaveActivation(b) == [b EXCEPT !.resourceReleases = @ + 1]

(* An exception is caught and leads to the finally block. *)
Caught(class) ==
    /\ failure' = class
    /\ at' = IF at = "capture" THEN "stop" ELSE "dispose"
    /\ backend' = IF at \in {"abandon", "abandoned", "claim", "initialize"}
                  THEN LeaveActivation(backend) ELSE backend
    /\ UNCHANGED <<packets, cleanupFailed, outcome>>

Goto(place) == at' = place /\ UNCHANGED <<backend, packets, failure, cleanupFailed, outcome>>

Validate ==
    /\ at = "validate"
    /\ IF lease = "valid" THEN Goto("activate") ELSE Caught(lease)
    /\ UNCHANGED <<handlerVars, com, clientVars, running, clockVars>>

Activate ==
    /\ at = "activate"
    /\ \/ com' = "activating" /\ Goto("await")
       \/ Caught("activation") /\ UNCHANGED com
    /\ UNCHANGED <<handlerVars, clientVars, running, clockVars>>

(* Mutant: the deadline does not end the wait. *)
AwaitActivationOnly ==
    /\ at = "await"
    /\ waitTask # "pending" /\ Goto("claim")
    /\ UNCHANGED <<handlerVars, com, clientVars, running, clockVars>>

(* Task.WhenAny: whichever of the two ended first. *)
AwaitActivation ==
    /\ at = "await"
    /\ \/ waitTask # "pending" /\ Goto("claim")
       \/ deadline /\ Goto("abandon")
    /\ UNCHANGED <<handlerVars, com, clientVars, running, clockVars>>

(* Abandon: its loop ends with the compare-and-exchange that succeeds. *)
Abandon ==
    /\ at = "abandon"
    /\ state' = IF state \in {"Pending", "Available"} THEN "Abandoned" ELSE state
    /\ CASE state = "Pending" -> Goto("abandoned")
         [] state = "Available" -> Goto("empty")
         [] OTHER -> Caught("observation_deadline_exceeded")
    /\ UNCHANGED <<slot, waitTask, com, clientVars, running, clockVars>>

AbandonEmpty ==
    /\ at = "empty"
    /\ slot' = FALSE
    /\ Goto(IF slot THEN "discard" ELSE "abandoned")
    /\ UNCHANGED <<state, waitTask, com, clientVars, running, clockVars>>

(* Mutant: the interface is taken out of the slot and forgotten. *)
AbandonDiscardNothing ==
    /\ at = "discard"
    /\ Goto("abandoned")
    /\ UNCHANGED <<handlerVars, com, clientVars, running, clockVars>>

AbandonDiscard ==
    /\ at = "discard"
    /\ Release
    /\ Goto("abandoned")
    /\ UNCHANGED <<handlerVars, com, clockVars>>

AbandonSignal ==
    /\ at = "abandoned"
    /\ SignalWaitTask("FALSE")
    /\ Caught("observation_deadline_exceeded")
    /\ UNCHANGED <<state, slot, com, clientVars, running, clockVars>>

(* What was activated need not be an audio client: then it is released at once. *)
ClaimClient ==
    /\ at = "claim"
    /\ \/ /\ state = "Available" /\ state' = "Claimed" /\ slot' = FALSE
          /\ \/ /\ backend' = [backend EXCEPT !.audioClient = TRUE]
                /\ at' = "initialize"
                /\ UNCHANGED <<packets, failure, cleanupFailed, outcome, clientVars, running>>
             \/ Release /\ Caught("activation")
       \/ state # "Available" /\ Caught("activation")
          /\ UNCHANGED <<state, slot, clientVars, running>>
    /\ UNCHANGED <<waitTask, com, clockVars>>

InitializeCaptureClient ==
    /\ at = "initialize"
    /\ \/ /\ backend' = LeaveActivation([backend EXCEPT !.captureClient = TRUE])
          /\ at' = "revalidate"
          /\ UNCHANGED <<packets, failure, cleanupFailed, outcome>>
       \/ Caught("activation")
    /\ UNCHANGED <<handlerVars, com, clientVars, running, clockVars>>

RevalidatePostActivation ==
    /\ at = "revalidate"
    /\ IF lease = "valid" THEN Goto("start") ELSE Caught(PostActivation[lease])
    /\ UNCHANGED <<handlerVars, com, clientVars, running, clockVars>>

Start ==
    /\ at = "start"
    /\ \/ /\ running' = TRUE
          /\ backend' = [backend EXCEPT !.started = TRUE, !.starts = @ + 1]
          /\ at' = "capture"
          /\ UNCHANGED <<packets, failure, cleanupFailed, outcome>>
       \/ Caught("capture") /\ UNCHANGED running
    /\ UNCHANGED <<handlerVars, com, clientVars, clockVars>>

(* The read loop ends with its window or with the token. *)
EndCapture ==
    /\ at = "capture"
    /\ \/ window /\ Goto("stop")
       \/ deadline /\ Caught("observation_deadline_exceeded")
    /\ UNCHANGED <<handlerVars, com, clientVars, running, clockVars>>

(* ReadPacket and the checks of the loop.  A packet that was read has been
   released; one whose query, acquisition or release failed is not counted. *)
ReadPacket ==
    /\ at = "capture" /\ ~window /\ ~deadline
    /\ \/ Caught("capture")
       \/ /\ packets < MaxPackets
          /\ backend' = [backend EXCEPT !.bufferReleases = @ + 1]
          /\ \/ packets' = packets + 1 /\ UNCHANGED <<at, failure>>
             \/ /\ packets' \in {packets, packets + 1}
                /\ failure' = "capture" /\ at' = "stop"
          /\ UNCHANGED <<cleanupFailed, outcome>>
    /\ UNCHANGED <<handlerVars, com, clientVars, running, clockVars>>

(* The finally block: Stop, once the local `started` is set. *)
StopCapture ==
    /\ at = "stop"
    /\ \/ /\ backend' = [backend EXCEPT !.stopAttempted = TRUE, !.stopAttempts = @ + 1,
                                       !.started = FALSE, !.stops = @ + 1]
          /\ running' = FALSE
          /\ UNCHANGED cleanupFailed
       \/ /\ backend' = [backend EXCEPT !.stopAttempted = TRUE, !.stopAttempts = @ + 1]
          /\ cleanupFailed' = TRUE
          /\ UNCHANGED running
    /\ at' = "dispose"
    /\ UNCHANGED <<packets, failure, outcome>>
    /\ UNCHANGED <<handlerVars, com, clientVars, clockVars>>

(* Mutant: a backend that did not start has nothing to release. *)
DisposeStarted ==
    /\ at = "dispose"
    /\ IF backend.starts > 0 THEN Release ELSE UNCHANGED <<clientVars, running>>
    /\ backend' = [backend EXCEPT !.audioClient = FALSE, !.captureClient = FALSE,
                                  !.started = FALSE]
    /\ at' = "report"
    /\ UNCHANGED <<packets, failure, cleanupFailed, outcome>>
    /\ UNCHANGED <<handlerVars, com, clockVars>>

(* Dispose releases what the backend has; its own Stop never runs, as the
   finally block has stopped a backend that was started, and it throws nothing
   that the finally block would have to catch. *)
Dispose ==
    /\ at = "dispose"
    /\ IF backend.audioClient THEN Release ELSE UNCHANGED <<clientVars, running>>
    /\ backend' = [backend EXCEPT
            !.audioClient = FALSE, !.captureClient = FALSE, !.started = FALSE,
            !.resourceReleases = @ + (IF backend.audioClient THEN 1 ELSE 0)
                                   + (IF backend.captureClient THEN 1 ELSE 0)]
    /\ at' = "report"
    /\ UNCHANGED <<packets, failure, cleanupFailed, outcome>>
    /\ UNCHANGED <<handlerVars, com, clockVars>>

LifecycleComplete ==
    /\ backend.starts = 1 /\ backend.stopAttempts = 1 /\ backend.stops = 1
    /\ backend.bufferReleases = packets
    /\ backend.resourceReleases >= 1

(* Mutant: the failure class is the outcome. *)
ReportFailure ==
    /\ at = "report"
    /\ outcome' = failure
    /\ at' = "done"
    /\ UNCHANGED <<backend, packets, failure, cleanupFailed>>
    /\ UNCHANGED <<handlerVars, com, clientVars, running, clockVars>>

Report ==
    /\ at = "report"
    /\ outcome' = CASE cleanupFailed -> "cleanup_failed"
                    [] ~cleanupFailed /\ failure = "none" ->
                           IF LifecycleComplete THEN "observed" ELSE "lifecycle_invariant_failed"
                    [] OTHER -> failure
    /\ at' = "done"
    /\ UNCHANGED <<backend, packets, failure, cleanupFailed>>
    /\ UNCHANGED <<handlerVars, com, clientVars, running, clockVars>>

TaskStep == \/ Validate \/ Activate \/ AwaitActivation \/ Abandon \/ AbandonEmpty
            \/ AbandonDiscard \/ AbandonSignal \/ ClaimClient \/ InitializeCaptureClient
            \/ RevalidatePostActivation \/ Start \/ EndCapture \/ StopCapture \/ Dispose \/ Report

-----------------------------------------------------------------------------
(* The clock and the process that is observed *)

others == <<state, slot, waitTask, com, client, releases, running, taskVars>>

CancelAfter == ~deadline /\ deadline' = TRUE /\ UNCHANGED <<window, lease, others>>

WindowEnds ==
    at = "capture" /\ ~window /\ window' = TRUE /\ UNCHANGED <<deadline, lease, others>>

LeaseEnds ==
    /\ lease = "valid"
    /\ lease' \in LeaseFailures
    /\ UNCHANGED <<deadline, window, others>>

Init ==
    /\ state = "Pending" /\ slot = FALSE /\ waitTask = "pending"
    /\ com = "unasked" /\ client = "unborn" /\ releases = 0 /\ running = FALSE
    /\ at = "validate"
    /\ backend = [audioClient |-> FALSE, captureClient |-> FALSE, started |-> FALSE,
                  stopAttempted |-> FALSE, starts |-> 0, stopAttempts |-> 0, stops |-> 0,
                  bufferReleases |-> 0, resourceReleases |-> 0]
    /\ packets = 0 /\ failure = "none" /\ cleanupFailed = FALSE /\ outcome = "pending"
    /\ deadline = FALSE /\ window = FALSE /\ lease = "valid"

Next == ComNext \/ TaskStep \/ ReadPacket \/ CancelAfter \/ WindowEnds \/ LeaseEnds

Spec == Init /\ [][Next]_vars

(* The observer task and a callback that has begun are scheduled, and time
   passes.  Windows need neither call back nor deliver a packet. *)
FairSpec ==
    /\ Spec
    /\ WF_vars(TaskStep)
    /\ WF_vars(ComNext /\ com # "activating")
    /\ WF_vars(CancelAfter)
    /\ WF_vars(WindowEnds)

-----------------------------------------------------------------------------
(* Resolve-FailurePhase and the class of a returned observation *)
CleanupClass ==
    CASE outcome = "observed" \/ outcome \in PostActivationFailures
             -> "route_owned_cleanup_clear"
      [] outcome \in LeaseFailures -> "no_runtime_started"
      [] OTHER -> "cleanup_not_proven"

Custodians ==
    (IF com = "storing" \/ com = "releasing" THEN {"com thread"} ELSE {})
        \cup (IF slot THEN {"handler"} ELSE {})
        \cup (IF at = "discard" THEN {"abandoning task"} ELSE {})
        \cup (IF backend.audioClient THEN {"backend"} ELSE {})

(* Whatever the order of completion, abandonment and claim, a live client is
   always in exactly one hand, and it is released once, by that hand. *)
OneCustodian ==
    /\ Cardinality(Custodians) = IF client = "alive" THEN 1 ELSE 0
    /\ releases = IF client = "released" THEN 1 ELSE 0

(* A report that claims a clear cleanup, or that nothing was started, is true
   when it is made and stays true: no client is alive or on its way. *)
CleanReportIsTrue ==
    at = "done" /\ CleanupClass # "cleanup_not_proven" =>
        /\ client # "alive" /\ ~running
        /\ com \in {"unasked", "done"}
        /\ ~backend.audioClient /\ ~backend.captureClient

(* The observer's own check of its counters never fires: no interleaving of
   errors, deadline and callback ends without a failure and yet unbalanced. *)
LifecycleCheckNeverFires == outcome # "lifecycle_invariant_failed"

(* What the caller reads in the final report can be relied on. *)
ReportIsTrue == CleanReportIsTrue /\ LifecycleCheckNeverFires

(* Every observation ends, also when Windows never completes the activation. *)
ObservationEnds == <>(at = "done")

(* A client that comes after the observer gave up does not outlive it. *)
LateClientIsReleased == [](client = "alive" => <>(client = "released"))
=============================================================================
