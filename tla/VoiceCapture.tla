----------------------------- MODULE VoiceCapture -----------------------------
(***************************************************************************)
(* One bounded voice capture: ObserveWithBackendAsync of                   *)
(* runtime/audio-awareness/windows/VoiceCaptureDspAec.cs on a Windows DSP  *)
(* backend and a NamedPipePcmSink, and the cleanup class that              *)
(* invoke-voice-capture-dsp-aec.ps1 reports for it.                        *)
(*                                                                         *)
(* The observer task interleaves with the timer thread that cancels the    *)
(* token and runs the callback registered with it (CloseStreamOnce), with  *)
(* the pipe server, which may stall or go away, and with the lease.  An    *)
(* asynchronous pipe operation begins (not under a cancelled token) and    *)
(* ends later; one that is broken off may leave a part on the wire.        *)
(***************************************************************************)
EXTENDS Integers, Sequences, FiniteSets

CONSTANT MaxPackets \* bound: packets read in one window

ASSUME MaxPacketsAssumption == MaxPackets \in Nat

VARIABLES
    at,           \* where the observer task is
    io,           \* a pipe operation has begun and not ended
    failure,      \* failureClass
    cleanupFailed,
    outcome,      \* how the observation ended
    packets,      \* packetCount
    sink,         \* NamedPipePcmSink's counters and flags
    backend,      \* WindowsVoiceCaptureDspBackend's counters and flags
    quality,      \* its QualityMetrics counts
    mode,         \* the lease's ProcessingModeClass
    callback,     \* the registration of CloseStreamOnce with the token
    deadline,     \* the linked token is cancelled
    window,       \* the observation window is over
    lease,        \* what RevalidatePipeLease would find now
    server,       \* the process at the other end of the pipe
    wire,         \* what was put on the pipe
    ackLease,     \* auxiliary: the lease when the server acknowledged
    untrusted     \* auxiliary: a packet on the wire had no trusted metrics

taskVars == <<at, io, failure, cleanupFailed, outcome, packets>>
worldVars == <<deadline, window, lease, server>>
auxVars == <<ackLease, untrusted>>
vars == <<taskVars, sink, backend, quality, mode, callback, worldVars, wire, auxVars>>

LeaseStates == {"valid", "lease_expired", "identity_mismatch"}
Failures == {"none", "bounds_invalid", "lease_expired", "identity_mismatch", "connect_timeout",
             "connect_failed", "handshake_failed", "write_failed", "activation_failed",
             "start_failed", "process_output_failed", "packet_invalid", "deadline_exceeded"}
Outcomes == (Failures \ {"none"}) \cup
    {"pending", "cleanup_failed", "quality_metrics_cleanup_failed",
     "quality_metrics_invariant_failed", "lifecycle_invariant_failed",
     "distinguished", "self_output_or_ambiguous"}

PipeOperations == {"connect", "nonce", "ack", "prefix", "body"}

VoiceTypeOK ==
    /\ at \in PipeOperations \cup
          {"validate", "identify", "revalidate", "activate", "start", "loop", "register",
           "flush", "unregister", "stop", "sink", "backend", "report", "done"}
    /\ io \in BOOLEAN
    /\ failure \in Failures
    /\ cleanupFailed \in BOOLEAN
    /\ outcome \in Outcomes
    /\ packets \in 0..MaxPackets
    /\ sink \in [stream: {"none", "open", "closed"}, streamClosed: BOOLEAN, closes: 0..1,
                 connects: 0..1, writes: 0..MaxPackets, releases: 0..1]
    /\ backend \in [object: BOOLEAN, streaming: BOOLEAN, started: BOOLEAN, activates: 0..1,
                    starts: 0..1, stopAttempts: 0..1, stops: 0..1, releases: 0..1]
    /\ quality \in [attempts: Nat, valid: Nat, trusted: Nat, ambiguous: Nat, unclean: Nat]
    /\ mode \in {"aec", "ns_agc"}
    /\ callback \in {"none", "registered", "fired", "closing", "ran"}
    /\ deadline \in BOOLEAN /\ window \in BOOLEAN
    /\ lease \in LeaseStates /\ ackLease \in LeaseStates \cup {"none"}
    /\ server \in [process: {"owner", "other"}, state: {"serving", "stalled", "gone"}]
    /\ wire \in Seq({"nonce", "prefix", "body", "torn"})
    /\ untrusted \in BOOLEAN

-----------------------------------------------------------------------------
(* The observer task *)

Goto(place) == at' = place /\ io' = FALSE /\ UNCHANGED <<failure, cleanupFailed, outcome, packets>>

(* An exception leaves the try block for the finally block; out of
   WriteAsync it passes the end of the registration first. *)
Throw(class) ==
    /\ failure' = class
    /\ at' = IF at \in {"register", "prefix", "body", "flush"} THEN "unregister"
             ELSE IF at = "loop" THEN "stop" ELSE "sink"
    /\ io' = FALSE
    /\ UNCHANGED <<cleanupFailed, outcome, packets>>

CloseStreamOnce(s) ==
    IF s.streamClosed THEN s
    ELSE [s EXCEPT !.streamClosed = TRUE,
                   !.stream = IF @ = "open" THEN "closed" ELSE @,
                   !.closes = IF s.stream = "open" THEN @ + 1 ELSE @]

Cut == wire' \in {wire, Append(wire, "torn")}

Validate ==
    /\ at = "validate"
    /\ \/ IF lease = "valid" THEN Goto("connect") ELSE Throw(lease)
       \/ Throw("bounds_invalid")
    /\ UNCHANGED <<sink, backend, quality, mode, callback, worldVars, wire, auxVars>>

(* A pipe operation begins; under a cancelled token it does not.  The stream
   object exists from the first attempt to connect on. *)
BeginOperation ==
    /\ at \in PipeOperations /\ ~io
    /\ ~deadline
    /\ io' = TRUE
    /\ sink' = IF at = "connect" THEN [sink EXCEPT !.stream = "open"] ELSE sink
    /\ UNCHANGED <<at, failure, cleanupFailed, outcome, packets>>
    /\ UNCHANGED <<backend, quality, mode, callback, worldVars, wire, auxVars>>

(* The token, which bounds the connection too, ends it. *)
ConnectEnds ==
    /\ at = "connect"
    /\ \/ io /\ server.state = "serving" /\ Goto("identify")
       \/ io /\ server.state = "gone" /\ Throw("connect_failed")
       \/ deadline /\ Throw("connect_timeout")
    /\ sink' = [sink EXCEPT !.stream = "open"]
    /\ UNCHANGED <<backend, quality, mode, callback, worldVars, wire, auxVars>>

(* GetNamedPipeServerProcessId and ValidateConnectedServer. *)
Identify ==
    /\ at = "identify"
    /\ \/ Throw("identity_mismatch")
       \/ IF lease # "valid" THEN Throw(lease)
          ELSE IF server.process # "owner" THEN Throw("identity_mismatch") ELSE Goto("nonce")
    /\ UNCHANGED <<sink, backend, quality, mode, callback, worldVars, wire, auxVars>>

SendNonce ==
    /\ at = "nonce"
    /\ \/ /\ io /\ server.state = "serving"
          /\ wire' = Append(wire, "nonce") /\ Goto("ack")
       \/ /\ (io /\ server.state = "gone") \/ deadline
          /\ IF io THEN Cut ELSE UNCHANGED wire
          /\ Throw("handshake_failed")
    /\ UNCHANGED <<sink, backend, quality, mode, callback, worldVars, auxVars>>

ReceiveAcknowledgement ==
    /\ at = "ack"
    /\ \/ /\ io /\ server.state = "serving"
          /\ Goto("revalidate")
          /\ sink' = [sink EXCEPT !.connects = @ + 1]
          /\ ackLease' = lease
       \/ /\ (io /\ server.state # "stalled") \/ deadline \* another byte, the end, or cancelled
          /\ Throw("handshake_failed")
          /\ UNCHANGED <<sink, ackLease>>
    /\ UNCHANGED <<backend, quality, mode, callback, worldVars, wire, untrusted>>

(* Mutant: only the connection checks the lease. *)
RevalidateNothing ==
    /\ at = "revalidate"
    /\ Goto("activate")
    /\ UNCHANGED <<sink, backend, quality, mode, callback, worldVars, wire, auxVars>>

Revalidate ==
    /\ at = "revalidate"
    /\ IF lease = "valid" THEN Goto("activate") ELSE Throw(lease)
    /\ UNCHANGED <<sink, backend, quality, mode, callback, worldVars, wire, auxVars>>

(* The COM object is there before its configuration, which may fail. *)
Activate ==
    /\ at = "activate"
    /\ \/ deadline /\ Throw("deadline_exceeded") /\ UNCHANGED backend
       \/ /\ ~deadline
          /\ Goto("start")
          /\ backend' = [backend EXCEPT !.object = TRUE, !.activates = @ + 1]
       \/ /\ ~deadline
          /\ Throw("activation_failed")
          /\ \E created \in BOOLEAN : backend' = [backend EXCEPT !.object = created]
    /\ UNCHANGED <<sink, quality, mode, callback, worldVars, wire, auxVars>>

Start ==
    /\ at = "start"
    /\ \/ Goto("loop") /\ backend' = [backend EXCEPT !.streaming = TRUE, !.started = TRUE,
                                                     !.starts = @ + 1]
       \/ Throw("start_failed") /\ UNCHANGED backend
    /\ UNCHANGED <<sink, quality, mode, callback, worldVars, wire, auxVars>>

EndWindow ==
    /\ at = "loop"
    /\ \/ window /\ Goto("stop")
       \/ deadline /\ Throw("deadline_exceeded")
    /\ UNCHANGED <<sink, backend, quality, mode, callback, worldVars, wire, auxVars>>

(* ObserveQualityMetrics: unreadable metrics and an uncleared value count as
   ambiguous. *)
Observation == {o \in [valid: BOOLEAN, trusted: BOOLEAN, clean: BOOLEAN] : o.trusted => o.valid}

(* Mutant: trust does not depend on the value having been cleared or read. *)
ObserveQualityMetricsOptimistic(o) ==
    [quality EXCEPT !.attempts = @ + 1, !.valid = @ + 1, !.trusted = @ + 1]

ObserveQualityMetrics(o) ==
    LET One(b) == IF b THEN 1 ELSE 0 IN
    [attempts |-> quality.attempts + 1,
     valid |-> quality.valid + One(o.valid),
     trusted |-> quality.trusted + One(o.trusted /\ o.clean),
     ambiguous |-> quality.ambiguous + One(~(o.trusted /\ o.clean)),
     unclean |-> quality.unclean + One(~o.clean)]

(* A packet is there: the metrics are observed whatever becomes of it. *)
ReadProcessedPcm ==
    /\ at = "loop" /\ ~deadline /\ ~window
    /\ packets < MaxPackets
    /\ \E o \in Observation :
          /\ quality' = IF mode = "aec" THEN ObserveQualityMetrics(o) ELSE quality
          /\ untrusted' = (untrusted \/ mode # "aec" \/ ~o.trusted)
    /\ Goto("register") \/ Throw("packet_invalid")
    /\ UNCHANGED <<sink, backend, mode, callback, worldVars, wire, ackLease>>

ProcessOutputFails ==
    /\ at = "loop" /\ ~deadline /\ ~window
    /\ Throw("process_output_failed")
    /\ UNCHANGED <<sink, backend, quality, mode, callback, worldVars, wire, auxVars>>

-----------------------------------------------------------------------------
(* NamedPipePcmSink.WriteAsync *)

(* Registered with a cancelled token, the callback runs at once; the loop may
   have noticed the token before. *)
RegisterCallback ==
    /\ at = "register"
    /\ \/ ~deadline /\ Goto("prefix") /\ callback' = "registered" /\ UNCHANGED sink
       \/ deadline /\ Throw("deadline_exceeded") /\ sink' \in {sink, CloseStreamOnce(sink)}
                   /\ UNCHANGED callback
       \/ server.state = "gone" /\ Throw("write_failed") /\ UNCHANGED <<sink, callback>>
    /\ UNCHANGED <<backend, quality, mode, worldVars, wire, auxVars>>

(* Mutant: the error of a write is taken for its end. *)
WriteFailsSilently ==
    /\ IF io THEN Cut ELSE UNCHANGED wire
    /\ Goto("unregister") /\ UNCHANGED sink

(* The catch blocks: under a cancelled token the stream is closed here. *)
WriteFails ==
    /\ IF io THEN Cut ELSE UNCHANGED wire
    /\ IF deadline
       THEN Throw("deadline_exceeded") /\ sink' = CloseStreamOnce(sink)
       ELSE Throw("write_failed") /\ UNCHANGED sink

(* Mutant: the body is written without the token. *)
WriteUncancellable ==
    /\ at \in {"prefix", "body"}
    /\ \/ /\ io /\ server.state = "serving" /\ sink.stream = "open"
          /\ wire' = Append(wire, at)
          /\ Goto(IF at = "prefix" THEN "body" ELSE "flush") /\ UNCHANGED sink
       \/ io /\ server.state = "gone" /\ WriteFails
    /\ UNCHANGED <<backend, quality, mode, callback, worldVars, auxVars>>

WriteEnds ==
    /\ at \in {"prefix", "body"}
    /\ \/ /\ io /\ server.state = "serving" /\ sink.stream = "open"
          /\ wire' = Append(wire, at)
          /\ Goto(IF at = "prefix" THEN "body" ELSE "flush") /\ UNCHANGED sink
       \/ ((io /\ server.state = "gone") \/ deadline) /\ WriteFails
    /\ UNCHANGED <<backend, quality, mode, callback, worldVars, auxVars>>

FlushEnds ==
    /\ at = "flush"
    /\ \/ /\ ~deadline /\ sink' = [sink EXCEPT !.writes = @ + 1]
          /\ Goto("unregister") /\ UNCHANGED wire
       \/ (deadline \/ server.state = "gone") /\ WriteFails
    /\ UNCHANGED <<backend, quality, mode, callback, worldVars, auxVars>>

(* Mutant: the registration is dropped while its callback runs. *)
UnregisterAtOnce ==
    /\ at = "unregister"
    /\ callback' = IF callback = "closing" THEN "closing" ELSE "none"
    /\ IF failure = "none" THEN packets' = packets + 1 /\ at' = "loop"
                           ELSE at' = "stop" /\ UNCHANGED packets
    /\ UNCHANGED <<io, failure, cleanupFailed, outcome>>
    /\ UNCHANGED <<sink, backend, quality, mode, worldVars, wire, auxVars>>

(* The end of the using block: it removes a callback that has not begun and
   waits for one that has. *)
Unregister ==
    /\ at = "unregister"
    /\ callback # "closing"
    /\ callback' = "none"
    /\ IF failure = "none" THEN packets' = packets + 1 /\ at' = "loop"
                           ELSE at' = "stop" /\ UNCHANGED packets
    /\ UNCHANGED <<io, failure, cleanupFailed, outcome>>
    /\ UNCHANGED <<sink, backend, quality, mode, worldVars, wire, auxVars>>

-----------------------------------------------------------------------------
(* The finally block and the checks *)

Stop ==
    /\ at = "stop"
    /\ \/ /\ backend' = [backend EXCEPT !.stopAttempts = @ + 1, !.started = FALSE,
                                        !.streaming = FALSE, !.stops = @ + 1]
          /\ UNCHANGED cleanupFailed
       \/ backend' = [backend EXCEPT !.stopAttempts = @ + 1] /\ cleanupFailed' = TRUE
    /\ at' = "sink"
    /\ UNCHANGED <<io, failure, outcome, packets>>
    /\ UNCHANGED <<sink, quality, mode, callback, worldVars, wire, auxVars>>

DisposeSink ==
    /\ at = "sink"
    /\ sink' = [CloseStreamOnce(sink) EXCEPT !.releases = @ + 1]
    /\ Goto("backend")
    /\ UNCHANGED <<backend, quality, mode, callback, worldVars, wire, auxVars>>

(* Releasing the COM object ends its streaming; its own Stop never runs, as
   whatever was started has been stopped or could not be. *)
DisposeBackend ==
    /\ at = "backend"
    /\ backend' = [backend EXCEPT !.object = FALSE, !.streaming = FALSE, !.releases = @ + 1]
    /\ Goto("report")
    /\ UNCHANGED <<sink, quality, mode, callback, worldVars, wire, auxVars>>

QualityMetricsCountsMatchWindow ==
    /\ quality.attempts = packets
    /\ quality.valid <= quality.attempts /\ quality.trusted <= quality.valid
    /\ quality.trusted + quality.ambiguous = quality.attempts
    /\ quality.unclean <= quality.attempts

ClassifyNearEndQualityMetricsWindow ==
    IF /\ QualityMetricsCountsMatchWindow /\ packets > 0
       /\ quality.trusted = quality.attempts /\ quality.unclean = 0
    THEN "distinguished" ELSE "self_output_or_ambiguous"

LifecycleMatches ==
    /\ backend.activates = 1 /\ backend.starts = 1
    /\ backend.stopAttempts = 1 /\ backend.stops = 1 /\ backend.releases = 1
    /\ sink.connects = 1 /\ sink.writes = packets /\ sink.releases = 1

(* Mutant: without a failure there is nothing to check. *)
ReportUnchecked ==
    /\ at = "report"
    /\ outcome' = failure
    /\ at' = "done"
    /\ UNCHANGED <<io, failure, cleanupFailed, packets>>
    /\ UNCHANGED <<sink, backend, quality, mode, callback, worldVars, wire, auxVars>>

Report ==
    /\ at = "report"
    /\ outcome' =
          CASE cleanupFailed -> "cleanup_failed"
            [] ~cleanupFailed /\ failure # "none" -> failure
            [] OTHER ->
                 IF quality.unclean # 0 THEN "quality_metrics_cleanup_failed"
                 ELSE IF mode = "aec" /\ ~QualityMetricsCountsMatchWindow
                 THEN "quality_metrics_invariant_failed"
                 ELSE IF ~LifecycleMatches THEN "lifecycle_invariant_failed"
                 ELSE ClassifyNearEndQualityMetricsWindow
    /\ at' = "done"
    /\ UNCHANGED <<io, failure, cleanupFailed, packets>>
    /\ UNCHANGED <<sink, backend, quality, mode, callback, worldVars, wire, auxVars>>

Observed == {"distinguished", "self_output_or_ambiguous"}

(* What the wrapper says of the clean-up. *)
CleanupClass ==
    IF outcome \in Observed THEN "route_owned_cleanup_clear"
    ELSE IF outcome = "lease_expired" THEN "no_runtime_started" ELSE "cleanup_not_proven"

-----------------------------------------------------------------------------
(* The timer thread, the server and the lease *)

others == <<taskVars, backend, quality, mode, wire, auxVars>>

CancelAfter ==
    /\ ~deadline /\ deadline' = TRUE
    /\ callback' = IF callback = "registered" THEN "fired" ELSE callback
    /\ UNCHANGED <<window, lease, server, sink, others>>

(* CloseStreamOnce on the timer thread: the exchange, then the close. *)
CallbackExchange ==
    /\ callback = "fired"
    /\ IF sink.streamClosed THEN callback' = "ran" /\ UNCHANGED sink
       ELSE callback' = "closing" /\ sink' = [sink EXCEPT !.streamClosed = TRUE]
    /\ UNCHANGED <<worldVars, others>>

CallbackClose ==
    /\ callback = "closing"
    /\ callback' = "ran"
    /\ sink' = [sink EXCEPT !.stream = "closed", !.closes = @ + 1]
    /\ UNCHANGED <<worldVars, others>>

WindowEnds ==
    /\ at \in {"loop", "register", "prefix", "body", "flush", "unregister"}
    /\ ~window /\ window' = TRUE
    /\ UNCHANGED <<deadline, lease, server, sink, callback, others>>

LeaseExpires ==
    /\ lease # "lease_expired" /\ lease' = "lease_expired"
    /\ UNCHANGED <<deadline, window, server, sink, callback, others>>

ServerChanges ==
    /\ server.state # "gone"
    /\ \E s \in {"serving", "stalled", "gone"} : server' = [server EXCEPT !.state = s]
    /\ UNCHANGED <<deadline, window, lease, sink, callback, others>>

ServerExits ==
    /\ server.state # "gone"
    /\ server' = [server EXCEPT !.state = "gone"]
    /\ lease' = IF lease = "valid" THEN "identity_mismatch" ELSE lease
    /\ UNCHANGED <<deadline, window, sink, callback, others>>

-----------------------------------------------------------------------------
Init ==
    /\ at = "validate" /\ io = FALSE /\ failure = "none" /\ cleanupFailed = FALSE
    /\ outcome = "pending" /\ packets = 0
    /\ sink = [stream |-> "none", streamClosed |-> FALSE, closes |-> 0,
               connects |-> 0, writes |-> 0, releases |-> 0]
    /\ backend = [object |-> FALSE, streaming |-> FALSE, started |-> FALSE, activates |-> 0,
                  starts |-> 0, stopAttempts |-> 0, stops |-> 0, releases |-> 0]
    /\ quality = [attempts |-> 0, valid |-> 0, trusted |-> 0, ambiguous |-> 0, unclean |-> 0]
    /\ mode \in {"aec", "ns_agc"}
    /\ callback = "none"
    /\ deadline = FALSE /\ window = FALSE /\ lease = "valid"
    /\ server \in [process: {"owner", "other"}, state: {"serving", "stalled", "gone"}]
    /\ wire = <<>> /\ ackLease = "none" /\ untrusted = FALSE

TaskStep ==
    \/ Validate \/ BeginOperation \/ ConnectEnds \/ Identify \/ SendNonce
    \/ ReceiveAcknowledgement \/ Revalidate \/ Activate \/ Start \/ EndWindow
    \/ RegisterCallback \/ WriteEnds \/ FlushEnds \/ Unregister
    \/ Stop \/ DisposeSink \/ DisposeBackend \/ Report

CallbackStep == CallbackExchange \/ CallbackClose

Next ==
    \/ TaskStep \/ ReadProcessedPcm \/ ProcessOutputFails
    \/ CancelAfter \/ CallbackStep
    \/ WindowEnds \/ LeaseExpires \/ ServerChanges \/ ServerExits

Spec == Init /\ [][Next]_vars

(* The task and the timer thread go on; the server does nothing it does not
   want to, and the microphone need not yield a packet. *)
FairSpec == Spec /\ WF_vars(TaskStep) /\ WF_vars(CancelAfter) /\ WF_vars(CallbackStep)

-----------------------------------------------------------------------------
(* On the wire the capture is a framed channel: whatever the cancellation
   callback, the server and the task do to the pipe and in whichever order,
   no frame follows a cut one, none follows the close, and packetCount is
   behind the complete frames by at most the one in flight. *)
BodiesOnWire == Cardinality({i \in DOMAIN wire : wire[i] = "body"})

Channel == INSTANCE FramedChannel WITH
    phase <- IF \/ sink.stream = "closed"
                \/ "torn" \in {wire[i] : i \in DOMAIN wire}
             THEN "closed" ELSE IF ackLease = "none" THEN "unopened" ELSE "open",
    delivered <- BodiesOnWire,
    counted <- packets

ImplementsFramedChannel == Channel!Spec

(* What is reported is so.  An observation that succeeded delivered exactly the
   frames it counts, and "distinguished" means that all of them had trusted
   metrics.  At any report but of a failed clean-up the pipe was closed, once,
   and nothing captures any more; "no_runtime_started" means that the DSP was
   never activated, although the lease is checked three times.  The counters
   of three objects always satisfy the checks of a run without failure. *)
VoiceReportIsTrue ==
    outcome # "pending" =>
        /\ outcome \in Observed => wire = [i \in 1..(2 * packets + 1) |->
               IF i = 1 THEN "nonce" ELSE IF i % 2 = 0 THEN "prefix" ELSE "body"]
        /\ outcome = "distinguished" => ~untrusted
        /\ sink.stream # "open" /\ sink.closes <= 1
        /\ outcome # "cleanup_failed" => ~backend.streaming /\ ~backend.started
        /\ CleanupClass = "no_runtime_started" => backend.activates = 0 /\ backend.starts = 0
        /\ outcome \notin {"quality_metrics_invariant_failed", "lifecycle_invariant_failed"}

(* audio-awareness/README.md: "A missing, malformed, expired, late, or wrong-owner lease fails
   before DSP activation or PCM write."  A lease that was no longer valid when
   the server acknowledged yields no activation and no frame, and a process
   that does not hold the lease never sees the nonce. *)
StaleLeaseNeverCaptures ==
    /\ ackLease \in {"lease_expired", "identity_mismatch"}
          => backend.activates = 0 /\ BodiesOnWire = 0
    /\ server.process = "other" => wire = <<>>

(* The observation ends, even if the server stalls in the middle of a frame or
   never answers, and the timer's callback meets a task that is already
   closing the pipe. *)
CaptureEnds == <>(outcome # "pending")
=============================================================================
