--------------------------- MODULE VoiceCaptureProofs ---------------------------
(* A voice capture with any number of packets: its frames reach the pipe whole and in *)
(* order, what it reports of itself is true, and a stale lease captures nothing. *)
EXTENDS VoiceCapture, SequenceTheorems, FiniteSetTheorems, TLAPS

Opening == {"validate", "connect", "identify", "nonce"}
Greeted == {"ack", "revalidate", "activate", "start"}
Writing == {"register", "prefix", "body", "flush"}
Closing == {"sink", "backend", "report", "done"}
Capturing == {"loop", "unregister", "stop"} \cup Writing
Places == Opening \cup Greeted \cup Capturing \cup Closing
Parts == {"nonce", "prefix", "body", "torn"}

(* The types without the bounds of the counters, which the parts below give. *)
PlaceTypes ==
    at \in Places /\ io \in BOOLEAN /\ cleanupFailed \in BOOLEAN /\ packets \in 0 .. MaxPackets
ClassTypes == failure \in Failures /\ outcome \in Outcomes
WorldTypes ==
    /\ mode \in {"aec", "ns_agc"}
    /\ callback \in {"none", "registered", "fired", "closing", "ran"}
    /\ deadline \in BOOLEAN /\ window \in BOOLEAN
    /\ lease \in LeaseStates /\ ackLease \in LeaseStates \cup {"none"}
    /\ server \in [process: {"owner", "other"}, state: {"serving", "stalled", "gone"}]
    /\ untrusted \in BOOLEAN
Sinks == [stream: {"none", "open", "closed"}, streamClosed: BOOLEAN, closes: Nat,
          connects: Nat, writes: Nat, releases: Nat]
SinkType == sink \in Sinks
Backends == [object: BOOLEAN, streaming: BOOLEAN, started: BOOLEAN, activates: Nat,
             starts: Nat, stopAttempts: Nat, stops: Nat, releases: Nat]
BackendType == backend \in Backends
QualityType ==
    quality \in [attempts: Nat, valid: Nat, trusted: Nat, ambiguous: Nat, unclean: Nat]
WireType == wire \in Seq(Parts)
VoiceTypes ==
    /\ PlaceTypes /\ ClassTypes /\ WorldTypes
    /\ SinkType /\ BackendType /\ QualityType /\ WireType

(* A failure is dealt with at once; a report is the end. *)
FailureInv ==
    /\ at \notin {"unregister", "stop"} \cup Closing => failure = "none"
    /\ cleanupFailed => at \in Closing
    /\ outcome # "pending" => at = "done"

(* The n-th part on the wire of a capture that went well, and how many there are. *)
Part(n) == IF n = 1 THEN "nonce" ELSE IF n % 2 = 0 THEN "prefix" ELSE "body"
Uncounted == at = "flush" \/ (at = "unregister" /\ failure = "none")
WireInv ==
    /\ \A n \in DOMAIN wire : wire[n] = Part(n) \/ (wire[n] = "torn" /\ failure # "none")
    /\ at \in Opening => wire = <<>>
    /\ at \in Greeted => Len(wire) = 1
    /\ at \in Opening \cup Greeted => packets = 0
    /\ at \in {"loop", "register", "prefix"} => Len(wire) = 2 * packets + 1
    /\ at = "body" => Len(wire) = 2 * packets + 2
    /\ Uncounted => Len(wire) = 2 * packets + 3
    /\ at \in {"stop"} \cup Closing /\ failure = "none" => Len(wire) = 2 * packets + 1
    /\ at \in Writing \cup {"unregister"} => packets < MaxPackets

CountInv ==
    /\ BodiesOnWire \in {packets, packets + 1}
    /\ at \in Opening \cup Greeted \cup {"loop", "register", "prefix", "body"} => BodiesOnWire = packets
    /\ Uncounted => BodiesOnWire = packets + 1

(* The stream is closed once, by whichever thread comes first, and for good. *)
StreamInv ==
    /\ callback # "none" => at \in {"prefix", "body", "flush", "unregister"}
    /\ at \in Opening \cup Greeted => ~sink.streamClosed
    /\ ~sink.streamClosed => sink.stream # "closed"
    /\ callback = "closing" => sink.streamClosed /\ sink.stream # "closed"
    /\ sink.streamClosed /\ callback # "closing" => sink.stream # "open"
    /\ sink.closes = IF sink.stream = "closed" THEN 1 ELSE 0
    /\ at \in {"backend", "report", "done"} => sink.streamClosed

(* The counters of sink and backend against the place the task is at. *)
SinkInv ==
    /\ sink.connects <= 1 /\ sink.writes <= MaxPackets
    /\ at \in Opening \cup {"ack"} => sink.connects = 0
    /\ at \in (Greeted \ {"ack"}) \cup Capturing => sink.connects = 1
    /\ at \in Closing /\ failure = "none" => sink.connects = 1
    /\ at \in Opening \cup Greeted \cup {"loop"} \cup Writing => sink.writes = packets
    /\ at = "unregister" /\ failure = "none" => sink.writes = packets + 1
    /\ at \in {"stop"} \cup Closing /\ failure = "none" => sink.writes = packets
    /\ sink.releases = IF at \in {"backend", "report", "done"} THEN 1 ELSE 0

BackendInv ==
    /\ backend.activates <= 1 /\ backend.starts <= 1
    /\ backend.stopAttempts <= 1 /\ backend.stops <= 1
    /\ at \in Opening \cup Greeted => backend.activates = IF at = "start" THEN 1 ELSE 0
    /\ at \in Opening \cup Greeted => backend.starts = 0 /\ ~backend.started
    /\ at \in Capturing => backend.activates = 1 /\ backend.starts = 1
    /\ at \notin Closing => backend.stopAttempts = 0 /\ backend.stops = 0
    /\ at \in Closing /\ failure = "none" =>
          /\ backend.activates = 1 /\ backend.starts = 1 /\ backend.stopAttempts = 1
          /\ ~cleanupFailed => backend.stops = 1
    /\ backend.started => at \in Capturing \/ cleanupFailed
    /\ at \in {"report", "done"} => ~backend.streaming
    /\ backend.releases = IF at \in {"report", "done"} THEN 1 ELSE 0
    /\ failure \in {"lease_expired", "identity_mismatch"} => backend.activates = 0 /\ backend.starts = 0

QualityInv ==
    /\ quality.valid <= quality.attempts /\ quality.trusted <= quality.valid
    /\ quality.trusted + quality.ambiguous = quality.attempts
    /\ quality.unclean <= quality.attempts
    /\ mode # "aec" => quality.attempts = 0
    /\ mode = "aec" /\ untrusted => quality.trusted < quality.attempts
    /\ mode = "aec" /\ at \in Opening \cup Greeted \cup {"loop"} => quality.attempts = packets
    /\ mode = "aec" /\ (at \in Writing \/ Uncounted) => quality.attempts = packets + 1
    /\ mode = "aec" /\ at \in {"stop"} \cup Closing /\ failure = "none" => quality.attempts = packets

(* A lease that went stale stays so, and only the owner of one is spoken to. *)
LeaseInv ==
    /\ at \in Opening \cup {"ack"} => ackLease = "none"
    /\ at = "revalidate" => ackLease # "none"
    /\ at \in {"activate", "start"} \cup Capturing => ackLease = "valid"
    /\ ackLease \in {"lease_expired", "identity_mismatch"} =>
          lease # "valid" /\ backend.activates = 0 /\ BodiesOnWire = 0
    /\ server.process = "other" => wire = <<>> /\ at \in {"validate", "connect", "identify"} \cup Closing

VoiceInv ==
    VoiceTypes /\ FailureInv /\ WireInv /\ CountInv /\ StreamInv /\ SinkInv /\ BackendInv
    /\ QualityInv /\ LeaseInv /\ VoiceReportIsTrue

-----------------------------------------------------------------------------
(* The wire *)

(* The frames among the parts of a wire: a part appended counts when it is a body. *)
Bodies(w) == Cardinality({n \in DOMAIN w : w[n] = "body"})

LEMMA BodiesOfAppend ==
    ASSUME NEW w \in Seq(Parts), NEW p \in Parts
    PROVE  /\ Bodies(w) \in Nat
           /\ Bodies(Append(w, p)) = Bodies(w) + (IF p = "body" THEN 1 ELSE 0)
<1>. DEFINE S == {n \in DOMAIN w : w[n] = "body"}
            A == Append(w, p)
            T == {n \in DOMAIN A : A[n] = "body"}
<1>1. IsFiniteSet(S) /\ Cardinality(S) \in Nat
  <2>1. IsFiniteSet(1 .. Len(w))
    BY FS_Interval
  <2>2. S \subseteq 1 .. Len(w)
    OBVIOUS
  <2>. QED BY <2>1, <2>2, FS_Subset, FS_CardinalityType
<1>2. Len(w) \in Nat /\ Len(w) + 1 \notin S
  OBVIOUS
<1>3. T = IF p = "body" THEN S \cup {Len(w) + 1} ELSE S
  <2>1. DOMAIN A = 1 .. Len(w) + 1 /\ A[Len(w) + 1] = p
    OBVIOUS
  <2>2. \A n \in 1 .. Len(w) : A[n] = w[n]
    OBVIOUS
  <2>. QED BY <2>1, <2>2
<1>4. Cardinality(S \cup {Len(w) + 1}) = Cardinality(S) + 1
  BY <1>1, <1>2, FS_AddElement
<1>5. Bodies(w) = Cardinality(S) /\ Bodies(A) = Cardinality(T)
  BY DEF Bodies
<1>. HIDE DEF S, T, A
<1>6. Bodies(A) = Bodies(w) + (IF p = "body" THEN 1 ELSE 0)
  BY <1>1, <1>3, <1>4, <1>5
<1>. QED BY <1>1, <1>5, <1>6 DEF A

(* Nothing on the wire is no frame. *)
LEMMA EmptyWire == Bodies(<<>>) = 0
<1>1. {n \in DOMAIN <<>> : <<>>[n] = "body"} = {}
  OBVIOUS
<1>. QED BY <1>1, FS_EmptySet DEF Bodies

(* BodiesOnWire, before and after a step. *)
LEMMA BodiesNow == BodiesOnWire = Bodies(wire) /\ BodiesOnWire' = Bodies(wire')
BY DEF BodiesOnWire, Bodies


(* The first parts are nonce, prefix, body, then prefix and body in turn. *)
LEMMA PartFacts ==
    /\ Part(1) = "nonce"
    /\ \A k \in Nat : Part(2 * k + 2) = "prefix" /\ Part(2 * k + 3) = "body"
BY DEF Part


(* What the updates of the two records leave. *)
ClosedOnce(s, r) ==
    LET closes == ~s.streamClosed /\ s.stream = "open" IN
    /\ r \in Sinks /\ r.streamClosed /\ r.connects = s.connects /\ r.writes = s.writes
    /\ r.stream = IF closes THEN "closed" ELSE s.stream
    /\ r.closes = IF closes THEN s.closes + 1 ELSE s.closes
Wrote(s, r) ==
    /\ r \in Sinks /\ r.writes = s.writes + 1 /\ r.connects = s.connects /\ r.releases = s.releases
    /\ r.stream = s.stream /\ r.streamClosed = s.streamClosed /\ r.closes = s.closes
SinkFacts(s) ==
    /\ ClosedOnce(s, CloseStreamOnce(s)) /\ CloseStreamOnce(s).releases = s.releases
    /\ ClosedOnce(s, [CloseStreamOnce(s) EXCEPT !.releases = @ + 1])
    /\ [CloseStreamOnce(s) EXCEPT !.releases = @ + 1].releases = s.releases + 1
    /\ [s EXCEPT !.stream = "open"] \in Sinks /\ [s EXCEPT !.streamClosed = TRUE] \in Sinks
    /\ [s EXCEPT !.connects = @ + 1] \in Sinks /\ Wrote(s, [s EXCEPT !.writes = @ + 1])
    /\ [s EXCEPT !.stream = "closed", !.closes = @ + 1] \in Sinks

(* Each update of the sink gives a sink; CloseStreamOnce closes an open stream, once. *)
LEMMA SinkUpdates == ASSUME NEW s \in Sinks PROVE SinkFacts(s)
<1>1. \A r \in Sinks : \A v \in {"none", "open", "closed"} : [r EXCEPT !.stream = v] \in Sinks
  BY DEF Sinks
<1>2. \A r \in Sinks, n \in Nat :
        [r EXCEPT !.closes = n] \in Sinks /\ [r EXCEPT !.releases = n] \in Sinks
  BY DEF Sinks
<1>3. \A r \in Sinks : [r EXCEPT !.streamClosed = TRUE] \in Sinks
  BY DEF Sinks
<1>4. \A r \in Sinks : /\ r.closes \in Nat /\ r.releases \in Nat
                       /\ r.stream \in {"none", "open", "closed"} /\ r.streamClosed \in BOOLEAN
  BY DEF Sinks
<1>5. [s EXCEPT !.stream = "closed", !.closes = @ + 1] \in Sinks
  <2>. DEFINE r == [s EXCEPT !.stream = "closed"]
  <2>1. r \in Sinks /\ r.closes = s.closes /\ s.closes + 1 \in Nat
    BY <1>1, <1>4 DEF Sinks
  <2>2. [s EXCEPT !.stream = "closed", !.closes = @ + 1] = [r EXCEPT !.closes = s.closes + 1]
    BY DEF Sinks
  <2>. HIDE DEF r
  <2>. QED BY <1>2, <2>1, <2>2
<1>6. /\ [s EXCEPT !.stream = "open"] \in Sinks /\ [s EXCEPT !.streamClosed = TRUE] \in Sinks
  BY <1>1, <1>3
<1>9. [s EXCEPT !.connects = @ + 1] \in Sinks
  <2>1. s.connects + 1 \in Nat
    BY DEF Sinks
  <2>. QED BY <2>1 DEF Sinks
<1>10. Wrote(s, [s EXCEPT !.writes = @ + 1])
  <2>1. s.writes + 1 \in Nat
    BY DEF Sinks
  <2>2. [s EXCEPT !.writes = @ + 1] \in Sinks
    BY <2>1 DEF Sinks
  <2>. QED BY <2>2 DEF Sinks, Wrote
<1>. DEFINE c == CloseStreamOnce(s)
            d == [c EXCEPT !.releases = @ + 1]
<1>7. ClosedOnce(s, c) /\ c.releases = s.releases
  <2>1. CASE s.streamClosed
    BY <1>4, <2>1 DEF CloseStreamOnce, ClosedOnce
  <2>2. CASE ~s.streamClosed
    <3>. DEFINE r == [s EXCEPT !.streamClosed = TRUE]
                q == [r EXCEPT !.stream = IF s.stream = "open" THEN "closed" ELSE s.stream]
                p == [q EXCEPT !.closes = IF s.stream = "open" THEN s.closes + 1 ELSE s.closes]
    <3>1. /\ r \in Sinks /\ r.stream = s.stream /\ r.streamClosed /\ r.closes = s.closes
          /\ r.connects = s.connects /\ r.writes = s.writes /\ r.releases = s.releases
      BY <1>3 DEF Sinks
    <3>2. c = p
      BY <2>2 DEF CloseStreamOnce, Sinks
    <3>. HIDE DEF r, c
    <3>3. /\ q \in Sinks /\ q.stream = (IF s.stream = "open" THEN "closed" ELSE s.stream) /\ q.streamClosed
          /\ q.closes = s.closes /\ q.connects = s.connects /\ q.writes = s.writes /\ q.releases = s.releases
      BY <1>1, <1>4, <3>1 DEF Sinks
    <3>. HIDE DEF q
    <3>4. /\ p \in Sinks /\ p.stream = (IF s.stream = "open" THEN "closed" ELSE s.stream) /\ p.streamClosed
          /\ p.closes = (IF s.stream = "open" THEN s.closes + 1 ELSE s.closes)
          /\ p.connects = s.connects /\ p.writes = s.writes /\ p.releases = s.releases
      BY <1>2, <1>4, <3>3 DEF Sinks
    <3>. HIDE DEF p
    <3>. QED BY <2>2, <3>2, <3>4 DEF ClosedOnce
  <2>. QED BY <2>1, <2>2
<1>. HIDE DEF c
<1>8. ClosedOnce(s, d) /\ d.releases = s.releases + 1
  <2>1. c \in Sinks
    BY <1>7 DEF ClosedOnce
  <2>2. c.releases + 1 \in Nat
    BY <1>4, <2>1
  <2>3. d \in Sinks
    BY <1>2, <2>1, <2>2
  <2>4. /\ d.stream = c.stream /\ d.streamClosed = c.streamClosed /\ d.closes = c.closes
        /\ d.connects = c.connects /\ d.writes = c.writes /\ d.releases = c.releases + 1
    BY <2>1 DEF Sinks
  <2>. HIDE DEF d
  <2>. QED BY <1>7, <2>3, <2>4 DEF ClosedOnce
<1>. QED BY <1>5, <1>6, <1>7, <1>8, <1>9, <1>10 DEF SinkFacts, c

BackendFacts(b) ==
          /\ [b EXCEPT !.object = TRUE, !.activates = @ + 1] \in Backends
           /\ \A made \in BOOLEAN : [b EXCEPT !.object = made] \in Backends
           /\ [b EXCEPT !.streaming = TRUE, !.started = TRUE, !.starts = @ + 1] \in Backends
           /\ [b EXCEPT !.stopAttempts = @ + 1] \in Backends
           /\ [b EXCEPT !.stopAttempts = @ + 1, !.started = FALSE, !.streaming = FALSE,
                        !.stops = @ + 1] \in Backends
           /\ [b EXCEPT !.object = FALSE, !.streaming = FALSE, !.releases = @ + 1] \in Backends
(* The same backend but for its object and for what the arguments say. *)
BackendNow(b, streaming, started, activates, starts, stopAttempts, stops) ==
    /\ b.streaming = streaming /\ b.started = started /\ b.activates = activates /\ b.starts = starts
    /\ b.stopAttempts = stopAttempts /\ b.stops = stops

(* Each update of the backend gives a backend. *)
LEMMA BackendUpdates == ASSUME NEW b \in Backends PROVE BackendFacts(b)
<1>1. \A r \in Backends, v \in BOOLEAN :
        /\ [r EXCEPT !.object = v] \in Backends /\ [r EXCEPT !.streaming = v] \in Backends
        /\ [r EXCEPT !.started = v] \in Backends
  BY DEF Backends
<1>2. \A r \in Backends, n \in Nat :
        /\ [r EXCEPT !.activates = n] \in Backends /\ [r EXCEPT !.starts = n] \in Backends
        /\ [r EXCEPT !.stopAttempts = n] \in Backends /\ [r EXCEPT !.stops = n] \in Backends
        /\ [r EXCEPT !.releases = n] \in Backends
  BY DEF Backends
<1>3. \A r \in Backends : r.activates + 1 \in Nat /\ r.starts + 1 \in Nat /\ r.stopAttempts + 1 \in Nat
                          /\ r.stops + 1 \in Nat /\ r.releases + 1 \in Nat
  BY DEF Backends
<1>4. [b EXCEPT !.object = TRUE, !.activates = @ + 1] \in Backends
  <2>. DEFINE r == [b EXCEPT !.object = TRUE]
  <2>1. r \in Backends
    BY <1>1
  <2>2. [b EXCEPT !.object = TRUE, !.activates = @ + 1] = [r EXCEPT !.activates = r.activates + 1]
    BY DEF Backends
  <2>. HIDE DEF r
  <2>. QED BY <1>2, <1>3, <2>1, <2>2
<1>5. [b EXCEPT !.streaming = TRUE, !.started = TRUE, !.starts = @ + 1] \in Backends
  <2>. DEFINE r == [b EXCEPT !.streaming = TRUE]
              q == [r EXCEPT !.started = TRUE]
  <2>1. [b EXCEPT !.streaming = TRUE, !.started = TRUE, !.starts = @ + 1] = [q EXCEPT !.starts = q.starts + 1]
    BY DEF Backends
  <2>2. r \in Backends
    BY <1>1
  <2>. HIDE DEF r
  <2>3. q \in Backends
    BY <1>1, <2>2
  <2>. HIDE DEF q
  <2>. QED BY <1>2, <1>3, <2>1, <2>3
<1>6. [b EXCEPT !.stopAttempts = @ + 1, !.started = FALSE, !.streaming = FALSE,
                !.stops = @ + 1] \in Backends
  <2>. DEFINE r == [b EXCEPT !.stopAttempts = b.stopAttempts + 1]
              q == [r EXCEPT !.started = FALSE]
              p == [q EXCEPT !.streaming = FALSE]
  <2>1. [b EXCEPT !.stopAttempts = @ + 1, !.started = FALSE, !.streaming = FALSE, !.stops = @ + 1]
           = [p EXCEPT !.stops = p.stops + 1]
    BY DEF Backends
  <2>2. r \in Backends
    BY <1>2, <1>3
  <2>. HIDE DEF r
  <2>3. q \in Backends
    BY <1>1, <2>2
  <2>. HIDE DEF q
  <2>4. p \in Backends
    BY <1>1, <2>3
  <2>. HIDE DEF p
  <2>. QED BY <1>2, <1>3, <2>1, <2>4
<1>7. [b EXCEPT !.object = FALSE, !.streaming = FALSE, !.releases = @ + 1] \in Backends
  <2>. DEFINE r == [b EXCEPT !.object = FALSE]
              q == [r EXCEPT !.streaming = FALSE]
  <2>1. [b EXCEPT !.object = FALSE, !.streaming = FALSE, !.releases = @ + 1] = [q EXCEPT !.releases = q.releases + 1]
    BY DEF Backends
  <2>2. r \in Backends
    BY <1>1
  <2>. HIDE DEF r
  <2>3. q \in Backends
    BY <1>1, <2>2
  <2>. HIDE DEF q
  <2>. QED BY <1>2, <1>3, <2>1, <2>3
<1>. QED BY <1>1, <1>2, <1>3, <1>4, <1>5, <1>6, <1>7 DEF BackendFacts

(* Every step keeps the types: of what the task keeps for itself, *)
LEMMA PlaceTypesStep ==
    ASSUME MaxPackets \in Nat, VoiceInv, [Next]_vars PROVE PlaceTypes'
<1>. USE DEF VoiceInv, VoiceTypes, PlaceTypes, Parts, Opening, Greeted, Writing, Closing,
             Capturing, Places
<1>1. CASE Validate
  BY <1>1 DEF Validate, Goto, Throw, worldVars, auxVars
<1>2. CASE BeginOperation
  BY <1>2 DEF BeginOperation, PipeOperations, worldVars, auxVars
<1>3. CASE ConnectEnds
  BY <1>3 DEF ConnectEnds, Goto, Throw, worldVars, auxVars
<1>4. CASE Identify
  BY <1>4 DEF Identify, Goto, Throw, worldVars, auxVars
<1>5. CASE SendNonce
  BY <1>5 DEF SendNonce, Goto, Throw, Cut, worldVars, auxVars
<1>6. CASE ReceiveAcknowledgement
  BY <1>6 DEF ReceiveAcknowledgement, Goto, Throw, worldVars, auxVars
<1>7. CASE Revalidate
  BY <1>7 DEF Revalidate, Goto, Throw, worldVars, auxVars
<1>8. CASE Activate
  BY <1>8 DEF Activate, Goto, Throw, worldVars, auxVars
<1>9. CASE Start
  BY <1>9 DEF Start, Goto, Throw, worldVars, auxVars
<1>10. CASE EndWindow
  BY <1>10 DEF EndWindow, Goto, Throw, worldVars, auxVars
<1>11. CASE RegisterCallback
  BY <1>11 DEF RegisterCallback, Goto, Throw, CloseStreamOnce, worldVars, auxVars
<1>12. CASE WriteEnds
  BY <1>12 DEF WriteEnds, Goto, Throw, WriteFails, Cut, CloseStreamOnce, worldVars, auxVars
<1>13. CASE FlushEnds
  BY <1>13 DEF FlushEnds, Goto, Throw, WriteFails, Cut, CloseStreamOnce, worldVars, auxVars
<1>14. CASE Unregister
  BY <1>14 DEF Unregister, WireInv, Uncounted, worldVars, auxVars
<1>15. CASE Stop
  BY <1>15 DEF Stop, worldVars, auxVars
<1>16. CASE DisposeSink
  BY <1>16 DEF DisposeSink, Goto, CloseStreamOnce, worldVars, auxVars
<1>17. CASE DisposeBackend
  BY <1>17 DEF DisposeBackend, Goto, worldVars, auxVars
<1>18. CASE Report
  BY <1>18 DEF Report, worldVars, auxVars
<1>19. CASE ReadProcessedPcm
  BY <1>19
  DEF ReadProcessedPcm, Goto, Throw, Observation, ObserveQualityMetrics, worldVars, auxVars
<1>20. CASE ProcessOutputFails
  BY <1>20 DEF ProcessOutputFails, Throw, worldVars, auxVars
<1>21. CASE UNCHANGED <<at, io, cleanupFailed, packets>>
  BY <1>21
<1>. QED BY <1>1, <1>2, <1>3, <1>4, <1>5, <1>6, <1>7, <1>8, <1>9, <1>10, <1>11, <1>12, <1>13,
            <1>14, <1>15, <1>16, <1>17, <1>18, <1>19, <1>20, <1>21
         DEF Next, TaskStep, CallbackStep, CancelAfter, CallbackExchange, CallbackClose,
             WindowEnds, LeaseExpires, ServerChanges, ServerExits, worldVars, auxVars, others,
             taskVars, vars

(* of the classes it reports, *)
LEMMA ClassTypesStep ==
    ASSUME MaxPackets \in Nat, VoiceInv, [Next]_vars PROVE ClassTypes'
<1>. USE DEF VoiceInv, VoiceTypes, ClassTypes, WorldTypes, LeaseStates, Failures, Outcomes,
             Parts, Opening, Greeted, Writing, Closing, Capturing, Places
<1>1. CASE Validate
  BY <1>1 DEF Validate, Goto, Throw, worldVars, auxVars
<1>2. CASE BeginOperation
  BY <1>2 DEF BeginOperation, PipeOperations, worldVars, auxVars
<1>3. CASE ConnectEnds
  BY <1>3 DEF ConnectEnds, Goto, Throw, worldVars, auxVars
<1>4. CASE Identify
  BY <1>4 DEF Identify, Goto, Throw, worldVars, auxVars
<1>5. CASE SendNonce
  BY <1>5 DEF SendNonce, Goto, Throw, Cut, worldVars, auxVars
<1>6. CASE ReceiveAcknowledgement
  BY <1>6 DEF ReceiveAcknowledgement, Goto, Throw, worldVars, auxVars
<1>7. CASE Revalidate
  BY <1>7 DEF Revalidate, Goto, Throw, worldVars, auxVars
<1>8. CASE Activate
  BY <1>8 DEF Activate, Goto, Throw, worldVars, auxVars
<1>9. CASE Start
  BY <1>9 DEF Start, Goto, Throw, worldVars, auxVars
<1>10. CASE EndWindow
  BY <1>10 DEF EndWindow, Goto, Throw, worldVars, auxVars
<1>11. CASE RegisterCallback
  BY <1>11 DEF RegisterCallback, Goto, Throw, CloseStreamOnce, worldVars, auxVars
<1>12. CASE WriteEnds
  BY <1>12 DEF WriteEnds, Goto, Throw, WriteFails, Cut, CloseStreamOnce, worldVars, auxVars
<1>13. CASE FlushEnds
  BY <1>13 DEF FlushEnds, Goto, Throw, WriteFails, Cut, CloseStreamOnce, worldVars, auxVars
<1>14. CASE Unregister
  BY <1>14 DEF Unregister, worldVars, auxVars
<1>15. CASE Stop
  BY <1>15 DEF Stop, worldVars, auxVars
<1>16. CASE DisposeSink
  BY <1>16 DEF DisposeSink, Goto, CloseStreamOnce, worldVars, auxVars
<1>17. CASE DisposeBackend
  BY <1>17 DEF DisposeBackend, Goto, worldVars, auxVars
<1>18. CASE Report
  <2>1. failure # "none" => failure \in Outcomes
    BY DEF Outcomes
  <2>2. outcome' \in Outcomes
    BY <1>18, <2>1 DEF Report, ClassifyNearEndQualityMetricsWindow, Outcomes
  <2>. QED BY <1>18, <2>2 DEF Report
<1>19. CASE ReadProcessedPcm
  BY <1>19
  DEF ReadProcessedPcm, Goto, Throw, Observation, ObserveQualityMetrics, worldVars, auxVars
<1>20. CASE ProcessOutputFails
  BY <1>20 DEF ProcessOutputFails, Throw, worldVars, auxVars
<1>21. CASE UNCHANGED <<failure, outcome>>
  BY <1>21
<1>. QED BY <1>1, <1>2, <1>3, <1>4, <1>5, <1>6, <1>7, <1>8, <1>9, <1>10, <1>11, <1>12, <1>13,
            <1>14, <1>15, <1>16, <1>17, <1>18, <1>19, <1>20, <1>21
         DEF Next, TaskStep, CallbackStep, CancelAfter, CallbackExchange, CallbackClose,
             WindowEnds, LeaseExpires, ServerChanges, ServerExits, worldVars, auxVars, others,
             taskVars, vars

(* of what the world around it does, *)
LEMMA WorldTypesStep ==
    ASSUME MaxPackets \in Nat, VoiceInv, [Next]_vars PROVE WorldTypes'
<1>. USE DEF VoiceInv, VoiceTypes, WorldTypes, LeaseStates, Parts, Opening, Greeted, Writing,
             Closing, Capturing, Places
<1>1. CASE ReceiveAcknowledgement
  BY <1>1 DEF ReceiveAcknowledgement, Goto, Throw, worldVars, auxVars
<1>2. CASE RegisterCallback
  BY <1>2 DEF RegisterCallback, Goto, Throw, CloseStreamOnce, worldVars, auxVars
<1>3. CASE Unregister
  BY <1>3 DEF Unregister, worldVars, auxVars
<1>4. CASE ReadProcessedPcm
  BY <1>4
  DEF ReadProcessedPcm, Goto, Throw, Observation, ObserveQualityMetrics, worldVars, auxVars
<1>5. CASE CancelAfter
  BY <1>5 DEF CancelAfter, worldVars, others, taskVars, auxVars
<1>6. CASE CallbackExchange
  BY <1>6 DEF CallbackExchange, worldVars, others, taskVars, auxVars
<1>7. CASE CallbackClose
  BY <1>7 DEF CallbackClose, worldVars, others, taskVars, auxVars
<1>8. CASE WindowEnds
  BY <1>8 DEF WindowEnds, worldVars, others, taskVars, auxVars
<1>9. CASE LeaseExpires
  BY <1>9 DEF LeaseExpires, worldVars, others, taskVars, auxVars
<1>10. CASE ServerChanges
  BY <1>10 DEF ServerChanges, worldVars, others, taskVars, auxVars
<1>11. CASE ServerExits
  BY <1>11 DEF ServerExits, worldVars, others, taskVars, auxVars
<1>12. CASE UNCHANGED <<mode, callback, worldVars, auxVars>>
  BY <1>12 DEF worldVars, auxVars
<1>. QED BY <1>1, <1>2, <1>3, <1>4, <1>5, <1>6, <1>7, <1>8, <1>9, <1>10, <1>11, <1>12
         DEF Next, TaskStep, CallbackStep, Validate, BeginOperation, ConnectEnds, Identify,
             SendNonce, Revalidate, Activate, Start, EndWindow, WriteEnds, FlushEnds, Stop,
             DisposeSink, DisposeBackend, Report, ProcessOutputFails, worldVars, auxVars,
             others, taskVars, vars

(* of the sink, *)
LEMMA SinkTypeStep ==
    ASSUME MaxPackets \in Nat, VoiceInv, [Next]_vars PROVE SinkType'
<1>. USE DEF VoiceInv, VoiceTypes, SinkType, Parts, Opening, Greeted, Writing, Closing,
             Capturing, Places
<1>a. SinkFacts(sink)
  BY SinkUpdates
<1>1. CASE BeginOperation
  BY <1>1, <1>a
  DEF BeginOperation, PipeOperations, worldVars, auxVars, SinkFacts, ClosedOnce, Wrote
<1>2. CASE ConnectEnds
  BY <1>2, <1>a DEF ConnectEnds, Goto, Throw, worldVars, auxVars, SinkFacts, ClosedOnce, Wrote
<1>3. CASE ReceiveAcknowledgement
  BY <1>3, <1>a
  DEF ReceiveAcknowledgement, Goto, Throw, worldVars, auxVars, SinkFacts, ClosedOnce, Wrote
<1>4. CASE RegisterCallback
  BY <1>4, <1>a
  DEF RegisterCallback, Goto, Throw, worldVars, auxVars, SinkFacts, ClosedOnce, Wrote
<1>5. CASE WriteEnds
  BY <1>5, <1>a
  DEF WriteEnds, Goto, Throw, WriteFails, Cut, worldVars, auxVars, SinkFacts, ClosedOnce, Wrote
<1>6. CASE FlushEnds
  BY <1>6, <1>a
  DEF FlushEnds, Goto, Throw, WriteFails, Cut, worldVars, auxVars, SinkFacts, ClosedOnce, Wrote
<1>7. CASE DisposeSink
  BY <1>7, <1>a DEF DisposeSink, Goto, worldVars, auxVars, SinkFacts, ClosedOnce, Wrote
<1>8. CASE CallbackExchange
  BY <1>8, <1>a
  DEF CallbackExchange, worldVars, others, taskVars, auxVars, SinkFacts, ClosedOnce, Wrote
<1>9. CASE CallbackClose
  BY <1>9, <1>a
  DEF CallbackClose, worldVars, others, taskVars, auxVars, SinkFacts, ClosedOnce, Wrote
<1>10. CASE UNCHANGED sink
  BY <1>10
<1>. QED BY <1>1, <1>2, <1>3, <1>4, <1>5, <1>6, <1>7, <1>8, <1>9, <1>10
         DEF Next, TaskStep, CallbackStep, Validate, Identify, SendNonce, Revalidate, Activate,
             Start, EndWindow, Unregister, Stop, DisposeBackend, Report, ReadProcessedPcm,
             ProcessOutputFails, CancelAfter, WindowEnds, LeaseExpires, ServerChanges,
             ServerExits, worldVars, auxVars, others, taskVars, vars

(* of the backend, *)
LEMMA BackendTypeStep ==
    ASSUME MaxPackets \in Nat, VoiceInv, [Next]_vars PROVE BackendType'
<1>. USE DEF VoiceInv, VoiceTypes, BackendType, BackendFacts, Parts, Opening, Greeted, Writing,
             Closing, Capturing, Places
<1>1. CASE Activate BY <1>1, BackendUpdates DEF Activate, Goto, Throw, worldVars, auxVars
<1>2. CASE Start BY <1>2, BackendUpdates DEF Start, Goto, Throw, worldVars, auxVars
<1>3. CASE Stop BY <1>3, BackendUpdates DEF Stop, worldVars, auxVars
<1>4. CASE DisposeBackend BY <1>4, BackendUpdates DEF DisposeBackend, Goto, worldVars, auxVars
<1>5. CASE UNCHANGED backend
  BY <1>5
<1>. QED BY <1>1, <1>2, <1>3, <1>4, <1>5
         DEF Next, TaskStep, CallbackStep, Validate, BeginOperation, ConnectEnds, Identify,
             SendNonce, ReceiveAcknowledgement, Revalidate, EndWindow, RegisterCallback,
             WriteEnds, FlushEnds, Unregister, DisposeSink, Report, ReadProcessedPcm,
             ProcessOutputFails, CancelAfter, CallbackExchange, CallbackClose, WindowEnds,
             LeaseExpires, ServerChanges, ServerExits, worldVars, auxVars, others, taskVars,
             vars

(* of the metrics, *)
LEMMA QualityTypeStep ==
    ASSUME MaxPackets \in Nat, VoiceInv, [Next]_vars PROVE QualityType'
<1>. USE DEF VoiceInv, VoiceTypes, QualityType, Parts, Opening, Greeted, Writing, Closing,
             Capturing, Places
<1>1. CASE ReadProcessedPcm
  BY <1>1
  DEF ReadProcessedPcm, Goto, Throw, Observation, ObserveQualityMetrics, worldVars, auxVars
<1>2. CASE UNCHANGED quality
  BY <1>2
<1>. QED BY <1>1, <1>2
         DEF Next, TaskStep, CallbackStep, Validate, BeginOperation, ConnectEnds, Identify,
             SendNonce, ReceiveAcknowledgement, Revalidate, Activate, Start, EndWindow,
             RegisterCallback, WriteEnds, FlushEnds, Unregister, Stop, DisposeSink,
             DisposeBackend, Report, ProcessOutputFails, CancelAfter, CallbackExchange,
             CallbackClose, WindowEnds, LeaseExpires, ServerChanges, ServerExits, worldVars,
             auxVars, others, taskVars, vars

(* and of the wire. *)
LEMMA WireTypeStep ==
    ASSUME MaxPackets \in Nat, VoiceInv, [Next]_vars PROVE WireType'
<1>. USE DEF VoiceInv, VoiceTypes, WireType, Parts, Opening, Greeted, Writing, Closing,
             Capturing, Places
<1>1. CASE SendNonce
  BY <1>1 DEF SendNonce, Goto, Throw, Cut, worldVars, auxVars
<1>2. CASE WriteEnds
  BY <1>2 DEF WriteEnds, Goto, Throw, WriteFails, Cut, CloseStreamOnce, worldVars, auxVars
<1>3. CASE FlushEnds
  BY <1>3 DEF FlushEnds, Goto, Throw, WriteFails, Cut, CloseStreamOnce, worldVars, auxVars
<1>4. CASE UNCHANGED wire
  BY <1>4
<1>. QED BY <1>1, <1>2, <1>3, <1>4
         DEF Next, TaskStep, CallbackStep, Validate, BeginOperation, ConnectEnds, Identify,
             ReceiveAcknowledgement, Revalidate, Activate, Start, EndWindow, RegisterCallback,
             Unregister, Stop, DisposeSink, DisposeBackend, Report, ReadProcessedPcm,
             ProcessOutputFails, CancelAfter, CallbackExchange, CallbackClose, WindowEnds,
             LeaseExpires, ServerChanges, ServerExits, worldVars, auxVars, others, taskVars,
             vars

(* A failure leads to the finally block, and a report to the end. *)
LEMMA FailureStep ==
    ASSUME MaxPackets \in Nat, VoiceInv, [Next]_vars PROVE FailureInv'
<1>. USE DEF VoiceInv, VoiceTypes, PlaceTypes, FailureInv, StreamInv, Parts, Opening, Greeted,
             Writing, Closing, Capturing, Places
<1>1. CASE Validate
  BY <1>1 DEF Validate, Goto, Throw, worldVars, auxVars
<1>2. CASE BeginOperation
  BY <1>2 DEF BeginOperation, PipeOperations, worldVars, auxVars
<1>3. CASE ConnectEnds
  BY <1>3 DEF ConnectEnds, Goto, Throw, worldVars, auxVars
<1>4. CASE Identify
  BY <1>4 DEF Identify, Goto, Throw, worldVars, auxVars
<1>5. CASE SendNonce
  BY <1>5 DEF SendNonce, Goto, Throw, Cut, worldVars, auxVars
<1>6. CASE ReceiveAcknowledgement
  BY <1>6 DEF ReceiveAcknowledgement, Goto, Throw, worldVars, auxVars
<1>7. CASE Revalidate
  BY <1>7 DEF Revalidate, Goto, Throw, worldVars, auxVars
<1>8. CASE Activate
  BY <1>8 DEF Activate, Goto, Throw, worldVars, auxVars
<1>9. CASE Start
  BY <1>9 DEF Start, Goto, Throw, worldVars, auxVars
<1>10. CASE EndWindow
  BY <1>10 DEF EndWindow, Goto, Throw, worldVars, auxVars
<1>11. CASE RegisterCallback
  BY <1>11 DEF RegisterCallback, Goto, Throw, CloseStreamOnce, worldVars, auxVars
<1>12. CASE WriteEnds
  BY <1>12 DEF WriteEnds, Goto, Throw, WriteFails, Cut, CloseStreamOnce, worldVars, auxVars
<1>13. CASE FlushEnds
  BY <1>13 DEF FlushEnds, Goto, Throw, WriteFails, Cut, CloseStreamOnce, worldVars, auxVars
<1>14. CASE Unregister
  BY <1>14 DEF Unregister, worldVars, auxVars
<1>15. CASE Stop
  BY <1>15 DEF Stop, worldVars, auxVars
<1>16. CASE DisposeSink
  BY <1>16 DEF DisposeSink, Goto, CloseStreamOnce, worldVars, auxVars
<1>17. CASE DisposeBackend
  BY <1>17 DEF DisposeBackend, Goto, worldVars, auxVars
<1>18. CASE Report
  BY <1>18 DEF Report, worldVars, auxVars
<1>19. CASE ReadProcessedPcm
  BY <1>19
  DEF ReadProcessedPcm, Goto, Throw, Observation, ObserveQualityMetrics, worldVars, auxVars
<1>20. CASE ProcessOutputFails
  BY <1>20 DEF ProcessOutputFails, Throw, worldVars, auxVars
<1>21. CASE CancelAfter
  BY <1>21 DEF CancelAfter, worldVars, others, taskVars, auxVars
<1>22. CASE CallbackExchange
  BY <1>22 DEF CallbackExchange, worldVars, others, taskVars, auxVars
<1>23. CASE CallbackClose
  BY <1>23 DEF CallbackClose, worldVars, others, taskVars, auxVars
<1>24. CASE WindowEnds \/ LeaseExpires \/ ServerChanges \/ ServerExits
           \/ UNCHANGED vars
  BY <1>24
  DEF WindowEnds, LeaseExpires, ServerChanges, ServerExits, others, taskVars, worldVars,
      auxVars, vars
<1>. QED BY <1>1, <1>2, <1>3, <1>4, <1>5, <1>6, <1>7, <1>8, <1>9, <1>10, <1>11, <1>12, <1>13,
            <1>14, <1>15, <1>16, <1>17, <1>18, <1>19, <1>20, <1>21, <1>22, <1>23, <1>24
         DEF Next, TaskStep, CallbackStep

(* The parts on the wire follow the place the task is at. *)
LEMMA WireStep ==
    ASSUME MaxPackets \in Nat, VoiceInv, [Next]_vars PROVE WireInv'
<1>. USE DEF VoiceInv, VoiceTypes, PlaceTypes, WireType, FailureInv, WireInv, WorldTypes,
             StreamInv, Uncounted, LeaseStates, Parts, Opening, Greeted, Writing, Closing,
             Capturing, Places
<1>1. CASE Validate
  BY <1>1 DEF Validate, Goto, Throw, worldVars, auxVars
<1>2. CASE BeginOperation
  BY <1>2 DEF BeginOperation, PipeOperations, worldVars, auxVars
<1>3. CASE ConnectEnds
  BY <1>3 DEF ConnectEnds, Goto, Throw, worldVars, auxVars
<1>4. CASE Identify
  BY <1>4 DEF Identify, Goto, Throw, worldVars, auxVars
<1>5. CASE SendNonce
  BY <1>5, PartFacts DEF SendNonce, Goto, Throw, Cut, worldVars, auxVars
<1>6. CASE ReceiveAcknowledgement
  BY <1>6 DEF ReceiveAcknowledgement, Goto, Throw, worldVars, auxVars
<1>7. CASE Revalidate
  BY <1>7 DEF Revalidate, Goto, Throw, worldVars, auxVars
<1>8. CASE Activate
  BY <1>8 DEF Activate, Goto, Throw, worldVars, auxVars
<1>9. CASE Start
  BY <1>9 DEF Start, Goto, Throw, worldVars, auxVars
<1>10. CASE EndWindow
  BY <1>10 DEF EndWindow, Goto, Throw, worldVars, auxVars
<1>11. CASE RegisterCallback
  BY <1>11 DEF RegisterCallback, Goto, Throw, CloseStreamOnce, worldVars, auxVars
<1>12. CASE WriteEnds
  <2>1. packets \in Nat /\ packets + 1 \in Nat
    OBVIOUS
  <2>2. CASE /\ wire' = Append(wire, at) /\ at = "prefix" /\ at' = "body"
             /\ UNCHANGED <<failure, packets>>
    <3>1. Part(Len(wire) + 1) = at
      BY <2>1, <2>2, PartFacts
    <3>. QED BY <2>1, <2>2, <3>1
  <2>3. CASE /\ wire' = Append(wire, at) /\ at = "body" /\ at' = "flush"
             /\ UNCHANGED <<failure, packets>>
    <3>1. Part(Len(wire) + 1) = at
      BY <2>1, <2>3, PartFacts
    <3>. QED BY <2>1, <2>3, <3>1
  <2>4. CASE /\ wire' \in {wire, Append(wire, "torn")} /\ at' = "unregister"
             /\ failure' # "none" /\ packets' = packets
    <3>1. failure = "none" /\ packets < MaxPackets
      BY <1>12 DEF WriteEnds
    <3>. QED BY <2>1, <2>4, <3>1
  <2>. QED BY <1>12, <2>2, <2>3, <2>4 DEF WriteEnds, Goto, Throw, WriteFails, Cut
<1>13. CASE FlushEnds
  BY <1>13 DEF FlushEnds, Goto, Throw, WriteFails, Cut, CloseStreamOnce, worldVars, auxVars
<1>14. CASE Unregister
  BY <1>14 DEF Unregister, worldVars, auxVars
<1>15. CASE Stop
  BY <1>15 DEF Stop, worldVars, auxVars
<1>16. CASE DisposeSink
  BY <1>16 DEF DisposeSink, Goto, CloseStreamOnce, worldVars, auxVars
<1>17. CASE DisposeBackend
  BY <1>17 DEF DisposeBackend, Goto, worldVars, auxVars
<1>18. CASE Report
  BY <1>18 DEF Report, worldVars, auxVars
<1>19. CASE ReadProcessedPcm
  BY <1>19
  DEF ReadProcessedPcm, Goto, Throw, Observation, ObserveQualityMetrics, worldVars, auxVars
<1>20. CASE ProcessOutputFails
  BY <1>20 DEF ProcessOutputFails, Throw, worldVars, auxVars
<1>21. CASE CancelAfter
  BY <1>21 DEF CancelAfter, worldVars, others, taskVars, auxVars
<1>22. CASE CallbackExchange
  BY <1>22 DEF CallbackExchange, worldVars, others, taskVars, auxVars
<1>23. CASE CallbackClose
  BY <1>23 DEF CallbackClose, worldVars, others, taskVars, auxVars
<1>24. CASE WindowEnds \/ LeaseExpires \/ ServerChanges \/ ServerExits
           \/ UNCHANGED vars
  BY <1>24
  DEF WindowEnds, LeaseExpires, ServerChanges, ServerExits, others, taskVars, worldVars,
      auxVars, vars
<1>. QED BY <1>1, <1>2, <1>3, <1>4, <1>5, <1>6, <1>7, <1>8, <1>9, <1>10, <1>11, <1>12, <1>13,
            <1>14, <1>15, <1>16, <1>17, <1>18, <1>19, <1>20, <1>21, <1>22, <1>23, <1>24
         DEF Next, TaskStep, CallbackStep

(* Whichever thread closes the stream, it is closed once and for good. *)
LEMMA StreamStep ==
    ASSUME MaxPackets \in Nat, VoiceInv, [Next]_vars PROVE StreamInv'
<1>. USE DEF VoiceInv, VoiceTypes, SinkType, Sinks, WorldTypes, FailureInv, StreamInv, Parts,
             Opening, Greeted, Writing, Closing, Capturing, Places
<1>1. CASE Validate
  BY <1>1 DEF Validate, Goto, Throw, worldVars, auxVars
<1>2. CASE BeginOperation
  BY <1>2 DEF BeginOperation, PipeOperations, worldVars, auxVars
<1>3. CASE ConnectEnds
  BY <1>3 DEF ConnectEnds, Goto, Throw, worldVars, auxVars
<1>4. CASE Identify
  BY <1>4 DEF Identify, Goto, Throw, worldVars, auxVars
<1>5. CASE SendNonce
  BY <1>5 DEF SendNonce, Goto, Throw, Cut, worldVars, auxVars
<1>6. CASE ReceiveAcknowledgement
  BY <1>6 DEF ReceiveAcknowledgement, Goto, Throw, worldVars, auxVars
<1>7. CASE Revalidate
  BY <1>7 DEF Revalidate, Goto, Throw, worldVars, auxVars
<1>8. CASE Activate
  BY <1>8 DEF Activate, Goto, Throw, worldVars, auxVars
<1>9. CASE Start
  BY <1>9 DEF Start, Goto, Throw, worldVars, auxVars
<1>10. CASE EndWindow
  BY <1>10 DEF EndWindow, Goto, Throw, worldVars, auxVars
<1>11. CASE RegisterCallback
  <2>0. SinkFacts(sink)
    BY SinkUpdates
  <2>1. sink' = sink \/ (ClosedOnce(sink, sink') /\ sink'.releases = sink.releases)
    BY <1>11, <2>0 DEF RegisterCallback, SinkFacts
  <2>2. CASE sink' = sink
    BY <1>11, <2>2 DEF RegisterCallback, Goto, Throw, worldVars, auxVars
  <2>3. CASE (ClosedOnce(sink, sink') /\ sink'.releases = sink.releases)
    BY <1>11, <2>3 DEF RegisterCallback, Goto, Throw, worldVars, auxVars, ClosedOnce
  <2>. QED BY <2>1, <2>2, <2>3
<1>12. CASE WriteEnds
  <2>0. SinkFacts(sink)
    BY SinkUpdates
  <2>1. sink' = sink \/ (ClosedOnce(sink, sink') /\ sink'.releases = sink.releases)
    BY <1>12, <2>0 DEF WriteEnds, WriteFails, SinkFacts
  <2>2. CASE sink' = sink
    BY <1>12, <2>2 DEF WriteEnds, Goto, Throw, WriteFails, Cut, worldVars, auxVars
  <2>3. CASE (ClosedOnce(sink, sink') /\ sink'.releases = sink.releases)
    BY <1>12, <2>3 DEF WriteEnds, Goto, Throw, WriteFails, Cut, worldVars, auxVars, ClosedOnce
  <2>. QED BY <2>1, <2>2, <2>3
<1>13. CASE FlushEnds
  <2>0. SinkFacts(sink)
    BY SinkUpdates
  <2>1. sink' = sink \/ (ClosedOnce(sink, sink') /\ sink'.releases = sink.releases) \/ Wrote(sink, sink')
    BY <1>13, <2>0 DEF FlushEnds, WriteFails, SinkFacts
  <2>2. CASE sink' = sink
    BY <1>13, <2>2 DEF FlushEnds, Goto, Throw, WriteFails, Cut, worldVars, auxVars
  <2>3. CASE (ClosedOnce(sink, sink') /\ sink'.releases = sink.releases)
    BY <1>13, <2>3 DEF FlushEnds, Goto, Throw, WriteFails, Cut, worldVars, auxVars, ClosedOnce
  <2>4. CASE Wrote(sink, sink')
    BY <1>13, <2>4 DEF FlushEnds, Goto, Throw, WriteFails, Cut, worldVars, auxVars, Wrote
  <2>. QED BY <2>1, <2>2, <2>3, <2>4
<1>14. CASE Unregister
  BY <1>14 DEF Unregister, worldVars, auxVars
<1>15. CASE Stop
  BY <1>15 DEF Stop, worldVars, auxVars
<1>16. CASE DisposeSink
  <2>0. SinkFacts(sink)
    BY SinkUpdates
  <2>1. ClosedOnce(sink, sink') /\ sink'.releases = sink.releases + 1
    BY <1>16, <2>0 DEF DisposeSink, SinkFacts
  <2>2. CASE ClosedOnce(sink, sink') /\ sink'.releases = sink.releases + 1
    BY <1>16, <2>2 DEF DisposeSink, Goto, worldVars, auxVars, ClosedOnce
  <2>. QED BY <2>1, <2>2
<1>17. CASE DisposeBackend
  BY <1>17 DEF DisposeBackend, Goto, worldVars, auxVars
<1>18. CASE Report
  BY <1>18 DEF Report, worldVars, auxVars
<1>19. CASE ReadProcessedPcm
  BY <1>19
  DEF ReadProcessedPcm, Goto, Throw, Observation, ObserveQualityMetrics, worldVars, auxVars
<1>20. CASE ProcessOutputFails
  BY <1>20 DEF ProcessOutputFails, Throw, worldVars, auxVars
<1>21. CASE CancelAfter
  BY <1>21 DEF CancelAfter, worldVars, others, taskVars, auxVars
<1>22. CASE CallbackExchange
  BY <1>22 DEF CallbackExchange, worldVars, others, taskVars, auxVars
<1>23. CASE CallbackClose
  BY <1>23 DEF CallbackClose, worldVars, others, taskVars, auxVars
<1>24. CASE WindowEnds \/ LeaseExpires \/ ServerChanges \/ ServerExits
           \/ UNCHANGED vars
  BY <1>24
  DEF WindowEnds, LeaseExpires, ServerChanges, ServerExits, others, taskVars, worldVars,
      auxVars, vars
<1>. QED BY <1>1, <1>2, <1>3, <1>4, <1>5, <1>6, <1>7, <1>8, <1>9, <1>10, <1>11, <1>12, <1>13,
            <1>14, <1>15, <1>16, <1>17, <1>18, <1>19, <1>20, <1>21, <1>22, <1>23, <1>24
         DEF Next, TaskStep, CallbackStep

(* The sink's counters follow the task. *)
LEMMA SinkStep ==
    ASSUME MaxPackets \in Nat, VoiceInv, [Next]_vars PROVE SinkInv'
<1>. USE DEF VoiceInv, VoiceTypes, SinkType, Sinks, PlaceTypes, WorldTypes, LeaseStates,
             FailureInv, StreamInv, WireInv, Uncounted, SinkInv, Parts, Opening, Greeted,
             Writing, Closing, Capturing, Places
<1>1. CASE Validate
  BY <1>1 DEF Validate, Goto, Throw, worldVars, auxVars
<1>2. CASE BeginOperation
  BY <1>2 DEF BeginOperation, PipeOperations, worldVars, auxVars
<1>3. CASE ConnectEnds
  BY <1>3 DEF ConnectEnds, Goto, Throw, worldVars, auxVars
<1>4. CASE Identify
  BY <1>4 DEF Identify, Goto, Throw, worldVars, auxVars
<1>5. CASE SendNonce
  BY <1>5 DEF SendNonce, Goto, Throw, Cut, worldVars, auxVars
<1>6. CASE ReceiveAcknowledgement
  BY <1>6 DEF ReceiveAcknowledgement, Goto, Throw, worldVars, auxVars
<1>7. CASE Revalidate
  BY <1>7 DEF Revalidate, Goto, Throw, worldVars, auxVars
<1>8. CASE Activate
  BY <1>8 DEF Activate, Goto, Throw, worldVars, auxVars
<1>9. CASE Start
  BY <1>9 DEF Start, Goto, Throw, worldVars, auxVars
<1>10. CASE EndWindow
  BY <1>10 DEF EndWindow, Goto, Throw, worldVars, auxVars
<1>11. CASE RegisterCallback
  <2>0. SinkFacts(sink)
    BY SinkUpdates
  <2>1. sink' = sink \/ (ClosedOnce(sink, sink') /\ sink'.releases = sink.releases)
    BY <1>11, <2>0 DEF RegisterCallback, SinkFacts
  <2>2. CASE sink' = sink
    BY <1>11, <2>2 DEF RegisterCallback, Goto, Throw, worldVars, auxVars
  <2>3. CASE (ClosedOnce(sink, sink') /\ sink'.releases = sink.releases)
    BY <1>11, <2>3 DEF RegisterCallback, Goto, Throw, worldVars, auxVars, ClosedOnce
  <2>. QED BY <2>1, <2>2, <2>3
<1>12. CASE WriteEnds
  <2>0. SinkFacts(sink)
    BY SinkUpdates
  <2>1. sink' = sink \/ (ClosedOnce(sink, sink') /\ sink'.releases = sink.releases)
    BY <1>12, <2>0 DEF WriteEnds, WriteFails, SinkFacts
  <2>2. CASE sink' = sink
    BY <1>12, <2>2 DEF WriteEnds, Goto, Throw, WriteFails, Cut, worldVars, auxVars
  <2>3. CASE (ClosedOnce(sink, sink') /\ sink'.releases = sink.releases)
    BY <1>12, <2>3 DEF WriteEnds, Goto, Throw, WriteFails, Cut, worldVars, auxVars, ClosedOnce
  <2>. QED BY <2>1, <2>2, <2>3
<1>13. CASE FlushEnds
  <2>0. SinkFacts(sink)
    BY SinkUpdates
  <2>1. sink' = sink \/ (ClosedOnce(sink, sink') /\ sink'.releases = sink.releases) \/ Wrote(sink, sink')
    BY <1>13, <2>0 DEF FlushEnds, WriteFails, SinkFacts
  <2>2. CASE sink' = sink
    BY <1>13, <2>2 DEF FlushEnds, Goto, Throw, WriteFails, Cut, worldVars, auxVars
  <2>3. CASE (ClosedOnce(sink, sink') /\ sink'.releases = sink.releases)
    BY <1>13, <2>3 DEF FlushEnds, Goto, Throw, WriteFails, Cut, worldVars, auxVars, ClosedOnce
  <2>4. CASE Wrote(sink, sink')
    BY <1>13, <2>4 DEF FlushEnds, Goto, Throw, WriteFails, Cut, worldVars, auxVars, Wrote
  <2>. QED BY <2>1, <2>2, <2>3, <2>4
<1>14. CASE Unregister
  BY <1>14 DEF Unregister, worldVars, auxVars
<1>15. CASE Stop
  BY <1>15 DEF Stop, worldVars, auxVars
<1>16. CASE DisposeSink
  <2>0. SinkFacts(sink)
    BY SinkUpdates
  <2>1. ClosedOnce(sink, sink') /\ sink'.releases = sink.releases + 1
    BY <1>16, <2>0 DEF DisposeSink, SinkFacts
  <2>2. CASE ClosedOnce(sink, sink') /\ sink'.releases = sink.releases + 1
    BY <1>16, <2>2 DEF DisposeSink, Goto, worldVars, auxVars, ClosedOnce
  <2>. QED BY <2>1, <2>2
<1>17. CASE DisposeBackend
  BY <1>17 DEF DisposeBackend, Goto, worldVars, auxVars
<1>18. CASE Report
  BY <1>18 DEF Report, worldVars, auxVars
<1>19. CASE ReadProcessedPcm
  BY <1>19
  DEF ReadProcessedPcm, Goto, Throw, Observation, ObserveQualityMetrics, worldVars, auxVars
<1>20. CASE ProcessOutputFails
  BY <1>20 DEF ProcessOutputFails, Throw, worldVars, auxVars
<1>21. CASE CancelAfter
  BY <1>21 DEF CancelAfter, worldVars, others, taskVars, auxVars
<1>22. CASE CallbackExchange
  BY <1>22 DEF CallbackExchange, worldVars, others, taskVars, auxVars
<1>23. CASE CallbackClose
  BY <1>23 DEF CallbackClose, worldVars, others, taskVars, auxVars
<1>24. CASE WindowEnds \/ LeaseExpires \/ ServerChanges \/ ServerExits
           \/ UNCHANGED vars
  BY <1>24
  DEF WindowEnds, LeaseExpires, ServerChanges, ServerExits, others, taskVars, worldVars,
      auxVars, vars
<1>. QED BY <1>1, <1>2, <1>3, <1>4, <1>5, <1>6, <1>7, <1>8, <1>9, <1>10, <1>11, <1>12, <1>13,
            <1>14, <1>15, <1>16, <1>17, <1>18, <1>19, <1>20, <1>21, <1>22, <1>23, <1>24
         DEF Next, TaskStep, CallbackStep

(* The backend's counters follow the task, and nothing streams after its release. *)
LEMMA BackendStep ==
    ASSUME MaxPackets \in Nat, VoiceInv, [Next]_vars PROVE BackendInv'
<1>. USE DEF VoiceInv, VoiceTypes, PlaceTypes, BackendType, WorldTypes, FailureInv, BackendInv,
             StreamInv, LeaseStates, Parts, Opening, Greeted, Writing, Closing, Capturing,
             Places
<1>1. CASE Validate
  BY <1>1 DEF Validate, Goto, Throw, worldVars, auxVars
<1>2. CASE BeginOperation
  BY <1>2 DEF BeginOperation, PipeOperations, worldVars, auxVars
<1>3. CASE ConnectEnds
  BY <1>3 DEF ConnectEnds, Goto, Throw, worldVars, auxVars
<1>4. CASE Identify
  BY <1>4 DEF Identify, Goto, Throw, worldVars, auxVars
<1>5. CASE SendNonce
  BY <1>5 DEF SendNonce, Goto, Throw, Cut, worldVars, auxVars
<1>6. CASE ReceiveAcknowledgement
  BY <1>6 DEF ReceiveAcknowledgement, Goto, Throw, worldVars, auxVars
<1>7. CASE Revalidate
  BY <1>7 DEF Revalidate, Goto, Throw, worldVars, auxVars
<1>8. CASE Activate
  <2>1. /\ at = "activate" /\ at' \in {"start", "sink"} /\ (at' = "start" <=> failure' = "none")
        /\ failure' \in {"none", "deadline_exceeded", "activation_failed"}
        /\ UNCHANGED <<cleanupFailed, packets>>
    BY <1>8 DEF Activate, Goto, Throw
  <2>2. BackendNow(backend', backend.streaming, backend.started,
                   IF at' = "start" THEN backend.activates + 1 ELSE backend.activates,
                   backend.starts, backend.stopAttempts, backend.stops)
        /\ backend'.releases = backend.releases
    BY <1>8 DEF Activate, Goto, Throw, BackendNow, Backends
  <2>. QED BY <2>1, <2>2 DEF BackendNow
<1>9. CASE Start
  <2>1. /\ at = "start" /\ at' \in {"loop", "sink"} /\ (at' = "loop" <=> failure' = "none")
        /\ failure' \in {"none", "start_failed"}
        /\ UNCHANGED <<cleanupFailed, packets>>
    BY <1>9 DEF Start, Goto, Throw
  <2>2. CASE at' = "loop"
    <3>1. BackendNow(backend', TRUE, TRUE, backend.activates, backend.starts + 1,
                     backend.stopAttempts, backend.stops) /\ backend'.releases = backend.releases
      BY <1>9, <2>2 DEF Start, Goto, Throw, BackendNow, Backends
    <3>. QED BY <2>1, <2>2, <3>1 DEF BackendNow
  <2>3. CASE at' = "sink"
    BY <1>9, <2>1, <2>3 DEF Start, Goto
  <2>. QED BY <2>1, <2>2, <2>3
<1>10. CASE EndWindow
  BY <1>10 DEF EndWindow, Goto, Throw, worldVars, auxVars
<1>11. CASE RegisterCallback
  BY <1>11 DEF RegisterCallback, Goto, Throw, CloseStreamOnce, worldVars, auxVars
<1>12. CASE WriteEnds
  BY <1>12 DEF WriteEnds, Goto, Throw, WriteFails, Cut, CloseStreamOnce, worldVars, auxVars
<1>13. CASE FlushEnds
  BY <1>13 DEF FlushEnds, Goto, Throw, WriteFails, Cut, CloseStreamOnce, worldVars, auxVars
<1>14. CASE Unregister
  BY <1>14 DEF Unregister, worldVars, auxVars
<1>15. CASE Stop
  <2>1. at = "stop" /\ at' = "sink" /\ UNCHANGED failure
    BY <1>15 DEF Stop
  <2>2. CASE cleanupFailed' = TRUE
    <3>1. BackendNow(backend', backend.streaming, backend.started, backend.activates, backend.starts,
                     backend.stopAttempts + 1, backend.stops) /\ backend'.releases = backend.releases
      BY <1>15, <2>2 DEF Stop, BackendNow, Backends
    <3>. QED BY <2>1, <2>2, <3>1 DEF BackendNow
  <2>3. CASE cleanupFailed' # TRUE
    <3>1. BackendNow(backend', FALSE, FALSE, backend.activates, backend.starts,
                     backend.stopAttempts + 1, backend.stops + 1) /\ backend'.releases = backend.releases
      BY <1>15, <2>3 DEF Stop, BackendNow, Backends
    <3>2. cleanupFailed' = FALSE
      BY <1>15, <2>3 DEF Stop
    <3>. QED BY <2>1, <3>1, <3>2 DEF BackendNow
  <2>. QED BY <2>2, <2>3
<1>16. CASE DisposeSink
  BY <1>16 DEF DisposeSink, Goto, CloseStreamOnce, worldVars, auxVars
<1>17. CASE DisposeBackend
  BY <1>17 DEF DisposeBackend, Goto, worldVars, auxVars
<1>18. CASE Report
  BY <1>18 DEF Report, worldVars, auxVars
<1>19. CASE ReadProcessedPcm
  BY <1>19
  DEF ReadProcessedPcm, Goto, Throw, Observation, ObserveQualityMetrics, worldVars, auxVars
<1>20. CASE ProcessOutputFails
  BY <1>20 DEF ProcessOutputFails, Throw, worldVars, auxVars
<1>21. CASE CancelAfter
  BY <1>21 DEF CancelAfter, worldVars, others, taskVars, auxVars
<1>22. CASE CallbackExchange
  BY <1>22 DEF CallbackExchange, worldVars, others, taskVars, auxVars
<1>23. CASE CallbackClose
  BY <1>23 DEF CallbackClose, worldVars, others, taskVars, auxVars
<1>24. CASE WindowEnds \/ LeaseExpires \/ ServerChanges \/ ServerExits
           \/ UNCHANGED vars
  BY <1>24
  DEF WindowEnds, LeaseExpires, ServerChanges, ServerExits, others, taskVars, worldVars,
      auxVars, vars
<1>. QED BY <1>1, <1>2, <1>3, <1>4, <1>5, <1>6, <1>7, <1>8, <1>9, <1>10, <1>11, <1>12, <1>13,
            <1>14, <1>15, <1>16, <1>17, <1>18, <1>19, <1>20, <1>21, <1>22, <1>23, <1>24
         DEF Next, TaskStep, CallbackStep

(* The metrics count every packet read, and an untrusted one for good. *)
LEMMA QualityStep ==
    ASSUME MaxPackets \in Nat, VoiceInv, [Next]_vars PROVE QualityInv'
<1>. USE DEF VoiceInv, VoiceTypes, PlaceTypes, QualityType, FailureInv, QualityInv, StreamInv,
             WireInv, Uncounted, Parts, Opening, Greeted, Writing, Closing, Capturing, Places
<1>1. CASE Validate
  BY <1>1 DEF Validate, Goto, Throw, worldVars, auxVars
<1>2. CASE BeginOperation
  BY <1>2 DEF BeginOperation, PipeOperations, worldVars, auxVars
<1>3. CASE ConnectEnds
  BY <1>3 DEF ConnectEnds, Goto, Throw, worldVars, auxVars
<1>4. CASE Identify
  BY <1>4 DEF Identify, Goto, Throw, worldVars, auxVars
<1>5. CASE SendNonce
  BY <1>5 DEF SendNonce, Goto, Throw, Cut, worldVars, auxVars
<1>6. CASE ReceiveAcknowledgement
  BY <1>6 DEF ReceiveAcknowledgement, Goto, Throw, worldVars, auxVars
<1>7. CASE Revalidate
  BY <1>7 DEF Revalidate, Goto, Throw, worldVars, auxVars
<1>8. CASE Activate
  BY <1>8 DEF Activate, Goto, Throw, worldVars, auxVars
<1>9. CASE Start
  BY <1>9 DEF Start, Goto, Throw, worldVars, auxVars
<1>10. CASE EndWindow
  BY <1>10 DEF EndWindow, Goto, Throw, worldVars, auxVars
<1>11. CASE RegisterCallback
  BY <1>11 DEF RegisterCallback, Goto, Throw, CloseStreamOnce, worldVars, auxVars
<1>12. CASE WriteEnds
  BY <1>12 DEF WriteEnds, Goto, Throw, WriteFails, Cut, CloseStreamOnce, worldVars, auxVars
<1>13. CASE FlushEnds
  BY <1>13 DEF FlushEnds, Goto, Throw, WriteFails, Cut, CloseStreamOnce, worldVars, auxVars
<1>14. CASE Unregister
  BY <1>14 DEF Unregister, worldVars, auxVars
<1>15. CASE Stop
  BY <1>15 DEF Stop, worldVars, auxVars
<1>16. CASE DisposeSink
  BY <1>16 DEF DisposeSink, Goto, CloseStreamOnce, worldVars, auxVars
<1>17. CASE DisposeBackend
  BY <1>17 DEF DisposeBackend, Goto, worldVars, auxVars
<1>18. CASE Report
  BY <1>18 DEF Report, worldVars, auxVars
<1>19. CASE ReadProcessedPcm
  <2>1. /\ at = "loop" /\ at' \in {"register", "stop"} /\ (at' = "register" <=> failure' = "none")
        /\ UNCHANGED <<packets, mode>>
    BY <1>19 DEF ReadProcessedPcm, Goto, Throw
  <2>2. CASE mode # "aec"
    <3>1. quality' = quality
      BY <1>19, <2>2 DEF ReadProcessedPcm
    <3>. QED BY <2>1, <2>2, <3>1
  <2>3. CASE mode = "aec"
    <3>1. PICK o \in Observation :
             quality' = ObserveQualityMetrics(o) /\ untrusted' = (untrusted \/ ~o.trusted)
      BY <1>19, <2>3 DEF ReadProcessedPcm
    <3>2. o.trusted => o.valid
      BY DEF Observation
    <3>a. quality \in [attempts: Nat, valid: Nat, trusted: Nat, ambiguous: Nat, unclean: Nat]
      OBVIOUS
    <3>3. /\ quality'.attempts = quality.attempts + 1
          /\ quality'.valid = quality.valid + (IF o.valid THEN 1 ELSE 0)
          /\ quality'.trusted = quality.trusted + (IF o.trusted /\ o.clean THEN 1 ELSE 0)
          /\ quality'.ambiguous = quality.ambiguous + (IF o.trusted /\ o.clean THEN 0 ELSE 1)
          /\ quality'.unclean = quality.unclean + (IF o.clean THEN 0 ELSE 1)
      BY ONLY <3>1, <3>a DEF ObserveQualityMetrics
    <3>4. /\ quality'.valid <= quality'.attempts /\ quality'.trusted <= quality'.valid
          /\ quality'.trusted + quality'.ambiguous = quality'.attempts
          /\ quality'.unclean <= quality'.attempts
      BY <3>2, <3>3
    <3>5. untrusted' => untrusted \/ ~o.trusted
      BY <3>1
    <3>6. untrusted => quality'.trusted < quality'.attempts
      BY <2>3, <3>3
    <3>7. ~o.trusted => quality'.trusted < quality'.attempts
      BY <3>3
    <3>. QED BY <2>1, <2>3, <3>3, <3>4, <3>5, <3>6, <3>7
  <2>. QED BY <2>2, <2>3
<1>20. CASE ProcessOutputFails
  BY <1>20 DEF ProcessOutputFails, Throw, worldVars, auxVars
<1>21. CASE CancelAfter
  BY <1>21 DEF CancelAfter, worldVars, others, taskVars, auxVars
<1>22. CASE CallbackExchange
  BY <1>22 DEF CallbackExchange, worldVars, others, taskVars, auxVars
<1>23. CASE CallbackClose
  BY <1>23 DEF CallbackClose, worldVars, others, taskVars, auxVars
<1>24. CASE WindowEnds \/ LeaseExpires \/ ServerChanges \/ ServerExits
           \/ UNCHANGED vars
  BY <1>24
  DEF WindowEnds, LeaseExpires, ServerChanges, ServerExits, others, taskVars, worldVars,
      auxVars, vars
<1>. QED BY <1>1, <1>2, <1>3, <1>4, <1>5, <1>6, <1>7, <1>8, <1>9, <1>10, <1>11, <1>12, <1>13,
            <1>14, <1>15, <1>16, <1>17, <1>18, <1>19, <1>20, <1>21, <1>22, <1>23, <1>24
         DEF Next, TaskStep, CallbackStep


(* What a step does to the number of frames on the wire. *)
LEMMA BodiesEffect ==
    ASSUME VoiceInv, [Next]_vars
    PROVE  /\ BodiesOnWire \in Nat
           /\ wire' = wire => BodiesOnWire' = BodiesOnWire
           /\ \A p \in Parts : wire' = Append(wire, p)
                 => BodiesOnWire' = BodiesOnWire + (IF p = "body" THEN 1 ELSE 0)
<1>1. wire \in Seq(Parts)
  BY DEF VoiceInv, VoiceTypes, WireType
<1>2. BodiesOnWire \in Nat
  BY <1>1, BodiesOfAppend, BodiesNow DEF Parts
<1>. QED BY <1>1, <1>2, BodiesOfAppend, BodiesNow

(* The sender's count is behind the frames by at most the one in flight. *)
LEMMA CountStep ==
    ASSUME MaxPackets \in Nat, VoiceInv, [Next]_vars PROVE CountInv'
<1>. USE DEF VoiceInv, VoiceTypes, PlaceTypes, FailureInv, WorldTypes, LeaseStates, CountInv,
             WireInv, Uncounted, Parts, Opening, Greeted, Writing, Closing, Capturing, Places
<1>1. CASE Validate
  BY <1>1, BodiesEffect DEF Validate, Goto, Throw, worldVars, auxVars
<1>2. CASE BeginOperation
  BY <1>2, BodiesEffect DEF BeginOperation, PipeOperations, worldVars, auxVars
<1>3. CASE ConnectEnds
  BY <1>3, BodiesEffect DEF ConnectEnds, Goto, Throw, worldVars, auxVars
<1>4. CASE Identify
  BY <1>4, BodiesEffect DEF Identify, Goto, Throw, worldVars, auxVars
<1>5. CASE SendNonce
  BY <1>5, BodiesEffect DEF SendNonce, Goto, Throw, Cut, worldVars, auxVars
<1>6. CASE ReceiveAcknowledgement
  BY <1>6, BodiesEffect DEF ReceiveAcknowledgement, Goto, Throw, worldVars, auxVars
<1>7. CASE Revalidate
  BY <1>7, BodiesEffect DEF Revalidate, Goto, Throw, worldVars, auxVars
<1>8. CASE Activate
  BY <1>8, BodiesEffect DEF Activate, Goto, Throw, worldVars, auxVars
<1>9. CASE Start
  BY <1>9, BodiesEffect DEF Start, Goto, Throw, worldVars, auxVars
<1>10. CASE EndWindow
  BY <1>10, BodiesEffect DEF EndWindow, Goto, Throw, worldVars, auxVars
<1>11. CASE RegisterCallback
  BY <1>11, BodiesEffect DEF RegisterCallback, Goto, Throw, CloseStreamOnce, worldVars, auxVars
<1>12. CASE WriteEnds
  BY <1>12, BodiesEffect
  DEF WriteEnds, Goto, Throw, WriteFails, Cut, CloseStreamOnce, worldVars, auxVars
<1>13. CASE FlushEnds
  BY <1>13, BodiesEffect
  DEF FlushEnds, Goto, Throw, WriteFails, Cut, CloseStreamOnce, worldVars, auxVars
<1>14. CASE Unregister
  BY <1>14, BodiesEffect DEF Unregister, worldVars, auxVars
<1>15. CASE Stop
  BY <1>15, BodiesEffect DEF Stop, worldVars, auxVars
<1>16. CASE DisposeSink
  BY <1>16, BodiesEffect DEF DisposeSink, Goto, CloseStreamOnce, worldVars, auxVars
<1>17. CASE DisposeBackend
  BY <1>17, BodiesEffect DEF DisposeBackend, Goto, worldVars, auxVars
<1>18. CASE Report
  BY <1>18, BodiesEffect DEF Report, worldVars, auxVars
<1>19. CASE ReadProcessedPcm
  BY <1>19, BodiesEffect
  DEF ReadProcessedPcm, Goto, Throw, Observation, ObserveQualityMetrics, worldVars, auxVars
<1>20. CASE ProcessOutputFails
  BY <1>20, BodiesEffect DEF ProcessOutputFails, Throw, worldVars, auxVars
<1>21. CASE CancelAfter
  BY <1>21, BodiesEffect DEF CancelAfter, worldVars, others, taskVars, auxVars
<1>22. CASE CallbackExchange
  BY <1>22, BodiesEffect DEF CallbackExchange, worldVars, others, taskVars, auxVars
<1>23. CASE CallbackClose
  BY <1>23, BodiesEffect DEF CallbackClose, worldVars, others, taskVars, auxVars
<1>24. CASE WindowEnds \/ LeaseExpires \/ ServerChanges \/ ServerExits
           \/ UNCHANGED vars
  BY <1>24, BodiesEffect
  DEF WindowEnds, LeaseExpires, ServerChanges, ServerExits, others, taskVars, worldVars,
      auxVars, vars
<1>. QED BY <1>1, <1>2, <1>3, <1>4, <1>5, <1>6, <1>7, <1>8, <1>9, <1>10, <1>11, <1>12, <1>13,
            <1>14, <1>15, <1>16, <1>17, <1>18, <1>19, <1>20, <1>21, <1>22, <1>23, <1>24
         DEF Next, TaskStep, CallbackStep

(* A lease gone stale stays stale, and what depends on it is not begun. *)
LEMMA LeaseStep ==
    ASSUME MaxPackets \in Nat, VoiceInv, [Next]_vars PROVE LeaseInv'
<1>. USE DEF VoiceInv, VoiceTypes, PlaceTypes, WorldTypes, BackendType, FailureInv, CountInv,
             BackendInv, WireInv, StreamInv, LeaseStates, LeaseInv, Parts, Opening, Greeted,
             Writing, Closing, Capturing, Places
<1>1. CASE Validate
  BY <1>1, BodiesEffect DEF Validate, Goto, Throw, worldVars, auxVars
<1>2. CASE BeginOperation
  BY <1>2, BodiesEffect DEF BeginOperation, PipeOperations, worldVars, auxVars
<1>3. CASE ConnectEnds
  BY <1>3, BodiesEffect DEF ConnectEnds, Goto, Throw, worldVars, auxVars
<1>4. CASE Identify
  BY <1>4, BodiesEffect DEF Identify, Goto, Throw, worldVars, auxVars
<1>5. CASE SendNonce
  BY <1>5, BodiesEffect DEF SendNonce, Goto, Throw, Cut, worldVars, auxVars
<1>6. CASE ReceiveAcknowledgement
  BY <1>6, BodiesEffect DEF ReceiveAcknowledgement, Goto, Throw, worldVars, auxVars
<1>7. CASE Revalidate
  BY <1>7, BodiesEffect DEF Revalidate, Goto, Throw, worldVars, auxVars
<1>8. CASE Activate
  BY <1>8, BodiesEffect DEF Activate, Goto, Throw, worldVars, auxVars
<1>9. CASE Start
  BY <1>9, BodiesEffect DEF Start, Goto, Throw, worldVars, auxVars
<1>10. CASE EndWindow
  BY <1>10, BodiesEffect DEF EndWindow, Goto, Throw, worldVars, auxVars
<1>11. CASE RegisterCallback
  BY <1>11, BodiesEffect DEF RegisterCallback, Goto, Throw, CloseStreamOnce, worldVars, auxVars
<1>12. CASE WriteEnds
  BY <1>12, BodiesEffect
  DEF WriteEnds, Goto, Throw, WriteFails, Cut, CloseStreamOnce, worldVars, auxVars
<1>13. CASE FlushEnds
  BY <1>13, BodiesEffect
  DEF FlushEnds, Goto, Throw, WriteFails, Cut, CloseStreamOnce, worldVars, auxVars
<1>14. CASE Unregister
  BY <1>14, BodiesEffect DEF Unregister, worldVars, auxVars
<1>15. CASE Stop
  BY <1>15, BodiesEffect DEF Stop, worldVars, auxVars
<1>16. CASE DisposeSink
  BY <1>16, BodiesEffect DEF DisposeSink, Goto, CloseStreamOnce, worldVars, auxVars
<1>17. CASE DisposeBackend
  BY <1>17, BodiesEffect DEF DisposeBackend, Goto, worldVars, auxVars
<1>18. CASE Report
  BY <1>18, BodiesEffect DEF Report, worldVars, auxVars
<1>19. CASE ReadProcessedPcm
  BY <1>19, BodiesEffect
  DEF ReadProcessedPcm, Goto, Throw, Observation, ObserveQualityMetrics, worldVars, auxVars
<1>20. CASE ProcessOutputFails
  BY <1>20, BodiesEffect DEF ProcessOutputFails, Throw, worldVars, auxVars
<1>21. CASE CancelAfter
  BY <1>21, BodiesEffect DEF CancelAfter, worldVars, others, taskVars, auxVars
<1>22. CASE CallbackExchange
  BY <1>22, BodiesEffect DEF CallbackExchange, worldVars, others, taskVars, auxVars
<1>23. CASE CallbackClose
  BY <1>23, BodiesEffect DEF CallbackClose, worldVars, others, taskVars, auxVars
<1>24. CASE WindowEnds \/ LeaseExpires \/ ServerChanges \/ ServerExits
           \/ UNCHANGED vars
  BY <1>24, BodiesEffect
  DEF WindowEnds, LeaseExpires, ServerChanges, ServerExits, others, taskVars, worldVars,
      auxVars, vars
<1>. QED BY <1>1, <1>2, <1>3, <1>4, <1>5, <1>6, <1>7, <1>8, <1>9, <1>10, <1>11, <1>12, <1>13,
            <1>14, <1>15, <1>16, <1>17, <1>18, <1>19, <1>20, <1>21, <1>22, <1>23, <1>24
         DEF Next, TaskStep, CallbackStep


(* A report is written once, from what is so then. *)
LEMMA ReportStep == ASSUME MaxPackets \in Nat, VoiceInv, [Next]_vars PROVE VoiceReportIsTrue'
<1>. USE DEF VoiceInv, VoiceTypes
<1>1. CASE Report
  <2>1. /\ at = "report"
        /\ UNCHANGED <<failure, cleanupFailed, packets, sink, backend, quality, mode, wire,
                       untrusted>>
    BY <1>1 DEF Report, auxVars
  <2>2. failure = "none" => wire = [n \in 1 .. (2 * packets + 1) |-> Part(n)]
    BY <2>1 DEF WireInv, WireType, Closing
  <2>3. sink.stream # "open" /\ sink.closes <= 1
    BY <2>1 DEF StreamInv
  <2>4. cleanupFailed = FALSE => ~backend.streaming /\ ~backend.started
    BY <2>1 DEF BackendInv, Capturing, Writing
  <2>5. failure = "none" /\ cleanupFailed = FALSE => LifecycleMatches
    BY <2>1 DEF BackendInv, SinkInv, Closing, LifecycleMatches
  <2>6. failure = "none" /\ mode = "aec" => QualityMetricsCountsMatchWindow
    BY <2>1 DEF QualityInv, Closing, QualityMetricsCountsMatchWindow, QualityType
  <2>7. failure = "none" /\ ClassifyNearEndQualityMetricsWindow = "distinguished" => ~untrusted
    <3>1. CASE mode = "aec"
      BY <2>1, <3>1 DEF QualityInv, QualityType, ClassifyNearEndQualityMetricsWindow
    <3>2. CASE mode # "aec"
      <4>1. quality.attempts = 0
        BY <3>2 DEF QualityInv
      <4>. QED BY <4>1
               DEF ClassifyNearEndQualityMetricsWindow, QualityMetricsCountsMatchWindow,
                   PlaceTypes
    <3>. QED BY <3>1, <3>2
  <2>8. CASE cleanupFailed = TRUE
    <3>1. outcome' = "cleanup_failed"
      BY <1>1, <2>8 DEF Report
    <3>. QED BY <2>1, <2>3, <3>1 DEF VoiceReportIsTrue, Observed, CleanupClass
  <2>9. CASE cleanupFailed = FALSE /\ failure # "none"
    <3>1. outcome' = failure
      BY <1>1, <2>9 DEF Report
    <3>2. failure \in Failures
      BY DEF ClassTypes
    <3>3. failure = "lease_expired" => backend.activates = 0 /\ backend.starts = 0
      BY DEF BackendInv
    <3>. QED BY <2>1, <2>3, <2>4, <2>9, <3>1, <3>2, <3>3
             DEF VoiceReportIsTrue, Observed, CleanupClass, Failures
  <2>10. CASE cleanupFailed = FALSE /\ failure = "none"
    <3>1. quality.unclean # 0 => outcome' = "quality_metrics_cleanup_failed"
      BY <1>1, <2>10 DEF Report
    <3>2. quality.unclean = 0 => outcome' = ClassifyNearEndQualityMetricsWindow
      BY <1>1, <2>5, <2>6, <2>10 DEF Report
    <3>3. ClassifyNearEndQualityMetricsWindow \in Observed
      BY DEF ClassifyNearEndQualityMetricsWindow, Observed
    <3>4. outcome' \in {"quality_metrics_cleanup_failed"} \cup Observed
      BY <3>1, <3>2, <3>3
    <3>5. outcome' = "distinguished" => ~untrusted'
      BY <2>1, <2>7, <2>10, <3>1, <3>2
    <3>6. wire' = [n \in 1 .. (2 * packets' + 1) |-> Part(n)]
      BY <2>1, <2>2, <2>10
    <3>. QED BY <2>1, <2>3, <2>4, <2>10, <3>4, <3>5, <3>6
             DEF VoiceReportIsTrue, Observed, CleanupClass, Part
  <2>. QED BY <2>8, <2>9, <2>10 DEF PlaceTypes
<1>2. CASE outcome' = "pending"
  BY <1>2 DEF VoiceReportIsTrue
<1>3. CASE UNCHANGED <<outcome, wire, packets, untrusted, sink, backend>>
  BY <1>3 DEF VoiceReportIsTrue, CleanupClass
<1>4. Report \/ outcome' = outcome
  BY DEF Next, TaskStep, CallbackStep, Validate, Goto, Throw, worldVars, auxVars,
     BeginOperation, ConnectEnds, Identify, SendNonce, ReceiveAcknowledgement, Revalidate,
     Activate, Start, EndWindow, RegisterCallback, WriteEnds, WriteFails, FlushEnds, Unregister,
     Stop, DisposeSink, DisposeBackend, ReadProcessedPcm, ProcessOutputFails, CancelAfter,
     others, taskVars, CallbackExchange, CallbackClose, WindowEnds, LeaseExpires, ServerChanges,
     ServerExits, vars
<1>5. at = "done" => UNCHANGED <<outcome, wire, packets, untrusted, sink, backend>>
  <2>1. at = "done" => callback = "none"
    BY DEF StreamInv
  <2>. QED BY <2>1
           DEF Next, TaskStep, CallbackStep, Report, Validate, worldVars, auxVars,
               BeginOperation, PipeOperations, ConnectEnds, Identify, SendNonce,
               ReceiveAcknowledgement, Revalidate, Activate, Start, EndWindow, RegisterCallback,
               WriteEnds, FlushEnds, Unregister, Stop, DisposeSink, DisposeBackend,
               ReadProcessedPcm, ProcessOutputFails, CancelAfter, others, taskVars,
               CallbackExchange, CallbackClose, WindowEnds, LeaseExpires, ServerChanges,
               ServerExits, vars
<1>. QED BY <1>1, <1>2, <1>3, <1>4, <1>5 DEF FailureInv

-----------------------------------------------------------------------------
(* A capture starts with all the parts true. *)
LEMMA InitHolds == ASSUME MaxPackets \in Nat, Init PROVE VoiceInv
<1>1. BodiesOnWire = 0
  BY EmptyWire, BodiesNow DEF Init
<1>2. VoiceTypes
  <2>1. sink \in Sinks /\ backend \in Backends
    BY DEF Init, Sinks, Backends
  <2>2. WorldTypes
    BY DEF Init, WorldTypes, LeaseStates
  <2>3. quality \in [attempts: Nat, valid: Nat, trusted: Nat, ambiguous: Nat, unclean: Nat]
    BY DEF Init
  <2>4. WireType
    BY DEF Init, WireType
  <2>5. PlaceTypes
    <3>1. packets \in 0 .. MaxPackets
      BY DEF Init
    <3>. QED BY <3>1 DEF Init, PlaceTypes, Places, Opening
  <2>6. ClassTypes
    BY DEF Init, ClassTypes, Failures, Outcomes
  <2>. QED BY <2>1, <2>2, <2>3, <2>4, <2>5, <2>6
           DEF QualityType, VoiceTypes, SinkType, BackendType
<1>3. FailureInv /\ StreamInv /\ SinkInv /\ BackendInv /\ QualityInv
  BY DEF Init, FailureInv, StreamInv, SinkInv, BackendInv, QualityInv, Uncounted,
         Opening, Greeted, Writing, Capturing, Closing
<1>4. WireInv
  BY DEF Init, WireInv, Uncounted, Opening, Greeted, Writing, Closing
<1>5. CountInv /\ LeaseInv
  BY <1>1 DEF Init, CountInv, LeaseInv, Uncounted, Opening, Greeted, Writing, Capturing, Closing
<1>6. VoiceReportIsTrue
  BY DEF Init, VoiceReportIsTrue
<1>. QED BY <1>1, <1>2, <1>3, <1>4, <1>5, <1>6 DEF VoiceInv

(* Every step keeps them all. *)
LEMMA StepHolds == ASSUME MaxPackets \in Nat, VoiceInv, [Next]_vars PROVE VoiceInv'
<1>1. VoiceTypes'
  BY PlaceTypesStep, ClassTypesStep, WorldTypesStep, SinkTypeStep, BackendTypeStep,
     QualityTypeStep,
     WireTypeStep DEF VoiceTypes
<1>. QED BY <1>1, FailureStep, WireStep, CountStep, StreamStep, SinkStep, BackendStep,
            QualityStep,
            LeaseStep, ReportStep DEF VoiceInv

(* For any number of packets the parts above hold in every state of a capture: the counters  *)
(* of three objects, the two threads that close the pipe and what is on the wire agree with   *)
(* the place ObserveWithBackendAsync is at.                                                   *)
THEOREM VoiceInvariant == Spec => []VoiceInv
<1>1. Init => VoiceInv
  BY InitHolds, MaxPacketsAssumption
<1>2. VoiceInv /\ [Next]_vars => VoiceInv'
  BY StepHolds, MaxPacketsAssumption
<1>. QED BY <1>1, <1>2, PTL DEF Spec

(* Every variable of the capture keeps its type and the counters of the sink and the backend  *)
(* their bounds.                                                                              *)
THEOREM TypeOKHolds == Spec => []VoiceTypeOK
<1>1. VoiceInv => VoiceTypeOK
  <2>. SUFFICES ASSUME VoiceInv PROVE VoiceTypeOK
    OBVIOUS
  <2>. USE DEF VoiceInv, VoiceTypes
  <2>1. at \in PipeOperations \cup
          {"validate", "identify", "revalidate", "activate", "start", "loop", "register",
           "flush", "unregister", "stop", "sink", "backend", "report", "done"}
    BY DEF PlaceTypes, Places, Opening, Greeted, Capturing, Writing, Closing, PipeOperations
  <2>2. sink \in [stream: {"none", "open", "closed"}, streamClosed: BOOLEAN, closes: 0..1,
                  connects: 0..1, writes: 0..MaxPackets, releases: 0..1]
    <3>1. sink \in Sinks
      BY DEF SinkType
    <3>2. /\ sink.closes \in 0 .. 1 /\ sink.connects \in 0 .. 1
          /\ sink.writes \in 0 .. MaxPackets /\ sink.releases \in 0 .. 1
      BY <3>1, MaxPacketsAssumption DEF StreamInv, SinkInv, Sinks
    <3>. QED BY <3>1, <3>2 DEF Sinks
  <2>3. backend \in [object: BOOLEAN, streaming: BOOLEAN, started: BOOLEAN, activates: 0..1,
                     starts: 0..1, stopAttempts: 0..1, stops: 0..1, releases: 0..1]
    <3>1. backend \in Backends
      BY DEF BackendType
    <3>2. /\ backend.activates \in 0 .. 1 /\ backend.starts \in 0 .. 1
          /\ backend.stopAttempts \in 0 .. 1 /\ backend.stops \in 0 .. 1 /\ backend.releases \in 0 .. 1
      BY <3>1 DEF BackendInv, Backends
    <3>. QED BY <3>1, <3>2 DEF Backends
  <2>4. wire \in Seq({"nonce", "prefix", "body", "torn"})
    BY DEF WireType, Parts
  <2>. QED BY <2>1, <2>2, <2>3, <2>4
           DEF VoiceTypeOK, PlaceTypes, ClassTypes, WorldTypes, QualityType
<1>. QED BY <1>1, VoiceInvariant, PTL

(* What Report and the wrapper's cleanup class say of a capture is so, in whichever order the *)
(* token, its callback, the pipe server and the task met.                                     *)
THEOREM ReportIsTrueHolds == Spec => []VoiceReportIsTrue
<1>1. VoiceInv => VoiceReportIsTrue
  BY DEF VoiceInv
<1>. QED BY <1>1, VoiceInvariant, PTL

(* A lease found stale when the server answered never activates the DSP or writes a frame,    *)
(* and nobody but its owner is sent the nonce.                                                *)
THEOREM StaleLeaseNeverCapturesHolds == Spec => []StaleLeaseNeverCaptures
<1>1. VoiceInv => StaleLeaseNeverCaptures
  BY DEF VoiceInv, LeaseInv, StaleLeaseNeverCaptures
<1>. QED BY <1>1, VoiceInvariant, PTL

-----------------------------------------------------------------------------
(* The refinement *)

Torn(w) == "torn" \in {w[i] : i \in DOMAIN w}
Shut == sink.stream = "closed" \/ Torn(wire)
Phase == IF Shut THEN "closed" ELSE IF ackLease = "none" THEN "unopened" ELSE "open"

(* A pipe that was closed or broken off stays so. *)
LEMMA ShutForGood == ASSUME MaxPackets \in Nat, VoiceInv, [Next]_vars PROVE Shut => Shut'
<1>1. wire' = wire \/ \E p \in Parts : wire' = Append(wire, p)
  BY DEF Next, TaskStep, CallbackStep, VoiceInv, Parts, Validate, worldVars, auxVars,
     BeginOperation, ConnectEnds, Identify, SendNonce, Cut, ReceiveAcknowledgement, Revalidate,
     Activate, Start, EndWindow, RegisterCallback, WriteEnds, WriteFails, FlushEnds, Unregister,
     Stop, DisposeSink, DisposeBackend, Report, ReadProcessedPcm, ProcessOutputFails,
     CancelAfter, others, taskVars, CallbackExchange, CallbackClose, WindowEnds, LeaseExpires,
     ServerChanges, ServerExits, vars
<1>2. Torn(wire) => Torn(wire')
  <2>1. wire \in Seq(Parts)
    BY DEF VoiceInv, VoiceTypes, WireType
  <2>2. ASSUME NEW p \in Parts, wire' = Append(wire, p), Torn(wire) PROVE Torn(wire')
    <3>1. PICK i \in DOMAIN wire : wire[i] = "torn"
      BY <2>2 DEF Torn
    <3>2. i \in DOMAIN wire' /\ wire'[i] = "torn"
      BY <2>1, <2>2, <3>1
    <3>. QED BY <3>2 DEF Torn
  <2>. QED BY <1>1, <2>2
<1>3. sink.stream = "closed" => sink'.stream = "closed"
  <2>. SUFFICES ASSUME sink.stream = "closed" PROVE sink'.stream = "closed"
    OBVIOUS
  <2>1. sink \in Sinks /\ SinkFacts(sink) /\ sink.streamClosed
    BY SinkUpdates DEF VoiceInv, VoiceTypes, SinkType, StreamInv
  <2>2. at \notin Opening \cup Greeted /\ callback # "closing"
    BY <2>1 DEF VoiceInv, StreamInv
  <2>3. CASE UNCHANGED sink
    BY <2>3
  <2>4. CASE FlushEnds
    BY <2>1, <2>4 DEF FlushEnds, WriteFails, SinkFacts, Wrote, ClosedOnce
  <2>5. CASE RegisterCallback \/ WriteEnds
    BY <2>1, <2>5 DEF RegisterCallback, WriteEnds, WriteFails, SinkFacts, ClosedOnce
  <2>6. CASE DisposeSink
    BY <2>1, <2>6 DEF DisposeSink, SinkFacts, ClosedOnce
  <2>7. CASE BeginOperation \/ ConnectEnds \/ ReceiveAcknowledgement
    <3>1. UNCHANGED sink
      BY <2>2, <2>7 DEF BeginOperation, ConnectEnds, ReceiveAcknowledgement, Opening, Greeted
    <3>. QED BY <2>3, <3>1
  <2>8. CASE CallbackStep
    <3>1. UNCHANGED sink
      BY <2>1, <2>2, <2>8 DEF CallbackStep, CallbackExchange, CallbackClose
    <3>. QED BY <2>3, <3>1
  <2>. QED BY <2>3, <2>4, <2>5, <2>6, <2>7, <2>8
          DEF Next, TaskStep, Validate, Identify, SendNonce, Revalidate, Activate, Start,
              EndWindow, Unregister, Stop, DisposeBackend, Report, ReadProcessedPcm,
              ProcessOutputFails, CancelAfter, WindowEnds, LeaseExpires, ServerChanges,
              ServerExits, others, vars
<1>. QED BY <1>2, <1>3 DEF Shut

(* As long as nothing failed, nothing on the wire is torn. *)
LEMMA WholeUntilFailure == ASSUME VoiceInv, failure = "none" PROVE ~Torn(wire)
<1>1. \A n \in DOMAIN wire : wire[n] # "torn"
  BY DEF VoiceInv, WireInv, Part
<1>. QED BY <1>1 DEF Torn

(* Every step of a capture is one of the channel, or none that it shows. *)
LEMMA ChannelStep ==
    ASSUME MaxPackets \in Nat, VoiceInv, [Next]_vars
    PROVE  [Channel!Next]_<<Phase, BodiesOnWire, packets>>
<1>. USE DEF VoiceInv
<1>1. CASE UNCHANGED <<BodiesOnWire, packets, ackLease>>
  <2>1. Phase' = Phase \/ (Phase # "closed" /\ Phase' = "closed")
    BY <1>1, ShutForGood DEF Phase
  <2>. QED BY <1>1, <2>1 DEF Channel!Next, Channel!Close, Phase, Shut, Torn
<1>2. CASE ReceiveAcknowledgement /\ ackLease' # ackLease
  <2>1. at = "ack" /\ at' = "revalidate" /\ ackLease' = lease /\ sink'.stream = sink.stream
        /\ UNCHANGED <<wire, packets, failure>>
    BY <1>2 DEF ReceiveAcknowledgement, Goto, Throw, VoiceTypes, SinkType, Sinks
  <2>2. failure = "none" /\ sink.stream # "closed" /\ ackLease = "none"
    BY <2>1 DEF FailureInv, StreamInv, LeaseInv, Opening, Greeted, Closing
  <2>3. ackLease' # "none" /\ BodiesOnWire' = BodiesOnWire
    BY <2>1, BodiesEffect DEF VoiceTypes, WorldTypes, LeaseStates
  <2>4. ~Torn(wire)
    BY <2>2, WholeUntilFailure
  <2>5. Phase = "unopened" /\ Phase' = "open"
    BY <2>1, <2>2, <2>3, <2>4 DEF Phase, Shut
  <2>. QED BY <2>1, <2>3, <2>5 DEF Channel!Next, Channel!Open, Phase, Shut, Torn
<1>3. CASE WriteEnds /\ at = "body" /\ wire' = Append(wire, "body")
  <2>1. at' = "flush" /\ UNCHANGED <<sink, packets, ackLease, failure>> /\ sink.stream = "open"
    <3>1. wire' # wire /\ wire' # Append(wire, "torn")
      BY <1>3 DEF VoiceTypes, WireType, Parts
    <3>. QED BY <1>3, <3>1 DEF WriteEnds, WriteFails, Cut, Goto, auxVars
  <2>2. failure = "none" /\ BodiesOnWire = packets /\ ackLease = "valid"
    BY <1>3 DEF FailureInv, CountInv, LeaseInv, Closing, Capturing, Writing
  <2>3. BodiesOnWire' = BodiesOnWire + 1
    BY <1>3, BodiesEffect DEF Parts
  <2>4. ~Torn(wire) /\ ~Torn(wire')
    BY <1>3, <2>2, WholeUntilFailure DEF Torn, VoiceTypes, WireType
  <2>5. Phase = "open" /\ Phase' = "open"
    BY <2>1, <2>2, <2>4 DEF Phase, Shut
  <2>. QED BY <2>1, <2>2, <2>3, <2>5 DEF Channel!Next, Channel!Deliver, Phase, Shut, Torn
<1>4. CASE Unregister /\ failure = "none"
  <2>1. packets' = packets + 1 /\ UNCHANGED <<sink, wire, ackLease>>
    BY <1>4 DEF Unregister, auxVars
  <2>2. BodiesOnWire = packets + 1 /\ BodiesOnWire' = BodiesOnWire
    BY <1>4, <2>1, BodiesEffect DEF Unregister, CountInv, Uncounted
  <2>3. Phase' = Phase
    BY <2>1 DEF Phase, Shut
  <2>. QED BY <2>1, <2>2, <2>3 DEF Channel!Next, Channel!Count, Phase, Shut, Torn
<1>5. \/ /\ UNCHANGED <<packets, ackLease>>
         /\ wire' = wire \/ \E p \in {"nonce", "prefix", "torn"} : wire' = Append(wire, p)
      \/ UNCHANGED <<wire, packets, ackLease>>
      \/ ReceiveAcknowledgement /\ (ackLease' # ackLease \/ UNCHANGED <<wire, packets, ackLease>>)
      \/ WriteEnds /\ at = "body" /\ wire' = Append(wire, "body")
      \/ Unregister /\ failure = "none"
  BY DEF Next, TaskStep, CallbackStep, Validate, Goto, Throw, worldVars, auxVars,
     BeginOperation, ConnectEnds, Identify, SendNonce, Cut, ReceiveAcknowledgement, Revalidate,
     Activate, Start, EndWindow, RegisterCallback, WriteEnds, WriteFails, FlushEnds, Unregister,
     Stop, DisposeSink, DisposeBackend, Report, ReadProcessedPcm, ProcessOutputFails,
     CancelAfter, others, taskVars, CallbackExchange, CallbackClose, WindowEnds, LeaseExpires,
     ServerChanges, ServerExits, vars
<1>. QED BY <1>1, <1>2, <1>3, <1>4, <1>5, BodiesEffect DEF Parts

(* On the wire a capture is a framed channel: no frame follows a cut one or the close, and    *)
(* packetCount is behind the complete frames by at most the one in flight.                     *)
THEOREM ImplementsFramedChannelHolds == Spec => ImplementsFramedChannel
<1>1. Init => Channel!Init
  <2>. SUFFICES ASSUME Init PROVE Channel!Init
    OBVIOUS
  <2>1. BodiesOnWire = 0
    BY EmptyWire, BodiesNow DEF Init
  <2>2. sink.stream # "closed" /\ "torn" \notin {wire[i] : i \in DOMAIN wire} /\ ackLease = "none"
    BY DEF Init
  <2>. QED BY <2>1, <2>2 DEF Channel!Init, Init
<1>2. VoiceInv /\ [Next]_vars =>
         [Channel!Next]_<<IF \/ sink.stream = "closed"
                             \/ "torn" \in {wire[i] : i \in DOMAIN wire}
                          THEN "closed" ELSE IF ackLease = "none" THEN "unopened" ELSE "open",
                          BodiesOnWire, packets>>
  BY ChannelStep, MaxPacketsAssumption DEF Phase, Shut, Torn
<1>. QED BY <1>1, <1>2, VoiceInvariant, PTL DEF Spec, ImplementsFramedChannel, Channel!Spec
=============================================================================
