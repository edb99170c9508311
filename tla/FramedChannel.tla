---------------------------- MODULE FramedChannel ----------------------------
(***************************************************************************)
(* What the voice capture observer promises its pipe server, stated from   *)
(* NamedPipePcmSink (runtime/audio-awareness/windows/VoiceCaptureDspAec.cs)*)
(* without its writes and cancellation: whole frames, one at a time, only  *)
(* between an opening and a close that nothing follows.  The sender's own  *)
(* count is behind by at most the frame in flight.                         *)
(***************************************************************************)
EXTENDS Naturals

VARIABLES
    phase,     \* of the channel
    delivered, \* complete frames on the wire
    counted    \* frames the sender takes for delivered

Init == phase = "unopened" /\ delivered = 0 /\ counted = 0

Open == phase = "unopened" /\ phase' = "open" /\ UNCHANGED <<delivered, counted>>

Deliver == /\ phase = "open" /\ delivered = counted
           /\ delivered' = delivered + 1
           /\ UNCHANGED <<phase, counted>>

Count == /\ delivered = counted + 1
         /\ counted' = delivered
         /\ UNCHANGED <<phase, delivered>>

Close == phase # "closed" /\ phase' = "closed" /\ UNCHANGED <<delivered, counted>>

Next == Open \/ Deliver \/ Count \/ Close

Spec == Init /\ [][Next]_<<phase, delivered, counted>>
=============================================================================
