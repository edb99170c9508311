--------------------------- MODULE MemoryRetention ---------------------------
(***************************************************************************)
(* What Memory Core promises a reader about one record id, without saying  *)
(* how rows, audit tables and connections bring it about: once a record is *)
(* held back it stays held back, once it is tombstoned it stays            *)
(* tombstoned, and only recording a new version starts over.  Stated from  *)
(* record_candidate, record_lifecycle_event, tombstone_memory and          *)
(* record_promotion_decision (store.py).                                   *)
(***************************************************************************)
EXTENDS Naturals

CONSTANT Records

VARIABLES
    phase,   \* what the record is to a reader
    version  \* which recording of the id is the current one; 0 for none

Phases == {"absent", "retrievable", "blocked", "tombstoned"}

TypeOK == phase \in [Records -> Phases] /\ version \in [Records -> Nat]

Init == /\ phase = [r \in Records |-> "absent"]
        /\ version = [r \in Records |-> 0]

(* A candidate is recorded, over whatever the id stood for. *)
Record(r) ==
    /\ version'[r] \in Nat /\ version'[r] > version[r]
    /\ version' = [version EXCEPT ![r] = version'[r]]
    /\ \E p \in {"retrievable", "blocked"} : phase' = [phase EXCEPT ![r] = p]

(* A decision or a lifecycle action takes the record out of retrieval. *)
Block(r) ==
    /\ phase[r] = "retrievable"
    /\ phase' = [phase EXCEPT ![r] = "blocked"]
    /\ UNCHANGED version

Tombstone(r) ==
    /\ phase[r] \in {"retrievable", "blocked"}
    /\ phase' = [phase EXCEPT ![r] = "tombstoned"]
    /\ UNCHANGED version

Next == \E r \in Records : Record(r) \/ Block(r) \/ Tombstone(r)

Spec == Init /\ [][Next]_<<phase, version>>
=============================================================================
