---------------------------- MODULE MCMemoryStore ----------------------------
(* Small instances of MemoryStore for TLC. *)
EXTENDS MemoryStoreProperties, TLC

Plain == [tags |-> {"topic"}, source_refs |-> SourceRefs,
          correlation_ids |-> CorrelationIds, unsafe |-> FALSE,
          deletion_flag |-> FALSE, state_like |-> FALSE,
          observed_at |-> FALSE, source_author |-> FALSE,
          counters |-> [s \in CandidateSignals |-> IF s = "reference" THEN 1 ELSE 7]]

Unsafe == [Plain EXCEPT !.unsafe = TRUE]
ToBeDeleted == [Plain EXCEPT !.tags = {"deletion_request"}]
StateWithoutSource == [Plain EXCEPT !.tags = {"current_state", "user_correction"},
                                    !.source_refs = {},
                                    !.counters = [s \in CandidateSignals |-> 0]]

(* The clients are alike. *)
ClientSymmetry == Permutations(Clients)

MCCandidates == {Plain, Unsafe, ToBeDeleted, StateWithoutSource}
=============================================================================
