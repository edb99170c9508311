-------------------------- MODULE MCMemoryRetrieval --------------------------
(* A small instance of MemoryRetrieval: one writer, one reader, two records. *)
EXTENDS MemoryRetrieval

CONSTANTS r1, r2

Plain == [tags |-> {"topic"}, source_refs |-> SourceRefs,
          correlation_ids |-> CorrelationIds, unsafe |-> FALSE,
          deletion_flag |-> FALSE, state_like |-> FALSE,
          observed_at |-> FALSE, source_author |-> FALSE,
          counters |-> [s \in CandidateSignals |-> 0]]

MCCandidates == {Plain,
                 [Plain EXCEPT !.unsafe = TRUE],
                 [Plain EXCEPT !.tags = {"topic", "resolved_issue"}]}

MCRecords == {r1, r2}
MCDepthLimits == [d \in Depths |-> IF d = "light_auto" THEN 1 ELSE 2]

Ask(depth, ids, correlated, tags, refs, max) ==
    [depth |-> depth, record_ids |-> ids, correlation_ids |-> correlated,
     tags |-> tags, source_refs |-> refs, max_results |-> max]

MCQueries == {Ask("light_auto", <<r2, r1>>, <<"trace:1">>, <<>>, <<>>, 0),
              Ask("light_auto", <<>>, <<>>, <<"resolved_issue", "topic">>, <<>>, 5),
              Ask("explicit_recall", <<r1>>, <<"turn:1">>, <<"topic">>, <<>>, 0),
              Ask("conditional_deep", <<>>, <<>>, <<>>, <<"event:1">>, 1)}
=============================================================================
