--------------------------- MODULE MemoryRetrieval ---------------------------
(***************************************************************************)
(* retrieve_context (store.py) running beside the clients that write: one  *)
(* reader answers one query with a SELECT per record id, correlation id,   *)
(* tag and source ref.  The SELECTs are separate autocommit reads, so the  *)
(* writers of MemoryStore may commit between any two of them.              *)
(***************************************************************************)
EXTENDS MemoryStore, SequencesExt

CONSTANTS
    Queries,    \* the queries the reader may be asked
    DepthLimits \* DEFAULT_RETRIEVAL_DEPTH_LIMITS, scaled down for TLC

Depths == {"light_auto", "conditional_deep", "explicit_recall"}
LowPriorityHistoryTags == {"resolved", "resolved_issue", "regression_reference"}

Query == [depth: Depths, record_ids: Seq(Records), correlation_ids: Seq(CorrelationIds),
          tags: Seq(Tags), source_refs: Seq(SourceRefs), max_results: Nat]

ASSUME DepthLimitsAssumption == DepthLimits \in [Depths -> Nat \ {0}]
ASSUME QueriesAssumption == Queries \subseteq Query

VARIABLES
    query,    \* the query being answered, NoQuery between calls
    lookups,  \* the SELECTs still to make, in order
    results,  \* the summaries collected, each the row its SELECT returned
    blocked,  \* blocked_results
    steady    \* auxiliary: the records retrievable since the call began

NoQuery == [depth |-> "none"]
readerVars == <<query, lookups, results, blocked, steady>>
retrievalVars == <<rows, index, log, op, query, lookups, results, blocked, steady>>

Retrievable(r) == rows[r] # NoRow /\ rows[r].normal_retrieval_allowed

-----------------------------------------------------------------------------
(* What one SELECT returns: the row of an id whatever its flags, otherwise
   the rows open to normal retrieval that match the column or the join. *)
Found(lookup) ==
    LET Matches(r) == CASE lookup.by = "record_id" -> r = lookup.key
                        [] lookup.by = "correlation_id" ->
                               lookup.key \in rows[r].correlation_ids
                        [] lookup.by = "tag" -> lookup.key \in index[r].tags
                        [] lookup.by = "source_ref" -> lookup.key \in index[r].source_refs
    IN {r \in Records : /\ rows[r] # NoRow
                        /\ lookup.by = "record_id" \/ rows[r].normal_retrieval_allowed
                        /\ Matches(r)}

(* max_results: absent, zero or too large means the limit of the depth. *)
ResultLimit(q) ==
    IF q.max_results \in 1..DepthLimits[q.depth] THEN q.max_results ELSE DepthLimits[q.depth]

LowPriority(q, tags) ==
    /\ q.depth = "light_auto"
    /\ tags \cap LowPriorityHistoryTags # {}
    /\ ToSet(q.tags) \cap LowPriorityHistoryTags = {}

Collected(r) == \E i \in DOMAIN results : results[i].record_id = r

(* Mutant of _append_context_summary: the row's flag is not checked. *)
OutcomeUnchecked(r) ==
    IF Collected(r) THEN "collected"
    ELSE IF LowPriority(query, rows[r].content.tags) THEN "low_priority_history_excluded"
    ELSE "fits"

(* What _append_context_summary makes of a row: nothing, when the context has
   the record already, a refusal, or a summary if the context has room. *)
Outcome(r) ==
    IF Collected(r) THEN "collected"
    ELSE IF ~rows[r].normal_retrieval_allowed THEN "normal_retrieval_not_allowed"
    ELSE IF LowPriority(query, rows[r].content.tags) THEN "low_priority_history_excluded"
    ELSE "fits"

-----------------------------------------------------------------------------
By(kind, keys) == [i \in DOMAIN keys |-> [by |-> kind, key |-> keys[i]]]

(* Mutant: the tags are not looked up. *)
StartQueryWithoutTags(q) ==
    /\ query = NoQuery
    /\ query' = q
    /\ lookups' = By("record_id", q.record_ids) \o By("correlation_id", q.correlation_ids)
                     \o By("source_ref", q.source_refs)
    /\ results' = <<>>
    /\ blocked' = <<>>
    /\ steady' = {r \in Records : Retrievable(r)}
    /\ UNCHANGED vars

StartQuery(q) ==
    /\ query = NoQuery
    /\ query' = q
    /\ lookups' = By("record_id", q.record_ids) \o By("correlation_id", q.correlation_ids)
                     \o By("tag", q.tags) \o By("source_ref", q.source_refs)
    /\ results' = <<>>
    /\ blocked' = <<>>
    /\ steady' = {r \in Records : Retrievable(r)}
    /\ UNCHANGED vars

Refusal(r, reason) == [record_id |-> r, reason_code |-> reason]

(* One SELECT and the loop over its rows, in an order left open here: the code
   orders them by creation second and id.  A record has one row, so what becomes
   of it does not depend on the other rows, but for the room they leave.  A
   record id without a row is refused for its KeyError. *)
LookUp ==
    /\ query # NoQuery /\ lookups # <<>>
    /\ LET lookup == Head(lookups)
           found == Found(lookup)
           room == ResultLimit(query) - Len(results)
       IN \E fitting \in SetToSeqs({r \in found : Outcome(r) = "fits"}),
             refused \in SetToSeqs({r \in found : Outcome(r) \notin {"fits", "collected"}}) :
             LET added == IF Len(fitting) <= room THEN Len(fitting) ELSE room
                 refusals == IF lookup.by = "record_id" /\ found = {}
                             THEN <<Refusal(lookup.key, "record_not_found")>>
                             ELSE [i \in DOMAIN refused |-> Refusal(refused[i], Outcome(refused[i]))]
             IN /\ results' = results \o [i \in 1 .. added |-> [record_id |-> fitting[i],
                                                              row |-> rows[fitting[i]]]]
                /\ blocked' = blocked \o refusals
    /\ lookups' = Tail(lookups)
    /\ UNCHANGED <<query, steady>>
    /\ UNCHANGED vars

(* The context is built and returned; the next call starts afresh. *)
ReturnContext ==
    /\ query # NoQuery /\ lookups = <<>>
    /\ query' = NoQuery
    /\ results' = <<>> /\ blocked' = <<>> /\ steady' = {}
    /\ UNCHANGED <<lookups>>
    /\ UNCHANGED vars

WriterStep ==
    /\ Next
    /\ steady' = {r \in steady : rows'[r].normal_retrieval_allowed}
    /\ UNCHANGED <<query, lookups, results, blocked>>

RetrievalInit ==
    /\ Init
    /\ query = NoQuery /\ lookups = <<>> /\ results = <<>> /\ blocked = <<>> /\ steady = {}

RetrievalNext ==
    \/ \E q \in Queries : StartQuery(q)
    \/ LookUp
    \/ ReturnContext
    \/ WriterStep

RetrievalSpec == RetrievalInit /\ [][RetrievalNext]_retrievalVars

-----------------------------------------------------------------------------
Answered == query # NoQuery /\ lookups = <<>>

ReasonCodes == {"record_not_found", "normal_retrieval_not_allowed",
                "low_priority_history_excluded"}

(* Type invariant: every entry of the context is a row that was there, and every
   refusal names one of retrieve_context's reasons. *)
RetrievalTypeOK ==
    /\ query \in Queries \cup {NoQuery}
    /\ \A i \in DOMAIN results : results[i].record_id \in Records /\ results[i].row \in Row
    /\ \A i \in DOMAIN blocked : /\ blocked[i].record_id \in Records
                                 /\ blocked[i].reason_code \in ReasonCodes
    /\ steady \subseteq Records

(* The context is bounded by the depth's limit whatever the lookups return,
   and a record found by several lookups is in it once. *)
BoundedAndDistinct ==
    query # NoQuery =>
        /\ Len(results) <= ResultLimit(query)
        /\ \A i, j \in DOMAIN results :
              results[i].record_id = results[j].record_id => i = j

(* No summary in the context is of an unsafe, deletion-requested, retired or
   redacted version of a record, although the writers commit in between and
   the row's flag is all that most SELECTs test. *)
ContextIsLive ==
    \A i \in DOMAIN results :
        LET row == results[i].row IN
        /\ ~row.unsafe_quarantine /\ ~row.deletion_requested
        /\ row.lifecycle_action = "none" /\ ~row.content.redacted

(* With ids recorded once, a record is never both in the context and refused
   in it: the SELECTs are made at different times but do not contradict each
   other.  (A record id asked for before its candidate was recorded is the
   exception: it was not found, and then it was.) *)
NoContradiction ==
    \A i \in DOMAIN results, j \in DOMAIN blocked :
        results[i].record_id = blocked[j].record_id
            => blocked[j].reason_code = "record_not_found"

(* What a reader relies on when it uses a context, whatever the writers commit
   between its SELECTs. *)
ContextIsSound == RetrievalTypeOK /\ BoundedAndDistinct /\ ContextIsLive /\ NoContradiction

(* A record open to retrieval during the whole call, matched by one of its
   lookups and not low-priority history, is missed only when the context is
   full. *)
Asked(q, r) ==
    \/ r \in ToSet(q.record_ids)
    \/ ToSet(q.correlation_ids) \cap rows[r].correlation_ids # {}
    \/ ToSet(q.tags) \cap index[r].tags # {}
    \/ ToSet(q.source_refs) \cap index[r].source_refs # {}

NothingMissed ==
    Answered => \A r \in steady :
        Asked(query, r) /\ ~LowPriority(query, rows[r].content.tags)
            => \/ \E i \in DOMAIN results : results[i].record_id = r
               \/ Len(results) = ResultLimit(query)
=============================================================================
