------------------------ MODULE MemoryStoreProperties ------------------------
(***************************************************************************)
(* What should hold of the store, apart from how it works.  "Since" means  *)
(* since the record's row was last written whole by record_candidate.      *)
(***************************************************************************)
EXTENDS MemoryStore

Since(r, entries) ==
    \E i \in DOMAIN log[r] : i > rows[r].created_at /\ log[r][i] \in entries

Recorded(r) == rows[r] # NoRow

(* Entries after which no reader should get the record in normal retrieval. *)
BlockingEntries == AllLifecycleActions \cup {"reject", "quarantine", "superseded"}

(* Entries that treat the record's content as worth keeping. *)
KeepingEntries == AllSignals \cup {"promote"}

-----------------------------------------------------------------------------
(* With one client *)

(* A record is open to normal retrieval only while its row carries no reason
   to hold it back and holds the recorded content: the flag is a copy of
   facts that four other mutators change. *)
RetrievableIsLive ==
    \A r \in Records :
        Recorded(r) /\ rows[r].normal_retrieval_allowed =>
            /\ ~rows[r].unsafe_quarantine
            /\ ~rows[r].deletion_requested
            /\ rows[r].lifecycle_action = "none"
            /\ ~rows[r].content.redacted

(* No later decision or signal reopens a record that an audit row since took
   out of normal retrieval, whatever the sequence of calls. *)
BlockingIsPermanent ==
    \A r \in Records :
        Recorded(r) /\ Since(r, BlockingEntries) => ~rows[r].normal_retrieval_allowed

(* The audit tables never show a record promoted or reinforced after it was
   deleted, and a deleted record keeps its redacted content. *)
DeletionIsFinal ==
    \A r \in Records :
        Recorded(r) =>
            /\ \A i, j \in DOMAIN log[r] :
                  i > rows[r].created_at /\ log[r][i] = "delete" /\ i < j
                      => log[r][j] \notin KeepingEntries
            /\ Since(r, {"delete"}) => rows[r].content.redacted

(* The three together: no sequence of calls of one client opens, keeps open or
   keeps using a record that an earlier call took away from the readers. *)
RetentionIsSound == RetrievableIsLive /\ BlockingIsPermanent /\ DeletionIsFinal

AuditCount(r, signal) ==
    Cardinality({i \in DOMAIN log[r] : i > rows[r].created_at /\ log[r][i] = signal})

(* What the candidate brought along and the reinforcement updates since. *)
CountedUses(r, signal) == rows[r].recorded_counters[signal] + AuditCount(r, signal)

(* The counters in content_json are those of the recorded candidate plus the
   reinforcement updates in the audit table, up to the cap: a counter is read,
   incremented in Python and written back, so a lost or repeated update would
   show here. *)
CountersMatchAudit ==
    \A r \in Records, s \in Signals :
        Recorded(r) /\ ~rows[r].content.redacted =>
            rows[r].content.counters[s] =
                IF CountedUses(r, s) > CounterCap THEN CounterCap + 1 ELSE CountedUses(r, s)

(* The store implements what MemoryRetention promises. *)
RetentionPhase(r) ==
    IF rows[r] = NoRow THEN "absent"
    ELSE IF rows[r].normal_retrieval_allowed THEN "retrievable"
    ELSE IF rows[r].content.redacted THEN "tombstoned" ELSE "blocked"

RetentionVersion(r) == IF rows[r] = NoRow THEN 0 ELSE rows[r].created_at

Retention == INSTANCE MemoryRetention
    WITH phase <- [r \in Records |-> RetentionPhase(r)],
         version <- [r \in Records |-> RetentionVersion(r)]

ImplementsRetention == Retention!Spec

-----------------------------------------------------------------------------
(* With any number of clients, ids reused or not *)

(* record_candidate may replace a row between another operation's SELECT and
   its commit, which then writes values of the old recording into the new row.
   A row that holds only values of its own recording: *)
OwnValues(r) == rows[r].provenance = {rows[r].created_at}

(* Unsafe content never reaches normal retrieval, is never promoted or
   reinforced and keeps its high importance, however the clients' reads, commits
   and re-recordings interleave: an operation that read a safe recording of the
   id and commits over an unsafe one is the only way round the quarantine. *)
QuarantineHolds ==
    \A r \in Records :
        Recorded(r) /\ OwnValues(r) /\ rows[r].unsafe_quarantine =>
            /\ ~rows[r].normal_retrieval_allowed
            /\ rows[r].importance = "high"
            /\ ~Since(r, KeepingEntries)

(* A counter never exceeds what the candidate brought along and the
   reinforcement updates in the audit table since: concurrent updates may be
   lost from content_json, and a deletion may be undone, but no use is invented. *)
CountersNeverExceedAudit ==
    \A r \in Records, s \in Signals :
        Recorded(r) /\ OwnValues(r) =>
            rows[r].content.counters[s] <= CountedUses(r, s)

(* The index rows follow the row they are kept beside: a join by tag finds a
   record by the tags its summary shows, whatever was recorded under the id
   before, and finds a deleted record by nothing, even when an overtaken
   reinforcement has put its content back. *)
IndexFollowsRow ==
    \A r \in Records :
        Recorded(r) /\ OwnValues(r) =>
            IF Since(r, {"delete"}) THEN index[r] = NoIndexRows
            ELSE index[r].tags = rows[r].content.tags

(* deletion_requested is set for good: no stale write-back clears it, only a
   new recording of the id does. *)
DeletionRequestSticks ==
    [][\A r \in Records :
        Recorded(r) /\ rows[r].deletion_requested =>
            \/ rows'[r].deletion_requested
            \/ rows'[r].created_at > rows[r].created_at]_vars

-----------------------------------------------------------------------------
(* What the documentation says and the interleavings of two clients break *)

(* README.md: "Deletion requests and unsafe quarantine take precedence and
   cannot be overridden by reinforcement." *)
DeletionOverridesReinforcement ==
    \A r \in Records : Recorded(r) /\ Since(r, {"delete"}) => rows[r].content.redacted
=============================================================================
