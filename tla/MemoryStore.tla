----------------------------- MODULE MemoryStore -----------------------------
(***************************************************************************)
(* The write side of Memory Core's SQLite store                            *)
(* (runtime/memory-core/src/memory_core/{store,schema,organize}.py).       *)
(*                                                                         *)
(* A client is one MemoryStore object, that is one sqlite3 connection on   *)
(* the database file.  Every mutator except record_candidate first SELECTs *)
(* the row in autocommit mode, decides in Python, and only then opens its  *)
(* write transaction (`with self.connection`), which SQLite makes atomic.  *)
(* The row read first is kept in `op` until the commit, where parts of it  *)
(* are written back.  With one client nothing can happen in between; with  *)
(* several, another client's transaction can.                              *)
(***************************************************************************)
EXTENDS Integers, Sequences, FiniteSets

CONSTANTS
    Records,          \* record ids
    Clients,          \* MemoryStore objects open on the database file
    Candidates,       \* the memory candidates the clients may record
    Decisions,        \* promotion decisions in use
    Signals,          \* reinforcement signals in use
    LifecycleActions, \* lifecycle actions in use
    NoRow,            \* a record id without a row
    FreshIds,         \* TRUE: every candidate gets an id of its own (the uuid default)
    CounterCap,       \* the 1_000_000 of safe_non_negative_int
    MaxLog            \* bound: transactions per record id

AllDecisions == {"promote", "hold", "reject", "merge", "quarantine",
                 "superseded", "needs_human_review"}
AllSignals == {"reference", "rerecording", "similar_record", "successful_use",
               "explicit_importance", "failure_prevention", "work_continuity",
               "correction"}
AllLifecycleActions == {"expire", "deprecate", "forget", "delete"}
LifecycleValues == AllLifecycleActions \cup {"none", "delete_requested"}
Importance == {"low", "medium", "high"}

Tags == {"safety", "explicit_remember", "deletion_requested", "deletion_request",
         "failure_pattern", "user_correction", "long_term_candidate",
         "current_state", "resolved_issue", "topic"}
SourceRefs == {"event:1"}
CorrelationIds == {"trace:1", "turn:1"}

(* The signals whose counters a candidate brings along: reference_count,
   refresh_count, similar_record_count, success_use_count, correction_count. *)
CandidateSignals == {"reference", "rerecording", "similar_record",
                     "successful_use", "correction"}

(* What the caller hands to record_candidate, reduced to what the store
   decides on: `unsafe` says unsafe_reason_codes found something. *)
Candidate == [tags: SUBSET Tags, source_refs: SUBSET SourceRefs,
              correlation_ids: SUBSET CorrelationIds, unsafe: BOOLEAN,
              deletion_flag: BOOLEAN, state_like: BOOLEAN,
              observed_at: BOOLEAN, source_author: BOOLEAN,
              counters: [CandidateSignals -> Nat]]

ASSUME ClientsAssumption == Clients # {}
ASSUME InputsAssumption == /\ Candidates \subseteq Candidate
                           /\ Decisions \subseteq AllDecisions
                           /\ Signals \subseteq AllSignals
                           /\ LifecycleActions \subseteq AllLifecycleActions
ASSUME BoundsAssumption == /\ FreshIds \in BOOLEAN
                           /\ CounterCap \in Nat
                           /\ MaxLog \in Nat

VARIABLES
    rows,  \* memory_records
    index, \* memory_tags, memory_source_refs and memory_relations
    log,   \* per record, its committed transactions in commit order: the rows
           \* of the three audit tables, and "recorded" for record_candidate
    op     \* the mutator each client is in the middle of, with the row it read

vars == <<rows, index, log, op>>

Counters == [Signals -> 0..(CounterCap + 1)]

(* content_json: the candidate's body, or the tombstone that replaced it. *)
Content == [redacted: BOOLEAN, tags: SUBSET Tags, counters: Counters]

(* The columns later decisions read.  created_at is the position in the log
   of the transaction that wrote the whole row; no UPDATE touches it.  Two
   fields are auxiliary: the counters the row was recorded with, and the
   recordings, by created_at, whose values the row holds. *)
Row == [created_at: Nat, correlation_ids: SUBSET CorrelationIds,
        unsafe_quarantine: BOOLEAN, deletion_requested: BOOLEAN,
        lifecycle_action: LifecycleValues, normal_retrieval_allowed: BOOLEAN,
        history_retrieval_allowed: BOOLEAN, importance: Importance,
        content: Content, recorded_counters: Counters, provenance: SUBSET Nat]

ASSUME NoRowAssumption == NoRow \notin Row

IndexRows == [tags: SUBSET Tags, source_refs: SUBSET SourceRefs,
              relations: SUBSET (CorrelationIds \cup SourceRefs)]
NoIndexRows == [tags |-> {}, source_refs |-> {}, relations |-> {}]

LogEntry == {"recorded"} \cup AllDecisions \cup AllSignals \cup AllLifecycleActions

Idle == [kind |-> "idle"]
Operation == {Idle}
    \cup [kind: {"promotion"}, record: Records, arg: Decisions, row: Row]
    \cup [kind: {"reinforcement"}, record: Records, arg: Signals, row: Row]
    \cup [kind: {"lifecycle"}, record: Records, arg: LifecycleActions, row: Row]

TypeOK ==
    /\ rows \in [Records -> Row \cup {NoRow}]
    /\ index \in [Records -> IndexRows]
    /\ log \in [Records -> Seq(LogEntry)]
    /\ op \in [Clients -> Operation]
    /\ \A client \in Clients : \* no operation removes a row
          op[client].kind # "idle" => rows[op[client].record] # NoRow

-----------------------------------------------------------------------------
(* build_memory_record and organize_record *)

HighPriorityTags == {"safety", "review_blocker", "explicit_remember",
                     "deletion_requested", "failure_pattern"}
MediumPriorityTags == {"correction", "user_correction", "user_feedback",
                       "action_result", "long_term_candidate"}

DeletionRequested(c) ==
    c.deletion_flag \/ c.tags \cap {"deletion_requested", "deletion_request"} # {}

CurrentStateMetadataMissing(c) ==
    /\ c.state_like \/ "current_state" \in c.tags
    /\ ~c.observed_at \/ (c.source_refs = {} /\ ~c.source_author)

OrganizedImportance(c) ==
    IF c.unsafe \/ c.tags \cap HighPriorityTags # {} THEN "high"
    ELSE IF c.tags \cap MediumPriorityTags # {} THEN "medium" ELSE "low"

(* safe_non_negative_int *)
AtMostCap(n) == IF n > CounterCap THEN CounterCap ELSE n

RecordedCounters(c) ==
    [s \in Signals |-> IF s \in CandidateSignals THEN AtMostCap(c.counters[s]) ELSE 0]

NewRow(c, now) ==
    [created_at |-> now, correlation_ids |-> c.correlation_ids,
     unsafe_quarantine |-> c.unsafe,
     deletion_requested |-> DeletionRequested(c),
     lifecycle_action |-> IF DeletionRequested(c) THEN "delete_requested" ELSE "none",
     normal_retrieval_allowed |-> /\ ~(c.unsafe \/ DeletionRequested(c))
                                  /\ ~CurrentStateMetadataMissing(c),
     history_retrieval_allowed |-> ~c.unsafe,
     importance |-> OrganizedImportance(c),
     content |-> [redacted |-> FALSE, tags |-> c.tags, counters |-> RecordedCounters(c)],
     recorded_counters |-> RecordedCounters(c),
     provenance |-> {now}]

CandidateIndexRows(c) ==
    [tags |-> c.tags, source_refs |-> c.source_refs,
     relations |-> c.correlation_ids \cup c.source_refs]

-----------------------------------------------------------------------------
(* The operations *)

Logged(r, e) == log' = [log EXCEPT ![r] = Append(@, e)]

(* Mutant: the old index rows are not deleted. *)
RecordCandidateKeepsIndex(client, r, c) ==
    /\ op[client] = Idle
    /\ FreshIds => rows[r] = NoRow
    /\ Len(log[r]) < MaxLog
    /\ rows' = [rows EXCEPT ![r] = NewRow(c, Len(log[r]) + 1)]
    /\ index' = [index EXCEPT ![r] =
                    [k \in DOMAIN @ |-> @[k] \cup CandidateIndexRows(c)[k]]]
    /\ Logged(r, "recorded")
    /\ UNCHANGED op

(* record_candidate: one transaction that replaces the whole row, whatever
   was there, and the record's index rows. *)
RecordCandidate(client, r, c) ==
    /\ op[client] = Idle
    /\ FreshIds => rows[r] = NoRow
    /\ Len(log[r]) < MaxLog
    /\ rows' = [rows EXCEPT ![r] = NewRow(c, Len(log[r]) + 1)]
    /\ index' = [index EXCEPT ![r] = CandidateIndexRows(c)]
    /\ Logged(r, "recorded")
    /\ UNCHANGED op

Read(client, kind, r, arg) ==
    /\ op[client] = Idle
    /\ rows[r] # NoRow
    /\ op' = [op EXCEPT ![client] =
                [kind |-> kind, record |-> r, arg |-> arg, row |-> rows[r]]]
    /\ UNCHANGED <<rows, index, log>>

(* The SELECT and the checks before each mutator's transaction. *)
ReadForPromotion(client, r, decision) ==
    /\ Read(client, "promotion", r, decision)
    /\ decision = "promote" => ~(rows[r].unsafe_quarantine \/ rows[r].deletion_requested)

(* Mutant: the quarantine check is missing. *)
ReadForReinforcementUnsafe(client, r, signal) ==
    /\ Read(client, "reinforcement", r, signal)
    /\ ~rows[r].deletion_requested
    /\ rows[r].lifecycle_action # "delete"

ReadForReinforcement(client, r, signal) ==
    /\ Read(client, "reinforcement", r, signal)
    /\ ~rows[r].unsafe_quarantine
    /\ ~rows[r].deletion_requested
    /\ rows[r].lifecycle_action # "delete"

ReadForLifecycle(client, r, action) == Read(client, "lifecycle", r, action)

(* Mutant: the audit row is lost although the row is updated. *)
CommitWithoutAudit(client, newRow) ==
    /\ Len(log[op[client].record]) < MaxLog
    /\ rows' = [rows EXCEPT ![op[client].record] = newRow]
    /\ op' = [op EXCEPT ![client] = Idle]
    /\ UNCHANGED log

(* A write transaction on an existing row: an audit row and an UPDATE that
   sets the columns of newRow.  Rows are never removed, so the UPDATE always
   finds its row. *)
Commit(client, newRow) ==
    LET r == op[client].record IN
    /\ Len(log[r]) < MaxLog
    /\ rows' = [rows EXCEPT ![r] = newRow]
    /\ Logged(r, op[client].arg)
    /\ op' = [op EXCEPT ![client] = Idle]

(* Mutants: a decision that does not block opens the record; the whole row
   that was read is written back. *)
PromotedRowReopens(current, read, decision) ==
    [current EXCEPT !.normal_retrieval_allowed =
        decision \notin {"reject", "quarantine", "superseded"}]

PromotedRowWhole(current, read, decision) ==
    [read EXCEPT !.normal_retrieval_allowed =
        decision \notin {"reject", "quarantine", "superseded"} /\ @]

(* record_promotion_decision writes back the normal_retrieval_allowed it read,
   unless the decision blocks the record. *)
PromotedRow(current, read, decision) ==
    IF decision \in {"reject", "quarantine", "superseded"}
    THEN [current EXCEPT !.normal_retrieval_allowed = FALSE]
    ELSE [current EXCEPT !.normal_retrieval_allowed = read.normal_retrieval_allowed,
                         !.provenance = @ \cup {read.created_at}]

CommitPromotion(client) ==
    /\ op[client].kind = "promotion"
    /\ Commit(client, PromotedRow(rows[op[client].record], op[client].row, op[client].arg))
    /\ UNCHANGED index

ReinforcedImportance(current, signal) ==
    CASE signal \in {"explicit_importance", "failure_prevention", "work_continuity"} -> "high"
      [] signal = "correction" -> IF current = "high" THEN "medium" ELSE "low"
      [] OTHER -> IF current = "low" THEN "medium" ELSE current

(* Mutant: the cap is forgotten. *)
IncrementedUncapped(n) == n + 1

Incremented(n) == AtMostCap(n) + 1

(* record_reinforcement_update writes back the content and importance it
   derived from the row it read. *)
ReinforcedRow(current, read, signal) ==
    [current EXCEPT
        !.importance = ReinforcedImportance(read.importance, signal),
        !.content = [read.content EXCEPT !.counters[signal] = Incremented(@)],
        !.provenance = @ \cup {read.created_at}]

CommitReinforcement(client) ==
    /\ op[client].kind = "reinforcement"
    /\ Commit(client, ReinforcedRow(rows[op[client].record], op[client].row, op[client].arg))
    /\ UNCHANGED index

(* record_lifecycle_event for expire, deprecate and forget. *)
RetiredRow(current, action) ==
    [current EXCEPT !.lifecycle_action = action,
                    !.normal_retrieval_allowed = FALSE,
                    !.history_retrieval_allowed = TRUE]

CommitLifecycle(client) ==
    /\ op[client].kind = "lifecycle"
    /\ op[client].arg # "delete"
    /\ Commit(client, RetiredRow(rows[op[client].record], op[client].arg))
    /\ UNCHANGED index

(* tombstone_memory, which record_lifecycle_event("delete") calls. *)
TombstonedRow(current) ==
    [current EXCEPT !.lifecycle_action = "delete",
                    !.deletion_requested = TRUE,
                    !.normal_retrieval_allowed = FALSE,
                    !.history_retrieval_allowed = FALSE,
                    !.content = [redacted |-> TRUE, tags |-> {},
                                 counters |-> [s \in Signals |-> 0]]]

CommitTombstone(client) ==
    /\ op[client].kind = "lifecycle"
    /\ op[client].arg = "delete"
    /\ Commit(client, TombstonedRow(rows[op[client].record]))
    /\ index' = [index EXCEPT ![op[client].record] = NoIndexRows]

(* The process dies, or SQLite reports "database is locked", before the
   transaction commits: it is rolled back and the operation is gone. *)
Abandon(client) ==
    /\ op[client] # Idle
    /\ op' = [op EXCEPT ![client] = Idle]
    /\ UNCHANGED <<rows, index, log>>

-----------------------------------------------------------------------------
Init ==
    /\ rows = [r \in Records |-> NoRow]
    /\ index = [r \in Records |-> NoIndexRows]
    /\ log = [r \in Records |-> <<>>]
    /\ op = [client \in Clients |-> Idle]

ClientStep(client) ==
    \/ \E r \in Records, c \in Candidates : RecordCandidate(client, r, c)
    \/ \E r \in Records, d \in Decisions : ReadForPromotion(client, r, d)
    \/ \E r \in Records, s \in Signals : ReadForReinforcement(client, r, s)
    \/ \E r \in Records, a \in LifecycleActions : ReadForLifecycle(client, r, a)
    \/ CommitPromotion(client)
    \/ CommitReinforcement(client)
    \/ CommitLifecycle(client)
    \/ CommitTombstone(client)
    \/ Abandon(client)

Next == \E client \in Clients : ClientStep(client)

Spec == Init /\ [][Next]_vars
=============================================================================
