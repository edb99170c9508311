-------------------------- MODULE MemoryStoreProofs --------------------------
(***************************************************************************)
(* Theorems about MemoryStore, and about MemoryRetrieval beside it, for    *)
(* every set of records, clients, candidates and queries, checked by TLAPS.*)
(***************************************************************************)
EXTENDS MemoryStoreProperties, MemoryRetrieval, FiniteSetTheorems, SequenceTheorems, TLAPS

-----------------------------------------------------------------------------
(* Types *)

(* The counters a row is recorded with are within the cap. *)
LEMMA RecordedCountersType ==
    ASSUME NEW c \in Candidate
    PROVE  /\ RecordedCounters(c) \in Counters
           /\ \A s \in Signals : RecordedCounters(c)[s] \in 0..CounterCap
<1>1. c.counters \in [CandidateSignals -> Nat]
  BY DEF Candidate
<1>2. \A n \in Nat : AtMostCap(n) \in 0..CounterCap
  BY BoundsAssumption DEF AtMostCap
<1>3. 0 \in 0..CounterCap /\ 0..CounterCap \subseteq 0..(CounterCap + 1)
  BY BoundsAssumption
<1>4. \A s \in Signals : RecordedCounters(c)[s] \in 0..CounterCap
  BY <1>1, <1>2, <1>3 DEF RecordedCounters
<1>5. DOMAIN RecordedCounters(c) = Signals
  BY DEF RecordedCounters
<1>6. RecordedCounters(c) \in [Signals -> 0..CounterCap]
  BY <1>4 DEF RecordedCounters
<1> QED BY <1>3, <1>4, <1>6 DEF Counters

(* A row built from a candidate has the columns of a row. *)
LEMMA NewRowType ==
    ASSUME NEW c \in Candidate, NEW now \in Nat
    PROVE  NewRow(c, now) \in Row
<1>1. OrganizedImportance(c) \in Importance
  BY DEF OrganizedImportance, Importance
<1>2. /\ [redacted |-> FALSE, tags |-> c.tags, counters |-> RecordedCounters(c)] \in Content
      /\ RecordedCounters(c) \in Counters
  <2>1. c.tags \in SUBSET Tags
    BY DEF Candidate
  <2> QED BY <2>1, RecordedCountersType DEF Content
<1>3. /\ c.correlation_ids \in SUBSET CorrelationIds
      /\ c.unsafe \in BOOLEAN
  BY DEF Candidate
<1>4. /\ DeletionRequested(c) \in BOOLEAN
      /\ CurrentStateMetadataMissing(c) \in BOOLEAN
  BY DEF Candidate, DeletionRequested, CurrentStateMetadataMissing
<1> QED
  BY <1>1, <1>2, <1>3, <1>4 DEF NewRow, Row, LifecycleValues, AllLifecycleActions

(* Each UPDATE leaves a row a row. *)
LEMMA UpdatedRowType ==
    ASSUME NEW row \in Row, NEW read \in Row
    PROVE  /\ \A d \in AllDecisions : PromotedRow(row, read, d) \in Row
           /\ \A s \in Signals : ReinforcedRow(row, read, s) \in Row
           /\ \A a \in AllLifecycleActions : RetiredRow(row, a) \in Row
           /\ TombstonedRow(row) \in Row
<1>1. \A d \in AllDecisions : PromotedRow(row, read, d) \in Row
  BY DEF PromotedRow, Row
<1>2. ASSUME NEW s \in Signals PROVE ReinforcedRow(row, read, s) \in Row
  <2>1. ReinforcedImportance(read.importance, s) \in Importance
    BY DEF ReinforcedImportance, Importance, Row
  <2>2. read.content \in Content /\ read.content.counters \in Counters
    BY DEF Row, Content
  <2>3. Incremented(read.content.counters[s]) \in 0..(CounterCap + 1)
    BY <2>2, BoundsAssumption DEF Incremented, AtMostCap, Counters
  <2>4. [read.content EXCEPT !.counters[s] = Incremented(@)] \in Content
    BY <2>2, <2>3 DEF Content, Counters
  <2> QED BY <2>1, <2>4 DEF ReinforcedRow, Row
<1>3. \A a \in AllLifecycleActions : RetiredRow(row, a) \in Row
  BY DEF RetiredRow, Row, LifecycleValues
<1>4. TombstonedRow(row) \in Row
  <2>1. [s \in Signals |-> 0] \in Counters
    BY BoundsAssumption DEF Counters
  <2>2. [redacted |-> TRUE, tags |-> {}, counters |-> [s \in Signals |-> 0]] \in Content
    BY <2>1 DEF Content
  <2> QED BY <2>2 DEF TombstonedRow, Row, LifecycleValues, AllLifecycleActions
<1> QED BY <1>1, <1>2, <1>3, <1>4

(* The index rows written with a candidate. *)
LEMMA CandidateIndexType ==
    ASSUME NEW c \in Candidate
    PROVE  CandidateIndexRows(c) \in IndexRows
BY DEF CandidateIndexRows, Candidate, IndexRows

(* What a client in the middle of a mutator holds. *)
LEMMA PendingType ==
    ASSUME TypeOK, NEW client \in Clients, op[client].kind # "idle"
    PROVE  /\ op[client].record \in Records
           /\ rows[op[client].record] \in Row
           /\ op[client].row \in Row
           /\ op[client].kind = "promotion" => op[client].arg \in Decisions
           /\ op[client].kind = "reinforcement" => op[client].arg \in Signals
           /\ op[client].kind = "lifecycle" => op[client].arg \in LifecycleActions
           /\ op[client].arg \in LogEntry
<1>1. op[client] \in Operation \ {Idle}
  BY DEF TypeOK, Idle
<1>2. op[client].record \in Records /\ op[client].row \in Row
  BY <1>1 DEF Operation
<1>3. rows[op[client].record] \in Row
  BY <1>2 DEF TypeOK
<1>4. /\ op[client].kind = "promotion" => op[client].arg \in Decisions
      /\ op[client].kind = "reinforcement" => op[client].arg \in Signals
      /\ op[client].kind = "lifecycle" => op[client].arg \in LifecycleActions
      /\ op[client].kind \in {"promotion", "reinforcement", "lifecycle"}
  BY <1>1 DEF Operation
<1>5. op[client].arg \in LogEntry
  BY <1>4, InputsAssumption DEF LogEntry
<1> QED BY <1>2, <1>3, <1>4, <1>5

(* Replacing one row by another and going idle keeps the state typed. *)
LEMMA CommitType ==
    ASSUME TypeOK, NEW client \in Clients, op[client].kind # "idle",
           NEW newRow \in Row, Commit(client, newRow), index' \in [Records -> IndexRows]
    PROVE  TypeOK'
<1> DEFINE r == op[client].record
<1>1. r \in Records /\ op[client].arg \in LogEntry
  BY PendingType
<1>2. rows' = [rows EXCEPT ![r] = newRow] /\ op' = [op EXCEPT ![client] = Idle]
  BY DEF Commit
<1>3. rows' \in [Records -> Row \cup {NoRow}]
  BY <1>1, <1>2 DEF TypeOK
<1>4. log' \in [Records -> Seq(LogEntry)]
  <2>1. Append(log[r], op[client].arg) \in Seq(LogEntry)
    BY <1>1 DEF TypeOK
  <2> QED BY <1>1, <2>1 DEF Commit, Logged, TypeOK
<1>5. op' \in [Clients -> Operation]
  BY <1>2 DEF TypeOK, Operation
<1>6. ASSUME NEW other \in Clients, op'[other].kind # "idle"
      PROVE  rows'[op'[other].record] # NoRow
  <2>1. other # client /\ op'[other] = op[other]
    BY <1>2, <1>6 DEF TypeOK, Idle
  <2>2. rows[op[other].record] # NoRow /\ op[other].record \in Records
    BY <2>1, <1>6, PendingType DEF TypeOK
  <2> QED BY <1>2, <2>1, <2>2, NoRowAssumption DEF TypeOK
<1> QED BY <1>3, <1>4, <1>5, <1>6 DEF TypeOK

LEMMA RecordCandidateType ==
    ASSUME TypeOK, NEW client \in Clients, NEW r \in Records, NEW c \in Candidates,
           RecordCandidate(client, r, c)
    PROVE  TypeOK'
<1>1. Len(log[r]) + 1 \in Nat
  BY DEF TypeOK
<1>2. NewRow(c, Len(log[r]) + 1) \in Row /\ CandidateIndexRows(c) \in IndexRows
  BY <1>1, NewRowType, CandidateIndexType, InputsAssumption
<1>3. Append(log[r], "recorded") \in Seq(LogEntry)
  BY DEF TypeOK, LogEntry
<1>4. /\ rows' \in [Records -> Row \cup {NoRow}]
      /\ index' \in [Records -> IndexRows]
      /\ log' \in [Records -> Seq(LogEntry)]
      /\ op' \in [Clients -> Operation]
  BY <1>2, <1>3 DEF RecordCandidate, Logged, TypeOK
<1>5. ASSUME NEW other \in Clients, op'[other].kind # "idle"
      PROVE  rows'[op'[other].record] # NoRow
  <2>1. op'[other] = op[other]
    BY DEF RecordCandidate
  <2>2. rows[op[other].record] # NoRow /\ op[other].record \in Records
    BY <2>1, <1>5, PendingType DEF TypeOK
  <2> QED BY <1>2, <2>1, <2>2, NoRowAssumption DEF RecordCandidate, TypeOK
<1> QED BY <1>4, <1>5 DEF TypeOK

LEMMA ReadType ==
    ASSUME TypeOK, NEW client \in Clients, NEW r \in Records, NEW kind, NEW arg,
           Read(client, kind, r, arg),
           \/ kind = "promotion" /\ arg \in Decisions
           \/ kind = "reinforcement" /\ arg \in Signals
           \/ kind = "lifecycle" /\ arg \in LifecycleActions
    PROVE  TypeOK'
<1>1. rows[r] \in Row
  BY DEF Read, TypeOK
<1>2. [kind |-> kind, record |-> r, arg |-> arg, row |-> rows[r]] \in Operation
  BY <1>1 DEF Operation
<1> QED BY <1>2 DEF Read, TypeOK

(* Each client's committing step writes a typed row. *)
LEMMA CommitActionType ==
    ASSUME TypeOK, NEW client \in Clients,
           \/ CommitPromotion(client) \/ CommitReinforcement(client)
           \/ CommitLifecycle(client) \/ CommitTombstone(client)
    PROVE  TypeOK'
<1> DEFINE r == op[client].record
<1>1. /\ op[client].kind # "idle"
      /\ r \in Records /\ rows[r] \in Row /\ op[client].row \in Row
  BY PendingType DEF CommitPromotion, CommitReinforcement, CommitLifecycle, CommitTombstone
<1>2. index' \in [Records -> IndexRows]
  BY DEF CommitPromotion, CommitReinforcement, CommitLifecycle, CommitTombstone,
         NoIndexRows, IndexRows, TypeOK
<1>3. CASE CommitPromotion(client)
  BY <1>1, <1>2, <1>3, PendingType, UpdatedRowType, CommitType, InputsAssumption
     DEF CommitPromotion
<1>4. CASE CommitReinforcement(client)
  BY <1>1, <1>2, <1>4, PendingType, UpdatedRowType, CommitType DEF CommitReinforcement
<1>5. CASE CommitLifecycle(client)
  BY <1>1, <1>2, <1>5, PendingType, UpdatedRowType, CommitType, InputsAssumption
     DEF CommitLifecycle
<1>6. CASE CommitTombstone(client)
  BY <1>1, <1>2, <1>6, UpdatedRowType, CommitType DEF CommitTombstone
<1> QED BY <1>3, <1>4, <1>5, <1>6

(* Every step keeps the state typed. *)
LEMMA TypeStep == TypeOK /\ [Next]_vars => TypeOK'
<1> SUFFICES ASSUME TypeOK, [Next]_vars PROVE TypeOK'
  OBVIOUS
<1>1. CASE UNCHANGED vars
  BY <1>1 DEF vars, TypeOK
<1>2. ASSUME NEW client \in Clients, ClientStep(client) PROVE TypeOK'
  <2>1. ASSUME NEW r \in Records, NEW c \in Candidates, RecordCandidate(client, r, c)
        PROVE  TypeOK'
    BY <2>1, RecordCandidateType
  <2>2. ASSUME NEW r \in Records, NEW d \in Decisions, ReadForPromotion(client, r, d)
        PROVE  TypeOK'
    BY <2>2, ReadType DEF ReadForPromotion
  <2>3. ASSUME NEW r \in Records, NEW s \in Signals, ReadForReinforcement(client, r, s)
        PROVE  TypeOK'
    BY <2>3, ReadType DEF ReadForReinforcement
  <2>4. ASSUME NEW r \in Records, NEW a \in LifecycleActions, ReadForLifecycle(client, r, a)
        PROVE  TypeOK'
    BY <2>4, ReadType DEF ReadForLifecycle
  <2>5. CASE Abandon(client)
    BY <2>5 DEF Abandon, TypeOK, Operation, Idle
  <2> QED BY <1>2, <2>1, <2>2, <2>3, <2>4, <2>5, CommitActionType DEF ClientStep
<1> QED BY <1>1, <1>2 DEF Next

(* Every variable keeps its type in every behaviour. *)
THEOREM TypeCorrect == Spec => []TypeOK
<1>1. Init => TypeOK
  BY DEF Init, TypeOK, Operation, NoIndexRows, IndexRows, Idle
<1> QED BY <1>1, TypeStep, PTL DEF Spec

-----------------------------------------------------------------------------
(* The log and the rows *)

(* The transaction that wrote a row whole is in its record's log, and the row
   holds values of that recording. *)
RowInLog ==
    \A r \in Records :
        Recorded(r) => /\ rows[r].created_at \in 1..Len(log[r])
                       /\ rows[r].created_at \in rows[r].provenance

(* So is the transaction that wrote a row some client has read. *)
ReadsInLog ==
    \A client \in Clients :
        op[client].kind # "idle" => op[client].row.created_at <= Len(log[op[client].record])

VersionsInv == TypeOK /\ RowInLog /\ ReadsInLog

(* A commit that leaves newRow, another state of the same recording. *)
CommitOn(client, newRow) ==
    /\ op[client].kind # "idle"
    /\ newRow \in Row
    /\ newRow.created_at = rows[op[client].record].created_at
    /\ newRow.recorded_counters = rows[op[client].record].recorded_counters
    /\ rows[op[client].record].provenance \subseteq newRow.provenance
    /\ Commit(client, newRow)

(* Every committing action writes a typed row and keeps created_at. *)
LEMMA CommitForms ==
    ASSUME TypeOK, NEW client \in Clients
    PROVE  /\ CommitPromotion(client) =>
                CommitOn(client, PromotedRow(rows[op[client].record], op[client].row, op[client].arg))
           /\ CommitReinforcement(client) =>
                CommitOn(client, ReinforcedRow(rows[op[client].record], op[client].row, op[client].arg))
           /\ CommitLifecycle(client) =>
                CommitOn(client, RetiredRow(rows[op[client].record], op[client].arg))
           /\ CommitTombstone(client) =>
                CommitOn(client, TombstonedRow(rows[op[client].record]))
<1> DEFINE r == op[client].record
<1>1. CASE op[client].kind = "idle"
  BY <1>1 DEF CommitPromotion, CommitReinforcement, CommitLifecycle, CommitTombstone
<1>2. CASE op[client].kind # "idle"
  <2>1. rows[r] \in Row /\ op[client].row \in Row
    BY <1>2, PendingType
  <2>2. CommitPromotion(client) => CommitOn(client, PromotedRow(rows[r], op[client].row, op[client].arg))
    <3>1. /\ PromotedRow(rows[r], op[client].row, op[client].arg).created_at = rows[r].created_at
          /\ PromotedRow(rows[r], op[client].row, op[client].arg).recorded_counters = rows[r].recorded_counters
          /\ rows[r].provenance \subseteq PromotedRow(rows[r], op[client].row, op[client].arg).provenance
      BY <2>1 DEF PromotedRow, Row
    <3> QED BY <1>2, <2>1, <3>1, UpdatedRowType, PendingType, InputsAssumption
            DEF CommitPromotion, CommitOn
  <2>3. CommitReinforcement(client) => CommitOn(client, ReinforcedRow(rows[r], op[client].row, op[client].arg))
    <3>1. /\ ReinforcedRow(rows[r], op[client].row, op[client].arg).created_at = rows[r].created_at
          /\ ReinforcedRow(rows[r], op[client].row, op[client].arg).recorded_counters = rows[r].recorded_counters
          /\ rows[r].provenance \subseteq ReinforcedRow(rows[r], op[client].row, op[client].arg).provenance
      BY <2>1 DEF ReinforcedRow, Row
    <3> QED BY <1>2, <2>1, <3>1, UpdatedRowType, PendingType DEF CommitReinforcement, CommitOn
  <2>4. CommitLifecycle(client) => CommitOn(client, RetiredRow(rows[r], op[client].arg))
    <3>1. /\ RetiredRow(rows[r], op[client].arg).created_at = rows[r].created_at
          /\ RetiredRow(rows[r], op[client].arg).recorded_counters = rows[r].recorded_counters
          /\ rows[r].provenance \subseteq RetiredRow(rows[r], op[client].arg).provenance
      BY <2>1 DEF RetiredRow, Row
    <3> QED BY <1>2, <2>1, <3>1, UpdatedRowType, PendingType, InputsAssumption
            DEF CommitLifecycle, CommitOn
  <2>5. CommitTombstone(client) => CommitOn(client, TombstonedRow(rows[r]))
    <3>1. /\ TombstonedRow(rows[r]).created_at = rows[r].created_at
          /\ TombstonedRow(rows[r]).recorded_counters = rows[r].recorded_counters
          /\ rows[r].provenance \subseteq TombstonedRow(rows[r]).provenance
      BY <2>1 DEF TombstonedRow, Row
    <3> QED BY <1>2, <2>1, <3>1, UpdatedRowType DEF CommitTombstone, CommitOn
  <2> QED BY <2>2, <2>3, <2>4, <2>5
<1> QED BY <1>1, <1>2

(* What a commit does to the log as Since sees it: it adds its own entry. *)
LEMMA CommitSince ==
    ASSUME TypeOK, RowInLog, NEW client \in Clients, NEW newRow, CommitOn(client, newRow),
           NEW r \in Records, r = op[client].record, NEW entries
    PROVE  /\ Since(r, entries)' <=>
                Since(r, entries) \/ op[client].arg \in entries
           /\ rows'[r] = newRow
           /\ Recorded(r)
           /\ \A other \in Records \ {r} :
                /\ Since(other, entries)' <=> Since(other, entries)
                /\ rows'[other] = rows[other]
           /\ RowInLog'
<1>1. /\ rows[r] \in Row /\ Recorded(r)
      /\ log[r] \in Seq(LogEntry)
  BY PendingType, NoRowAssumption DEF CommitOn, Recorded, TypeOK
<1>2. /\ rows'[r] = newRow /\ newRow.created_at = rows[r].created_at
      /\ rows[r].provenance \subseteq newRow.provenance
      /\ log'[r] = Append(log[r], op[client].arg)
      /\ \A other \in Records \ {r} : rows'[other] = rows[other] /\ log'[other] = log[other]
  BY <1>1 DEF CommitOn, Commit, Logged, TypeOK
<1>3. /\ Len(log'[r]) = Len(log[r]) + 1
      /\ log'[r][Len(log[r]) + 1] = op[client].arg
      /\ \A i \in 1..Len(log[r]) : log'[r][i] = log[r][i]
      /\ DOMAIN log'[r] = 1..(Len(log[r]) + 1) /\ DOMAIN log[r] = 1..Len(log[r])
  BY <1>1, <1>2
<1>4. rows[r].created_at \in 1..Len(log[r]) /\ Len(log[r]) \in Nat
  BY <1>1 DEF RowInLog
<1>5. Since(r, entries)' <=> Since(r, entries) \/ op[client].arg \in entries
  <2>1. ASSUME Since(r, entries)' PROVE Since(r, entries) \/ op[client].arg \in entries
    BY <2>1, <1>2, <1>3, <1>4 DEF Since
  <2>2. ASSUME Since(r, entries) PROVE Since(r, entries)'
    BY <2>2, <1>2, <1>3, <1>4 DEF Since
  <2>3. ASSUME op[client].arg \in entries PROVE Since(r, entries)'
    <3>1. /\ Len(log[r]) + 1 \in DOMAIN log'[r]
          /\ Len(log[r]) + 1 > rows'[r].created_at
          /\ log'[r][Len(log[r]) + 1] \in entries
      BY <2>3, <1>2, <1>3, <1>4
    <3> QED BY <3>1 DEF Since
  <2> QED BY <2>1, <2>2, <2>3
<1>6. \A other \in Records \ {r} : Since(other, entries)' <=> Since(other, entries)
  BY <1>2 DEF Since
<1>7. RowInLog'
  <2>1. newRow.created_at \in 1..Len(log'[r])
    BY <1>2, <1>3, <1>4
  <2>2. newRow.created_at \in newRow.provenance
    BY <1>1, <1>2 DEF RowInLog
  <2> QED BY <1>2, <2>1, <2>2 DEF RowInLog, Recorded
<1> QED BY <1>1, <1>2, <1>5, <1>6, <1>7

(* A new recording starts with a clean log suffix. *)
LEMMA RecordSince ==
    ASSUME TypeOK, RowInLog, NEW client \in Clients, NEW r \in Records,
           NEW c \in Candidates, RecordCandidate(client, r, c), NEW entries
    PROVE  /\ ~Since(r, entries)'
           /\ rows'[r] = NewRow(c, Len(log[r]) + 1)
           /\ \A other \in Records \ {r} :
                /\ Since(other, entries)' <=> Since(other, entries)
                /\ rows'[other] = rows[other] /\ log'[other] = log[other]
           /\ RowInLog'
<1>1. /\ rows'[r] = NewRow(c, Len(log[r]) + 1) /\ log'[r] = Append(log[r], "recorded")
      /\ \A other \in Records \ {r} : rows'[other] = rows[other] /\ log'[other] = log[other]
  BY DEF RecordCandidate, Logged, TypeOK
<1>2. /\ Len(log[r]) \in Nat /\ Len(log'[r]) = Len(log[r]) + 1
      /\ DOMAIN log'[r] = 1..(Len(log[r]) + 1)
  BY <1>1 DEF TypeOK
<1>3. /\ NewRow(c, Len(log[r]) + 1).created_at = Len(log[r]) + 1
      /\ NewRow(c, Len(log[r]) + 1).provenance = {Len(log[r]) + 1}
  BY DEF NewRow
<1>4. ~Since(r, entries)'
  BY <1>1, <1>2, <1>3 DEF Since
<1>5. \A other \in Records \ {r} : Since(other, entries)' <=> Since(other, entries)
  BY <1>1 DEF Since
<1>6. RowInLog'
  BY <1>1, <1>2, <1>3 DEF RowInLog, Recorded
<1> QED BY <1>1, <1>4, <1>5, <1>6

(* Reading and abandoning change only op. *)
LEMMA ReadOnly ==
    ASSUME NEW client \in Clients,
           \/ \E r \in Records, d \in Decisions : ReadForPromotion(client, r, d)
           \/ \E r \in Records, s \in Signals : ReadForReinforcement(client, r, s)
           \/ \E r \in Records, a \in LifecycleActions : ReadForLifecycle(client, r, a)
           \/ Abandon(client)
    PROVE  UNCHANGED <<rows, index, log>>
BY DEF ReadForPromotion, ReadForReinforcement, ReadForLifecycle, Read, Abandon

(* The steps of a client, sorted by what they do to the store. *)
LEMMA StepKinds ==
    ASSUME TypeOK, NEW client \in Clients, ClientStep(client)
    PROVE  \/ \E r \in Records, c \in Candidates : RecordCandidate(client, r, c)
           \/ UNCHANGED <<rows, index, log>>
           \/ /\ op[client].record \in Records
              /\ \/ CommitPromotion(client) \/ CommitReinforcement(client)
                 \/ CommitLifecycle(client) \/ CommitTombstone(client)
<1>1. ASSUME \/ CommitPromotion(client) \/ CommitReinforcement(client)
             \/ CommitLifecycle(client) \/ CommitTombstone(client)
      PROVE  op[client].record \in Records
  BY <1>1, CommitForms, PendingType DEF CommitOn
<1> QED BY <1>1, ReadOnly DEF ClientStep

(* What the arguments of the committing actions are, as log entries. *)
LEMMA CommittedEntry ==
    ASSUME TypeOK, NEW client \in Clients
    PROVE  /\ CommitPromotion(client) =>
                /\ op[client].arg \notin AllLifecycleActions
                /\ op[client].arg \in KeepingEntries => op[client].arg = "promote"
           /\ CommitReinforcement(client) =>
                op[client].arg \notin BlockingEntries \cup {"delete"}
           /\ CommitLifecycle(client) =>
                op[client].arg # "delete" /\ op[client].arg \notin KeepingEntries
           /\ CommitTombstone(client) => op[client].arg = "delete"
<1>1. CASE CommitPromotion(client)
  <2>1. op[client].kind = "promotion" /\ op[client].arg \in AllDecisions
    BY <1>1, PendingType, InputsAssumption DEF CommitPromotion
  <2> QED
    BY <2>1 DEF AllDecisions, AllLifecycleActions, KeepingEntries, AllSignals,
                CommitReinforcement, CommitLifecycle, CommitTombstone
<1>2. CASE CommitReinforcement(client)
  <2>1. op[client].kind = "reinforcement" /\ op[client].arg \in AllSignals
    BY <1>2, PendingType, InputsAssumption DEF CommitReinforcement
  <2> QED
    BY <2>1 DEF BlockingEntries, AllLifecycleActions, AllSignals,
                CommitPromotion, CommitLifecycle, CommitTombstone
<1>3. CASE CommitLifecycle(client)
  <2>1. /\ op[client].kind = "lifecycle" /\ op[client].arg \in AllLifecycleActions
        /\ op[client].arg # "delete"
    BY <1>3, PendingType, InputsAssumption DEF CommitLifecycle
  <2> QED
    BY <2>1 DEF AllLifecycleActions, KeepingEntries, AllSignals,
                CommitPromotion, CommitReinforcement, CommitTombstone
<1> QED
  BY <1>1, <1>2, <1>3 DEF CommitTombstone

-----------------------------------------------------------------------------
(* Any number of clients, ids reused or not: which operations are overtaken *)

(* The row that the client read is of the current recording, and nothing of
   an older one has been written into it since. *)
UpToDate(client) ==
    /\ op[client].kind # "idle"
    /\ op[client].row.created_at = rows[op[client].record].created_at
    /\ OwnValues(op[client].record)

(* A recording overtakes every operation that is pending on its record. *)
LEMMA RecordOvertakes ==
    ASSUME VersionsInv, NEW client \in Clients, NEW r \in Records, NEW c \in Candidates,
           RecordCandidate(client, r, c), NEW other \in Clients, UpToDate(other)'
    PROVE  /\ op' = op /\ op[other].kind # "idle"
           /\ op[other].record \in Records \ {r}
           /\ UpToDate(other)
<1> USE DEF VersionsInv
<1>1. op' = op
  BY DEF RecordCandidate
<1>2. op[other].kind # "idle"
  BY <1>1 DEF UpToDate
<1>3. op[other].record \in Records /\ op[other].row \in Row
  BY <1>2, PendingType
<1>4. /\ rows'[r] = NewRow(c, Len(log[r]) + 1)
      /\ \A q \in Records \ {r} : rows'[q] = rows[q]
  BY DEF RecordCandidate, TypeOK
<1>5. op[other].record # r
  <2> SUFFICES ASSUME op[other].record = r PROVE FALSE
    OBVIOUS
  <2>1. op[other].row.created_at = Len(log[r]) + 1
    BY <1>1, <1>4 DEF UpToDate, NewRow
  <2>2. op[other].row.created_at <= Len(log[r]) /\ Len(log[r]) \in Nat
    BY <1>2 DEF ReadsInLog, TypeOK
  <2> QED BY <2>1, <2>2
<1>6. UpToDate(other)
  BY <1>1, <1>2, <1>3, <1>4, <1>5 DEF UpToDate, OwnValues
<1> QED BY <1>1, <1>2, <1>3, <1>5, <1>6

(* A commit never makes an overtaken operation up to date again. *)
LEMMA CommitOvertakes ==
    ASSUME VersionsInv, NEW client \in Clients, NEW newRow, CommitOn(client, newRow)
    PROVE  /\ \A r \in Records : Recorded(r) /\ OwnValues(r)' => OwnValues(r)
           /\ \A other \in Clients :
                UpToDate(other)' => /\ UpToDate(other) /\ op'[other] = op[other]
                                    /\ op[other].record \in Records
<1> USE DEF VersionsInv
<1>1. PICK q \in Records : q = op[client].record
  BY PendingType DEF CommitOn
<1>2. /\ rows' = [rows EXCEPT ![q] = newRow] /\ op' = [op EXCEPT ![client] = Idle]
      /\ newRow.created_at = rows[q].created_at
      /\ rows[q].provenance \subseteq newRow.provenance
  BY <1>1 DEF CommitOn, Commit
<1>3. ASSUME NEW r \in Records
      PROVE  /\ rows'[r].created_at = rows[r].created_at
             /\ rows[r].provenance \subseteq rows'[r].provenance
  BY <1>2 DEF TypeOK
<1>4. ASSUME NEW r \in Records, Recorded(r), OwnValues(r)' PROVE OwnValues(r)
  BY <1>3, <1>4 DEF OwnValues, RowInLog
<1>5. ASSUME NEW other \in Clients, UpToDate(other)'
      PROVE  UpToDate(other) /\ op'[other] = op[other] /\ op[other].record \in Records
  <2>1. op'[other] = op[other]
    BY <1>2, <1>5 DEF UpToDate, TypeOK, Idle
  <2>2. op[other].kind # "idle" /\ op[other].record \in Records
    BY <1>5, <2>1, PendingType DEF UpToDate
  <2>3. Recorded(op[other].record)
    BY <2>2, PendingType, NoRowAssumption DEF Recorded
  <2>4. OwnValues(op[other].record)
    BY <1>4, <1>5, <2>1, <2>2, <2>3 DEF UpToDate, OwnValues
  <2> QED BY <1>3, <1>5, <2>1, <2>2, <2>4 DEF UpToDate
<1> QED BY <1>4, <1>5

(* An operation that writes back values it read leaves a row with values of its
   own recording only when it was up to date. *)
LEMMA WritersAreUpToDate ==
    ASSUME VersionsInv, NEW client \in Clients, NEW newRow, CommitOn(client, newRow),
           NEW r \in Records, r = op[client].record, OwnValues(r)',
           \/ newRow = ReinforcedRow(rows[r], op[client].row, op[client].arg)
           \/ /\ newRow = PromotedRow(rows[r], op[client].row, op[client].arg)
              /\ op[client].arg \notin {"reject", "quarantine", "superseded"}
    PROVE  UpToDate(client)
<1> USE DEF VersionsInv
<1>1. /\ rows'[r] = newRow /\ newRow.created_at = rows[r].created_at
      /\ rows[r] \in Row /\ op[client].kind # "idle" /\ Recorded(r)
  BY PendingType, NoRowAssumption DEF CommitOn, Commit, TypeOK, Recorded
<1>2. newRow.provenance = rows[r].provenance \cup {op[client].row.created_at}
  BY <1>1 DEF ReinforcedRow, PromotedRow, Row
<1>3. op[client].row.created_at = rows[r].created_at
  BY <1>1, <1>2 DEF OwnValues
<1>4. OwnValues(r)
  BY <1>1, CommitOvertakes
<1> QED BY <1>1, <1>3, <1>4 DEF UpToDate

(* The steps keep what the lemmas above assume. *)
LEMMA VersionsStep == VersionsInv /\ [Next]_vars => VersionsInv'
<1> SUFFICES ASSUME VersionsInv, [Next]_vars PROVE VersionsInv'
  OBVIOUS
<1> USE DEF VersionsInv
<1>1. TypeOK'
  BY TypeStep
<1>2. CASE UNCHANGED vars
  BY <1>1, <1>2 DEF vars, RowInLog, ReadsInLog, Recorded
<1>3. ASSUME NEW client \in Clients, NEW r \in Records, NEW c \in Candidates,
             RecordCandidate(client, r, c)
      PROVE  RowInLog' /\ ReadsInLog'
  <2>1. RowInLog'
    BY <1>3, RecordSince
  <2>2. op' = op /\ log' = [log EXCEPT ![r] = Append(@, "recorded")]
    BY <1>3 DEF RecordCandidate, Logged
  <2>3. \A q \in Records : Len(log[q]) \in Nat /\ Len(log'[q]) \in Nat /\ Len(log[q]) <= Len(log'[q])
    BY <2>2 DEF TypeOK
  <2>4. ASSUME NEW other \in Clients, op'[other].kind # "idle"
        PROVE  op'[other].row.created_at <= Len(log'[op'[other].record])
    <3>1. /\ op[other].record \in Records /\ op[other].row.created_at \in Nat
          /\ op[other].row.created_at <= Len(log[op[other].record])
      BY <2>2, <2>4, PendingType DEF ReadsInLog, Row
    <3> QED BY <2>2, <2>3, <3>1
  <2> QED BY <2>1, <2>4 DEF ReadsInLog
<1>4. ASSUME NEW client \in Clients, NEW kind, NEW r \in Records, NEW arg,
             Read(client, kind, r, arg)
      PROVE  RowInLog' /\ ReadsInLog'
  <2>1. UNCHANGED <<rows, log>> /\ rows[r] # NoRow
    BY <1>4 DEF Read
  <2>2. op' = [op EXCEPT ![client] =
                  [kind |-> kind, record |-> r, arg |-> arg, row |-> rows[r]]]
    BY <1>4 DEF Read
  <2>3. rows[r].created_at <= Len(log[r])
    BY <2>1 DEF RowInLog, Recorded, TypeOK
  <2>4. ASSUME NEW other \in Clients, op'[other].kind # "idle"
        PROVE  op'[other].row.created_at <= Len(log'[op'[other].record])
    <3>1. CASE other = client
      BY <2>1, <2>2, <2>3, <3>1 DEF TypeOK
    <3>2. CASE other # client
      BY <2>1, <2>2, <2>4, <3>2 DEF TypeOK, ReadsInLog
    <3> QED BY <3>1, <3>2
  <2>5. RowInLog'
    BY <2>1 DEF RowInLog, Recorded
  <2> QED BY <2>4, <2>5 DEF ReadsInLog
<1>5. ASSUME NEW client \in Clients, Abandon(client) PROVE RowInLog' /\ ReadsInLog'
  BY <1>5 DEF Abandon, RowInLog, ReadsInLog, Recorded, TypeOK, Idle
<1>6. ASSUME NEW client \in Clients, NEW newRow, CommitOn(client, newRow)
      PROVE  RowInLog' /\ ReadsInLog'
  <2>1. PICK r \in Records : r = op[client].record
    BY <1>6, PendingType DEF CommitOn
  <2>2. RowInLog'
    BY <1>6, <2>1, CommitSince
  <2>3. /\ op' = [op EXCEPT ![client] = Idle]
        /\ log' = [log EXCEPT ![r] = Append(@, op[client].arg)]
        /\ op[client].arg \in LogEntry
    BY <1>6, <2>1, PendingType DEF CommitOn, Commit, Logged
  <2>4. \A q \in Records : Len(log[q]) \in Nat /\ Len(log'[q]) \in Nat /\ Len(log[q]) <= Len(log'[q])
    BY <2>3 DEF TypeOK
  <2>5. ASSUME NEW other \in Clients, op'[other].kind # "idle"
        PROVE  op'[other].row.created_at <= Len(log'[op'[other].record])
    <3>1. op'[other] = op[other]
      BY <2>3, <2>5 DEF TypeOK, Idle
    <3>2. /\ op[other].record \in Records /\ op[other].row.created_at \in Nat
          /\ op[other].row.created_at <= Len(log[op[other].record])
      BY <3>1, <2>5, PendingType DEF ReadsInLog, Row
    <3> QED BY <2>4, <3>1, <3>2
  <2> QED BY <2>2, <2>5 DEF ReadsInLog
<1>7. ASSUME NEW client \in Clients, ClientStep(client) PROVE RowInLog' /\ ReadsInLog'
  <2>1. CASE \/ CommitPromotion(client) \/ CommitReinforcement(client)
             \/ CommitLifecycle(client) \/ CommitTombstone(client)
    BY <1>6, <2>1, CommitForms
  <2> QED
    BY <1>3, <1>4, <1>5, <1>7, <2>1
       DEF ClientStep, ReadForPromotion, ReadForReinforcement, ReadForLifecycle
<1> QED BY <1>1, <1>2, <1>7 DEF Next

LEMMA VersionsInit == Init => VersionsInv
<1>1. Init => TypeOK
  BY DEF Init, TypeOK, Operation, NoIndexRows, IndexRows, Idle
<1> QED BY <1>1 DEF Init, VersionsInv, RowInLog, ReadsInLog, Recorded, Idle

(* No UPDATE clears deletion_requested: only recording the id again does. *)
THEOREM DeletionRequestIsKept == Spec => DeletionRequestSticks
<1> DEFINE Sticks == \A r \in Records :
              Recorded(r) /\ rows[r].deletion_requested =>
                  \/ rows'[r].deletion_requested
                  \/ rows'[r].created_at > rows[r].created_at
<1>1. ASSUME VersionsInv, [Next]_vars PROVE [Sticks]_vars
  <2>1. ASSUME UNCHANGED <<rows, index, log>> PROVE Sticks
    BY <2>1
  <2>2. ASSUME NEW client \in Clients, NEW r \in Records, NEW c \in Candidates,
               RecordCandidate(client, r, c)
        PROVE  Sticks
    <3>1. Recorded(r) => rows[r].created_at \in 1..Len(log[r])
      BY <1>1 DEF VersionsInv, RowInLog
    <3>2. Len(log[r]) \in Nat
      BY <1>1 DEF VersionsInv, TypeOK
    <3>3. rows' = [rows EXCEPT ![r] = NewRow(c, Len(log[r]) + 1)]
      BY <2>2 DEF RecordCandidate
    <3>4. NewRow(c, Len(log[r]) + 1).created_at = Len(log[r]) + 1
      BY DEF NewRow
    <3> QED BY <1>1, <3>1, <3>2, <3>3, <3>4 DEF VersionsInv, TypeOK
  <2>3. ASSUME NEW client \in Clients, op[client].record \in Records,
               \/ CommitPromotion(client) \/ CommitReinforcement(client)
               \/ CommitLifecycle(client) \/ CommitTombstone(client)
        PROVE  Sticks
    <3> DEFINE r == op[client].record
    <3>1. op[client].kind # "idle" /\ rows[r] \in Row /\ op[client].row \in Row
      BY <1>1, <2>3, CommitForms, PendingType DEF VersionsInv, CommitOn
    <3>2. \/ rows' = [rows EXCEPT ![r] = PromotedRow(rows[r], op[client].row, op[client].arg)]
          \/ rows' = [rows EXCEPT ![r] = ReinforcedRow(rows[r], op[client].row, op[client].arg)]
          \/ rows' = [rows EXCEPT ![r] = RetiredRow(rows[r], op[client].arg)]
          \/ rows' = [rows EXCEPT ![r] = TombstonedRow(rows[r])]
      BY <2>3 DEF CommitPromotion, CommitReinforcement, CommitLifecycle, CommitTombstone, Commit
    <3>3. /\ PromotedRow(rows[r], op[client].row, op[client].arg).deletion_requested
                 = rows[r].deletion_requested
          /\ ReinforcedRow(rows[r], op[client].row, op[client].arg).deletion_requested
                 = rows[r].deletion_requested
          /\ RetiredRow(rows[r], op[client].arg).deletion_requested = rows[r].deletion_requested
          /\ TombstonedRow(rows[r]).deletion_requested = TRUE
      BY <3>1 DEF Row, PromotedRow, ReinforcedRow, RetiredRow, TombstonedRow
    <3> QED BY <1>1, <2>3, <3>2, <3>3 DEF VersionsInv, TypeOK
  <2> QED BY <1>1, <2>1, <2>2, <2>3, StepKinds DEF Next, vars, VersionsInv
<1> QED BY <1>1, VersionsInit, VersionsStep, PTL DEF Spec, DeletionRequestSticks

-----------------------------------------------------------------------------
(* Any number of clients, ids reused or not: the index tables *)

(* The tags an up-to-date reinforcement is about to write back are those of the
   row, unless the row was deleted meanwhile. *)
TagsKept(client) ==
    LET o == op[client] IN
    Since(o.record, {"delete"}) \/ o.row.content.tags = rows[o.record].content.tags

IndexRight(r) ==
    IF Since(r, {"delete"}) THEN index[r] = NoIndexRows
    ELSE index[r].tags = rows[r].content.tags

IndexInv ==
    /\ VersionsInv
    /\ \A r \in Records : Recorded(r) /\ OwnValues(r) => IndexRight(r)
    /\ \A client \in Clients :
          UpToDate(client) /\ op[client].kind = "reinforcement" => TagsKept(client)

LEMMA IndexRecord ==
    ASSUME IndexInv, VersionsInv', NEW client \in Clients, NEW r \in Records,
           NEW c \in Candidates, RecordCandidate(client, r, c)
    PROVE  IndexInv'
<1> USE DEF IndexInv
<1>1. /\ rows'[r] = NewRow(c, Len(log[r]) + 1) /\ index'[r] = CandidateIndexRows(c)
      /\ \A q \in Records \ {r} : rows'[q] = rows[q] /\ index'[q] = index[q]
  BY DEF RecordCandidate, TypeOK, VersionsInv
<1>2. /\ ~Since(r, {"delete"})'
      /\ \A q \in Records \ {r} : Since(q, {"delete"})' <=> Since(q, {"delete"})
  BY RecordSince DEF VersionsInv
<1>3. IndexRight(r)'
  BY <1>1, <1>2 DEF IndexRight, NewRow, CandidateIndexRows
<1>4. ASSUME NEW q \in Records \ {r}, Recorded(q)', OwnValues(q)' PROVE IndexRight(q)'
  <2>1. IndexRight(q)
    BY <1>1, <1>4 DEF Recorded, OwnValues
  <2> QED BY <1>1, <1>2, <2>1 DEF IndexRight
<1>5. ASSUME NEW other \in Clients, UpToDate(other)', op'[other].kind = "reinforcement"
      PROVE  TagsKept(other)'
  <2>1. op' = op /\ op[other].record \in Records \ {r} /\ UpToDate(other)
    BY <1>5, RecordOvertakes
  <2>2. TagsKept(other)
    BY <1>5, <2>1
  <2>3. PICK q \in Records \ {r} : q = op[other].record
    BY <2>1
  <2> QED BY <1>1, <1>2, <2>1, <2>2, <2>3 DEF TagsKept
<1> QED BY <1>3, <1>4, <1>5

(* The tags a commit leaves in the content. *)
LEMMA TagsOfUpdates ==
    ASSUME NEW row \in Row, NEW read \in Row
    PROVE  /\ \A d : PromotedRow(row, read, d).content.tags = row.content.tags
           /\ \A a : RetiredRow(row, a).content.tags = row.content.tags
           /\ \A e \in Signals : ReinforcedRow(row, read, e).content.tags = read.content.tags
<1>1. \A d : PromotedRow(row, read, d).content.tags = row.content.tags
  BY DEF PromotedRow, Row
<1>2. \A a : RetiredRow(row, a).content.tags = row.content.tags
  BY DEF RetiredRow, Row
<1>3. ASSUME NEW e \in Signals PROVE ReinforcedRow(row, read, e).content.tags = read.content.tags
  <2>1. read.content \in Content
    BY DEF Row
  <2>2. [read.content EXCEPT !.counters[e] = Incremented(@)].tags = read.content.tags
    BY <2>1 DEF Content
  <2>3. ReinforcedRow(row, read, e).content = [read.content EXCEPT !.counters[e] = Incremented(@)]
    BY DEF ReinforcedRow, Row
  <2> QED BY <2>2, <2>3
<1> QED BY <1>1, <1>2, <1>3

LEMMA IndexCommit ==
    ASSUME IndexInv, VersionsInv', NEW client \in Clients, op[client].record \in Records,
           \/ CommitPromotion(client) \/ CommitReinforcement(client)
           \/ CommitLifecycle(client) \/ CommitTombstone(client)
    PROVE  IndexInv'
<1> USE DEF IndexInv
<1>0. TypeOK /\ RowInLog
  BY DEF VersionsInv
<1>1. PICK r \in Records : r = op[client].record
  OBVIOUS
<1>2. PICK newRow :
         /\ CommitOn(client, newRow)
         /\ \/ /\ CommitPromotion(client)
               /\ newRow = PromotedRow(rows[r], op[client].row, op[client].arg)
            \/ /\ CommitReinforcement(client)
               /\ newRow = ReinforcedRow(rows[r], op[client].row, op[client].arg)
            \/ CommitLifecycle(client) /\ newRow = RetiredRow(rows[r], op[client].arg)
            \/ CommitTombstone(client) /\ newRow = TombstonedRow(rows[r])
  BY <1>0, <1>1, CommitForms
<1>3. /\ rows[r] \in Row /\ op[client].row \in Row /\ Recorded(r)
      /\ CommitReinforcement(client) =>
            op[client].arg \in Signals /\ op[client].kind = "reinforcement"
  BY <1>0, <1>1, <1>2, PendingType, NoRowAssumption DEF CommitOn, Recorded, CommitReinforcement
<1>4. /\ Since(r, {"delete"})' <=> Since(r, {"delete"}) \/ op[client].arg = "delete"
      /\ rows'[r] = newRow
      /\ \A q \in Records \ {r} :
            (Since(q, {"delete"})' <=> Since(q, {"delete"})) /\ rows'[q] = rows[q]
  BY <1>0, <1>1, <1>2, CommitSince
<1>5. \A q \in Records \ {r} : index'[q] = index[q]
  BY <1>0, <1>1 DEF CommitPromotion, CommitReinforcement, CommitLifecycle, CommitTombstone, TypeOK
<1>6. CASE CommitTombstone(client)
  <2>1. index'[r] = NoIndexRows /\ op[client].arg = "delete"
    BY <1>0, <1>1, <1>6 DEF CommitTombstone, TypeOK
  <2>2. \A q \in Records : Recorded(q)' /\ OwnValues(q)' => IndexRight(q)'
    BY <1>4, <1>5, <2>1 DEF IndexRight, Recorded, OwnValues
  <2>3. ASSUME NEW other \in Clients, UpToDate(other)', op'[other].kind = "reinforcement"
        PROVE  TagsKept(other)'
    <3>1. UpToDate(other) /\ op'[other] = op[other] /\ op[other].record \in Records
      BY <1>2, <2>3, CommitOvertakes
    <3>2. TagsKept(other)
      BY <2>3, <3>1
    <3>3. PICK q \in Records : q = op[other].record
      BY <3>1
    <3> QED BY <1>4, <2>1, <3>1, <3>2, <3>3 DEF TagsKept
  <2> QED BY <2>2, <2>3
<1>7. CASE ~CommitTombstone(client)
  <2>1. index' = index /\ op[client].arg # "delete"
    <3>1. CASE CommitPromotion(client)
      BY <1>0, <3>1, PendingType, InputsAssumption DEF CommitPromotion, AllDecisions
    <3>2. CASE CommitReinforcement(client)
      BY <1>0, <3>2, PendingType, InputsAssumption DEF CommitReinforcement, AllSignals
    <3>3. CASE CommitLifecycle(client)
      BY <3>3 DEF CommitLifecycle
    <3> QED BY <1>7, <3>1, <3>2, <3>3
  <2>2. Since(r, {"delete"})' <=> Since(r, {"delete"})
    BY <1>4, <2>1
  <2>3. OwnValues(r)' /\ ~Since(r, {"delete"}) => newRow.content.tags = rows[r].content.tags
    <3>1. CASE CommitReinforcement(client) /\ newRow = ReinforcedRow(rows[r], op[client].row, op[client].arg)
      <4> SUFFICES ASSUME OwnValues(r)', ~Since(r, {"delete"})
                   PROVE  newRow.content.tags = rows[r].content.tags
        OBVIOUS
      <4>1. UpToDate(client)
        BY <1>1, <1>2, <3>1, WritersAreUpToDate
      <4>2. op[client].row.content.tags = rows[r].content.tags
        BY <1>1, <1>3, <3>1, <4>1 DEF TagsKept
      <4> QED BY <1>3, <3>1, <4>2, TagsOfUpdates
    <3> QED BY <1>2, <1>3, <1>7, <3>1, TagsOfUpdates
  <2>4. Recorded(r)' /\ OwnValues(r)' => IndexRight(r)'
    <3> SUFFICES ASSUME OwnValues(r)' PROVE IndexRight(r)'
      OBVIOUS
    <3>1. IndexRight(r)
      BY <1>2, <1>3, CommitOvertakes
    <3> QED BY <1>4, <2>1, <2>2, <2>3, <3>1 DEF IndexRight
  <2>5. \A q \in Records \ {r} : Recorded(q)' /\ OwnValues(q)' => IndexRight(q)'
    BY <1>4, <2>1 DEF IndexRight, Recorded, OwnValues
  <2>6. ASSUME NEW other \in Clients, UpToDate(other)', op'[other].kind = "reinforcement"
        PROVE  TagsKept(other)'
    <3>1. UpToDate(other) /\ op'[other] = op[other] /\ op[other].record \in Records
      BY <1>2, <2>6, CommitOvertakes
    <3>2. TagsKept(other)
      BY <2>6, <3>1
    <3>3. PICK q \in Records : q = op[other].record
      BY <3>1
    <3>4. CASE q # r
      BY <1>4, <3>1, <3>2, <3>3, <3>4 DEF TagsKept
    <3>5. CASE q = r
      <4>1. OwnValues(r)'
        BY <2>6, <3>1, <3>3, <3>5 DEF UpToDate, OwnValues
      <4> QED BY <1>4, <2>2, <2>3, <3>1, <3>2, <3>3, <3>5, <4>1 DEF TagsKept
    <3> QED BY <3>4, <3>5
  <2> QED BY <2>4, <2>5, <2>6
<1> QED BY <1>6, <1>7

LEMMA IndexRead ==
    ASSUME IndexInv, VersionsInv', NEW client \in Clients,
           \/ \E r \in Records, d \in Decisions : ReadForPromotion(client, r, d)
           \/ \E r \in Records, s \in Signals : ReadForReinforcement(client, r, s)
           \/ \E r \in Records, a \in LifecycleActions : ReadForLifecycle(client, r, a)
           \/ Abandon(client)
    PROVE  IndexInv'
<1>1. UNCHANGED <<rows, index, log>>
  BY ReadOnly
<1>2. \A r \in Records : Recorded(r)' /\ OwnValues(r)' => IndexRight(r)'
  BY <1>1 DEF IndexInv, Recorded, OwnValues, IndexRight, Since
<1>3. \A other \in Clients \ {client} : op'[other] = op[other]
  BY DEF ReadForPromotion, ReadForReinforcement, ReadForLifecycle, Read, Abandon,
         IndexInv, VersionsInv, TypeOK
<1>4. UpToDate(client)' => TagsKept(client)'
  <2>1. CASE Abandon(client)
    BY <2>1 DEF Abandon, IndexInv, VersionsInv, TypeOK, Idle, UpToDate
  <2>2. CASE ~Abandon(client)
    <3>1. PICK kind, r, arg : r \in Records /\ Read(client, kind, r, arg)
      BY <2>2 DEF ReadForPromotion, ReadForReinforcement, ReadForLifecycle
    <3>2. op'[client] = [kind |-> kind, record |-> r, arg |-> arg, row |-> rows[r]]
      BY <3>1 DEF Read, IndexInv, VersionsInv, TypeOK
    <3> QED BY <1>1, <3>2 DEF TagsKept
  <2> QED BY <2>1, <2>2
<1>5. ASSUME NEW other \in Clients, UpToDate(other)', op'[other].kind = "reinforcement"
      PROVE  TagsKept(other)'
  <2>1. CASE other = client
    BY <1>4, <1>5, <2>1
  <2>2. CASE other # client
    <3>1. UpToDate(other) /\ op'[other] = op[other]
      BY <1>1, <1>3, <1>5, <2>2 DEF UpToDate, OwnValues
    <3>2. TagsKept(other)
      BY <1>5, <3>1 DEF IndexInv
    <3> QED BY <1>1, <3>1, <3>2 DEF TagsKept, Since
  <2> QED BY <2>1, <2>2
<1> QED BY <1>2, <1>5 DEF IndexInv

(* The index tables follow the rows, for any number of clients and whether or
   not ids are reused: a record that holds only values of its own recording has
   the index rows of its tags until it is deleted, and none from then on. *)
THEOREM IndexIsKept == Spec => []IndexFollowsRow
<1>1. Init => IndexInv
  BY VersionsInit DEF Init, IndexInv, Recorded, UpToDate, Idle
<1>2. IndexInv /\ [Next]_vars => IndexInv'
  <2> SUFFICES ASSUME IndexInv, [Next]_vars PROVE IndexInv'
    OBVIOUS
  <2>1. VersionsInv'
    BY VersionsStep DEF IndexInv
  <2>2. CASE UNCHANGED vars
    BY <2>1, <2>2 DEF vars, IndexInv, Recorded, OwnValues, IndexRight, Since, UpToDate, TagsKept
  <2>3. ASSUME NEW client \in Clients, ClientStep(client) PROVE IndexInv'
    <3>1. CASE \/ CommitPromotion(client) \/ CommitReinforcement(client)
               \/ CommitLifecycle(client) \/ CommitTombstone(client)
      <4>1. op[client].record \in Records
        BY <3>1, CommitForms, PendingType DEF CommitOn, IndexInv, VersionsInv
      <4> QED BY <2>1, <3>1, <4>1, IndexCommit
    <3> QED BY <2>1, <2>3, <3>1, IndexRecord, IndexRead DEF ClientStep
  <2> QED BY <2>2, <2>3 DEF Next
<1>3. IndexInv => IndexFollowsRow
  BY DEF IndexInv, IndexFollowsRow, IndexRight
<1> QED BY <1>1, <1>2, <1>3, PTL DEF Spec

-----------------------------------------------------------------------------
(* Any number of clients, ids reused or not: the quarantine *)

Quarantined(r) ==
    /\ ~rows[r].normal_retrieval_allowed
    /\ rows[r].importance = "high"
    /\ ~Since(r, KeepingEntries)

(* What an up-to-date operation may be about to do to an unsafe row: the row it
   read was already unsafe and quarantined. *)
HarmlessPending(client) ==
    /\ op[client].kind \in {"promotion", "lifecycle"}
    /\ op[client].arg # "promote"
    /\ ~op[client].row.normal_retrieval_allowed

QuarantineInv ==
    /\ VersionsInv
    /\ \A r \in Records :
          Recorded(r) /\ OwnValues(r) /\ rows[r].unsafe_quarantine => Quarantined(r)
    /\ \A client \in Clients :
          UpToDate(client) /\ rows[op[client].record].unsafe_quarantine
              => HarmlessPending(client)

(* Recording quarantines an unsafe candidate, and overtakes whatever was
   pending on its id. *)
LEMMA QuarantineRecord ==
    ASSUME QuarantineInv, VersionsInv', NEW client \in Clients, NEW r \in Records,
           NEW c \in Candidates, RecordCandidate(client, r, c)
    PROVE  QuarantineInv'
<1> USE DEF QuarantineInv
<1>1. /\ rows'[r] = NewRow(c, Len(log[r]) + 1)
      /\ ~Since(r, KeepingEntries)'
      /\ \A other \in Records \ {r} :
           /\ Since(other, KeepingEntries)' <=> Since(other, KeepingEntries)
           /\ rows'[other] = rows[other]
  BY RecordSince DEF VersionsInv
<1>2. Quarantined(r)' \/ ~rows'[r].unsafe_quarantine
  <2> SUFFICES ASSUME rows'[r].unsafe_quarantine PROVE Quarantined(r)'
    OBVIOUS
  <2>1. c \in Candidate
    BY InputsAssumption
  <2>2. rows'[r].importance = "high" /\ ~rows'[r].normal_retrieval_allowed
    BY <1>1, <2>1 DEF NewRow, OrganizedImportance, Candidate
  <2> QED BY <1>1, <2>2 DEF Quarantined
<1>3. ASSUME NEW q \in Records \ {r}, Recorded(q)', OwnValues(q)', rows'[q].unsafe_quarantine
      PROVE  Quarantined(q)'
  <2>1. Quarantined(q)
    BY <1>1, <1>3 DEF Recorded, OwnValues
  <2> QED BY <1>1, <2>1 DEF Quarantined
<1>4. ASSUME NEW other \in Clients, UpToDate(other)', rows'[op'[other].record].unsafe_quarantine
      PROVE  HarmlessPending(other)'
  <2>1. op' = op /\ op[other].record \in Records \ {r} /\ UpToDate(other)
    BY <1>4, RecordOvertakes
  <2> QED BY <1>1, <1>4, <2>1 DEF HarmlessPending
<1> QED BY <1>2, <1>3, <1>4

(* Reading an unsafe row starts only harmless operations. *)
LEMMA QuarantineRead ==
    ASSUME QuarantineInv, VersionsInv', NEW client \in Clients,
           \/ \E r \in Records, d \in Decisions : ReadForPromotion(client, r, d)
           \/ \E r \in Records, s \in Signals : ReadForReinforcement(client, r, s)
           \/ \E r \in Records, a \in LifecycleActions : ReadForLifecycle(client, r, a)
           \/ Abandon(client)
    PROVE  QuarantineInv'
<1> USE DEF QuarantineInv
<1>0. TypeOK
  BY DEF VersionsInv
<1>1. UNCHANGED <<rows, index, log>>
  BY ReadOnly
<1>2. \A r \in Records : Recorded(r)' /\ OwnValues(r)' /\ rows'[r].unsafe_quarantine
                            => Quarantined(r)'
  BY <1>1 DEF Recorded, OwnValues, Quarantined, Since
<1>3. \A other \in Clients \ {client} : op'[other] = op[other]
  BY <1>0 DEF ReadForPromotion, ReadForReinforcement, ReadForLifecycle, Read, Abandon, TypeOK
<1>4. UpToDate(client)' /\ rows'[op'[client].record].unsafe_quarantine
          => HarmlessPending(client)'
  <2> SUFFICES ASSUME UpToDate(client)', rows'[op'[client].record].unsafe_quarantine
               PROVE  HarmlessPending(client)'
    OBVIOUS
  <2>1. ASSUME NEW r \in Records, rows[r] # NoRow, op'[client].record = r
        PROVE  rows[r].unsafe_quarantine /\ ~rows[r].normal_retrieval_allowed
    BY <1>1, <2>1 DEF UpToDate, OwnValues, Quarantined, Recorded
  <2>2. CASE \E r \in Records, d \in Decisions : ReadForPromotion(client, r, d)
    <3>1. PICK r \in Records, d \in Decisions : ReadForPromotion(client, r, d)
      BY <2>2
    <3>2. op'[client] = [kind |-> "promotion", record |-> r, arg |-> d, row |-> rows[r]]
      BY <1>0, <3>1 DEF ReadForPromotion, Read, TypeOK
    <3>3. rows[r].unsafe_quarantine /\ ~rows[r].normal_retrieval_allowed
      BY <2>1, <3>1, <3>2 DEF ReadForPromotion, Read
    <3> QED BY <3>1, <3>2, <3>3 DEF ReadForPromotion, HarmlessPending
  <2>3. CASE \E r \in Records, s \in Signals : ReadForReinforcement(client, r, s)
    <3>1. PICK r \in Records, s \in Signals : ReadForReinforcement(client, r, s)
      BY <2>3
    <3>2. op'[client] = [kind |-> "reinforcement", record |-> r, arg |-> s, row |-> rows[r]]
      BY <1>0, <3>1 DEF ReadForReinforcement, Read, TypeOK
    <3> QED BY <2>1, <3>1, <3>2 DEF ReadForReinforcement, Read
  <2>4. CASE \E r \in Records, a \in LifecycleActions : ReadForLifecycle(client, r, a)
    <3>1. PICK r \in Records, a \in LifecycleActions : ReadForLifecycle(client, r, a)
      BY <2>4
    <3>2. a # "promote"
      BY InputsAssumption DEF AllLifecycleActions
    <3>3. op'[client] = [kind |-> "lifecycle", record |-> r, arg |-> a, row |-> rows[r]]
      BY <1>0, <3>1 DEF ReadForLifecycle, Read, TypeOK
    <3>4. ~rows[r].normal_retrieval_allowed
      BY <2>1, <3>1, <3>3 DEF ReadForLifecycle, Read
    <3> QED BY <3>2, <3>3, <3>4 DEF HarmlessPending
  <2>5. CASE Abandon(client)
    BY <1>0, <2>5 DEF Abandon, TypeOK, Idle, UpToDate
  <2> QED BY <2>2, <2>3, <2>4, <2>5
<1>5. ASSUME NEW other \in Clients, UpToDate(other)', rows'[op'[other].record].unsafe_quarantine
      PROVE  HarmlessPending(other)'
  <2>1. CASE other = client
    BY <1>4, <1>5, <2>1
  <2>2. CASE other # client
    <3>1. UpToDate(other) /\ op'[other] = op[other]
      BY <1>1, <1>3, <1>5, <2>2 DEF UpToDate, OwnValues
    <3>2. HarmlessPending(other)
      BY <1>1, <1>5, <3>1
    <3> QED BY <3>1, <3>2 DEF HarmlessPending
  <2> QED BY <2>1, <2>2
<1> QED BY <1>2, <1>5

(* A commit keeps unsafe rows quarantined: only a harmless operation is up to
   date on one, and an overtaken one leaves a row of mixed values. *)
LEMMA QuarantineCommit ==
    ASSUME QuarantineInv, VersionsInv', NEW client \in Clients, op[client].record \in Records,
           \/ CommitPromotion(client) \/ CommitReinforcement(client)
           \/ CommitLifecycle(client) \/ CommitTombstone(client)
    PROVE  QuarantineInv'
<1> USE DEF QuarantineInv
<1>0. TypeOK /\ RowInLog
  BY DEF VersionsInv
<1>1. PICK r \in Records : r = op[client].record
  OBVIOUS
<1>2. PICK newRow :
         /\ CommitOn(client, newRow)
         /\ \/ /\ CommitPromotion(client)
               /\ newRow = PromotedRow(rows[r], op[client].row, op[client].arg)
            \/ /\ CommitReinforcement(client)
               /\ newRow = ReinforcedRow(rows[r], op[client].row, op[client].arg)
            \/ CommitLifecycle(client) /\ newRow = RetiredRow(rows[r], op[client].arg)
            \/ CommitTombstone(client) /\ newRow = TombstonedRow(rows[r])
  BY <1>0, <1>1, CommitForms
<1>3. /\ rows[r] \in Row /\ op[client].row \in Row /\ op[client].kind # "idle"
      /\ Recorded(r)
  BY <1>0, <1>1, <1>2, PendingType, NoRowAssumption DEF CommitOn, Recorded
<1>4. /\ Since(r, KeepingEntries)' <=>
            Since(r, KeepingEntries) \/ op[client].arg \in KeepingEntries
      /\ rows'[r] = newRow
      /\ \A other \in Records \ {r} :
            /\ Since(other, KeepingEntries)' <=> Since(other, KeepingEntries)
            /\ rows'[other] = rows[other]
  <2>1. CommitOn(client, newRow)
    BY <1>2
  <2> DEFINE entries == KeepingEntries
  <2>2. /\ Since(r, entries)' <=> Since(r, entries) \/ op[client].arg \in entries
        /\ rows'[r] = newRow
        /\ \A other \in Records \ {r} :
             /\ Since(other, entries)' <=> Since(other, entries)
             /\ rows'[other] = rows[other]
    <3> HIDE DEF entries, QuarantineInv
    <3> QED BY <1>0, <1>1, <2>1, CommitSince, SMTT(30)
  <2> QED BY <2>2
<1>5. newRow.unsafe_quarantine = rows[r].unsafe_quarantine
  BY <1>2, <1>3 DEF Row, PromotedRow, ReinforcedRow, RetiredRow, TombstonedRow
<1>6. OwnValues(r)' /\ rows[r].unsafe_quarantine => Quarantined(r)'
  <2> SUFFICES ASSUME OwnValues(r)', rows[r].unsafe_quarantine PROVE Quarantined(r)'
    OBVIOUS
  <2>1. Quarantined(r)
    BY <1>2, <1>3, CommitOvertakes
  <2>2. UpToDate(client) => HarmlessPending(client)
    BY <1>1
  <2>3. op[client].arg \in KeepingEntries => FALSE
    <3> SUFFICES ASSUME op[client].arg \in KeepingEntries PROVE FALSE
      OBVIOUS
    <3>1. CASE CommitPromotion(client) /\ newRow = PromotedRow(rows[r], op[client].row, op[client].arg)
      <4>1. op[client].arg = "promote"
        BY <1>0, <3>1, CommittedEntry
      <4>2. UpToDate(client)
        BY <1>1, <1>2, <3>1, <4>1, WritersAreUpToDate
      <4> QED BY <2>2, <4>1, <4>2 DEF HarmlessPending
    <3>2. CASE CommitReinforcement(client) /\ newRow = ReinforcedRow(rows[r], op[client].row, op[client].arg)
      <4>1. UpToDate(client)
        BY <1>1, <1>2, <3>2, WritersAreUpToDate
      <4> QED BY <2>2, <3>2, <4>1 DEF HarmlessPending, CommitReinforcement
    <3>3. CASE CommitLifecycle(client)
      BY <1>0, <3>3, CommittedEntry
    <3>4. CASE CommitTombstone(client)
      BY <3>4 DEF CommitTombstone, KeepingEntries, AllSignals
    <3> QED BY <1>2, <3>1, <3>2, <3>3, <3>4
  <2>4. ~newRow.normal_retrieval_allowed /\ newRow.importance = "high"
    <3>1. CASE newRow = PromotedRow(rows[r], op[client].row, op[client].arg)
      <4>1. CASE op[client].arg \in {"reject", "quarantine", "superseded"}
        BY <1>3, <2>1, <3>1, <4>1 DEF Row, PromotedRow, Quarantined
      <4>2. CASE op[client].arg \notin {"reject", "quarantine", "superseded"}
        <5>1. UpToDate(client)
          BY <1>1, <1>2, <3>1, <4>2, WritersAreUpToDate
        <5>2. ~op[client].row.normal_retrieval_allowed
          BY <2>2, <5>1 DEF HarmlessPending
        <5> QED BY <1>3, <2>1, <3>1, <4>2, <5>2 DEF Row, PromotedRow, Quarantined
      <4> QED BY <4>1, <4>2
    <3>2. CASE CommitReinforcement(client) /\ newRow = ReinforcedRow(rows[r], op[client].row, op[client].arg)
      <4>1. UpToDate(client)
        BY <1>1, <1>2, <3>2, WritersAreUpToDate
      <4> QED BY <2>2, <3>2, <4>1 DEF HarmlessPending, CommitReinforcement
    <3>3. CASE newRow = RetiredRow(rows[r], op[client].arg)
      BY <1>3, <2>1, <3>3 DEF Row, RetiredRow, Quarantined
    <3>4. CASE newRow = TombstonedRow(rows[r])
      BY <1>3, <2>1, <3>4 DEF Row, TombstonedRow, Quarantined
    <3> QED BY <1>2, <3>1, <3>2, <3>3, <3>4
  <2> QED BY <1>4, <2>1, <2>3, <2>4 DEF Quarantined
<1>7. ASSUME NEW q \in Records, Recorded(q)', OwnValues(q)', rows'[q].unsafe_quarantine
      PROVE  Quarantined(q)'
  <2>1. CASE q = r
    BY <1>4, <1>5, <1>6, <1>7, <2>1
  <2>2. CASE q # r
    <3>1. Quarantined(q)
      BY <1>4, <1>7, <2>2 DEF Recorded, OwnValues
    <3> QED BY <1>4, <2>2, <3>1 DEF Quarantined
  <2> QED BY <2>1, <2>2
<1>8. ASSUME NEW other \in Clients, UpToDate(other)', rows'[op'[other].record].unsafe_quarantine
      PROVE  HarmlessPending(other)'
  <2>1. UpToDate(other) /\ op'[other] = op[other] /\ op[other].record \in Records
    BY <1>2, <1>8, CommitOvertakes
  <2>2. rows[op[other].record].unsafe_quarantine
    BY <1>4, <1>5, <1>8, <2>1
  <2> QED BY <2>1, <2>2 DEF HarmlessPending
<1> QED BY <1>7, <1>8

(* Unsafe content stays quarantined for any number of clients and whether or not
   ids are reused, whatever the clients interleave, in every row that holds only
   values of its own recording. *)
THEOREM QuarantineIsKept == Spec => []QuarantineHolds
<1>1. Init => QuarantineInv
  BY VersionsInit DEF Init, QuarantineInv, Recorded, UpToDate, Idle
<1>2. QuarantineInv /\ [Next]_vars => QuarantineInv'
  <2> SUFFICES ASSUME QuarantineInv, [Next]_vars PROVE QuarantineInv'
    OBVIOUS
  <2>1. VersionsInv'
    BY VersionsStep DEF QuarantineInv
  <2>2. CASE UNCHANGED vars
    <3>1. /\ \A r \in Records :
                Recorded(r)' /\ OwnValues(r)' /\ rows'[r].unsafe_quarantine => Quarantined(r)'
          /\ \A client \in Clients :
                UpToDate(client)' /\ rows'[op'[client].record].unsafe_quarantine
                    => HarmlessPending(client)'
      BY <2>2 DEF vars, QuarantineInv, Recorded, OwnValues, Quarantined, UpToDate,
                  HarmlessPending, Since
    <3> QED BY <2>1, <3>1 DEF QuarantineInv
  <2>3. ASSUME NEW client \in Clients, ClientStep(client) PROVE QuarantineInv'
    <3>1. CASE \/ CommitPromotion(client) \/ CommitReinforcement(client)
               \/ CommitLifecycle(client) \/ CommitTombstone(client)
      <4>1. op[client].record \in Records
        BY <3>1, CommitForms, PendingType DEF CommitOn, QuarantineInv, VersionsInv
      <4> QED BY <2>1, <3>1, <4>1, QuarantineCommit
    <3> QED BY <2>1, <2>3, <3>1, QuarantineRecord, QuarantineRead DEF ClientStep
  <2> QED BY <2>2, <2>3 DEF Next
<1>3. QuarantineInv => QuarantineHolds
  BY DEF QuarantineInv, QuarantineHolds, Quarantined
<1> QED BY <1>1, <1>2, <1>3, PTL DEF Spec

-----------------------------------------------------------------------------
(* How the audit table counts *)

Matching(entries, after, e) == {i \in DOMAIN entries : i > after /\ entries[i] = e}

LEMMA MatchingIsFinite ==
    ASSUME NEW T, NEW entries \in Seq(T), NEW after, NEW e
    PROVE  /\ IsFiniteSet(Matching(entries, after, e))
           /\ Cardinality(Matching(entries, after, e)) \in Nat
           /\ Matching(entries, after, e) \subseteq 1..Len(entries)
<1>1. Matching(entries, after, e) \subseteq 1..Len(entries) /\ Len(entries) \in Nat
  BY DEF Matching
<1>2. IsFiniteSet(1..Len(entries))
  BY <1>1, FS_Interval
<1>3. IsFiniteSet(Matching(entries, after, e))
  BY <1>1, <1>2, FS_Subset
<1> QED BY <1>1, <1>3, FS_CardinalityType

(* One more entry counts where it matches. *)
LEMMA MatchingAfterAppend ==
    ASSUME NEW T, NEW entries \in Seq(T), NEW last \in T, NEW e,
           NEW after \in 0..Len(entries)
    PROVE  Cardinality(Matching(Append(entries, last), after, e)) =
               Cardinality(Matching(entries, after, e)) + (IF last = e THEN 1 ELSE 0)
<1> DEFINE n == Len(entries)
           more == Append(entries, last)
<1>1. /\ n \in Nat /\ DOMAIN entries = 1..n /\ DOMAIN more = 1..(n + 1)
      /\ more[n + 1] = last
      /\ \A i \in 1..n : more[i] = entries[i]
  OBVIOUS
<1>2. /\ IsFiniteSet(Matching(entries, after, e)) /\ Matching(entries, after, e) \subseteq 1..n
      /\ Cardinality(Matching(entries, after, e)) \in Nat
  BY MatchingIsFinite
<1> HIDE DEF more
<1>3. CASE last = e
  <2>1. n + 1 > after
    BY <1>1
  <2>2. Matching(more, after, e) = Matching(entries, after, e) \cup {n + 1}
    BY <1>1, <1>3, <2>1 DEF Matching
  <2>3. n + 1 \notin Matching(entries, after, e)
    BY <1>1, <1>2
  <2>4. Cardinality(Matching(entries, after, e) \cup {n + 1})
            = Cardinality(Matching(entries, after, e)) + 1
    BY <1>2, <2>3, FS_AddElement
  <2> QED BY <1>3, <2>2, <2>4 DEF more
<1>4. CASE last # e
  <2>1. Matching(more, after, e) = Matching(entries, after, e)
    BY <1>1, <1>4 DEF Matching
  <2> QED BY <1>2, <1>4, <2>1 DEF more
<1> QED BY <1>3, <1>4

LEMMA AuditCountIsMatching ==
    ASSUME NEW r \in Records, NEW s \in Signals
    PROVE  /\ AuditCount(r, s) = Cardinality(Matching(log[r], rows[r].created_at, s))
           /\ AuditCount(r, s)' = Cardinality(Matching(log'[r], rows'[r].created_at, s))
BY DEF AuditCount, Matching

LEMMA AuditCountType ==
    ASSUME TypeOK, NEW r \in Records, NEW s \in Signals
    PROVE  AuditCount(r, s) \in Nat
BY MatchingIsFinite, AuditCountIsMatching DEF TypeOK

(* A commit counts once, for its own record and its own signal. *)
LEMMA CommitCounts ==
    ASSUME TypeOK, RowInLog, NEW client \in Clients, NEW newRow, CommitOn(client, newRow),
           NEW r \in Records, r = op[client].record, NEW s \in Signals
    PROVE  /\ AuditCount(r, s)' = AuditCount(r, s) + (IF op[client].arg = s THEN 1 ELSE 0)
           /\ \A other \in Records \ {r} : AuditCount(other, s)' = AuditCount(other, s)
<1>1. /\ rows[r] \in Row /\ Recorded(r) /\ log[r] \in Seq(LogEntry)
      /\ op[client].arg \in LogEntry
  BY PendingType, NoRowAssumption DEF CommitOn, Recorded, TypeOK
<1>2. /\ rows'[r].created_at = rows[r].created_at
      /\ log'[r] = Append(log[r], op[client].arg)
      /\ \A other \in Records \ {r} : rows'[other] = rows[other] /\ log'[other] = log[other]
  BY <1>1 DEF CommitOn, Commit, Logged, TypeOK
<1>3. rows[r].created_at \in 0..Len(log[r])
  BY <1>1 DEF RowInLog
<1>4. AuditCount(r, s)' = AuditCount(r, s) + (IF op[client].arg = s THEN 1 ELSE 0)
  <2>1. Cardinality(Matching(Append(log[r], op[client].arg), rows[r].created_at, s)) =
            Cardinality(Matching(log[r], rows[r].created_at, s))
                + (IF op[client].arg = s THEN 1 ELSE 0)
    BY <1>1, <1>3, MatchingAfterAppend
  <2> QED BY <1>2, <2>1, AuditCountIsMatching
<1>5. \A other \in Records \ {r} : AuditCount(other, s)' = AuditCount(other, s)
  BY <1>2 DEF AuditCount
<1> QED BY <1>4, <1>5

(* A recording starts the count anew. *)
LEMMA RecordCounts ==
    ASSUME TypeOK, NEW client \in Clients, NEW r \in Records, NEW c \in Candidates,
           RecordCandidate(client, r, c), NEW s \in Signals
    PROVE  /\ AuditCount(r, s)' = 0
           /\ \A other \in Records \ {r} : AuditCount(other, s)' = AuditCount(other, s)
<1>1. /\ rows'[r].created_at = Len(log[r]) + 1 /\ log'[r] = Append(log[r], "recorded")
      /\ log[r] \in Seq(LogEntry)
      /\ \A other \in Records \ {r} : rows'[other] = rows[other] /\ log'[other] = log[other]
  BY DEF RecordCandidate, Logged, NewRow, TypeOK
<1>2. Matching(log'[r], rows'[r].created_at, s) = {}
  <2>1. Len(log[r]) \in Nat /\ DOMAIN log'[r] = 1..(Len(log[r]) + 1)
    BY <1>1
  <2> QED BY <1>1, <2>1 DEF Matching
<1>3. AuditCount(r, s)' = 0
  BY <1>2, AuditCountIsMatching, FS_EmptySet
<1> QED BY <1>1, <1>3 DEF AuditCount

(* The uses a record was recorded with, and those counted since. *)
LEMMA CountedUsesType ==
    ASSUME TypeOK, NEW r \in Records, Recorded(r), NEW s \in Signals
    PROVE  CountedUses(r, s) \in Nat
<1>1. rows[r].recorded_counters[s] \in Nat
  BY BoundsAssumption DEF TypeOK, Recorded, Row, Counters
<1>2. AuditCount(r, s) \in Nat
  BY AuditCountType
<1> QED BY <1>1, <1>2 DEF CountedUses

LEMMA CommitCountsUse ==
    ASSUME TypeOK, RowInLog, NEW client \in Clients, NEW newRow, CommitOn(client, newRow),
           NEW r \in Records, r = op[client].record, NEW s \in Signals
    PROVE  /\ CountedUses(r, s) \in Nat
           /\ CountedUses(r, s)' = CountedUses(r, s) + (IF op[client].arg = s THEN 1 ELSE 0)
           /\ \A other \in Records \ {r} : CountedUses(other, s)' = CountedUses(other, s)
<1>1. /\ rows[r] \in Row /\ Recorded(r)
      /\ rows' = [rows EXCEPT ![r] = newRow]
      /\ newRow.recorded_counters = rows[r].recorded_counters
  BY PendingType, NoRowAssumption DEF CommitOn, Commit, Recorded
<1>2. /\ AuditCount(r, s) \in Nat
      /\ AuditCount(r, s)' = AuditCount(r, s) + (IF op[client].arg = s THEN 1 ELSE 0)
      /\ \A other \in Records \ {r} : AuditCount(other, s)' = AuditCount(other, s)
  BY CommitCounts, AuditCountType
<1>3. /\ rows'[r].recorded_counters[s] = rows[r].recorded_counters[s]
      /\ \A other \in Records \ {r} : rows'[other] = rows[other]
  BY <1>1 DEF TypeOK
<1>4. rows[r].recorded_counters[s] \in Nat
  BY <1>1, BoundsAssumption DEF Row, Counters
<1>5. CountedUses(r, s)' = CountedUses(r, s) + (IF op[client].arg = s THEN 1 ELSE 0)
  BY <1>2, <1>3, <1>4 DEF CountedUses
<1>6. \A other \in Records \ {r} : CountedUses(other, s)' = CountedUses(other, s)
  BY <1>2, <1>3 DEF CountedUses
<1> QED BY <1>1, <1>5, <1>6, CountedUsesType

LEMMA RecordCountsUses ==
    ASSUME TypeOK, NEW client \in Clients, NEW r \in Records, NEW c \in Candidates,
           RecordCandidate(client, r, c), NEW s \in Signals
    PROVE  /\ CountedUses(r, s)' = RecordedCounters(c)[s]
           /\ RecordedCounters(c)[s] \in 0..CounterCap
           /\ \A other \in Records \ {r} : CountedUses(other, s)' = CountedUses(other, s)
<1>1. /\ rows'[r].recorded_counters = RecordedCounters(c)
      /\ \A other \in Records \ {r} : rows'[other] = rows[other]
  BY DEF RecordCandidate, NewRow, TypeOK
<1>2. RecordedCounters(c)[s] \in 0..CounterCap
  BY RecordedCountersType, InputsAssumption
<1>3. /\ AuditCount(r, s)' = 0
      /\ \A other \in Records \ {r} : AuditCount(other, s)' = AuditCount(other, s)
  BY RecordCounts
<1> QED BY <1>1, <1>2, <1>3, BoundsAssumption DEF CountedUses

-----------------------------------------------------------------------------
(* Any number of clients, ids reused or not: counters are never ahead of the
   recorded candidate and the audit table *)

Counts(row, r) == \A s \in Signals : row.content.counters[s] <= CountedUses(r, s)

(* Not only the rows but also the rows that up-to-date operations have read, and
   may write back later, are behind the audit table. *)
CountersInv ==
    /\ VersionsInv
    /\ \A r \in Records : Recorded(r) /\ OwnValues(r) => Counts(rows[r], r)
    /\ \A client \in Clients :
          UpToDate(client) => Counts(op[client].row, op[client].record)

LEMMA CountersRecord ==
    ASSUME CountersInv, VersionsInv', NEW client \in Clients, NEW r \in Records,
           NEW c \in Candidates, RecordCandidate(client, r, c)
    PROVE  CountersInv'
<1> USE DEF CountersInv
<1>0. TypeOK
  BY DEF VersionsInv
<1>1. /\ rows'[r] = NewRow(c, Len(log[r]) + 1)
      /\ \A other \in Records \ {r} : rows'[other] = rows[other]
  BY <1>0 DEF RecordCandidate, TypeOK
<1>2. \A s \in Signals :
         /\ CountedUses(r, s)' = RecordedCounters(c)[s]
         /\ RecordedCounters(c)[s] \in 0..CounterCap
         /\ \A other \in Records \ {r} : CountedUses(other, s)' = CountedUses(other, s)
  BY <1>0, RecordCountsUses
<1>3. Counts(rows[r], r)'
  <2>1. rows'[r].content.counters = RecordedCounters(c)
    BY <1>1 DEF NewRow
  <2> QED BY <1>2, <2>1, BoundsAssumption DEF Counts
<1>4. ASSUME NEW q \in Records \ {r}, Recorded(q)', OwnValues(q)' PROVE Counts(rows[q], q)'
  <2>1. Counts(rows[q], q)
    BY <1>1, <1>4 DEF Recorded, OwnValues
  <2> QED BY <1>1, <1>2, <2>1 DEF Counts
<1>5. ASSUME NEW other \in Clients, UpToDate(other)'
      PROVE  Counts(op[other].row, op[other].record)'
  <2>1. op' = op /\ op[other].record \in Records \ {r} /\ UpToDate(other)
    BY <1>5, RecordOvertakes
  <2>2. Counts(op[other].row, op[other].record)
    BY <2>1
  <2> QED BY <1>2, <2>1, <2>2 DEF Counts
<1> QED BY <1>3, <1>4, <1>5

LEMMA CountersRead ==
    ASSUME CountersInv, VersionsInv', NEW client \in Clients,
           \/ \E r \in Records, d \in Decisions : ReadForPromotion(client, r, d)
           \/ \E r \in Records, s \in Signals : ReadForReinforcement(client, r, s)
           \/ \E r \in Records, a \in LifecycleActions : ReadForLifecycle(client, r, a)
           \/ Abandon(client)
    PROVE  CountersInv'
<1>0. TypeOK
  BY DEF CountersInv, VersionsInv
<1>1. UNCHANGED <<rows, index, log>>
  BY ReadOnly
<1>2. \A r : \A s \in Signals : CountedUses(r, s)' = CountedUses(r, s)
  BY <1>1 DEF AuditCount, CountedUses
<1>3. \A r \in Records : Recorded(r)' /\ OwnValues(r)' => Counts(rows[r], r)'
  BY <1>1, <1>2 DEF CountersInv, Recorded, OwnValues, Counts
<1>4. \A other \in Clients \ {client} : op'[other] = op[other]
  BY <1>0 DEF ReadForPromotion, ReadForReinforcement, ReadForLifecycle, Read, Abandon, TypeOK
<1>5. UpToDate(client)' => Counts(op[client].row, op[client].record)'
  <2>1. CASE Abandon(client)
    BY <1>0, <2>1 DEF Abandon, TypeOK, Idle, UpToDate
  <2>2. CASE ~Abandon(client)
    <3>1. PICK kind, r, arg : r \in Records /\ Read(client, kind, r, arg)
      BY <2>2 DEF ReadForPromotion, ReadForReinforcement, ReadForLifecycle
    <3>2. op'[client] = [kind |-> kind, record |-> r, arg |-> arg, row |-> rows[r]]
      BY <1>0, <3>1 DEF Read, TypeOK
    <3>3. UpToDate(client)' => Counts(rows[r], r)
      BY <1>1, <3>1, <3>2 DEF Read, CountersInv, Recorded, UpToDate, OwnValues
    <3> QED BY <1>2, <3>2, <3>3 DEF Counts
  <2> QED BY <2>1, <2>2
<1>6. ASSUME NEW other \in Clients, UpToDate(other)'
      PROVE  Counts(op[other].row, op[other].record)'
  <2>1. CASE other = client
    BY <1>5, <1>6, <2>1
  <2>2. CASE other # client
    <3>1. UpToDate(other) /\ op'[other] = op[other]
      BY <1>1, <1>4, <1>6, <2>2 DEF UpToDate, OwnValues
    <3>2. Counts(op[other].row, op[other].record)
      BY <3>1 DEF CountersInv
    <3> QED BY <1>2, <3>1, <3>2 DEF Counts
  <2> QED BY <2>1, <2>2
<1> QED BY <1>3, <1>6 DEF CountersInv

(* What an update writes back is at most one ahead of what was read, and only
   for the signal that the same transaction logs. *)
LEMMA CountersOfUpdates ==
    ASSUME NEW row \in Row, NEW read \in Row, NEW s \in Signals
    PROVE  /\ \A d : PromotedRow(row, read, d).content = row.content
           /\ \A a : RetiredRow(row, a).content = row.content
           /\ TombstonedRow(row).content.counters[s] = 0
           /\ \A e \in Signals :
                 ReinforcedRow(row, read, e).content.counters[s] =
                     IF e = s THEN Incremented(read.content.counters[s])
                     ELSE read.content.counters[s]
<1>1. \A d : PromotedRow(row, read, d).content = row.content
  BY DEF PromotedRow, Row
<1>2. \A a : RetiredRow(row, a).content = row.content
  BY DEF RetiredRow, Row
<1>3. TombstonedRow(row).content.counters[s] = 0
  BY DEF TombstonedRow, Row
<1>4. ASSUME NEW e \in Signals
      PROVE  ReinforcedRow(row, read, e).content.counters[s] =
                 IF e = s THEN Incremented(read.content.counters[s])
                 ELSE read.content.counters[s]
  <2>1. read.content \in Content /\ read.content.counters \in Counters
    BY DEF Row, Content
  <2>2. [read.content EXCEPT !.counters[e] = Incremented(@)].counters =
            [read.content.counters EXCEPT ![e] = Incremented(@)]
    BY <2>1 DEF Content
  <2>3. ReinforcedRow(row, read, e).content = [read.content EXCEPT !.counters[e] = Incremented(@)]
    BY DEF ReinforcedRow, Row
  <2> QED BY <2>1, <2>2, <2>3 DEF Counters
<1> QED BY <1>1, <1>2, <1>3, <1>4

LEMMA CountersCommit ==
    ASSUME CountersInv, VersionsInv', NEW client \in Clients, op[client].record \in Records,
           \/ CommitPromotion(client) \/ CommitReinforcement(client)
           \/ CommitLifecycle(client) \/ CommitTombstone(client)
    PROVE  CountersInv'
<1> USE DEF CountersInv
<1>0. TypeOK /\ RowInLog
  BY DEF VersionsInv
<1>1. PICK r \in Records : r = op[client].record
  OBVIOUS
<1>2. PICK newRow :
         /\ CommitOn(client, newRow)
         /\ \/ /\ CommitPromotion(client)
               /\ newRow = PromotedRow(rows[r], op[client].row, op[client].arg)
            \/ /\ CommitReinforcement(client)
               /\ newRow = ReinforcedRow(rows[r], op[client].row, op[client].arg)
            \/ CommitLifecycle(client) /\ newRow = RetiredRow(rows[r], op[client].arg)
            \/ CommitTombstone(client) /\ newRow = TombstonedRow(rows[r])
  BY <1>0, <1>1, CommitForms
<1>3. /\ rows[r] \in Row /\ op[client].row \in Row /\ op[client].kind # "idle"
      /\ Recorded(r)
      /\ CommitReinforcement(client) => op[client].arg \in Signals
  BY <1>0, <1>1, <1>2, PendingType, NoRowAssumption DEF CommitOn, Recorded, CommitReinforcement
<1>4. ASSUME NEW s \in Signals
      PROVE  /\ CountedUses(r, s) \in Nat
             /\ CountedUses(r, s)' = CountedUses(r, s) + (IF op[client].arg = s THEN 1 ELSE 0)
             /\ \A other \in Records \ {r} : CountedUses(other, s)' = CountedUses(other, s)
  <2>1. CommitOn(client, newRow)
    BY <1>2
  <2> QED BY <1>0, <1>1, <2>1, CommitCountsUse
<1>5. /\ rows'[r] = newRow
      /\ \A other \in Records \ {r} : rows'[other] = rows[other]
  BY <1>0, <1>1, <1>2 DEF CommitOn, Commit, TypeOK
<1>6. ASSUME NEW s \in Signals, OwnValues(r)'
      PROVE  newRow.content.counters[s] <= CountedUses(r, s)'
  <2>1. /\ CountedUses(r, s) \in Nat /\ CountedUses(r, s)' \in Nat
        /\ CountedUses(r, s) <= CountedUses(r, s)'
        /\ op[client].arg = s => CountedUses(r, s)' = CountedUses(r, s) + 1
    BY <1>4
  <2>2. /\ rows[r].content.counters[s] \in Nat /\ op[client].row.content.counters[s] \in Nat
    BY <1>3, BoundsAssumption DEF Row, Content, Counters
  <2>3. rows[r].content.counters[s] <= CountedUses(r, s)
    <3>1. Counts(rows[r], r)
      BY <1>2, <1>3, <1>6, CommitOvertakes
    <3> QED BY <3>1 DEF Counts
  <2>4. CASE newRow.content = rows[r].content
    BY <2>1, <2>2, <2>3, <2>4
  <2>5. CASE newRow.content.counters[s] = 0
    BY <2>1, <2>5
  <2>6. CASE CommitReinforcement(client) /\ newRow = ReinforcedRow(rows[r], op[client].row, op[client].arg)
    <3>1. newRow.content.counters[s] =
              IF op[client].arg = s THEN Incremented(op[client].row.content.counters[s])
              ELSE op[client].row.content.counters[s]
      BY <1>3, <2>6, CountersOfUpdates
    <3>2. /\ Incremented(op[client].row.content.counters[s]) \in Nat
          /\ Incremented(op[client].row.content.counters[s]) <= op[client].row.content.counters[s] + 1
      BY <2>2, BoundsAssumption DEF Incremented, AtMostCap
    <3>3. op[client].row.content.counters[s] <= CountedUses(r, s)
      <4>1. UpToDate(client)
        BY <1>1, <1>2, <1>6, <2>6, WritersAreUpToDate
      <4>2. Counts(op[client].row, r)
        BY <1>1, <4>1
      <4> QED BY <4>2 DEF Counts
    <3> QED BY <2>1, <2>2, <3>1, <3>2, <3>3
  <2> QED BY <1>2, <1>3, <2>4, <2>5, <2>6, CountersOfUpdates
<1>7. OwnValues(r)' => Counts(rows[r], r)'
  BY <1>5, <1>6 DEF Counts
<1>8. ASSUME NEW q \in Records \ {r}, Recorded(q)', OwnValues(q)' PROVE Counts(rows[q], q)'
  <2>1. Counts(rows[q], q)
    BY <1>5, <1>8 DEF Recorded, OwnValues
  <2> QED BY <1>4, <1>5, <2>1 DEF Counts
<1>9. ASSUME NEW other \in Clients, UpToDate(other)'
      PROVE  Counts(op[other].row, op[other].record)'
  <2>1. UpToDate(other) /\ op'[other] = op[other] /\ op[other].record \in Records
    BY <1>2, <1>9, CommitOvertakes
  <2>2. Counts(op[other].row, op[other].record) /\ op[other].row \in Row
    BY <1>0, <2>1, PendingType DEF UpToDate
  <2>3. PICK q \in Records : q = op[other].record
    BY <2>1
  <2>4. ASSUME NEW s \in Signals PROVE op[other].row.content.counters[s] <= CountedUses(q, s)'
    <3>1. op[other].row.content.counters[s] \in Nat
      BY <2>2, BoundsAssumption DEF Row, Content, Counters
    <3>2. op[other].row.content.counters[s] <= CountedUses(q, s)
      BY <2>2, <2>3 DEF Counts
    <3>3. CASE q = r
      <4>1. CountedUses(r, s) \in Nat /\ CountedUses(r, s)' \in {CountedUses(r, s), CountedUses(r, s) + 1}
        BY <1>4
      <4>2. op[other].row.content.counters[s] <= CountedUses(r, s)'
        BY <3>1, <3>2, <3>3, <4>1
      <4> QED BY <3>3, <4>2 DEF CountedUses, AuditCount
    <3>4. CASE q # r
      BY <1>4, <3>2, <3>4
    <3> QED BY <3>3, <3>4
  <2> QED BY <2>1, <2>3, <2>4 DEF Counts, CountedUses, AuditCount
<1> QED BY <1>5, <1>7, <1>8, <1>9

(* However many clients interleave their reads, commits and re-recordings, a
   reinforcement counter never shows more uses than the candidate brought along
   and the audit table holds, in every row that holds only values of its own
   recording: a stale write-back may lose updates, it never invents one. *)
THEOREM CountersStayBehindAudit == Spec => []CountersNeverExceedAudit
<1>1. Init => CountersInv
  BY VersionsInit DEF Init, CountersInv, Recorded, UpToDate, Idle
<1>2. CountersInv /\ [Next]_vars => CountersInv'
  <2> SUFFICES ASSUME CountersInv, [Next]_vars PROVE CountersInv'
    OBVIOUS
  <2>1. VersionsInv'
    BY VersionsStep DEF CountersInv
  <2>2. CASE UNCHANGED vars
    <3>1. UNCHANGED <<rows, log, op>>
      BY <2>2 DEF vars
    <3> QED BY <2>1, <3>1 DEF CountersInv, Recorded, OwnValues, UpToDate, Counts, CountedUses, AuditCount
  <2>3. ASSUME NEW client \in Clients, ClientStep(client) PROVE CountersInv'
    <3>1. CASE \/ CommitPromotion(client) \/ CommitReinforcement(client)
               \/ CommitLifecycle(client) \/ CommitTombstone(client)
      <4>1. op[client].record \in Records
        BY <3>1, CommitForms, PendingType DEF CommitOn, CountersInv, VersionsInv
      <4> QED BY <2>1, <3>1, <4>1, CountersCommit
    <3> QED BY <2>1, <2>3, <3>1, CountersRecord, CountersRead DEF ClientStep
  <2> QED BY <2>2, <2>3 DEF Next
<1>3. CountersInv => CountersNeverExceedAudit
  BY DEF CountersInv, CountersNeverExceedAudit, Counts
<1> QED BY <1>1, <1>2, <1>3, PTL DEF Spec

-----------------------------------------------------------------------------
(* One client *)

(* When one client has the database open, which is how every test and the  *)
(* command line use it, the row a mutator read is still the current row    *)
(* when it commits.                                                        *)
OneClient == \A c1, c2 \in Clients : c1 = c2

(* What the row of a record says about the audit rows since it was written. *)
RowSound(r) ==
    /\ rows[r].normal_retrieval_allowed =>
          /\ ~rows[r].unsafe_quarantine
          /\ ~rows[r].deletion_requested
          /\ rows[r].lifecycle_action = "none"
          /\ ~rows[r].content.redacted
          /\ ~Since(r, BlockingEntries)
    /\ Since(r, {"delete"}) => rows[r].content.redacted
    /\ rows[r].content.redacted => rows[r].deletion_requested

DeleteComesLast(r) ==
    \A i, j \in DOMAIN log[r] :
        i > rows[r].created_at /\ log[r][i] = "delete" /\ i < j
            => log[r][j] \notin KeepingEntries

(* The row read is the current one, and the checks made on it still hold. *)
SnapshotCurrent(client) ==
    LET o == op[client] IN
    /\ o.row = rows[o.record]
    /\ o.kind = "reinforcement" \/ o.arg = "promote"
          => ~rows[o.record].deletion_requested

SingleInv ==
    /\ TypeOK
    /\ RowInLog
    /\ \A client \in Clients : op[client].kind # "idle" => SnapshotCurrent(client)
    /\ \A r \in Records : Recorded(r) => RowSound(r) /\ DeleteComesLast(r)

-----------------------------------------------------------------------------
(* A new recording starts a sound row. *)
LEMMA SingleRecord ==
    ASSUME OneClient, SingleInv, NEW client \in Clients, NEW r \in Records,
           NEW c \in Candidates, RecordCandidate(client, r, c)
    PROVE  SingleInv'
<1>0. TypeOK /\ RowInLog /\ \A q \in Records : Recorded(q) => RowSound(q) /\ DeleteComesLast(q)
  BY DEF SingleInv
<1>1. TypeOK' /\ RowInLog'
  BY <1>0, RecordSince, RecordCandidateType
<1>2. ASSUME NEW entries
      PROVE  /\ rows'[r] = NewRow(c, Len(log[r]) + 1)
             /\ ~Since(r, entries)'
             /\ \A other \in Records \ {r} :
                  /\ Since(other, entries)' <=> Since(other, entries)
                  /\ rows'[other] = rows[other] /\ log'[other] = log[other]
  <2>1. TypeOK /\ RowInLog
    BY <1>0
  <2> QED BY <2>1, RecordSince
<1>3. RowSound(r)'
  <2>1. c \in Candidate /\ ~Since(r, {"delete"})' /\ ~Since(r, BlockingEntries)'
    BY <1>2, InputsAssumption
  <2>2. ASSUME NEW n, n = NewRow(c, Len(log[r]) + 1), n.normal_retrieval_allowed
        PROVE  /\ ~n.unsafe_quarantine /\ ~n.deletion_requested
               /\ n.lifecycle_action = "none"
    BY <2>1, <2>2 DEF NewRow
  <2>3. rows'[r] = NewRow(c, Len(log[r]) + 1)
    BY <1>2
  <2>4. ~rows'[r].content.redacted
    BY <2>3 DEF NewRow
  <2> QED BY <2>1, <2>2, <2>3, <2>4 DEF RowSound
<1>4. DeleteComesLast(r)'
  <2>1. /\ rows'[r].created_at = Len(log[r]) + 1 /\ Len(log[r]) \in Nat
        /\ log'[r] = Append(log[r], "recorded")
        /\ log[r] \in Seq(LogEntry)
    BY <1>0, <1>2 DEF NewRow, RecordCandidate, Logged, TypeOK
  <2>2. DOMAIN log'[r] = 1..(Len(log[r]) + 1)
    BY <2>1
  <2> QED BY <2>1, <2>2 DEF DeleteComesLast
<1>5. ASSUME NEW q \in Records \ {r}, Recorded(q)' PROVE RowSound(q)' /\ DeleteComesLast(q)'
  <2>1. /\ Since(q, {"delete"})' <=> Since(q, {"delete"})
        /\ Since(q, BlockingEntries)' <=> Since(q, BlockingEntries)
        /\ rows'[q] = rows[q] /\ log'[q] = log[q]
    BY <1>2
  <2> QED BY <1>0, <1>5, <2>1 DEF RowSound, DeleteComesLast, Recorded
<1>6. \A other \in Clients : op'[other].kind = "idle"
  BY DEF OneClient, RecordCandidate, Idle
<1> QED BY <1>1, <1>3, <1>4, <1>5, <1>6 DEF SingleInv

(* Reading takes a current snapshot. *)
LEMMA SingleRead ==
    ASSUME OneClient, SingleInv, TypeOK', NEW client \in Clients,
           \/ \E r \in Records, d \in Decisions : ReadForPromotion(client, r, d)
           \/ \E r \in Records, s \in Signals : ReadForReinforcement(client, r, s)
           \/ \E r \in Records, a \in LifecycleActions : ReadForLifecycle(client, r, a)
           \/ Abandon(client)
    PROVE  SingleInv'
<1>1. UNCHANGED <<rows, index, log>>
  BY ReadOnly
<1>2. /\ RowInLog'
      /\ \A r \in Records : Recorded(r)' => RowSound(r)' /\ DeleteComesLast(r)'
  BY <1>1 DEF SingleInv, RowInLog, Recorded, RowSound, DeleteComesLast, Since
<1>3. op'[client].kind # "idle" => SnapshotCurrent(client)'
  <2>1. CASE \E r \in Records, d \in Decisions : ReadForPromotion(client, r, d)
    BY <1>1, <2>1 DEF ReadForPromotion, Read, SingleInv, TypeOK, SnapshotCurrent
  <2>2. CASE \E r \in Records, s \in Signals : ReadForReinforcement(client, r, s)
    BY <1>1, <2>2 DEF ReadForReinforcement, Read, SingleInv, TypeOK, SnapshotCurrent
  <2>3. CASE \E r \in Records, a \in LifecycleActions : ReadForLifecycle(client, r, a)
    <3>1. PICK r \in Records, a \in LifecycleActions : ReadForLifecycle(client, r, a)
      BY <2>3
    <3>2. a # "promote"
      BY InputsAssumption DEF AllLifecycleActions
    <3>3. op'[client] = [kind |-> "lifecycle", record |-> r, arg |-> a, row |-> rows[r]]
      BY <3>1 DEF ReadForLifecycle, Read, SingleInv, TypeOK
    <3> QED BY <1>1, <3>2, <3>3 DEF SnapshotCurrent
  <2>4. CASE Abandon(client)
    BY <2>4 DEF Abandon, SingleInv, TypeOK, Idle
  <2> QED BY <2>1, <2>2, <2>3, <2>4
<1>4. \A other \in Clients : op'[other].kind # "idle" => SnapshotCurrent(other)'
  BY <1>3 DEF OneClient
<1> QED BY <1>2, <1>4 DEF SingleInv

(* The row a commit leaves behind is as sound as the one it found. *)
LEMMA SoundUpdate ==
    ASSUME SingleInv, NEW client \in Clients,
           \/ CommitPromotion(client) \/ CommitReinforcement(client)
           \/ CommitLifecycle(client) \/ CommitTombstone(client),
           NEW r \in Records, r = op[client].record
    PROVE  RowSound(r)' /\ DeleteComesLast(r)'
<1>1. TypeOK /\ RowInLog
  BY DEF SingleInv
<1>2. PICK newRow :
         /\ CommitOn(client, newRow)
         /\ \/ /\ CommitPromotion(client)
               /\ newRow = PromotedRow(rows[r], op[client].row, op[client].arg)
            \/ /\ CommitReinforcement(client)
               /\ newRow = ReinforcedRow(rows[r], op[client].row, op[client].arg)
            \/ CommitLifecycle(client) /\ newRow = RetiredRow(rows[r], op[client].arg)
            \/ CommitTombstone(client) /\ newRow = TombstonedRow(rows[r])
  BY <1>1, CommitForms
<1>3. /\ op[client].kind # "idle" /\ Recorded(r) /\ rows[r] \in Row
      /\ op[client].row = rows[r]
      /\ op[client].kind = "reinforcement" \/ op[client].arg = "promote"
            => ~rows[r].deletion_requested
  BY <1>1, <1>2, PendingType, NoRowAssumption DEF CommitOn, Recorded, SingleInv, SnapshotCurrent
<1>4. RowSound(r) /\ DeleteComesLast(r)
  BY <1>3 DEF SingleInv
<1>5. ASSUME NEW entries
      PROVE  /\ Since(r, entries)' <=> Since(r, entries) \/ op[client].arg \in entries
             /\ rows'[r] = newRow
  <2>1. CommitOn(client, newRow)
    BY <1>2
  <2> QED BY <1>1, <2>1, CommitSince
<1>6. RowSound(r)'
  <2>1. /\ Since(r, BlockingEntries)' <=> Since(r, BlockingEntries) \/ op[client].arg \in BlockingEntries
        /\ Since(r, {"delete"})' <=> Since(r, {"delete"}) \/ op[client].arg = "delete"
        /\ rows'[r] = newRow
    BY <1>5
  <2>2. CASE CommitPromotion(client)
    <3>1. /\ newRow.unsafe_quarantine = rows[r].unsafe_quarantine
          /\ newRow.deletion_requested = rows[r].deletion_requested
          /\ newRow.lifecycle_action = rows[r].lifecycle_action
          /\ newRow.content = rows[r].content
          /\ newRow.normal_retrieval_allowed =>
                /\ rows[r].normal_retrieval_allowed
                /\ op[client].arg \notin {"reject", "quarantine", "superseded"}
      BY <1>2, <1>3, <2>2
         DEF Row, PromotedRow, CommitPromotion, CommitReinforcement, CommitLifecycle, CommitTombstone
    <3>2. op[client].arg \notin AllLifecycleActions /\ op[client].arg # "delete"
      BY <1>1, <2>2, CommittedEntry DEF AllLifecycleActions
    <3> QED BY <1>4, <2>1, <3>1, <3>2 DEF RowSound, BlockingEntries
  <2>3. CASE CommitReinforcement(client)
    <3>1. /\ newRow.unsafe_quarantine = rows[r].unsafe_quarantine
          /\ newRow.deletion_requested = rows[r].deletion_requested
          /\ newRow.lifecycle_action = rows[r].lifecycle_action
          /\ newRow.normal_retrieval_allowed = rows[r].normal_retrieval_allowed
          /\ newRow.content.redacted = rows[r].content.redacted
      <4>1. newRow = ReinforcedRow(rows[r], rows[r], op[client].arg)
        BY <1>2, <1>3, <2>3
           DEF CommitPromotion, CommitReinforcement, CommitLifecycle, CommitTombstone
      <4>2. rows[r].content \in Content
        BY <1>3 DEF Row
      <4>3. [rows[r].content EXCEPT !.counters[op[client].arg] = Incremented(@)].redacted
               = rows[r].content.redacted
        BY <4>2 DEF Content
      <4> QED BY <1>3, <4>1, <4>3 DEF Row, ReinforcedRow
    <3>2. op[client].arg \notin BlockingEntries /\ op[client].arg # "delete"
      BY <1>1, <2>3, CommittedEntry
    <3> QED BY <1>4, <2>1, <3>1, <3>2 DEF RowSound
  <2>4. CASE CommitLifecycle(client)
    <3>1. /\ ~newRow.normal_retrieval_allowed
          /\ newRow.deletion_requested = rows[r].deletion_requested
          /\ newRow.content = rows[r].content
      BY <1>2, <1>3, <2>4
         DEF Row, RetiredRow, CommitPromotion, CommitReinforcement, CommitLifecycle, CommitTombstone
    <3>2. op[client].arg # "delete"
      BY <1>1, <2>4, CommittedEntry
    <3> QED BY <1>4, <2>1, <3>1, <3>2 DEF RowSound
  <2>5. CASE CommitTombstone(client)
    <3>1. /\ ~newRow.normal_retrieval_allowed /\ newRow.deletion_requested
          /\ newRow.content.redacted
      <4>1. newRow = TombstonedRow(rows[r])
        BY <1>2, <2>5
           DEF CommitPromotion, CommitReinforcement, CommitLifecycle, CommitTombstone
      <4> QED BY <1>3, <4>1 DEF Row, TombstonedRow
    <3> QED BY <2>1, <3>1 DEF RowSound
  <2> QED BY <2>2, <2>3, <2>4, <2>5
<1>7. DeleteComesLast(r)'
  <2>1. /\ log'[r] = Append(log[r], op[client].arg) /\ log[r] \in Seq(LogEntry)
        /\ rows'[r].created_at = rows[r].created_at
    BY <1>1, <1>2, <1>5 DEF CommitOn, Commit, Logged, TypeOK
  <2>2. /\ DOMAIN log[r] = 1..Len(log[r]) /\ DOMAIN log'[r] = 1..(Len(log[r]) + 1)
        /\ Len(log[r]) \in Nat /\ log'[r][Len(log[r]) + 1] = op[client].arg
        /\ \A i \in 1..Len(log[r]) : log'[r][i] = log[r][i]
    BY <2>1
  <2>3. op[client].arg \in KeepingEntries => ~Since(r, {"delete"})
    <3>1. op[client].arg \in KeepingEntries
             => op[client].kind = "reinforcement" \/ op[client].arg = "promote"
      BY <1>1, CommittedEntry
         DEF CommitReinforcement, KeepingEntries, AllSignals
    <3> QED BY <1>3, <1>4, <3>1 DEF RowSound
  <2>4. ASSUME NEW i \in DOMAIN log'[r], NEW j \in DOMAIN log'[r],
               i > rows'[r].created_at, log'[r][i] = "delete", i < j
        PROVE  log'[r][j] \notin KeepingEntries
    <3>1. i \in DOMAIN log[r] /\ log[r][i] = "delete" /\ i > rows[r].created_at
      BY <2>1, <2>2, <2>4
    <3>2. CASE j \in DOMAIN log[r]
      BY <1>4, <2>2, <2>4, <3>1, <3>2 DEF DeleteComesLast
    <3>3. CASE j = Len(log[r]) + 1
      BY <2>2, <2>3, <3>1, <3>3 DEF Since
    <3> QED BY <2>2, <3>2, <3>3
  <2> QED BY <2>4 DEF DeleteComesLast
<1> QED BY <1>6, <1>7

LEMMA SingleCommit ==
    ASSUME OneClient, SingleInv, NEW client \in Clients, op[client].record \in Records,
           \/ CommitPromotion(client) \/ CommitReinforcement(client)
           \/ CommitLifecycle(client) \/ CommitTombstone(client)
    PROVE  SingleInv'
<1>1. TypeOK /\ RowInLog
  BY DEF SingleInv
<1>2. PICK r \in Records : r = op[client].record
  OBVIOUS
<1>3. PICK newRow : CommitOn(client, newRow)
  BY <1>1, CommitForms
<1>4. ASSUME NEW entries
      PROVE  \A other \in Records \ {r} :
                /\ Since(other, entries)' <=> Since(other, entries)
                /\ rows'[other] = rows[other]
  BY <1>1, <1>2, <1>3, CommitSince
<1>5. RowInLog'
  BY <1>1, <1>2, <1>3, CommitSince
<1>6. ASSUME NEW q \in Records \ {r}, Recorded(q)' PROVE RowSound(q)' /\ DeleteComesLast(q)'
  <2>1. /\ Since(q, {"delete"})' <=> Since(q, {"delete"})
        /\ Since(q, BlockingEntries)' <=> Since(q, BlockingEntries)
        /\ rows'[q] = rows[q]
    BY <1>4
  <2>2. log'[q] = log[q]
    BY <1>1, <1>2, <1>3 DEF CommitOn, Commit, Logged, TypeOK
  <2> QED BY <1>6, <2>1, <2>2 DEF SingleInv, RowSound, DeleteComesLast, Recorded
<1>7. RowSound(r)' /\ DeleteComesLast(r)'
  BY <1>2, SoundUpdate
<1>8. \A other \in Clients : op'[other].kind = "idle"
  BY <1>1, <1>3 DEF OneClient, CommitOn, Commit, TypeOK, Idle
<1>9. TypeOK'
  BY <1>1, CommitActionType
<1> QED BY <1>5, <1>6, <1>7, <1>8, <1>9 DEF SingleInv

LEMMA SingleInit == Init => SingleInv
<1>1. Init => TypeOK
  BY DEF Init, TypeOK, Operation, NoIndexRows, IndexRows, Idle
<1> QED BY <1>1 DEF Init, SingleInv, RowInLog, Recorded, Idle

LEMMA SingleStep ==
    ASSUME OneClient, SingleInv, [Next]_vars
    PROVE  SingleInv'
<1>1. TypeOK'
  BY TypeStep DEF SingleInv
<1>2. CASE UNCHANGED vars
  BY <1>1, <1>2 DEF vars, SingleInv, RowInLog, Recorded, RowSound, DeleteComesLast,
                    SnapshotCurrent, Since
<1>3. ASSUME NEW client \in Clients, ClientStep(client) PROVE SingleInv'
  <2>1. ASSUME NEW r \in Records, NEW c \in Candidates, RecordCandidate(client, r, c)
        PROVE  SingleInv'
    BY <2>1, SingleRecord
  <2>2. CASE \/ \E r \in Records, d \in Decisions : ReadForPromotion(client, r, d)
             \/ \E r \in Records, s \in Signals : ReadForReinforcement(client, r, s)
             \/ \E r \in Records, a \in LifecycleActions : ReadForLifecycle(client, r, a)
             \/ Abandon(client)
    BY <1>1, <2>2, SingleRead
  <2>3. CASE \/ CommitPromotion(client) \/ CommitReinforcement(client)
             \/ CommitLifecycle(client) \/ CommitTombstone(client)
    <3>1. op[client].record \in Records
      BY <2>3, CommitForms, PendingType DEF CommitOn, SingleInv
    <3> QED BY <2>3, <3>1, SingleCommit
  <2> QED BY <1>3, <2>1, <2>2, <2>3 DEF ClientStep
<1> QED BY <1>2, <1>3 DEF Next

(* With one client, whatever sequence of calls it makes: a retrievable record
   is live, what took it out of retrieval keeps it out, and deletion is final. *)
THEOREM SingleClientSafety ==
    ASSUME OneClient
    PROVE  Spec => []RetentionIsSound
<1>1. SingleInv => RetentionIsSound
  BY DEF SingleInv, RowSound, DeleteComesLast, RetentionIsSound, RetrievableIsLive,
         BlockingIsPermanent, DeletionIsFinal
<1>2. SingleInv /\ [Next]_vars => SingleInv'
  BY SingleStep
<1> QED BY <1>1, <1>2, SingleInit, PTL DEF Spec

-----------------------------------------------------------------------------
(* Refinement *)

(* A step that changes one record's row takes that record's phase along a
   step of MemoryRetention or leaves it alone. *)
LEMMA RetentionStep ==
    ASSUME OneClient, SingleInv, [Next]_vars
    PROVE  [Retention!Next]_<<[r \in Records |-> RetentionPhase(r)],
                              [r \in Records |-> RetentionVersion(r)]>>
<1> DEFINE phase == [r \in Records |-> RetentionPhase(r)]
           version == [r \in Records |-> RetentionVersion(r)]
<1>0. TypeOK /\ RowInLog
  BY DEF SingleInv
<1>1. ASSUME UNCHANGED rows PROVE UNCHANGED <<phase, version>>
  BY <1>1 DEF RetentionPhase, RetentionVersion
<1>2. ASSUME NEW client \in Clients, NEW r \in Records, NEW c \in Candidates,
             RecordCandidate(client, r, c)
      PROVE  Retention!Record(r)
  <2>1. /\ rows' = [rows EXCEPT ![r] = NewRow(c, Len(log[r]) + 1)]
        /\ Len(log[r]) \in Nat /\ rows \in [Records -> Row \cup {NoRow}]
    BY <1>0, <1>2 DEF RecordCandidate, TypeOK
  <2>2. NewRow(c, Len(log[r]) + 1) # NoRow
    BY <2>1, NewRowType, InputsAssumption, NoRowAssumption
  <2>3. rows'[r] = NewRow(c, Len(log[r]) + 1) /\ ~rows'[r].content.redacted
        /\ rows'[r].created_at = Len(log[r]) + 1
    BY <2>1 DEF NewRow
  <2>4. rows[r] # NoRow => rows[r].created_at <= Len(log[r])
    BY <1>0 DEF RowInLog, Recorded
  <2>5. rows[r] # NoRow => rows[r].created_at \in Nat
    BY <2>1 DEF Row
  <2>6. phase'[r] \in {"retrievable", "blocked"}
    BY <2>2, <2>3 DEF RetentionPhase
  <2>7. version'[r] \in Nat /\ version'[r] > version[r]
    BY <2>1, <2>2, <2>3, <2>4, <2>5 DEF RetentionVersion
  <2>8. \A q \in Records \ {r} : phase'[q] = phase[q] /\ version'[q] = version[q]
    BY <2>1 DEF RetentionPhase, RetentionVersion
  <2>9. /\ phase' = [phase EXCEPT ![r] = phase'[r]]
        /\ version' = [version EXCEPT ![r] = version'[r]]
    BY <2>8
  <2> QED BY <2>6, <2>7, <2>9 DEF Retention!Record
<1>3. ASSUME NEW client \in Clients, NEW r \in Records, r = op[client].record,
             \/ CommitPromotion(client) \/ CommitReinforcement(client)
             \/ CommitLifecycle(client) \/ CommitTombstone(client)
      PROVE  \/ UNCHANGED <<phase, version>>
             \/ Retention!Block(r) \/ Retention!Tombstone(r)
  <2>1. PICK newRow :
           /\ CommitOn(client, newRow)
           /\ \/ /\ CommitPromotion(client)
                 /\ newRow = PromotedRow(rows[r], op[client].row, op[client].arg)
              \/ /\ CommitReinforcement(client)
                 /\ newRow = ReinforcedRow(rows[r], op[client].row, op[client].arg)
              \/ CommitLifecycle(client) /\ newRow = RetiredRow(rows[r], op[client].arg)
              \/ CommitTombstone(client) /\ newRow = TombstonedRow(rows[r])
    BY <1>0, <1>3, CommitForms
  <2>2. /\ rows[r] \in Row /\ op[client].row = rows[r] /\ newRow \in Row
        /\ newRow.created_at = rows[r].created_at
        /\ rows' = [rows EXCEPT ![r] = newRow]
    BY <1>0, <1>3, <2>1, PendingType DEF CommitOn, Commit, SingleInv, SnapshotCurrent
  <2>3. rows[r].normal_retrieval_allowed => ~rows[r].content.redacted
    BY <1>3, <2>2, NoRowAssumption DEF SingleInv, RowSound, Recorded
  <2>4. \/ /\ newRow.content.redacted = rows[r].content.redacted
           /\ newRow.normal_retrieval_allowed => rows[r].normal_retrieval_allowed
        \/ newRow.content.redacted /\ ~newRow.normal_retrieval_allowed
    <3>1. CASE newRow = PromotedRow(rows[r], rows[r], op[client].arg)
      BY <2>2, <3>1 DEF Row, PromotedRow
    <3>2. CASE newRow = ReinforcedRow(rows[r], rows[r], op[client].arg)
      <4>1. rows[r].content \in Content
        BY <2>2 DEF Row
      <4>2. [rows[r].content EXCEPT !.counters[op[client].arg] = Incremented(@)].redacted
               = rows[r].content.redacted
        BY <4>1 DEF Content
      <4> QED BY <2>2, <3>2, <4>2 DEF Row, ReinforcedRow
    <3>3. CASE newRow = RetiredRow(rows[r], op[client].arg)
      BY <2>2, <3>3 DEF Row, RetiredRow
    <3>4. CASE newRow = TombstonedRow(rows[r])
      BY <2>2, <3>4 DEF Row, TombstonedRow
    <3> QED BY <2>1, <2>2, <3>1, <3>2, <3>3, <3>4
  <2>5. /\ \A q \in Records \ {r} : phase'[q] = phase[q] /\ version'[q] = version[q]
        /\ version'[r] = version[r]
    BY <1>0, <2>2, NoRowAssumption DEF RetentionPhase, RetentionVersion, TypeOK
  <2>6. /\ rows'[r] = newRow /\ rows'[r] # NoRow /\ rows[r] # NoRow
    BY <1>0, <2>2, NoRowAssumption DEF TypeOK
  <2>7. /\ version' = version
        /\ phase' = [phase EXCEPT ![r] = phase'[r]]
    BY <2>5
  <2>8. /\ phase[r] = IF rows[r].normal_retrieval_allowed THEN "retrievable"
                      ELSE IF rows[r].content.redacted THEN "tombstoned" ELSE "blocked"
        /\ phase'[r] = IF newRow.normal_retrieval_allowed THEN "retrievable"
                       ELSE IF newRow.content.redacted THEN "tombstoned" ELSE "blocked"
    BY <2>6 DEF RetentionPhase
  <2>9. \/ phase'[r] = phase[r]
        \/ phase[r] = "retrievable" /\ phase'[r] = "blocked"
        \/ phase[r] \in {"retrievable", "blocked"} /\ phase'[r] = "tombstoned"
    BY <2>3, <2>4, <2>8
  <2> HIDE DEF phase, version
  <2>10. phase'[r] = phase[r] => UNCHANGED <<phase, version>>
    <3>1. phase = [phase EXCEPT ![r] = phase[r]]
      BY DEF phase
    <3> QED BY <2>7, <3>1
  <2> QED BY <2>7, <2>9, <2>10 DEF Retention!Block, Retention!Tombstone, phase, version
<1>4. CASE UNCHANGED vars
  BY <1>1, <1>4 DEF vars
<1>5. ASSUME NEW client \in Clients, ClientStep(client)
      PROVE  Retention!Next \/ UNCHANGED <<phase, version>>
  <2>1. CASE UNCHANGED <<rows, index, log>>
    BY <1>1, <2>1
  <2>2. CASE /\ op[client].record \in Records
             /\ \/ CommitPromotion(client) \/ CommitReinforcement(client)
                \/ CommitLifecycle(client) \/ CommitTombstone(client)
    BY <1>3, <2>2 DEF Retention!Next
  <2>3. ASSUME NEW r \in Records, NEW c \in Candidates, RecordCandidate(client, r, c)
        PROVE  Retention!Next
    BY <1>2, <2>3 DEF Retention!Next
  <2> QED BY <1>0, <1>5, <2>1, <2>2, <2>3, StepKinds
<1> QED BY <1>4, <1>5 DEF Next

(* With one client the store implements MemoryRetention: a held-back record
   stays held back and a tombstone stays a tombstone until the id is
   recorded again. *)
THEOREM StoreImplementsRetention ==
    ASSUME OneClient
    PROVE  Spec => ImplementsRetention
<1>1. Init => Retention!Init
  BY DEF Init, Retention!Init, RetentionPhase, RetentionVersion
<1>2. SingleInv /\ [Next]_vars =>
         [Retention!Next]_<<[r \in Records |-> RetentionPhase(r)],
                            [r \in Records |-> RetentionVersion(r)]>>
  BY RetentionStep
<1>3. SingleInv /\ [Next]_vars => SingleInv'
  BY SingleStep
<1> QED
  BY <1>1, <1>2, <1>3, SingleInit, PTL DEF Spec, ImplementsRetention, Retention!Spec

-----------------------------------------------------------------------------
(* With one client, no update of a counter is lost either *)

Capped(n) == IF n > CounterCap THEN CounterCap + 1 ELSE n

(* Incrementing what was capped caps what was incremented. *)
LEMMA IncrementedIsCapped ==
    ASSUME NEW n \in Nat
    PROVE  Incremented(Capped(n)) = Capped(n + 1)
BY BoundsAssumption DEF Incremented, AtMostCap, Capped

CountersMatch(r) ==
    \A s \in Signals :
        ~rows[r].content.redacted => rows[r].content.counters[s] = Capped(CountedUses(r, s))

LEMMA CountersMatchAuditSplit ==
    CountersMatchAudit <=> \A r \in Records : Recorded(r) => CountersMatch(r)
BY DEF CountersMatchAudit, CountersMatch, Capped

LEMMA CountersMatchRecord ==
    ASSUME SingleInv, NEW client \in Clients, NEW r \in Records, NEW c \in Candidates,
           RecordCandidate(client, r, c),
           \A q \in Records : Recorded(q) => CountersMatch(q)
    PROVE  \A q \in Records : Recorded(q)' => CountersMatch(q)'
<1>1. TypeOK
  BY DEF SingleInv
<1>2. /\ rows'[r] = NewRow(c, Len(log[r]) + 1)
      /\ \A other \in Records \ {r} : rows'[other] = rows[other]
  BY <1>1 DEF RecordCandidate, TypeOK
<1>3. \A s \in Signals :
         /\ CountedUses(r, s)' = RecordedCounters(c)[s]
         /\ RecordedCounters(c)[s] \in 0..CounterCap
         /\ \A other \in Records \ {r} : CountedUses(other, s)' = CountedUses(other, s)
  BY <1>1, RecordCountsUses
<1>4. CountersMatch(r)'
  <2>1. rows'[r].content.counters = RecordedCounters(c)
    BY <1>2 DEF NewRow
  <2>2. \A n \in 0..CounterCap : Capped(n) = n
    BY BoundsAssumption DEF Capped
  <2> QED BY <1>3, <2>1, <2>2 DEF CountersMatch
<1>5. \A q \in Records \ {r} : Recorded(q)' => CountersMatch(q)'
  BY <1>2, <1>3 DEF CountersMatch, Recorded, Capped
<1> QED BY <1>4, <1>5

(* The row a mutator read is still the current one when it commits, so that
   the counter it writes back is one ahead of the counter before. *)
LEMMA CountersMatchCommit ==
    ASSUME SingleInv, NEW client \in Clients, op[client].record \in Records,
           \/ CommitPromotion(client) \/ CommitReinforcement(client)
           \/ CommitLifecycle(client) \/ CommitTombstone(client),
           \A q \in Records : Recorded(q) => CountersMatch(q)
    PROVE  \A q \in Records : Recorded(q)' => CountersMatch(q)'
<1>1. TypeOK /\ RowInLog
  BY DEF SingleInv
<1>2. PICK r \in Records : r = op[client].record
  OBVIOUS
<1>3. PICK newRow :
         /\ CommitOn(client, newRow)
         /\ \/ /\ CommitPromotion(client)
               /\ newRow = PromotedRow(rows[r], op[client].row, op[client].arg)
            \/ /\ CommitReinforcement(client)
               /\ newRow = ReinforcedRow(rows[r], op[client].row, op[client].arg)
            \/ CommitLifecycle(client) /\ newRow = RetiredRow(rows[r], op[client].arg)
            \/ CommitTombstone(client) /\ newRow = TombstonedRow(rows[r])
  BY <1>1, <1>2, CommitForms
<1>4. /\ op[client].kind # "idle" /\ Recorded(r) /\ rows[r] \in Row
      /\ op[client].row = rows[r]
      /\ op[client].kind = "reinforcement" => op[client].arg \in Signals
      /\ op[client].kind = "reinforcement" => ~rows[r].deletion_requested
  BY <1>1, <1>2, <1>3, PendingType, NoRowAssumption
     DEF CommitOn, Recorded, SingleInv, SnapshotCurrent
<1>5. CountersMatch(r) /\ RowSound(r)
  BY <1>4 DEF SingleInv
<1>6. ASSUME NEW s \in Signals
      PROVE  /\ CountedUses(r, s)' = CountedUses(r, s) + (IF op[client].arg = s THEN 1 ELSE 0)
             /\ \A other \in Records \ {r} : CountedUses(other, s)' = CountedUses(other, s)
             /\ CountedUses(r, s) \in Nat
  <2>1. CommitOn(client, newRow)
    BY <1>3
  <2> QED BY <1>1, <1>2, <2>1, CommitCountsUse
<1>7. rows'[r] = newRow /\ \A other \in Records \ {r} : rows'[other] = rows[other]
  <2>1. CommitOn(client, newRow)
    BY <1>3
  <2> QED BY <1>1, <1>2, <2>1, CommitSince
<1>8. ASSUME NEW s \in Signals, ~newRow.content.redacted
      PROVE  newRow.content.counters[s] = Capped(CountedUses(r, s)')
  <2>1. CASE CommitPromotion(client) \/ CommitLifecycle(client)
    <3>1. newRow.content = rows[r].content
      BY <1>3, <1>4, <2>1, CountersOfUpdates
         DEF CommitPromotion, CommitReinforcement, CommitLifecycle, CommitTombstone
    <3>2. op[client].arg \notin AllSignals
      <4>1. \/ op[client].kind = "promotion" /\ op[client].arg \in AllDecisions
            \/ op[client].kind = "lifecycle" /\ op[client].arg \in AllLifecycleActions
        BY <1>1, <2>1, PendingType, InputsAssumption DEF CommitPromotion, CommitLifecycle
      <4> QED BY <4>1 DEF AllDecisions, AllLifecycleActions, AllSignals
    <3>3. op[client].arg # s
      BY <3>2, InputsAssumption
    <3>4. CountedUses(r, s)' = CountedUses(r, s)
      BY <1>6, <3>3
    <3> QED BY <1>5, <1>8, <3>1, <3>4 DEF CountersMatch
  <2>2. CASE CommitReinforcement(client)
    <3>1. /\ newRow = ReinforcedRow(rows[r], rows[r], op[client].arg)
          /\ op[client].arg \in Signals
      BY <1>3, <1>4, <2>2 DEF CommitPromotion, CommitReinforcement, CommitLifecycle, CommitTombstone
    <3>2. ~rows[r].content.redacted
      BY <1>4, <1>5, <2>2 DEF RowSound, CommitReinforcement
    <3>3. rows[r].content.counters[s] = Capped(CountedUses(r, s))
      BY <1>5, <3>2 DEF CountersMatch
    <3>4. newRow.content.counters[s] = IF op[client].arg = s
                                       THEN Incremented(rows[r].content.counters[s])
                                       ELSE rows[r].content.counters[s]
      BY <1>4, <3>1, CountersOfUpdates
    <3>5. CASE op[client].arg = s
      <4>1. CountedUses(r, s)' = CountedUses(r, s) + 1
        BY <1>6, <3>5
      <4>2. Incremented(Capped(CountedUses(r, s))) = Capped(CountedUses(r, s) + 1)
        BY <1>6, IncrementedIsCapped
      <4> QED BY <3>3, <3>4, <3>5, <4>1, <4>2
    <3>6. CASE op[client].arg # s
      BY <1>6, <3>3, <3>4, <3>6
    <3> QED BY <3>5, <3>6
  <2>3. CASE CommitTombstone(client)
    <3>1. newRow = TombstonedRow(rows[r])
      BY <1>3, <2>3 DEF CommitPromotion, CommitReinforcement, CommitLifecycle, CommitTombstone
    <3> QED BY <1>4, <1>8, <3>1 DEF Row, TombstonedRow
  <2> QED BY <1>3, <2>1, <2>2, <2>3
<1>9. CountersMatch(r)'
  BY <1>7, <1>8 DEF CountersMatch
<1>10. \A q \in Records \ {r} : Recorded(q)' => CountersMatch(q)'
  BY <1>6, <1>7 DEF CountersMatch, Recorded
<1> QED BY <1>9, <1>10

(* With one client, the reinforcement counters in a record's content are those
   of the recorded candidate plus the updates in the audit table since, up to
   the cap: none is lost, none is counted twice, whatever other calls come between. *)
THEOREM CountersEqualAudit ==
    ASSUME OneClient
    PROVE  Spec => []CountersMatchAudit
<1>1. Init => CountersMatchAudit
  BY DEF Init, CountersMatchAudit, Recorded
<1>2. ASSUME SingleInv, CountersMatchAudit, [Next]_vars PROVE CountersMatchAudit'
  <2>1. \A q \in Records : Recorded(q) => CountersMatch(q)
    BY <1>2, CountersMatchAuditSplit
  <2>2. CASE UNCHANGED <<rows, log>>
    BY <1>2, <2>2 DEF CountersMatchAudit, Recorded, CountedUses, AuditCount
  <2>3. ASSUME NEW client \in Clients, NEW r \in Records, NEW c \in Candidates,
               RecordCandidate(client, r, c)
        PROVE  CountersMatchAudit'
    <3>1. \A q \in Records : Recorded(q)' => CountersMatch(q)'
      BY <1>2, <2>1, <2>3, CountersMatchRecord
    <3> QED BY <3>1 DEF CountersMatchAudit, CountersMatch, Capped
  <2>4. ASSUME NEW client \in Clients, op[client].record \in Records,
               \/ CommitPromotion(client) \/ CommitReinforcement(client)
               \/ CommitLifecycle(client) \/ CommitTombstone(client)
        PROVE  CountersMatchAudit'
    <3>1. \A q \in Records : Recorded(q)' => CountersMatch(q)'
      BY <1>2, <2>1, <2>4, CountersMatchCommit
    <3> QED BY <3>1 DEF CountersMatchAudit, CountersMatch, Capped
  <2>5. TypeOK
    BY <1>2 DEF SingleInv
  <2> QED BY <1>2, <2>2, <2>3, <2>4, <2>5, StepKinds DEF Next, vars
<1>3. SingleInv /\ [Next]_vars => SingleInv'
  BY SingleStep
<1> QED BY <1>1, <1>2, <1>3, SingleInit, PTL DEF Spec

-----------------------------------------------------------------------------
(* Retrieval: what the reader's sequences hold *)

(* An enumeration of a finite set has each element once. *)
LEMMA Enumerates ==
    ASSUME NEW S, IsFiniteSet(S), NEW f \in SetToSeqs(S)
    PROVE  /\ f \in Seq(S)
           /\ \A i, j \in DOMAIN f : f[i] = f[j] => i = j
           /\ \A x \in S : \E i \in DOMAIN f : f[i] = x
<1>. DEFINE n == Cardinality(S)
<1>1. n \in Nat
  BY FS_CardinalityType
<1>2. f \in [1 .. n -> S] /\ \A i, j \in 1 .. n : i # j => f[i] # f[j]
  BY DEF SetToSeqs
<1>3. f \in Seq(S)
  BY <1>1, <1>2
<1>4. IsFiniteSet(1 .. n) /\ Cardinality(1 .. n) = n
  <2>. HIDE DEF n
  <2>1. IsFiniteSet(1 .. n) /\ Cardinality(1 .. n) = IF 1 > n THEN 0 ELSE n - 1 + 1
    BY <1>1, FS_Interval
  <2>. QED  BY <1>1, <2>1
<1>5. f \in Injection(1 .. n, S)
  BY <1>2 DEF Injection, IsInjective
<1>6. f \in Surjection(1 .. n, S)
  BY <1>4, <1>5, FS_Injection
<1>7. \A x \in S : \E i \in 1 .. n : f[i] = x
  BY <1>6 DEF Surjection
<1>. QED  BY <1>2, <1>3, <1>7

(* What is in a concatenation, and where. *)
LEMMA InConcatenation ==
    ASSUME NEW S, NEW s \in Seq(S), NEW t \in Seq(S), NEW both, both = s \o t
    PROVE  /\ both \in Seq(S) /\ Len(both) = Len(s) + Len(t)
           /\ \A i \in DOMAIN s : i \in DOMAIN both /\ both[i] = s[i]
           /\ \A i \in DOMAIN t : Len(s) + i \in DOMAIN both /\ both[Len(s) + i] = t[i]
           /\ \A i \in DOMAIN both :
                 \/ i \in DOMAIN s /\ both[i] = s[i]
                 \/ i - Len(s) \in DOMAIN t /\ both[i] = t[i - Len(s)]
<1>1. /\ both \in Seq(S) /\ Len(both) = Len(s) + Len(t)
      /\ \A i \in 1 .. Len(s) + Len(t) : both[i] = IF i <= Len(s) THEN s[i] ELSE t[i - Len(s)]
  BY ConcatProperties
<1>2. /\ DOMAIN s = 1 .. Len(s) /\ DOMAIN t = 1 .. Len(t) /\ Len(s) \in Nat /\ Len(t) \in Nat
      /\ DOMAIN both = 1 .. Len(s) + Len(t)
  BY <1>1
<1>3. ASSUME NEW i \in DOMAIN s PROVE i \in DOMAIN both /\ both[i] = s[i]
  BY <1>1, <1>2
<1>4. ASSUME NEW i \in DOMAIN t PROVE Len(s) + i \in DOMAIN both /\ both[Len(s) + i] = t[i]
  <2>. DEFINE k == Len(s) + i
  <2>1. k \in 1 .. Len(s) + Len(t) /\ ~(k <= Len(s)) /\ k - Len(s) = i
    BY <1>2
  <2>. HIDE DEF k
  <2>2. both[k] = t[i]
    BY <1>1, <2>1
  <2>. QED  BY <1>2, <2>1, <2>2 DEF k
<1>5. ASSUME NEW i \in DOMAIN both
      PROVE  \/ i \in DOMAIN s /\ both[i] = s[i]
             \/ i - Len(s) \in DOMAIN t /\ both[i] = t[i - Len(s)]
  BY <1>1, <1>2
<1>. QED  BY <1>1, <1>3, <1>4, <1>5

(* A value a sequence holds, and that a concatenation holds the values of both. *)
Holds(s, x) == \E i \in DOMAIN s : s[i] = x

LEMMA HeldByEither ==
    ASSUME NEW S, NEW s \in Seq(S), NEW t \in Seq(S)
    PROVE  /\ s \o t \in Seq(S)
           /\ \A x : Holds(s \o t, x) <=> Holds(s, x) \/ Holds(t, x)
<1>. DEFINE both == s \o t
<1>1. /\ both \in Seq(S)
      /\ \A i \in DOMAIN s : i \in DOMAIN both /\ both[i] = s[i]
      /\ \A i \in DOMAIN t : Len(s) + i \in DOMAIN both /\ both[Len(s) + i] = t[i]
      /\ \A i \in DOMAIN both :
            \/ i \in DOMAIN s /\ both[i] = s[i]
            \/ i - Len(s) \in DOMAIN t /\ both[i] = t[i - Len(s)]
  BY InConcatenation
<1>. HIDE DEF both
<1>2. \A x : Holds(both, x) <=> Holds(s, x) \/ Holds(t, x)
  BY <1>1 DEF Holds
<1>. QED  BY <1>1, <1>2 DEF both

-----------------------------------------------------------------------------
(* Retrieval: the reader beside any number of clients *)

Lookup == [by : {"record_id"}, key : Records]
    \cup [by : {"correlation_id"}, key : CorrelationIds]
    \cup [by : {"tag"}, key : Tags]
    \cup [by : {"source_ref"}, key : SourceRefs]
Summary == [record_id : Records, row : Row]
Refused == [record_id : Records, reason_code : ReasonCodes]

ReaderInv ==
    /\ TypeOK
    /\ IsFiniteSet({r \in Records : Recorded(r)})
    /\ query \in Queries \cup {NoQuery}
    /\ lookups \in Seq(Lookup) /\ results \in Seq(Summary) /\ blocked \in Seq(Refused)
    /\ steady \subseteq Records
    /\ query = NoQuery => lookups = <<>> /\ results = <<>> /\ blocked = <<>> /\ steady = {}
    /\ BoundedAndDistinct

(* What a SELECT adds to the answer: summaries of rows that fit, each once, as many as   *)
(* there is room for, and the refusals of the others.                                    *)
AnswerGrows(added, refusals) ==
    /\ added \in Seq(Summary) /\ refusals \in Seq(Refused)
    /\ results' = results \o added /\ blocked' = blocked \o refusals
    /\ Len(added) <= ResultLimit(query) - Len(results)
    /\ \A i, j \in DOMAIN added : added[i].record_id = added[j].record_id => i = j
    /\ \A i \in DOMAIN added : /\ Recorded(added[i].record_id)
                               /\ Outcome(added[i].record_id) = "fits"
                               /\ added[i].row = rows[added[i].record_id]
    /\ \A i \in DOMAIN refusals :
          \/ refusals[i].reason_code = "record_not_found"
          \/ /\ Recorded(refusals[i].record_id)
             /\ refusals[i].reason_code = Outcome(refusals[i].record_id)
             /\ refusals[i].reason_code \notin {"fits", "collected"}
    /\ \A r \in Found(Head(lookups)) :
          Outcome(r) = "fits" =>
              \/ Len(added) = ResultLimit(query) - Len(results)
              \/ \E i \in DOMAIN added : added[i].record_id = r

LEMMA QueryIsSet == NoQuery \notin Queries
<1>1. \A q \in Queries : q.depth \in Depths
  BY QueriesAssumption DEF Query
<1>. QED  BY <1>1 DEF NoQuery, Depths

LEMMA LimitIsPositive ==
    ASSUME NEW q \in Queries PROVE ResultLimit(q) \in Nat /\ ResultLimit(q) > 0
<1>1. q.depth \in Depths /\ DepthLimits[q.depth] \in Nat /\ DepthLimits[q.depth] > 0
  BY QueriesAssumption, DepthLimitsAssumption DEF Query
<1>. QED  BY <1>1 DEF ResultLimit

LEMMA OutcomeType ==
    ASSUME NEW r PROVE Outcome(r) \in ReasonCodes \cup {"fits", "collected"}
  BY DEF Outcome, ReasonCodes

LEMMA AnswerOfLookUp ==
    ASSUME ReaderInv, LookUp PROVE \E added, refusals : AnswerGrows(added, refusals)
<1>. DEFINE lookup == Head(lookups)
            found == Found(lookup)
            room == ResultLimit(query) - Len(results)
            fits == {r \in found : Outcome(r) = "fits"}
            others == {r \in found : Outcome(r) \notin {"fits", "collected"}}
            Summaries(s, m) == [i \in 1 .. m |-> [record_id |-> s[i], row |-> rows[s[i]]]]
            Refusals(s) == IF lookup.by = "record_id" /\ found = {}
                           THEN <<Refusal(lookup.key, "record_not_found")>>
                           ELSE [i \in DOMAIN s |-> Refusal(s[i], Outcome(s[i]))]
<1>1. PICK fitting \in SetToSeqs(fits), refused \in SetToSeqs(others) :
         /\ results' = results \o Summaries(fitting, IF Len(fitting) <= room THEN Len(fitting) ELSE room)
         /\ blocked' = blocked \o Refusals(refused)
  BY Zenon DEF LookUp
<1>2. query \in Queries /\ lookup \in Lookup /\ room \in Nat
  <2>1. query \in Queries /\ query # NoQuery
    BY DEF LookUp, ReaderInv
  <2>2. lookup \in Lookup
    BY HeadTailProperties DEF LookUp, ReaderInv
  <2>3. Len(results) \in Nat /\ Len(results) <= ResultLimit(query)
    BY <2>1 DEF ReaderInv, BoundedAndDistinct
  <2>4. ResultLimit(query) \in Nat
    BY <2>1, LimitIsPositive
  <2>. QED  BY <2>1, <2>2, <2>3, <2>4
<1>3. \A r \in found : r \in Records /\ Recorded(r) /\ rows[r] \in Row
  BY DEF Found, Recorded, ReaderInv, TypeOK
<1>. HIDE DEF room, lookup, found
<1>4. IsFiniteSet(fits) /\ IsFiniteSet(others)
  <2>1. fits \in SUBSET {r \in Records : Recorded(r)} /\ others \in SUBSET {r \in Records : Recorded(r)}
    BY <1>3
  <2>. HIDE DEF fits, others
  <2>. QED  BY <2>1, FS_Subset DEF ReaderInv
<1>5. /\ fitting \in Seq(fits) /\ \A r \in fits : \E i \in DOMAIN fitting : fitting[i] = r
      /\ \A i, j \in DOMAIN fitting : fitting[i] = fitting[j] => i = j
      /\ refused \in Seq(others)
  <2>. HIDE DEF fits, others
  <2>. QED  BY <1>1, <1>4, Enumerates
<1>. DEFINE size == IF Len(fitting) <= room THEN Len(fitting) ELSE room
            added == Summaries(fitting, size)
            refusals == Refusals(refused)
<1>6. /\ size \in Nat /\ size <= room /\ size <= Len(fitting) /\ Len(fitting) \in Nat
      /\ size = room \/ size = Len(fitting)
      /\ DOMAIN fitting = 1 .. Len(fitting)
  BY <1>2, <1>5
<1>. HIDE DEF size
<1>7. \A i \in 1 .. size : fitting[i] \in fits /\ i \in DOMAIN fitting
  <2>1. \A i \in 1 .. size : i \in DOMAIN fitting
    <3>. HIDE DEF added, refusals, fits, others
    <3>1. size \in Nat /\ size <= Len(fitting) /\ Len(fitting) \in Nat
      BY <1>6
    <3>2. 1 .. size \subseteq 1 .. Len(fitting)
      BY <3>1
    <3>3. DOMAIN fitting = 1 .. Len(fitting)
      BY <1>6
    <3>. QED  BY <3>2, <3>3
  <2>. HIDE DEF fits
  <2>2. \A i \in DOMAIN fitting : fitting[i] \in fits
    BY <1>5
  <2>. QED  BY <2>1, <2>2
<1>8. /\ added \in Seq(Summary) /\ Len(added) = size /\ DOMAIN added = 1 .. size
      /\ \A i \in 1 .. size : added[i].record_id = fitting[i] /\ added[i].row = rows[fitting[i]]
  <2>1. \A i \in 1 .. size : added[i] = [record_id |-> fitting[i], row |-> rows[fitting[i]]]
    OBVIOUS
  <2>2. \A i \in 1 .. size : fitting[i] \in Records /\ rows[fitting[i]] \in Row
    BY <1>3, <1>7
  <2>3. \A i \in 1 .. size : added[i] \in Summary
    BY <2>1, <2>2 DEF Summary
  <2>4. added = [i \in 1 .. size |-> added[i]] /\ DOMAIN added = 1 .. size
    OBVIOUS
  <2>. HIDE DEF added
  <2>. QED  BY <1>6, <2>1, <2>3, <2>4
<1>9. /\ refusals \in Seq(Refused)
      /\ \A i \in DOMAIN refusals :
            \/ refusals[i].reason_code = "record_not_found"
            \/ /\ Recorded(refusals[i].record_id)
               /\ refusals[i].reason_code = Outcome(refusals[i].record_id)
               /\ refusals[i].reason_code \notin {"fits", "collected"}
  <2>1. CASE lookup.by = "record_id" /\ found = {}
    <3>1. lookup.key \in Records
      BY <1>2, <2>1 DEF Lookup
    <3>2. Refusal(lookup.key, "record_not_found") \in Refused
      BY <3>1 DEF Refusal, Refused, ReasonCodes
    <3>3. refusals = <<Refusal(lookup.key, "record_not_found")>>
      BY <2>1
    <3>. HIDE DEF refusals
    <3>. QED  BY <3>2, <3>3 DEF Refusal
  <2>2. CASE ~(lookup.by = "record_id" /\ found = {})
    <3>1. refusals = [i \in DOMAIN refused |-> Refusal(refused[i], Outcome(refused[i]))]
      BY <2>2
    <3>2. DOMAIN refused = 1 .. Len(refused) /\ Len(refused) \in Nat
          /\ \A i \in DOMAIN refused : refused[i] \in others
      BY <1>5
    <3>3. ASSUME NEW r \in others
          PROVE  /\ Refusal(r, Outcome(r)) \in Refused /\ Recorded(r)
                 /\ Refusal(r, Outcome(r)).record_id = r /\ Refusal(r, Outcome(r)).reason_code = Outcome(r)
                 /\ Outcome(r) \notin {"fits", "collected"}
      BY <1>3, OutcomeType DEF Refusal, Refused
    <3>. HIDE DEF refusals, others
    <3>. QED  BY <3>1, <3>2, <3>3
  <2>. QED  BY <2>1, <2>2
<1>10. \A i, j \in DOMAIN added : added[i].record_id = added[j].record_id => i = j
  <2>. HIDE DEF added
  <2>. QED  BY <1>5, <1>7, <1>8
<1>11. \A i \in DOMAIN added : /\ Recorded(added[i].record_id)
                               /\ Outcome(added[i].record_id) = "fits"
                               /\ added[i].row = rows[added[i].record_id]
  <2>. HIDE DEF added
  <2>. QED  BY <1>3, <1>7, <1>8
<1>12. ASSUME NEW r \in found, Outcome(r) = "fits"
       PROVE  Len(added) = room \/ \E i \in DOMAIN added : added[i].record_id = r
  <2>1. PICK i \in DOMAIN fitting : fitting[i] = r
    BY <1>5, <1>12
  <2>. HIDE DEF added
  <2>. QED  BY <1>6, <1>8, <2>1
<1>13. results' = results \o added /\ blocked' = blocked \o refusals
  BY <1>1 DEF size
<1>14. AnswerGrows(added, refusals)
  <2>. HIDE DEF added, refusals
  <2>. QED  BY <1>6, <1>8, <1>9, <1>10, <1>11, <1>12, <1>13 DEF AnswerGrows, room, found, lookup
<1>. QED  BY <1>14

LEMMA LookUpKeepsReader ==
    ASSUME ReaderInv, LookUp, NEW added, NEW refusals, AnswerGrows(added, refusals)
    PROVE  /\ ReaderInv'
           /\ \A e \in Summary : Holds(results', e) <=> Holds(results, e) \/ Holds(added, e)
           /\ \A e \in Refused : Holds(blocked', e) <=> Holds(blocked, e) \/ Holds(refusals, e)
           /\ Len(results') = Len(results) + Len(added)
<1>1. UNCHANGED <<rows, index, log, op, query, steady>>
  BY DEF LookUp, vars
<1>2. query \in Queries /\ query # NoQuery
  BY DEF LookUp, ReaderInv
<1>3. TypeOK' /\ IsFiniteSet({r \in Records : Recorded(r)})'
  BY <1>1 DEF ReaderInv, TypeOK, Recorded
<1>4. lookups' \in Seq(Lookup)
  <2>1. lookups \in Seq(Lookup) /\ lookups # <<>> /\ lookups' = Tail(lookups)
    BY DEF LookUp, ReaderInv
  <2>. QED  BY <2>1, HeadTailProperties
<1>5. /\ results' \in Seq(Summary) /\ Len(results') = Len(results) + Len(added)
      /\ \A i \in DOMAIN results' :
            \/ i \in DOMAIN results /\ results'[i] = results[i]
            \/ i - Len(results) \in DOMAIN added /\ results'[i] = added[i - Len(results)]
  BY InConcatenation DEF AnswerGrows, ReaderInv
<1>6. /\ results' \in Seq(Summary) /\ \A e : Holds(results', e) <=> Holds(results, e) \/ Holds(added, e)
  BY HeldByEither DEF AnswerGrows, ReaderInv
<1>7. /\ blocked' \in Seq(Refused) /\ \A e : Holds(blocked', e) <=> Holds(blocked, e) \/ Holds(refusals, e)
  BY HeldByEither DEF AnswerGrows, ReaderInv
<1>8. Len(results) \in Nat /\ Len(added) \in Nat /\ ResultLimit(query) \in Nat
  BY <1>2, LimitIsPositive DEF AnswerGrows, ReaderInv
<1>9. Len(results') <= ResultLimit(query)
  BY <1>5, <1>8 DEF AnswerGrows
<1>10. ASSUME NEW i \in DOMAIN results', NEW j \in DOMAIN results',
              results'[i].record_id = results'[j].record_id
       PROVE  i = j
  <2>1. ASSUME NEW a \in DOMAIN results, NEW b \in DOMAIN added
        PROVE  results[a].record_id # added[b].record_id
    <3>1. ~Collected(added[b].record_id)
      BY DEF AnswerGrows, Outcome
    <3>. QED  BY <3>1 DEF Collected
  <2>2. \A a, b \in DOMAIN results : results[a].record_id = results[b].record_id => a = b
    BY <1>2 DEF ReaderInv, BoundedAndDistinct
  <2>3. \A a, b \in DOMAIN added : added[a].record_id = added[b].record_id => a = b
    BY DEF AnswerGrows
  <2>4. i \in Int /\ j \in Int
    BY <1>5
  <2>5. CASE i \in DOMAIN results /\ results'[i] = results[i]
    BY <1>5, <1>10, <2>1, <2>2, <2>5
  <2>6. CASE i - Len(results) \in DOMAIN added /\ results'[i] = added[i - Len(results)]
    <3>1. j - Len(results) \in DOMAIN added /\ results'[j] = added[j - Len(results)]
      BY <1>5, <1>10, <2>1, <2>6
    <3>2. i - Len(results) = j - Len(results)
      BY <1>10, <2>3, <2>6, <3>1
    <3>. QED  BY <1>8, <2>4, <3>2
  <2>. QED  BY <1>5, <2>5, <2>6
<1>11. BoundedAndDistinct'
  <2>1. ResultLimit(query)' = ResultLimit(query)
    BY <1>1 DEF ResultLimit
  <2>. QED  BY <1>9, <1>10, <2>1 DEF BoundedAndDistinct
<1>12. ReaderInv'
  BY <1>1, <1>2, <1>3, <1>4, <1>6, <1>7, <1>11 DEF ReaderInv
<1>. QED  BY <1>5, <1>6, <1>7, <1>12

(* A query's lookups, whatever it asks for. *)
LEMMA LookupsOfQuery ==
    ASSUME NEW q \in Queries,
           NEW all, all = By("record_id", q.record_ids) \o By("correlation_id", q.correlation_ids)
                             \o By("tag", q.tags) \o By("source_ref", q.source_refs)
    PROVE  /\ all \in Seq(Lookup)
           /\ \A k \in ToSet(q.record_ids) : Holds(all, [by |-> "record_id", key |-> k])
           /\ \A k \in ToSet(q.correlation_ids) : Holds(all, [by |-> "correlation_id", key |-> k])
           /\ \A k \in ToSet(q.tags) : Holds(all, [by |-> "tag", key |-> k])
           /\ \A k \in ToSet(q.source_refs) : Holds(all, [by |-> "source_ref", key |-> k])
<1>1. /\ q.record_ids \in Seq(Records) /\ q.correlation_ids \in Seq(CorrelationIds)
      /\ q.tags \in Seq(Tags) /\ q.source_refs \in Seq(SourceRefs)
  BY QueriesAssumption DEF Query
<1>2. ASSUME NEW kind, NEW K, NEW keys \in Seq(K), \A k \in K : [by |-> kind, key |-> k] \in Lookup
      PROVE  /\ By(kind, keys) \in Seq(Lookup)
             /\ \A k \in ToSet(keys) : Holds(By(kind, keys), [by |-> kind, key |-> k])
  <2>1. DOMAIN keys = 1 .. Len(keys) /\ Len(keys) \in Nat /\ \A i \in DOMAIN keys : keys[i] \in K
    OBVIOUS
  <2>. DEFINE made == [i \in DOMAIN keys |-> [by |-> kind, key |-> keys[i]]]
  <2>2. /\ made \in [1 .. Len(keys) -> Lookup] /\ DOMAIN made = DOMAIN keys
        /\ \A i \in DOMAIN keys : made[i] = [by |-> kind, key |-> keys[i]]
    BY <1>2, <2>1
  <2>3. By(kind, keys) = made
    BY DEF By
  <2>. HIDE DEF made
  <2>4. made \in Seq(Lookup)
    BY <2>1, <2>2
  <2>5. ASSUME NEW k \in ToSet(keys) PROVE Holds(made, [by |-> kind, key |-> k])
    <3>1. PICK i \in DOMAIN keys : keys[i] = k
      BY DEF ToSet
    <3>. QED  BY <2>2, <3>1 DEF Holds
  <2>. QED  BY <2>3, <2>4, <2>5
<1>3. /\ \A k \in Records : [by |-> "record_id", key |-> k] \in Lookup
      /\ \A k \in CorrelationIds : [by |-> "correlation_id", key |-> k] \in Lookup
      /\ \A k \in Tags : [by |-> "tag", key |-> k] \in Lookup
      /\ \A k \in SourceRefs : [by |-> "source_ref", key |-> k] \in Lookup
  BY DEF Lookup
<1>. DEFINE a == By("record_id", q.record_ids)
            b == By("correlation_id", q.correlation_ids)
            c == By("tag", q.tags)
            d == By("source_ref", q.source_refs)
<1>4. a \in Seq(Lookup) /\ \A k \in ToSet(q.record_ids) : Holds(a, [by |-> "record_id", key |-> k])
  BY <1>1, <1>2, <1>3
<1>5. b \in Seq(Lookup) /\ \A k \in ToSet(q.correlation_ids) : Holds(b, [by |-> "correlation_id", key |-> k])
  BY <1>1, <1>2, <1>3
<1>6. c \in Seq(Lookup) /\ \A k \in ToSet(q.tags) : Holds(c, [by |-> "tag", key |-> k])
  BY <1>1, <1>2, <1>3
<1>7. d \in Seq(Lookup) /\ \A k \in ToSet(q.source_refs) : Holds(d, [by |-> "source_ref", key |-> k])
  BY <1>1, <1>2, <1>3
<1>. DEFINE abc == a \o b \o c
<1>8. all = abc \o d
  OBVIOUS
<1>. HIDE DEF a, b, c, d
<1>9. a \o b \in Seq(Lookup) /\ \A x : Holds(a \o b, x) <=> Holds(a, x) \/ Holds(b, x)
  BY <1>4, <1>5, HeldByEither
<1>10. abc \in Seq(Lookup) /\ \A x : Holds(abc, x) <=> Holds(a \o b, x) \/ Holds(c, x)
  BY <1>6, <1>9, HeldByEither
<1>. HIDE DEF abc
<1>11. all \in Seq(Lookup) /\ \A x : Holds(all, x) <=> Holds(abc, x) \/ Holds(d, x)
  <2>1. abc \o d \in Seq(Lookup) /\ \A x : Holds(abc \o d, x) <=> Holds(abc, x) \/ Holds(d, x)
    BY <1>7, <1>10, HeldByEither
  <2>. QED  BY <1>8, <2>1
<1>. QED  BY <1>4, <1>5, <1>6, <1>7, <1>9, <1>10, <1>11

(* Recording adds one record at a time; no other operation adds one. *)
LEMMA RecordedStayFew ==
    ASSUME TypeOK, IsFiniteSet({r \in Records : Recorded(r)}), Next
    PROVE  IsFiniteSet({r \in Records : Recorded(r)}')
<1>. DEFINE recorded == {r \in Records : Recorded(r)}
<1>1. PICK client \in Clients : ClientStep(client)
  BY DEF Next
<1>2. PICK r : \A other \in Records \ {r} : rows'[other] = rows[other]
  <2>1. CASE \E q \in Records, c \in Candidates : RecordCandidate(client, q, c)
    BY <2>1 DEF RecordCandidate, TypeOK
  <2>2. CASE UNCHANGED <<rows, index, log>>
    BY <2>2
  <2>3. CASE \/ CommitPromotion(client) \/ CommitReinforcement(client)
             \/ CommitLifecycle(client) \/ CommitTombstone(client)
    BY <2>3, PendingType DEF CommitPromotion, CommitReinforcement, CommitLifecycle, CommitTombstone,
                             Commit, TypeOK
  <2>. QED  BY <1>1, <2>1, <2>2, <2>3, StepKinds
<1>3. recorded' \in SUBSET (recorded \cup {r})
  BY <1>2 DEF Recorded
<1>. HIDE DEF recorded
<1>4. IsFiniteSet(recorded \cup {r})
  <2>1. IsFiniteSet(recorded)
    BY DEF recorded
  <2>. QED  BY <2>1, FS_AddElement
<1>5. IsFiniteSet(recorded')
  BY <1>3, <1>4, FS_Subset
<1>. QED  BY <1>5 DEF recorded

LEMMA StartKeepsReader ==
    ASSUME ReaderInv, NEW q \in Queries, StartQuery(q) PROVE ReaderInv'
<1>1. UNCHANGED <<rows, index, log, op>> /\ query' = q /\ results' = <<>> /\ blocked' = <<>>
  BY DEF StartQuery, vars
<1>2. TypeOK' /\ IsFiniteSet({r \in Records : Recorded(r)})'
  BY <1>1 DEF ReaderInv, TypeOK, Recorded
<1>3. lookups' \in Seq(Lookup)
  BY LookupsOfQuery DEF StartQuery
<1>4. steady' \subseteq Records
  BY DEF StartQuery
<1>5. BoundedAndDistinct'
  <2>1. ResultLimit(query)' \in Nat
    BY <1>1, LimitIsPositive DEF ResultLimit
  <2>2. Len(<<>>) = 0 /\ DOMAIN <<>> = {}
    OBVIOUS
  <2>. QED  BY <1>1, <2>1, <2>2 DEF BoundedAndDistinct
<1>. QED  BY <1>1, <1>2, <1>3, <1>4, <1>5, QueryIsSet DEF ReaderInv

LEMMA ReaderHoldsAtFirst == ASSUME RetrievalInit PROVE ReaderInv
<1>1. TypeOK
  BY DEF RetrievalInit, Init, TypeOK, Operation, NoIndexRows, IndexRows, Idle
<1>2. {r \in Records : Recorded(r)} = {}
  BY DEF RetrievalInit, Init, Recorded
<1>3. IsFiniteSet({r \in Records : Recorded(r)})
  BY <1>2, FS_EmptySet
<1>. QED  BY <1>1, <1>3 DEF RetrievalInit, ReaderInv, BoundedAndDistinct

LEMMA ReaderIsInductive ==
    ASSUME ReaderInv, [RetrievalNext]_retrievalVars PROVE ReaderInv'
<1>1. CASE \E q \in Queries : StartQuery(q)
  BY <1>1, StartKeepsReader
<1>2. CASE LookUp
  <2>1. PICK added, refusals : AnswerGrows(added, refusals)
    BY <1>2, AnswerOfLookUp
  <2>. QED  BY <1>2, <2>1, LookUpKeepsReader
<1>3. CASE ReturnContext
  <2>1. UNCHANGED <<rows, index, log, op>> /\ query' = NoQuery /\ lookups' = <<>>
        /\ results' = <<>> /\ blocked' = <<>> /\ steady' = {}
    BY <1>3 DEF ReturnContext, vars
  <2>. QED  BY <2>1 DEF ReaderInv, TypeOK, Recorded, BoundedAndDistinct
<1>4. CASE WriterStep
  <2>1. TypeOK' /\ IsFiniteSet({r \in Records : Recorded(r)}')
    BY <1>4, TypeStep, RecordedStayFew DEF WriterStep, ReaderInv
  <2>2. UNCHANGED <<query, lookups, results, blocked>> /\ steady' \subseteq steady
    BY <1>4 DEF WriterStep
  <2>. QED  BY <2>1, <2>2 DEF ReaderInv, BoundedAndDistinct, ResultLimit
<1>5. CASE UNCHANGED retrievalVars
  BY <1>5 DEF retrievalVars, ReaderInv, TypeOK, Recorded, BoundedAndDistinct, ResultLimit
<1>. QED  BY <1>1, <1>2, <1>3, <1>4, <1>5 DEF RetrievalNext

LEMMA ReaderIsTyped == ASSUME ReaderInv PROVE RetrievalTypeOK /\ BoundedAndDistinct
<1>1. \A i \in DOMAIN results : results[i] \in Summary
  BY DEF ReaderInv
<1>2. \A i \in DOMAIN blocked : blocked[i] \in Refused
  BY DEF ReaderInv
<1>. QED  BY <1>1, <1>2 DEF ReaderInv, RetrievalTypeOK, Summary, Refused

(* Whatever any number of clients write while retrieve_context (store.py) reads, the context *)
(* holds rows that were there, each record once and no more than the limit of its depth.     *)
THEOREM ContextIsBounded == RetrievalSpec => [](RetrievalTypeOK /\ BoundedAndDistinct)
<1>1. ReaderInv => RetrievalTypeOK /\ BoundedAndDistinct
  BY ReaderIsTyped
<1>2. RetrievalInit => ReaderInv
  BY ReaderHoldsAtFirst
<1>3. ReaderInv /\ [RetrievalNext]_retrievalVars => ReaderInv'
  BY ReaderIsInductive
<1>. QED  BY <1>1, <1>2, <1>3, PTL DEF RetrievalSpec

-----------------------------------------------------------------------------
(* Retrieval: the reader beside one client that gives every candidate an id of its own *)

IsLive(row) ==
    /\ ~row.unsafe_quarantine /\ ~row.deletion_requested
    /\ row.lifecycle_action = "none" /\ ~row.content.redacted

(* A refused record would be refused again, unless it was not there. *)
RefusalStands(refusal) ==
    refusal.reason_code # "record_not_found" =>
        /\ Recorded(refusal.record_id)
        /\ rows[refusal.record_id].normal_retrieval_allowed =>
              LowPriority(query, rows[refusal.record_id].content.tags)

(* A record open to retrieval since the call began still is, and if it was asked for it is *)
(* in the context, or a lookup still to come finds it, or the context is full.             *)
WillBeFound(r) ==
    /\ Recorded(r) /\ rows[r].normal_retrieval_allowed
    /\ Asked(query, r) /\ ~LowPriority(query, rows[r].content.tags)
          => \/ Collected(r)
             \/ Len(results) = ResultLimit(query)
             \/ \E i \in DOMAIN lookups : r \in Found(lookups[i])

RetrievalInv ==
    /\ SingleInv /\ ReaderInv
    /\ \A i \in DOMAIN results : IsLive(results[i].row) /\ Recorded(results[i].record_id)
    /\ \A j \in DOMAIN blocked : RefusalStands(blocked[j])
    /\ NoContradiction
    /\ \A r \in steady : WillBeFound(r)

(* What a step of the client leaves of a row: what was closed stays closed, and what stays  *)
(* open keeps its tags, correlation ids and index rows.                                   *)
LEMMA WriterKeepsRow ==
    ASSUME OneClient, FreshIds = TRUE, SingleInv, Next, NEW r \in Records, Recorded(r)
    PROVE  /\ Recorded(r)'
           /\ rows'[r].normal_retrieval_allowed =>
                 /\ rows[r].normal_retrieval_allowed
                 /\ rows'[r].correlation_ids = rows[r].correlation_ids
                 /\ rows'[r].content.tags = rows[r].content.tags
                 /\ index'[r] = index[r]
<1>1. TypeOK /\ RowInLog /\ rows[r] \in Row
  BY DEF SingleInv, TypeOK, Recorded
<1>2. PICK client \in Clients : ClientStep(client)
  BY DEF Next
<1>3. CASE \E q \in Records, c \in Candidates : RecordCandidate(client, q, c)
  <2>1. PICK q \in Records, c \in Candidates : RecordCandidate(client, q, c)
    BY <1>3
  <2>2. q # r
    BY <2>1 DEF RecordCandidate, Recorded
  <2>. QED  BY <1>1, <2>1, <2>2 DEF RecordCandidate, TypeOK, Recorded
<1>4. CASE UNCHANGED <<rows, index, log>>
  BY <1>4 DEF Recorded
<1>5. CASE /\ op[client].record \in Records
           /\ \/ CommitPromotion(client) \/ CommitReinforcement(client)
              \/ CommitLifecycle(client) \/ CommitTombstone(client)
  <2>1. CASE op[client].record # r
    BY <1>1, <1>5, <2>1 DEF CommitPromotion, CommitReinforcement, CommitLifecycle, CommitTombstone,
                             Commit, TypeOK, Recorded
  <2>2. CASE op[client].record = r
    <3>1. PICK newRow :
             /\ CommitOn(client, newRow)
             /\ \/ /\ CommitPromotion(client)
                   /\ newRow = PromotedRow(rows[r], op[client].row, op[client].arg)
                \/ /\ CommitReinforcement(client)
                   /\ newRow = ReinforcedRow(rows[r], op[client].row, op[client].arg)
                \/ CommitLifecycle(client) /\ newRow = RetiredRow(rows[r], op[client].arg)
                \/ CommitTombstone(client) /\ newRow = TombstonedRow(rows[r])
      BY <1>1, <1>5, <2>2, CommitForms
    <3>2. op[client].row = rows[r] /\ rows'[r] = newRow /\ newRow \in Row /\ Recorded(r)'
      BY <1>1, <2>2, <3>1, NoRowAssumption
         DEF CommitOn, Commit, SingleInv, SnapshotCurrent, TypeOK, Recorded
    <3>3. CASE CommitPromotion(client) /\ newRow = PromotedRow(rows[r], rows[r], op[client].arg)
      <4>1. /\ newRow.normal_retrieval_allowed => rows[r].normal_retrieval_allowed
            /\ newRow.correlation_ids = rows[r].correlation_ids /\ newRow.content = rows[r].content
        BY <1>1, <3>3 DEF PromotedRow, Row
      <4>. QED  BY <3>2, <3>3, <4>1 DEF CommitPromotion
    <3>4. CASE CommitReinforcement(client) /\ newRow = ReinforcedRow(rows[r], rows[r], op[client].arg)
      <4>1. [rows[r].content EXCEPT !.counters[op[client].arg] = Incremented(@)].tags
               = rows[r].content.tags
        BY <1>1 DEF Row, Content
      <4>2. /\ newRow.normal_retrieval_allowed = rows[r].normal_retrieval_allowed
            /\ newRow.correlation_ids = rows[r].correlation_ids
            /\ newRow.content.tags = rows[r].content.tags
        BY <1>1, <3>4, <4>1 DEF ReinforcedRow, Row
      <4>. QED  BY <3>2, <3>4, <4>2 DEF CommitReinforcement
    <3>5. CASE newRow = RetiredRow(rows[r], op[client].arg) \/ newRow = TombstonedRow(rows[r])
      <4>1. ~newRow.normal_retrieval_allowed
        BY <1>1, <3>5 DEF RetiredRow, TombstonedRow, Row
      <4>. QED  BY <3>2, <4>1
    <3>. QED  BY <3>1, <3>2, <3>3, <3>4, <3>5
  <2>. QED  BY <2>1, <2>2
<1>. QED  BY <1>1, <1>2, <1>3, <1>4, <1>5, StepKinds

(* A lookup finds a record by what was written of it. *)
LEMMA FoundByKey ==
    ASSUME NEW r \in Records, Retrievable(r)
    PROVE  /\ r \in Found([by |-> "record_id", key |-> r])
           /\ \A k \in rows[r].correlation_ids : r \in Found([by |-> "correlation_id", key |-> k])
           /\ \A k \in index[r].tags : r \in Found([by |-> "tag", key |-> k])
           /\ \A k \in index[r].source_refs : r \in Found([by |-> "source_ref", key |-> k])
  BY DEF Found, Retrievable

(* What is found stays so while the row's columns and its index rows stay. *)
LEMMA FoundAgain ==
    ASSUME NEW r \in Records, Recorded(r)', UNCHANGED lookups,
           rows'[r].normal_retrieval_allowed = rows[r].normal_retrieval_allowed,
           rows'[r].correlation_ids = rows[r].correlation_ids, index'[r] = index[r],
           \E i \in DOMAIN lookups : r \in Found(lookups[i])
    PROVE  (\E i \in DOMAIN lookups : r \in Found(lookups[i]))'
<1>1. PICK i \in DOMAIN lookups : r \in Found(lookups[i])
  OBVIOUS
<1>2. r \in Found(lookups[i])'
  BY <1>1 DEF Found, Recorded
<1>. QED  BY <1>1, <1>2

LEMMA WriterKeepsRetrieval ==
    ASSUME OneClient, FreshIds = TRUE, RetrievalInv, WriterStep PROVE RetrievalInv'
<1>1. SingleInv /\ ReaderInv /\ Next /\ UNCHANGED <<query, lookups, results, blocked>>
  BY DEF RetrievalInv, WriterStep
<1>2. SingleInv' /\ ReaderInv'
  BY <1>1, SingleStep, ReaderIsInductive DEF RetrievalNext
<1>3. \A i \in DOMAIN results : results[i].record_id \in Records
  <2>1. \A i \in DOMAIN results : results[i] \in Summary
    BY <1>1 DEF ReaderInv
  <2>. QED  BY <2>1 DEF Summary
<1>4. \A j \in DOMAIN blocked : blocked[j].record_id \in Records
  <2>1. \A j \in DOMAIN blocked : blocked[j] \in Refused
    BY <1>1 DEF ReaderInv
  <2>. QED  BY <2>1 DEF Refused
<1>5. (\A i \in DOMAIN results : IsLive(results[i].row) /\ Recorded(results[i].record_id))'
  <2>1. \A i \in DOMAIN results : IsLive(results[i].row) /\ Recorded(results[i].record_id)'
    BY <1>1, <1>3, WriterKeepsRow DEF RetrievalInv
  <2>. QED  BY <1>1, <2>1 DEF IsLive, Recorded
<1>6. ASSUME NEW j \in DOMAIN blocked PROVE RefusalStands(blocked[j])'
  <2>. DEFINE r == blocked[j].record_id
  <2>1. RefusalStands(blocked[j]) /\ r \in Records
    BY <1>4 DEF RetrievalInv
  <2>2. CASE blocked[j].reason_code = "record_not_found"
    BY <1>1, <2>2 DEF RefusalStands
  <2>3. CASE blocked[j].reason_code # "record_not_found"
    <3>1. /\ Recorded(r)
          /\ rows[r].normal_retrieval_allowed => LowPriority(query, rows[r].content.tags)
      BY <2>1, <2>3 DEF RefusalStands
    <3>2. /\ Recorded(r)'
          /\ rows'[r].normal_retrieval_allowed => /\ rows[r].normal_retrieval_allowed
                                                  /\ rows'[r].content.tags = rows[r].content.tags
      BY <1>1, <2>1, <3>1, WriterKeepsRow
    <3>. QED  BY <1>1, <3>1, <3>2 DEF RefusalStands, Recorded, LowPriority
  <2>. QED  BY <2>2, <2>3
<1>7. NoContradiction'
  BY <1>1 DEF RetrievalInv, NoContradiction
<1>8. ASSUME NEW r \in steady' PROVE WillBeFound(r)'
  <2>1. r \in steady /\ rows'[r].normal_retrieval_allowed /\ r \in Records
    BY <1>1 DEF WriterStep, ReaderInv
  <2>2. WillBeFound(r)
    BY <2>1 DEF RetrievalInv
  <2>3. /\ Recorded(r)' /\ rows[r].normal_retrieval_allowed
        /\ rows'[r].correlation_ids = rows[r].correlation_ids
        /\ rows'[r].content.tags = rows[r].content.tags /\ index'[r] = index[r]
    BY <1>1, <2>1, <2>2, WriterKeepsRow DEF WillBeFound
  <2>4. CASE ~(Asked(query, r) /\ ~LowPriority(query, rows[r].content.tags))
    BY <1>1, <2>1, <2>3, <2>4 DEF WillBeFound, Asked, LowPriority
  <2>5. CASE Collected(r) \/ Len(results) = ResultLimit(query)
    BY <1>1, <2>1, <2>3, <2>5 DEF WillBeFound, Collected, ResultLimit
  <2>6. CASE \E i \in DOMAIN lookups : r \in Found(lookups[i])
    <3>1. (\E i \in DOMAIN lookups : r \in Found(lookups[i]))'
      BY <1>1, <2>1, <2>2, <2>3, <2>6, FoundAgain DEF WillBeFound
    <3>. QED  BY <2>1, <2>3, <3>1 DEF WillBeFound
  <2>. QED  BY <2>2, <2>4, <2>5, <2>6 DEF WillBeFound
<1>. QED  BY <1>1, <1>2, <1>5, <1>6, <1>7, <1>8 DEF RetrievalInv

(* What a row that fits says of the record, and what a refused one says. *)
LEMMA OutcomeMeans ==
    ASSUME NEW r
    PROVE  /\ (Outcome(r) = "collected") <=> Collected(r)
           /\ (Outcome(r) = "fits") => /\ rows[r].normal_retrieval_allowed
                                       /\ ~LowPriority(query, rows[r].content.tags)
           /\ Outcome(r) \notin {"fits", "collected"} =>
                 (rows[r].normal_retrieval_allowed => LowPriority(query, rows[r].content.tags))
           /\ rows[r].normal_retrieval_allowed /\ ~LowPriority(query, rows[r].content.tags) =>
                 Outcome(r) \in {"fits", "collected"}
  BY Zenon DEF Outcome

LEMMA LookUpKeepsRetrieval ==
    ASSUME OneClient, RetrievalInv, LookUp PROVE RetrievalInv'
<1>1. SingleInv /\ ReaderInv /\ query \in Queries /\ UNCHANGED <<rows, index, log, op, query, steady>>
  BY DEF RetrievalInv, LookUp, ReaderInv, vars
<1>2. PICK added, refusals : AnswerGrows(added, refusals)
  BY <1>1, AnswerOfLookUp
<1>3. /\ ReaderInv'
      /\ \A e \in Summary : Holds(results', e) <=> Holds(results, e) \/ Holds(added, e)
      /\ \A e \in Refused : Holds(blocked', e) <=> Holds(blocked, e) \/ Holds(refusals, e)
      /\ Len(results') = Len(results) + Len(added)
  BY <1>1, <1>2, LookUpKeepsReader
<1>4. SingleInv'
  BY <1>1, SingleStep DEF vars
<1>5. ASSUME NEW i \in DOMAIN results' PROVE Holds(results, results'[i]) \/ Holds(added, results'[i])
  <2>1. results'[i] \in Summary
    BY <1>3 DEF ReaderInv
  <2>2. Holds(results', results'[i])
    BY DEF Holds
  <2>. QED  BY <1>3, <2>1, <2>2
<1>6. ASSUME NEW j \in DOMAIN blocked' PROVE Holds(blocked, blocked'[j]) \/ Holds(refusals, blocked'[j])
  <2>1. blocked'[j] \in Refused
    BY <1>3 DEF ReaderInv
  <2>2. Holds(blocked', blocked'[j])
    BY DEF Holds
  <2>. QED  BY <1>3, <2>1, <2>2
<1>7. ASSUME NEW r, Collected(r) PROVE Collected(r)'
  <2>1. PICK i \in DOMAIN results : results[i].record_id = r
    BY <1>7 DEF Collected
  <2>2. Holds(results', results[i])
    <3>1. results[i] \in Summary /\ Holds(results, results[i])
      BY <1>1 DEF ReaderInv, Holds
    <3>. QED  BY <1>3, <3>1
  <2>. QED  BY <2>1, <2>2 DEF Holds, Collected
<1>8. ASSUME NEW a \in DOMAIN added
      PROVE  LET r == added[a].record_id IN
             /\ Recorded(r) /\ ~Collected(r) /\ rows[r].normal_retrieval_allowed
             /\ ~LowPriority(query, rows[r].content.tags) /\ IsLive(added[a].row)
  <2>. DEFINE r == added[a].record_id
  <2>1. added[a] \in Summary /\ Recorded(r) /\ Outcome(r) = "fits" /\ added[a].row = rows[r]
    BY <1>2 DEF AnswerGrows
  <2>2. rows[r].normal_retrieval_allowed /\ ~LowPriority(query, rows[r].content.tags) /\ ~Collected(r)
    BY <2>1, OutcomeMeans
  <2>3. RowSound(r)
    BY <1>1, <2>1 DEF SingleInv, Summary
  <2>. QED  BY <2>1, <2>2, <2>3 DEF RowSound, IsLive
<1>9. ASSUME NEW b \in DOMAIN refusals
      PROVE  /\ RefusalStands(refusals[b])
             /\ refusals[b].reason_code # "record_not_found" => ~Collected(refusals[b].record_id)
  <2>. DEFINE r == refusals[b].record_id
  <2>1. CASE refusals[b].reason_code = "record_not_found"
    BY <2>1 DEF RefusalStands
  <2>2. CASE refusals[b].reason_code # "record_not_found"
    <3>1. Recorded(r) /\ Outcome(r) \notin {"fits", "collected"}
      BY <1>2, <2>2 DEF AnswerGrows
    <3>. QED  BY <3>1, OutcomeMeans DEF RefusalStands
  <2>. QED  BY <2>1, <2>2
<1>10. (\A i \in DOMAIN results : IsLive(results[i].row) /\ Recorded(results[i].record_id))'
  <2>1. \A i \in DOMAIN results : IsLive(results[i].row) /\ Recorded(results[i].record_id)
    BY DEF RetrievalInv
  <2>2. ASSUME NEW i \in DOMAIN results' PROVE IsLive(results'[i].row) /\ Recorded(results'[i].record_id)
    BY <1>5, <1>8, <2>1 DEF Holds
  <2>. QED  BY <1>1, <2>2 DEF IsLive, Recorded
<1>11. (\A j \in DOMAIN blocked : RefusalStands(blocked[j]))'
  <2>1. \A j \in DOMAIN blocked : RefusalStands(blocked[j])
    BY DEF RetrievalInv
  <2>2. ASSUME NEW j \in DOMAIN blocked' PROVE RefusalStands(blocked'[j])
    BY <1>6, <1>9, <2>1 DEF Holds
  <2>. QED  BY <1>1, <2>2 DEF RefusalStands, Recorded, LowPriority
<1>12. NoContradiction'
  <2>1. SUFFICES ASSUME NEW i \in DOMAIN results', NEW j \in DOMAIN blocked',
                        results'[i].record_id = blocked'[j].record_id,
                        blocked'[j].reason_code # "record_not_found"
                 PROVE  FALSE
    BY DEF NoContradiction
  <2>2. RefusalStands(blocked'[j])
    <3>1. (\A k \in DOMAIN blocked : RefusalStands(blocked[k]))
      BY DEF RetrievalInv
    <3>. QED  BY <1>6, <1>9, <3>1 DEF Holds
  <2>3. CASE Holds(added, results'[i])
    BY <1>8, <2>1, <2>2, <2>3 DEF Holds, RefusalStands
  <2>4. CASE Holds(results, results'[i]) /\ Holds(refusals, blocked'[j])
    BY <1>9, <2>1, <2>4 DEF Holds, Collected
  <2>5. CASE Holds(results, results'[i]) /\ Holds(blocked, blocked'[j])
    BY <2>1, <2>5 DEF Holds, RetrievalInv, NoContradiction
  <2>. QED  BY <1>5, <1>6, <2>3, <2>4, <2>5
<1>13. ASSUME NEW r \in steady' PROVE WillBeFound(r)'
  <2>1. r \in steady /\ WillBeFound(r)
    BY <1>1 DEF RetrievalInv
  <2>2. /\ Recorded(r)' <=> Recorded(r)
        /\ rows'[r].normal_retrieval_allowed <=> rows[r].normal_retrieval_allowed
        /\ Asked(query, r)' <=> Asked(query, r)
        /\ ResultLimit(query)' = ResultLimit(query)
        /\ LowPriority(query, rows[r].content.tags)' <=> LowPriority(query, rows[r].content.tags)
    BY <1>1 DEF Asked, LowPriority, Recorded, ResultLimit
  <2>3. ASSUME Recorded(r), rows[r].normal_retrieval_allowed, Asked(query, r),
               ~LowPriority(query, rows[r].content.tags)
        PROVE  \/ Collected(r)' \/ Len(results') = ResultLimit(query)
               \/ (\E i \in DOMAIN lookups : r \in Found(lookups[i]))'
    <3>1. CASE Collected(r)
      BY <1>7, <3>1
    <3>2. CASE Len(results) = ResultLimit(query)
      <4>1. Len(results) \in Nat /\ Len(added) \in Nat /\ ResultLimit(query) \in Nat
        BY <1>1, <1>2, LimitIsPositive DEF AnswerGrows, ReaderInv
      <4>. QED  BY <1>2, <1>3, <3>2, <4>1 DEF AnswerGrows
    <3>3. CASE r \in Found(Head(lookups)) /\ ~Collected(r)
      <4>1. Outcome(r) = "fits"
        BY <2>3, <3>3, OutcomeMeans
      <4>2. \/ Len(added) = ResultLimit(query) - Len(results)
            \/ \E i \in DOMAIN added : added[i].record_id = r
        BY <1>2, <3>3, <4>1 DEF AnswerGrows
      <4>3. CASE Len(added) = ResultLimit(query) - Len(results)
        <5>1. Len(results) \in Nat /\ ResultLimit(query) \in Nat
          BY <1>1, LimitIsPositive DEF ReaderInv
        <5>. QED  BY <1>3, <4>3, <5>1
      <4>4. CASE \E i \in DOMAIN added : added[i].record_id = r
        <5>1. PICK i \in DOMAIN added : added[i].record_id = r
          BY <4>4
        <5>2. Holds(results', added[i])
          <6>1. added[i] \in Summary /\ Holds(added, added[i])
            BY <1>2 DEF AnswerGrows, Holds
          <6>. QED  BY <1>3, <6>1
        <5>. QED  BY <5>1, <5>2 DEF Holds, Collected
      <4>. QED  BY <4>2, <4>3, <4>4
    <3>4. CASE \E i \in DOMAIN lookups : r \in Found(lookups[i])
      <4>1. PICK i \in DOMAIN lookups : r \in Found(lookups[i])
        BY <3>4
      <4>2. lookups \in Seq(Lookup) /\ lookups # <<>> /\ lookups' = Tail(lookups)
        BY <1>1 DEF ReaderInv, LookUp
      <4>3. CASE i = 1
        <5>1. r \in Found(Head(lookups))
          BY <4>1, <4>2, <4>3
        <5>. QED  BY <3>1, <3>3, <5>1
      <4>4. CASE i # 1
        <5>1. i - 1 \in DOMAIN lookups' /\ lookups'[i - 1] = lookups[i]
          BY <4>2, <4>4
        <5>2. r \in Found(lookups'[i - 1])
          BY <4>1, <5>1
        <5>. QED  BY <1>1, <5>1, <5>2 DEF Found
      <4>. QED  BY <4>3, <4>4
    <3>. QED  BY <2>1, <2>3, <3>1, <3>2, <3>4 DEF WillBeFound
  <2>4. Recorded(r) /\ rows[r].normal_retrieval_allowed
    BY <2>1 DEF WillBeFound
  <2>. QED  BY <2>2, <2>3, <2>4 DEF WillBeFound
<1>. QED  BY <1>3, <1>4, <1>10, <1>11, <1>12, <1>13 DEF RetrievalInv

LEMMA StartKeepsRetrieval ==
    ASSUME OneClient, RetrievalInv, NEW q \in Queries, StartQuery(q) PROVE RetrievalInv'
<1>1. /\ SingleInv /\ ReaderInv /\ UNCHANGED <<rows, index, log, op>> /\ query' = q
      /\ results' = <<>> /\ blocked' = <<>> /\ steady' = {r \in Records : Retrievable(r)}
  BY DEF RetrievalInv, StartQuery, vars
<1>2. SingleInv' /\ ReaderInv'
  BY <1>1, SingleStep, StartKeepsReader DEF vars
<1>3. /\ \A k \in ToSet(q.record_ids) : Holds(lookups', [by |-> "record_id", key |-> k])
      /\ \A k \in ToSet(q.correlation_ids) : Holds(lookups', [by |-> "correlation_id", key |-> k])
      /\ \A k \in ToSet(q.tags) : Holds(lookups', [by |-> "tag", key |-> k])
      /\ \A k \in ToSet(q.source_refs) : Holds(lookups', [by |-> "source_ref", key |-> k])
  BY LookupsOfQuery DEF StartQuery
<1>4. ASSUME NEW r \in steady' PROVE WillBeFound(r)'
  <2>1. r \in Records /\ Retrievable(r)
    BY <1>1
  <2>2. Recorded(r)' /\ rows'[r].normal_retrieval_allowed
    BY <1>1, <2>1 DEF Retrievable, Recorded
  <2>3. ASSUME Asked(q, r) PROVE \E i \in DOMAIN lookups' : r \in Found(lookups'[i])
    <3>1. ASSUME NEW lookup, Holds(lookups', lookup), r \in Found(lookup)
          PROVE  \E i \in DOMAIN lookups' : r \in Found(lookups'[i])
      BY <3>1 DEF Holds
    <3>2. CASE r \in ToSet(q.record_ids)
      BY <1>3, <2>1, <3>1, <3>2, FoundByKey
    <3>3. CASE ToSet(q.correlation_ids) \cap rows[r].correlation_ids # {}
      BY <1>3, <2>1, <3>1, <3>3, FoundByKey
    <3>4. CASE ToSet(q.tags) \cap index[r].tags # {}
      BY <1>3, <2>1, <3>1, <3>4, FoundByKey
    <3>5. CASE ToSet(q.source_refs) \cap index[r].source_refs # {}
      BY <1>3, <2>1, <3>1, <3>5, FoundByKey
    <3>. QED  BY <2>3, <3>2, <3>3, <3>4, <3>5 DEF Asked
  <2>4. ASSUME Asked(query, r)' PROVE (\E i \in DOMAIN lookups : r \in Found(lookups[i]))'
    <3>1. Asked(q, r)
      BY <1>1, <2>4 DEF Asked
    <3>2. PICK i \in DOMAIN lookups' : r \in Found(lookups'[i])
      BY <2>3, <3>1
    <3>. QED  BY <1>1, <3>2 DEF Found
  <2>. QED  BY <2>2, <2>4 DEF WillBeFound
<1>5. DOMAIN results' = {} /\ DOMAIN blocked' = {}
  BY <1>1
<1>. QED  BY <1>2, <1>4, <1>5 DEF RetrievalInv, NoContradiction

LEMMA RetrievalIsInductive ==
    ASSUME OneClient, FreshIds = TRUE, RetrievalInv, [RetrievalNext]_retrievalVars
    PROVE  RetrievalInv'
<1>1. CASE \E q \in Queries : StartQuery(q)
  BY <1>1, StartKeepsRetrieval
<1>2. CASE LookUp
  BY <1>2, LookUpKeepsRetrieval
<1>3. CASE ReturnContext
  <2>1. /\ UNCHANGED <<rows, index, log, op>> /\ results' = <<>> /\ blocked' = <<>> /\ steady' = {}
        /\ SingleInv /\ ReaderInv
    BY <1>3 DEF ReturnContext, RetrievalInv, vars
  <2>2. SingleInv' /\ ReaderInv'
    BY <1>3, <2>1, SingleStep, ReaderIsInductive DEF vars, RetrievalNext
  <2>3. DOMAIN results' = {} /\ DOMAIN blocked' = {}
    BY <2>1
  <2>. QED  BY <2>1, <2>2, <2>3 DEF RetrievalInv, NoContradiction
<1>4. CASE WriterStep
  BY <1>4, WriterKeepsRetrieval
<1>5. CASE UNCHANGED retrievalVars
  <2>1. UNCHANGED <<rows, index, log, op, query, lookups, results, blocked, steady>>
    BY <1>5 DEF retrievalVars
  <2>2. SingleInv' /\ ReaderInv'
    BY <1>5, <2>1, SingleStep, ReaderIsInductive DEF vars, RetrievalInv
  <2>3. (\A r \in steady : WillBeFound(r))'
    BY <2>1 DEF RetrievalInv, WillBeFound, Recorded, Collected, Asked, LowPriority, ResultLimit, Found
  <2>. QED  BY <2>1, <2>2, <2>3 DEF RetrievalInv, NoContradiction, IsLive, RefusalStands, Recorded,
                                    LowPriority
<1>. QED  BY <1>1, <1>2, <1>3, <1>4, <1>5 DEF RetrievalNext

LEMMA RetrievalHoldsAtFirst == ASSUME RetrievalInit PROVE RetrievalInv
<1>1. SingleInv /\ ReaderInv
  BY SingleInit, ReaderHoldsAtFirst DEF RetrievalInit
<1>2. DOMAIN results = {} /\ DOMAIN blocked = {} /\ steady = {}
  BY DEF RetrievalInit
<1>. QED  BY <1>1, <1>2 DEF RetrievalInv, NoContradiction

(* With one client beside the reader and an id for every candidate: whatever retrieve_context *)
(* (store.py) is asked and whatever the client commits between its SELECTs, no summary of the *)
(* context is of a quarantined, deleted, retired or redacted version of a record, none is     *)
(* also refused, and the context is bounded.                                                 *)
THEOREM ContextsAreSound ==
    ASSUME OneClient, FreshIds = TRUE
    PROVE  RetrievalSpec => []ContextIsSound
<1>1. RetrievalInv => ContextIsSound
  <2>. SUFFICES ASSUME RetrievalInv PROVE ContextIsSound
    OBVIOUS
  <2>1. RetrievalTypeOK /\ BoundedAndDistinct
    BY ReaderIsTyped DEF RetrievalInv
  <2>2. ContextIsLive
    BY DEF RetrievalInv, ContextIsLive, IsLive
  <2>. QED  BY <2>1, <2>2 DEF RetrievalInv, ContextIsSound
<1>2. RetrievalInit => RetrievalInv
  BY RetrievalHoldsAtFirst
<1>3. RetrievalInv /\ [RetrievalNext]_retrievalVars => RetrievalInv'
  BY RetrievalIsInductive
<1>. QED  BY <1>1, <1>2, <1>3, PTL DEF RetrievalSpec

(* Under the same conditions a record that is open to retrieval during the whole call, is     *)
(* matched by one of its SELECTs and is not low-priority history is missing from the context  *)
(* of retrieve_context (store.py) only when the context is full.                              *)
THEOREM NothingIsMissed ==
    ASSUME OneClient, FreshIds = TRUE
    PROVE  RetrievalSpec => []NothingMissed
<1>1. RetrievalInv => NothingMissed
  <2>. SUFFICES ASSUME RetrievalInv, Answered, NEW r \in steady, Asked(query, r),
                       ~LowPriority(query, rows[r].content.tags)
                PROVE  Collected(r) \/ Len(results) = ResultLimit(query)
    BY DEF NothingMissed, Collected
  <2>1. WillBeFound(r) /\ DOMAIN lookups = {}
    BY DEF RetrievalInv, Answered
  <2>. QED  BY <2>1 DEF WillBeFound
<1>2. RetrievalInit => RetrievalInv
  BY RetrievalHoldsAtFirst
<1>3. RetrievalInv /\ [RetrievalNext]_retrievalVars => RetrievalInv'
  BY RetrievalIsInductive
<1>. QED  BY <1>1, <1>2, <1>3, PTL DEF RetrievalSpec
=============================================================================
