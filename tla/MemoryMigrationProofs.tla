----------------------- MODULE MemoryMigrationProofs -----------------------
(***************************************************************************)
(* The safety of apply_migrations for any number of processes, scripts of  *)
(* any length, any number of ADD COLUMN statements and any number of       *)
(* crashes and lock timeouts.                                              *)
(***************************************************************************)
EXTENDS MemoryMigration, TLAPS

(* A pair is a statement when its number is within its script. *)
LEMMA StatementPairs ==
    /\ \A v \in Versions : \A k \in 1..ScriptLength[v] : <<v, k>> \in Statements
    /\ \A v, k : <<v, k>> \in Statements => v \in Versions /\ k \in 1..ScriptLength[v]
    /\ \A s \in Statements : s = <<s[1], s[2]>> /\ s[1] \in Versions
                                /\ s[2] \in 1..ScriptLength[s[1]]
<1> USE DEF Statements
<1>1. ASSUME NEW s \in Statements
      PROVE  \E v \in Versions : \E k \in 1..ScriptLength[v] : s = <<v, k>>
  OBVIOUS
<1>2. ASSUME NEW v \in Versions, NEW k \in 1..ScriptLength[v] PROVE <<v, k>> \in Statements
  OBVIOUS
<1>3. ASSUME NEW v, NEW k, <<v, k>> \in Statements
      PROVE  v \in Versions /\ k \in 1..ScriptLength[v]
  <2>1. PICK w \in Versions : \E j \in 1..ScriptLength[w] : <<v, k>> = <<w, j>>
    BY <1>1, <1>3
  <2>2. PICK j \in 1..ScriptLength[w] : <<v, k>> = <<w, j>>
    BY <2>1
  <2>3. v = w /\ k = j
    BY <2>2
  <2> QED BY <2>3
<1>4. ASSUME NEW s \in Statements
      PROVE  s = <<s[1], s[2]>> /\ s[1] \in Versions /\ s[2] \in 1..ScriptLength[s[1]]
  <2>1. PICK v \in Versions : \E k \in 1..ScriptLength[v] : s = <<v, k>>
    BY <1>1
  <2>2. PICK k \in 1..ScriptLength[v] : s = <<v, k>>
    BY <2>1
  <2>3. s[1] = v /\ s[2] = k
    BY <2>2
  <2> QED BY <2>2, <2>3
<1> QED BY <1>2, <1>3, <1>4

-----------------------------------------------------------------------------
(* Types *)

LEMMA TypeInit == Init => MigrationTypeOK
BY InterruptionsAssumption DEF Init, MigrationTypeOK, Versions, Running

LEMMA TypeStep == MigrationTypeOK /\ [Next]_vars => MigrationTypeOK'
<1> SUFFICES ASSUME MigrationTypeOK, [Next]_vars PROVE MigrationTypeOK'
  OBVIOUS
<1> USE ScriptAssumption DEF MigrationTypeOK, Versions, Running
<1>1. CASE UNCHANGED vars
  BY <1>1 DEF vars
<1>2. ASSUME NEW p \in Processes, ProcessNext(p) PROVE MigrationTypeOK'
  <2>1. CASE Initialize(p)
    BY <2>1 DEF Initialize
  <2>2. CASE ReadVersion(p)
    <3>1. CASE NextMigration(p) /\ UNCHANGED statement
      BY <2>2, <3>1 DEF ReadVersion, NextMigration
    <3>2. CASE RunScript(p)
      BY <2>2, <3>2, StatementPairs DEF ReadVersion, RunScript
    <3> QED BY <2>2, <3>1, <3>2 DEF ReadVersion
  <2>3. CASE ReadVersionLocked(p)
    BY <2>3, StatementPairs DEF ReadVersionLocked, RunScript
  <2>4. CASE ExecuteStatement(p)
    <3>1. <<version[p], statement[p]>> \in Statements
      BY <2>4 DEF ExecuteStatement
    <3>2. statement[p] \in 1..ScriptLength[version[p]] /\ version[p] \in Versions
      BY <3>1, StatementPairs
    <3>3. CASE DuplicateColumn(version[p], statement[p])
      BY <2>4, <3>3 DEF ExecuteStatement
    <3>4. CASE ~DuplicateColumn(version[p], statement[p]) /\ statement[p] = ScriptLength[version[p]]
      BY <2>4, <3>1, <3>4 DEF ExecuteStatement
    <3>5. CASE ~DuplicateColumn(version[p], statement[p]) /\ statement[p] # ScriptLength[version[p]]
      <4>1. statement[p] + 1 \in 1..ScriptLength[version[p]]
        BY <3>2, <3>5
      <4>2. <<version[p], statement[p] + 1>> \in Statements
        BY <3>2, <4>1, StatementPairs
      <4> QED BY <2>4, <3>1, <3>5, <4>1, <4>2 DEF ExecuteStatement
    <3> QED BY <3>3, <3>4, <3>5
  <2>5. CASE RecordVersion(p)
    <3>1. recorded' \subseteq Versions /\ schema' = schema /\ statement' = statement
      BY <2>5 DEF RecordVersion
    <3>2. version' \in [Processes -> Versions]
      BY <2>5 DEF RecordVersion, NextMigration
    <3>3. /\ at' \in [Processes -> Running \cup {"idle", "done", "failed"}]
          /\ \A q \in Processes : at'[q] = "script" => q # p /\ at[q] = "script"
      BY <2>5 DEF RecordVersion, NextMigration
    <3>4. \A q \in Processes : q # p => version'[q] = version[q]
      BY <2>5 DEF RecordVersion, NextMigration
    <3> QED BY <2>5, <3>1, <3>2, <3>3, <3>4 DEF RecordVersion
  <2>6. CASE Crash(p)
    BY <2>6, InterruptionsAssumption DEF Crash
  <2>7. CASE LockTimeout(p)
    BY <2>7, InterruptionsAssumption DEF LockTimeout
  <2> QED BY <1>2, <2>1, <2>2, <2>3, <2>4, <2>5, <2>6, <2>7 DEF ProcessNext, Step
<1> QED BY <1>1, <1>2 DEF Next

(* Every variable of apply_migrations keeps its type, and a process in a
   script is at one of its statements. *)
THEOREM MigrationTypeCorrect == Spec => []MigrationTypeOK
BY TypeInit, TypeStep, PTL DEF Spec

-----------------------------------------------------------------------------
(* The version table and the schema *)

Applied(v) == \A k \in 1..ScriptLength[v] : <<v, k>> \in schema

(* What apply_migrations relies on: versions are recorded in order, each after
   its script, and a process has reached a migration only through the earlier
   ones. *)
OrderInv ==
    /\ MigrationTypeOK
    /\ \A v \in recorded : Applied(v)
    /\ \A v \in recorded : \A w \in Versions : w <= v => w \in recorded
    /\ \A p \in Processes : at[p] \in Running =>
          \A w \in Versions : w < version[p] => w \in recorded
    /\ \A p \in Processes : at[p] = "script" =>
          \A k \in Nat \ {0} : k < statement[p] => <<version[p], k>> \in schema
    /\ \A p \in Processes : at[p] = "record" => Applied(version[p])
    /\ \A p \in Processes : at[p] = "done" => \A w \in Versions : w \in recorded

LEMMA OrderInit == Init => OrderInv
BY TypeInit DEF Init, OrderInv, Running

LEMMA OrderStep == OrderInv /\ [Next]_vars => OrderInv'
<1> SUFFICES ASSUME OrderInv, [Next]_vars PROVE OrderInv'
  OBVIOUS
<1>t. MigrationTypeOK /\ MigrationTypeOK'
  BY TypeStep DEF OrderInv
<1>v. \A v \in Versions : v = 1 \/ v = 2 \/ v = 3
  BY DEF Versions
<1> USE DEF OrderInv, Running, Applied
<1>1. CASE UNCHANGED vars
  BY <1>1, <1>t DEF vars
<1>2. ASSUME NEW p \in Processes, ProcessNext(p) PROVE OrderInv'
  <2>t. /\ at \in [Processes -> Running \cup {"idle", "done", "failed"}]
        /\ version \in [Processes -> Versions] /\ statement \in [Processes -> Nat \ {0}]
        /\ recorded \subseteq Versions
    BY <1>t DEF MigrationTypeOK
  (* Leaving migration version[p] when its version is recorded. *)
  <2>n. ASSUME NextMigration(p), at[p] \in {"read", "record"}, version[p] \in recorded',
               \A w \in Versions : w < version[p] => w \in recorded',
               schema' = schema, statement' = statement, recorded \subseteq recorded',
               \A v \in recorded' : Applied(v),
               \A v \in recorded' : \A w \in Versions : w <= v => w \in recorded'
        PROVE  OrderInv'
    <3>1. \A q \in Processes : q # p => at'[q] = at[q] /\ version'[q] = version[q]
      BY <2>n, <2>t DEF NextMigration
    <3>2. CASE version[p] = 3
      <4>1. at'[p] = "done"
        BY <2>n, <2>t, <3>2 DEF NextMigration
      <4>2. \A w \in Versions : w \in recorded'
        BY <2>n, <3>2, <1>v
      <4> QED BY <1>t, <2>n, <2>t, <3>1, <4>1, <4>2
    <3>3. CASE version[p] # 3
      <4>1. at'[p] = "read" /\ version'[p] = version[p] + 1
        BY <2>n, <2>t, <3>3 DEF NextMigration
      <4>2. \A w \in Versions : w < version'[p] => w \in recorded'
        BY <2>n, <2>t, <4>1 DEF Versions
      <4> QED BY <1>t, <2>n, <2>t, <3>1, <4>1, <4>2
    <3> QED BY <3>2, <3>3
  (* Starting the script of version[p]. *)
  <2>r. ASSUME RunScript(p), at[p] = "read", UNCHANGED <<schema, recorded>>
        PROVE  OrderInv'
    <3>1. /\ at'[p] = "script" /\ statement'[p] = 1 /\ version' = version
          /\ \A q \in Processes : q # p => at'[q] = at[q] /\ statement'[q] = statement[q]
      BY <2>r, <2>t DEF RunScript
    <3> QED BY <1>t, <2>r, <2>t, <3>1
  <2>1. CASE Initialize(p)
    <3>1. /\ at'[p] = "read" /\ version'[p] = 1
          /\ \A q \in Processes : q # p => at'[q] = at[q] /\ version'[q] = version[q]
      BY <2>1, <2>t DEF Initialize
    <3>2. \A w \in Versions : ~(w < version'[p])
      BY <3>1 DEF Versions
    <3> QED BY <1>t, <2>1, <2>t, <3>1, <3>2 DEF Initialize
  <2>2. CASE ReadVersion(p)
    <3>1. CASE \E v \in Versions : GetSchemaVersion(v) /\ v >= version[p]
      <4>1. PICK v \in Versions : GetSchemaVersion(v) /\ v >= version[p]
        BY <3>1
      <4>2. version[p] \in recorded
        BY <2>t, <4>1 DEF GetSchemaVersion, Versions
      <4>3. NextMigration(p) /\ UNCHANGED <<schema, recorded, statement>> /\ at[p] = "read"
        BY <2>2, <3>1 DEF ReadVersion
      <4> QED BY <2>n, <4>2, <4>3
    <3>2. CASE ~\E v \in Versions : GetSchemaVersion(v) /\ v >= version[p]
      BY <2>2, <2>r, <3>2 DEF ReadVersion
    <3> QED BY <3>1, <3>2
  <2>3. CASE ReadVersionLocked(p)
    BY <2>3, <2>r DEF ReadVersionLocked
  <2>4. CASE ExecuteStatement(p)
    <3>0. at[p] = "script" /\ recorded' = recorded /\ version' = version
      BY <2>4 DEF ExecuteStatement
    <3>s. <<version[p], statement[p]>> \in Statements
      BY <1>t, <3>0 DEF MigrationTypeOK
    <3>k. statement[p] \in 1..ScriptLength[version[p]] /\ version[p] \in Versions
      BY <3>s, StatementPairs
    <3>1. CASE DuplicateColumn(version[p], statement[p])
      <4>1. /\ at'[p] = "failed" /\ schema' = schema /\ statement' = statement
            /\ \A q \in Processes : q # p => at'[q] = at[q]
        BY <2>4, <2>t, <3>1 DEF ExecuteStatement
      <4> QED BY <1>t, <2>t, <3>0, <4>1
    <3>2. CASE ~DuplicateColumn(version[p], statement[p])
      <4>1. schema' = schema \cup {<<version[p], statement[p]>>}
        BY <2>4, <3>2 DEF ExecuteStatement
      <4>2. CASE statement[p] = ScriptLength[version[p]]
        <5>1. /\ at'[p] = "record" /\ statement' = statement
              /\ \A q \in Processes : q # p => at'[q] = at[q]
          BY <2>4, <2>t, <3>2, <4>2 DEF ExecuteStatement
        <5>2. \A k \in 1..ScriptLength[version[p]] : k \in Nat \ {0} /\ k <= statement[p]
          BY <2>t, <4>2
        <5>3. \A k \in 1..ScriptLength[version[p]] : <<version[p], k>> \in schema'
          BY <2>t, <3>0, <4>1, <5>2
        <5> QED BY <1>t, <2>t, <3>0, <4>1, <5>1, <5>3
      <4>3. CASE statement[p] # ScriptLength[version[p]]
        <5>1. /\ at' = at /\ statement'[p] = statement[p] + 1
              /\ \A q \in Processes : q # p => statement'[q] = statement[q]
          BY <2>4, <2>t, <3>2, <4>3 DEF ExecuteStatement
        <5>2. \A k \in Nat \ {0} : k < statement[p] + 1 => k < statement[p] \/ k = statement[p]
          BY <2>t
        <5>3. \A k \in Nat \ {0} : k < statement'[p] => <<version[p], k>> \in schema'
          BY <2>t, <3>0, <4>1, <5>1, <5>2
        <5> QED BY <1>t, <2>t, <3>0, <4>1, <5>1, <5>3
      <4> QED BY <4>2, <4>3
    <3> QED BY <3>1, <3>2
  <2>5. CASE RecordVersion(p)
    <3>1. /\ recorded' = recorded \cup {version[p]} /\ at[p] = "record" /\ NextMigration(p)
          /\ UNCHANGED <<schema, statement>>
      BY <2>5 DEF RecordVersion
    <3>2. \A w \in Versions : w < version[p] => w \in recorded
      BY <3>1
    <3>3. \A v \in recorded' : Applied(v)
      BY <3>1
    <3>4. \A v \in recorded' : \A w \in Versions : w <= v => w \in recorded'
      BY <2>t, <3>1, <3>2 DEF Versions
    <3> QED BY <2>n, <3>1, <3>2, <3>3, <3>4
  <2>6. CASE Crash(p)
    <3>1. at'[p] = "idle" /\ (\A q \in Processes : q # p => at'[q] = at[q])
          /\ UNCHANGED <<schema, recorded, version, statement>>
      BY <2>6, <2>t DEF Crash
    <3> QED BY <1>t, <2>t, <3>1
  <2>7. CASE LockTimeout(p)
    <3>1. at'[p] = "failed" /\ (\A q \in Processes : q # p => at'[q] = at[q])
          /\ UNCHANGED <<schema, recorded, version, statement>>
      BY <2>7, <2>t DEF LockTimeout
    <3> QED BY <1>t, <2>t, <3>1
  <2> QED BY <1>2, <2>1, <2>2, <2>3, <2>4, <2>5, <2>6, <2>7 DEF ProcessNext, Step
<1> QED BY <1>1, <1>2 DEF Next

(* The version table never runs ahead of the schema, and initialize returns
   only on the complete schema. *)
THEOREM MigrationSafety == Spec => []VersionsAreTrue
<1>1. OrderInv => VersionImpliesSchema
  <2> SUFFICES ASSUME OrderInv, NEW v \in recorded
               PROVE  /\ \A s \in Statements : s[1] <= v => s \in schema
                      /\ 1..v \subseteq recorded
    BY DEF VersionImpliesSchema
  <2>1. v \in Versions
    BY DEF OrderInv, MigrationTypeOK
  <2>2. 1..v \subseteq recorded
    BY <2>1 DEF OrderInv, Versions
  <2>3. ASSUME NEW s \in Statements, s[1] <= v PROVE s \in schema
    <3>1. s = <<s[1], s[2]>> /\ s[1] \in Versions /\ s[2] \in 1..ScriptLength[s[1]]
      BY StatementPairs
    <3>2. Applied(s[1])
      BY <2>3, <3>1 DEF OrderInv
    <3> QED BY <3>1, <3>2 DEF Applied
  <2> QED BY <2>2, <2>3
<1>2. OrderInv => ReturnMeansComplete
  <2> SUFFICES ASSUME OrderInv, NEW p \in Processes, at[p] = "done"
               PROVE  recorded = Versions /\ schema = Statements
    BY DEF ReturnMeansComplete
  <2>1. recorded = Versions
    BY DEF OrderInv, MigrationTypeOK
  <2>2. ASSUME NEW s \in Statements PROVE s \in schema
    <3>1. s = <<s[1], s[2]>> /\ s[1] \in Versions /\ s[2] \in 1..ScriptLength[s[1]]
      BY StatementPairs
    <3> QED BY <2>1, <3>1 DEF OrderInv, Applied
  <2> QED BY <2>1, <2>2 DEF OrderInv, MigrationTypeOK
<1>3. OrderInv => VersionsAreTrue
  BY <1>1, <1>2 DEF VersionsAreTrue
<1> QED BY <1>3, OrderInit, OrderStep, PTL DEF Spec

-----------------------------------------------------------------------------
(* The owner of the upgrade to version 2 *)

(* The process that got the first column in is the only one past it, and the
   columns there are its own: this is why it meets no duplicate. *)
OwnerInv ==
    /\ OrderInv
    /\ \A p, q \in Processes : Upgrading(p) /\ Upgrading(q) => p = q
    /\ \A p \in Processes : Upgrading(p) => 2 \notin recorded
    /\ \A p \in Processes : Upgrading(p) /\ at[p] = "script" =>
          \A k \in 1..AddedColumns : <<2, k>> \in schema => k < statement[p]
    /\ \A k \in 1..AddedColumns : <<2, k>> \in schema => <<2, 1>> \in schema
    /\ interruptions = 0 /\ HalfUpgraded => \E p \in Processes : Upgrading(p)

(* A process at the upgrade has the first column behind it. *)
LEMMA UpgradingHasColumn ==
    ASSUME OrderInv, NEW p \in Processes, Upgrading(p)
    PROVE  <<2, 1>> \in schema
<1>1. CASE at[p] = "record"
  BY <1>1, ScriptAssumption DEF OrderInv, Upgrading, Applied, Versions
<1>2. CASE at[p] = "script" /\ statement[p] > 1
  BY <1>2 DEF OrderInv, Upgrading
<1> QED BY <1>1, <1>2 DEF Upgrading

LEMMA OwnerInit == Init => OwnerInv
BY OrderInit DEF Init, OwnerInv, Upgrading, HalfUpgraded

(* What one step of a process does to the upgrade: nothing, or it adds the
   first column, goes on with the script, or ends it. *)
LEMMA UpgradeStep ==
    ASSUME OwnerInv, NEW p \in Processes, ProcessNext(p)
    PROVE  /\ \A q \in Processes : q # p => (Upgrading(q)' <=> Upgrading(q))
           /\ \A q \in Processes : q # p => at'[q] = at[q] /\ statement'[q] = statement[q]
           /\ \/ /\ ~Upgrading(p)'
                 /\ interruptions' = 0 => ~Upgrading(p)
                 /\ \A k \in Nat : <<2, k>> \in schema' <=> <<2, k>> \in schema
                 /\ 2 \in recorded' <=> 2 \in recorded
              \/ /\ ~Upgrading(p) /\ Upgrading(p)'
                 /\ <<2, 1>> \notin schema
                 /\ schema' = schema \cup {<<2, 1>>}
                 /\ at'[p] = "script" => statement'[p] = 2
                 /\ recorded' = recorded
              \/ /\ Upgrading(p) /\ Upgrading(p)'
                 /\ at[p] = "script"
                 /\ schema' = schema \cup {<<2, statement[p]>>}
                 /\ at'[p] = "script" => statement'[p] = statement[p] + 1
                 /\ recorded' = recorded
              \/ /\ Upgrading(p) /\ ~Upgrading(p)'
                 /\ 2 \in recorded'
                 /\ schema' = schema
<1>t. /\ at \in [Processes -> Running \cup {"idle", "done", "failed"}]
      /\ version \in [Processes -> Versions] /\ statement \in [Processes -> Nat \ {0}]
      /\ recorded \subseteq Versions /\ interruptions \in Nat
  BY InterruptionsAssumption DEF OwnerInv, OrderInv, MigrationTypeOK
<1> USE DEF Running, Versions, Upgrading
<1>1. CASE Initialize(p)
  BY <1>1, <1>t DEF Initialize
<1>2. CASE ReadVersion(p)
  <2>1. CASE NextMigration(p) /\ UNCHANGED statement
    BY <1>2, <1>t, <2>1 DEF ReadVersion, NextMigration
  <2>2. CASE RunScript(p)
    BY <1>2, <1>t, <2>2 DEF ReadVersion, RunScript
  <2> QED BY <1>2, <2>1, <2>2 DEF ReadVersion
<1>3. CASE ReadVersionLocked(p)
  BY <1>3, <1>t DEF ReadVersionLocked, RunScript
<1>4. CASE ExecuteStatement(p)
  <2>0. at[p] = "script" /\ UNCHANGED <<recorded, version, interruptions>>
    BY <1>4 DEF ExecuteStatement
  <2>1. CASE DuplicateColumn(version[p], statement[p])
    <3>1. /\ at'[p] = "failed" /\ schema' = schema /\ statement' = statement
          /\ \A q \in Processes : q # p => at'[q] = at[q]
      BY <1>4, <1>t, <2>1 DEF ExecuteStatement
    <3>2. ~Upgrading(p)
      BY <1>t, <2>0, <2>1 DEF OwnerInv, DuplicateColumn
    <3> QED BY <1>t, <2>0, <3>1, <3>2
  <2>2. CASE ~DuplicateColumn(version[p], statement[p])
    <3>1. schema' = schema \cup {<<version[p], statement[p]>>}
      BY <1>4, <2>2 DEF ExecuteStatement
    <3>2. /\ \/ at'[p] = "record" /\ statement'[p] = statement[p]
             \/ at'[p] = "script" /\ statement'[p] = statement[p] + 1
          /\ \A q \in Processes : q # p => at'[q] = at[q] /\ statement'[q] = statement[q]
      <4>1. CASE statement[p] = ScriptLength[version[p]]
        BY <1>4, <1>t, <2>0, <2>2, <4>1 DEF ExecuteStatement
      <4>2. CASE statement[p] # ScriptLength[version[p]]
        BY <1>4, <1>t, <2>0, <2>2, <4>2 DEF ExecuteStatement
      <4> QED BY <4>1, <4>2
    <3>3. CASE version[p] # 2
      <4>1. ~Upgrading(p) /\ ~Upgrading(p)'
        BY <2>0, <3>3
      <4>2. \A k \in Nat : <<2, k>> \in schema' <=> <<2, k>> \in schema
        BY <3>1, <3>3
      <4> QED BY <2>0, <3>2, <4>1, <4>2
    <3>4. CASE version[p] = 2 /\ statement[p] = 1
      <4>1. <<2, 1>> \notin schema
        BY <2>2, <3>4, ScriptAssumption DEF DuplicateColumn
      <4>2. ~Upgrading(p) /\ Upgrading(p)'
        BY <1>t, <2>0, <3>2, <3>4
      <4> QED BY <2>0, <3>1, <3>2, <3>4, <4>1, <4>2
    <3>5. CASE version[p] = 2 /\ statement[p] # 1
      <4>1. Upgrading(p) /\ Upgrading(p)'
        BY <1>t, <2>0, <3>2, <3>5
      <4> QED BY <2>0, <3>1, <3>2, <3>5, <4>1
    <3> QED BY <3>3, <3>4, <3>5
  <2> QED BY <2>1, <2>2
<1>5. CASE RecordVersion(p)
  <2>1. /\ at[p] = "record" /\ recorded' = recorded \cup {version[p]} /\ NextMigration(p)
        /\ UNCHANGED <<schema, statement, interruptions>>
    BY <1>5 DEF RecordVersion
  <2>2. /\ at'[p] \in {"read", "done"}
        /\ \A q \in Processes : q # p => at'[q] = at[q] /\ version'[q] = version[q]
    BY <1>t, <2>1 DEF NextMigration
  <2>3. Upgrading(p) <=> version[p] = 2
    BY <2>1
  <2> QED BY <1>t, <2>1, <2>2, <2>3
<1>6. CASE Crash(p)
  <2>1. /\ at'[p] = "idle" /\ interruptions' # 0
        /\ (\A q \in Processes : q # p => at'[q] = at[q])
        /\ UNCHANGED <<schema, recorded, version, statement>>
    BY <1>6, <1>t DEF Crash
  <2> QED BY <2>1
<1>7. CASE LockTimeout(p)
  <2>1. /\ at'[p] = "failed" /\ interruptions' # 0
        /\ (\A q \in Processes : q # p => at'[q] = at[q])
        /\ UNCHANGED <<schema, recorded, version, statement>>
    BY <1>7, <1>t DEF LockTimeout
  <2> QED BY <2>1
<1> QED BY <1>1, <1>2, <1>3, <1>4, <1>5, <1>6, <1>7 DEF ProcessNext, Step

LEMMA OwnerStep == OwnerInv /\ [Next]_vars => OwnerInv'
<1> SUFFICES ASSUME OwnerInv, [Next]_vars PROVE OwnerInv'
  OBVIOUS
<1>o. OrderInv /\ OrderInv'
  BY OrderStep DEF OwnerInv
<1>1. CASE UNCHANGED vars
  BY <1>1, <1>o DEF vars, OwnerInv, Upgrading, HalfUpgraded
<1>2. ASSUME NEW p \in Processes, ProcessNext(p) PROVE OwnerInv'
  <2>a. 1 \in 1..AddedColumns /\ 1..AddedColumns \subseteq Nat \ {0}
    BY ScriptAssumption, <1>o DEF OrderInv, MigrationTypeOK, Versions
  <2>t. \A q \in Processes : statement[q] \in Nat \ {0}
    BY <1>o DEF OrderInv, MigrationTypeOK
  <2>i. interruptions' = 0 => interruptions = 0
    <3>1. interruptions \in Nat /\ interruptions' \in {interruptions, interruptions + 1}
      BY <1>2, <1>o, InterruptionsAssumption
      DEF OrderInv, MigrationTypeOK, ProcessNext, Step, Initialize, ReadVersion,
          ReadVersionLocked, ExecuteStatement, RecordVersion, Crash, LockTimeout
    <3> QED BY <3>1
  <2>q. /\ \A q \in Processes : q # p => (Upgrading(q)' <=> Upgrading(q))
        /\ \A q \in Processes : q # p => at'[q] = at[q] /\ statement'[q] = statement[q]
    BY <1>2, UpgradeStep
  <2>c. \A q \in Processes : Upgrading(q) => <<2, 1>> \in schema
    BY <1>o, UpgradingHasColumn
  <2>1. CASE /\ ~Upgrading(p)'
             /\ interruptions' = 0 => ~Upgrading(p)
             /\ \A k \in Nat : <<2, k>> \in schema' <=> <<2, k>> \in schema
             /\ 2 \in recorded' <=> 2 \in recorded
    <3>1. \A q \in Processes : Upgrading(q)' => q # p /\ Upgrading(q)
      BY <2>1, <2>q
    <3>2. \A q, r \in Processes : Upgrading(q)' /\ Upgrading(r)' => q = r
      BY <3>1 DEF OwnerInv
    <3>3. \A q \in Processes : Upgrading(q)' => 2 \notin recorded'
      BY <2>1, <3>1 DEF OwnerInv
    <3>4. \A q \in Processes : Upgrading(q)' /\ at'[q] = "script" =>
            \A k \in 1..AddedColumns : <<2, k>> \in schema' => k < statement'[q]
      BY <2>1, <2>a, <2>q, <3>1 DEF OwnerInv
    <3>5. \A k \in 1..AddedColumns : <<2, k>> \in schema' => <<2, 1>> \in schema'
      BY <2>1, <2>a DEF OwnerInv
    <3>6. interruptions' = 0 /\ HalfUpgraded' => \E q \in Processes : Upgrading(q)'
      <4> SUFFICES ASSUME interruptions' = 0, HalfUpgraded'
                   PROVE  \E q \in Processes : Upgrading(q)'
        OBVIOUS
      <4>1. HalfUpgraded /\ interruptions = 0
        BY <2>1, <2>i DEF HalfUpgraded
      <4>2. PICK q \in Processes : Upgrading(q)
        BY <4>1 DEF OwnerInv
      <4> QED BY <2>1, <2>q, <4>2
    <3> QED BY <1>o, <3>2, <3>3, <3>4, <3>5, <3>6 DEF OwnerInv
  <2>2. CASE /\ ~Upgrading(p) /\ Upgrading(p)'
             /\ <<2, 1>> \notin schema
             /\ schema' = schema \cup {<<2, 1>>}
             /\ at'[p] = "script" => statement'[p] = 2
             /\ recorded' = recorded
    <3>1. \A q \in Processes : Upgrading(q)' <=> q = p
      BY <2>2, <2>q, <2>c
    <3>2. 2 \notin recorded
      BY <1>o, <2>2, ScriptAssumption DEF OrderInv, Applied, Versions
    <3>3. \A k \in 1..AddedColumns : <<2, k>> \in schema' => k = 1
      BY <2>2 DEF OwnerInv
    <3> QED BY <1>o, <2>2, <3>1, <3>2, <3>3 DEF OwnerInv
  <2>3. CASE /\ Upgrading(p) /\ Upgrading(p)'
             /\ at[p] = "script"
             /\ schema' = schema \cup {<<2, statement[p]>>}
             /\ at'[p] = "script" => statement'[p] = statement[p] + 1
             /\ recorded' = recorded
    <3>1. \A q \in Processes : Upgrading(q)' <=> q = p
      BY <2>3, <2>q DEF OwnerInv
    <3>2. 2 \notin recorded
      BY <2>3 DEF OwnerInv
    <3>3. \A k \in 1..AddedColumns :
            <<2, k>> \in schema' => k < statement[p] \/ k = statement[p]
      BY <2>3 DEF OwnerInv
    <3>4. at'[p] = "script" => \A k \in 1..AddedColumns :
            <<2, k>> \in schema' => k < statement'[p]
      BY <2>3, <2>a, <2>t, <3>3
    <3> QED BY <1>o, <2>c, <2>3, <3>1, <3>2, <3>4 DEF OwnerInv
  <2>4. CASE /\ Upgrading(p) /\ ~Upgrading(p)'
             /\ 2 \in recorded'
             /\ schema' = schema
    <3>1. \A q \in Processes : ~Upgrading(q)'
      BY <2>4, <2>q DEF OwnerInv
    <3>2. ~HalfUpgraded'
      BY <2>4 DEF HalfUpgraded
    <3> QED BY <1>o, <2>4, <3>1, <3>2 DEF OwnerInv
  <2> QED BY <1>2, <2>1, <2>2, <2>3, <2>4, UpgradeStep
<1> QED BY <1>1, <1>2 DEF Next

(* At most one process is past the first column, and without a crash or a lock
   timeout a half-upgraded database always has that process. *)
THEOREM UpgradeOwnership == Spec => []UpgradeHasOneOwner
<1>1. OwnerInv => UpgradeHasOneOwner
  BY DEF OwnerInv, UpgradeHasOneOwner
<1> QED BY <1>1, OwnerInit, OwnerStep, PTL DEF Spec

(* A half-upgraded database without an owner stays so: no later initialize
   completes it. *)
THEOREM WedgeStays == Spec => WedgeIsPermanent
<1> DEFINE Wedged == HalfUpgraded /\ \A p \in Processes : ~Upgrading(p)
<1>1. ASSUME OwnerInv, [Next]_vars PROVE Wedged => Wedged'
  <2>1. CASE UNCHANGED vars
    BY <2>1 DEF vars, HalfUpgraded, Upgrading
  <2>2. ASSUME Wedged, NEW p \in Processes, ProcessNext(p) PROVE Wedged'
    <3>1. /\ ~Upgrading(p)'
          /\ \A k \in Nat : <<2, k>> \in schema' <=> <<2, k>> \in schema
          /\ 2 \in recorded' <=> 2 \in recorded
      BY <1>1, <2>2, UpgradeStep DEF HalfUpgraded
    <3>2. \A q \in Processes : ~Upgrading(q)'
      BY <1>1, <2>2, <3>1, UpgradeStep
    <3> QED BY <2>2, <3>1, <3>2 DEF HalfUpgraded
  <2> QED BY <1>1, <2>1, <2>2 DEF Next
<1> HIDE DEF Wedged
<1>2. Spec => [][Wedged => Wedged']_vars
  BY <1>1, OwnerInit, OwnerStep, PTL DEF Spec
<1> QED BY <1>2 DEF Wedged, WedgeIsPermanent
=============================================================================
