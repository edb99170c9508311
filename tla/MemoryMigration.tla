--------------------------- MODULE MemoryMigration ---------------------------
(***************************************************************************)
(* MemoryStore.initialize: apply_migrations brings the database file to    *)
(* the current schema (runtime/memory-core/src/memory_core/migrations.py   *)
(* and the three scripts in runtime/memory-core/migrations).               *)
(*                                                                         *)
(* executescript runs a script in autocommit mode, so that every statement *)
(* is a transaction of its own and the version row another: other          *)
(* processes, crashes and lock timeouts come in between.  Every statement  *)
(* is CREATE ... IF NOT EXISTS, except for the ADD COLUMNs script 002      *)
(* starts with, which fail on a column that is there already.              *)
(***************************************************************************)
EXTENDS Integers, FiniteSets

CONSTANTS
    Processes,       \* the processes that initialise a store on the file
    ScriptLength,    \* the number of statements of each script
    AddedColumns,    \* how many of script 002's are ADD COLUMN, its first ones
    MaxInterruptions \* bound: crashes and lock timeouts

Versions == 1..3

ASSUME ProcessesAssumption == Processes # {}
ASSUME ScriptAssumption == /\ ScriptLength \in [Versions -> Nat \ {0}]
                           /\ AddedColumns \in 1..ScriptLength[2]
ASSUME InterruptionsAssumption == MaxInterruptions \in Nat

Statements == UNION {{<<v, k>> : k \in 1..ScriptLength[v]} : v \in Versions}

VARIABLES
    schema,       \* the statements whose effect is in the database file
    recorded,     \* the rows of schema_version
    at,           \* where each process is in apply_migrations
    version,      \* the migration of its loop it is at
    statement,    \* the next statement of that migration's script
    interruptions \* how many crashes and lock timeouts there were

vars == <<schema, recorded, at, version, statement, interruptions>>

Running == {"read", "script", "record"}

MigrationTypeOK ==
    /\ schema \subseteq Statements
    /\ recorded \subseteq Versions
    /\ at \in [Processes -> Running \cup {"idle", "done", "failed"}]
    /\ version \in [Processes -> Versions]
    /\ statement \in [Processes -> Nat \ {0}]
    /\ \A p \in Processes : at[p] = "script" => <<version[p], statement[p]>> \in Statements
    /\ interruptions \in 0..MaxInterruptions

-----------------------------------------------------------------------------
(* A process asks for the schema, the first time or again after an error. *)
Initialize(p) ==
    /\ at[p] \notin Running
    /\ at' = [at EXCEPT ![p] = "read"]
    /\ version' = [version EXCEPT ![p] = 1]
    /\ UNCHANGED <<schema, recorded, statement, interruptions>>

(* Mutants: the loop ends before the last migration, or after it. *)
NextMigrationShort(p) ==
    IF version[p] = 2
    THEN at' = [at EXCEPT ![p] = "done"] /\ UNCHANGED version
    ELSE /\ at' = [at EXCEPT ![p] = "read"]
         /\ version' = [version EXCEPT ![p] = @ + 1]

NextMigrationLong(p) ==
    IF version[p] > 3
    THEN at' = [at EXCEPT ![p] = "done"] /\ UNCHANGED version
    ELSE /\ at' = [at EXCEPT ![p] = "read"]
         /\ version' = [version EXCEPT ![p] = @ + 1]

NextMigration(p) ==
    IF version[p] = 3
    THEN at' = [at EXCEPT ![p] = "done"] /\ UNCHANGED version
    ELSE /\ at' = [at EXCEPT ![p] = "read"]
         /\ version' = [version EXCEPT ![p] = @ + 1]

RunScript(p) ==
    /\ at' = [at EXCEPT ![p] = "script"]
    /\ statement' = [statement EXCEPT ![p] = 1]
    /\ UNCHANGED version

(* SELECT MAX(version), and 0 when there is no such table. *)
GetSchemaVersion(v) == v \in recorded /\ \A w \in recorded : w <= v

ReadVersion(p) ==
    /\ at[p] = "read"
    /\ IF \E v \in Versions : GetSchemaVersion(v) /\ v >= version[p]
       THEN NextMigration(p) /\ UNCHANGED statement
       ELSE RunScript(p)
    /\ UNCHANGED <<schema, recorded, interruptions>>

Rival(p) == \E q \in Processes \ {p} : at[q] \in Running

(* get_schema_version takes every OperationalError for a missing table, the
   "database is locked" of a SELECT that waited for a rival too. *)
ReadVersionLocked(p) ==
    /\ at[p] = "read"
    /\ Rival(p)
    /\ RunScript(p)
    /\ UNCHANGED <<schema, recorded, interruptions>>

(* Mutant: every statement may be repeated. *)
DuplicateColumnNever(v, k) == FALSE

DuplicateColumn(v, k) == v = 2 /\ k <= AddedColumns /\ <<v, k>> \in schema

(* Mutant: the script's errors are ignored. *)
ExecuteStatementAnyway(p) ==
    /\ at[p] = "script"
    /\ \/ /\ DuplicateColumn(version[p], statement[p])
          /\ at' = [at EXCEPT ![p] = "record"]
          /\ UNCHANGED <<schema, statement>>
       \/ /\ ~DuplicateColumn(version[p], statement[p])
          /\ schema' = schema \cup {<<version[p], statement[p]>>}
          /\ IF statement[p] = ScriptLength[version[p]]
             THEN at' = [at EXCEPT ![p] = "record"] /\ UNCHANGED statement
             ELSE /\ statement' = [statement EXCEPT ![p] = @ + 1]
                  /\ UNCHANGED at
    /\ UNCHANGED <<recorded, version, interruptions>>

ExecuteStatement(p) ==
    /\ at[p] = "script"
    /\ \/ /\ DuplicateColumn(version[p], statement[p])
          /\ at' = [at EXCEPT ![p] = "failed"]
          /\ UNCHANGED <<schema, statement>>
       \/ /\ ~DuplicateColumn(version[p], statement[p])
          /\ schema' = schema \cup {<<version[p], statement[p]>>}
          /\ IF statement[p] = ScriptLength[version[p]]
             THEN at' = [at EXCEPT ![p] = "record"] /\ UNCHANGED statement
             ELSE /\ statement' = [statement EXCEPT ![p] = @ + 1]
                  /\ UNCHANGED at
    /\ UNCHANGED <<recorded, version, interruptions>>

(* INSERT OR IGNORE of the version row, and its commit. *)
RecordVersion(p) ==
    /\ at[p] = "record"
    /\ recorded' = recorded \cup {version[p]}
    /\ NextMigration(p)
    /\ UNCHANGED <<schema, statement, interruptions>>

Crash(p) ==
    /\ at[p] \in Running
    /\ interruptions < MaxInterruptions
    /\ interruptions' = interruptions + 1
    /\ at' = [at EXCEPT ![p] = "idle"]
    /\ UNCHANGED <<schema, recorded, version, statement>>

(* A statement waits in vain for a rival's lock: initialize raises. *)
LockTimeout(p) ==
    /\ at[p] \in {"script", "record"}
    /\ Rival(p)
    /\ interruptions < MaxInterruptions
    /\ interruptions' = interruptions + 1
    /\ at' = [at EXCEPT ![p] = "failed"]
    /\ UNCHANGED <<schema, recorded, version, statement>>

-----------------------------------------------------------------------------
Init ==
    /\ schema = {}
    /\ recorded = {}
    /\ at = [p \in Processes |-> "idle"]
    /\ version = [p \in Processes |-> 1]
    /\ statement = [p \in Processes |-> 1]
    /\ interruptions = 0

Step(p) == ReadVersion(p) \/ ReadVersionLocked(p) \/ ExecuteStatement(p) \/ RecordVersion(p)

ProcessNext(p) == Initialize(p) \/ Step(p) \/ Crash(p) \/ LockTimeout(p)

Next == \E p \in Processes : ProcessNext(p)

Spec == Init /\ [][Next]_vars

(* A process that is running goes on, and each one asks for the schema at
   least once; nobody has to ask again after an error. *)
FairSpec ==
    /\ Spec
    /\ \A p \in Processes : WF_vars(Step(p)) /\ WF_vars(at[p] = "idle" /\ Initialize(p))

-----------------------------------------------------------------------------
(* The version table never runs ahead of the schema: a recorded version means
   that all statements of its script and of the earlier ones took effect,
   which is all that apply_migrations looks at before it skips a script. *)
VersionImpliesSchema ==
    \A v \in recorded : /\ \A s \in Statements : s[1] <= v => s \in schema
                        /\ 1..v \subseteq recorded

(* A process for which initialize returned works on the complete schema. *)
ReturnMeansComplete ==
    \A p \in Processes : at[p] = "done" => recorded = Versions /\ schema = Statements

(* What the version table and a returned call say of the schema is true. *)
VersionsAreTrue == VersionImpliesSchema /\ ReturnMeansComplete

(* The process that added the first column of script 002 and is still at it. *)
Upgrading(p) ==
    /\ version[p] = 2
    /\ at[p] = "record" \/ (at[p] = "script" /\ statement[p] > 1)

HalfUpgraded == <<2, 1>> \in schema /\ 2 \notin recorded

(* Concurrent initialisers do not break the database: without a crash or a
   lock timeout, columns without their version row are the work of exactly
   one process that is still running and has not met a duplicate column,
   whoever failed beside it and whatever the others read. *)
UpgradeHasOneOwner ==
    /\ \A p, q \in Processes : Upgrading(p) /\ Upgrading(q) => p = q
    /\ interruptions = 0 /\ HalfUpgraded => \E p \in Processes : Upgrading(p)

(* An interrupted upgrade is for ever: once columns are there without their
   version row and nobody is at it any more, no later call of initialize gets
   past the first ADD COLUMN, and the database never reaches version 2. *)
WedgeIsPermanent ==
    [][HalfUpgraded /\ (\A p \in Processes : ~Upgrading(p))
        => (HalfUpgraded /\ (\A p \in Processes : ~Upgrading(p)))']_vars

(* Without interruptions the database reaches the current version, however
   the initialisers overtake each other. *)
UpgradeCompletes == [](interruptions = 0) => <>(recorded = Versions)
=============================================================================
