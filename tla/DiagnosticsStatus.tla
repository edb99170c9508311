-------------------------- MODULE DiagnosticsStatus --------------------------
(***************************************************************************)
(* The diagnostics collector (scripts/update-diagnostics-status.ps1), the  *)
(* ingest of the input gate's body state that it calls                     *)
(* (runtime/state-event-ingest/StateEventIngest.psm1), the watcher that    *)
(* repeats it, and the body-schema builder that reads what it wrote        *)
(* (scripts/build-body-schema-snapshot.ps1).                               *)
(*                                                                         *)
(* A collector reads the previous status file, probes the services one by  *)
(* one, reads the input gate's owner, and then writes the status file, the *)
(* topology file and its journal events, with no lock around any of it:    *)
(* the watcher's runs, manual ones and those of the organ test packs       *)
(* overlap, and each may be interrupted anywhere.                          *)
(*                                                                         *)
(* Timestamps are kept as ages in ticks, which Tick advances up to MaxAge. *)
(***************************************************************************)
EXTENDS Integers, FiniteSets

CONSTANTS
    Services,       \* the services of the service manifest
    Drivers,        \* the organ drivers, each with one capability here
    TargetServices, \* the services a driver's capability rests on
    StaticDrivers,  \* the drivers whose capability rests on files instead
    Initialized,    \* the event diagnostics.status_initialized
    Collectors,     \* processes that run the collector
    Watcher,        \* the one that watch-diagnostics-status.ps1 repeats
    Modes,          \* the switches each collector may be run with
    ProbeStates,    \* what a probe may find
    SelfStates,     \* the classes the input gate's owner may report
    FreshFor,       \* the 5000 ms a body state is fresh for
    StaleAfter,     \* the stale_after_seconds of a service
    MaxChanges,     \* bound: changes of the services and of the owner
    MaxInterruptions \* bound: runs that end by an error

Mode == [ManifestOnly: BOOLEAN, NoJournal: BOOLEAN]
States == ProbeStates \cup {"unknown"}
Subjects == Services \cup Drivers
Probed == Services \cup StaticDrivers
MaxAge == StaleAfter + 1
Older(age) == IF age < MaxAge THEN age + 1 ELSE age

ASSUME SubjectsAssumption == /\ Services \cap Drivers = {}
                             /\ TargetServices \in [Drivers -> SUBSET Services]
                             /\ StaticDrivers \subseteq Drivers
                             /\ \A d \in StaticDrivers : TargetServices[d] = {}
                             /\ Initialized \notin Subjects
ASSUME WatcherAssumption == /\ Watcher \in Collectors
                            /\ Modes \in [Collectors -> SUBSET Mode]
                            /\ Modes[Watcher] = {[ManifestOnly |-> FALSE, NoJournal |-> FALSE]}
ASSUME SelfStatesAssumption == {"missing_owner_read", "unreachable", "none"} \cap SelfStates = {}
ASSUME ProbeAssumption == ProbeStates \subseteq {"available", "degraded", "unavailable"}
ASSUME TimeAssumption == FreshFor \in Nat /\ StaleAfter \in Nat /\ FreshFor <= StaleAfter
ASSUME BoundsAssumption == MaxChanges \in Nat /\ MaxInterruptions \in Nat

VARIABLES
    actual,     \* what a probe of each service, or of a driver's files, would find
    owner,      \* the class the input gate's owner reports, or "unreachable"
    held,       \* auxiliary: ticks since the owner last reported each class
    statusFile, \* current.json
    topology,   \* the states in topology.json
    journal,    \* what matters of the event journal: the status whose digest
                \* the last status_initialized carries, and what the events
                \* since tell last of each subject
    run,        \* the run each collector is in the middle of
    changes, interruptions,
    doubtful    \* auxiliary: the subjects of which a run wrote a status that
                \* it has not told the journal, or that it could not compare
                \* with the status it replaced

worldVars == <<actual, owner, held, changes>>
fileVars == <<statusFile, topology, journal>>
vars == <<actual, owner, held, statusFile, topology, journal, run,
          changes, interruptions, doubtful>>

Missing == "missing_owner_read"
BodyStates == SelfStates \cup {Missing}
ProbedStates == States \cup {"unprobed"}
Observation == [Subjects -> States]
Absent == [kind |-> "absent"]
Torn == [kind |-> "torn"]
Status == [kind: {"status"}, subjects: Observation, body: BodyStates, age: 0..MaxAge]
Previous == [kind: {"status"}, subjects: Observation] \cup {Absent}
Idle == [at |-> "idle"]
Event == Subjects \cup {Initialized}
(* overtaken is auxiliary: another run has touched the status file since this
   one read it. *)
Run == [at: {"probe", "truncate", "write", "topology", "journal"}, manifestOnly: BOOLEAN,
        age: 0..MaxAge, body: BodyStates, observed: [Probed -> ProbedStates],
        previous: Previous, events: SUBSET Event, overtaken: BOOLEAN]
Journal == [baseline: [Subjects -> States \cup {"none"}],
            told: [Subjects -> States \cup {"none"}]]

DiagnosticsTypeOK ==
    /\ actual \in [Probed -> ProbeStates]
    /\ owner \in SelfStates \cup {"unreachable"}
    /\ held \in [SelfStates -> 0..MaxAge]
    /\ statusFile \in Status \cup {Absent, Torn}
    /\ topology \in [Subjects -> States \cup {"none"}]
    /\ journal \in Journal
    /\ run \in [Collectors -> Run \cup {Idle}]
    /\ \A c \in Collectors : \* a run gets on only when everything is probed
          run[c].at \notin {"idle", "probe"} => run[c].observed \in [Probed -> States]
    /\ changes \in 0..MaxChanges
    /\ interruptions \in 0..MaxInterruptions
    /\ doubtful \in SUBSET Subjects

-----------------------------------------------------------------------------
(* ConvertTo-CapabilityState.  No probe finds a service blocked. *)
CapabilityState(states) ==
    IF states = {} THEN "unknown"
    ELSE IF "unavailable" \in states THEN "unavailable"
    ELSE IF "degraded" \in states THEN "degraded"
    ELSE IF states = {"available"} THEN "available" ELSE "unknown"

Observed(observed) ==
    [x \in Subjects |-> IF x \in Probed THEN observed[x]
                        ELSE CapabilityState({observed[s] : s \in TargetServices[x]})]

(* Mutant: only the services are compared. *)
NewServiceChangeEvents(previous, current) ==
    IF previous.kind # "status" THEN {Initialized}
    ELSE {x \in Services : previous.subjects[x] # current[x]}

(* New-StateChangeEvents, a change named by the subject it tells of.  The event
   of a first status has the digest and the counts of it only. *)
NewStateChangeEvents(previous, current) ==
    IF previous.kind # "status" THEN {Initialized}
    ELSE {x \in Subjects : previous.subjects[x] # current[x]}

ToldBy(events) == IF Initialized \in events THEN Subjects ELSE events \cap Subjects

-----------------------------------------------------------------------------
(* The collector.  previousStatus is what could be parsed, or nothing. *)
Begin(c) ==
    /\ run[c] = Idle
    /\ \E mode \in Modes[c] :
          run' = [run EXCEPT ![c] =
              [at |-> "probe", manifestOnly |-> mode.ManifestOnly, age |-> 0, body |-> Missing,
               observed |-> [s \in Probed |-> "unprobed"],
               previous |-> IF statusFile.kind = "status"
                            THEN [kind |-> "status", subjects |-> statusFile.subjects]
                            ELSE Absent,
               events |-> {}, overtaken |-> FALSE]]
    /\ UNCHANGED <<worldVars, fileVars, interruptions, doubtful>>

Unprobed(c) == {s \in Probed : run[c].observed[s] = "unprobed"}

(* The services are probed first; the files of the drivers that rest on none
   are looked for when the capabilities are computed. *)
Probeable(c) == IF Unprobed(c) \cap Services # {} THEN Unprobed(c) \cap Services
                ELSE Unprobed(c)

(* Mutant: what the last status says is not probed again. *)
ProbeOnce(c) ==
    /\ run[c].at = "probe"
    /\ \E s \in Probeable(c) :
          run' = [run EXCEPT ![c].observed[s] =
                     IF run[c].previous.kind = "status" THEN run[c].previous.subjects[s]
                     ELSE IF run[c].manifestOnly THEN "unknown" ELSE actual[s]]
    /\ UNCHANGED <<worldVars, fileVars, interruptions, doubtful>>

Probe(c) ==
    /\ run[c].at = "probe"
    /\ \E s \in Probeable(c) :
          run' = [run EXCEPT ![c].observed[s] =
                     IF run[c].manifestOnly THEN "unknown" ELSE actual[s]]
    /\ UNCHANGED <<worldVars, fileVars, interruptions, doubtful>>

(* Mutant: the status is computed from the probes that have returned. *)
ReadInputGateBodyStateEarly(c) ==
    /\ run[c].at = "probe"
    /\ run' = [run EXCEPT
          ![c].at = "truncate", ![c].previous = Absent,
          ![c].body = IF run[c].manifestOnly \/ owner = "unreachable" THEN Missing ELSE owner,
          ![c].events = NewStateChangeEvents(run[c].previous, Observed(run[c].observed))]
    /\ UNCHANGED <<worldVars, fileVars, interruptions, doubtful>>

(* Everything is probed: the owner is read, and the status and its events
   are computed.  Invoke-StateEventIngest merges the body-state row, stamped
   like the whole status with the start of the run. *)
ReadInputGateBodyState(c) ==
    /\ run[c].at = "probe"
    /\ Unprobed(c) = {}
    /\ run' = [run EXCEPT
          ![c].at = "truncate", ![c].previous = Absent,
          ![c].body = IF run[c].manifestOnly \/ owner = "unreachable" THEN Missing ELSE owner,
          ![c].events = NewStateChangeEvents(run[c].previous, Observed(run[c].observed))]
    /\ UNCHANGED <<worldVars, fileVars, interruptions, doubtful>>

(* The run of c, with `mine` for its record, after a write to the status file:
   no other run that is under way has read this file. *)
Overtaking(c, mine) ==
    [d \in Collectors |-> IF d = c THEN mine
                          ELSE IF run[d] = Idle THEN Idle
                          ELSE [run[d] EXCEPT !.overtaken = TRUE]]

(* Set-Content empties the file before it writes. *)
TruncateStatus(c) ==
    /\ run[c].at = "truncate"
    /\ statusFile' = Torn
    /\ run' = Overtaking(c, [run[c] EXCEPT !.at = "write"])
    /\ UNCHANGED <<worldVars, topology, journal, interruptions, doubtful>>

(* The journal knows nothing yet of what the run found changed; and if another
   status came in between, the run compared with the wrong one. *)
Untold(c) == IF run[c].overtaken THEN Subjects ELSE doubtful \cup ToldBy(run[c].events)

(* What the run needs no more is dropped from its record: all events, if it is
   not to journal. *)
Written(r, noJournal) == [r EXCEPT !.at = "topology", !.age = 0, !.body = Missing,
                                   !.events = IF noJournal THEN {} ELSE @]

(* Mutant: the status bears the time at which it is written. *)
WriteStatusNow(c) ==
    /\ run[c].at = "write"
    /\ statusFile' = [kind |-> "status", subjects |-> Observed(run[c].observed),
                      body |-> run[c].body, age |-> 0]
    /\ \E mode \in Modes[c] :
          /\ mode.ManifestOnly = run[c].manifestOnly
          /\ run' = Overtaking(c, Written(run[c], mode.NoJournal))
    /\ doubtful' = Untold(c)
    /\ UNCHANGED <<worldVars, topology, journal, interruptions>>

WriteStatus(c) ==
    /\ run[c].at = "write"
    /\ statusFile' = [kind |-> "status", subjects |-> Observed(run[c].observed),
                      body |-> run[c].body, age |-> run[c].age]
    /\ \E mode \in Modes[c] :
          /\ mode.ManifestOnly = run[c].manifestOnly
          /\ run' = Overtaking(c, Written(run[c], mode.NoJournal))
    /\ doubtful' = Untold(c)
    /\ UNCHANGED <<worldVars, topology, journal, interruptions>>

WriteTopology(c) ==
    /\ run[c].at = "topology"
    /\ topology' = Observed(run[c].observed)
    /\ run' = [run EXCEPT ![c].at = "journal"]
    /\ UNCHANGED <<worldVars, statusFile, journal, interruptions, doubtful>>

Appended(event, observation) ==
    IF event = Initialized
    THEN [baseline |-> observation, told |-> [x \in Subjects |-> "none"]]
    ELSE [journal EXCEPT !.told[event] = observation[event]]

(* Append-JsonLines adds one event at a time.  An event that comes late, after
   another run's status, leaves its subjects in doubt. *)
AppendEvent(c) ==
    /\ run[c].at = "journal"
    /\ \E event \in run[c].events :
          /\ journal' = Appended(event, Observed(run[c].observed))
          /\ doubtful' = IF run[c].overtaken THEN doubtful \cup ToldBy({event})
                         ELSE doubtful \ ToldBy({event})
          /\ run' = [run EXCEPT ![c].events = @ \ {event}]
    /\ UNCHANGED <<worldVars, statusFile, topology, interruptions>>

EndRun(c) ==
    /\ run[c].at = "journal" /\ run[c].events = {}
    /\ run' = [run EXCEPT ![c] = Idle]
    /\ UNCHANGED <<worldVars, fileVars, interruptions, doubtful>>

(* A sharing violation or another error ends the run; the watcher catches it
   and goes on with the next one. *)
Interrupt(c) ==
    /\ run[c] # Idle
    /\ interruptions < MaxInterruptions
    /\ interruptions' = interruptions + 1
    /\ run' = [run EXCEPT ![c] = Idle]
    /\ UNCHANGED <<worldVars, fileVars, doubtful>>

-----------------------------------------------------------------------------
(* build-body-schema-snapshot.ps1 *)

(* The evidence of a driver's organ: its services' states and its capability. *)
OrganStates(d) ==
    IF statusFile.kind = "status"
    THEN {statusFile.subjects[x] : x \in TargetServices[d] \cup {d}} ELSE {}

ConvertStateToHealth(states) ==
    IF "available" \in states THEN "ok"
    ELSE IF "degraded" \in states THEN "warn"
    ELSE IF "unavailable" \in states THEN "error" ELSE "unknown"

ConvertHealthToFreshness(health) ==
    CASE health = "ok" -> "fresh"
      [] health \in {"warn", "error"} -> "stale"
      [] OTHER -> "unknown"

(* Get-InputGateBodyStateForOrgan: a row whose stale_after has passed is not
   projected; the conservative row of a missing read has no such limit. *)
InputGateBodyState ==
    IF statusFile.kind = "status" /\ (statusFile.body = Missing \/ statusFile.age <= FreshFor)
    THEN statusFile.body ELSE "none"

(* What the builder would write now; it keeps nothing, and a status file that
   does not parse stops it. *)
BuildSucceeds == statusFile # Torn

Snapshot == [organs |-> [d \in Drivers |->
                            ConvertHealthToFreshness(ConvertStateToHealth(OrganStates(d)))],
             current_state |-> InputGateBodyState]

-----------------------------------------------------------------------------
(* What is observed, and time *)

ServiceChanges ==
    /\ changes < MaxChanges /\ changes' = changes + 1
    /\ \E s \in Probed, state \in ProbeStates : actual' = [actual EXCEPT ![s] = state]
    /\ UNCHANGED <<owner, held, fileVars, run, interruptions, doubtful>>

OwnerChanges ==
    /\ changes < MaxChanges /\ changes' = changes + 1
    /\ owner' \in SelfStates \cup {"unreachable"}
    /\ held' = [k \in SelfStates |-> IF k = owner' THEN 0 ELSE held[k]]
    /\ UNCHANGED <<actual, fileVars, run, interruptions, doubtful>>

Tick ==
    /\ held' = [k \in SelfStates |-> IF k = owner THEN 0 ELSE Older(held[k])]
    /\ statusFile' = IF statusFile.kind = "status"
                     THEN [statusFile EXCEPT !.age = Older(@)] ELSE statusFile
    /\ run' = [c \in Collectors |->
                  IF run[c].at \in {"idle", "topology", "journal"} THEN run[c]
                  ELSE [run[c] EXCEPT !.age = Older(@)]]
    /\ UNCHANGED <<actual, owner, changes, topology, journal, interruptions, doubtful>>

Init ==
    /\ actual \in [Probed -> ProbeStates]
    /\ owner \in SelfStates \cup {"unreachable"}
    /\ held = [k \in SelfStates |-> IF k = owner THEN 0 ELSE MaxAge]
    /\ statusFile = Absent
    /\ topology = [x \in Subjects |-> "none"]
    /\ journal = [baseline |-> [x \in Subjects |-> "none"],
                   told |-> [x \in Subjects |-> "none"]]
    /\ run = [c \in Collectors |-> Idle]
    /\ changes = 0 /\ interruptions = 0 /\ doubtful = {}

RunStep(c) == \/ Begin(c) \/ Probe(c) \/ ReadInputGateBodyState(c)
              \/ TruncateStatus(c) \/ WriteStatus(c) \/ WriteTopology(c)
              \/ AppendEvent(c) \/ EndRun(c)

Next == \/ \E c \in Collectors : RunStep(c) \/ Interrupt(c)
        \/ ServiceChanges \/ OwnerChanges \/ Tick

Spec == Init /\ [][Next]_vars

(* The watcher repeats its runs; nobody else has to run anything. *)
FairSpec == Spec /\ WF_vars(RunStep(Watcher))

-----------------------------------------------------------------------------
(* What the journal says of a subject: its last event, or else what the status
   of the last status_initialized, known by its digest, had for it. *)
Replay(x) == IF journal.told[x] # "none" THEN journal.told[x] ELSE journal.baseline[x]

(* The journal tells what the status file says of every service and capability,
   except where a run that replaced the status has not told it: because it has
   yet to, was cut short, was not to journal, or had compared with a status that
   another run had replaced.  The journal is only ever given differences, so a
   difference that was made without an event, or an event of a status that is
   gone, would stay wrong until the subject changes again. *)
JournalTellsTheStatus ==
    statusFile.kind = "status" =>
        \A x \in Subjects \ doubtful : Replay(x) = statusFile.subjects[x]

(* A current body state in a snapshot was the owner's within the last FreshFor
   ticks, whichever runs overlapped, however long they took between the read
   and the write, and whichever of them wrote last. *)
ProjectedStateIsRecent ==
    BuildSucceeds /\ Snapshot.current_state \in SelfStates
        => held[Snapshot.current_state] <= FreshFor

(* What an organ's health rests on. *)
Sources(d) == IF d \in StaticDrivers THEN {d} ELSE TargetServices[d]

(* Under a watcher that goes on, the status file and the topology show the
   services and the drivers' files as they are, and a snapshot built from it
   shows an organ as fresh just when something it rests on is available, again
   and again, also after errors and beside other collectors. *)
StatusCatchesUp ==
    []<>(/\ statusFile.kind = "status" /\ topology = statusFile.subjects
         /\ \A s \in Probed : statusFile.subjects[s] = actual[s]
         /\ \A d \in Drivers : Snapshot.organs[d] = "fresh"
               <=> \E s \in Sources(d) : actual[s] = "available")
=============================================================================
