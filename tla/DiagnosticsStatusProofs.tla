----------------------- MODULE DiagnosticsStatusProofs -----------------------
(* Type correctness of the diagnostics stores, the bound on the age of a
   projected body state, and what the journal tells of the status, for any
   number of collectors, services, drivers and ticks. *)
EXTENDS DiagnosticsStatus, TLAPS

(* A conclusion about capabilities is one of the known states. *)
LEMMA CapabilityStateType ==
    ASSUME NEW states \in SUBSET States
    PROVE  CapabilityState(states) \in States
BY DEF CapabilityState, States

(* A complete set of probes yields a state for every subject. *)
LEMMA ObservedType ==
    ASSUME NEW observed \in [Probed -> States]
    PROVE  Observed(observed) \in Observation
<1>1. ASSUME NEW x \in Subjects, x \notin Probed
      PROVE  CapabilityState({observed[s] : s \in TargetServices[x]}) \in States
  <2>1. TargetServices[x] \subseteq Services
    BY <1>1, SubjectsAssumption DEF Subjects, Probed
  <2>2. {observed[s] : s \in TargetServices[x]} \in SUBSET States
    BY <2>1 DEF Probed
  <2> QED BY <2>2, CapabilityStateType
<1> QED BY <1>1 DEF Observed, Observation

(* Time never takes an age past MaxAge, and it keeps ages in order. *)
LEMMA OlderType ==
    ASSUME NEW age \in 0..MaxAge
    PROVE  Older(age) \in 0..MaxAge
BY TimeAssumption DEF Older, MaxAge

LEMMA OlderIsMonotonic ==
    ASSUME NEW a \in 0..MaxAge, NEW b \in 0..MaxAge, a <= b
    PROVE  Older(a) <= Older(b)
BY TimeAssumption DEF Older, MaxAge

LEMMA NewStateChangeEventsType ==
    ASSUME NEW previous, NEW current
    PROVE  NewStateChangeEvents(previous, current) \in SUBSET Event
BY DEF NewStateChangeEvents, Event

(* No step of a run does more to the others than to overtake them. *)
KeepsRuns(c) ==
    /\ run' \in [Collectors -> Run \cup {Idle}]
    /\ \A d \in Collectors \ {c} : run'[d].at = run[d].at
    /\ \A d \in Collectors \ {c} : run[d].at # "idle" =>
          /\ run'[d].observed = run[d].observed /\ run'[d].previous = run[d].previous
          /\ run'[d].events = run[d].events /\ run'[d].age = run[d].age
          /\ run'[d].body = run[d].body
          /\ run[d].overtaken => run'[d].overtaken

LEMMA OvertakingKeeps ==
    ASSUME run \in [Collectors -> Run \cup {Idle}], NEW c \in Collectors, NEW mine \in Run,
           run' = Overtaking(c, mine)
    PROVE  /\ KeepsRuns(c) /\ run'[c] = mine
           /\ \A d \in Collectors \ {c} : run[d].at # "idle" => run'[d].overtaken
<1>1. ASSUME NEW d \in Collectors \ {c}, run[d] # Idle
      PROVE  /\ run'[d] \in Run /\ run'[d].at = run[d].at
             /\ run'[d].observed = run[d].observed /\ run'[d].previous = run[d].previous
             /\ run'[d].events = run[d].events /\ run'[d].age = run[d].age
             /\ run'[d].body = run[d].body /\ run'[d].overtaken
  <2>1. run[d] \in Run /\ run'[d] = [run[d] EXCEPT !.overtaken = TRUE]
    BY <1>1 DEF Overtaking
  <2> QED BY <2>1 DEF Run
<1>2. ASSUME NEW d \in Collectors \ {c}, run[d] = Idle
      PROVE  run'[d] = Idle
  BY <1>2 DEF Overtaking
<1>3. run'[c] = mine
  BY DEF Overtaking
<1>4. run' \in [Collectors -> Run \cup {Idle}]
  BY <1>1, <1>2, <1>3 DEF Overtaking
<1> QED BY <1>1, <1>2, <1>3, <1>4 DEF KeepsRuns, Idle

LEMMA ObservedKept ==
    ASSUME NEW c \in Collectors, KeepsRuns(c), run'[c].observed \in [Probed -> States],
           \A d \in Collectors : run[d].at \notin {"idle", "probe"}
              => run[d].observed \in [Probed -> States]
    PROVE  \A d \in Collectors : run'[d].at \notin {"idle", "probe"}
              => run'[d].observed \in [Probed -> States]
BY DEF KeepsRuns

LEMMA WrittenType ==
    ASSUME NEW r \in Run, NEW noJournal
    PROVE  LET after == Written(r, noJournal) IN
           /\ after \in Run /\ after.at = "topology" /\ after.observed = r.observed
           /\ after.overtaken = r.overtaken /\ after.events \subseteq r.events
<1>1. 0 \in 0..MaxAge /\ Missing \in BodyStates
  BY TimeAssumption DEF BodyStates, MaxAge
<1>2. (IF noJournal THEN {} ELSE r.events) \in SUBSET Event
  BY DEF Run
<1> QED BY <1>1, <1>2 DEF Written, Run

-----------------------------------------------------------------------------
(* Each step of a run keeps the types. *)
LEMMA RunStepType ==
    ASSUME DiagnosticsTypeOK, NEW c \in Collectors, RunStep(c)
    PROVE  DiagnosticsTypeOK'
<1> USE DEF DiagnosticsTypeOK, worldVars, fileVars
<1>0. run[c] \in Run \cup {Idle}
  OBVIOUS
<1>1. CASE Begin(c)
  <2>1. PICK mode \in Modes[c] :
          run' = [run EXCEPT ![c] =
              [at |-> "probe", manifestOnly |-> mode.ManifestOnly, age |-> 0, body |-> Missing,
               observed |-> [s \in Probed |-> "unprobed"],
               previous |-> IF statusFile.kind = "status"
                            THEN [kind |-> "status", subjects |-> statusFile.subjects]
                            ELSE Absent,
               events |-> {}, overtaken |-> FALSE]]
    BY <1>1 DEF Begin
  <2>2. mode \in Mode /\ mode.ManifestOnly \in BOOLEAN
    BY WatcherAssumption DEF Mode
  <2>3. (IF statusFile.kind = "status"
         THEN [kind |-> "status", subjects |-> statusFile.subjects] ELSE Absent) \in Previous
    BY DEF Previous, Status, Absent, Torn
  <2>4. run'[c] \in Run
    BY <2>1, <2>2, <2>3, TimeAssumption DEF Run, MaxAge, BodyStates, ProbedStates
  <2>5. run' \in [Collectors -> Run \cup {Idle}]
    BY <2>1, <2>4
  <2>6. \A d \in Collectors : run'[d].at \notin {"idle", "probe"}
            => run'[d].observed \in [Probed -> States]
    BY <2>1
  <2> QED BY <1>1, <2>5, <2>6 DEF Begin
<1>2. CASE Probe(c)
  <2>1. run[c].at = "probe" /\ run[c] \in Run
    BY <1>2, <1>0 DEF Probe, Idle
  <2>2. PICK s \in Probed :
          run' = [run EXCEPT ![c].observed[s] =
                    IF run[c].manifestOnly THEN "unknown" ELSE actual[s]]
    BY <1>2 DEF Probe, Probeable, Unprobed
  <2>3. (IF run[c].manifestOnly THEN "unknown" ELSE actual[s]) \in ProbedStates
    BY DEF ProbedStates, States
  <2>4. [run[c].observed EXCEPT ![s] =
            IF run[c].manifestOnly THEN "unknown" ELSE actual[s]]
            \in [Probed -> ProbedStates]
    BY <2>1, <2>3 DEF Run
  <2>5. run'[c] = [run[c] EXCEPT !.observed =
            [run[c].observed EXCEPT ![s] =
                IF run[c].manifestOnly THEN "unknown" ELSE actual[s]]]
    BY <2>2
  <2>6. run'[c] \in Run /\ run'[c].at = "probe"
    BY <2>1, <2>4, <2>5 DEF Run
  <2>7. run' \in [Collectors -> Run \cup {Idle}]
    BY <2>2, <2>6
  <2>8. \A d \in Collectors : run'[d].at \notin {"idle", "probe"}
            => run'[d].observed \in [Probed -> States]
    BY <2>2, <2>6
  <2> QED BY <1>2, <2>7, <2>8 DEF Probe
<1>3. CASE ReadInputGateBodyState(c)
  <2>1. run[c].at = "probe" /\ run[c] \in Run
    BY <1>3, <1>0 DEF ReadInputGateBodyState, Idle
  <2>2. run[c].observed \in [Probed -> States]
    BY <1>3, <2>1 DEF ReadInputGateBodyState, Unprobed, Run, ProbedStates
  <2> DEFINE body == IF run[c].manifestOnly \/ owner = "unreachable" THEN Missing ELSE owner
             events == NewStateChangeEvents(run[c].previous, Observed(run[c].observed))
  <2>3. body \in BodyStates
    BY DEF BodyStates
  <2>4. events \in SUBSET Event
    BY NewStateChangeEventsType
  <2>5. run' = [run EXCEPT ![c] = [[[[run[c] EXCEPT !.at = "truncate"] EXCEPT !.previous = Absent]
                                      EXCEPT !.body = body] EXCEPT !.events = events]]
    BY <1>3 DEF ReadInputGateBodyState
  <2> HIDE DEF body, events
  <2>6. run'[c] \in Run /\ run'[c].observed = run[c].observed
    BY <2>1, <2>3, <2>4, <2>5 DEF Run, Previous
  <2>7. run' \in [Collectors -> Run \cup {Idle}]
    BY <2>5, <2>6
  <2>8. \A d \in Collectors : run'[d].at \notin {"idle", "probe"}
            => run'[d].observed \in [Probed -> States]
    BY <2>2, <2>5, <2>6
  <2> QED BY <1>3, <2>7, <2>8 DEF ReadInputGateBodyState
<1>4. CASE TruncateStatus(c)
  <2> DEFINE mine == [run[c] EXCEPT !.at = "write"]
  <2>1. run[c].at = "truncate" /\ run[c] \in Run
    BY <1>4, <1>0 DEF TruncateStatus, Idle
  <2>2. mine \in Run /\ mine.observed = run[c].observed
    BY <2>1 DEF Run
  <2>3. run' = Overtaking(c, mine)
    BY <1>4 DEF TruncateStatus
  <2> HIDE DEF mine
  <2>4. KeepsRuns(c) /\ run'[c] = mine
    BY <2>2, <2>3, OvertakingKeeps
  <2>5. run'[c].observed \in [Probed -> States]
    BY <2>1, <2>2, <2>4
  <2>6. run' \in [Collectors -> Run \cup {Idle}]
    BY <2>4 DEF KeepsRuns
  <2>7. \A d \in Collectors : run'[d].at \notin {"idle", "probe"}
            => run'[d].observed \in [Probed -> States]
    BY <2>4, <2>5, ObservedKept
  <2> QED BY <1>4, <2>6, <2>7 DEF TruncateStatus, Torn
<1>5. CASE WriteStatus(c)
  <2>1. run[c].at = "write" /\ run[c] \in Run
    BY <1>5, <1>0 DEF WriteStatus, Idle
  <2>2. Observed(run[c].observed) \in Observation
    BY <2>1, ObservedType
  <2>3. statusFile' \in Status
    BY <1>5, <2>1, <2>2 DEF WriteStatus, Status, Run
  <2>4. PICK noJournal : run' = Overtaking(c, Written(run[c], noJournal))
    BY <1>5 DEF WriteStatus
  <2> DEFINE mine == Written(run[c], noJournal)
  <2>5. mine \in Run /\ mine.observed = run[c].observed
    BY <2>1, WrittenType
  <2> HIDE DEF mine
  <2>6. KeepsRuns(c) /\ run'[c] = mine
    BY <2>4, <2>5, OvertakingKeeps DEF mine
  <2>7. run'[c].observed \in [Probed -> States]
    BY <2>1, <2>5, <2>6
  <2>8. run' \in [Collectors -> Run \cup {Idle}]
    BY <2>6 DEF KeepsRuns
  <2>9. \A d \in Collectors : run'[d].at \notin {"idle", "probe"}
            => run'[d].observed \in [Probed -> States]
    BY <2>6, <2>7, ObservedKept
  <2>10. doubtful' \in SUBSET Subjects
    BY <1>5 DEF WriteStatus, Untold, ToldBy
  <2> QED BY <1>5, <2>3, <2>8, <2>9, <2>10 DEF WriteStatus
<1>6. CASE WriteTopology(c)
  <2>1. run[c].at = "topology" /\ run[c] \in Run
    BY <1>6, <1>0 DEF WriteTopology, Idle
  <2>2. Observed(run[c].observed) \in Observation
    BY <2>1, ObservedType
  <2>3. run'[c] \in Run /\ run'[c].observed = run[c].observed
    BY <1>6, <2>1 DEF WriteTopology, Run
  <2>4. topology' \in [Subjects -> States \cup {"none"}]
    BY <1>6, <2>2 DEF WriteTopology, Observation
  <2> QED BY <1>6, <2>1, <2>3, <2>4 DEF WriteTopology
<1>7. CASE AppendEvent(c)
  <2>1. run[c].at = "journal" /\ run[c] \in Run
    BY <1>7, <1>0 DEF AppendEvent, Idle
  <2>2. Observed(run[c].observed) \in [Subjects -> States]
    BY <2>1, ObservedType DEF Observation
  <2>3. PICK event \in run[c].events :
          /\ journal' = Appended(event, Observed(run[c].observed))
          /\ run' = [run EXCEPT ![c].events = @ \ {event}]
    BY <1>7 DEF AppendEvent
  <2>4. journal' \in Journal
    <3>1. event \in Event
      BY <2>1 DEF Run
    <3>2. CASE event = Initialized
      BY <2>2, <2>3, <3>2 DEF Appended, Journal
    <3>3. CASE event \in Subjects /\ event # Initialized
      <4>1. Observed(run[c].observed)[event] \in States
        BY <2>2, <3>3
      <4>2. journal' = [journal EXCEPT !.told[event] = Observed(run[c].observed)[event]]
        BY <2>3, <3>3 DEF Appended
      <4> QED BY <4>1, <4>2 DEF Journal
    <3> QED BY <3>1, <3>2, <3>3 DEF Event
  <2>5. run[c].events \ {event} \in SUBSET Event
    BY <2>1 DEF Run
  <2>6. run'[c] \in Run /\ run'[c].observed = run[c].observed
    BY <2>1, <2>3, <2>5 DEF Run
  <2>7. doubtful' \in SUBSET Subjects
    BY <1>7 DEF AppendEvent, ToldBy
  <2>8. run' \in [Collectors -> Run \cup {Idle}]
    BY <2>3, <2>6
  <2>9. \A d \in Collectors : run'[d].at \notin {"idle", "probe"}
            => run'[d].observed \in [Probed -> States]
    BY <2>1, <2>3, <2>6
  <2> QED BY <1>7, <2>4, <2>7, <2>8, <2>9 DEF AppendEvent
<1>8. CASE EndRun(c)
  BY <1>8 DEF EndRun, Idle
<1> QED BY <1>1, <1>2, <1>3, <1>4, <1>5, <1>6, <1>7, <1>8 DEF RunStep

LEMMA RunStepKeepsRuns ==
    ASSUME DiagnosticsTypeOK, NEW c \in Collectors, RunStep(c)
    PROVE  KeepsRuns(c)
<1>1. /\ run \in [Collectors -> Run \cup {Idle}] /\ run[c] \in Run \cup {Idle}
      /\ run' \in [Collectors -> Run \cup {Idle}]
  BY RunStepType DEF DiagnosticsTypeOK
<1>2. CASE TruncateStatus(c)
  <2>1. run[c] \in Run
    BY <1>1, <1>2 DEF TruncateStatus, Idle
  <2>2. [run[c] EXCEPT !.at = "write"] \in Run
    BY <2>1 DEF Run
  <2> QED BY <1>1, <1>2, <2>2, OvertakingKeeps DEF TruncateStatus
<1>3. CASE WriteStatus(c)
  <2>1. PICK noJournal : run' = Overtaking(c, Written(run[c], noJournal))
    BY <1>3 DEF WriteStatus
  <2>2. run[c] \in Run
    BY <1>1, <1>3 DEF WriteStatus, Idle
  <2> QED BY <1>1, <2>1, <2>2, WrittenType, OvertakingKeeps
<1>4. CASE ~TruncateStatus(c) /\ ~WriteStatus(c)
  <2>1. \A d \in Collectors \ {c} : run'[d] = run[d]
    BY <1>1, <1>4 DEF RunStep, Begin, Probe, ReadInputGateBodyState, WriteTopology,
                    AppendEvent, EndRun
  <2> QED BY <1>1, <2>1 DEF KeepsRuns
<1> QED BY <1>2, <1>3, <1>4

(* Time keeps the types. *)
LEMMA TickType ==
    ASSUME DiagnosticsTypeOK, Tick
    PROVE  DiagnosticsTypeOK'
<1> USE DEF DiagnosticsTypeOK
<1>1. held' \in [SelfStates -> 0..MaxAge]
  BY OlderType, TimeAssumption DEF Tick, MaxAge
<1>2. statusFile' \in Status \cup {Absent, Torn}
  <2>1. CASE statusFile \in Status
    <3>1. Older(statusFile.age) \in 0..MaxAge
      BY <2>1, OlderType DEF Status
    <3> QED BY <2>1, <3>1 DEF Tick, Status
  <2>2. CASE statusFile \in {Absent, Torn}
    BY <2>2 DEF Tick, Absent, Torn
  <2> QED BY <2>1, <2>2
<1>3. ASSUME NEW c \in Collectors
      PROVE  /\ run'[c] \in Run \cup {Idle}
             /\ run'[c].at = run[c].at
             /\ run[c].at \notin {"idle", "probe"} => run'[c].observed = run[c].observed
  <2>1. CASE run[c].at \in {"idle", "topology", "journal"}
    BY <2>1 DEF Tick
  <2>2. CASE run[c].at \notin {"idle", "topology", "journal"}
    <3>1. run[c] \in Run
      BY <2>2 DEF Idle
    <3>2. Older(run[c].age) \in 0..MaxAge
      BY <3>1, OlderType DEF Run
    <3> QED BY <2>2, <3>1, <3>2 DEF Tick, Run
  <2> QED BY <2>1, <2>2
<1>4. run' \in [Collectors -> Run \cup {Idle}]
  BY <1>3 DEF Tick
<1>5. \A c \in Collectors : run'[c].at \notin {"idle", "probe"}
          => run'[c].observed \in [Probed -> States]
  BY <1>3
<1> QED BY <1>1, <1>2, <1>4, <1>5 DEF Tick

LEMMA TypeInductive ==
    ASSUME DiagnosticsTypeOK, [Next]_vars
    PROVE  DiagnosticsTypeOK'
<1>1. CASE \E c \in Collectors : RunStep(c)
  BY <1>1, RunStepType
<1>2. CASE \E c \in Collectors : Interrupt(c)
  <2>1. PICK c \in Collectors : Interrupt(c)
    BY <1>2
  <2>2. run' \in [Collectors -> Run \cup {Idle}]
    BY <2>1 DEF Interrupt, DiagnosticsTypeOK
  <2>3. \A d \in Collectors : run'[d].at \notin {"idle", "probe"}
            => run'[d].observed \in [Probed -> States]
    BY <2>1 DEF Interrupt, DiagnosticsTypeOK, Idle
  <2>4. interruptions' \in 0..MaxInterruptions
    BY <2>1, BoundsAssumption DEF Interrupt, DiagnosticsTypeOK
  <2> QED BY <2>1, <2>2, <2>3, <2>4 DEF Interrupt, DiagnosticsTypeOK, worldVars, fileVars
<1>3. CASE ServiceChanges
  BY <1>3, BoundsAssumption DEF ServiceChanges, DiagnosticsTypeOK, fileVars
<1>4. CASE OwnerChanges
  BY <1>4, BoundsAssumption, TimeAssumption DEF OwnerChanges, DiagnosticsTypeOK, fileVars, MaxAge
<1>5. CASE Tick
  BY <1>5, TickType
<1>6. CASE UNCHANGED vars
  BY <1>6 DEF vars, DiagnosticsTypeOK
<1> QED BY <1>1, <1>2, <1>3, <1>4, <1>5, <1>6 DEF Next

(* The variables keep their types: in particular a run writes only after all
   its services were probed, however the collectors interleave. *)
THEOREM DiagnosticsTypeCorrect == Spec => []DiagnosticsTypeOK
<1>1. Init => DiagnosticsTypeOK
  <2> SUFFICES ASSUME Init PROVE DiagnosticsTypeOK
    OBVIOUS
  <2>1. held \in [SelfStates -> 0..MaxAge]
    BY TimeAssumption DEF Init, MaxAge
  <2>2. run \in [Collectors -> Run \cup {Idle}] /\ \A c \in Collectors : run[c].at = "idle"
    BY DEF Init, Idle
  <2>3. changes \in 0..MaxChanges /\ interruptions \in 0..MaxInterruptions
    BY BoundsAssumption DEF Init
  <2>4. journal \in Journal
    BY DEF Init, Journal
  <2> QED BY <2>1, <2>2, <2>3, <2>4 DEF Init, DiagnosticsTypeOK
<1>2. DiagnosticsTypeOK /\ [Next]_vars => DiagnosticsTypeOK'
  BY TypeInductive
<1> QED BY <1>1, <1>2, PTL DEF Spec

-----------------------------------------------------------------------------
(* The inductive invariant: a class in the status file, or in a run on its way
   there, was the owner's no longer ago than the age it is stamped with. *)
StatusStamped ==
    statusFile.kind = "status" /\ statusFile.body \in SelfStates
        => held[statusFile.body] <= statusFile.age

RunsStamped ==
    \A c \in Collectors :
        run[c].at \in {"truncate", "write"} /\ run[c].body \in SelfStates
            => held[run[c].body] <= run[c].age

OwnerIsHeld == owner \in SelfStates => held[owner] = 0

StampInv == StatusStamped /\ RunsStamped /\ OwnerIsHeld

LEMMA StampOfRunStep ==
    ASSUME DiagnosticsTypeOK, StampInv, NEW c \in Collectors, RunStep(c)
    PROVE  StampInv'
<1> USE DEF DiagnosticsTypeOK, StampInv, worldVars, fileVars
<1>0. run[c] \in Run \cup {Idle} /\ OwnerIsHeld'
  BY DEF OwnerIsHeld, RunStep, Begin, Probe, ReadInputGateBodyState,
         TruncateStatus, WriteStatus, WriteTopology, AppendEvent, EndRun
<1>1. CASE Begin(c)
  BY <1>0, <1>1 DEF Begin, StatusStamped, RunsStamped
<1>2. CASE Probe(c)
  <2>1. run'[c].at = "probe" /\ \A d \in Collectors \ {c} : run'[d] = run[d]
    BY <1>0, <1>2 DEF Probe, Run, Idle
  <2> QED BY <1>0, <1>2, <2>1 DEF Probe, StatusStamped, RunsStamped
<1>3. CASE ReadInputGateBodyState(c)
  <2>1. run[c] \in Run
    BY <1>0, <1>3 DEF ReadInputGateBodyState, Idle
  <2>2. /\ run'[c].age = run[c].age
        /\ run'[c].body \in SelfStates => run'[c].body = owner
        /\ \A d \in Collectors \ {c} : run'[d] = run[d]
    BY <2>1, <1>3, SelfStatesAssumption DEF ReadInputGateBodyState, Run, Missing
  <2>3. run[c].age \in 0..MaxAge
    BY <2>1 DEF Run
  <2>4. run'[c].body \in SelfStates => held'[run'[c].body] <= run'[c].age
    BY <2>2, <2>3, <1>3, TimeAssumption DEF ReadInputGateBodyState, OwnerIsHeld, MaxAge
  <2>5. RunsStamped'
    BY <2>2, <2>4, <1>3 DEF ReadInputGateBodyState, RunsStamped
  <2> QED BY <1>0, <1>3, <2>5 DEF ReadInputGateBodyState, StatusStamped
<1>4. CASE TruncateStatus(c)
  <2>1. run[c] \in Run /\ run[c].at = "truncate"
    BY <1>0, <1>4 DEF TruncateStatus, Idle
  <2>2. run'[c].age = run[c].age /\ run'[c].body = run[c].body
    BY <2>1, <1>4 DEF TruncateStatus, Overtaking, Run
  <2>3. KeepsRuns(c)
    BY RunStepKeepsRuns
  <2>4. ASSUME NEW d \in Collectors, run'[d].at \in {"truncate", "write"},
               run'[d].body \in SelfStates
        PROVE  run[d].at \in {"truncate", "write"} /\ run'[d].body = run[d].body
               /\ run'[d].age = run[d].age
    BY <2>1, <2>2, <2>3, <2>4 DEF KeepsRuns
  <2>5. RunsStamped'
    BY <2>4, <1>4 DEF TruncateStatus, RunsStamped
  <2> QED BY <1>0, <1>4, <2>5 DEF TruncateStatus, StatusStamped, Torn
<1>5. CASE WriteStatus(c)
  <2>1. run[c] \in Run /\ run[c].at = "write"
    BY <1>0, <1>5 DEF WriteStatus, Idle
  <2>2. run'[c].at = "topology"
    <3>1. PICK noJournal : run' = Overtaking(c, Written(run[c], noJournal))
      BY <1>5 DEF WriteStatus
    <3> QED BY <2>1, <3>1, WrittenType DEF Overtaking
  <2>3. KeepsRuns(c)
    BY RunStepKeepsRuns
  <2>4. ASSUME NEW d \in Collectors, run'[d].at \in {"truncate", "write"},
               run'[d].body \in SelfStates
        PROVE  run[d].at \in {"truncate", "write"} /\ run'[d].body = run[d].body
               /\ run'[d].age = run[d].age
    BY <2>2, <2>3, <2>4 DEF KeepsRuns
  <2>5. RunsStamped'
    BY <2>4, <1>5 DEF WriteStatus, RunsStamped
  <2>6. StatusStamped'
    BY <2>1, <1>5 DEF WriteStatus, StatusStamped, RunsStamped
  <2> QED BY <1>0, <2>5, <2>6
<1>6. CASE WriteTopology(c) \/ AppendEvent(c)
  <2>1. run[c] \in Run /\ run \in [Collectors -> Run \cup {Idle}]
    BY <1>0, <1>6 DEF WriteTopology, AppendEvent, Idle
  <2>2. /\ run'[c].at = "journal"
        /\ \A d \in Collectors \ {c} : run'[d] = run[d]
    <3>1. CASE WriteTopology(c)
      BY <2>1, <3>1 DEF WriteTopology, Run
    <3>2. CASE AppendEvent(c)
      <4>1. PICK event \in run[c].events : run' = [run EXCEPT ![c].events = @ \ {event}]
        BY <3>2 DEF AppendEvent
      <4> QED BY <2>1, <3>2, <4>1 DEF AppendEvent, Run
    <3> QED BY <1>6, <3>1, <3>2
  <2> QED BY <1>0, <1>6, <2>2 DEF WriteTopology, AppendEvent, StatusStamped, RunsStamped
<1>7. CASE EndRun(c)
  BY <1>0, <1>7 DEF EndRun, Idle, StatusStamped, RunsStamped
<1> QED BY <1>1, <1>2, <1>3, <1>4, <1>5, <1>6, <1>7 DEF RunStep

(* Time makes a stamp and what it stamps older alike. *)
LEMMA StampOfTick ==
    ASSUME DiagnosticsTypeOK, StampInv, Tick
    PROVE  StampInv'
<1> USE DEF DiagnosticsTypeOK, StampInv
<1>1. ASSUME NEW k \in SelfStates, NEW age \in 0..MaxAge, held[k] <= age
      PROVE  held'[k] <= Older(age)
  <2>1. held[k] \in 0..MaxAge /\ Older(held[k]) <= Older(age)
    BY <1>1, OlderIsMonotonic
  <2>2. Older(age) \in 0..MaxAge
    BY OlderType
  <2>3. CASE k = owner
    BY <2>3, <2>2, TimeAssumption DEF Tick, MaxAge
  <2>4. CASE k # owner
    BY <2>4, <2>1 DEF Tick
  <2> QED BY <2>3, <2>4
<1>2. OwnerIsHeld'
  BY DEF Tick, OwnerIsHeld
<1>3. StatusStamped'
  <2>1. CASE statusFile \in Status
    <3>1. /\ statusFile'.body = statusFile.body
          /\ statusFile'.age = Older(statusFile.age)
          /\ statusFile.kind = "status" /\ statusFile.age \in 0..MaxAge
      BY <2>1 DEF Tick, Status
    <3> QED BY <3>1, <1>1 DEF StatusStamped
  <2>2. CASE statusFile \in {Absent, Torn}
    BY <2>2 DEF Tick, StatusStamped, Absent, Torn
  <2> QED BY <2>1, <2>2
<1>4. ASSUME NEW c \in Collectors, run'[c].at \in {"truncate", "write"},
             run'[c].body \in SelfStates
      PROVE  held'[run'[c].body] <= run'[c].age
  <2>1. run[c] \in Run
    BY <1>4 DEF Tick, Idle
  <2>2. /\ run[c].at \in {"truncate", "write"} /\ run'[c].body = run[c].body
        /\ run'[c].age = Older(run[c].age)
    BY <1>4, <2>1 DEF Tick, Run
  <2>3. run[c].age \in 0..MaxAge
    BY <2>1 DEF Run
  <2> QED BY <1>1, <1>4, <2>2, <2>3 DEF RunsStamped
<1>5. RunsStamped'
  BY <1>4 DEF RunsStamped
<1> QED BY <1>2, <1>3, <1>5

LEMMA StampInductive ==
    ASSUME DiagnosticsTypeOK, StampInv, [Next]_vars
    PROVE  StampInv'
<1>1. CASE \E c \in Collectors : RunStep(c)
  BY <1>1, StampOfRunStep
<1>2. CASE \E c \in Collectors : Interrupt(c)
  <2>1. PICK c \in Collectors : Interrupt(c)
    BY <1>2
  <2>2. run'[c] = Idle /\ \A d \in Collectors \ {c} : run'[d] = run[d]
    BY <2>1 DEF Interrupt, DiagnosticsTypeOK
  <2>3. RunsStamped'
    BY <2>1, <2>2 DEF Interrupt, RunsStamped, Idle, StampInv, worldVars
  <2> QED BY <2>1, <2>3 DEF Interrupt, StampInv, StatusStamped, OwnerIsHeld, worldVars, fileVars
<1>3. CASE ServiceChanges
  BY <1>3 DEF ServiceChanges, StampInv, StatusStamped, RunsStamped, OwnerIsHeld, fileVars
<1>4. CASE OwnerChanges
  <2>1. \A k \in SelfStates : held'[k] \in {0, held[k]}
    BY <1>4 DEF OwnerChanges
  <2>2. /\ OwnerIsHeld' /\ statusFile' = statusFile /\ run' = run
    BY <1>4 DEF OwnerChanges, OwnerIsHeld, fileVars
  <2>3. StatusStamped'
    <3>1. CASE statusFile \in Status
      <4>1. statusFile.age \in 0..MaxAge
        BY <3>1 DEF Status
      <4> QED BY <2>1, <2>2, <4>1, TimeAssumption DEF StampInv, StatusStamped, MaxAge
    <3>2. CASE statusFile \notin Status
      BY <3>2, <2>2 DEF StatusStamped, DiagnosticsTypeOK, Absent, Torn
    <3> QED BY <3>1, <3>2
  <2>4. ASSUME NEW c \in Collectors, run[c].at \in {"truncate", "write"},
               run[c].body \in SelfStates
        PROVE  held'[run[c].body] <= run[c].age
    <3>1. run[c] \in Run
      BY <2>4 DEF DiagnosticsTypeOK, Idle
    <3>2. run[c].age \in 0..MaxAge
      BY <3>1 DEF Run
    <3> QED BY <2>1, <2>4, <3>2, TimeAssumption DEF StampInv, RunsStamped, MaxAge
  <2> QED BY <2>2, <2>3, <2>4 DEF StampInv, RunsStamped
<1>5. CASE Tick
  BY <1>5, StampOfTick
<1>6. CASE UNCHANGED vars
  BY <1>6 DEF vars, StampInv, StatusStamped, RunsStamped, OwnerIsHeld
<1> QED BY <1>1, <1>2, <1>3, <1>4, <1>5, <1>6 DEF Next

(* A body state that the body schema shows as current was the owner's within
   the last FreshFor ticks, for any collectors and any interleaving: the
   status is stamped before the owner is read, never after. *)
THEOREM ProjectionIsRecent == Spec => []ProjectedStateIsRecent
<1>1. Init => StampInv
  BY DEF Init, StampInv, StatusStamped, RunsStamped, OwnerIsHeld, Absent, Idle
<1>2. DiagnosticsTypeOK /\ StampInv /\ [Next]_vars => StampInv'
  BY StampInductive
<1>3. DiagnosticsTypeOK /\ StampInv => ProjectedStateIsRecent
  <2> SUFFICES ASSUME DiagnosticsTypeOK, StampInv, Snapshot.current_state \in SelfStates
               PROVE  held[Snapshot.current_state] <= FreshFor
    BY DEF ProjectedStateIsRecent
  <2>1. Snapshot.current_state = InputGateBodyState
    BY DEF Snapshot
  <2>2. /\ statusFile.kind = "status" /\ statusFile.age <= FreshFor
        /\ InputGateBodyState = statusFile.body
    BY <2>1, SelfStatesAssumption DEF InputGateBodyState, Missing
  <2>3. statusFile \in Status
    BY <2>2 DEF DiagnosticsTypeOK, Absent, Torn
  <2>4. statusFile.age \in Int /\ held[statusFile.body] \in Int
    BY <2>1, <2>2, <2>3 DEF Status, DiagnosticsTypeOK
  <2> QED BY <2>1, <2>2, <2>4, TimeAssumption DEF StampInv, StatusStamped
<1> QED BY <1>1, <1>2, <1>3, DiagnosticsTypeCorrect, PTL DEF Spec

-----------------------------------------------------------------------------
(* The inductive invariant of the journal.  A run that no other has overtaken
   knows the status file: what it found the same there is the same there, and
   once it has emptied the file the journal tells those subjects for it.  At
   most one such run is past its first write. *)
Past == {"write", "topology", "journal"}

Fresh(c) == run[c].at # "idle" /\ ~run[c].overtaken

UpToDate(c) ==
    /\ run[c].at = "probe" /\ run[c].previous.kind = "status" =>
           /\ statusFile.kind = "status"
           /\ statusFile.subjects = run[c].previous.subjects
    /\ run[c].at = "truncate" =>
           \A x \in Subjects \ ToldBy(run[c].events) :
               /\ statusFile.kind = "status"
               /\ statusFile.subjects[x] = Observed(run[c].observed)[x]
    /\ run[c].at = "write" =>
           \A x \in Subjects \ (doubtful \cup ToldBy(run[c].events)) :
               Replay(x) = Observed(run[c].observed)[x]
    /\ run[c].at \in {"topology", "journal"} =>
           /\ statusFile.kind = "status"
           /\ statusFile.subjects = Observed(run[c].observed)

OneLatest ==
    \A c, d \in Collectors :
        Fresh(c) /\ run[c].at \in Past /\ Fresh(d) /\ run[d].at \in Past => c = d

JournalInv ==
    /\ JournalTellsTheStatus
    /\ OneLatest
    /\ \A c \in Collectors : Fresh(c) => UpToDate(c)

(* An event tells what the run observed of its subjects and nothing of others. *)
LEMMA AppendedReplay ==
    ASSUME DiagnosticsTypeOK, NEW event \in Event, NEW observed \in [Probed -> States],
           journal' = Appended(event, Observed(observed)), NEW x \in Subjects
    PROVE  /\ x \in ToldBy({event}) => Replay(x)' = Observed(observed)[x]
           /\ x \notin ToldBy({event}) => Replay(x)' = Replay(x)
<1>1. Observed(observed)[x] \in States
  BY ObservedType DEF Observation
<1>2. Observed(observed)[x] # "none"
  BY <1>1, ProbeAssumption DEF States
<1>3. CASE event = Initialized
  BY <1>3 DEF Appended, Replay, ToldBy
<1>4. CASE event \in Subjects /\ event # Initialized
  <2>1. journal \in Journal
    BY DEF DiagnosticsTypeOK
  <2>2. /\ journal'.baseline = journal.baseline
        /\ journal'.told[event] = Observed(observed)[event]
        /\ \A y \in Subjects \ {event} : journal'.told[y] = journal.told[y]
    BY <1>4, <2>1 DEF Appended, Journal
  <2>3. x \in ToldBy({event}) <=> x = event
    BY <1>4 DEF ToldBy
  <2>4. CASE x = event
    BY <1>2, <2>2, <2>3, <2>4 DEF Replay
  <2>5. CASE x # event
    BY <2>2, <2>3, <2>5 DEF Replay
  <2> QED BY <2>4, <2>5
<1> QED BY <1>3, <1>4 DEF Event

(* An event is made for every subject of which the previous status says
   something else. *)
LEMMA EventsTellDifferences ==
    ASSUME NEW previous, NEW current, NEW x \in Subjects,
           x \notin ToldBy(NewStateChangeEvents(previous, current))
    PROVE  previous.kind = "status" /\ previous.subjects[x] = current[x]
<1>1. CASE previous.kind # "status"
  BY <1>1 DEF NewStateChangeEvents, ToldBy
<1>2. CASE previous.kind = "status"
  BY <1>2 DEF NewStateChangeEvents, ToldBy
<1> QED BY <1>1, <1>2

(* While the status file and the journal stay, a step that leaves a run alone
   leaves what it knows alone. *)
LEMMA UpToDateKept ==
    ASSUME NEW c \in Collectors, UpToDate(c), run'[c] = run[c],
           UNCHANGED <<statusFile, journal, doubtful>>
    PROVE  UpToDate(c)'
BY DEF UpToDate, Replay

(* A step that only advances a run before its first write. *)
LEMMA JournalOfEarlyStep ==
    ASSUME DiagnosticsTypeOK, JournalInv, NEW c \in Collectors,
           Begin(c) \/ Probe(c) \/ ReadInputGateBodyState(c)
    PROVE  JournalInv'
<1>1. run[c] \in Run \cup {Idle} /\ run \in [Collectors -> Run \cup {Idle}]
  BY DEF DiagnosticsTypeOK
<1>2. UNCHANGED <<statusFile, journal, doubtful>>
  BY DEF Begin, Probe, ReadInputGateBodyState, fileVars
<1>3. \A d \in Collectors \ {c} : run'[d] = run[d]
  BY <1>1 DEF Begin, Probe, ReadInputGateBodyState
<1>4. JournalTellsTheStatus'
  BY <1>2 DEF JournalInv, JournalTellsTheStatus, Replay
<1>5. ASSUME run'[c].at \notin Past, Fresh(c)' => UpToDate(c)'
      PROVE  JournalInv'
  <2>1. OneLatest'
    BY <1>3, <1>5 DEF JournalInv, OneLatest, Fresh
  <2>2. ASSUME NEW d \in Collectors, Fresh(d)' PROVE UpToDate(d)'
    <3>1. CASE d = c
      BY <1>5, <2>2, <3>1
    <3>2. CASE d # c
      BY <1>2, <1>3, <2>2, <3>2, UpToDateKept DEF JournalInv, Fresh
    <3> QED BY <3>1, <3>2
  <2> QED BY <1>4, <2>1, <2>2 DEF JournalInv
<1>6. CASE Begin(c)
  <2>1. /\ run'[c].at = "probe"
        /\ run'[c].previous = IF statusFile.kind = "status"
                              THEN [kind |-> "status", subjects |-> statusFile.subjects]
                              ELSE Absent
    BY <1>1, <1>6 DEF Begin
  <2> QED BY <1>2, <1>5, <2>1 DEF UpToDate, Past, Absent
<1>7. CASE Probe(c)
  <2>1. run[c].at = "probe" /\ run[c] \in Run
    BY <1>1, <1>7 DEF Probe, Idle
  <2>2. PICK s \in Probed :
          run' = [run EXCEPT ![c].observed[s] =
                    IF run[c].manifestOnly THEN "unknown" ELSE actual[s]]
    BY <1>7 DEF Probe, Probeable, Unprobed
  <2>3. /\ run'[c].at = "probe" /\ run'[c].previous = run[c].previous
        /\ run'[c].overtaken = run[c].overtaken
    BY <1>1, <2>1, <2>2 DEF Run
  <2> QED BY <1>2, <1>5, <2>1, <2>3 DEF JournalInv, Fresh, UpToDate, Past
<1>8. CASE ReadInputGateBodyState(c)
  <2>1. run[c].at = "probe" /\ run[c] \in Run
    BY <1>1, <1>8 DEF ReadInputGateBodyState, Idle
  <2> DEFINE body == IF run[c].manifestOnly \/ owner = "unreachable" THEN Missing ELSE owner
             events == NewStateChangeEvents(run[c].previous, Observed(run[c].observed))
  <2>2. run' = [run EXCEPT ![c] = [[[[run[c] EXCEPT !.at = "truncate"] EXCEPT !.previous = Absent]
                                      EXCEPT !.body = body] EXCEPT !.events = events]]
    BY <1>8 DEF ReadInputGateBodyState
  <2>3. /\ run'[c].at = "truncate" /\ run'[c].observed = run[c].observed
        /\ run'[c].events = events /\ run'[c].overtaken = run[c].overtaken
    <3> HIDE DEF body, events
    <3> QED BY <1>1, <2>1, <2>2 DEF Run
  <2>4. ASSUME Fresh(c), NEW x \in Subjects, x \notin ToldBy(events)
        PROVE  /\ statusFile.kind = "status"
               /\ statusFile.subjects[x] = Observed(run[c].observed)[x]
    <3>1. /\ run[c].previous.kind = "status"
          /\ run[c].previous.subjects[x] = Observed(run[c].observed)[x]
      BY <2>4, EventsTellDifferences
    <3>2. UpToDate(c)
      BY <2>4 DEF JournalInv
    <3> QED BY <2>1, <3>1, <3>2 DEF UpToDate
  <2>5. Fresh(c)' => UpToDate(c)'
    <3> HIDE DEF events
    <3> SUFFICES ASSUME Fresh(c)' PROVE UpToDate(c)'
      OBVIOUS
    <3>1. Fresh(c)
      BY <2>1, <2>3 DEF Fresh
    <3> QED BY <1>2, <2>3, <2>4, <3>1 DEF UpToDate
  <2> QED BY <1>5, <2>3, <2>5 DEF Past
<1> QED BY <1>6, <1>7, <1>8

(* The write of a status: what was compared with another one, or has yet to be
   told, is in doubt. *)
LEMMA JournalOfStatusStep ==
    ASSUME DiagnosticsTypeOK, JournalInv, NEW c \in Collectors,
           TruncateStatus(c) \/ WriteStatus(c)
    PROVE  JournalInv'
<1>1. run[c] \in Run /\ run \in [Collectors -> Run \cup {Idle}]
  BY DEF DiagnosticsTypeOK, TruncateStatus, WriteStatus, Idle
<1>2. ASSUME NEW mine \in Run, run' = Overtaking(c, mine)
      PROVE  /\ \A d \in Collectors \ {c} : ~Fresh(d)'
             /\ run'[c] = mine /\ OneLatest'
  <2>1. /\ KeepsRuns(c) /\ run'[c] = mine
        /\ \A d \in Collectors \ {c} : run[d].at # "idle" => run'[d].overtaken
    BY <1>1, <1>2, OvertakingKeeps
  <2>2. \A d \in Collectors \ {c} : ~Fresh(d)'
    BY <2>1 DEF Fresh, KeepsRuns
  <2> QED BY <2>1, <2>2 DEF OneLatest
<1>3. CASE TruncateStatus(c)
  <2> DEFINE mine == [run[c] EXCEPT !.at = "write"]
  <2>1. run[c].at = "truncate" /\ run' = Overtaking(c, mine) /\ UNCHANGED <<journal, doubtful>>
        /\ statusFile' = Torn
    BY <1>3 DEF TruncateStatus
  <2>2. /\ mine \in Run /\ mine.at = "write" /\ mine.observed = run[c].observed
        /\ mine.events = run[c].events /\ mine.overtaken = run[c].overtaken
    BY <1>1 DEF Run
  <2> HIDE DEF mine
  <2>3. /\ run'[c] = mine /\ OneLatest' /\ \A d \in Collectors \ {c} : ~Fresh(d)'
    BY <1>2, <2>1, <2>2
  <2>4. JournalTellsTheStatus'
    BY <2>1 DEF JournalTellsTheStatus, Torn
  <2>5. ASSUME Fresh(c)', NEW x \in Subjects, x \notin doubtful \cup ToldBy(run[c].events)
        PROVE  Replay(x) = Observed(run[c].observed)[x]
    <3>1. UpToDate(c)
      BY <2>1, <2>2, <2>3, <2>5 DEF JournalInv, Fresh
    <3>2. /\ statusFile.kind = "status"
          /\ statusFile.subjects[x] = Observed(run[c].observed)[x]
      BY <2>1, <2>5, <3>1 DEF UpToDate
    <3> QED BY <2>5, <3>2 DEF JournalInv, JournalTellsTheStatus
  <2>6. Fresh(c)' => UpToDate(c)'
    BY <2>1, <2>2, <2>3, <2>5 DEF UpToDate, Replay
  <2> QED BY <2>3, <2>4, <2>6 DEF JournalInv
<1>4. CASE WriteStatus(c)
  <2>1. PICK noJournal : run' = Overtaking(c, Written(run[c], noJournal))
    BY <1>4 DEF WriteStatus
  <2> DEFINE mine == Written(run[c], noJournal)
  <2>2. /\ run[c].at = "write" /\ UNCHANGED journal /\ doubtful' = Untold(c)
        /\ statusFile'.kind = "status" /\ statusFile'.subjects = Observed(run[c].observed)
    BY <1>4 DEF WriteStatus
  <2>3. /\ mine \in Run /\ mine.at = "topology" /\ mine.observed = run[c].observed
        /\ mine.overtaken = run[c].overtaken
    BY <1>1, WrittenType
  <2> HIDE DEF mine
  <2>4. /\ run'[c] = mine /\ OneLatest' /\ \A d \in Collectors \ {c} : ~Fresh(d)'
    BY <1>2, <2>1, <2>3 DEF mine
  <2>5. ASSUME NEW x \in Subjects \ doubtful'
        PROVE  Replay(x) = Observed(run[c].observed)[x]
    <3>1. ~run[c].overtaken /\ x \notin doubtful \cup ToldBy(run[c].events)
      BY <2>2, <2>5 DEF Untold
    <3>2. UpToDate(c)
      BY <2>2, <3>1 DEF JournalInv, Fresh
    <3> QED BY <2>2, <3>1, <3>2 DEF UpToDate
  <2>6. JournalTellsTheStatus'
    BY <2>2, <2>5 DEF JournalTellsTheStatus, Replay
  <2>7. Fresh(c)' => UpToDate(c)'
    BY <2>2, <2>3, <2>4 DEF UpToDate
  <2> QED BY <2>4, <2>6, <2>7 DEF JournalInv
<1> QED BY <1>3, <1>4

(* An appended event settles its subjects, unless the run was overtaken. *)
LEMMA JournalOfAppend ==
    ASSUME DiagnosticsTypeOK, JournalInv, NEW c \in Collectors, AppendEvent(c)
    PROVE  JournalInv'
<1>1. /\ run[c] \in Run /\ run[c].at = "journal" /\ run \in [Collectors -> Run \cup {Idle}]
      /\ run[c].observed \in [Probed -> States]
  BY DEF DiagnosticsTypeOK, AppendEvent, Idle
<1>2. PICK event \in run[c].events :
        /\ journal' = Appended(event, Observed(run[c].observed))
        /\ doubtful' = IF run[c].overtaken THEN doubtful \cup ToldBy({event})
                       ELSE doubtful \ ToldBy({event})
        /\ run' = [run EXCEPT ![c].events = @ \ {event}]
  BY DEF AppendEvent
<1>3. event \in Event
  BY <1>1 DEF Run
<1>4. /\ run'[c].at = "journal" /\ run'[c].observed = run[c].observed
      /\ run'[c].overtaken = run[c].overtaken
      /\ \A d \in Collectors \ {c} : run'[d] = run[d]
      /\ UNCHANGED statusFile
  BY <1>1, <1>2 DEF AppendEvent, Run
<1>5. ASSUME NEW x \in Subjects
      PROVE  /\ x \in ToldBy({event}) => Replay(x)' = Observed(run[c].observed)[x]
             /\ x \notin ToldBy({event}) => Replay(x)' = Replay(x)
  BY <1>1, <1>2, <1>3, AppendedReplay
<1>6. \A d \in Collectors : Fresh(d)' <=> Fresh(d)
  BY <1>1, <1>4 DEF Fresh
<1>7. OneLatest'
  <2>1. \A d \in Collectors : run'[d].at = run[d].at
    BY <1>1, <1>4
  <2> QED BY <1>6, <2>1 DEF JournalInv, OneLatest
<1>8. CASE run[c].overtaken
  <2>1. ASSUME NEW x \in Subjects \ doubtful'
        PROVE  x \notin doubtful /\ Replay(x)' = Replay(x)
    BY <1>2, <1>5, <1>8
  <2>2. JournalTellsTheStatus'
    BY <1>4, <2>1 DEF JournalInv, JournalTellsTheStatus
  <2>3. ASSUME NEW d \in Collectors, Fresh(d)' PROVE UpToDate(d)'
    <3>1. d # c /\ UpToDate(d) /\ run'[d] = run[d]
      BY <1>4, <1>6, <1>8, <2>3 DEF JournalInv, Fresh
    <3> QED BY <1>4, <2>1, <3>1 DEF UpToDate
  <2> QED BY <1>7, <2>2, <2>3 DEF JournalInv
<1>9. CASE ~run[c].overtaken
  <2>1. Fresh(c) /\ statusFile.kind = "status"
        /\ statusFile.subjects = Observed(run[c].observed)
    BY <1>1, <1>9 DEF JournalInv, Fresh, UpToDate
  <2>2. JournalTellsTheStatus'
    <3>1. ASSUME NEW x \in Subjects \ doubtful'
          PROVE  Replay(x)' = statusFile.subjects[x]
      <4>1. CASE x \in ToldBy({event})
        BY <1>5, <2>1, <4>1
      <4>2. CASE x \notin ToldBy({event})
        BY <1>2, <1>5, <1>9, <2>1, <3>1, <4>2 DEF JournalInv, JournalTellsTheStatus
      <4> QED BY <4>1, <4>2
    <3> QED BY <1>4, <3>1 DEF JournalTellsTheStatus
  <2>3. ASSUME NEW d \in Collectors, Fresh(d)' PROVE UpToDate(d)'
    <3>1. CASE d = c
      BY <1>4, <2>1, <3>1 DEF UpToDate
    <3>2. CASE d # c
      <4>1. run[d].at \notin Past
        BY <1>1, <1>6, <2>1, <2>3, <3>2 DEF JournalInv, OneLatest, Past
      <4>2. UpToDate(d) /\ run'[d] = run[d]
        BY <1>4, <1>6, <2>3, <3>2 DEF JournalInv
      <4> QED BY <1>4, <4>1, <4>2 DEF UpToDate, Past
    <3> QED BY <3>1, <3>2
  <2> QED BY <1>7, <2>2, <2>3 DEF JournalInv
<1> QED BY <1>8, <1>9

(* A run that ends, at its end or before, takes its knowledge with it. *)
LEMMA JournalOfEnd ==
    ASSUME DiagnosticsTypeOK, JournalInv, NEW c \in Collectors,
           WriteTopology(c) \/ EndRun(c) \/ Interrupt(c)
    PROVE  JournalInv'
<1>1. run[c] \in Run \cup {Idle} /\ run \in [Collectors -> Run \cup {Idle}]
  BY DEF DiagnosticsTypeOK
<1>2. /\ UNCHANGED <<statusFile, journal, doubtful>>
      /\ \A d \in Collectors \ {c} : run'[d] = run[d]
  BY <1>1 DEF WriteTopology, EndRun, Interrupt, fileVars
<1>3. JournalTellsTheStatus'
  BY <1>2 DEF JournalInv, JournalTellsTheStatus, Replay
<1>4. Fresh(c)' => /\ Fresh(c) /\ run[c].at = "topology" /\ run'[c].at = "journal"
                   /\ run'[c].observed = run[c].observed
  <2>1. CASE WriteTopology(c)
    BY <1>1, <2>1 DEF WriteTopology, Fresh, Run, Idle
  <2>2. CASE EndRun(c) \/ Interrupt(c)
    BY <1>1, <2>2 DEF EndRun, Interrupt, Fresh, Idle
  <2> QED BY <2>1, <2>2
<1>5. ASSUME NEW d \in Collectors, Fresh(d)'
      PROVE  Fresh(d) /\ (run'[d].at \in Past <=> run[d].at \in Past)
  BY <1>2, <1>4, <1>5 DEF Fresh, Past
<1>6. OneLatest'
  BY <1>5 DEF JournalInv, OneLatest
<1>7. ASSUME NEW d \in Collectors, Fresh(d)' PROVE UpToDate(d)'
  <2>1. CASE d = c
    BY <1>2, <1>4, <1>7, <2>1 DEF JournalInv, UpToDate
  <2>2. CASE d # c
    BY <1>2, <1>5, <1>7, <2>2, UpToDateKept DEF JournalInv
  <2> QED BY <2>1, <2>2
<1> QED BY <1>3, <1>6, <1>7 DEF JournalInv

(* Time changes ages only. *)
LEMMA JournalOfTick ==
    ASSUME DiagnosticsTypeOK, JournalInv, Tick
    PROVE  JournalInv'
<1>1. /\ statusFile'.kind = statusFile.kind
      /\ statusFile.kind = "status" => statusFile'.subjects = statusFile.subjects
  <2>1. CASE statusFile \in Status
    BY <2>1 DEF Tick, Status
  <2>2. CASE statusFile \in {Absent, Torn}
    BY <2>2 DEF Tick, Absent, Torn
  <2> QED BY <2>1, <2>2 DEF DiagnosticsTypeOK
<1>2. ASSUME NEW c \in Collectors
      PROVE  /\ run'[c].at = run[c].at
             /\ run[c].at # "idle" => /\ run'[c].observed = run[c].observed
                                      /\ run'[c].previous = run[c].previous
                                      /\ run'[c].events = run[c].events
                                      /\ run'[c].overtaken = run[c].overtaken
  <2>1. CASE run[c].at \in {"idle", "topology", "journal"}
    BY <2>1 DEF Tick
  <2>2. CASE run[c].at \notin {"idle", "topology", "journal"}
    <3>1. run[c] \in Run
      BY <2>2 DEF DiagnosticsTypeOK, Idle
    <3> QED BY <2>2, <3>1 DEF Tick, Run
  <2> QED BY <2>1, <2>2
<1>3. UNCHANGED <<journal, doubtful>>
  BY DEF Tick
<1>4. \A c \in Collectors : Fresh(c)' <=> Fresh(c)
  BY <1>2 DEF Fresh
<1>5. JournalTellsTheStatus'
  BY <1>1, <1>3 DEF JournalInv, JournalTellsTheStatus, Replay
<1>6. OneLatest'
  BY <1>2, <1>4 DEF JournalInv, OneLatest
<1>7. ASSUME NEW c \in Collectors, Fresh(c)' PROVE UpToDate(c)'
  <2>1. Fresh(c) /\ UpToDate(c)
    BY <1>4, <1>7 DEF JournalInv
  <2> QED BY <1>1, <1>2, <1>3, <2>1 DEF UpToDate, Replay, Fresh
<1> QED BY <1>5, <1>6, <1>7 DEF JournalInv

LEMMA JournalInductive ==
    ASSUME DiagnosticsTypeOK, JournalInv, [Next]_vars
    PROVE  JournalInv'
<1>1. CASE \E c \in Collectors : RunStep(c) \/ Interrupt(c)
  BY <1>1, JournalOfEarlyStep, JournalOfStatusStep, JournalOfAppend, JournalOfEnd DEF RunStep
<1>2. CASE ServiceChanges \/ OwnerChanges \/ UNCHANGED vars
  <2>1. UNCHANGED <<statusFile, journal, run, doubtful>>
    BY <1>2 DEF ServiceChanges, OwnerChanges, vars, fileVars
  <2>2. JournalTellsTheStatus' /\ OneLatest'
    BY <2>1 DEF JournalInv, JournalTellsTheStatus, OneLatest, Fresh, Replay
  <2> QED BY <2>1, <2>2, UpToDateKept DEF JournalInv, Fresh
<1>3. CASE Tick
  BY <1>3, JournalOfTick
<1> QED BY <1>1, <1>2, <1>3 DEF Next

(* However many collectors overlap and wherever they are cut short, what the
   journal and the status file say of a service or a capability differs only
   where a run that replaced the status has not told the journal of it, or had
   compared with a status that was no longer there. *)
THEOREM JournalIsTrue == Spec => []JournalTellsTheStatus
<1>1. Init => JournalInv
  BY DEF Init, JournalInv, JournalTellsTheStatus, OneLatest, Fresh, Absent, Idle
<1>2. DiagnosticsTypeOK /\ JournalInv /\ [Next]_vars => JournalInv'
  BY JournalInductive
<1>3. JournalInv => JournalTellsTheStatus
  BY DEF JournalInv
<1> QED BY <1>1, <1>2, <1>3, DiagnosticsTypeCorrect, PTL DEF Spec
=============================================================================
