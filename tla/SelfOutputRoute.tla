----------------------------- MODULE SelfOutputRoute -----------------------------
(* The self-output awareness route: a transport child follows the life of one         *)
(* system speech as the speech page retains it, tells Core every step of it and what   *)
(* an observer heard of it, and the controller that started the child waits, with its   *)
(* own deadline, for the child to finish.                                               *)
(*                                                                                     *)
(* The page may start a new speech before the last one was released, so a newer          *)
(* generation supersedes the one being followed; calls to Core may be lost after they     *)
(* arrived; the child and the controller see each other only through two events and        *)
(* the child's exit.                                                                      *)
EXTENDS Integers, Sequences, FiniteSets, SequencesExt

CONSTANTS
    Leases,            \* the speeches the page may play: [session, generation, event]
    NoLease,
    Baselines,         \* the histories the page may retain when the route starts
    MaxNotices,        \* bound: the notices the page ever publishes
    MaxIngests,        \* lifecycle notices one route may ingest, 16 in the code
    MaxPolls,          \* reads of the page a completed route may have made, 1000 in the code
    PreparationDeadline,
    CompletionDeadline \* DeadlineMs of the controller

States == {"handoff_accepted", "cooldown", "released"}
Notices == [lease : Leases, state : States]
RouteDeadline == PreparationDeadline + CompletionDeadline
MaxClock == RouteDeadline + 1

ASSUME RouteAssumption ==
    /\ \A l \in Leases : l.generation \in Nat
    /\ NoLease \notin Leases
    /\ Baselines \subseteq Seq(Notices)
    /\ {MaxNotices, MaxIngests, PreparationDeadline, CompletionDeadline} \subseteq Nat \ {0}
    /\ MaxPolls \in Nat /\ MaxPolls >= MaxIngests

VARIABLES
    clock,      \* ticks since the start gate opened
    ait,        \* external: the notices the page retains, by ordinal
    core,       \* external: what Core has received
    observer,   \* the observer child: "none", "running" or "exited"
    events,     \* the two manual-reset events the child sets
    child,      \* the transport's own state
    controller  \* the controller's own state

routeVars == <<clock, ait, core, observer, events, child, controller>>

Unknown == -1
None == "none"

RouteInit ==
    /\ clock = 0 /\ ait \in Baselines /\ core = <<>> /\ observer = None
    /\ events = [cooldown |-> FALSE, released |-> FALSE]
    /\ child = [at |-> "baseline", ordinal |-> 0, baseline |-> NoLease, lease |-> NoLease,
                phase |-> "awaiting_handoff", notice |-> None, final |-> None, polls |-> 0,
                ingests |-> 0, observations |-> 0, pending |-> None, joinReady |-> FALSE, armed |-> FALSE,
                clear |-> TRUE, status |-> "blocked", legible |-> FALSE, finishedAt |-> 0]
    /\ controller = [at |-> "arm", since |-> 0, sawCooldown |-> FALSE,
                     stage |-> "before_cooldown_ack", verdict |-> None, decidedAt |-> 0]

Transport(at) == child.at = at
Running == child.at \notin {"exited", "killed"}

(* Mutant of InBudget: the whole-route deadline is never looked at. *)
NoRouteDeadline == clock <= MaxClock

InBudget == clock < RouteDeadline

-----------------------------------------------------------------------------
(* Time, the page and the observer *)

Tick ==
    /\ clock < MaxClock /\ (controller.at # "done" \/ Running)
    /\ clock' = clock + 1
    /\ UNCHANGED <<ait, core, observer, events, child, controller>>

(* The page hands a speech over, lets it cool down and releases it; it may hand another *)
(* one over at any time, or the same one again.  When it did so between two reads is       *)
(* nobody's knowledge, so a notice joins the log when it is read.                          *)
Publishable(notice) ==
    notice.state # "handoff_accepted" =>
        \E k \in DOMAIN ait :
            /\ ait[k].lease = notice.lease
            /\ <<ait[k].state, notice.state>> \in {<<"handoff_accepted", "cooldown">>,
                                                   <<"cooldown", "released">>}
            /\ \A j \in k + 1 .. Len(ait) : ait[j].lease # notice.lease

(* The observer has a deadline of its own. *)
ObserverExits ==
    /\ observer = "running" /\ observer' = "exited"
    /\ UNCHANGED <<clock, ait, core, events, child, controller>>

-----------------------------------------------------------------------------
(* The transport child *)

Left(at) == child' = [child EXCEPT !.at = at]

(* A call whose answer was awaited is recorded as of unknown outcome. *)
Blocked(by) ==
    LET left == [by EXCEPT !.at = "cleanup", !.pending = None]
    IN  CASE by.pending = "lifecycle" -> [left EXCEPT !.ingests = Unknown]
          [] by.pending = "observation" -> [left EXCEPT !.observations = Unknown]
          [] OTHER -> left

Throw == child' = Blocked(child)

(* Every read of the page is counted, up to one more than may have been made. *)
Counted == [child EXCEPT !.polls = IF @ > MaxPolls THEN @ ELSE @ + 1]

(* The configuration, the first read, which says from where on the page's notices are  *)
(* this route's, the listener line and the start gate.                                 *)
Start ==
    /\ Transport("baseline")
    /\ \/ child' = [Counted EXCEPT !.at = "poll", !.ordinal = Len(ait),
                                   !.baseline = IF ait = <<>> THEN NoLease ELSE Last(ait).lease]
       \/ Throw
    /\ UNCHANGED <<clock, ait, core, observer, events, controller>>

Replays(lease) ==
    /\ child.baseline # NoLease
    /\ lease.session = child.baseline.session \/ lease.event = child.baseline.event

(* Mutant of Resolves: a speech handed over twice is taken twice. *)
ResolvesReplay(notice) ==
    IF notice.state = "handoff_accepted"
    THEN IF child.lease = NoLease THEN ~Replays(notice.lease)
         ELSE notice.lease.generation >= child.lease.generation
    ELSE /\ notice.lease = child.lease
         /\ <<child.phase, notice.state>> \in {<<"handoff_accepted", "cooldown">>,
                                              <<"cooldown", "released">>}

(* A notice is taken if it is the next step of the speech being followed, or hands over  *)
(* a newer one; the first must not be of a speech the page already retained.             *)
Resolves(notice) ==
    IF notice.state = "handoff_accepted"
    THEN IF child.lease = NoLease THEN ~Replays(notice.lease)
         ELSE notice.lease.generation > child.lease.generation
    ELSE /\ notice.lease = child.lease
         /\ <<child.phase, notice.state>> \in {<<"handoff_accepted", "cooldown">>,
                                              <<"cooldown", "released">>}

(* One read of the page: nothing newer, the next notice, or one after a gap.  The read    *)
(* may fail, and a notice may be malformed or dated before the last one.                  *)
Poll ==
    /\ Transport("poll")
    /\ \/ InBudget /\ child' = Counted /\ UNCHANGED ait
       \/ Throw /\ UNCHANGED ait
       \/ /\ InBudget /\ Len(ait) < MaxNotices
          /\ \E notice \in Notices :
                /\ Publishable(notice)
                /\ ait' = Append(ait, notice)
                /\ IF Resolves(notice) /\ child.ingests < MaxIngests
                   THEN child' = [Counted EXCEPT !.at = "lifecycle", !.notice = notice.state,
                                                 !.lease = notice.lease, !.phase = notice.state]
                   ELSE child' = Blocked(Counted)
    /\ UNCHANGED <<clock, core, observer, events, controller>>

(* A call to Core is sent when time is left. *)
Dispatch(at, kind) ==
    /\ Transport(at)
    /\ IF InBudget THEN child' = [child EXCEPT !.at = "ack", !.pending = kind] ELSE Throw
    /\ UNCHANGED <<clock, ait, core, observer, events, controller>>

DispatchLifecycle == Dispatch("lifecycle", "lifecycle")
DispatchObservation == Dispatch("observation", "observation")

Received(kind) ==
    Append(core, [kind |-> kind, lease |-> child.lease,
                  ordinal |-> IF kind = "observation" THEN child.ordinal ELSE child.ordinal + 1])

(* Only an acknowledgement counts.  Without one Core may have received the call or not.   *)
LifecycleAcknowledged ==
    /\ Transport("ack") /\ child.pending = "lifecycle"
    /\ \/ /\ clock <= RouteDeadline
          /\ core' = Received(child.notice)
          /\ child' = [child EXCEPT !.at = child.notice, !.pending = None, !.final = child.notice,
                                    !.ingests = @ + 1, !.ordinal = @ + 1]
       \/ core' \in {core, Received(child.notice)} /\ Throw
    /\ UNCHANGED <<clock, ait, observer, events, controller>>

ResetStages == events' = [cooldown |-> FALSE, released |-> FALSE]

(* A handoff starts over: the stages are reset and readiness is lost, an observer left     *)
(* from the superseded speech is stopped, and a new one is started.                        *)
Handoff ==
    /\ Transport("handoff_accepted")
    /\ \/ Throw /\ UNCHANGED <<events, observer>>
       \/ /\ ResetStages
          /\ LET restarted == [child EXCEPT !.joinReady = FALSE]
             IN  \/ child' = [restarted EXCEPT !.at = "observe"] /\ observer' = "running"
                 \/ child' = Blocked(restarted) /\ observer' = None
                 \/ /\ observer # None /\ observer' = None
                    /\ child' = Blocked([restarted EXCEPT !.clear = FALSE])
    /\ UNCHANGED <<clock, ait, core, controller>>

(* The observer is awaited for what is left of the route, and its report is checked. *)
AwaitObserver ==
    /\ Transport("observe")
    /\ \/ clock < RouteDeadline /\ observer = "exited" /\ (Left("observation") \/ Throw)
       \/ clock >= RouteDeadline /\ Throw
    /\ UNCHANGED <<clock, ait, core, observer, events, controller>>

(* The first acknowledged observation arms the controller. *)
ObservationAcknowledged ==
    /\ Transport("ack") /\ child.pending = "observation"
    /\ LET counted == [child EXCEPT !.pending = None, !.observations = @ + 1, !.joinReady = TRUE]
       IN  \/ /\ clock <= RouteDeadline
              /\ core' = Received("observation")
              /\ \/ child' = [counted EXCEPT !.at = "poll", !.armed = TRUE]
                 \/ ~child.armed /\ child' = Blocked(counted)
           \/ core' \in {core, Received("observation")} /\ Throw
    /\ UNCHANGED <<clock, ait, observer, events, controller>>

SignalStage(state, event, next) ==
    /\ Transport(state)
    /\ \/ events' = [events EXCEPT ![event] = TRUE] /\ Left(next)
       \/ UNCHANGED events /\ Throw
    /\ UNCHANGED <<clock, ait, core, observer, controller>>

SignalCooldown == SignalStage("cooldown", "cooldown", "poll")
SignalReleased == SignalStage("released", "released", "finish")

Finish ==
    /\ Transport("finish")
    /\ IF child.joinReady /\ child.observations >= 1
       THEN child' = [child EXCEPT !.at = "cleanup", !.status = "completed"]
       ELSE Throw
    /\ UNCHANGED <<clock, ait, core, observer, events, controller>>

(* The finally block stops the observer and lets the events go; what could not be          *)
(* cleaned up blocks the result, whatever it was.  A report is legible if the child exits   *)
(* with 0, prints nothing else, and every other field has a value the controller allows.     *)
Cleanup ==
    /\ Transport("cleanup")
    /\ \E stopped \in BOOLEAN, closed \in BOOLEAN, legible \in BOOLEAN :
          /\ observer' = IF observer = "running" /\ ~stopped THEN observer ELSE None
          /\ LET clear == child.clear /\ closed /\ (observer # None => stopped)
             IN  /\ legible => clear /\ child.status = "completed"
                 /\ child' = [child EXCEPT !.at = "exited", !.clear = clear, !.finishedAt = clock,
                                           !.legible = legible,
                                           !.status = IF clear THEN @ ELSE "blocked"]
    /\ UNCHANGED <<clock, ait, core, events, controller>>

TransportNext ==
    \/ Start \/ Poll \/ DispatchLifecycle \/ DispatchObservation \/ LifecycleAcknowledged
    \/ Handoff \/ AwaitObserver \/ ObservationAcknowledged \/ SignalCooldown \/ SignalReleased
    \/ Finish \/ Cleanup

-----------------------------------------------------------------------------
(* The controller *)

Controller(at) == controller.at = at
Goes(at) == controller' = [controller EXCEPT !.at = at]
Late == clock - controller.since >= CompletionDeadline

Decided(verdict) ==
    controller' = [controller EXCEPT !.at = "finally", !.verdict = verdict, !.decidedAt = clock]

(* The child arms within the preparation budget, or the route is given up.  From then on  *)
(* the completion deadline runs.                                                          *)
AwaitArm ==
    /\ Controller("arm")
    /\ \/ /\ child.armed /\ clock < PreparationDeadline
          /\ controller' = [controller EXCEPT !.at = "armed", !.since = clock]
       \/ /\ clock >= PreparationDeadline \/ (~Running /\ ~child.armed)
          /\ Decided("unavailable")
    /\ UNCHANGED <<clock, ait, core, observer, events, child>>

(* A snapshot of the stages is two reads, and is kept only if the deadline had passed      *)
(* neither before the first nor after the second.                                          *)
ReadCooldown(from, between, next) ==
    /\ Controller(from)
    /\ IF Late THEN Goes(next)
       ELSE controller' = [controller EXCEPT !.at = between, !.sawCooldown = events.cooldown]
    /\ UNCHANGED <<clock, ait, core, observer, events, child>>

StageOf(sawCooldown, sawReleased) ==
    IF sawReleased THEN "release_ack_before_exit"
    ELSE IF sawCooldown THEN "cooldown_ack_before_release_ack" ELSE "before_cooldown_ack"

ReadReleased(between, next) ==
    /\ Controller(between)
    /\ IF events.released /\ ~controller.sawCooldown THEN Decided("torn")
       ELSE IF Late THEN Goes(next)
       ELSE controller' = [controller EXCEPT !.at = next,
                              !.stage = StageOf(controller.sawCooldown, events.released)]
    /\ UNCHANGED <<clock, ait, core, observer, events, child>>

(* The phase of the user's own speech lies between the two; it may fail. *)
UserPhase ==
    /\ Controller("user")
    /\ Goes("completion") \/ Decided("user_phase_failed")
    /\ UNCHANGED <<clock, ait, core, observer, events, child>>

(* Killing the child's tree may fail as a whole or miss the observer. *)
KillTree ==
    \/ UNCHANGED <<child, observer>>
    \/ Running /\ Left("killed") /\ observer' \in {None, observer}

(* One slice of the wait: the deadline is read before it and after it, and one that has  *)
(* passed by then outweighs an exit.                                                     *)
TimesOut == KillTree /\ Decided(controller.stage)

WaitSlice ==
    /\ Controller("wait")
    /\ IF Late THEN TimesOut ELSE Goes("waited") /\ UNCHANGED <<child, observer>>
    /\ UNCHANGED <<clock, ait, core, events>>

(* Mutant of AfterSlice: an exit that was seen is an exit in time. *)
AfterSliceExitFirst ==
    /\ Controller("waited")
    /\ IF Late /\ Running THEN TimesOut
       ELSE Goes(IF Running THEN "peek" ELSE "check") /\ UNCHANGED <<child, observer>>
    /\ UNCHANGED <<clock, ait, core, events>>

AfterSlice ==
    /\ Controller("waited")
    /\ IF Late THEN TimesOut
       ELSE Goes(IF Running THEN "peek" ELSE "check") /\ UNCHANGED <<child, observer>>
    /\ UNCHANGED <<clock, ait, core, events>>

ResultIsComplete ==
    /\ child.status = "completed" /\ child.final = "released" /\ child.clear
    /\ child.joinReady /\ child.legible
    /\ child.ingests \in 3 .. MaxIngests /\ child.observations = 1
    /\ child.polls \in 4 .. MaxPolls
    /\ child.finishedAt <= RouteDeadline

CheckResult ==
    /\ Controller("check")
    /\ Decided(IF ResultIsComplete THEN "completed" ELSE "not_completed")
    /\ UNCHANGED <<clock, ait, core, observer, events, child>>

(* The controller's finally block stops a child that is still there; one that already     *)
(* exited counts as stopped.                                                              *)
StopChild ==
    /\ Controller("finally")
    /\ KillTree /\ Goes("done")
    /\ UNCHANGED <<clock, ait, core, events>>

ControllerNext ==
    \/ AwaitArm
    \/ ReadCooldown("armed", "armed_between", "user") \/ ReadReleased("armed_between", "user")
    \/ UserPhase
    \/ ReadCooldown("completion", "completion_between", "wait") \/ ReadReleased("completion_between", "wait")
    \/ WaitSlice \/ AfterSlice
    \/ ReadCooldown("peek", "peek_between", "wait") \/ ReadReleased("peek_between", "wait")
    \/ CheckResult \/ StopChild

Done == Controller("done") /\ ~Running /\ observer # "running" /\ UNCHANGED routeVars

RouteNext == Tick \/ ObserverExits \/ TransportNext \/ ControllerNext \/ Done

(* Time passes, the observer's own deadline ends it, and neither process is stopped; every *)
(* wait in either has a timeout.  A read of the page may come back empty for as long as    *)
(* there is time for another.                                                              *)
RouteSpec ==
    /\ RouteInit /\ [][RouteNext]_routeVars
    /\ WF_routeVars(Tick) /\ WF_routeVars(ObserverExits) /\ WF_routeVars(ControllerNext)
    /\ WF_routeVars(TransportNext /\ ~(Transport("poll") /\ InBudget))

-----------------------------------------------------------------------------
(* Properties *)

(* What Core is told is one story, whatever the page publishes and whichever call loses    *)
(* its acknowledgement: the notices are the page's own, one by one and none twice, from     *)
(* after the baseline on; a speech is handed over, cools down and is released in this        *)
(* order, or is superseded by one of a later generation; none is a speech the page already   *)
(* retained when the route started; and an observation speaks of the speech then being        *)
(* followed, before it cools down, at most once.                                              *)
IsObservation(call) == call.kind = "observation"
New(lease, base) ==
    base # NoLease => lease.session # base.session /\ lease.event # base.event
NoticeBefore(k) == IF IsObservation(core[k - 1]) THEN core[k - 2] ELSE core[k - 1]
Follows(earlier, later) ==
    /\ later.ordinal = earlier.ordinal + 1
    /\ IF later.kind = "handoff_accepted" THEN later.lease.generation > earlier.lease.generation
       ELSE /\ later.lease = earlier.lease
            /\ <<earlier.kind, later.kind>> \in {<<"handoff_accepted", "cooldown">>,
                                                 <<"cooldown", "released">>}

CoreHearsInOrder ==
    \A k \in DOMAIN core :
        IF IsObservation(core[k])
        THEN /\ k > 1 /\ core[k - 1].kind = "handoff_accepted"
             /\ core[k].lease = core[k - 1].lease
        ELSE /\ ait[core[k].ordinal] = [lease |-> core[k].lease, state |-> core[k].kind]
             /\ k > 1 => Follows(NoticeBefore(k), core[k])
             /\ k = 1 => core[1].kind = "handoff_accepted" /\ New(core[1].lease, child.baseline)

(* The controller's verdict is true.  It calls the route completed only in time, when the   *)
(* child followed a single speech to its release, Core heard all of it with the              *)
(* observation of that very speech, and no observer is left.  It names a stage as the one     *)
(* the route timed out in only after its deadline, and only a stage that Core was told of.     *)
(* When it saw the child's exit in time and the child reports completion, it says so, unless    *)
(* a later speech superseded an observed one, the page was read too often, or the report is      *)
(* not legible; so a report is never refused for its other counts or for its age.  The events     *)
(* themselves name the stage of the speech being followed, until a newer one takes over or         *)
(* fails to.                                                                                       *)
Heard(kind) == \E k \in DOMAIN core : core[k].kind = kind
Kinds == [k \in DOMAIN core |-> core[k].kind]

CompletionIsTrue ==
    LET verdict == controller.verdict
        Before(time) == time - controller.since < CompletionDeadline
    IN  /\ verdict = "completed" =>
              /\ ~Running /\ Before(child.finishedAt) /\ observer = None
              /\ Kinds = <<"handoff_accepted", "observation", "cooldown", "released">>
              /\ \A k \in DOMAIN core : core[k].lease = core[1].lease
        /\ verdict \in {"before_cooldown_ack", "cooldown_ack_before_release_ack",
                        "release_ack_before_exit"} => ~Before(controller.decidedAt)
        /\ controller.stage = "cooldown_ack_before_release_ack" => Heard("cooldown")
        /\ controller.stage = "release_ack_before_exit" => Heard("released")
        /\ verdict = "not_completed" /\ child.status = "completed" =>
              child.observations > 1 \/ child.polls > MaxPolls \/ ~child.legible
        /\ events.cooldown /\ Running /\ child.at \notin {"handoff_accepted", "cleanup"} =>
              child.final \in {"cooldown", "released"}
        /\ events.released => child.final = "released" /\ events.cooldown

(* A started route comes to an end: the controller decides and is done, the child is gone,   *)
(* however the calls, the page and the kills turn out, and no observer listens on.           *)
RouteEnds == <>[](Controller("done") /\ ~Running /\ observer # "running")
=============================================================================
