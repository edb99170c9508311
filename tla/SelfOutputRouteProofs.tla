-------------------------- MODULE SelfOutputRouteProofs --------------------------
(* On the self-output awareness route Core hears one story and the controller's verdict    *)
(* is true, for any speeches, histories, deadlines and any number of generations that       *)
(* supersede one another.                                                                   *)
EXTENDS SelfOutputRoute, SequenceTheorems, TLAPS

Ended == {"cleanup", "exited", "killed"}
Places == {"baseline", "poll", "lifecycle", "ack", "handoff_accepted", "observe", "observation",
           "cooldown", "released", "finish"} \cup Ended
Stages == {"before_cooldown_ack", "cooldown_ack_before_release_ack", "release_ack_before_exit"}
Calls == [kind : States \cup {"observation"}, lease : Leases, ordinal : Nat]

Children ==
    [at : Places, ordinal : Nat, baseline : Leases \cup {NoLease}, lease : Leases \cup {NoLease},
     phase : States \cup {"awaiting_handoff"}, notice : States \cup {None},
     final : States \cup {None}, polls : Nat, ingests : Int, observations : Int,
     pending : {None, "lifecycle", "observation"}, joinReady : BOOLEAN, armed : BOOLEAN,
     clear : BOOLEAN, status : {"blocked", "completed"}, legible : BOOLEAN, finishedAt : Nat]
Controllers ==
    [at : {"arm", "armed", "armed_between", "user", "completion", "completion_between", "wait",
           "waited", "peek", "peek_between", "check", "finally", "done"},
     since : Nat, sawCooldown : BOOLEAN, stage : Stages,
     verdict : Stages \cup {None, "unavailable", "torn", "user_phase_failed", "completed",
                            "not_completed"},
     decidedAt : Nat]

RouteTypes ==
    /\ clock \in Nat
    /\ ait \in Seq(Notices) /\ core \in Seq(Calls)
    /\ observer \in {None, "running", "exited"}
    /\ events \in [cooldown : BOOLEAN, released : BOOLEAN]
    /\ child \in Children /\ controller \in Controllers

(* Where the transport is between a notice and its acknowledgement, and between that of a *)
(* handoff and the observation's.                                                          *)
Telling == child.at = "lifecycle" \/ (child.at = "ack" /\ child.pending = "lifecycle")
Observing == \/ child.at \in {"handoff_accepted", "observe", "observation"}
             \/ child.at = "ack" /\ child.pending = "observation"

(* The story, of any sequence of calls: each call has its right place, given the log of   *)
(* the page and the speech it retained at the baseline.                                    *)
Prior(told, k) == IF IsObservation(told[k - 1]) THEN told[k - 2] ELSE told[k - 1]
Right(told, log, base, k) ==
    IF IsObservation(told[k])
    THEN /\ k > 1 /\ told[k - 1].kind = "handoff_accepted"
         /\ told[k].lease = told[k - 1].lease
    ELSE /\ log[told[k].ordinal] = [lease |-> told[k].lease, state |-> told[k].kind]
         /\ k > 1 => Follows(Prior(told, k), told[k])
         /\ k = 1 => told[1].kind = "handoff_accepted" /\ New(told[1].lease, base)
Story(told, log, base) ==
    \A k \in DOMAIN told : Right(told, log, base, k) /\ told[k].ordinal \in 1 .. Len(log)

(* The last notice, and a call that may come next. *)
LastNotice(told) == Prior(told, Len(told) + 1)
Fits(told, log, base, call) ==
    /\ call.ordinal \in 1 .. Len(log)
    /\ IF IsObservation(call)
       THEN /\ told # <<>> /\ told[Len(told)].kind = "handoff_accepted"
            /\ call.lease = told[Len(told)].lease
       ELSE /\ log[call.ordinal] = [lease |-> call.lease, state |-> call.kind]
            /\ told # <<>> => Follows(LastNotice(told), call)
            /\ told = <<>> => call.kind = "handoff_accepted" /\ New(call.lease, base)

Tells == [kind |-> child.notice, lease |-> child.lease, ordinal |-> child.ordinal + 1]
Followed == [kind |-> child.phase, lease |-> child.lease, ordinal |-> child.ordinal]

(* What Core heard last is what the transport follows, and what it is about to tell        *)
(* comes next.                                                                              *)
StoryInv ==
    /\ Story(core, ait, child.baseline)
    /\ child.at = "ack" => child.pending # None
    /\ child.at = "baseline" => core = <<>> /\ child.lease = NoLease /\ child.final = None
    /\ child.at \in {"poll", "cooldown", "released"} \/ Observing =>
          /\ child.ordinal = Len(ait)
          /\ core = <<>> <=> child.lease = NoLease
          /\ core # <<>> => LastNotice(core) = Followed
    /\ child.at \in {"cooldown", "released"} => core # <<>> /\ child.phase = child.at
    /\ child.at = "finish" => core # <<>>
    /\ Observing => /\ core # <<>> /\ ~IsObservation(core[Len(core)])
                    /\ child.phase = "handoff_accepted"
    /\ Telling => /\ child.lease \in Leases /\ child.notice \in States
                  /\ child.phase = child.notice /\ child.ordinal + 1 = Len(ait)
                  /\ Fits(core, ait, child.baseline, Tells)
    /\ child.at \notin Ended /\ core # <<>> => child.final = LastNotice(core).kind

(* What the two events say of the speech being followed. *)
StageInv ==
    /\ events.cooldown => Heard("cooldown")
    /\ events.released => /\ Heard("released") /\ events.cooldown /\ child.final = "released"
                          /\ child.at \in {"finish"} \cup Ended
    /\ events.cooldown /\ child.at \notin {"handoff_accepted"} \cup Ended =>
          child.final \in {"cooldown", "released"}
    /\ child.at = "poll" /\ child.final = "cooldown" => events.cooldown
    /\ Telling /\ child.notice = "released" => events.cooldown
    /\ child.at = "released" => events.cooldown
    /\ child.at = "finish" => child.final = "released"

(* Core's story when a single speech was observed, up to the notice acknowledged last. *)
ToldBy(final) == IF final = "released" THEN 4 ELSE IF final = "cooldown" THEN 3 ELSE 2
Alone(final) ==
    /\ Len(core) = ToldBy(final)
    /\ core[1].kind = "handoff_accepted" /\ core[2].kind = "observation"
    /\ Len(core) >= 3 => core[3].kind = "cooldown"
    /\ Len(core) >= 4 => core[4].kind = "released"

CountInv ==
    /\ child.at \notin Ended =>
          /\ child.status = "blocked"
          /\ child.observations \in Nat /\ child.ingests \in 0 .. MaxIngests
          /\ core # <<>> => child.ingests >= ToldBy(child.final) - 1
          /\ Telling => child.ingests < MaxIngests
          /\ child.observations = 0 => Len(core) = (IF Observing THEN 1 ELSE 0)
          /\ child.observations = 1 /\ ~Observing => Alone(child.final)
    /\ child.status = "completed" =>
          /\ child.final = "released" /\ child.joinReady
          /\ child.ingests \in 3 .. MaxIngests /\ child.observations >= 1
          /\ child.observations = 1 => Alone("released")
    /\ child.at = "exited" /\ child.status = "completed" => child.clear
    /\ child.finishedAt <= clock
    /\ child.at = "exited" /\ child.clear => observer = None

(* What the controller may conclude when. *)
Before(time) == time - controller.since < CompletionDeadline
ControlInv ==
    /\ controller.since < PreparationDeadline
    /\ controller.at \notin {"finally", "done"} => controller.verdict = None /\ child.at # "killed"
    /\ controller.at = "check" => child.at = "exited" /\ Before(child.finishedAt)
    /\ controller.verdict \in Stages => ~Before(controller.decidedAt)
    /\ controller.sawCooldown => Heard("cooldown")
    /\ controller.stage = "cooldown_ack_before_release_ack" => Heard("cooldown")
    /\ controller.stage = "release_ack_before_exit" => Heard("released")
    /\ controller.verdict = "completed" =>
          /\ child.at = "exited" /\ Before(child.finishedAt) /\ child.clear
          /\ child.status = "completed" /\ child.observations = 1
    /\ controller.verdict = "not_completed" =>
          /\ child.at = "exited"
          /\ child.status = "completed" =>
                child.observations > 1 \/ child.polls \notin 4 .. MaxPolls \/ ~child.legible

TransportInv == StoryInv /\ StageInv /\ CountInv
RouteInv == RouteTypes /\ TransportInv /\ ControlInv

(* Besides the baseline's, every notice ingested took a read of the page. *)
PollInv ==
    /\ child.at = "baseline" => child.ingests = 0
    /\ child.at \notin {"baseline"} \cup Ended =>
          child.polls >= child.ingests + (IF Telling THEN 2 ELSE 1)
    /\ child.status = "completed" => child.polls > child.ingests

-----------------------------------------------------------------------------
(* Types *)

LEMMA BlockedFacts ==
    ASSUME NEW by \in Children
    PROVE  /\ Blocked(by) \in Children
           /\ Blocked(by).at = "cleanup" /\ Blocked(by).baseline = by.baseline
           /\ Blocked(by).lease = by.lease /\ Blocked(by).ordinal = by.ordinal
           /\ Blocked(by).phase = by.phase /\ Blocked(by).notice = by.notice
           /\ Blocked(by).final = by.final /\ Blocked(by).status = by.status
           /\ Blocked(by).clear = by.clear /\ Blocked(by).finishedAt = by.finishedAt
<1>. DEFINE left == [by EXCEPT !.at = "cleanup", !.pending = None]
            Kept(c) == /\ c.at = "cleanup" /\ c.baseline = by.baseline
                       /\ c.lease = by.lease /\ c.ordinal = by.ordinal
                       /\ c.phase = by.phase /\ c.notice = by.notice
                       /\ c.final = by.final /\ c.status = by.status
                       /\ c.clear = by.clear /\ c.finishedAt = by.finishedAt
<1>1. left \in Children
  BY DEF Children, Places, Ended, None
<1>2. Kept(left)
  BY DEF Children
<1>3. Blocked(by) \in {left, [left EXCEPT !.ingests = Unknown], [left EXCEPT !.observations = Unknown]}
  BY DEF Blocked
<1>. HIDE DEF left
<1>4. [left EXCEPT !.ingests = Unknown] \in Children /\ [left EXCEPT !.observations = Unknown] \in Children
  BY <1>1 DEF Children, Unknown
<1>5. Kept([left EXCEPT !.ingests = Unknown])
  BY <1>1, <1>2 DEF Children
<1>6. Kept([left EXCEPT !.observations = Unknown])
  BY <1>1, <1>2 DEF Children
<1>. QED  BY <1>1, <1>2, <1>3, <1>4, <1>5, <1>6

(* Counting a read changes nothing but the count. *)
CountedAs(c) ==
    /\ c \in Children /\ c.at = child.at /\ c.ordinal = child.ordinal
    /\ c.baseline = child.baseline /\ c.lease = child.lease /\ c.phase = child.phase
    /\ c.notice = child.notice /\ c.final = child.final /\ c.ingests = child.ingests
    /\ c.observations = child.observations /\ c.pending = child.pending
    /\ c.joinReady = child.joinReady /\ c.armed = child.armed /\ c.clear = child.clear
    /\ c.status = child.status /\ c.legible = child.legible /\ c.finishedAt = child.finishedAt

LEMMA CountedFacts ==
    ASSUME RouteTypes
    PROVE  /\ CountedAs(Counted)
           /\ Counted.polls = IF child.polls > MaxPolls THEN child.polls ELSE child.polls + 1
<1>1. child \in Children /\ child.polls \in Nat
  BY DEF RouteTypes, Children
<1>. DEFINE polls == IF child.polls > MaxPolls THEN child.polls ELSE child.polls + 1
<1>2. polls \in Nat
  BY <1>1
<1>. HIDE DEF polls
<1>3. Counted = [child EXCEPT !.polls = polls]
  BY DEF Counted, polls
<1>4. CountedAs(Counted) /\ Counted.polls = polls
  BY <1>1, <1>2, <1>3 DEF CountedAs, Children
<1>. QED  BY <1>4 DEF polls

LEMMA DeadlineTypes ==
    /\ PreparationDeadline \in Nat \ {0} /\ CompletionDeadline \in Nat \ {0}
    /\ MaxIngests \in Nat \ {0} /\ RouteDeadline \in Nat
  BY RouteAssumption DEF RouteDeadline

LEMMA ReceivedTypes ==
    ASSUME RouteTypes, NEW kind \in States \cup {"observation"}, child.lease \in Leases
    PROVE  Received(kind) \in Seq(Calls)
<1>. DEFINE call == [kind |-> kind, lease |-> child.lease,
                     ordinal |-> IF kind = "observation" THEN child.ordinal ELSE child.ordinal + 1]
<1>1. call \in Calls
  BY DEF RouteTypes, Children, Calls
<1>. QED  BY <1>1 DEF Received, RouteTypes

LEMMA AppendFacts ==
    ASSUME NEW told \in Seq(Calls), NEW call \in Calls
    PROVE  /\ Append(told, call) \in Seq(Calls) /\ Append(told, call) # <<>>
           /\ Len(Append(told, call)) = Len(told) + 1
           /\ Append(told, call)[Len(told) + 1] = call
           /\ \A k \in 1 .. Len(told) : Append(told, call)[k] = told[k]
  OBVIOUS

LEMMA NoticeAppendFacts ==
    ASSUME NEW log \in Seq(Notices), NEW notice \in Notices
    PROVE  /\ Append(log, notice) \in Seq(Notices)
           /\ Len(Append(log, notice)) = Len(log) + 1
           /\ Append(log, notice)[Len(log) + 1] = notice
           /\ \A k \in 1 .. Len(log) : Append(log, notice)[k] = log[k]
  OBVIOUS

(* What was said to Core remains said. *)
LEMMA HeardStays ==
    ASSUME RouteTypes, UNCHANGED core \/ \E call \in Calls : core' = Append(core, call),
           NEW kind, Heard(kind)
    PROVE  Heard(kind)'
<1>1. CASE UNCHANGED core
  BY <1>1 DEF Heard
<1>2. CASE \E call \in Calls : core' = Append(core, call)
  <2>1. PICK call \in Calls : core' = Append(core, call)
    BY <1>2
  <2>2. PICK k \in 1 .. Len(core) : core[k].kind = kind
    BY DEF Heard, RouteTypes
  <2>3. k \in DOMAIN core' /\ core'[k] = core[k]
    BY <2>1, <2>2, AppendFacts DEF RouteTypes
  <2>. QED  BY <2>2, <2>3 DEF Heard
<1>. QED  BY <1>1, <1>2

LEMMA InitHolds == RouteInit => RouteInv
<1>. SUFFICES ASSUME RouteInit PROVE RouteInv
  OBVIOUS
<1>1. RouteTypes
  BY RouteAssumption DEF RouteInit, RouteTypes, Children, Controllers, Places, Ended, None, Stages
<1>2. StoryInv
  BY DEF RouteInit, StoryInv, Story, Observing, Telling, Ended
<1>3. StageInv
  BY DEF RouteInit, StageInv, Telling, Ended
<1>4. CountInv
  BY DeadlineTypes DEF RouteInit, CountInv, Observing, Telling, Ended
<1>5. ControlInv
  BY DeadlineTypes DEF RouteInit, ControlInv, Stages, None
<1>. QED  BY <1>1, <1>2, <1>3, <1>4, <1>5 DEF RouteInv, TransportInv

-----------------------------------------------------------------------------
(* The story *)

(* What was told stays right, whatever else the page publishes. *)
LEMMA StoryStays ==
    ASSUME NEW told \in Seq(Calls), NEW log \in Seq(Notices), NEW later \in Seq(Notices),
           later = log \/ \E notice \in Notices : later = Append(log, notice),
           NEW base, Story(told, log, base)
    PROVE  Story(told, later, base)
<1>1. Len(log) <= Len(later) /\ Len(log) \in Nat /\ Len(later) \in Nat
  BY NoticeAppendFacts
<1>2. \A k \in 1 .. Len(log) : later[k] = log[k]
  BY NoticeAppendFacts
<1>3. ASSUME NEW k \in DOMAIN told
      PROVE  Right(told, later, base, k) /\ told[k].ordinal \in 1 .. Len(later)
  <2>1. Right(told, log, base, k) /\ told[k].ordinal \in 1 .. Len(log)
    BY <1>3 DEF Story
  <2>2. later[told[k].ordinal] = log[told[k].ordinal]
    BY <1>2, <2>1
  <2>. QED  BY <1>1, <2>1, <2>2 DEF Right
<1>. QED  BY <1>3 DEF Story

(* A call that fits is told. *)
LEMMA StoryGoesOn ==
    ASSUME NEW told \in Seq(Calls), NEW log \in Seq(Notices), NEW base,
           NEW call \in Calls, Story(told, log, base), Fits(told, log, base, call)
    PROVE  /\ Story(Append(told, call), log, base)
           /\ LastNotice(Append(told, call)) = IF IsObservation(call) THEN told[Len(told)] ELSE call
<1>. DEFINE n == Len(told) + 1
            after == Append(told, call)
<1>1. /\ after \in Seq(Calls) /\ after # <<>> /\ Len(after) = n /\ after[n] = call
      /\ \A k \in 1 .. Len(told) : after[k] = told[k]
      /\ n \in Nat \ {0} /\ DOMAIN after = 1 .. n /\ DOMAIN told = 1 .. Len(told)
      /\ Len(told) \in Nat /\ (n = 1 <=> told = <<>>)
  BY AppendFacts
<1>. HIDE DEF after
<1>2. LastNotice(after) = IF IsObservation(call) THEN told[Len(told)] ELSE call
  <2>1. CASE IsObservation(call)
    <3>1. n - 1 \in 1 .. Len(told) /\ n - 1 = Len(told)
      BY <1>1, <2>1 DEF Fits
    <3>. QED  BY <1>1, <2>1, <3>1 DEF LastNotice, Prior
  <2>2. CASE ~IsObservation(call)
    BY <1>1, <2>2 DEF LastNotice, Prior
  <2>. QED  BY <2>1, <2>2
<1>3. ASSUME NEW k \in 2 .. n PROVE Prior(after, k) = Prior(told, k)
  <2>1. k - 1 \in 1 .. Len(told) /\ after[k - 1] = told[k - 1]
    BY <1>1
  <2>2. Right(told, log, base, k - 1)
    BY <1>1, <2>1 DEF Story
  <2>3. IsObservation(told[k - 1]) => k - 2 \in 1 .. Len(told)
    BY <1>1, <2>1, <2>2 DEF Right
  <2>. QED  BY <1>1, <2>1, <2>3 DEF Prior
<1>4. ASSUME NEW k \in 1 .. Len(told)
      PROVE  Right(after, log, base, k) /\ after[k].ordinal \in 1 .. Len(log)
  <2>1. Right(told, log, base, k) /\ told[k].ordinal \in 1 .. Len(log)
    BY <1>1 DEF Story
  <2>2. after[k] = told[k] /\ (k > 1 => after[k - 1] = told[k - 1]) /\ (k = 1 => after[1] = told[1])
    BY <1>1
  <2>3. k > 1 => Prior(after, k) = Prior(told, k)
    BY <1>1, <1>3
  <2>4. CASE IsObservation(told[k])
    BY <2>1, <2>2, <2>4 DEF Right
  <2>5. CASE ~IsObservation(told[k])
    BY <2>1, <2>2, <2>3, <2>5 DEF Right
  <2>. QED  BY <2>4, <2>5
<1>5. Right(after, log, base, n) /\ after[n].ordinal \in 1 .. Len(log)
  <2>1. CASE IsObservation(call)
    <3>1. n > 1 /\ n - 1 = Len(told) /\ after[n - 1] = told[Len(told)]
      BY <1>1, <2>1 DEF Fits
    <3>. QED  BY <1>1, <2>1, <3>1 DEF Right, Fits
  <2>2. CASE ~IsObservation(call)
    <3>1. n > 1 => Prior(after, n) = LastNotice(told)
      BY <1>1, <1>3 DEF LastNotice
    <3>2. n > 1 => Follows(Prior(after, n), call)
      BY <1>1, <2>2, <3>1 DEF Fits
    <3>3. n = 1 => call.kind = "handoff_accepted" /\ New(call.lease, base)
      BY <1>1, <2>2 DEF Fits
    <3>4. log[call.ordinal] = [lease |-> call.lease, state |-> call.kind]
      BY <2>2 DEF Fits
    <3>. QED  BY <1>1, <2>2, <3>2, <3>3, <3>4 DEF Right, Fits
  <2>. QED  BY <2>1, <2>2
<1>6. Story(after, log, base)
  BY <1>1, <1>4, <1>5 DEF Story
<1>. QED  BY <1>2, <1>6 DEF after

-----------------------------------------------------------------------------
(* The transport, in general *)

(* Core hears more, never less. *)
MoreToldBy(call) == core' = Append(core, call) /\ Fits(core, ait, child.baseline, call)

LEMMA CoreGrows ==
    ASSUME RouteTypes, UNCHANGED core \/ \E call \in Calls : MoreToldBy(call)
    PROVE  core' \in Seq(Calls) /\ \A kind : Heard(kind) => Heard(kind)'
<1>1. core' \in Seq(Calls)
  BY AppendFacts DEF RouteTypes, MoreToldBy
<1>2. UNCHANGED core \/ \E call \in Calls : core' = Append(core, call)
  BY DEF MoreToldBy
<1>. QED  BY <1>1, <1>2, HeardStays

(* The controller's knowledge stands while the transport goes on. *)
LEMMA ControlStays ==
    ASSUME ControlInv, child.at \notin {"exited", "killed"}, child'.at # "killed",
           UNCHANGED <<clock, controller>>, \A kind : Heard(kind) => Heard(kind)'
    PROVE  ControlInv'
<1>1. /\ Heard("cooldown") => Heard("cooldown")'
      /\ Heard("released") => Heard("released")'
  OBVIOUS
<1>. HIDE DEF Heard
<1>. QED  BY <1>1 DEF ControlInv, Before

(* A transport that gives up owes nothing but what it has said. *)
LEMMA GivingUpKeeps ==
    ASSUME RouteInv, child.at \notin Ended, UNCHANGED <<clock, controller>>,
           NEW by \in Children, child' = Blocked(by),
           by.baseline = child.baseline, by.final = child.final, by.status = child.status,
           by.finishedAt = child.finishedAt,
           UNCHANGED core \/ \E call \in Calls : MoreToldBy(call),
           UNCHANGED ait \/ \E notice \in Notices : ait' = Append(ait, notice),
           UNCHANGED events \/ ResetStages,
           observer' \in {None, "running", "exited"},
           UNCHANGED core \/ UNCHANGED ait
    PROVE  RouteInv'
<1>. USE DEF RouteInv, TransportInv
<1>1. /\ child' \in Children /\ child'.at = "cleanup" /\ child'.baseline = child.baseline
      /\ child'.final = child.final /\ child'.status = "blocked"
      /\ child'.finishedAt = child.finishedAt
  BY BlockedFacts DEF CountInv
<1>2. core' \in Seq(Calls) /\ \A kind : Heard(kind) => Heard(kind)'
  BY CoreGrows
<1>3. ait' \in Seq(Notices)
  BY NoticeAppendFacts DEF RouteTypes
<1>4. RouteTypes'
  <2>1. events' \in [cooldown : BOOLEAN, released : BOOLEAN]
    <3>1. CASE UNCHANGED events
      BY <3>1 DEF RouteTypes
    <3>2. CASE ResetStages
      BY <3>2 DEF ResetStages
    <3>. QED  BY <3>1, <3>2
  <2>2. core' \in Seq(Calls)
    BY <1>2
  <2>3. clock' \in Nat /\ controller' \in Controllers
    BY DEF RouteTypes
  <2>. QED  BY <1>1, <1>3, <2>1, <2>2, <2>3 DEF RouteTypes
<1>5. StoryInv'
  <2>1. Story(core, ait, child.baseline)'
    <3>1. Story(core', ait, child.baseline)
      <4>1. CASE UNCHANGED core
        BY <4>1 DEF StoryInv
      <4>2. CASE \E call \in Calls : MoreToldBy(call)
        <5>1. PICK call \in Calls : MoreToldBy(call)
          BY <4>2
        <5>. QED  BY <5>1, StoryGoesOn DEF RouteTypes, StoryInv, MoreToldBy
      <4>. QED  BY <4>1, <4>2
    <3>2. CASE UNCHANGED ait
      BY <1>1, <3>1, <3>2
    <3>3. CASE \E notice \in Notices : ait' = Append(ait, notice)
      BY <1>1, <1>2, <1>3, <3>1, <3>3, StoryStays DEF RouteTypes
    <3>. QED  BY <3>2, <3>3
  <2>. QED  BY <1>1, <2>1 DEF StoryInv, Telling, Observing, Ended
<1>6. StageInv'
  <2>1. events' = events \/ events' = [cooldown |-> FALSE, released |-> FALSE]
    BY DEF ResetStages
  <2>2. /\ Heard("cooldown") => Heard("cooldown")'
        /\ Heard("released") => Heard("released")'
    BY <1>2
  <2>. QED  BY <1>1, <2>1, <2>2 DEF StageInv, Telling, Ended
<1>7. CountInv'
  BY <1>1 DEF CountInv, Ended
<1>8. ControlInv'
  BY <1>1, <1>2, ControlStays DEF Ended
<1>. QED  BY <1>4, <1>5, <1>6, <1>7, <1>8

-----------------------------------------------------------------------------
(* The transport, step by step *)

LEMMA LastNoticeIsHeard ==
    ASSUME RouteTypes, Story(core, ait, child.baseline), core # <<>>
    PROVE  /\ Heard(LastNotice(core).kind)
           /\ ~IsObservation(core[Len(core)]) => LastNotice(core) = core[Len(core)]
<1>1. Len(core) \in Nat \ {0} /\ DOMAIN core = 1 .. Len(core) /\ Len(core) \in DOMAIN core
  BY EmptySeq DEF RouteTypes
<1>2. Right(core, ait, child.baseline, Len(core))
  BY <1>1 DEF Story
<1>3. Len(core) + 1 - 1 = Len(core) /\ Len(core) + 1 - 2 = Len(core) - 1
  BY <1>1
<1>4. CASE IsObservation(core[Len(core)])
  <2>1. Len(core) - 1 \in DOMAIN core /\ LastNotice(core) = core[Len(core) - 1]
    BY <1>1, <1>2, <1>3, <1>4 DEF Right, LastNotice, Prior
  <2>. QED  BY <1>4, <2>1 DEF Heard
<1>5. CASE ~IsObservation(core[Len(core)])
  <2>1. LastNotice(core) = core[Len(core)]
    BY <1>3, <1>5 DEF LastNotice, Prior
  <2>. QED  BY <1>1, <2>1 DEF Heard
<1>. QED  BY <1>4, <1>5

LEMMA StutterKeeps == RouteInv /\ UNCHANGED routeVars => RouteInv'
  BY DEF RouteInv, TransportInv, routeVars, RouteTypes, StoryInv, StageInv, CountInv, ControlInv,
         Telling, Observing, Tells, Followed, Heard, Alone, Before

LEMMA StartKeeps == RouteInv /\ Start => RouteInv'
<1>. SUFFICES ASSUME RouteInv, Start PROVE RouteInv'
  OBVIOUS
<1>. USE DEF RouteInv, TransportInv
<1>1. CASE Throw
  BY <1>1, GivingUpKeeps DEF Start, Transport, Throw, RouteTypes, Ended
<1>. DEFINE base == IF ait = <<>> THEN NoLease ELSE Last(ait).lease
<1>2. CASE child' = [Counted EXCEPT !.at = "poll", !.ordinal = Len(ait), !.baseline = base]
  <2>1. base \in Leases \cup {NoLease} /\ Len(ait) \in Nat
    <3>1. ait # <<>> => ait[Len(ait)] \in Notices
      BY EmptySeq DEF RouteTypes
    <3>2. ait # <<>> => ait[Len(ait)].lease \in Leases
      BY <3>1 DEF Notices
    <3>. QED  BY <3>2 DEF RouteTypes, Last
  <2>. HIDE DEF base
  <2>2. CountedAs(Counted) /\ child' \in Children
    BY <1>2, <2>1, CountedFacts DEF CountedAs, Children, Places
  <2>3. RouteTypes'
    BY <2>2 DEF RouteTypes, Start
  <2>4. /\ child'.at = "poll" /\ child'.lease = NoLease /\ child'.final = None
        /\ child'.ordinal = Len(ait) /\ core = <<>> /\ child.at = "baseline"
        /\ child'.status = child.status /\ child'.finishedAt = child.finishedAt
        /\ child'.observations = child.observations /\ child'.ingests = child.ingests
    BY <1>2, <2>2 DEF Start, Transport, StoryInv, CountedAs, Children
  <2>5. StoryInv'
    BY <2>4 DEF StoryInv, Story, Start, Telling, Observing, Ended
  <2>6. StageInv'
    BY <2>4 DEF StageInv, Start, Telling, Heard, Ended, None
  <2>7. CountInv'
    <3>1. ~Telling' /\ ~Observing' /\ ~Observing
      BY <2>4 DEF Telling, Observing
    <3>2. Alone(child.final) => Alone(child.final)'
        BY <2>4 DEF Alone, Start, StoryInv
    <3>. QED  BY <2>4, <3>1, <3>2 DEF CountInv, Start, Ended
  <2>8. ControlInv'
    BY <2>4, ControlStays DEF Start, Heard
  <2>. QED  BY <2>3, <2>5, <2>6, <2>7, <2>8
<1>. QED  BY <1>1, <1>2 DEF Start

LEMMA CountingKeeps ==
    ASSUME RouteInv, child.at \notin Ended, child' = Counted,
           UNCHANGED <<clock, ait, core, observer, events, controller>>
    PROVE  RouteInv'
<1>. USE DEF RouteInv, TransportInv
<1>1. CountedAs(child')
  BY CountedFacts
<1>2. RouteTypes'
  BY <1>1 DEF RouteTypes, CountedAs
<1>3. StoryInv'
  BY <1>1 DEF StoryInv, CountedAs, Telling, Observing, Tells, Followed
<1>4. StageInv'
  BY <1>1 DEF StageInv, CountedAs, Telling, Heard
<1>5. CountInv'
  BY <1>1 DEF CountInv, CountedAs, Telling, Observing, Alone
<1>6. ControlInv'
  BY <1>1, ControlStays DEF CountedAs, Heard, Ended
<1>. QED  BY <1>2, <1>3, <1>4, <1>5, <1>6

LEMMA PollKeeps == RouteInv /\ Poll => RouteInv'
<1>. SUFFICES ASSUME RouteInv, Poll PROVE RouteInv'
  OBVIOUS
<1>. USE DEF RouteInv, TransportInv
<1>1. CASE child' = Counted /\ UNCHANGED ait
  BY <1>1, CountingKeeps DEF Poll, Transport, Ended
<1>2. CASE /\ Throw \/ child' = Blocked(Counted)
           /\ UNCHANGED ait \/ \E notice \in Notices : ait' = Append(ait, notice)
  <2>1. CASE Throw
    BY <1>2, <2>1, GivingUpKeeps DEF Poll, Transport, Throw, RouteTypes, Ended
  <2>2. CASE child' = Blocked(Counted)
    <3>1. CountedAs(Counted)
      BY CountedFacts
    <3>. QED  BY <1>2, <2>2, <3>1, GivingUpKeeps DEF Poll, Transport, RouteTypes, Ended, CountedAs
  <2>. QED  BY <1>2, <2>1, <2>2
<1>3. ASSUME NEW notice \in Notices, ait' = Append(ait, notice), Resolves(notice),
             child.ingests < MaxIngests,
             child' = [Counted EXCEPT !.at = "lifecycle", !.notice = notice.state,
                                      !.lease = notice.lease, !.phase = notice.state]
      PROVE  RouteInv'
  <2>1. notice.lease \in Leases /\ notice.state \in States
        /\ notice = [lease |-> notice.lease, state |-> notice.state]
    BY DEF Notices
  <2>2. /\ child.at = "poll" /\ child'.at = "lifecycle" /\ child' \in Children
        /\ child'.lease = notice.lease /\ child'.notice = notice.state
        /\ child'.phase = notice.state /\ child'.ordinal = child.ordinal
        /\ child'.baseline = child.baseline /\ child'.final = child.final
        /\ child'.status = child.status /\ child'.finishedAt = child.finishedAt
        /\ child'.observations = child.observations /\ child'.ingests = child.ingests
    <3>1. CountedAs(Counted) /\ child.at = "poll"
      BY CountedFacts DEF Poll, Transport
    <3>. QED  BY <1>3, <2>1, <3>1 DEF CountedAs, Children, Places
  <2>3. UNCHANGED <<clock, core, observer, events, controller>>
    BY DEF Poll
  <2>4. /\ ait' \in Seq(Notices) /\ Len(ait') = Len(ait) + 1 /\ ait'[Len(ait) + 1] = notice
        /\ Len(ait) \in Nat
    BY <1>3, NoticeAppendFacts DEF RouteTypes
  <2>5. RouteTypes'
    BY <2>2, <2>3, <2>4 DEF RouteTypes
  <2>6. /\ child.ordinal = Len(ait) /\ (core = <<>> <=> child.lease = NoLease)
        /\ core # <<>> => LastNotice(core) = Followed /\ child.final = child.phase
    BY <2>2 DEF StoryInv, Ended, Followed
  <2>7. Story(core, ait, child.baseline)'
    <3>1. Story(core, ait', child.baseline)
      BY <1>3, <2>4, StoryStays DEF RouteTypes, StoryInv
    <3>. QED  BY <2>2, <2>3, <3>1
  <2>8. Fits(core, ait', child.baseline, Tells')
    <3>1. Tells' = [kind |-> notice.state, lease |-> notice.lease, ordinal |-> Len(ait) + 1]
      BY <2>2, <2>6 DEF Tells
    <3>2. ~IsObservation(Tells')
      BY <2>1, <3>1 DEF IsObservation, States
    <3>3. core # <<>> => Follows(LastNotice(core), Tells')
      BY <1>3, <2>6, <3>1 DEF Follows, Followed, Resolves
    <3>4. core = <<>> => notice.state = "handoff_accepted" /\ New(notice.lease, child.baseline)
      BY <1>3, <2>1, <2>6, RouteAssumption DEF Resolves, Replays, New
    <3>. QED  BY <2>1, <2>4, <3>1, <3>2, <3>3, <3>4 DEF Fits
  <2>9. StoryInv'
    BY <2>1, <2>2, <2>3, <2>4, <2>6, <2>7, <2>8 DEF StoryInv, Telling, Observing, Ended
  <2>10. notice.state = "released" => events.cooldown
    <3>1. notice.state = "released" => child.lease \in Leases /\ child.phase = "cooldown"
      BY <1>3, <2>1 DEF Resolves
    <3>2. notice.state = "released" => child.final = "cooldown"
      BY <2>6, <3>1, RouteAssumption
    <3>. QED  BY <2>2, <3>2 DEF StageInv
  <2>11. StageInv'
    BY <2>2, <2>3, <2>10 DEF StageInv, Telling, Heard, Ended
  <2>12. CountInv'
    <3>1. ~Observing' /\ ~Observing
      BY <2>2 DEF Observing
    <3>2. Alone(child.final) => Alone(child.final)'
      BY <2>2, <2>3 DEF Alone
    <3>. QED  BY <1>3, <2>2, <2>3, <3>1, <3>2 DEF CountInv, Ended
  <2>13. ControlInv'
    BY <2>2, <2>3, ControlStays DEF Heard
  <2>. QED  BY <2>5, <2>9, <2>11, <2>12, <2>13
<1>. QED  BY <1>1, <1>2, <1>3 DEF Poll

(* A call to Core is under way: nothing the transport knows changes. *)
LEMMA DispatchKeeps == RouteInv /\ (DispatchLifecycle \/ DispatchObservation) => RouteInv'
<1>. USE DEF RouteInv, TransportInv
<1>1. ASSUME RouteInv, NEW at \in {"lifecycle", "observation"}, Dispatch(at, at)
      PROVE  RouteInv'
  <2>1. CASE Throw
    BY <1>1, <2>1, GivingUpKeeps DEF Dispatch, Transport, Throw, RouteTypes, Ended
  <2>2. CASE child' = [child EXCEPT !.at = "ack", !.pending = at]
    <3>1. /\ child.at = at /\ child'.at = "ack" /\ child'.pending = at /\ child' \in Children
          /\ child'.lease = child.lease /\ child'.notice = child.notice
          /\ child'.phase = child.phase /\ child'.ordinal = child.ordinal
          /\ child'.baseline = child.baseline /\ child'.final = child.final
          /\ child'.status = child.status /\ child'.finishedAt = child.finishedAt
          /\ child'.observations = child.observations /\ child'.ingests = child.ingests
      <4>1. child \in Children /\ child.at = at
        BY <1>1 DEF Dispatch, Transport, RouteTypes
      <4>2. "ack" \in Places /\ at \in {None, "lifecycle", "observation"}
        BY DEF Places
      <4>. QED  BY <2>2, <4>1, <4>2 DEF Children
    <3>2. UNCHANGED <<clock, ait, core, observer, events, controller>>
      BY <1>1 DEF Dispatch
    <3>3. (Telling <=> at = "lifecycle") /\ (Telling' <=> at = "lifecycle")
          /\ (Observing <=> at = "observation") /\ (Observing' <=> at = "observation")
      BY <3>1 DEF Telling, Observing
    <3>4. RouteTypes'
      BY <1>1, <3>1, <3>2 DEF RouteTypes
    <3>5. StoryInv'
      BY <1>1, <3>1, <3>2, <3>3 DEF StoryInv, Ended, None, Tells, Followed
    <3>6. StageInv'
      BY <1>1, <3>1, <3>2, <3>3 DEF StageInv, Heard, Ended
    <3>7. CountInv'
      <4>1. Alone(child.final) => Alone(child.final)'
        BY <3>1, <3>2 DEF Alone
      <4>. QED  BY <1>1, <3>1, <3>2, <3>3, <4>1 DEF CountInv, Ended
    <3>8. ControlInv'
      BY <1>1, <3>1, <3>2, ControlStays DEF Heard
    <3>. QED  BY <3>4, <3>5, <3>6, <3>7, <3>8
  <2>. QED  BY <1>1, <2>1, <2>2 DEF Dispatch
<1>. QED  BY <1>1 DEF DispatchLifecycle, DispatchObservation

(* The notice Core receives is the one the transport is about to tell. *)
LEMMA TellingFacts ==
    ASSUME RouteInv, Telling
    PROVE  /\ Received(child.notice) = Append(core, Tells) /\ Tells \in Calls
           /\ ~IsObservation(Tells) /\ Fits(core, ait, child.baseline, Tells)
           /\ child.at \notin Ended /\ child.at \notin {"exited", "killed"} /\ ~Observing
           /\ child.lease \in Leases /\ child.notice \in States
           /\ child.phase = child.notice /\ child.ordinal + 1 = Len(ait)
<1>1. child.lease \in Leases /\ child.notice \in States /\ Fits(core, ait, child.baseline, Tells)
      /\ child.phase = child.notice /\ child.ordinal + 1 = Len(ait)
  BY DEF RouteInv, TransportInv, StoryInv
<1>2. child.notice # "observation"
  BY <1>1 DEF States
<1>3. Tells \in Calls
  BY <1>1 DEF Tells, Calls, RouteInv, RouteTypes, Children
<1>. QED  BY <1>1, <1>2, <1>3 DEF Received, Tells, IsObservation, Telling, Observing, Ended

LEMMA LifecycleAcknowledgedKeeps == RouteInv /\ LifecycleAcknowledged => RouteInv'
<1>. SUFFICES ASSUME RouteInv, LifecycleAcknowledged PROVE RouteInv'
  OBVIOUS
<1>. USE DEF RouteInv, TransportInv
<1>1. Telling
  BY DEF LifecycleAcknowledged, Transport, Telling
<1>2. UNCHANGED <<clock, ait, observer, events, controller>>
  BY DEF LifecycleAcknowledged
<1>3. CASE core' \in {core, Received(child.notice)} /\ Throw
  <2>1. UNCHANGED core \/ MoreToldBy(Tells)
    BY <1>1, <1>3, TellingFacts DEF MoreToldBy
  <2>. QED  BY <1>1, <1>2, <1>3, <2>1, TellingFacts, GivingUpKeeps DEF Throw, RouteTypes
<1>4. CASE /\ core' = Received(child.notice)
           /\ child' = [child EXCEPT !.at = child.notice, !.pending = None, !.final = child.notice,
                                     !.ingests = @ + 1, !.ordinal = @ + 1]
  <2>1. MoreToldBy(Tells) /\ Tells \in Calls
    BY <1>1, <1>4, TellingFacts DEF MoreToldBy
  <2>2. core' \in Seq(Calls) /\ \A kind : Heard(kind) => Heard(kind)'
    BY <2>1, CoreGrows
  <2>3. /\ core' # <<>> /\ Len(core') = Len(core) + 1 /\ core'[Len(core) + 1] = Tells
        /\ \A k \in 1 .. Len(core) : core'[k] = core[k]
        /\ Len(core) \in Nat
    BY <2>1, AppendFacts DEF RouteTypes, MoreToldBy
  <2>4. Story(core', ait, child.baseline) /\ LastNotice(core') = Tells
    BY <1>1, <2>1, StoryGoesOn, TellingFacts DEF RouteTypes, StoryInv, MoreToldBy
  <2>5. child.notice \in States /\ child.lease \in Leases /\ child.phase = child.notice
        /\ child.ordinal + 1 = Len(ait) /\ ~Observing /\ child.at \notin Ended
    BY <1>1, TellingFacts
  <2>6. /\ child'.at = child.notice /\ child'.final = child.notice
        /\ child'.ingests = child.ingests + 1 /\ child'.ordinal = child.ordinal + 1
        /\ child'.baseline = child.baseline /\ child'.lease = child.lease
        /\ child'.phase = child.phase /\ child'.notice = child.notice
        /\ child'.status = child.status /\ child'.finishedAt = child.finishedAt
        /\ child'.observations = child.observations /\ child'.pending = None
    BY <1>4 DEF RouteTypes, Children
  <2>7. child' \in Children
    <3>1. child.notice \in Places \cap States /\ child.ingests + 1 \in Int /\ child.ordinal + 1 \in Nat
      BY <2>5 DEF RouteTypes, Children, States, Places
    <3>. QED  BY <1>4, <3>1 DEF RouteTypes, Children
  <2>8. RouteTypes'
    BY <1>2, <2>2, <2>7 DEF RouteTypes
  <2>9. ~Telling' /\ (Observing' <=> child.notice = "handoff_accepted")
    BY <2>5, <2>6 DEF Telling, Observing, States
  <2>10. core'[Len(core')] = Tells /\ ~IsObservation(core'[Len(core')])
    BY <1>1, <2>3, TellingFacts
  <2>11. StoryInv'
    <3>1. Story(core, ait, child.baseline)'
      BY <1>2, <2>4, <2>6
    <3>2. LastNotice(core') = Followed' /\ LastNotice(core').kind = child'.final
          /\ child'.lease # NoLease
      BY <2>4, <2>5, <2>6, RouteAssumption DEF Followed, Tells
    <3>. QED  BY <1>2, <2>3, <2>5, <2>6, <2>9, <2>10, <3>1, <3>2 DEF StoryInv, Ended, States
  <2>12. StageInv'
    <3>1. ~events.released /\ (child.notice = "released" => events.cooldown)
      BY <1>1, <2>5 DEF StageInv, Telling, Ended
    <3>2. Heard("cooldown") => Heard("cooldown")'
      BY <2>2
    <3>3. child.notice = "cooldown" \/ child.notice = "released" \/ child.notice = "handoff_accepted"
      BY <2>5 DEF States
    <3>. QED  BY <1>2, <2>6, <2>9, <3>1, <3>2, <3>3 DEF StageInv, Ended
  <2>13. CountInv'
    <3>1. Fits(core, ait, child.baseline, Tells) /\ Tells.kind = child.notice
          /\ ~IsObservation(Tells)
      BY <1>1, TellingFacts DEF Tells
    <3>2. core = <<>> => child.notice = "handoff_accepted"
      BY <3>1 DEF Fits
    <3>3. child.notice # "handoff_accepted" =>
             /\ child.notice = "cooldown" => child.final = "handoff_accepted"
             /\ child.notice = "released" => child.final = "cooldown"
      <4>1. core # <<>> => Follows(LastNotice(core), Tells) /\ child.final = LastNotice(core).kind
        BY <2>5, <3>1 DEF Fits, StoryInv
      <4>. QED  BY <3>1, <3>2, <4>1 DEF Follows
    <3>4. /\ child.ingests \in 0 .. MaxIngests /\ child.ingests < MaxIngests
          /\ child.observations \in Nat /\ child.status = "blocked"
          /\ core # <<>> => child.ingests >= ToldBy(child.final) - 1
          /\ child.observations = 0 => Len(core) = 0
          /\ child.observations = 1 => Alone(child.final)
      BY <1>1, <2>5 DEF CountInv
    <3>5. child.ingests + 1 >= ToldBy(child.notice) - 1
      BY <2>5, <3>2, <3>3, <3>4 DEF ToldBy, States
    <3>6. child.observations = 0 => Len(core') = 1 /\ child.notice = "handoff_accepted"
      BY <2>3, <3>2, <3>4, EmptySeq DEF RouteTypes
    <3>7. child.observations = 1 /\ child.notice # "handoff_accepted" => Alone(child.notice)'
      <4>. SUFFICES ASSUME child.observations = 1, child.notice # "handoff_accepted"
                    PROVE  Alone(child.notice)'
        OBVIOUS
      <4>1. Alone(child.final)
        BY <3>4
      <4>2. CASE child.notice = "cooldown"
        BY <2>3, <2>6, <3>1, <3>3, <4>1, <4>2 DEF Alone, ToldBy
      <4>3. CASE child.notice = "released"
        BY <2>3, <2>6, <3>1, <3>3, <4>1, <4>3 DEF Alone, ToldBy
      <4>. QED  BY <2>5, <4>2, <4>3 DEF States
    <3>8. Alone(child.notice)' => Alone(child.final)'
      BY <2>6 DEF Alone
    <3>9. MaxIngests \in Nat
      BY DeadlineTypes
    <3>10. child'.at \notin Ended
      BY <2>5, <2>6 DEF Ended, States
    <3>. QED  BY <1>2, <2>5, <2>6, <2>9, <3>4, <3>5, <3>6, <3>7, <3>8, <3>9, <3>10 DEF CountInv, Ended
  <2>14. ControlInv'
    BY <1>2, <2>2, <2>5, <2>6, ControlStays DEF Ended, States
  <2>. QED  BY <2>8, <2>11, <2>12, <2>13, <2>14
<1>. QED  BY <1>3, <1>4 DEF LifecycleAcknowledged

LEMMA HandoffKeeps == RouteInv /\ Handoff => RouteInv'
<1>. SUFFICES ASSUME RouteInv, Handoff PROVE RouteInv'
  OBVIOUS
<1>. USE DEF RouteInv, TransportInv
<1>. DEFINE restarted == [child EXCEPT !.joinReady = FALSE]
<1>1. /\ UNCHANGED <<clock, ait, core, controller>> /\ child.at = "handoff_accepted"
      /\ child.at \notin Ended /\ child \in Children /\ observer \in {None, "running", "exited"}
  BY DEF Handoff, Transport, Ended, RouteTypes
<1>2. /\ restarted \in Children /\ restarted.baseline = child.baseline
      /\ restarted.final = child.final /\ restarted.status = child.status
      /\ restarted.finishedAt = child.finishedAt
  BY <1>1 DEF Children
<1>3. /\ [restarted EXCEPT !.clear = FALSE] \in Children
      /\ [restarted EXCEPT !.clear = FALSE].baseline = child.baseline
      /\ [restarted EXCEPT !.clear = FALSE].final = child.final
      /\ [restarted EXCEPT !.clear = FALSE].status = child.status
      /\ [restarted EXCEPT !.clear = FALSE].finishedAt = child.finishedAt
  BY <1>1 DEF Children
<1>. HIDE DEF restarted
<1>4. CASE Throw /\ UNCHANGED <<events, observer>>
  BY <1>1, <1>4, GivingUpKeeps DEF Throw
<1>5. CASE ResetStages /\ child' = Blocked(restarted) /\ observer' = None
  BY <1>1, <1>2, <1>5, GivingUpKeeps
<1>6. CASE ResetStages /\ child' = Blocked([restarted EXCEPT !.clear = FALSE]) /\ observer' = None
  BY <1>1, <1>3, <1>6, GivingUpKeeps
<1>7. CASE ResetStages /\ child' = [restarted EXCEPT !.at = "observe"] /\ observer' = "running"
  <2>1. /\ child' \in Children /\ child'.at = "observe"
        /\ child'.lease = child.lease /\ child'.notice = child.notice
        /\ child'.phase = child.phase /\ child'.ordinal = child.ordinal
        /\ child'.baseline = child.baseline /\ child'.final = child.final
        /\ child'.status = child.status /\ child'.finishedAt = child.finishedAt
        /\ child'.observations = child.observations /\ child'.ingests = child.ingests
    BY <1>1, <1>7 DEF restarted, Children, Places
  <2>2. events' = [cooldown |-> FALSE, released |-> FALSE]
    BY <1>7 DEF ResetStages
  <2>3. ~Telling /\ ~Telling' /\ Observing /\ Observing'
    BY <1>1, <2>1 DEF Telling, Observing
  <2>4. RouteTypes'
    <3>1. events' \in [cooldown : BOOLEAN, released : BOOLEAN]
      BY <2>2
    <3>. QED  BY <1>1, <1>7, <2>1, <3>1 DEF RouteTypes
  <2>5. StoryInv'
    BY <1>1, <2>1, <2>3 DEF StoryInv, Ended, Followed
  <2>6. StageInv'
    BY <2>1, <2>2, <2>3 DEF StageInv
  <2>7. CountInv'
    BY <1>1, <2>1, <2>3 DEF CountInv, Ended
  <2>8. ControlInv'
    BY <1>1, <2>1, ControlStays DEF Heard
  <2>. QED  BY <2>4, <2>5, <2>6, <2>7, <2>8
<1>. QED  BY <1>4, <1>5, <1>6, <1>7 DEF Handoff, restarted

(* The transport moves on and knows no more than before. *)
LEMMA AwaitObserverKeeps == RouteInv /\ AwaitObserver => RouteInv'
<1>. SUFFICES ASSUME RouteInv, AwaitObserver PROVE RouteInv'
  OBVIOUS
<1>. USE DEF RouteInv, TransportInv
<1>1. UNCHANGED <<clock, ait, core, observer, events, controller>> /\ child.at = "observe"
  BY DEF AwaitObserver, Transport
<1>2. CASE Throw
  BY <1>1, <1>2, GivingUpKeeps DEF Throw, RouteTypes, Ended
<1>3. CASE Left("observation")
  <2>1. /\ child' \in Children /\ child'.at = "observation"
        /\ child'.lease = child.lease /\ child'.notice = child.notice
        /\ child'.phase = child.phase /\ child'.ordinal = child.ordinal
        /\ child'.baseline = child.baseline /\ child'.final = child.final
        /\ child'.status = child.status /\ child'.finishedAt = child.finishedAt
        /\ child'.observations = child.observations /\ child'.ingests = child.ingests
    BY <1>3 DEF Left, RouteTypes, Children, Places
  <2>2. ~Telling /\ ~Telling' /\ Observing /\ Observing'
    BY <1>1, <2>1 DEF Telling, Observing
  <2>3. RouteTypes'
    BY <1>1, <2>1 DEF RouteTypes
  <2>4. StoryInv'
    BY <1>1, <2>1, <2>2 DEF StoryInv, Ended, Followed
  <2>5. StageInv'
    BY <1>1, <2>1, <2>2 DEF StageInv, Heard, Ended
  <2>6. CountInv'
    BY <1>1, <2>1, <2>2 DEF CountInv, Ended
  <2>7. ControlInv'
    BY <1>1, <2>1, ControlStays DEF Heard
  <2>. QED  BY <2>3, <2>4, <2>5, <2>6, <2>7
<1>. QED  BY <1>2, <1>3 DEF AwaitObserver

LEMMA ObservationAcknowledgedKeeps == RouteInv /\ ObservationAcknowledged => RouteInv'
<1>. SUFFICES ASSUME RouteInv, ObservationAcknowledged PROVE RouteInv'
  OBVIOUS
<1>. USE DEF RouteInv, TransportInv
<1>. DEFINE counted == [child EXCEPT !.pending = None, !.observations = @ + 1, !.joinReady = TRUE]
            call == [kind |-> "observation", lease |-> child.lease, ordinal |-> child.ordinal]
<1>1. /\ UNCHANGED <<clock, ait, observer, events, controller>> /\ Observing /\ ~Telling
      /\ child.at = "ack" /\ child.at \notin Ended /\ child \in Children
      /\ observer \in {None, "running", "exited"}
  BY DEF ObservationAcknowledged, Transport, Observing, Telling, Ended, RouteTypes
<1>2. /\ child.ordinal = Len(ait) /\ core # <<>> /\ LastNotice(core) = Followed
      /\ child.phase = "handoff_accepted" /\ ~IsObservation(core[Len(core)])
      /\ child.final = "handoff_accepted" /\ core[Len(core)] = Followed
      /\ child.lease # NoLease /\ Story(core, ait, child.baseline)
  BY <1>1, LastNoticeIsHeard DEF StoryInv, Followed
<1>3. call \in Calls
  <2>1. child.lease \in Leases /\ child.ordinal \in Nat
    BY <1>2 DEF RouteTypes, Children
  <2>. QED  BY <2>1 DEF Calls
<1>4. Received("observation") = Append(core, call)
  BY DEF Received
<1>5. Len(core) \in Nat \ {0} /\ DOMAIN core = 1 .. Len(core)
  BY <1>2, EmptySeq DEF RouteTypes
<1>6. Fits(core, ait, child.baseline, call)
  <2>1. core[Len(core)].ordinal \in 1 .. Len(ait)
    BY <1>2, <1>5 DEF Story
  <2>. QED  BY <1>2, <2>1 DEF Fits, Followed, IsObservation
<1>7. /\ counted \in Children /\ counted.baseline = child.baseline
      /\ counted.final = child.final /\ counted.status = child.status
      /\ counted.finishedAt = child.finishedAt
      /\ counted.lease = child.lease /\ counted.notice = child.notice
      /\ counted.phase = child.phase /\ counted.ordinal = child.ordinal
      /\ counted.observations = child.observations + 1 /\ counted.ingests = child.ingests
  <2>1. child.observations + 1 \in Int
    BY <1>1 DEF Children
  <2>2. counted \in Children
    BY <1>1, <2>1 DEF Children
  <2>. QED  BY <1>1, <2>2 DEF Children
<1>. HIDE DEF counted
<1>8. CASE core' \in {core, Received("observation")} /\ Throw
  BY <1>1, <1>3, <1>4, <1>6, <1>8, GivingUpKeeps DEF Throw, MoreToldBy
<1>9. CASE core' = Received("observation") /\ child' = Blocked(counted)
  BY <1>1, <1>3, <1>4, <1>6, <1>7, <1>9, GivingUpKeeps DEF MoreToldBy
<1>10. CASE /\ core' = Received("observation")
            /\ child' = [counted EXCEPT !.at = "poll", !.armed = TRUE]
  <2>1. MoreToldBy(call)
    BY <1>4, <1>6, <1>10 DEF MoreToldBy
  <2>2. core' \in Seq(Calls) /\ \A kind : Heard(kind) => Heard(kind)'
    BY <1>3, <2>1, CoreGrows
  <2>3. /\ core' # <<>> /\ Len(core') = Len(core) + 1 /\ core'[Len(core) + 1] = call
        /\ \A k \in 1 .. Len(core) : core'[k] = core[k]
    BY <1>3, <2>1, AppendFacts DEF RouteTypes, MoreToldBy
  <2>4. Story(core', ait, child.baseline) /\ LastNotice(core') = Followed
    BY <1>2, <1>3, <2>1, StoryGoesOn DEF RouteTypes, MoreToldBy, IsObservation
  <2>5. /\ child' \in Children /\ child'.at = "poll"
        /\ child'.lease = child.lease /\ child'.notice = child.notice
        /\ child'.phase = child.phase /\ child'.ordinal = child.ordinal
        /\ child'.baseline = child.baseline /\ child'.final = child.final
        /\ child'.status = child.status /\ child'.finishedAt = child.finishedAt
        /\ child'.observations = child.observations + 1 /\ child'.ingests = child.ingests
    BY <1>7, <1>10 DEF Children, Places
  <2>6. ~Telling' /\ ~Observing'
    BY <2>5 DEF Telling, Observing
  <2>7. RouteTypes'
    BY <1>1, <2>2, <2>5 DEF RouteTypes
  <2>8. StoryInv'
    <3>1. Story(core, ait, child.baseline)'
      BY <1>1, <2>4, <2>5
    <3>2. Followed' = Followed /\ LastNotice(core') = Followed'
      BY <2>4, <2>5 DEF Followed
    <3>3. child'.final = LastNotice(core').kind
      BY <1>2, <2>4, <2>5 DEF Followed
    <3>. QED  BY <1>1, <1>2, <2>3, <2>5, <2>6, <3>1, <3>2, <3>3 DEF StoryInv, Ended
  <2>9. StageInv'
    <3>1. ~events.released /\ ~events.cooldown
      BY <1>1, <1>2 DEF StageInv, Ended
    <3>. QED  BY <1>1, <1>2, <2>5, <2>6, <3>1 DEF StageInv, Ended
  <2>10. CountInv'
    <3>1. /\ child.observations \in Nat /\ child.ingests \in 0 .. MaxIngests
          /\ child.ingests >= ToldBy(child.final) - 1 /\ child.status = "blocked"
          /\ child.observations = 0 => Len(core) = 1
      BY <1>1, <1>2 DEF CountInv
    <3>2. child'.observations = 1 => Alone(child.final)'
      <4>. SUFFICES ASSUME child'.observations = 1 PROVE Alone(child.final)'
        OBVIOUS
      <4>1. Len(core) = 1 /\ core[1] = Followed
        BY <1>2, <2>5, <3>1
      <4>2. Len(core') = 2 /\ core'[1].kind = "handoff_accepted" /\ core'[2].kind = "observation"
        BY <1>2, <2>3, <4>1 DEF Followed
      <4>3. child'.final = "handoff_accepted"
        BY <1>2, <2>5
      <4>. QED  BY <4>2, <4>3 DEF Alone, ToldBy
    <3>. QED  BY <1>1, <2>5, <2>6, <3>1, <3>2 DEF CountInv, Ended
  <2>11. ControlInv'
    BY <1>1, <2>2, <2>5, ControlStays
  <2>. QED  BY <2>7, <2>8, <2>9, <2>10, <2>11
<1>. QED  BY <1>8, <1>9, <1>10 DEF ObservationAcknowledged, counted

LEMMA SignalKeeps == RouteInv /\ (SignalCooldown \/ SignalReleased) => RouteInv'
<1>. USE DEF RouteInv, TransportInv
<1>1. ASSUME RouteInv, NEW state \in {"cooldown", "released"},
             NEW next \in {"poll", "finish"}, next = "poll" <=> state = "cooldown",
             SignalStage(state, state, next)
      PROVE  RouteInv'
  <2>1. /\ UNCHANGED <<clock, ait, core, observer, controller>> /\ child.at = state
        /\ child \in Children /\ child.at \notin Ended
    BY <1>1 DEF SignalStage, Transport, RouteTypes, Ended
  <2>2. CASE UNCHANGED events /\ Throw
    BY <1>1, <2>1, <2>2, GivingUpKeeps DEF Throw, RouteTypes
  <2>3. CASE events' = [events EXCEPT ![state] = TRUE] /\ Left(next)
    <3>1. /\ child' \in Children /\ child'.at = next
          /\ child'.lease = child.lease /\ child'.notice = child.notice
          /\ child'.phase = child.phase /\ child'.ordinal = child.ordinal
          /\ child'.baseline = child.baseline /\ child'.final = child.final
          /\ child'.status = child.status /\ child'.finishedAt = child.finishedAt
          /\ child'.observations = child.observations /\ child'.ingests = child.ingests
      <4>1. next \in Places
        BY DEF Places
      <4>. QED  BY <2>1, <2>3, <4>1 DEF Left, Children
    <3>2. ~Telling /\ ~Telling' /\ ~Observing /\ ~Observing'
      BY <2>1, <3>1 DEF Telling, Observing
    <3>3. /\ core # <<>> /\ LastNotice(core) = Followed /\ child.phase = state
          /\ child.final = state /\ Heard(state)
      BY <1>1, <2>1, LastNoticeIsHeard DEF StoryInv, Followed, Ended
    <3>4. /\ events' \in [cooldown : BOOLEAN, released : BOOLEAN]
          /\ state = "cooldown" => events'.cooldown /\ events'.released = events.released
          /\ state = "released" => events'.released /\ events'.cooldown = events.cooldown
      BY <1>1, <2>3 DEF RouteTypes
    <3>5. RouteTypes'
      BY <1>1, <2>1, <3>1, <3>4 DEF RouteTypes
    <3>6. StoryInv'
      BY <1>1, <2>1, <3>1, <3>2, <3>3 DEF StoryInv, Ended, Followed
    <3>7. StageInv'
      <4>1. \A kind : Heard(kind) <=> Heard(kind)'
        BY <2>1 DEF Heard
      <4>2. Heard("cooldown")' <=> Heard("cooldown")
        BY <4>1
      <4>3. Heard("released")' <=> Heard("released")
        BY <4>1
      <4>4. CASE state = "cooldown"
        <5>1. ~events.released
          BY <1>1, <2>1, <4>4 DEF StageInv, Ended
        <5>. QED  BY <1>1, <2>1, <3>1, <3>2, <3>3, <3>4, <4>2, <4>3, <4>4, <5>1 DEF StageInv, Ended
      <4>5. CASE state = "released"
        <5>1. events.cooldown
          BY <1>1, <2>1, <4>5 DEF StageInv
        <5>. QED  BY <1>1, <2>1, <3>1, <3>2, <3>3, <3>4, <4>2, <4>3, <4>5, <5>1 DEF StageInv, Ended
      <4>. QED  BY <4>4, <4>5
    <3>8. CountInv'
      <4>1. Alone(child.final) => Alone(child.final)'
        BY <2>1, <3>1 DEF Alone
      <4>. QED  BY <1>1, <2>1, <3>1, <3>2, <4>1 DEF CountInv, Ended
    <3>9. ControlInv'
      BY <1>1, <2>1, <3>1, ControlStays DEF Heard
    <3>. QED  BY <3>5, <3>6, <3>7, <3>8, <3>9
  <2>. QED  BY <1>1, <2>2, <2>3 DEF SignalStage
<1>. QED  BY <1>1 DEF SignalCooldown, SignalReleased

LEMMA FinishKeeps == RouteInv /\ Finish => RouteInv'
<1>. SUFFICES ASSUME RouteInv, Finish PROVE RouteInv'
  OBVIOUS
<1>. USE DEF RouteInv, TransportInv
<1>1. /\ UNCHANGED <<clock, ait, core, observer, events, controller>> /\ child.at = "finish"
      /\ child \in Children /\ child.at \notin Ended
  BY DEF Finish, Transport, RouteTypes, Ended
<1>2. CASE Throw
  BY <1>1, <1>2, GivingUpKeeps DEF Throw, RouteTypes
<1>3. CASE /\ child.joinReady /\ child.observations >= 1
           /\ child' = [child EXCEPT !.at = "cleanup", !.status = "completed"]
  <2>1. /\ child' \in Children /\ child'.at = "cleanup"
        /\ child'.baseline = child.baseline /\ child'.final = child.final
        /\ child'.status = "completed" /\ child'.finishedAt = child.finishedAt
        /\ child'.observations = child.observations /\ child'.ingests = child.ingests
        /\ child'.joinReady = child.joinReady
    BY <1>1, <1>3 DEF Children, Places, Ended
  <2>2. ~Telling /\ ~Telling' /\ ~Observing /\ ~Observing'
    BY <1>1, <2>1 DEF Telling, Observing
  <2>3. RouteTypes'
    BY <1>1, <2>1 DEF RouteTypes
  <2>4. StoryInv'
    BY <1>1, <2>1, <2>2 DEF StoryInv, Ended
  <2>5. StageInv'
    BY <1>1, <2>1, <2>2 DEF StageInv, Heard, Ended
  <2>6. CountInv'
    <3>1. core # <<>> /\ child.final = "released"
      BY <1>1 DEF StoryInv, StageInv
    <3>2. child.ingests >= 3 /\ child.ingests \in 0 .. MaxIngests
      BY <1>1, <3>1 DEF CountInv, ToldBy
    <3>3. child.observations = 1 => Alone("released")'
      BY <1>1, <2>2, <3>1 DEF CountInv, Alone
    <3>. QED  BY <1>1, <1>3, <2>1, <2>2, <3>1, <3>2, <3>3, DeadlineTypes DEF CountInv, Ended
  <2>7. ControlInv'
    BY <1>1, <2>1, ControlStays DEF Heard
  <2>. QED  BY <2>3, <2>4, <2>5, <2>6, <2>7
<1>. QED  BY <1>2, <1>3 DEF Finish

LEMMA CleanupKeeps == RouteInv /\ Cleanup => RouteInv'
<1>. SUFFICES ASSUME RouteInv, Cleanup PROVE RouteInv'
  OBVIOUS
<1>. USE DEF RouteInv, TransportInv
<1>1. UNCHANGED <<clock, ait, core, events, controller>> /\ child.at = "cleanup" /\ child \in Children
  BY DEF Cleanup, Transport, RouteTypes
<1>2. PICK stopped \in BOOLEAN, closed \in BOOLEAN, legible \in BOOLEAN :
          /\ observer' = IF observer = "running" /\ ~stopped THEN observer ELSE None
          /\ LET clear == child.clear /\ closed /\ (observer # None => stopped)
             IN  child' = [child EXCEPT !.at = "exited", !.clear = clear, !.finishedAt = clock,
                                        !.legible = legible,
                                        !.status = IF clear THEN @ ELSE "blocked"]
  BY DEF Cleanup
<1>. DEFINE clear == child.clear /\ closed /\ (observer # None => stopped)
            legibly == legible
            status == IF clear THEN child.status ELSE "blocked"
<1>3. clear \in BOOLEAN /\ legibly \in BOOLEAN /\ status \in {"blocked", "completed"} /\ clock \in Nat
  BY <1>1 DEF Children, RouteTypes
<1>4. child' = [child EXCEPT !.at = "exited", !.clear = clear, !.finishedAt = clock,
                             !.legible = legibly, !.status = status]
  BY <1>1, <1>2 DEF Children
<1>5. clear => observer' = None
  BY <1>2 DEF None
<1>6. status = "completed" => child.status = "completed" /\ clear
  OBVIOUS
<1>. HIDE DEF clear, legibly, status
<1>7. /\ child' \in Children /\ child'.at = "exited" /\ child'.clear = clear
      /\ child'.baseline = child.baseline /\ child'.final = child.final
      /\ child'.status = status /\ child'.finishedAt = clock
      /\ child'.observations = child.observations /\ child'.ingests = child.ingests
      /\ child'.joinReady = child.joinReady
  <2>. DEFINE exited == [child EXCEPT !.at = "exited", !.clear = clear, !.legible = legibly]
  <2>1. exited \in Children
    BY <1>1, <1>3 DEF Children, Places, Ended
  <2>2. child' = [exited EXCEPT !.finishedAt = clock, !.status = status]
    BY <1>4
  <2>3. child' \in Children
    <3>. HIDE DEF exited
    <3>. QED  BY <1>3, <2>1, <2>2 DEF Children
  <2>. QED  BY <1>1, <1>4, <2>3 DEF Children
<1>8. ~Telling' /\ ~Observing'
  BY <1>7 DEF Telling, Observing
<1>9. RouteTypes'
  BY <1>1, <1>2, <1>7 DEF RouteTypes
<1>10. StoryInv'
  BY <1>1, <1>7, <1>8 DEF StoryInv, Ended
<1>11. StageInv'
  BY <1>1, <1>7, <1>8 DEF StageInv, Heard, Ended
<1>12. CountInv'
  <2>1. Alone("released")' <=> Alone("released")
    BY <1>1 DEF Alone
  <2>. QED  BY <1>1, <1>3, <1>5, <1>6, <1>7, <2>1 DEF CountInv, Ended
<1>13. ControlInv'
  BY <1>1, <1>7, ControlStays DEF Heard
<1>. QED  BY <1>9, <1>10, <1>11, <1>12, <1>13

LEMMA TransportKeeps == RouteInv /\ TransportNext => RouteInv'
  BY StartKeeps, PollKeeps, DispatchKeeps, LifecycleAcknowledgedKeeps, HandoffKeeps,
     AwaitObserverKeeps, ObservationAcknowledgedKeeps, SignalKeeps, FinishKeeps, CleanupKeeps
     DEF TransportNext

-----------------------------------------------------------------------------
(* Time and the observer *)

LEMMA TickKeeps == RouteInv /\ Tick => RouteInv'
<1>. SUFFICES ASSUME RouteInv, Tick PROVE RouteInv'
  OBVIOUS
<1>. USE DEF RouteInv, TransportInv
<1>1. /\ UNCHANGED <<ait, core, observer, events, child, controller>> /\ clock' = clock + 1
      /\ clock \in Nat /\ child.finishedAt \in Nat
  BY DEF Tick, RouteTypes, Children
<1>2. RouteTypes'
  BY <1>1 DEF RouteTypes
<1>3. StoryInv' /\ StageInv'
  BY <1>1 DEF StoryInv, StageInv, Telling, Observing, Tells, Followed, Heard
<1>4. CountInv'
  <2>1. child'.finishedAt <= clock'
    BY <1>1 DEF CountInv
  <2>. QED  BY <1>1, <2>1 DEF CountInv, Telling, Observing, Alone
<1>5. ControlInv'
  BY <1>1 DEF ControlInv, Heard, Before
<1>. QED  BY <1>2, <1>3, <1>4, <1>5

LEMMA ObserverExitsKeeps == RouteInv /\ ObserverExits => RouteInv'
<1>. SUFFICES ASSUME RouteInv, ObserverExits PROVE RouteInv'
  OBVIOUS
<1>. USE DEF RouteInv, TransportInv
<1>1. /\ UNCHANGED <<clock, ait, core, events, child, controller>>
      /\ observer = "running" /\ observer' = "exited"
  BY DEF ObserverExits
<1>2. RouteTypes'
  BY <1>1 DEF RouteTypes
<1>3. StoryInv' /\ StageInv'
  BY <1>1 DEF StoryInv, StageInv, Telling, Observing, Tells, Followed, Heard
<1>4. CountInv'
  BY <1>1 DEF CountInv, Telling, Observing, Alone, None
<1>5. ControlInv'
  BY <1>1 DEF ControlInv, Heard, Before
<1>. QED  BY <1>2, <1>3, <1>4, <1>5

-----------------------------------------------------------------------------
(* The controller *)

LEMMA KillTreeKeeps ==
    ASSUME RouteInv, KillTree, UNCHANGED <<clock, ait, core, events>>
    PROVE  /\ TransportInv' /\ child' \in Children /\ observer' \in {None, "running", "exited"}
           /\ child.at \in {"exited", "killed"} => UNCHANGED <<child, observer>>
<1>. USE DEF RouteInv, TransportInv
<1>1. CASE UNCHANGED <<child, observer>>
  <2>1. StoryInv' /\ StageInv'
    BY <1>1 DEF StoryInv, StageInv, Telling, Observing, Tells, Followed, Heard
  <2>2. CountInv'
    BY <1>1 DEF CountInv, Telling, Observing, Alone
  <2>. QED  BY <1>1, <2>1, <2>2 DEF RouteTypes
<1>2. CASE Running /\ Left("killed") /\ observer' \in {None, observer}
  <2>1. /\ child' \in Children /\ child'.at = "killed" /\ child.at \notin {"exited", "killed"}
        /\ child'.baseline = child.baseline /\ child'.final = child.final
        /\ child'.status = child.status /\ child'.finishedAt = child.finishedAt
        /\ child'.observations = child.observations /\ child'.ingests = child.ingests
        /\ child'.joinReady = child.joinReady
    BY <1>2 DEF Running, Left, RouteTypes, Children, Places, Ended
  <2>2. ~Telling' /\ ~Observing'
    BY <2>1 DEF Telling, Observing
  <2>3. StoryInv'
    BY <2>1, <2>2 DEF StoryInv, Ended
  <2>4. StageInv'
    BY <2>1, <2>2 DEF StageInv, Heard, Ended
  <2>5. CountInv'
    <3>1. Alone("released")' <=> Alone("released")
      BY DEF Alone
    <3>. QED  BY <2>1, <2>2, <3>1 DEF CountInv, Ended
  <2>. QED  BY <1>2, <2>1, <2>3, <2>4, <2>5 DEF RouteTypes
<1>. QED  BY <1>1, <1>2 DEF KillTree

(* A step of the controller by which it learns only what is so. *)
LEMMA OnlyControllerMoves ==
    ASSUME RouteInv, UNCHANGED <<clock, ait, core, observer, events, child>>,
           controller' \in Controllers, ControlInv'
    PROVE  RouteInv'
<1>. USE DEF RouteInv, TransportInv
<1>1. RouteTypes'
  BY DEF RouteTypes
<1>2. StoryInv' /\ StageInv'
  BY DEF StoryInv, StageInv, Telling, Observing, Tells, Followed, Heard
<1>3. CountInv'
  BY DEF CountInv, Telling, Observing, Alone
<1>. QED  BY <1>1, <1>2, <1>3

LEMMA AwaitArmKeeps == RouteInv /\ AwaitArm => RouteInv'
<1>. SUFFICES ASSUME RouteInv, AwaitArm PROVE RouteInv'
  OBVIOUS
<1>1. /\ UNCHANGED <<clock, ait, core, observer, events, child>> /\ controller \in Controllers
      /\ clock \in Nat /\ controller.at = "arm" /\ ControlInv
  BY DEF AwaitArm, Controller, RouteInv, RouteTypes
<1>2. CASE clock < PreparationDeadline /\ controller' = [controller EXCEPT !.at = "armed", !.since = clock]
  <2>1. controller' \in Controllers
    BY <1>1, <1>2 DEF Controllers
  <2>2. ControlInv'
    BY <1>1, <1>2 DEF ControlInv, Controllers, Heard, Before, Stages, None
  <2>. QED  BY <1>1, <2>1, <2>2, OnlyControllerMoves
<1>3. CASE Decided("unavailable")
  <2>1. controller' \in Controllers
    BY <1>1, <1>3 DEF Decided, Controllers
  <2>2. ControlInv'
    BY <1>1, <1>3 DEF Decided, ControlInv, Controllers, Heard, Before, Stages
  <2>. QED  BY <1>1, <2>1, <2>2, OnlyControllerMoves
<1>. QED  BY <1>2, <1>3 DEF AwaitArm

Waits == {"armed", "armed_between", "user", "completion", "completion_between", "wait", "peek",
          "peek_between"}

LEMMA ReadCooldownKeeps ==
    ASSUME RouteInv, NEW from \in Waits, NEW between \in Waits, NEW next \in Waits,
           ReadCooldown(from, between, next)
    PROVE  RouteInv'
<1>1. /\ UNCHANGED <<clock, ait, core, observer, events, child>> /\ controller \in Controllers
      /\ controller.at = from /\ ControlInv /\ events.cooldown \in BOOLEAN
      /\ events.cooldown => Heard("cooldown")
  BY DEF ReadCooldown, Controller, RouteInv, TransportInv, StageInv, RouteTypes
<1>2. CASE Goes(next)
  <2>1. controller' \in Controllers
    BY <1>1, <1>2 DEF Goes, Controllers, Waits
  <2>2. ControlInv'
    BY <1>1, <1>2 DEF Goes, ControlInv, Controllers, Heard, Before, Stages, Waits
  <2>. QED  BY <1>1, <2>1, <2>2, OnlyControllerMoves
<1>3. CASE controller' = [controller EXCEPT !.at = between, !.sawCooldown = events.cooldown]
  <2>1. controller' \in Controllers
    BY <1>1, <1>3 DEF Controllers, Waits
  <2>2. ControlInv'
    BY <1>1, <1>3 DEF ControlInv, Controllers, Heard, Before, Stages, Waits
  <2>. QED  BY <1>1, <2>1, <2>2, OnlyControllerMoves
<1>. QED  BY <1>2, <1>3 DEF ReadCooldown

LEMMA ReadReleasedKeeps ==
    ASSUME RouteInv, NEW between \in Waits, NEW next \in Waits, ReadReleased(between, next)
    PROVE  RouteInv'
<1>1. /\ UNCHANGED <<clock, ait, core, observer, events, child>> /\ controller \in Controllers
      /\ controller.at = between /\ ControlInv
      /\ events.released => Heard("released")
      /\ controller.sawCooldown => Heard("cooldown")
  BY DEF ReadReleased, Controller, RouteInv, TransportInv, StageInv, ControlInv, RouteTypes
<1>2. CASE Decided("torn")
  <2>1. controller' \in Controllers
    BY <1>1, <1>2, RouteAssumption DEF Decided, Controllers, RouteInv, RouteTypes
  <2>2. ControlInv'
    BY <1>1, <1>2 DEF Decided, ControlInv, Controllers, Heard, Before, Stages
  <2>. QED  BY <1>1, <2>1, <2>2, OnlyControllerMoves
<1>3. CASE Goes(next)
  <2>1. controller' \in Controllers
    BY <1>1, <1>3 DEF Goes, Controllers, Waits
  <2>2. ControlInv'
    BY <1>1, <1>3 DEF Goes, ControlInv, Controllers, Heard, Before, Stages, Waits
  <2>. QED  BY <1>1, <2>1, <2>2, OnlyControllerMoves
<1>4. CASE controller' = [controller EXCEPT !.at = next,
                              !.stage = StageOf(controller.sawCooldown, events.released)]
  <2>. DEFINE stage == StageOf(controller.sawCooldown, events.released)
  <2>1. /\ stage \in Stages
        /\ stage = "cooldown_ack_before_release_ack" => Heard("cooldown")
        /\ stage = "release_ack_before_exit" => Heard("released")
    BY <1>1 DEF StageOf, Stages
  <2>. HIDE DEF stage
  <2>2. controller' = [controller EXCEPT !.at = next, !.stage = stage]
    BY <1>4 DEF stage
  <2>3. controller' \in Controllers
    BY <1>1, <2>1, <2>2 DEF Controllers, Waits
  <2>4. ControlInv'
    BY <1>1, <2>1, <2>2 DEF ControlInv, Controllers, Heard, Before, Stages, Waits
  <2>. QED  BY <1>1, <2>3, <2>4, OnlyControllerMoves
<1>. QED  BY <1>2, <1>3, <1>4 DEF ReadReleased

LEMMA UserPhaseKeeps == RouteInv /\ UserPhase => RouteInv'
<1>. SUFFICES ASSUME RouteInv, UserPhase PROVE RouteInv'
  OBVIOUS
<1>1. /\ UNCHANGED <<clock, ait, core, observer, events, child>> /\ controller \in Controllers
      /\ controller.at = "user" /\ ControlInv /\ clock \in Nat
  BY DEF UserPhase, Controller, RouteInv, RouteTypes
<1>2. CASE Goes("completion")
  <2>1. controller' \in Controllers
    BY <1>1, <1>2 DEF Goes, Controllers
  <2>2. ControlInv'
    BY <1>1, <1>2 DEF Goes, ControlInv, Controllers, Heard, Before, Stages
  <2>. QED  BY <1>1, <2>1, <2>2, OnlyControllerMoves
<1>3. CASE Decided("user_phase_failed")
  <2>1. controller' \in Controllers
    BY <1>1, <1>3 DEF Decided, Controllers
  <2>2. ControlInv'
    BY <1>1, <1>3 DEF Decided, ControlInv, Controllers, Heard, Before, Stages
  <2>. QED  BY <1>1, <2>1, <2>2, OnlyControllerMoves
<1>. QED  BY <1>2, <1>3 DEF UserPhase

(* The route is given up after its deadline, with the stage that was seen last. *)
LEMMA TimesOutKeeps ==
    ASSUME RouteInv, TimesOut, Late, UNCHANGED <<clock, ait, core, events>>,
           controller.at \in {"wait", "waited"}
    PROVE  RouteInv'
<1>1. controller \in Controllers /\ ControlInv /\ clock \in Nat /\ KillTree
      /\ controller' = [controller EXCEPT !.at = "finally", !.verdict = controller.stage, !.decidedAt = clock]
  BY DEF RouteInv, RouteTypes, TimesOut, Decided
<1>2. TransportInv' /\ child' \in Children /\ observer' \in {None, "running", "exited"}
  BY <1>1, KillTreeKeeps
<1>3. /\ controller' \in Controllers /\ controller'.at = "finally"
      /\ controller'.verdict = controller.stage /\ controller'.decidedAt = clock
      /\ controller'.since = controller.since /\ controller'.sawCooldown = controller.sawCooldown
      /\ controller'.stage = controller.stage /\ controller.stage \in Stages
  BY <1>1 DEF Controllers
<1>4. RouteTypes'
  BY <1>2, <1>3 DEF RouteInv, RouteTypes
<1>5. ControlInv'
  <2>1. ~Before(clock)
    BY <1>1, RouteAssumption DEF Late, Before, Controllers
  <2>. QED  BY <1>1, <1>3, <2>1 DEF ControlInv, Heard, Before, Stages
<1>. QED  BY <1>2, <1>4, <1>5 DEF RouteInv

LEMMA WaitSliceKeeps == RouteInv /\ WaitSlice => RouteInv'
<1>. SUFFICES ASSUME RouteInv, WaitSlice PROVE RouteInv'
  OBVIOUS
<1>1. /\ UNCHANGED <<clock, ait, core, events>> /\ controller.at = "wait"
      /\ controller \in Controllers /\ ControlInv
  BY DEF WaitSlice, Controller, RouteInv, RouteTypes
<1>2. CASE Late
  BY <1>1, <1>2, TimesOutKeeps DEF WaitSlice
<1>3. CASE ~Late
  <2>1. Goes("waited") /\ UNCHANGED <<child, observer>>
    BY <1>3 DEF WaitSlice
  <2>2. controller' \in Controllers
    BY <1>1, <2>1 DEF Goes, Controllers
  <2>3. ControlInv'
    BY <1>1, <2>1 DEF Goes, ControlInv, Controllers, Heard, Before, Stages
  <2>. QED  BY <1>1, <2>1, <2>2, <2>3, OnlyControllerMoves
<1>. QED  BY <1>2, <1>3

LEMMA AfterSliceKeeps == RouteInv /\ AfterSlice => RouteInv'
<1>. SUFFICES ASSUME RouteInv, AfterSlice PROVE RouteInv'
  OBVIOUS
<1>1. /\ UNCHANGED <<clock, ait, core, events>> /\ controller.at = "waited"
      /\ controller \in Controllers /\ ControlInv /\ clock \in Nat
      /\ child \in Children /\ child.finishedAt <= clock
  BY DEF AfterSlice, Controller, RouteInv, RouteTypes, TransportInv, CountInv
<1>2. CASE Late
  BY <1>1, <1>2, TimesOutKeeps DEF AfterSlice
<1>3. CASE ~Late
  <2>1. Goes(IF Running THEN "peek" ELSE "check") /\ UNCHANGED <<child, observer>>
    BY <1>3 DEF AfterSlice
  <2>2. controller' \in Controllers
    BY <1>1, <2>1 DEF Goes, Controllers
  <2>3. Before(child.finishedAt)
    BY <1>1, <1>3, RouteAssumption DEF Before, Late, Controllers, Children
  <2>4. child.at # "killed"
    BY <1>1 DEF ControlInv
  <2>5. ControlInv'
    <3>1. CASE Running
      BY <1>1, <2>1, <3>1 DEF Goes, ControlInv, Controllers, Heard, Before, Stages
    <3>2. CASE ~Running
      <4>1. child.at = "exited"
        BY <2>4, <3>2 DEF Running
      <4>2. Before(child.finishedAt)'
        BY <1>1, <2>1, <2>3, <3>2 DEF Goes, Before, Controllers
      <4>. QED  BY <1>1, <2>1, <3>2, <4>1, <4>2 DEF Goes, ControlInv, Controllers, Heard, Before, Stages
    <3>. QED  BY <3>1, <3>2
  <2>. QED  BY <1>1, <2>1, <2>2, <2>5, OnlyControllerMoves
<1>. QED  BY <1>2, <1>3

LEMMA CheckResultKeeps == RouteInv /\ CheckResult => RouteInv'
<1>. SUFFICES ASSUME RouteInv, CheckResult PROVE RouteInv'
  OBVIOUS
<1>1. /\ UNCHANGED <<clock, ait, core, observer, events, child>> /\ controller.at = "check"
      /\ controller \in Controllers /\ ControlInv /\ clock \in Nat
      /\ child.at = "exited" /\ Before(child.finishedAt)
  BY DEF CheckResult, Controller, RouteInv, RouteTypes, ControlInv
<1>2. child.status = "completed" /\ ~ResultIsComplete =>
        child.observations > 1 \/ child.polls \notin 4 .. MaxPolls \/ ~child.legible
  <2>. SUFFICES ASSUME child.status = "completed", child.observations <= 1,
                       child.polls \in 4 .. MaxPolls, child.legible
                PROVE  ResultIsComplete
    BY DEF RouteInv, RouteTypes, Children
  <2>1. /\ child.final = "released" /\ child.joinReady /\ child.clear
        /\ child.ingests \in 3 .. MaxIngests /\ child.observations = 1
    BY <1>1 DEF RouteInv, TransportInv, CountInv, RouteTypes, Children
  <2>2. child.finishedAt <= RouteDeadline
    BY <1>1, DeadlineTypes DEF Before, ControlInv, RouteDeadline, RouteInv, RouteTypes, Children, Controllers
  <2>. QED  BY <2>1, <2>2 DEF ResultIsComplete
<1>3. CASE ResultIsComplete
  <2>1. Decided("completed")
    BY <1>3 DEF CheckResult
  <2>2. controller' \in Controllers
    BY <1>1, <2>1 DEF Decided, Controllers
  <2>3. ControlInv'
    BY <1>1, <1>3, <2>1 DEF Decided, ControlInv, Controllers, Heard, Before, Stages, ResultIsComplete
  <2>. QED  BY <1>1, <2>2, <2>3, OnlyControllerMoves
<1>4. CASE ~ResultIsComplete
  <2>1. Decided("not_completed")
    BY <1>4 DEF CheckResult
  <2>2. controller' \in Controllers
    BY <1>1, <2>1 DEF Decided, Controllers
  <2>3. ControlInv'
    BY <1>1, <1>2, <1>4, <2>1 DEF Decided, ControlInv, Controllers, Heard, Before, Stages
  <2>. QED  BY <1>1, <2>2, <2>3, OnlyControllerMoves
<1>. QED  BY <1>3, <1>4

LEMMA StopChildKeeps == RouteInv /\ StopChild => RouteInv'
<1>. SUFFICES ASSUME RouteInv, StopChild PROVE RouteInv'
  OBVIOUS
<1>1. /\ UNCHANGED <<clock, ait, core, events>> /\ controller.at = "finally"
      /\ controller \in Controllers /\ ControlInv /\ KillTree /\ Goes("done")
  BY DEF StopChild, Controller, RouteInv, RouteTypes
<1>2. /\ TransportInv' /\ child' \in Children /\ observer' \in {None, "running", "exited"}
      /\ child.at = "exited" => UNCHANGED child
  BY <1>1, KillTreeKeeps
<1>3. /\ controller' \in Controllers /\ controller'.at = "done"
      /\ controller'.verdict = controller.verdict /\ controller'.decidedAt = controller.decidedAt
      /\ controller'.since = controller.since /\ controller'.sawCooldown = controller.sawCooldown
      /\ controller'.stage = controller.stage
  BY <1>1 DEF Goes, Controllers
<1>4. RouteTypes'
  BY <1>1, <1>2, <1>3 DEF RouteInv, RouteTypes
<1>5. ControlInv'
  <2>1. CASE child.at = "exited"
    BY <1>1, <1>2, <1>3, <2>1 DEF ControlInv, Heard, Before, Stages
  <2>2. CASE child.at # "exited"
    <3>1. controller.verdict \notin {"completed", "not_completed"}
      BY <1>1, <2>2 DEF ControlInv
    <3>. QED  BY <1>1, <1>3, <3>1 DEF ControlInv, Heard, Before, Stages
  <2>. QED  BY <2>1, <2>2
<1>. QED  BY <1>2, <1>4, <1>5 DEF RouteInv

LEMMA ControllerKeeps == RouteInv /\ ControllerNext => RouteInv'
<1>1. ASSUME RouteInv, ReadCooldown("armed", "armed_between", "user") \/ ReadReleased("armed_between", "user")
      PROVE  RouteInv'
  BY <1>1, ReadCooldownKeeps, ReadReleasedKeeps DEF Waits
<1>2. ASSUME RouteInv, ReadCooldown("completion", "completion_between", "wait")
                       \/ ReadReleased("completion_between", "wait")
      PROVE  RouteInv'
  BY <1>2, ReadCooldownKeeps, ReadReleasedKeeps DEF Waits
<1>3. ASSUME RouteInv, ReadCooldown("peek", "peek_between", "wait") \/ ReadReleased("peek_between", "wait")
      PROVE  RouteInv'
  BY <1>3, ReadCooldownKeeps, ReadReleasedKeeps DEF Waits
<1>. QED  BY <1>1, <1>2, <1>3, AwaitArmKeeps, UserPhaseKeeps, WaitSliceKeeps, AfterSliceKeeps,
             CheckResultKeeps, StopChildKeeps DEF ControllerNext

-----------------------------------------------------------------------------
(* The reads of the page *)

(* A step that neither reads the page nor is acknowledged keeps the counts. *)
LEMMA PollsStay ==
    ASSUME PollInv, child' \in Children, child'.polls = child.polls,
           child'.ingests = child.ingests, child'.status = child.status,
           child'.at \in {child.at} \cup Ended \/ (child.at \notin {"baseline"} \cup Ended
                                                  /\ child'.at # "baseline"),
           Telling' => Telling, child \in Children
    PROVE  PollInv'
  BY DEF PollInv, Children, Ended

LEMMA BlockedPolls ==
    ASSUME RouteInv, child.at \notin Ended, NEW by \in Children, by.status = child.status,
           child' = Blocked(by)
    PROVE  PollInv'
<1>1. child'.at = "cleanup" /\ child'.status = "blocked"
  BY BlockedFacts DEF RouteInv, TransportInv, CountInv
<1>. QED  BY <1>1 DEF PollInv, Ended

LEMMA TransportPolls == RouteInv /\ PollInv /\ TransportNext => PollInv'
<1>. SUFFICES ASSUME RouteInv, PollInv, TransportNext PROVE PollInv'
  OBVIOUS
<1>0. child \in Children /\ child' \in Children /\ MaxPolls \in Nat /\ MaxIngests \in Nat
      /\ MaxPolls >= MaxIngests
  BY TransportKeeps, RouteAssumption DEF RouteInv, RouteTypes
<1>1. ASSUME child.at \notin Ended, Throw PROVE PollInv'
  BY <1>0, <1>1, BlockedPolls DEF Throw
<1>2. CASE Start
  <2>1. child.at = "baseline" /\ child.ingests = 0 /\ child.status = "blocked" /\ child.polls \in Nat
    BY <1>0, <1>2 DEF Start, Transport, PollInv, RouteInv, TransportInv, CountInv, Ended, Children
  <2>2. CASE child' = [Counted EXCEPT !.at = "poll", !.ordinal = Len(ait),
                                      !.baseline = IF ait = <<>> THEN NoLease ELSE Last(ait).lease]
    <3>1. CountedAs(Counted)
          /\ Counted.polls = IF child.polls > MaxPolls THEN child.polls ELSE child.polls + 1
      BY CountedFacts DEF RouteInv
    <3>2. /\ child'.at = "poll" /\ child'.ingests = 0 /\ child'.status = "blocked"
          /\ child'.polls = Counted.polls
      BY <2>1, <2>2, <3>1 DEF CountedAs, Children
    <3>3. child'.polls >= 1
      BY <1>0, <2>1, <3>1, <3>2
    <3>. QED  BY <3>2, <3>3 DEF PollInv, Telling, Ended
  <2>. QED  BY <1>1, <1>2, <2>1, <2>2 DEF Start, Ended
<1>3. CASE Poll
  <2>1. /\ child.at = "poll" /\ child.at \notin Ended /\ child.polls >= child.ingests + 1
        /\ child.status = "blocked" /\ child.polls \in Nat /\ child.ingests \in Nat
    <3>1. child.at = "poll" /\ child.at \notin Ended /\ ~Telling
      BY <1>3 DEF Poll, Transport, Telling, Ended
    <3>2. child.status = "blocked" /\ child.ingests \in 0 .. MaxIngests
      BY <3>1 DEF RouteInv, TransportInv, CountInv
    <3>3. child.polls >= child.ingests + 1
      BY <3>1 DEF PollInv
    <3>. QED  BY <1>0, <3>1, <3>2, <3>3 DEF Children
  <2>2. CountedAs(Counted)
        /\ Counted.polls = IF child.polls > MaxPolls THEN child.polls ELSE child.polls + 1
    BY CountedFacts DEF RouteInv
  <2>3. CASE child' = Counted
    <3>1. child'.polls >= child.ingests + 1
      BY <1>0, <2>1, <2>2, <2>3
    <3>. QED  BY <2>1, <2>2, <2>3, <3>1 DEF PollInv, CountedAs, Telling, Ended
  <2>4. ASSUME NEW notice \in Notices, child.ingests < MaxIngests,
               child' = [Counted EXCEPT !.at = "lifecycle", !.notice = notice.state,
                                        !.lease = notice.lease, !.phase = notice.state]
        PROVE  PollInv'
    <3>1. /\ child'.at = "lifecycle" /\ child'.ingests = child.ingests /\ child'.status = "blocked"
          /\ child'.polls = Counted.polls
      BY <2>1, <2>2, <2>4 DEF CountedAs, Children
    <3>2. child'.polls >= child'.ingests + 2
      BY <1>0, <2>1, <2>2, <2>4, <3>1
    <3>. QED  BY <3>1, <3>2 DEF PollInv, Telling, Ended
  <2>5. CASE child' = Blocked(Counted)
    BY <2>1, <2>2, <2>5, BlockedPolls DEF CountedAs
  <2>. QED  BY <1>1, <1>3, <2>1, <2>3, <2>4, <2>5 DEF Poll
<1>4. CASE LifecycleAcknowledged
  <2>1. child.at = "ack" /\ child.at \notin Ended /\ Telling /\ child.status = "blocked"
        /\ child.polls >= child.ingests + 2
    BY <1>4 DEF LifecycleAcknowledged, Transport, PollInv, RouteInv, TransportInv, CountInv, Telling, Ended
  <2>2. CASE child' = [child EXCEPT !.at = child.notice, !.pending = None, !.final = child.notice,
                                    !.ingests = @ + 1, !.ordinal = @ + 1]
    <3>1. child'.polls = child.polls /\ child'.ingests = child.ingests + 1
          /\ child'.at = child.notice /\ child'.status = "blocked" /\ child.notice \in States
      BY <1>0, <2>1, <2>2 DEF Children, RouteInv, TransportInv, StoryInv
    <3>2. ~Telling' /\ child'.at # "baseline"
      BY <3>1 DEF Telling, States
    <3>3. child'.polls >= child'.ingests + 1
      BY <1>0, <2>1, <3>1 DEF Children
    <3>. QED  BY <3>1, <3>2, <3>3 DEF PollInv
  <2>. QED  BY <1>1, <1>4, <2>1, <2>2 DEF LifecycleAcknowledged
<1>5. CASE Finish
  <2>1. CASE child' = [child EXCEPT !.at = "cleanup", !.status = "completed"]
    <3>1. child'.at = "cleanup" /\ child'.polls = child.polls /\ child'.ingests = child.ingests
      BY <1>0, <2>1 DEF Children
    <3>2. child.polls >= child.ingests + 1 /\ child.polls \in Nat /\ child.ingests \in Int
      BY <1>0, <1>5 DEF Finish, Transport, PollInv, Telling, Ended, Children
    <3>. QED  BY <3>1, <3>2 DEF PollInv, Ended
  <2>. QED  BY <1>1, <1>5, <2>1 DEF Finish, Transport, Ended
<1>6. CASE Cleanup
  <2>1. child.at = "cleanup" /\ child'.at = "exited" /\ child'.polls = child.polls
        /\ child'.ingests = child.ingests /\ child'.status \in {child.status, "blocked"}
    BY <1>0, <1>6 DEF Cleanup, Transport, Children
  <2>. QED  BY <2>1 DEF PollInv, Ended
<1>7. CASE DispatchLifecycle \/ DispatchObservation
  <2>1. PICK at \in {"lifecycle", "observation"} : Dispatch(at, at)
    BY <1>7 DEF DispatchLifecycle, DispatchObservation
  <2>2. CASE child' = [child EXCEPT !.at = "ack", !.pending = at]
    BY <1>0, <2>1, <2>2, PollsStay DEF Dispatch, Transport, Children, Telling, Ended
  <2>. QED  BY <1>1, <2>1, <2>2 DEF Dispatch, Transport, Ended
<1>8. CASE Handoff
  <2>. DEFINE restarted == [child EXCEPT !.joinReady = FALSE]
  <2>1. child.at = "handoff_accepted" /\ restarted \in Children /\ restarted.status = child.status
        /\ [restarted EXCEPT !.clear = FALSE] \in Children
        /\ [restarted EXCEPT !.clear = FALSE].status = child.status
    BY <1>0, <1>8 DEF Handoff, Transport, Children
  <2>2. CASE child' = [restarted EXCEPT !.at = "observe"]
    BY <1>0, <2>1, <2>2, PollsStay DEF Children, Telling, Ended
  <2>. HIDE DEF restarted
  <2>3. CASE child' = Blocked(restarted) \/ child' = Blocked([restarted EXCEPT !.clear = FALSE])
    BY <2>1, <2>3, BlockedPolls DEF Ended
  <2>. QED  BY <1>1, <1>8, <2>1, <2>2, <2>3 DEF Handoff, Ended, restarted
<1>9. CASE AwaitObserver
  <2>1. CASE Left("observation")
    BY <1>0, <1>9, <2>1, PollsStay DEF AwaitObserver, Transport, Left, Children, Telling, Ended
  <2>. QED  BY <1>1, <1>9, <2>1 DEF AwaitObserver, Transport, Ended
<1>10. CASE ObservationAcknowledged
  <2>. DEFINE counted == [child EXCEPT !.pending = None, !.observations = @ + 1, !.joinReady = TRUE]
  <2>1. child.at = "ack" /\ counted \in Children /\ counted.status = child.status
        /\ child.pending = "observation" /\ counted.polls = child.polls
        /\ counted.ingests = child.ingests
    <3>1. child.at = "ack" /\ child.pending = "observation" /\ child.observations + 1 \in Int
      BY <1>0, <1>10 DEF ObservationAcknowledged, Transport, Children
    <3>2. counted \in Children
      BY <1>0, <3>1 DEF Children, None
    <3>. QED  BY <1>0, <3>1, <3>2 DEF Children
  <2>2. CASE child' = [counted EXCEPT !.at = "poll", !.armed = TRUE]
    BY <1>0, <2>1, <2>2, PollsStay DEF Children, Telling, Ended
  <2>. HIDE DEF counted
  <2>3. CASE child' = Blocked(counted)
    BY <2>1, <2>3, BlockedPolls DEF Ended
  <2>. QED  BY <1>1, <1>10, <2>1, <2>2, <2>3 DEF ObservationAcknowledged, Ended, counted
<1>11. CASE SignalCooldown \/ SignalReleased
  <2>1. PICK state \in {"cooldown", "released"}, next \in {"poll", "finish"} :
           SignalStage(state, state, next)
    BY <1>11 DEF SignalCooldown, SignalReleased
  <2>2. CASE Left(next)
    BY <1>0, <2>1, <2>2, PollsStay DEF SignalStage, Transport, Left, Children, Telling, Ended
  <2>. QED  BY <1>1, <2>1, <2>2 DEF SignalStage, Transport, Ended
<1>. QED  BY <1>2, <1>3, <1>4, <1>5, <1>6, <1>7, <1>8, <1>9, <1>10, <1>11 DEF TransportNext

LEMMA OthersPoll ==
    RouteInv /\ PollInv /\ (Tick \/ ObserverExits \/ ControllerNext \/ UNCHANGED routeVars) => PollInv'
<1>. SUFFICES ASSUME RouteInv, PollInv, Tick \/ ObserverExits \/ ControllerNext \/ UNCHANGED routeVars
              PROVE  PollInv'
  OBVIOUS
<1>1. child' = child \/ child' = [child EXCEPT !.at = "killed"]
  BY DEF Tick, ObserverExits, ControllerNext, routeVars, AwaitArm, ReadCooldown, ReadReleased,
         UserPhase, WaitSlice, AfterSlice, CheckResult, StopChild, TimesOut, KillTree, Left
<1>2. child \in Children
  BY DEF RouteInv, RouteTypes
<1>3. CASE child' = child
  BY <1>3 DEF PollInv, Telling
<1>4. CASE child' = [child EXCEPT !.at = "killed"]
  <2>1. child'.at = "killed" /\ child'.polls = child.polls /\ child'.ingests = child.ingests
        /\ child'.status = child.status
    BY <1>2, <1>4 DEF Children
  <2>. QED  BY <2>1 DEF PollInv, Ended
<1>. QED  BY <1>1, <1>3, <1>4

-----------------------------------------------------------------------------
(* Theorems *)

(* What transport, Core, events and controller know of one another at every step: the       *)
(* story told so far, the two events and the counters of the child, and the controller's     *)
(* snapshot and verdict fit together.                                                         *)
THEOREM RouteInvariant == RouteSpec => []RouteInv
<1>1. RouteInv /\ [RouteNext]_routeVars => RouteInv'
  BY TickKeeps, ObserverExitsKeeps, TransportKeeps, ControllerKeeps, StutterKeeps DEF RouteNext, Done
<1>. QED  BY <1>1, InitHolds, PTL DEF RouteSpec

(* For any speeches, histories, deadlines and number of generations Core hears one story:    *)
(* one speech after the other, each notice once and in its order, each observation beside     *)
(* the handoff of its own speech, whichever answers are lost.                                  *)
THEOREM CoreHearsInOrderHolds == RouteSpec => []CoreHearsInOrder
<1>1. RouteInv => CoreHearsInOrder
  <2>. SUFFICES ASSUME RouteInv PROVE CoreHearsInOrder
    OBVIOUS
  <2>1. ASSUME NEW k \in DOMAIN core PROVE Right(core, ait, child.baseline, k)
    BY DEF RouteInv, TransportInv, StoryInv, Story
  <2>. QED  BY <2>1 DEF CoreHearsInOrder, Right, Prior, NoticeBefore
<1>. QED  BY <1>1, RouteInvariant, PTL

(* No completed route has read the page fewer than four times. *)
THEOREM PollsHold == RouteSpec => []PollInv
<1>1. RouteInv /\ PollInv /\ [RouteNext]_routeVars => PollInv'
  BY TransportPolls, OthersPoll DEF RouteNext, Done
<1>2. RouteInit => PollInv
  BY DEF RouteInit, PollInv, Telling
<1>. QED  BY <1>1, <1>2, RouteInvariant, PTL DEF RouteSpec

(* The controller's verdict is true: completed only in time, with the whole story of a         *)
(* single speech told and no observer left; a stage only after the deadline and only one         *)
(* Core heard of; and a report of completion that was looked at is refused only for a second      *)
(* observation, too many reads of the page or a report that is not legible.                        *)
THEOREM CompletionIsTrueHolds == RouteSpec => []CompletionIsTrue
<1>1. RouteInv /\ PollInv => CompletionIsTrue
  <2>. SUFFICES ASSUME RouteInv, PollInv PROVE CompletionIsTrue
    OBVIOUS
  <2>. USE DEF RouteInv, TransportInv
  <2>1. ASSUME controller.verdict = "completed"
        PROVE  /\ ~Running /\ child.finishedAt - controller.since < CompletionDeadline /\ observer = None
               /\ Kinds = <<"handoff_accepted", "observation", "cooldown", "released">>
               /\ \A k \in DOMAIN core : core[k].lease = core[1].lease
    <3>1. /\ child.at = "exited" /\ Before(child.finishedAt) /\ child.clear
          /\ child.status = "completed" /\ child.observations = 1
      BY <2>1 DEF ControlInv
    <3>2. Alone("released") /\ observer = None
      BY <3>1 DEF CountInv
    <3>3. /\ Len(core) = 4 /\ DOMAIN core = {1, 2, 3, 4}
          /\ core[1].kind = "handoff_accepted" /\ core[2].kind = "observation"
          /\ core[3].kind = "cooldown" /\ core[4].kind = "released"
      BY <3>2 DEF Alone, ToldBy, RouteTypes
    <3>4. Kinds = <<"handoff_accepted", "observation", "cooldown", "released">>
      BY <3>3 DEF Kinds
    <3>5. /\ Right(core, ait, child.baseline, 2) /\ Right(core, ait, child.baseline, 3)
          /\ Right(core, ait, child.baseline, 4)
      BY <3>3 DEF StoryInv, Story
    <3>6. core[2].lease = core[1].lease /\ core[3].lease = core[1].lease /\ core[4].lease = core[3].lease
      BY <3>3, <3>5 DEF Right, Prior, Follows, IsObservation
    <3>. QED  BY <3>1, <3>2, <3>3, <3>4, <3>6 DEF Running, Before
  <2>2. controller.verdict \in Stages => ~Before(controller.decidedAt)
    BY DEF ControlInv
  <2>3. /\ controller.stage = "cooldown_ack_before_release_ack" => Heard("cooldown")
        /\ controller.stage = "release_ack_before_exit" => Heard("released")
    BY DEF ControlInv
  <2>5. controller.verdict = "not_completed" /\ child.status = "completed" =>
          child.observations > 1 \/ child.polls > MaxPolls \/ ~child.legible
    <3>. SUFFICES ASSUME controller.verdict = "not_completed", child.status = "completed"
                  PROVE  child.observations > 1 \/ child.polls > MaxPolls \/ ~child.legible
      OBVIOUS
    <3>1. child.observations > 1 \/ child.polls \notin 4 .. MaxPolls \/ ~child.legible
      BY DEF ControlInv
    <3>2. child.ingests >= 3 /\ child.polls > child.ingests /\ child.polls \in Nat /\ child.ingests \in Nat
      BY DEF CountInv, PollInv, RouteTypes, Children
    <3>3. MaxPolls \in Nat
      BY RouteAssumption
    <3>. QED  BY <3>1, <3>2, <3>3
  <2>4. /\ events.cooldown /\ Running /\ child.at \notin {"handoff_accepted", "cleanup"} =>
              child.final \in {"cooldown", "released"}
        /\ events.released => child.final = "released" /\ events.cooldown
    BY DEF StageInv, Running, Ended
  <2>. QED  BY <2>1, <2>2, <2>3, <2>4, <2>5 DEF CompletionIsTrue, Stages, Before
<1>. QED  BY <1>1, RouteInvariant, PollsHold, PTL

=============================================================================
