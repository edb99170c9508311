---------------------------- MODULE MCSelfMirrorProof ----------------------------
(* A small instance of SelfMirrorProof: runs of six to eight frames, every score one   *)
(* of "nothing", "almost", "enough" and "a new pose", and every way the page's reports  *)
(* can differ from a good run's, one at a time.                                         *)
EXTENDS SelfMirrorProof

Still == [changed |-> 0, shift |-> 0, drift |-> 0]
Posed == [changed |-> 0, shift |-> 0, drift |-> 4]
Almost == [changed |-> 3, shift |-> 3, drift |-> 3]
Moving == [changed |-> 3, shift |-> 4, drift |-> 4]

Inside == [x |-> 40, y |-> 0, w |-> 30, h |-> 80]
Outside == [Inside EXCEPT !.x = 80]
Avatar == [id |-> "avatar_full", kind |-> "avatar", counts |-> TRUE, expected |-> TRUE, rect |-> Inside]
Torso == [Avatar EXCEPT !.id = "avatar_torso"]
Face == [Avatar EXCEPT !.id = "avatar_face_head"]
Wide == [id |-> "avatar_wide", kind |-> "diagnostic", counts |-> FALSE, expected |-> FALSE, rect |-> Inside]
Bubble == [Wide EXCEPT !.id = "speech_bubble", !.kind = "guard_ui"]

Scenario(id, motion, join, active, release, late) ==
    [id |-> id, tokens |-> {id}, motion |-> motion, joinRequired |-> join,
     template |-> [active |-> active, release |-> release, late |-> late]]
Nod == Scenario("context_nod", "avatar_motion", TRUE, 3, 1, 0)
WatchedNod == Scenario("context_nod", "avatar_motion", TRUE, 2, 1, 5)
Dance == Scenario("dance_visible_motion", "broad_avatar_motion", TRUE, 3, 1, 2)
Expression == Scenario("expression_visible_change", "face_visible_change", TRUE, 3, 1, 0)
Idle == Scenario("idle_baseline", "none", FALSE, 3, 1, 0)

Config(kind, scenario, rois, lags, view) ==
    [trigger |-> kind, duration |-> 7, interval |-> 1, triggerAt |-> 2, stopAt |-> 0,
     settleAt |-> 0, scenario |-> scenario, rois |-> rois, lags |-> lags, view |-> view]
NodRun == Config("context-nod", Nod, {Avatar, Wide, Bubble}, {0}, "tracks")
SlowNodRun == Config("context-nod", WatchedNod, {Avatar, Bubble}, {0, 2}, "timing")
LateTriggerRun == [NodRun EXCEPT !.duration = 6, !.interval = 2, !.triggerAt = 5, !.view = "reports"]
DanceRun == [Config("dance", Dance, {Avatar, Torso, Bubble}, {0, 3}, "timing")
                EXCEPT !.duration = 8, !.stopAt = 4, !.settleAt = 6]
ExpressionRun == Config("expression-visible", Expression, {Face, Avatar, Wide}, {0}, "reports")
IdleRun == Config("none", Idle, {Avatar, Bubble}, {0}, "tracks")
OutsideRun == [NodRun EXCEPT !.rois = {Avatar, [Bubble EXCEPT !.rect = Outside]}, !.view = "reports"]
NothingExpectedRun == [NodRun EXCEPT !.rois = {[Avatar EXCEPT !.expected = FALSE], Bubble}, !.view = "reports"]

MCConfigs == {NodRun, SlowNodRun, LateTriggerRun, DanceRun, ExpressionRun, IdleRun, OutsideRun,
              NothingExpectedRun}

(* A track gives the pixels of the avatar's regions frame by frame, and those of the   *)
(* others while the avatar is active.                                                   *)
Frames(c, track, wide, bubble) ==
    [k \in 1 .. FrameCount(c) |->
        [id \in {roi.id : roi \in c.rois} |->
            IF id = "speech_bubble" THEN IF k = 4 THEN bubble ELSE Still
            ELSE IF id = "avatar_wide" THEN IF k = 4 THEN wide ELSE Still
            ELSE IF k \in DOMAIN track THEN track[k] ELSE Still]]

AllTracks ==
    {<<Still, pre, a1, a2, a3, Still, settle>> :
        pre \in {Still, Almost, Moving}, a1 \in {Still, Almost, Moving}, a2 \in {Still, Almost, Moving},
        a3 \in {Still, Moving}, settle \in {Still, Posed, Moving}}

FewTracks == {<<Still>>, <<Still, Still, Moving, Moving, Posed>>,
              <<Still, Almost, Moving, Moving, Still, Moving>>,
              <<Still, Still, Almost, Almost>>, <<Still, Still, Still, Still, Still, Still, Moving, Moving>>}

Good == [diag |-> NoDiagnostics, ready |-> [skipped |-> FALSE, missing |-> {}],
         ids |-> [result |-> "driver", driver |-> "driver"],
         status |-> "completed", reason |-> "", state |-> "",
         lifecycle |-> {"motion_requested", "runtime_accepted", "runtime_started", "runtime_result"}]
Applied == [Good EXCEPT !.diag.facts = {"weight_applied", "frames_counted"}]
Queued == [Applied EXCEPT !.ids.result = "runtime", !.status = "started",
                          !.reason = "motion_runtime_expression_frame_queued",
                          !.state = "expression_change_requested"]

Variants(base) ==
    {base} \cup {[base EXCEPT !.diag.facts = @ \cup extra] :
                    extra \in {{"not_same_page"}, {"mixed_surface"}, {"mixed_surface"} \cup Separations,
                               {"heartbeat"}, {"local_path"}, {"driver_result_applied"}}}
    \cup {[base EXCEPT !.diag.nested = [a \in {"runtime_started"} |-> 6]],
          [base EXCEPT !.diag.fields = [a \in {"frame_applied", "runtime_started"} |-> -1]],
          [base EXCEPT !.ready.missing = {"sceneVisible"}],
          [base EXCEPT !.ready = [skipped |-> TRUE, missing |-> {"vrmReady"}]],
          [base EXCEPT !.ids.result = ""], [base EXCEPT !.ids.result = "other"],
          [base EXCEPT !.status = "rejected"], [base EXCEPT !.status = "started"],
          [base EXCEPT !.lifecycle = {}]}

Seen(shots, report) == [frames |-> shots] @@ report

MCObservations(c) ==
    IF c.view = "tracks"
    THEN {Seen(Frames(c, track, wide, bubble), Good) :
             track \in AllTracks, wide \in {Still, Moving}, bubble \in {Still, Moving}}
    ELSE {Seen(Frames(c, track, Still, bubble), report) :
             track \in FewTracks, bubble \in {Still, Moving},
             report \in IF c.view = "timing" THEN {Good}
                        ELSE IF c.trigger = "expression-visible" THEN Variants(Queued) \cup Variants(Applied)
                        ELSE Variants(Good)}

Profile == [id |-> "nod_profile", scenario |-> "context_nod", status |-> "active", wanted |-> {},
            minCases |-> 1, minPass |-> 1, minOther |-> 0, categories |-> {}, rois |-> {"avatar_full"},
            fields |-> {"motion_event_id", "runtime_result_id", "driver_result_id"}, matchRefs |-> TRUE,
            quietMax |-> 1, guardMax |-> 3, ratioNum |-> 1, ratioDen |-> 1, activeMin |-> 3,
            changedMin |-> 1, minSamples |-> 2, minCount |-> 1, passFloor |-> 750, failFloor |-> 600]
MCProfiles == {Profile,
               [Profile EXCEPT !.id = "draft_profile", !.status = "draft"],
               [Profile EXCEPT !.id = "dance_profile", !.scenario = "dance_visible_motion",
                               !.rois = {"avatar_full", "avatar_torso"}, !.minCount = 2,
                               !.activeMin = 4, !.categories = {"layout_shift"}]}

Case == [id |-> "nod_case", scenario |-> "context_nod", expected |-> "pass", rois |-> {"avatar_full"},
         categories |-> {}, summary |-> "other_run",
         refs |-> [motion_event_id |-> "event", runtime_result_id |-> "driver",
                   driver_result_id |-> "driver"]]
SameRunCase == [Case EXCEPT !.summary = "run", !.refs.runtime_result_id = "stale"]
DanceCase == [Case EXCEPT !.scenario = "dance_visible_motion", !.rois = {"avatar_full", "avatar_torso"},
                          !.categories = {"layout_shift"}]
MCCaseSets == {{}, {Case, DanceCase}, {Case, [SameRunCase EXCEPT !.id = "same_run_case"]}}
=============================================================================
