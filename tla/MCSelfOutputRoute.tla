---------------------------- MODULE MCSelfOutputRoute ----------------------------
(* A small instance of SelfOutputRoute: the speech the page may retain when the route      *)
(* starts, a newer one, and a third, newer still, that reuses the event of the first.        *)
EXTENDS SelfOutputRoute

Speech(session, generation, event) ==
    [session |-> session, generation |-> generation, event |-> event]
Retained == Speech("s0", 1, "e0")
First == Speech("s1", 2, "e1")
Second == Speech("s2", 3, "e0")

MCLeases == {Retained, First, Second}
MCBaselines == {<<>>, <<[lease |-> Retained, state |-> "handoff_accepted"]>>}
=============================================================================
