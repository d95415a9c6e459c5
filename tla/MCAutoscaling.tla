---------------------------- MODULE MCAutoscaling ----------------------------
(***************************************************************************)
(* A small instance of Autoscaling for TLC: two nodes, so that a           *)
(* disruption can be within the budget of one, and beyond it.              *)
(***************************************************************************)
EXTENDS Autoscaling, TLC

TwoNodes == {"n1", "n2"}
AtFirst == 0 :> "n1" @@ 1 :> "n2"
FirstNode == {"n1"}
Config(a, l, m, t, n, c, f) ==
    [auto |-> a, limit |-> l, maxUnavailable |-> m, turns |-> t,
     bounds |-> [nodes |-> n, crashes |-> c, faults |-> f]]

AllTurns == NodeStates \X NodeStates

(* A node goes, in one of these ways, and comes back.                      *)
Back(S) == ({"free"} \X S) \cup (S \X {"free"})

AllConfigs ==
    {Config(FALSE, {}, 0, AllTurns, 2, 0, 1),
     Config(TRUE, {1}, 0, AllTurns, 2, 0, 1),
     Config(TRUE, {}, 0, Back({"evicting"}), 2, 0, 0),
     Config(TRUE, {}, 1, AllTurns, 1, 1, 1)}
=============================================================================
