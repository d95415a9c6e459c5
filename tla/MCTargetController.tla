------------------------- MODULE MCTargetController -------------------------
(***************************************************************************)
(* Small instances of TargetController for TLC.                            *)
(***************************************************************************)
EXTENDS TargetController

W(size, rev) == [size |-> size, rev |-> rev]

Play(start, fate, retain, wishes) ==
    [start |-> start, fate |-> fate, retain |-> retain, wishes |-> wishes]

(* Whether the pods of revisions 1, 2 and 3 come up.                       *)
AllServe      == [r \in 1..3 |-> "ready"]
FirstPends    == [AllServe EXCEPT ![1] = "unschedulable"]
SecondCrashes == [AllServe EXCEPT ![2] = "crash"]

(* One edit: an upgrade of three targets.                                  *)
Upgrade == {Play(W(3, 1), AllServe, FALSE, <<W(3, 2)>>)}

(* One edit of two targets: another size, revision or both.                *)
Changes == [size : 1..4, rev : 1..2] \ {W(2, 1)}

Decommissions == {Play(W(2, 1), AllServe, FALSE, <<w>>) : w \in Changes}

(* The same in maintenance, without data on the move; an upgrade that      *)
(* comes with a scale-down is left out.                                    *)
Maintenances == {Play(W(2, 1), AllServe, TRUE, <<w>>) : w \in Changes \ {W(1, 2)}}

(* A bad upgrade that a second one repairs.                                *)
Repair == {Play(W(2, 1), SecondCrashes, FALSE, <<W(2, 2), W(2, 3)>>)}

(* The upgrade of targets that no node has room for.                       *)
Unschedulable == {Play(W(3, 1), FirstPends, FALSE, <<W(3, 2)>>)}

Completing == Upgrade \cup Decommissions \cup Maintenances \cup Repair \cup Unschedulable

(* An upgrade that is taken back before it is carried out.                 *)
Rollback == {Play(W(2, 1), AllServe, FALSE, <<W(2, 2), W(2, 1)>>)}
=============================================================================
