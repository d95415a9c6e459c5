------------------------- MODULE StatefulSetStatus -------------------------
(***************************************************************************)
(* What the operator concludes from a StatefulSet object: the predicates   *)
(* of common.go that the controllers of proxies and of targets share, for  *)
(* clusters of a fixed size (no autoscaling).                              *)
(*                                                                         *)
(* A StatefulSet s has the spec fields replicas and rev (the revision of   *)
(* its pod template), the flag observed (the StatefulSet controller has    *)
(* seen this spec: observedGeneration = generation) and the status fields  *)
(* pods (status.replicas, terminating pods included), ready, updated,      *)
(* updateRev and currentRev.                                               *)
(***************************************************************************)
EXTENDS Naturals

IsStatusCurrent(s) == s.observed

(* Mutation: the revisions alone decide, as with RollingUpdate.            *)
MutantIsRolloutInProgress(s, onDelete) == s.currentRev # s.updateRev

(* With OnDelete the current revision is never bumped: stale pods count.   *)
IsRolloutInProgress(s, onDelete) ==
    /\ s.currentRev # s.updateRev
    /\ onDelete => s.updated < s.replicas /\ s.updated < s.pods

IsScalingInProgress(s, onDelete) ==
    /\ ~IsRolloutInProgress(s, onDelete)
    /\ s.pods # s.replicas

StatefulSetScalingNeeded(s, desired) == desired # s.replicas

IsStatefulSetFullyReady(s, desired) ==
    /\ s.replicas = desired
    /\ s.updated = s.replicas
    /\ s.pods = s.replicas
    /\ s.ready = s.replicas
=============================================================================
