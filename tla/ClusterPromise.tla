--------------------------- MODULE ClusterPromise ---------------------------
(***************************************************************************)
(* What the operator promises the user of one AIStore custom resource      *)
(* (CR): the objects of a wanted cluster are never deleted, those of a     *)
(* condemned one all are before the CR goes, and what the user asked to    *)
(* keep outlives it.  AISLifecycle implements this with reconciles, caches *)
(* and a status that may go back and forth.                                *)
(***************************************************************************)
CONSTANT Assets     \* the objects that the operator makes for a cluster

VARIABLES
    phase,          \* of the CR: wanted, condemned, swept or gone
    assets,         \* the objects that exist and are not being deleted
    keep            \* the objects that the user asked to keep

vars == <<phase, assets, keep>>

Phases == {"wanted", "condemned", "swept", "gone"}

(* Claims kept from an earlier cluster of the same name may be there.      *)
Init ==
    /\ phase = "wanted"
    /\ assets \in SUBSET Assets
    /\ keep \in SUBSET Assets

(* The operator, or Kubernetes for it, makes objects; a reconcile that     *)
(* does not know yet that the CR is condemned goes on making them.         *)
Provision ==
    /\ phase \in {"wanted", "condemned"}
    /\ assets' \in SUBSET Assets /\ assets \subseteq assets'
    /\ UNCHANGED <<phase, keep>>

Condemn ==
    /\ phase = "wanted"
    /\ phase' = "condemned"
    /\ UNCHANGED <<assets, keep>>

(* Objects are deleted, kept ones excepted.  With the last one, and with   *)
(* nobody left who would make new ones, the cluster is swept.              *)
Dismantle ==
    /\ phase = "condemned"
    /\ assets' \in SUBSET assets /\ assets \cap keep \subseteq assets'
    /\ phase' \in {"condemned", "swept"}
    /\ phase' = "swept" => assets' \subseteq keep
    /\ UNCHANGED keep

(* The CR goes: after the sweep, or before anything was made for it.       *)
Release ==
    /\ \/ phase = "swept"
       \/ phase = "wanted" /\ assets \subseteq keep
    /\ phase' = "gone"
    /\ UNCHANGED <<assets, keep>>

Next == Provision \/ Condemn \/ Dismantle \/ Release

Spec == Init /\ [][Next]_vars
=============================================================================
