---------------------------- MODULE ProxyController ----------------------------
(***************************************************************************)
(* How the AIStore controller rolls and scales the proxies of a cluster in *)
(* service, and moves the primary out of the way: handleProxyState against *)
(* the StatefulSet controller, the pods and the proxies of AIStore.        *)
(*                                                                         *)
(* The StatefulSet of the proxies has the update strategy RollingUpdate.   *)
(* Its controller replaces pods from the highest ordinal down to the       *)
(* partition; the operator keeps the partition at 1 until one pod is left, *)
(* moves the primary from that pod and opens the partition.                *)
(*                                                                         *)
(* The operator reads the StatefulSet from a cache that lags, pods and the *)
(* cluster map directly.  Nothing but the operator reads the CR, so the    *)
(* lag of its cache is the lag of the user's edit and has no state of its  *)
(* own.  mem, seen and view are the CR, the StatefulSet and the cluster    *)
(* map in the memory of the running reconcile, arg the ordinal at hand.    *)
(***************************************************************************)
EXTENDS Integers, Sequences, FiniteSets, StatefulSetStatus

CONSTANTS
    MaxSize,         \* bound: ordinals of proxies are below it
    Revs,            \* the revisions of the pod template
    Scenarios,       \* clusters and the edits that their users make
    MaxFaults,       \* bound: failed calls and crashes of the operator
    MaxDisruptions   \* bound: proxies that restart by themselves

Ordinals == 0..(MaxSize - 1)
Sizes    == 0..MaxSize
Wish     == [size : 1..MaxSize, rev : Revs, keep : BOOLEAN]

(* The cluster at first, whether pods of a revision come up, and the edits *)
(* of the user.  keep: claims outlive the pods (pvcRetentionPolicy).       *)
Scenario ==
    [start : Wish, serving : [Revs -> BOOLEAN], wishes : Seq(Wish)]

ASSUME ProxySizeAssumption == MaxSize \in Nat \ {0} /\ Revs \subseteq Nat
ASSUME ProxyScenarioAssumption == Scenarios \subseteq Scenario
ASSUME ProxyBoundAssumption == MaxFaults \in Nat /\ MaxDisruptions \in Nat

VARIABLES
    scenario,     \* the scenario that is played
    cr,           \* what the CR asks for
    mem,          \* the CR in the memory of the running reconcile
    pc,           \* the next step of the running reconcile
    set,          \* the StatefulSet of the proxies at the API server
    setCached,    \* the StatefulSet in the informer cache
    seen,         \* the StatefulSet in the memory of the running reconcile
    view,         \* the cluster map in the memory of the running reconcile
    arg,          \* the ordinal that the next step is about
    pods,         \* the proxy pods
    pmap,         \* the proxies in the cluster map
    primary,      \* the primary proxy of the cluster map
    elected,      \* AIStore chose the primary after the operator last did
    faults,       \* faults so far
    disruptions,  \* disruptions so far
    edits         \* edits so far

operator == <<mem, pc, seen, view, arg>>
ais      == <<pmap, primary, elected>>
counters == <<faults, disruptions, edits>>
vars == <<scenario, cr, operator, set, setCached, pods, ais, counters>>

StatefulSet ==
    [replicas : 1..MaxSize, rev : Revs, partition : {0, 1}, keep : BOOLEAN,
     observed : BOOLEAN, pods : Sizes, ready : Sizes, updated : Sizes,
     current : Sizes, updateRev : Revs, currentRev : Revs]

Phases == {"none", "starting", "ready", "crash", "terminating"}

Map == [pmap : [Ordinals -> {"absent", "active", "decommission"}], primary : Ordinals]

Steps ==
    {"idle", "setFirst", "patchTemplate", "patchPolicy", "readMap", "choose",
     "decommission", "resize", "setHighest", "openPartition"}

(* The types of the state.  No StatefulSet is scaled to nothing or beyond  *)
(* what the user asks for, no primary is looked for beyond the ordinals of *)
(* the cluster.                                                            *)
TypeOK ==
    /\ scenario \in Scenarios
    /\ cr \in Wish /\ mem \in Wish
    /\ pc \in Steps
    /\ set \in StatefulSet /\ setCached \in StatefulSet /\ seen \in StatefulSet
    /\ view \in Map /\ arg \in -1..MaxSize
    /\ pods \in [Ordinals -> [phase : Phases, rev : Revs]]
    /\ [pmap |-> pmap, primary |-> primary] \in Map
    /\ elected \in BOOLEAN
    /\ faults \in 0..MaxFaults /\ disruptions \in 0..MaxDisruptions
    /\ edits \in 0..Len(scenario.wishes)

Start == scenario.start

Serving(r) == scenario.serving[r]

NoPod == [phase |-> "none", rev |-> Start.rev]

StartSet ==
    [replicas |-> Start.size, rev |-> Start.rev, partition |-> 0,
     keep |-> Start.keep, observed |-> TRUE, pods |-> Start.size,
     ready |-> Start.size, updated |-> Start.size, current |-> Start.size,
     updateRev |-> Start.rev, currentRev |-> Start.rev]

NoView == [pmap |-> [i \in Ordinals |-> "absent"], primary |-> 0]

(* A cluster at rest; an earlier rollout or election left the primary      *)
(* anywhere.                                                               *)
Init ==
    /\ scenario \in Scenarios
    /\ cr = Start /\ mem = Start /\ pc = "idle" /\ arg = 0
    /\ set = StartSet /\ setCached = StartSet /\ seen = StartSet /\ view = NoView
    /\ pods = [i \in Ordinals |->
                 IF i < Start.size THEN [phase |-> "ready", rev |-> Start.rev]
                                   ELSE NoPod]
    /\ pmap = [i \in Ordinals |-> IF i < Start.size THEN "active" ELSE "absent"]
    /\ primary \in 0..(Start.size - 1) /\ elected = FALSE
    /\ faults = 0 /\ disruptions = 0 /\ edits = 0

-----------------------------------------------------------------------------
(***************************************************************************)
(* handleProxyState.                                                       *)
(***************************************************************************)
Return ==
    pc' = "idle" /\ mem' = Start /\ seen' = StartSet /\ view' = NoView /\ arg' = 0

Goto(step, i) == pc' = step /\ arg' = i /\ UNCHANGED <<mem, seen, view>>

(* Mutation: the partition is opened once no pod is left to be replaced.  *)
MutantShouldResetPartition(s) == s.partition # 0 /\ s.current = 0

(* All pods but one are off the current revision.                          *)
ShouldResetPartition(s) == s.partition # 0 /\ s.current = 1

(* Mutation: scaling comes before the policy for the claims.               *)
MutantChoice(w, s) ==
    LET rolling == IsRolloutInProgress(s, FALSE)
    IN  IF ~IsStatusCurrent(s) THEN "idle"
        ELSE IF w.rev # s.rev /\ ~IsScalingInProgress(s, FALSE)
             THEN IF s.ready > 0 THEN "setFirst" ELSE "patchTemplate"
        ELSE IF StatefulSetScalingNeeded(s, w.size) /\ ~rolling
             THEN IF s.replicas > w.size THEN "readMap" ELSE "resize"
        ELSE IF w.keep # s.keep THEN "patchPolicy"
        ELSE IF rolling /\ ShouldResetPartition(s) THEN "setHighest"
        ELSE "idle"

(* What the CR and the StatefulSet call for.  A status behind its spec,    *)
(* scaling in progress, a rollout that the StatefulSet controller works on *)
(* and proxies that are not ready end the reconcile without an effect.     *)
Choice(w, s) ==
    LET rolling == IsRolloutInProgress(s, FALSE)
    IN  IF ~IsStatusCurrent(s) THEN "idle"
        ELSE IF w.rev # s.rev /\ ~IsScalingInProgress(s, FALSE)
             THEN IF s.ready > 0 THEN "setFirst" ELSE "patchTemplate"
        ELSE IF w.keep # s.keep THEN "patchPolicy"
        ELSE IF StatefulSetScalingNeeded(s, w.size) /\ ~rolling
             THEN IF s.replicas > w.size THEN "readMap" ELSE "resize"
        ELSE IF rolling /\ ShouldResetPartition(s) THEN "setHighest"
        ELSE "idle"

HandleProxyState ==
    /\ pc = "idle"
    /\ pc' = Choice(cr, setCached)
    /\ pc' # "idle"
    /\ mem' = cr /\ seen' = setCached /\ view' = NoView
    /\ arg' = IF pc' = "setHighest" THEN setCached.replicas - 1 ELSE 0
    /\ UNCHANGED <<scenario, cr, set, setCached, pods, ais, counters>>

(* setPrimaryTo(i) can succeed: i is found in the cluster map, AIStore     *)
(* reaches it.                                                             *)
CanLead(i) == pmap[i] = "active" /\ pods[i].phase = "ready"

(* setPrimaryTo: the next step follows a success, an error ends it all.    *)
SetPrimaryTo(at, next) ==
    /\ pc = at
    /\ IF primary = arg \/ CanLead(arg)
          THEN primary' = arg /\ elected' = FALSE /\ Goto(next, arg)
          ELSE UNCHANGED <<primary, elected>> /\ Return
    /\ UNCHANGED <<scenario, cr, set, setCached, pods, pmap, counters>>

(***************************************************************************)
(* syncProxyPodSpec: the primary goes to proxy 0, the partition protects   *)
(* it.  The patch is the difference to the StatefulSet in memory.          *)
(***************************************************************************)
PatchTemplate ==
    /\ pc = "patchTemplate"
    /\ LET new == [set EXCEPT !.rev = mem.rev,
                              !.partition = IF seen.ready > 0 /\ seen.partition # 1
                                            THEN 1 ELSE @]
       IN  set' = [new EXCEPT !.observed = @ /\ new = set]
    /\ Return
    /\ UNCHANGED <<scenario, cr, setCached, pods, ais, counters>>

SyncProxyPodSpec == SetPrimaryTo("setFirst", "patchTemplate") \/ PatchTemplate

SyncProxyPVCRetentionPolicy ==
    /\ pc = "patchPolicy"
    /\ set' = [set EXCEPT !.keep = mem.keep, !.observed = @ /\ set.keep = mem.keep]
    /\ Return
    /\ UNCHANGED <<scenario, cr, setCached, pods, ais, counters>>

(***************************************************************************)
(* handleProxyRollout: the primary leaves the last pod, which is replaced. *)
(***************************************************************************)
ResetSSPartition ==
    /\ pc = "openPartition"
    /\ set' = [set EXCEPT !.partition = 0, !.observed = @ /\ set.partition = 0]
    /\ Return
    /\ UNCHANGED <<scenario, cr, setCached, pods, ais, counters>>

(* Mutation: the partition is opened under the primary.                    *)
MutantHandleProxyRollout ==
    \/ /\ pc = "setHighest" /\ Goto("openPartition", arg)
       /\ UNCHANGED <<scenario, cr, set, setCached, pods, ais, counters>>
    \/ ResetSSPartition

HandleProxyRollout == SetPrimaryTo("setHighest", "openPartition") \/ ResetSSPartition

-----------------------------------------------------------------------------
(***************************************************************************)
(* handleProxyScale.                                                       *)
(***************************************************************************)
(* prepareProxyScaleDown reads the cluster map, from any proxy, and keeps  *)
(* the primary if it is found among the proxies that stay.                 *)
PrepareProxyScaleDown ==
    /\ pc = "readMap"
    /\ IF \E i \in Ordinals : CanLead(i)
          THEN /\ view' = [pmap |-> pmap, primary |-> primary]
               /\ IF primary < mem.size
                     THEN pc' = "decommission" /\ arg' = seen.replicas - 1
                     ELSE pc' = "choose" /\ arg' = 0
               /\ UNCHANGED <<mem, seen>>
          ELSE Return
    /\ UNCHANGED <<scenario, cr, set, setCached, pods, ais, counters>>

(* isIndexValidNewPrimary: in the cluster map in memory and not leaving,   *)
(* the pod ready and on the update revision.                               *)
IsIndexValidNewPrimary(i) ==
    view.pmap[i] = "active" /\ pods[i].phase = "ready" /\ pods[i].rev = seen.updateRev

(* setLowestEligiblePodAsPrimary: one proxy after the other.               *)
SetLowestEligiblePodAsPrimary ==
    /\ pc = "choose"
    /\ IF arg = mem.size THEN Return /\ UNCHANGED <<primary, elected>>
       ELSE IF IsIndexValidNewPrimary(arg) /\ CanLead(arg)
            THEN primary' = arg /\ elected' = FALSE /\ Goto("decommission", seen.replicas - 1)
       ELSE UNCHANGED <<primary, elected>> /\ Goto("choose", arg + 1)
    /\ UNCHANGED <<scenario, cr, set, setCached, pods, pmap, counters>>

(* decommissionProxies, from the highest down: best effort.  AIStore does  *)
(* not decommission its primary.                                           *)
DecommissionProxies ==
    /\ pc = "decommission"
    /\ IF arg < mem.size
          THEN Goto("resize", 0) /\ UNCHANGED <<pmap, faults>>
          ELSE /\ Goto("decommission", arg - 1)
               /\ \/ /\ view.pmap[arg] # "absent" /\ pmap[arg] # "absent" /\ primary # arg
                     /\ pmap' = [pmap EXCEPT ![arg] = "decommission"] /\ UNCHANGED faults
                  \/ /\ view.pmap[arg] = "absent" \/ pmap[arg] = "absent" \/ primary = arg
                     /\ UNCHANGED <<pmap, faults>>
                  \/ /\ faults < MaxFaults /\ faults' = faults + 1 /\ UNCHANGED pmap
    /\ UNCHANGED <<scenario, cr, set, setCached, pods, primary, elected, disruptions,
                   edits>>

(* Mutation: one replica too many.                                         *)
MutantResize ==
    /\ pc = "resize"
    /\ set' = IF setCached.replicas = mem.size THEN set
              ELSE [set EXCEPT !.replicas = mem.size + 1, !.observed = FALSE]
    /\ Return
    /\ UNCHANGED <<scenario, cr, setCached, pods, ais, counters>>

(* UpdateStatefulSetReplicas: a patch unless the cache shows the size.     *)
Resize ==
    /\ pc = "resize"
    /\ set' = IF setCached.replicas = mem.size THEN set
              ELSE [set EXCEPT !.replicas = mem.size,
                               !.observed = @ /\ set.replicas = mem.size]
    /\ Return
    /\ UNCHANGED <<scenario, cr, setCached, pods, ais, counters>>

HandleProxyScale ==
    \/ PrepareProxyScaleDown \/ SetLowestEligiblePodAsPrimary \/ DecommissionProxies
    \/ Resize

OperatorStep ==
    \/ HandleProxyState \/ SyncProxyPodSpec \/ SyncProxyPVCRetentionPolicy
    \/ HandleProxyRollout \/ HandleProxyScale

(* A failed call or a crash of the operator, before the step's effect.     *)
Fail ==
    /\ pc # "idle" /\ faults < MaxFaults
    /\ faults' = faults + 1
    /\ Return
    /\ UNCHANGED <<scenario, cr, set, setCached, pods, ais, disruptions, edits>>

-----------------------------------------------------------------------------
(***************************************************************************)
(* The environment.                                                        *)
(***************************************************************************)
UserEdits ==
    /\ edits < Len(scenario.wishes)
    /\ edits' = edits + 1 /\ cr' = scenario.wishes[edits']
    /\ UNCHANGED <<scenario, operator, set, setCached, pods, ais, faults, disruptions>>

SyncSet ==
    /\ setCached # set /\ setCached' = set
    /\ UNCHANGED <<scenario, cr, operator, set, pods, ais, counters>>

IsActive(p) == p.phase \notin {"none", "terminating"}

Count(P(_)) == Cardinality({i \in Ordinals : P(pods[i])})

(* The StatefulSet controller writes the status.  The update revision      *)
(* becomes the current one when every pod is updated and ready.            *)
UpdateStatus ==
    LET Exists(p)  == p.phase # "none"
        IsReady(p) == p.phase = "ready"
        Updated(p) == IsActive(p) /\ p.rev = set.rev
        complete   == \A n \in {Count(Exists), Count(IsReady), Count(Updated)} :
                          n = set.replicas
        currentRev == IF complete THEN set.rev ELSE set.currentRev
        Current(p) == IsActive(p) /\ p.rev = currentRev
        new == [set EXCEPT !.observed = TRUE, !.updateRev = set.rev,
                           !.currentRev = currentRev, !.pods = Count(Exists),
                           !.ready = Count(IsReady), !.updated = Count(Updated),
                           !.current = Count(Current)]
    IN  /\ set # new /\ set' = new
        /\ UNCHANGED <<scenario, cr, operator, setCached, pods, ais, counters>>

CreatePod(i) ==
    /\ i < set.replicas /\ pods[i].phase = "none"
    /\ pods' = [pods EXCEPT ![i] =
                  [phase |-> "starting",
                   rev   |-> IF i < set.partition THEN set.currentRev ELSE set.rev]]
    /\ UNCHANGED <<scenario, cr, operator, set, setCached, ais, counters>>

(* The StatefulSet controller deletes a pod beyond the replicas, or the    *)
(* highest one off the update revision once those above it are ready.      *)
DeletePod(i) ==
    /\ IsActive(pods[i])
    /\ \/ i >= set.replicas
       \/ /\ set.partition <= i /\ i < set.replicas
          /\ pods[i].rev # set.rev
          /\ \A j \in (i + 1)..(set.replicas - 1) :
                pods[j] = [phase |-> "ready", rev |-> set.rev]
    /\ pods' = [pods EXCEPT ![i].phase = "terminating"]
    /\ UNCHANGED <<scenario, cr, operator, set, setCached, ais, counters>>

PodGone(i) ==
    /\ pods[i].phase = "terminating"
    /\ pods' = [pods EXCEPT ![i] = NoPod]
    /\ UNCHANGED <<scenario, cr, operator, set, setCached, ais, counters>>

(* A proxy that comes up joins the cluster.                                *)
PodSettles(i) ==
    /\ pods[i].phase = "starting"
    /\ pods' = [pods EXCEPT ![i].phase = IF Serving(pods[i].rev) THEN "ready" ELSE "crash"]
    /\ pmap' = [pmap EXCEPT ![i] = IF Serving(pods[i].rev) THEN "active" ELSE @]
    /\ UNCHANGED <<scenario, cr, operator, set, setCached, primary, elected, counters>>

(* A decommissioned proxy leaves the map and exits; kubelet restarts it.   *)
ProxyLeaves(i) ==
    /\ pmap[i] = "decommission"
    /\ pmap' = [pmap EXCEPT ![i] = "absent"]
    /\ pods' = [pods EXCEPT ![i].phase = IF @ = "ready" THEN "starting" ELSE @]
    /\ UNCHANGED <<scenario, cr, operator, set, setCached, primary, elected, counters>>

(* The proxies elect a new primary when it is down.                        *)
Elect(i) ==
    /\ pods[primary].phase # "ready" /\ CanLead(i)
    /\ pmap' = [pmap EXCEPT ![primary] = "absent"]
    /\ primary' = i /\ elected' = TRUE
    /\ UNCHANGED <<scenario, cr, operator, set, setCached, pods, counters>>

(* The primary drops a proxy that it hears nothing of.                     *)
KeepaliveDrops(i) ==
    /\ CanLead(primary) /\ pmap[i] # "absent" /\ pods[i].phase # "ready"
    /\ pmap' = [pmap EXCEPT ![i] = "absent"]
    /\ UNCHANGED <<scenario, cr, operator, set, setCached, pods, primary, elected,
                   counters>>

(* A proxy restarts by itself.                                             *)
Disrupt(i) ==
    /\ disruptions < MaxDisruptions /\ disruptions' = disruptions + 1
    /\ pods[i].phase = "ready"
    /\ pods' = [pods EXCEPT ![i].phase = "starting"]
    /\ UNCHANGED <<scenario, cr, operator, set, setCached, ais, faults, edits>>

Pods(i) ==
    \/ CreatePod(i) \/ DeletePod(i) \/ PodGone(i) \/ PodSettles(i)
    \/ ProxyLeaves(i) \/ KeepaliveDrops(i)

Next ==
    \/ OperatorStep \/ Fail \/ UserEdits \/ SyncSet \/ UpdateStatus
    \/ \E i \in Ordinals : Pods(i) \/ Elect(i) \/ Disrupt(i)

Spec == Init /\ [][Next]_vars

(* The worker is requeued until the proxies are ready; the informer, the   *)
(* StatefulSet controller, the kubelets and AIStore go on working.         *)
Fairness ==
    /\ WF_vars(OperatorStep) /\ WF_vars(SyncSet) /\ WF_vars(UpdateStatus)
    /\ WF_vars(\E i \in Ordinals : Elect(i))
    /\ \A i \in Ordinals : WF_vars(Pods(i))

FairSpec == Spec /\ Fairness

-----------------------------------------------------------------------------
(***************************************************************************)
(* Properties.                                                             *)
(***************************************************************************)
(* Neither a rollout nor a scale-down takes the primary away: whenever the *)
(* StatefulSet controller deletes a pod, the operator has moved the        *)
(* primary elsewhere, unless AIStore itself elected that proxy since       *)
(* (syncProxyPodSpec, setHighestPodAsPrimary,                              *)
(* ensurePrimarySurvivesScaleDown).  This is for one edit at a time: a     *)
(* template that is edited back while it rolls out turns the rollout       *)
(* around, under the primary.  Nor is it for the upgrade of an only proxy, *)
(* or of one whose status shows no proxy ready: that is not protected.     *)
PrimaryMovedFirst ==
    [][\A i \in Ordinals :
          pods[i].phase = "ready" /\ pods'[i].phase = "terminating" /\ primary = i
              => elected]_pods

(* Proxies are removed only under the retention policy for their claims    *)
(* that the CR asked for when the removal was decided: the policy is in    *)
(* the StatefulSet before the replicas shrink (syncProxyPVCRetentionPolicy *)
(* before handleProxyScale), however stale the cached StatefulSet is, if   *)
(* the user changes the policy once: of a policy that is changed and       *)
(* changed back a stale copy may show what the CR asks for.                *)
PolicyBeforeScaleDown ==
    [][set'.replicas < set.replicas => set.keep = mem.keep]_set

(* The proxies that the CR asks for, in service under a primary.           *)
Settled ==
    /\ set.replicas = cr.size /\ set.keep = cr.keep
    /\ \A i \in Ordinals :
          IF i < cr.size
          THEN pods[i] = [phase |-> "ready", rev |-> cr.rev] /\ pmap[i] = "active"
          ELSE pods[i].phase = "none" /\ pmap[i] = "absent"
    /\ primary < cr.size

(* The proxies become what the CR asks for, unless its revision is a bad   *)
(* one: the partition is opened at last, the primary and the other calls   *)
(* hold up nothing for ever (handleProxyState).                            *)
ProxiesSettle == <>[]Serving(cr.rev) => <>[]Settled
=============================================================================
