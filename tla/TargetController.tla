--------------------------- MODULE TargetController ---------------------------
(***************************************************************************)
(* How the AIStore controller scales and rolls the targets of a cluster    *)
(* that is in service: handleTargetState and what follows it in            *)
(* handleCREvents, against the StatefulSet controller, the pods and the    *)
(* cluster map (Smap) of AIStore.                                          *)
(*                                                                         *)
(* The StatefulSet of the targets has the update strategy OnDelete: its    *)
(* controller creates and removes pods to match the replicas, but only the *)
(* operator deletes a pod to replace its revision.  The operator reads the *)
(* CR and the StatefulSet from caches that lag, pods and the cluster map   *)
(* directly.  A reconcile may start at any time; pc is its next step, mem  *)
(* the CR and seen the StatefulSet in its memory, arg a size, revision or  *)
(* ordinal that the next step uses.                                        *)
(***************************************************************************)
EXTENDS Naturals, Sequences, FiniteSets, StatefulSetStatus

CONSTANTS
    MaxSize,    \* bound: ordinals of targets are below it
    Revs,       \* the revisions of the pod template
    Scenarios,  \* clusters and the edits that their users make
    MaxFaults   \* bound: failed calls and crashes of the operator

Ordinals == 0..(MaxSize - 1)
Sizes    == 0..MaxSize
Wish     == [size : 1..MaxSize, rev : Revs]

(***************************************************************************)
(* A scenario: the size and revision that the cluster starts with, what    *)
(* becomes of a pod of each revision, whether a scale-down keeps the data  *)
(* (maintenance) or not (decommission), and the sizes and revisions that   *)
(* the user asks for, one after the other, at any time.                    *)
(***************************************************************************)
Scenario ==
    [start : Wish, fate : [Revs -> {"ready", "crash", "unschedulable"}],
     retain : BOOLEAN, wishes : Seq(Wish)]

ASSUME SizeAssumption == MaxSize \in Nat \ {0} /\ Revs \subseteq Nat
ASSUME ScenarioAssumption == Scenarios \subseteq Scenario
ASSUME FaultAssumption == MaxFaults \in Nat

VARIABLES
    scenario,   \* the scenario that is played
    cr,         \* the CR at the API server
    cached,     \* the CR in the informer cache
    mem,        \* the CR in the memory of the running reconcile
    pc,         \* the next step of the running reconcile
    set,        \* the StatefulSet of the targets at the API server
    setCached,  \* the StatefulSet in the informer cache
    seen,       \* the StatefulSet in the memory of the running reconcile
    arg,        \* a number that the next step needs
    pods,       \* the target pods
    smap,       \* the targets in the cluster map of AIStore
    rebalance,  \* whether the live config of the cluster allows rebalance
    faults,     \* faults so far
    edits       \* edits so far

operator == <<mem, pc, seen, arg>>
world    == <<pods, smap, rebalance>>
vars == <<scenario, cr, cached, mem, pc, set, setCached, seen, arg, pods, smap,
          rebalance, faults, edits>>

Start  == scenario.start
Fate   == scenario.fate
Retain == scenario.retain

(* allowed is the condition ReadyRebalance, applied the value of it in the *)
(* config whose hash the annotation of the CR records.                     *)
CR == [size : 1..MaxSize, rev : Revs, allowed : BOOLEAN, applied : BOOLEAN]

StatefulSet ==
    [replicas : 1..MaxSize, rev : Revs, observed : BOOLEAN, pods : Sizes,
     ready : Sizes, updated : Sizes, updateRev : Revs, currentRev : Revs]

Phases == {"none", "starting", "ready", "crash", "unschedulable", "terminating"}

Membership == {"absent", "active", "maintenance", "decommission"}

Steps ==
    {"idle", "rolloutDisable", "rolloutConfig", "patchTemplate", "shrinkEnable",
     "shrinkConfig", "prepare", "resolve", "growDisable", "growConfig", "resize",
     "rollout", "drain", "deletePod", "checkReady", "finalEnable", "finalConfig"}

(* The types of the state; no StatefulSet is scaled beyond the sizes that  *)
(* the user asks for (UpdateStatefulSetReplicas).                          *)
TypeOK ==
    /\ scenario \in Scenarios
    /\ cr \in CR /\ cached \in CR /\ mem \in CR
    /\ pc \in Steps
    /\ set \in StatefulSet /\ setCached \in StatefulSet /\ seen \in StatefulSet
    /\ arg \in Sizes \cup Revs
    /\ pods \in [Ordinals -> [phase : Phases, rev : Revs]]
    /\ smap \in [Ordinals -> Membership]
    /\ rebalance \in BOOLEAN
    /\ faults \in 0..MaxFaults /\ edits \in 0..Len(scenario.wishes)

NoPod == [phase |-> "none", rev |-> Start.rev]

Serving(r) == Fate[r] = "ready"

(* Rebalance is first allowed when the cluster has become ready.           *)
StartCR ==
    [size |-> Start.size, rev |-> Start.rev,
     allowed |-> Serving(Start.rev), applied |-> Serving(Start.rev)]

StartSet ==
    [replicas |-> Start.size, rev |-> Start.rev, observed |-> TRUE,
     pods |-> Start.size, ready |-> IF Serving(Start.rev) THEN Start.size ELSE 0,
     updated |-> Start.size, updateRev |-> Start.rev, currentRev |-> Start.rev]

(* A cluster at rest: bootstrapped, every pod as far as its revision gets. *)
Init ==
    /\ scenario \in Scenarios
    /\ cr = StartCR /\ cached = StartCR /\ mem = StartCR
    /\ pc = "idle" /\ arg = 0
    /\ set = StartSet /\ setCached = StartSet /\ seen = StartSet
    /\ pods = [i \in Ordinals |->
                 IF i < Start.size THEN [phase |-> Fate[Start.rev], rev |-> Start.rev]
                                   ELSE NoPod]
    /\ smap = [i \in Ordinals |->
                 IF i < Start.size /\ Serving(Start.rev) THEN "active" ELSE "absent"]
    /\ rebalance = StartCR.allowed
    /\ faults = 0 /\ edits = 0

-----------------------------------------------------------------------------
(* The end of a reconcile: nothing of it is remembered.                    *)
Return == pc' = "idle" /\ mem' = StartCR /\ seen' = StartSet /\ arg' = 0

Goto(step, a, n) ==
    IF step = "idle" THEN Return
    ELSE pc' = step /\ mem' = a /\ arg' = n /\ UNCHANGED seen

IsActive(p) == p.phase \notin {"none", "terminating"}

Members == {i \in Ordinals : smap[i] # "absent"}

(***************************************************************************)
(* handleTargetState up to its first write: what the cached objects call   *)
(* for.  A status that lags behind its spec, a scaling in progress and a   *)
(* StatefulSet that is not ready end the reconcile without an effect.      *)
(***************************************************************************)
Choice(a, s) ==
    LET rolling == IsRolloutInProgress(s, TRUE)
        scaling == IsScalingInProgress(s, TRUE)
    IN  IF ~IsStatusCurrent(s) THEN "idle"
        ELSE IF a.rev # s.rev /\ ~scaling THEN "rolloutDisable"
        ELSE IF StatefulSetScalingNeeded(s, a.size) /\ ~rolling
             THEN IF s.replicas < a.size THEN "resolve"
                  ELSE IF Retain THEN "prepare" ELSE "shrinkEnable"
        ELSE IF rolling THEN "rollout"
        ELSE IF ~scaling /\ IsStatefulSetFullyReady(s, a.size) THEN "checkReady"
        ELSE "idle"

HandleTargetState ==
    /\ pc = "idle"
    /\ pc' = Choice(cached, setCached)
    /\ pc' # "idle"
    /\ mem' = cached /\ seen' = setCached /\ arg' = cached.rev
    /\ UNCHANGED <<scenario, cr, cached, set, setCached, world, faults, edits>>

(***************************************************************************)
(* The rebalance condition and the live config.  The patch of the status   *)
(* and the patch of the annotations both answer with the live CR, which    *)
(* replaces the one in memory.                                             *)
(***************************************************************************)
SetRebalanceCondition(at, next, allowed) ==
    /\ pc = at
    /\ IF allowed /\ mem.allowed
          THEN UNCHANGED cr /\ Goto(next, mem, arg)
          ELSE cr' = [cr EXCEPT !.allowed = allowed] /\ Goto(next, cr', arg)
    /\ UNCHANGED <<scenario, cached, set, setCached, world, faults, edits>>

(* handleConfigState: the config is sent when forced or when its hash is   *)
(* not the recorded one; then the hash is recorded, unless that fails.     *)
HandleConfigState(at, next, force) ==
    /\ pc = at
    /\ LET sent    == force \/ mem.applied # mem.allowed
           record  == mem.applied # mem.allowed
           recorded == [cr EXCEPT !.applied = mem.allowed]
       IN  /\ rebalance' = IF sent THEN mem.allowed ELSE rebalance
           /\ \/ /\ ~record
                 /\ UNCHANGED <<cr, faults>> /\ Goto(next, mem, arg)
              \/ /\ record
                 /\ cr' = recorded /\ UNCHANGED faults /\ Goto(next, recorded, arg)
              \/ /\ record /\ faults < MaxFaults
                 /\ faults' = faults + 1 /\ UNCHANGED cr /\ Return
    /\ UNCHANGED <<scenario, cached, set, setCached, pods, smap, edits>>

(* syncTargetPodSpec: rebalance is disabled before the template changes to *)
(* the one wanted when the reconcile began.                                *)
PatchTemplate ==
    /\ pc = "patchTemplate"
    /\ set' = [set EXCEPT !.rev = arg, !.observed = set.observed /\ set.rev = arg]
    /\ Return
    /\ UNCHANGED <<scenario, cr, cached, setCached, world, faults, edits>>

(* Mutation: the condition is set, the live config is left to a later sync.*)
MutantSyncTargetPodSpec ==
    \/ SetRebalanceCondition("rolloutDisable", "patchTemplate", FALSE)
    \/ PatchTemplate

SyncTargetPodSpec ==
    \/ SetRebalanceCondition("rolloutDisable", "rolloutConfig", FALSE)
    \/ HandleConfigState("rolloutConfig", "patchTemplate", TRUE)
    \/ PatchTemplate

-----------------------------------------------------------------------------
(***************************************************************************)
(* Scaling: handleTargetScaling.                                           *)
(***************************************************************************)
(* The targets that go when from replicas become to.                       *)
Removed(from, to) == {i \in Ordinals : to <= i /\ i < from}

(* Not in the cluster map, and neither gone nor known to be unable to run: *)
(* the operator waits for the target to register.                          *)
AwaitsRegistration(i) ==
    smap[i] = "absent" /\ pods[i].phase \in {"starting", "ready", "terminating"}

(* prepareTargetsForScaleDown, from the highest ordinal down to low.       *)
Prepared(low) ==
    [i \in Ordinals |->
        IF i \in Removed(seen.replicas, mem.size) /\ i >= low /\ smap[i] = "active"
        THEN IF Retain THEN "maintenance" ELSE "decommission"
        ELSE smap[i]]

PrepareTargetsForScaleDown ==
    /\ pc = "prepare"
    /\ \E low \in 0..seen.replicas :
        /\ low >= mem.size \/ low = seen.replicas
        /\ \A i \in Removed(seen.replicas, low) : ~AwaitsRegistration(i)
        /\ smap' = Prepared(low)
        /\ \/ low <= mem.size /\ Goto("resolve", mem, 0) /\ UNCHANGED faults
           \/ low > mem.size /\ AwaitsRegistration(low - 1) /\ Return /\ UNCHANGED faults
           \/ low > mem.size /\ ~AwaitsRegistration(low - 1) /\ smap[low - 1] = "active"
              /\ faults < MaxFaults /\ faults' = faults + 1 /\ Return
    /\ UNCHANGED <<scenario, cr, cached, set, setCached, pods, rebalance, edits>>

(* Mutation: rebalance stays as a rollout before left it.                  *)
MutantStartTargetScaling ==
    \/ pc = "shrinkEnable" /\ Goto("prepare", mem, arg)
       /\ UNCHANGED <<scenario, cr, cached, set, setCached, world, faults, edits>>
    \/ PrepareTargetsForScaleDown

StartTargetScaling ==
    \/ SetRebalanceCondition("shrinkEnable", "shrinkConfig", TRUE)
    \/ HandleConfigState("shrinkConfig", "prepare", TRUE)
    \/ PrepareTargetsForScaleDown

(* With maintenance: every removed target that is a member is in it.       *)
IsReadyToScaleDownRetain(size) ==
    \A i \in Removed(setCached.replicas, size) : smap[i] \in {"absent", "maintenance"}

(* Mutation: nobody waits for the data to move.                            *)
MutantIsReadyToScaleDownDecommission == Cardinality(Members) > 0

(* With decommission: nobody is at it, and somebody has left.              *)
IsReadyToScaleDownDecommission ==
    /\ \A i \in Ordinals : smap[i] # "decommission"
    /\ Cardinality(Members) # setCached.replicas

IsReadyToScaleDown(size) ==
    IF Retain THEN IsReadyToScaleDownRetain(size) ELSE IsReadyToScaleDownDecommission

(* resolveStatefulSetScaling reads the StatefulSet again, from the cache.  *)
ResolveStatefulSetScaling ==
    /\ pc = "resolve"
    /\ LET current == setCached.replicas
       IN  IF mem.size > current + 1 /\ current > 0
              THEN Goto("growDisable", mem, mem.size)
           ELSE IF mem.size < current /\ ~IsReadyToScaleDown(mem.size)
              THEN Return
           ELSE Goto("resize", mem, mem.size)
    /\ UNCHANGED <<scenario, cr, cached, set, setCached, world, faults, edits>>

(* Mutation: one replica too many.                                         *)
MutantResize ==
    /\ pc = "resize"
    /\ set' = IF setCached.replicas = arg THEN set
              ELSE [set EXCEPT !.replicas = arg + 1, !.observed = FALSE]
    /\ Return
    /\ UNCHANGED <<scenario, cr, cached, setCached, world, faults, edits>>

(* UpdateStatefulSetReplicas: a patch unless the cache shows the size.     *)
Resize ==
    /\ pc = "resize"
    /\ set' = IF setCached.replicas = arg THEN set
              ELSE [set EXCEPT !.replicas = arg,
                               !.observed = set.observed /\ set.replicas = arg]
    /\ Return
    /\ UNCHANGED <<scenario, cr, cached, setCached, world, faults, edits>>

HandleTargetScaling ==
    \/ StartTargetScaling
    \/ ResolveStatefulSetScaling
    \/ SetRebalanceCondition("growDisable", "growConfig", FALSE)
    \/ HandleConfigState("growConfig", "resize", TRUE)
    \/ Resize

-----------------------------------------------------------------------------
(***************************************************************************)
(* Rollout: handleTargetRollout.                                           *)
(***************************************************************************)
IsPodRolloutCompleted(p) == p.phase \in {"ready", "unschedulable"}

(* Mutation: the pods before i need not be up.                             *)
MutantNeedsUpdate(i) ==
    /\ i < seen.replicas
    /\ IsActive(pods[i]) /\ pods[i].rev # seen.updateRev
    /\ \A j \in 0..(i - 1) : IsActive(pods[j]) /\ pods[j].rev = seen.updateRev

(* findPodNeedingUpdate: every pod before i is on the update revision and  *)
(* up, and i is not on it.                                                 *)
NeedsUpdate(i) ==
    /\ i < seen.replicas
    /\ IsActive(pods[i]) /\ pods[i].rev # seen.updateRev
    /\ \A j \in 0..(i - 1) :
          IsPodRolloutCompleted(pods[j]) /\ pods[j].rev = seen.updateRev

FindPodNeedingUpdate ==
    /\ pc = "rollout"
    /\ IF \E i \in Ordinals : NeedsUpdate(i)
          THEN \E i \in Ordinals : NeedsUpdate(i) /\ Goto("drain", mem, i)
          ELSE Return
    /\ UNCHANGED <<scenario, cr, cached, set, setCached, world, faults, edits>>

(* Mutation: the pod is deleted without maintenance.                       *)
MutantSkipsMaintenance ==
    /\ pc = "drain"
    /\ IF pods[arg].phase = "none" THEN Return ELSE Goto("deletePod", mem, arg)
    /\ UNCHANGED <<scenario, cr, cached, set, setCached, world, faults, edits>>

(* prepareTargetForRollout: maintenance now, deletion in a later reconcile *)
(* that finds the target in maintenance.  A pod or target that is not      *)
(* found is an error; so is maintenance of a target in decommission.       *)
PrepareTargetForRollout ==
    /\ pc = "drain"
    /\ \/ /\ pods[arg].phase = "unschedulable"
          /\ Goto("deletePod", mem, arg) /\ UNCHANGED smap
       \/ /\ pods[arg].phase \notin {"none", "unschedulable"}
          /\ CASE smap[arg] = "maintenance" ->
                    Goto("deletePod", mem, arg) /\ UNCHANGED smap
               [] smap[arg] = "active" ->
                    Return /\ smap' = [smap EXCEPT ![arg] = "maintenance"]
               [] OTHER -> Return /\ UNCHANGED smap
       \/ pods[arg].phase = "none" /\ Return /\ UNCHANGED smap
    /\ UNCHANGED <<scenario, cr, cached, set, setCached, pods, rebalance, faults,
                   edits>>

Terminated(p) ==
    IF p.phase = "none" THEN p ELSE [p EXCEPT !.phase = "terminating"]

DeletePod ==
    /\ pc = "deletePod"
    /\ pods' = [pods EXCEPT ![arg] = Terminated(@)]
    /\ Return
    /\ UNCHANGED <<scenario, cr, cached, set, setCached, smap, rebalance, faults,
                   edits>>

HandleTargetRollout == FindPodNeedingUpdate \/ PrepareTargetForRollout \/ DeletePod

-----------------------------------------------------------------------------
(***************************************************************************)
(* The rest of handleCREvents, once the targets are ready.                 *)
(***************************************************************************)
CheckAISClusterReady ==
    /\ pc = "checkReady"
    /\ IF Cardinality(Members) < mem.size THEN Return ELSE Goto("finalEnable", mem, 0)
    /\ UNCHANGED <<scenario, cr, cached, set, setCached, world, faults, edits>>

HandleReady ==
    \/ CheckAISClusterReady
    \/ SetRebalanceCondition("finalEnable", "finalConfig", TRUE)
    \/ HandleConfigState("finalConfig", "idle", FALSE)

OperatorStep ==
    \/ HandleTargetState \/ SyncTargetPodSpec \/ HandleTargetScaling
    \/ HandleTargetRollout \/ HandleReady

(* A failed call or a crash of the operator, before the step's effect.     *)
Fail ==
    /\ pc # "idle" /\ faults < MaxFaults
    /\ faults' = faults + 1
    /\ Return
    /\ UNCHANGED <<scenario, cr, cached, set, setCached, pods, smap, rebalance, edits>>

-----------------------------------------------------------------------------
(***************************************************************************)
(* The environment.                                                        *)
(***************************************************************************)
UserEdits ==
    /\ edits < Len(scenario.wishes)
    /\ edits' = edits + 1
    /\ LET w == scenario.wishes[edits']
       IN  cr' = [cr EXCEPT !.size = w.size, !.rev = w.rev]
    /\ UNCHANGED <<scenario, cached, operator, set, setCached, world, faults>>

SyncCR ==
    /\ cached # cr /\ cached' = cr
    /\ UNCHANGED <<scenario, cr, operator, set, setCached, world, faults, edits>>

SyncSet ==
    /\ setCached # set /\ setCached' = set
    /\ UNCHANGED <<scenario, cr, cached, operator, set, world, faults, edits>>

(* The StatefulSet controller writes the status.                           *)
Count(P(_)) == Cardinality({i \in Ordinals : P(pods[i])})

UpdateStatus ==
    LET Exists(p)  == p.phase # "none"
        IsReady(p) == p.phase = "ready"
        Updated(p) == IsActive(p) /\ p.rev = set.rev
        new == [set EXCEPT !.observed = TRUE, !.updateRev = set.rev,
                           !.pods = Count(Exists), !.ready = Count(IsReady),
                           !.updated = Count(Updated)]
    IN  /\ set # new /\ set' = new
        /\ UNCHANGED <<scenario, cr, cached, operator, setCached, world, faults, edits>>

CreatePod(i) ==
    /\ i < set.replicas /\ pods[i].phase = "none"
    /\ pods' = [pods EXCEPT ![i] = [phase |-> "starting", rev |-> set.rev]]
    /\ UNCHANGED <<scenario, cr, cached, operator, set, setCached, smap, rebalance,
                   faults, edits>>

RemovePod(i) ==
    /\ i >= set.replicas /\ IsActive(pods[i])
    /\ pods' = [pods EXCEPT ![i] = Terminated(@)]
    /\ UNCHANGED <<scenario, cr, cached, operator, set, setCached, smap, rebalance,
                   faults, edits>>

(* A target that terminates outside maintenance leaves the cluster map.    *)
PodGone(i) ==
    /\ pods[i].phase = "terminating"
    /\ pods' = [pods EXCEPT ![i] = NoPod]
    /\ smap' = [smap EXCEPT ![i] = IF @ = "active" THEN "absent" ELSE @]
    /\ UNCHANGED <<scenario, cr, cached, operator, set, setCached, rebalance,
                   faults, edits>>

(* A daemon that comes up joins the cluster, which ends its maintenance.   *)
PodSettles(i) ==
    /\ pods[i].phase = "starting"
    /\ pods' = [pods EXCEPT ![i].phase = Fate[pods[i].rev]]
    /\ smap' = [smap EXCEPT ![i] = IF Serving(pods[i].rev) THEN "active" ELSE @]
    /\ UNCHANGED <<scenario, cr, cached, operator, set, setCached, rebalance,
                   faults, edits>>

(* A decommissioned target leaves the cluster map, and then its daemon     *)
(* exits.                                                                  *)
DecommissionDone(i) ==
    /\ smap[i] = "decommission"
    /\ smap' = [smap EXCEPT ![i] = "absent"]
    /\ UNCHANGED <<scenario, cr, cached, operator, set, setCached, pods, rebalance,
                   faults, edits>>

DaemonExits(i) ==
    /\ pods[i].phase = "ready" /\ smap[i] = "absent"
    /\ pods' = [pods EXCEPT ![i].phase = "crash"]
    /\ UNCHANGED <<scenario, cr, cached, operator, set, setCached, smap, rebalance,
                   faults, edits>>

Pods(i) ==
    \/ CreatePod(i) \/ RemovePod(i) \/ PodGone(i) \/ PodSettles(i)
    \/ DecommissionDone(i) \/ DaemonExits(i)

Next ==
    \/ OperatorStep \/ Fail \/ UserEdits \/ SyncCR \/ SyncSet \/ UpdateStatus
    \/ \E i \in Ordinals : Pods(i)

Spec == Init /\ [][Next]_vars

(* The worker is requeued until the targets are ready; the informers, the  *)
(* StatefulSet controller, the kubelets and AIStore go on working.         *)
Fairness ==
    /\ WF_vars(OperatorStep) /\ WF_vars(SyncCR) /\ WF_vars(SyncSet)
    /\ WF_vars(UpdateStatus)
    /\ \A i \in Ordinals : WF_vars(Pods(i))

FairSpec == Spec /\ Fairness

-----------------------------------------------------------------------------
(***************************************************************************)
(* Properties.                                                             *)
(***************************************************************************)
(* The targets that the StatefulSet should have and that do not serve.     *)
Down == {i \in Ordinals : i < set.replicas /\ pods[i].phase # "ready"}

(* A step that takes target i away.                                        *)
Evicts(i) == pods[i].phase = "ready" /\ pods'[i].phase = "terminating"

(* A rollout takes targets out of service one at a time                    *)
(* (findPodNeedingUpdate): the operator deletes a serving pod only while   *)
(* every other target of the cluster serves, however stale the status that *)
(* it works from and wherever it crashed before.  This is for one upgrade  *)
(* at a time, to pods that find a node: an unschedulable one counts as     *)
(* rolled out, and a second upgrade begins again at the first target.      *)
OneTargetAtATime ==
    [][\A i \in Ordinals : Evicts(i) /\ i < set.replicas => Down = {}]_pods

(* No target in service is taken away: a pod is deleted for a rollout or   *)
(* for a scale-down only while its target is in maintenance or after it    *)
(* was decommissioned and left (prepareTargetForRollout,                   *)
(* prepareTargetsForScaleDown, isReadyToScaleDown).  An upgrade that comes *)
(* with a scale-down is an exception: a target may rejoin after its        *)
(* maintenance and be removed.                                             *)
DrainedBeforeEviction ==
    [][\A i \in Ordinals : Evicts(i) => smap[i] \in {"absent", "maintenance"}]_pods

(* While a target that stays is in maintenance, for a rollout, the live    *)
(* config keeps rebalance off (syncTargetPodSpec), so that its absence and *)
(* its return move no data.  This, too, is for one edit at a time.         *)
NoRebalanceInRollout ==
    (\E i \in Ordinals : i < cr.size /\ smap[i] = "maintenance") => ~rebalance

(* Rebalance is on while a target is decommissioned, so that its data can  *)
(* migrate (startTargetScaling), unless the user changes the template      *)
(* while the decommission is under way.                                    *)
DecommissionMigrates ==
    (\E i \in Ordinals : smap[i] = "decommission") => rebalance

(* The cluster that the spec asks for, in service.                         *)
Converged ==
    /\ set.replicas = cr.size
    /\ \A i \in Ordinals : i < cr.size =>
          pods[i] = [phase |-> "ready", rev |-> cr.rev] /\ smap[i] = "active"
    /\ rebalance

(* The targets become what the user asked for last, unless the revision is *)
(* a bad one: size, revision, all of them serving and in the cluster map,  *)
(* and rebalance allowed again (handleTargetState, handleCREvents).        *)
EventuallyConverges == <>[]Serving(cr.rev) => <>[]Converged
=============================================================================
