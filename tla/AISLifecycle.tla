---------------------------- MODULE AISLifecycle ----------------------------
(***************************************************************************)
(* The life of one fixed-size AIStore custom resource (CR) under the       *)
(* AIStore controller: creation, bootstrap, readiness, shutdown, abort of  *)
(* a shutdown, decommission, cleanup and removal of the finalizer.         *)
(*                                                                         *)
(* The controller has one worker.  A reconcile reads the CR from the       *)
(* informer cache, which may lag behind the API server, and then takes a   *)
(* sequence of steps, each at most one write; pc is the next step and mem  *)
(* the in-memory CR.  An error return and a crash of the operator are the  *)
(* same: mem is lost and the request is queued again (action Fail).        *)
(* Status is written by patchStatus, a merge patch of the whole in-memory  *)
(* status without a resource version; the answer of the API server, i.e.   *)
(* the live CR after the patch, replaces the in-memory object.             *)
(***************************************************************************)
EXTENDS Naturals, Sequences, FiniteSets

CONSTANTS
    Size,       \* replicas of either StatefulSet: GetProxySize, GetTargetSize
    Hosts,      \* the nodes matched by the cluster's selectors
    Opts,       \* the combinations of spec options that are considered
    MaxEdits,   \* bound: how often the user flips spec.shutdownCluster
    MaxFaults,  \* bound: failed calls, operator crashes and failing pods
    PodsFail    \* whether a ready pod may become unready by itself

ASSUME SizeAssumption == Size \in Nat \ {0}
ASSUME BoundAssumption == MaxEdits \in Nat /\ MaxFaults \in Nat /\ PodsFail \in BOOLEAN
ASSUME OptsAssumption ==
    Opts \subseteq [cleanupMetadata : BOOLEAN, hostPath : BOOLEAN, externalLB : BOOLEAN]

VARIABLES
    opts,       \* the chosen spec options
    cr,         \* the CR at the API server
    cached,     \* the CR as the informer cache shows it
    mem,        \* the CR in the memory of the running reconcile
    pc,         \* the next step of the running reconcile, or "idle"
    updated,    \* whether the running cleanup pass deleted something
    queued,     \* the workqueue holds a request for this CR
    ss,         \* the StatefulSets at the API server, with their pods
    ssCached,   \* the StatefulSets as the informer cache shows them
    res,        \* the other Kubernetes resources of the cluster
    lbReady,    \* the load balancers have their ingress
    stopped,    \* the AIS daemons were told to shut down or to decommission
    jobs,       \* the latest host cleanup job of every node
    jobsCached, \* the nodes whose latest job the informer cache shows
    faults,     \* faults so far
    edits       \* edits of spec.shutdownCluster so far

operator == <<mem, pc, updated>>
world    == <<ss, ssCached, res, lbReady, stopped, jobs, jobsCached>>
vars     == <<opts, cr, cached, mem, pc, updated, queued, ss, ssCached, res,
              lbReady, stopped, jobs, jobsCached, faults, edits>>

Kinds == {"proxy", "target"}

CleanupStates == {"Decommissioning", "CleaningResources", "HostCleanup", "Finalized"}

States == CleanupStates \cup
    {"", "Initialized", "InitializingLB", "PendingLB", "Created", "Ready",
     "Upgrading", "ShuttingDown", "Shutdown"}

CR == [exists : BOOLEAN, deleting : BOOLEAN, finalizer : BOOLEAN,
       shutdown : BOOLEAN, state : States, created : BOOLEAN,
       ready : BOOLEAN, rebalance : BOOLEAN, url : BOOLEAN, id : BOOLEAN]

StatefulSet == [exists : BOOLEAN, replicas : 0..Size, pods : 0..Size, ready : 0..Size]

(***************************************************************************)
(* The resources other than StatefulSets, grouped by the function that     *)
(* creates them: base stands for the RBAC objects, ConfigMaps, headless    *)
(* services, certificate and admin client; lb for the load balancer        *)
(* services; pvcProxy and pvcTarget for the volume claims.                 *)
(***************************************************************************)
Resources == {"base", "lb", "pdb", "pvcProxy", "pvcTarget"}

ResourceState == {"absent", "present", "terminating"}

(* A done job has succeeded, or is older than two minutes.                 *)
JobState == {"none", "active", "done"}

Steps ==
    {"idle", "addFinalizer", "markInitialized", "markDecommissioning",
     "disableRebalance", "forceConfig", "markShuttingDown", "abortShutdown",
     "scaleProxies", "awaitProxies", "scaleTargets", "awaitTargets",
     "markShutdown", "decommission", "markCleanup", "cleanup", "createJobs",
     "markJobsCreated", "markHostCleanup", "cleanupHost", "markFinalized",
     "finalize", "prereqs", "externalAccess", "markLB", "daemonPrereqs",
     "setURL", "initProxies", "initTargets", "markCreated", "handleProxies",
     "handleTargets", "checkReady", "enableRebalance", "syncConfig",
     "markReady", "markUpgrading"}

(* The types of the state; no StatefulSet is scaled beyond Size and no     *)
(* more pods are ready than that (UpdateStatefulSetReplicas).              *)
TypeOK ==
    /\ opts \in [cleanupMetadata : BOOLEAN, hostPath : BOOLEAN, externalLB : BOOLEAN]
    /\ cr \in CR /\ cached \in CR /\ mem \in CR
    /\ pc \in Steps
    /\ updated \in BOOLEAN /\ queued \in BOOLEAN
    /\ ss \in [Kinds -> StatefulSet] /\ ssCached \in [Kinds -> StatefulSet]
    /\ res \in [Resources -> ResourceState]
    /\ lbReady \in BOOLEAN /\ stopped \in BOOLEAN
    /\ jobs \in [Hosts -> JobState] /\ jobsCached \in SUBSET Hosts
    /\ faults \in 0..MaxFaults /\ edits \in 0..MaxEdits

NewCR ==
    [exists |-> TRUE, deleting |-> FALSE, finalizer |-> FALSE, shutdown |-> FALSE,
     state |-> "", created |-> FALSE, ready |-> FALSE, rebalance |-> FALSE,
     url |-> FALSE, id |-> FALSE]

NoStatefulSet == [exists |-> FALSE, replicas |-> 0, pods |-> 0, ready |-> 0]

(* The user has just created the CR and the informer has delivered it.     *)
(* Part of the bounds on edits and faults may be used up.                  *)
Init ==
    /\ opts \in Opts
    /\ cr = NewCR /\ cached = NewCR /\ mem = NewCR
    /\ pc = "idle" /\ updated = FALSE /\ queued = TRUE
    /\ ss = [k \in Kinds |-> NoStatefulSet] /\ ssCached = ss
    /\ res = [r \in Resources |-> "absent"]
    /\ lbReady = FALSE /\ stopped = FALSE
    /\ jobs = [h \in Hosts |-> "none"] /\ jobsCached = {}
    /\ faults \in 0..MaxFaults /\ edits \in 0..MaxEdits

-----------------------------------------------------------------------------
(***************************************************************************)
(* Predicates of the CR that decide what a reconcile does.                 *)
(***************************************************************************)
(* Mutation: a shutdown request taken for a deletion.                      *)
MutantShouldDecommission(a) ==
    (a.deleting \/ a.shutdown) /\ a.state \notin CleanupStates

ShouldDecommission(a) == a.deleting /\ a.state \notin CleanupStates

ShouldStartShutdown(a) == a.shutdown /\ a.state = "Ready"

(* Mutation: Reconcile without the case of HostCleanup.                    *)
MutantDispatch(a) ==
    CASE a.state = "ShuttingDown" ->
             IF a.shutdown THEN "scaleProxies" ELSE "abortShutdown"
      [] a.state = "Shutdown" -> IF a.shutdown THEN "idle" ELSE "prereqs"
      [] a.state = "Decommissioning" -> "decommission"
      [] a.state = "CleaningResources" -> IF a.finalizer THEN "cleanup" ELSE "idle"
      [] a.state = "Finalized" -> IF a.finalizer THEN "finalize" ELSE "idle"
      [] OTHER -> "prereqs"

(* The switch of Reconcile: the step that the state of the CR calls for.   *)
Dispatch(a) ==
    CASE a.state = "ShuttingDown" ->
             IF a.shutdown THEN "scaleProxies" ELSE "abortShutdown"
      [] a.state = "Shutdown" -> IF a.shutdown THEN "idle" ELSE "prereqs"
      [] a.state = "Decommissioning" -> "decommission"
      [] a.state = "CleaningResources" -> IF a.finalizer THEN "cleanup" ELSE "idle"
      [] a.state = "HostCleanup" -> "cleanupHost"
      [] a.state = "Finalized" -> IF a.finalizer THEN "finalize" ELSE "idle"
      [] OTHER -> "prereqs"

(* What Reconcile does once the CR is initialized.                         *)
Route(a) ==
    IF ShouldDecommission(a) THEN "markDecommissioning"
    ELSE IF ShouldStartShutdown(a) THEN "disableRebalance"
    ELSE Dispatch(a)

(* Go on with step, a in memory; an idle operator remembers nothing.       *)
Goto(step, a) ==
    /\ pc' = step
    /\ mem' = IF step = "idle" THEN NewCR ELSE a
    /\ UNCHANGED <<updated, queued>>

(* The end of a reconcile; the request is queued again when asked to.      *)
Return(requeue) ==
    /\ pc' = "idle"
    /\ mem' = NewCR
    /\ updated' = FALSE
    /\ queued' = (queued \/ requeue)

(***************************************************************************)
(* patchStatus: the whole status of a replaces the live one, whatever the  *)
(* live one has become since a was read; only an empty cluster ID is left  *)
(* out of the patch.  The answer, the live CR, replaces the in-memory      *)
(* object: the step goes on with cr'.                                      *)
(***************************************************************************)
PatchStatus(a) ==
    /\ cr.exists
    /\ cr' = [cr EXCEPT !.state = a.state, !.created = a.created,
                        !.ready = a.ready, !.rebalance = a.rebalance,
                        !.url = a.url, !.id = cr.id \/ a.id]

UpdateStatusWithState(state) == PatchStatus([mem EXCEPT !.state = state])

-----------------------------------------------------------------------------
(***************************************************************************)
(* The reconcile up to the dispatch on the state.                          *)
(***************************************************************************)
StartReconcile ==
    /\ pc = "idle" /\ queued
    /\ queued' = FALSE
    /\ pc' = CASE ~cached.exists -> "idle"
               [] cached.exists /\ cached.state = "" ->
                    IF cached.finalizer THEN "markInitialized" ELSE "addFinalizer"
               [] OTHER -> Route(cached)
    /\ mem' = IF pc' = "idle" THEN NewCR ELSE cached
    /\ UNCHANGED <<opts, cr, cached, updated, world, faults, edits>>

(* Mutation: the finalizer is set in memory only.                          *)
MutantAddFinalizer ==
    /\ pc = "addFinalizer"
    /\ cr.exists /\ (cr.deleting => cr.finalizer)
    /\ Goto("markInitialized", [cr EXCEPT !.finalizer = TRUE])
    /\ UNCHANGED <<opts, cr, cached, world, faults, edits>>

(* The API server refuses a new finalizer on an object being deleted.      *)
AddFinalizer ==
    /\ pc = "addFinalizer"
    /\ cr.exists /\ (cr.deleting => cr.finalizer)
    /\ cr' = [cr EXCEPT !.finalizer = TRUE]
    /\ Goto("markInitialized", cr')
    /\ UNCHANGED <<opts, cached, world, faults, edits>>

MarkInitialized ==
    /\ pc = "markInitialized"
    /\ UpdateStatusWithState("Initialized")
    /\ Goto(Route(cr'), cr')
    /\ UNCHANGED <<opts, cached, world, faults, edits>>

MarkDecommissioning ==
    /\ pc = "markDecommissioning"
    /\ UpdateStatusWithState("Decommissioning")
    /\ Goto(Dispatch(cr'), cr')
    /\ UNCHANGED <<opts, cached, world, faults, edits>>

-----------------------------------------------------------------------------
(***************************************************************************)
(* Shutdown.                                                               *)
(***************************************************************************)
DisableRebalance ==
    /\ pc = "disableRebalance"
    /\ PatchStatus([mem EXCEPT !.rebalance = FALSE])
    /\ Goto("forceConfig", cr')
    /\ UNCHANGED <<opts, cached, world, faults, edits>>

(* handleConfigState, forced: the call to the AIS API needs a running      *)
(* proxy; the annotations are patched when the config hash changed, and    *)
(* the answer to that patch refreshes mem.                                 *)
ForceConfig ==
    /\ pc = "forceConfig"
    /\ ss["proxy"].ready > 0
    /\ \E a \in {mem, cr} : Goto("markShuttingDown", a)
    /\ UNCHANGED <<opts, cr, cached, world, faults, edits>>

(* With no proxy to talk to the call fails and the reconcile with it.      *)
ForceConfigUnreachable ==
    /\ pc = "forceConfig"
    /\ ss["proxy"].ready = 0
    /\ Return(TRUE)
    /\ UNCHANGED <<opts, cr, cached, world, faults, edits>>

MarkShuttingDown ==
    /\ pc = "markShuttingDown"
    /\ UpdateStatusWithState("ShuttingDown")
    /\ Goto(Dispatch(cr'), cr')
    /\ UNCHANGED <<opts, cached, world, faults, edits>>

AbortShutdown ==
    /\ pc = "abortShutdown"
    /\ UpdateStatusWithState("Upgrading")
    /\ Return(FALSE)
    /\ UNCHANGED <<opts, cached, world, faults, edits>>

(* UpdateStatefulSetReplicas: compares with the cached spec and patches    *)
(* the live one only on a difference.                                      *)
UpdateReplicas(k, n) ==
    /\ ssCached[k].exists
    /\ IF ssCached[k].replicas # n
          THEN ss[k].exists /\ ss' = [ss EXCEPT ![k].replicas = n]
          ELSE UNCHANGED ss

(* UpdateStatefulSetReplicas on a StatefulSet that is not there fails.     *)
UpdateReplicasFails(k, n) ==
    /\ ~ssCached[k].exists \/ (~ss[k].exists /\ ssCached[k].replicas # n)
    /\ UNCHANGED ss

ScaleDown(k, at, next) ==
    /\ pc = at
    /\ \/ UpdateReplicas(k, 0) /\ Goto(next, mem)
       \/ UpdateReplicasFails(k, 0) /\ Return(TRUE)
    /\ UNCHANGED <<opts, cr, cached, ssCached, res, lbReady,
                   stopped, jobs, jobsCached, faults, edits>>

(* IsStatefulSetSize(0) on the cached status, else requeue.                *)
AwaitDown(k, at, next) ==
    /\ pc = at
    /\ IF ssCached[k].exists /\ ssCached[k].pods = 0 THEN Goto(next, mem) ELSE Return(TRUE)
    /\ UNCHANGED <<opts, cr, cached, world, faults, edits>>

MarkShutdown ==
    /\ pc = "markShutdown"
    /\ UpdateStatusWithState("Shutdown")
    /\ Return(FALSE)
    /\ UNCHANGED <<opts, cached, world, faults, edits>>

ShutdownCluster ==
    \/ ScaleDown("proxy", "scaleProxies", "awaitProxies")
    \/ AwaitDown("proxy", "awaitProxies", "scaleTargets")
    \/ ScaleDown("target", "scaleTargets", "awaitTargets")
    \/ AwaitDown("target", "awaitTargets", "markShutdown")
    \/ MarkShutdown

-----------------------------------------------------------------------------
(***************************************************************************)
(* Decommission and cleanup.                                               *)
(***************************************************************************)
SsHasReadyReplicas(k) == ssCached[k].exists /\ ssCached[k].ready > 0

IsClusterRunning == SsHasReadyReplicas("target") /\ SsHasReadyReplicas("proxy")

(* The call that stops the daemons reaches them through a running proxy.   *)
DecommissionAIS == stopped' = (stopped \/ ss["proxy"].ready > 0)

(* decommissionCluster: while the cluster runs, ask it to stop and retry;  *)
(* a failed call is only logged.                                           *)
DecommissionCluster ==
    /\ pc = "decommission"
    /\ IF IsClusterRunning
          THEN DecommissionAIS /\ Return(TRUE)
          ELSE /\ Goto("markCleanup", mem)
               /\ UNCHANGED stopped
    /\ UNCHANGED <<opts, cr, cached, ss, ssCached, res, lbReady,
                   jobs, jobsCached, faults, edits>>

MarkCleanup ==
    /\ pc = "markCleanup"
    /\ UpdateStatusWithState("CleaningResources")
    /\ Return(FALSE)
    /\ UNCHANGED <<opts, cached, world, faults, edits>>

(* Mutation: the load balancers are forgotten.                             *)
MutantCleanupOrder ==
    <<"pdb", "ssTarget", "ssProxy", "pvcTarget", "pvcProxy", "base">>

(* The order of the delete calls of cleanup; a group goes with the last of *)
(* its members: lb with the service of the proxies, base with the          *)
(* certificate.                                                            *)
CleanupOrder ==
    <<"pdb", "ssTarget", "ssProxy", "lb", "pvcTarget", "pvcProxy", "base">>

(* Mutation: the claims go, whatever the user asked for.                   *)
MutantSwept(n) == {CleanupOrder[i] : i \in 1..n}

(* The first n objects of the order; claims are kept with the metadata.    *)
Swept(n) ==
    {CleanupOrder[i] : i \in 1..n}
        \ (IF opts.cleanupMetadata THEN {} ELSE {"pvcTarget", "pvcProxy"})

(* A delete leaves an object with a finalizer of its own terminating.      *)
Deleted(r) ==
    CASE res[r] = "present" /\ r \in {"lb", "pvcTarget", "pvcProxy"} -> "terminating"
      [] res[r] = "terminating" -> "terminating"
      [] OTHER -> "absent"

SweptResources(n) ==
    [r \in Resources |-> IF r \in Swept(n) THEN Deleted(r) ELSE res[r]]

SweptStatefulSets(n) ==
    [k \in Kinds |->
        IF (IF k = "proxy" THEN "ssProxy" ELSE "ssTarget") \in Swept(n)
        THEN [ss[k] EXCEPT !.exists = FALSE, !.replicas = 0] ELSE ss[k]]

(* AnyFunc over the deletes: did any object exist?  deleteAllPVCs answers  *)
(* for the proxy claims only.                                              *)
AnyExisted ==
    \/ \E k \in Kinds : ss[k].exists
    \/ \E r \in (Swept(Len(CleanupOrder)) \cap Resources) \ {"pvcTarget"} :
          res[r] # "absent"

(* After a complete pass: host cleanup jobs first, if the state is on host *)
(* paths; another pass later, if this one deleted something.               *)
AfterSweep ==
    IF opts.cleanupMetadata /\ opts.hostPath
       THEN pc' = "createJobs" /\ updated' = AnyExisted /\ UNCHANGED <<mem, queued>>
       ELSE IF AnyExisted THEN Return(TRUE) ELSE Goto("markHostCleanup", mem)

(* Mutation: the error of a delete is dropped and the cleanup goes on.     *)
MutantCleanup ==
    /\ pc = "cleanup"
    /\ \E n \in 0..Len(CleanupOrder) :
        /\ res' = SweptResources(n)
        /\ ss' = SweptStatefulSets(n)
        /\ IF n < Len(CleanupOrder)
              THEN faults < MaxFaults /\ faults' = faults + 1
              ELSE UNCHANGED faults
        /\ AfterSweep
    /\ UNCHANGED <<opts, cr, cached, ssCached, lbReady, stopped, jobs, jobsCached, edits>>

(* One pass of cleanup, complete or stopped by an error after n deletes.   *)
Cleanup ==
    /\ pc = "cleanup"
    /\ \E n \in 0..Len(CleanupOrder) :
        /\ res' = SweptResources(n)
        /\ ss' = SweptStatefulSets(n)
        /\ IF n < Len(CleanupOrder)
              THEN faults < MaxFaults /\ faults' = faults + 1 /\ Return(TRUE)
              ELSE UNCHANGED faults /\ AfterSweep
    /\ UNCHANGED <<opts, cr, cached, ssCached, lbReady, stopped, jobs, jobsCached, edits>>

(* createCleanupJobs: one job per node, stopped by the first error.        *)
CreateJobs ==
    /\ pc = "createJobs"
    /\ \E made \in SUBSET Hosts :
        /\ jobs' = [h \in Hosts |-> IF h \in made THEN "active" ELSE jobs[h]]
        /\ jobsCached' = jobsCached \ made
        /\ IF made = Hosts
              THEN Goto("markJobsCreated", mem) /\ UNCHANGED faults
              ELSE Return(TRUE) /\ faults < MaxFaults /\ faults' = faults + 1
    /\ UNCHANGED <<opts, cr, cached, ss, ssCached, res, lbReady, stopped, edits>>

MarkJobsCreated ==
    /\ pc = "markJobsCreated"
    /\ UpdateStatusWithState("HostCleanup")
    /\ IF updated THEN Return(TRUE) ELSE Goto("markHostCleanup", cr')
    /\ UNCHANGED <<opts, cached, world, faults, edits>>

MarkHostCleanup ==
    /\ pc = "markHostCleanup"
    /\ UpdateStatusWithState("HostCleanup")
    /\ Return(FALSE)
    /\ UNCHANGED <<opts, cached, world, faults, edits>>

(* Mutation: jobs are waited for without a requeue; they are not watched.  *)
MutantCleanupHost ==
    /\ pc = "cleanupHost"
    /\ jobs' = [h \in Hosts |->
                   IF h \in jobsCached /\ jobs[h] = "done" THEN "none" ELSE jobs[h]]
    /\ IF \E h \in jobsCached : jobs[h] = "active"
          THEN Return(FALSE) ELSE Goto("markFinalized", mem)
    /\ UNCHANGED <<opts, cr, cached, ss, ssCached, res, lbReady, stopped,
                   jobsCached, faults, edits>>

(* cleanupHost deletes the finished jobs that the cached list shows and    *)
(* waits for the others that it shows.                                     *)
CleanupHost ==
    /\ pc = "cleanupHost"
    /\ jobs' = [h \in Hosts |->
                   IF h \in jobsCached /\ jobs[h] = "done" THEN "none" ELSE jobs[h]]
    /\ IF \E h \in jobsCached : jobs[h] = "active"
          THEN Return(TRUE) ELSE Goto("markFinalized", mem)
    /\ UNCHANGED <<opts, cr, cached, ss, ssCached, res, lbReady, stopped,
                   jobsCached, faults, edits>>

MarkFinalized ==
    /\ pc = "markFinalized"
    /\ UpdateStatusWithState("Finalized")
    /\ Return(FALSE)
    /\ UNCHANGED <<opts, cached, world, faults, edits>>

(* finalize: PatchIfExists; an object being deleted without a finalizer    *)
(* disappears.                                                             *)
Finalize ==
    /\ pc = "finalize"
    /\ cr' = [cr EXCEPT !.finalizer = FALSE, !.exists = cr.exists /\ ~cr.deleting]
    /\ Return(FALSE)
    /\ UNCHANGED <<opts, cached, world, faults, edits>>

-----------------------------------------------------------------------------
(***************************************************************************)
(* The normal path: prerequisites, bootstrap, readiness.                   *)
(***************************************************************************)
Created(rs) ==
    [r \in Resources |-> IF r \in rs /\ res[r] = "absent" THEN "present" ELSE res[r]]

(* reconcileResources and, on the other side of the load balancers,        *)
(* ensureProxyPrereqs and ensureTargetPrereqs.                             *)
EnsurePrereqs(at, next) ==
    /\ pc = at
    /\ res' = Created({"base"})
    /\ Goto(next, mem)
    /\ UNCHANGED <<opts, cr, cached, ss, ssCached, lbReady, stopped,
                   jobs, jobsCached, faults, edits>>

ReconcileExternalAccess ==
    /\ pc = "externalAccess"
    /\ res' = IF opts.externalLB THEN Created({"lb"}) ELSE res
    /\ Goto(IF opts.externalLB /\ ~lbReady THEN "markLB" ELSE "daemonPrereqs", mem)
    /\ UNCHANGED <<opts, cr, cached, ss, ssCached, lbReady, stopped,
                   jobs, jobsCached, faults, edits>>

MarkLB ==
    /\ pc = "markLB"
    /\ UpdateStatusWithState(IF mem.state \in {"InitializingLB", "PendingLB"}
                                THEN "PendingLB" ELSE "InitializingLB")
    /\ Return(TRUE)
    /\ UNCHANGED <<opts, cached, world, faults, edits>>

AfterURL(a) == IF a.created THEN "handleProxies" ELSE "initProxies"

(* updateIntraClusterURLStatus, when the URL is not yet in the status.     *)
SetURL ==
    /\ pc = "setURL"
    /\ IF mem.url THEN UNCHANGED cr /\ Goto(AfterURL(mem), mem)
       ELSE PatchStatus([mem EXCEPT !.url = TRUE]) /\ Goto(AfterURL(cr'), cr')
    /\ UNCHANGED <<opts, cached, world, faults, edits>>

(* The result of a step of handleCREvents: requeue, through                *)
(* updateStatusAndRequeue, or go on.                                       *)
RequeueCREvents == IF mem.ready THEN Goto("markUpgrading", mem) ELSE Return(TRUE)

(* initProxies, called by bootstrapNew and, when the StatefulSet is gone,  *)
(* by handleProxyState; waiting and next say how either goes on.           *)
InitProxies(waiting, next) ==
    \/ /\ ~ss["proxy"].exists
       /\ ss' = [ss EXCEPT !["proxy"].exists = TRUE, !["proxy"].replicas = 1]
       /\ waiting
    \/ /\ ss["proxy"].exists
       /\ ss["proxy"].pods = 0
       /\ waiting /\ UNCHANGED ss
    \/ /\ ss["proxy"].exists
       /\ ss["proxy"].pods > 0
       /\ UpdateReplicas("proxy", Size)
       /\ IF ssCached["proxy"].ready > 0 THEN next ELSE waiting
    \/ /\ ss["proxy"].exists
       /\ ss["proxy"].pods > 0
       /\ UpdateReplicasFails("proxy", Size) /\ Return(TRUE)

InitTargets(waiting, next) ==
    IF ss["target"].exists
       THEN next /\ UNCHANGED ss
       ELSE /\ ss' = [ss EXCEPT !["target"].exists = TRUE, !["target"].replicas = Size]
            /\ waiting

BootstrapNew ==
    /\ \/ pc = "initProxies" /\ InitProxies(Return(TRUE), Goto("initTargets", mem))
       \/ pc = "initTargets" /\ InitTargets(Return(TRUE), Goto("markCreated", mem))
    /\ UNCHANGED <<opts, cr, cached, ssCached, res, lbReady, stopped,
                   jobs, jobsCached, faults, edits>>

MarkCreated ==
    /\ pc = "markCreated"
    /\ PatchStatus([mem EXCEPT !.state = "Created", !.created = TRUE])
    /\ Return(FALSE)
    /\ UNCHANGED <<opts, cached, world, faults, edits>>

FullyReady(s) == s.replicas = Size /\ s.pods = Size /\ s.ready = Size

(* Mutation: scaled to one replica too many.                               *)
MutantHandleStatefulSet(k, next) ==
    /\ ssCached[k].exists
    /\ \/ /\ ssCached[k].replicas # Size
          /\ UpdateReplicas(k, Size + 1) /\ RequeueCREvents
       \/ /\ ssCached[k].replicas = Size
          /\ IF FullyReady(ssCached[k]) THEN Goto(next, mem) ELSE RequeueCREvents
          /\ UNCHANGED ss

(* handleProxyState and handleTargetState of a fixed-size cluster whose    *)
(* pod template does not change: bring the StatefulSet to its size, then   *)
(* wait for its pods.                                                      *)
HandleStatefulSet(k, next) ==
    /\ ssCached[k].exists
    /\ \/ /\ ssCached[k].replicas # Size
          /\ UpdateReplicas(k, Size) /\ RequeueCREvents
       \/ /\ ssCached[k].replicas # Size
          /\ UpdateReplicasFails(k, Size) /\ Return(TRUE)
       \/ /\ ssCached[k].replicas = Size
          /\ IF FullyReady(ssCached[k]) THEN Goto(next, mem) ELSE RequeueCREvents
          /\ UNCHANGED ss

HandleProxyState ==
    /\ pc = "handleProxies"
    /\ \/ ~ssCached["proxy"].exists /\ InitProxies(RequeueCREvents, Goto("handleTargets", mem))
       \/ HandleStatefulSet("proxy", "handleTargets")
    /\ UNCHANGED <<opts, cr, cached, ssCached, res, lbReady, stopped,
                   jobs, jobsCached, faults, edits>>

HandleTargetState ==
    /\ pc = "handleTargets"
    /\ IF ssCached["target"].exists
          THEN /\ res' = Created({"pdb"} \cup
                       IF opts.externalLB /\ ssCached["target"].replicas < Size
                          THEN {"lb"} ELSE {})
               /\ HandleStatefulSet("target", "checkReady")
          ELSE UNCHANGED res /\ InitTargets(RequeueCREvents, Goto("checkReady", mem))
    /\ UNCHANGED <<opts, cr, cached, ssCached, lbReady, stopped,
                   jobs, jobsCached, faults, edits>>

(* checkAISClusterReady asks the cluster itself: an unhealthy cluster is   *)
(* an error, a cluster map with too few daemons a requeue; the first time  *)
(* the cluster ID is recorded.                                             *)
CheckAISClusterReady ==
    /\ pc = "checkReady"
    /\ \/ ss["proxy"].ready = 0 /\ UNCHANGED cr /\ Return(TRUE)
       \/ /\ ss["proxy"].ready > 0 /\ \E k \in Kinds : ss[k].ready < Size
          /\ UNCHANGED cr /\ RequeueCREvents
       \/ /\ \A k \in Kinds : ss[k].ready = Size
          /\ IF mem.id THEN UNCHANGED cr /\ Goto("enableRebalance", mem)
             ELSE PatchStatus([mem EXCEPT !.id = TRUE]) /\ Goto("enableRebalance", cr')
    /\ UNCHANGED <<opts, cached, world, faults, edits>>

EnableRebalanceCondition ==
    /\ pc = "enableRebalance"
    /\ IF mem.rebalance THEN UNCHANGED cr /\ Goto("syncConfig", mem)
       ELSE PatchStatus([mem EXCEPT !.rebalance = TRUE]) /\ Goto("syncConfig", cr')
    /\ UNCHANGED <<opts, cached, world, faults, edits>>

(* handleConfigState: a call to the cluster only if the hash differs.      *)
HandleConfigState ==
    /\ pc = "syncConfig"
    /\ \/ \E a \in {mem, cr} : Goto("markReady", a)
       \/ ss["proxy"].ready = 0 /\ Return(TRUE)
    /\ UNCHANGED <<opts, cr, cached, world, faults, edits>>

(* Mutation: a condition that is already Ready hides a state that is not.  *)
MutantHandleSuccessfulReconcile ==
    /\ pc = "markReady"
    /\ IF mem.ready THEN UNCHANGED cr
       ELSE PatchStatus([mem EXCEPT !.state = "Ready", !.ready = TRUE])
    /\ Return(FALSE)
    /\ UNCHANGED <<opts, cached, world, faults, edits>>

HandleSuccessfulReconcile ==
    /\ pc = "markReady"
    /\ IF mem.ready /\ mem.state = "Ready" THEN UNCHANGED cr
       ELSE PatchStatus([mem EXCEPT !.state = "Ready", !.ready = TRUE])
    /\ Return(FALSE)
    /\ UNCHANGED <<opts, cached, world, faults, edits>>

UpdateStatusAndRequeue ==
    /\ pc = "markUpgrading"
    /\ PatchStatus([mem EXCEPT !.state = "Upgrading", !.ready = FALSE])
    /\ Return(TRUE)
    /\ UNCHANGED <<opts, cached, world, faults, edits>>

-----------------------------------------------------------------------------
(***************************************************************************)
(* Errors and crashes: the steps that write the CR fail when it is gone,   *)
(* and any step may fail before its effect.  The effects of the steps      *)
(* before it stay; the memory of the reconcile is lost.                    *)
(***************************************************************************)
CRWriteSteps ==
    {"addFinalizer", "markInitialized", "markDecommissioning", "disableRebalance",
     "markShuttingDown", "abortShutdown", "markShutdown", "markCleanup",
     "markJobsCreated", "markHostCleanup", "markFinalized", "markLB", "setURL",
     "markCreated", "checkReady", "enableRebalance", "markReady", "markUpgrading"}

CRGone ==
    /\ pc \in CRWriteSteps
    /\ ~cr.exists
    /\ Return(TRUE)
    /\ UNCHANGED <<opts, cr, cached, world, faults, edits>>

Fail ==
    /\ pc # "idle"
    /\ faults < MaxFaults
    /\ faults' = faults + 1
    /\ Return(TRUE)
    /\ UNCHANGED <<opts, cr, cached, world, edits>>

-----------------------------------------------------------------------------
(***************************************************************************)
(* The environment: the user, the informers, the StatefulSet controller,   *)
(* load balancers, the garbage collector and the jobs.                     *)
(***************************************************************************)
(* kubectl delete: at once without a finalizer, else by a timestamp.       *)
UserDeletes ==
    /\ cr.exists /\ ~cr.deleting
    /\ cr' = IF cr.finalizer THEN [cr EXCEPT !.deleting = TRUE]
                             ELSE [cr EXCEPT !.exists = FALSE]
    /\ UNCHANGED <<opts, cached, operator, queued, world, faults, edits>>

UserFlipsShutdown ==
    /\ cr.exists /\ edits < MaxEdits
    /\ edits' = edits + 1
    /\ cr' = [cr EXCEPT !.shutdown = ~cr.shutdown]
    /\ UNCHANGED <<opts, cached, operator, queued, world, faults>>

(* A watch event reaches the cache and queues a reconcile.                 *)
SyncCR ==
    /\ cached # cr
    /\ cached' = cr
    /\ queued' = TRUE
    /\ UNCHANGED <<opts, cr, operator, world, faults, edits>>

SyncStatefulSet(k) ==
    /\ ssCached[k] # ss[k]
    /\ ssCached' = [ssCached EXCEPT ![k] = ss[k]]
    /\ queued' = TRUE
    /\ UNCHANGED <<opts, cr, cached, operator, ss, res, lbReady, stopped, jobs,
                   jobsCached, faults, edits>>

(* Jobs are listed from the cache but not watched by the controller.       *)
SyncJobs ==
    /\ jobsCached # {h \in Hosts : jobs[h] # "none"}
    /\ jobsCached' = {h \in Hosts : jobs[h] # "none"}
    /\ UNCHANGED <<opts, cr, cached, operator, queued, ss, ssCached, res, lbReady,
                   stopped, jobs, faults, edits>>

Claim(k) == IF k = "proxy" THEN "pvcProxy" ELSE "pvcTarget"

PodCreated(k) ==
    /\ ss[k].exists /\ ss[k].pods < ss[k].replicas
    /\ ss' = [ss EXCEPT ![k].pods = @ + 1]
    /\ res' = Created({Claim(k)})
    /\ UNCHANGED <<opts, cr, cached, operator, queued, ssCached, lbReady, stopped,
                   jobs, jobsCached, faults, edits>>

PodReady(k) ==
    /\ ~stopped /\ ss[k].ready < ss[k].pods
    /\ ss' = [ss EXCEPT ![k].ready = @ + 1]
    /\ UNCHANGED <<opts, cr, cached, operator, queued, ssCached, res, lbReady,
                   stopped, jobs, jobsCached, faults, edits>>

(* A pod beyond the replicas, or of a deleted StatefulSet, goes away.      *)
PodDeleted(k) ==
    /\ ss[k].pods > ss[k].replicas
    /\ ss' = [ss EXCEPT ![k].pods = @ - 1,
                        ![k].ready = IF @ > ss[k].pods - 1 THEN ss[k].pods - 1 ELSE @]
    /\ UNCHANGED <<opts, cr, cached, operator, queued, ssCached, res, lbReady,
                   stopped, jobs, jobsCached, faults, edits>>

(* The daemons obey the API call that stops them, once and for all.        *)
DaemonStops(k) ==
    /\ stopped /\ ss[k].ready > 0
    /\ ss' = [ss EXCEPT ![k].ready = @ - 1]
    /\ UNCHANGED <<opts, cr, cached, operator, queued, ssCached, res, lbReady,
                   stopped, jobs, jobsCached, faults, edits>>

PodFails(k) ==
    /\ PodsFail /\ ss[k].ready > 0 /\ faults < MaxFaults
    /\ faults' = faults + 1
    /\ ss' = [ss EXCEPT ![k].ready = @ - 1]
    /\ UNCHANGED <<opts, cr, cached, operator, queued, ssCached, res, lbReady,
                   stopped, jobs, jobsCached, edits>>

LBAllocated ==
    /\ res["lb"] = "present" /\ ~lbReady
    /\ lbReady' = TRUE
    /\ queued' = TRUE
    /\ UNCHANGED <<opts, cr, cached, operator, ss, ssCached, res, stopped,
                   jobs, jobsCached, faults, edits>>

(* Pods and owned ConfigMaps, Services and Certificates are watched, too:  *)
(* their events, and the periodic resync, queue a reconcile at any time.   *)
OwnedEvent ==
    /\ cached.exists /\ ~queued
    /\ queued' = TRUE
    /\ UNCHANGED <<opts, cr, cached, operator, world, faults, edits>>

(* An object's own finalizer runs; a claim waits for the pods using it.    *)
Reclaimed(r) ==
    /\ res[r] = "terminating"
    /\ \A k \in Kinds : r = Claim(k) => ss[k].pods = 0
    /\ res' = [res EXCEPT ![r] = "absent"]
    /\ UNCHANGED <<opts, cr, cached, operator, queued, ss, ssCached, lbReady, stopped,
                   jobs, jobsCached, faults, edits>>

JobDone(h) ==
    /\ jobs[h] = "active"
    /\ jobs' = [jobs EXCEPT ![h] = "done"]
    /\ UNCHANGED <<opts, cr, cached, operator, queued, ss, ssCached, res, lbReady,
                   stopped, jobsCached, faults, edits>>

(* A succeeded job is removed by its time to live of zero seconds.         *)
JobRemoved(h) ==
    /\ jobs[h] = "done"
    /\ jobs' = [jobs EXCEPT ![h] = "none"]
    /\ UNCHANGED <<opts, cr, cached, operator, queued, ss, ssCached, res, lbReady,
                   stopped, jobsCached, faults, edits>>

-----------------------------------------------------------------------------
OperatorStep ==
    \/ StartReconcile \/ AddFinalizer \/ MarkInitialized \/ MarkDecommissioning
    \/ DisableRebalance \/ ForceConfig \/ ForceConfigUnreachable
    \/ MarkShuttingDown \/ AbortShutdown \/ ShutdownCluster
    \/ DecommissionCluster \/ MarkCleanup \/ Cleanup \/ CreateJobs
    \/ MarkJobsCreated \/ MarkHostCleanup \/ CleanupHost \/ MarkFinalized \/ Finalize
    \/ EnsurePrereqs("prereqs", "externalAccess")
    \/ ReconcileExternalAccess \/ MarkLB
    \/ EnsurePrereqs("daemonPrereqs", "setURL")
    \/ SetURL \/ BootstrapNew \/ MarkCreated
    \/ HandleProxyState \/ HandleTargetState \/ CheckAISClusterReady
    \/ EnableRebalanceCondition \/ HandleConfigState
    \/ HandleSuccessfulReconcile \/ UpdateStatusAndRequeue
    \/ CRGone

Pods(k) == PodCreated(k) \/ PodReady(k) \/ PodDeleted(k) \/ DaemonStops(k)

Next ==
    \/ OperatorStep \/ Fail
    \/ UserDeletes \/ UserFlipsShutdown
    \/ SyncCR \/ SyncJobs \/ LBAllocated \/ OwnedEvent
    \/ \E k \in Kinds : SyncStatefulSet(k) \/ Pods(k) \/ PodFails(k)
    \/ \E r \in Resources : Reclaimed(r)
    \/ \E h \in Hosts : JobDone(h) \/ JobRemoved(h)

Spec == Init /\ [][Next]_vars

(* The worker keeps running, informers keep delivering, and Kubernetes     *)
(* keeps moving pods, load balancers and terminating objects; time passes  *)
(* for the jobs, which need not ever succeed.  Faults are bounded.         *)
Fairness ==
    /\ WF_vars(OperatorStep)
    /\ WF_vars(SyncCR) /\ WF_vars(SyncJobs)
    /\ WF_vars(\E k \in Kinds : SyncStatefulSet(k))
    /\ WF_vars(\E k \in Kinds : Pods(k))
    /\ WF_vars(LBAllocated \/ \E r \in Resources : Reclaimed(r))
    /\ WF_vars(\E h \in Hosts : JobDone(h))

FairSpec == Spec /\ Fairness

-----------------------------------------------------------------------------
(***************************************************************************)
(* Properties.                                                             *)
(***************************************************************************)
(* What a deletion has to remove.                                          *)
Disposable ==
    IF opts.cleanupMetadata THEN Resources ELSE Resources \ {"pvcTarget", "pvcProxy"}

CleanupComplete ==
    /\ \A k \in Kinds : ~ss[k].exists
    /\ \A r \in Disposable : res[r] # "present"

(* Cleanup is never undone: from the moment the status says that host      *)
(* cleanup began (cleanupClusterRes, cluster_controller.go) no StatefulSet *)
(* of the cluster exists and every resource that cleanup owns is deleted   *)
(* or terminating, whatever stale copy of the CR a reconcile worked from.  *)
CleanupBeforeFinalize ==
    cr.state \in {"HostCleanup", "Finalized"} => CleanupComplete

(* The CR disappears under the operator only after the whole cleanup, or   *)
(* before the operator created anything for it (deletion before the        *)
(* finalizer was added by initializeCR).                                   *)
GoneMeansClean == ~cr.exists => CleanupComplete

(* No way back into service: patchStatus overwrites the status from        *)
(* possibly stale memory, so a reconcile may repeat decommission or        *)
(* cleanup, but once host cleanup began none puts the CR back into a state *)
(* of normal operation, from which it would create resources again.        *)
NoReturnToService ==
    [][cr.state \in {"HostCleanup", "Finalized"} => cr'.state \in CleanupStates]_cr

(* What the user wants kept is kept: as long as nobody deleted the CR, no  *)
(* StatefulSet, claim, service or other resource of the cluster is ever    *)
(* deleted, in a shutdown and through restarts on stale status least of    *)
(* all ("No data or configuration will be deleted", ShutdownCluster in     *)
(* aistore_types.go).                                                      *)
NothingDeletedWhileWanted ==
    [][(cr.exists /\ ~cr.deleting) =>
          /\ \A k \in Kinds : ss[k].exists => ss'[k].exists
          /\ \A r \in Resources : res[r] = "present" => res'[r] = "present"]_<<ss, res>>

(* A deleted CR is eventually gone: no wakeup is lost in the chain of      *)
(* decommission, cleanup, host cleanup and finalize, and no stale status   *)
(* write starts it over for ever.                                          *)
DeletionCompletes == cr.deleting ~> ~cr.exists

(* A cluster that the user goes on wanting comes up and stays up: after    *)
(* any bootstrap, aborted or completed shutdown, pod failure, crash and    *)
(* stale status write, Reconcile brings every daemon back, reports Ready   *)
(* and lets rebalance run again.                                           *)
ReachesReady ==
    <>[](cr.exists /\ ~cr.deleting /\ ~cr.shutdown) =>
        <>[](/\ cr.state = "Ready" /\ cr.ready /\ cr.rebalance
             /\ \A k \in Kinds : FullyReady(ss[k]))

(* At rest in what the spec asks for.                                      *)
Settled ==
    \/ ~cr.exists
    \/ cr.state = "Ready" /\ ~cr.shutdown
    \/ cr.state = "Shutdown" /\ cr.shutdown

(* When the user stops editing, the cluster settles: it is gone, or its    *)
(* state is Ready or Shutdown as the spec asks (Reconcile).                *)
EventuallySettles == <>[]Settled

-----------------------------------------------------------------------------
(***************************************************************************)
(* The inductive invariant behind GoneMeansClean, CleanupBeforeFinalize,   *)
(* NoReturnToService and NothingDeletedWhileWanted.  Its idea: what a      *)
(* reconcile may create or delete is decided by the copy of the CR it read *)
(* last, and a copy, however stale, never claims more than the live CR:    *)
(* a deletion request and a non-empty state are there to stay.             *)
(***************************************************************************)
SweptStates == {"HostCleanup", "Finalized"}

InitSteps == {"addFinalizer", "markInitialized"}

DecommissionSteps == {"markDecommissioning", "decommission", "markCleanup"}

SweptSteps ==
    {"createJobs", "markJobsCreated", "markHostCleanup", "cleanupHost",
     "markFinalized", "finalize"}

(* The steps of service and of shutdown.                                   *)
ServiceSteps ==
    Steps \ ({"idle", "cleanup"} \cup InitSteps \cup DecommissionSteps \cup SweptSteps)

(* No copy of the CR is ahead of the live one.                             *)
CopiesLag ==
    /\ cached.deleting => cr.deleting
    /\ mem.deleting => cr.deleting
    /\ cached.state # "" => cr.state # ""
    /\ (cr.exists /\ (\/ cr.state # "" \/ cr.deleting
                      \/ cached.finalizer \/ pc = "markInitialized")) => cr.finalizer

(* Every copy that says "cleanup" says "deleted", too.                     *)
CleanupOnlyDeleted ==
    /\ cr.state \in CleanupStates => cr.deleting
    /\ cached.state \in CleanupStates => cached.deleting
    /\ mem.state \in CleanupStates => mem.deleting
    /\ pc \in DecommissionSteps => cr.deleting

(* Once a sweep began, the cache shows an initialized and deleted CR for   *)
(* ever, so that no reconcile after it takes a service step.               *)
CacheCondemned == cached.deleting /\ cached.state # ""

PointOfNoReturn ==
    /\ cr.state \in SweptStates => CacheCondemned
    /\ pc \in SweptSteps \cup {"cleanup"} => CacheCondemned
    /\ ~cr.exists => ~cr.finalizer /\ (cr.state = "" \/ CacheCondemned)

(* A reconcile in service or in its first steps has no sweep behind it.    *)
ServiceIsLive ==
    /\ pc \in ServiceSteps =>
          /\ cr.exists /\ cr.finalizer
          /\ cr.state \notin SweptStates \cup {""}
          /\ mem.state \notin SweptStates \cup {""}
          /\ cached.state \notin SweptStates
    /\ pc \in InitSteps => cr.state \notin SweptStates

(* Whoever claims that the sweep is over is right.                         *)
SweepStands ==
    (\/ ~cr.finalizer
     \/ cr.state \in SweptStates
     \/ cached.state \in SweptStates
     \/ pc \in SweptSteps) => CleanupComplete

(* Inductive: every step of the controller, of the user and of Kubernetes  *)
(* preserves it (AISLifecycleProofs); the comments above say what the      *)
(* conjuncts are for.                                                      *)
DeletionInv ==
    /\ TypeOK
    /\ CopiesLag
    /\ CleanupOnlyDeleted
    /\ PointOfNoReturn
    /\ ServiceIsLive
    /\ SweepStands

-----------------------------------------------------------------------------
(***************************************************************************)
(* The promise of ClusterPromise.  The state in the status may go back     *)
(* from HostCleanup to CleaningResources by a stale write; what cannot go  *)
(* back is that nothing is left and that no copy of the CR leads a         *)
(* reconcile into service.                                                 *)
(***************************************************************************)
SweptForGood ==
    /\ CacheCondemned
    /\ pc \notin ServiceSteps
    /\ CleanupComplete

Phase ==
    IF ~cr.exists THEN "gone"
    ELSE IF SweptForGood THEN "swept"
    ELSE IF cr.deleting THEN "condemned"
    ELSE "wanted"

Existing ==
    {k \in Kinds : ss[k].exists} \cup {r \in Resources : res[r] = "present"}

Promise == INSTANCE ClusterPromise WITH
    Assets <- Kinds \cup Resources,
    phase  <- Phase,
    assets <- Existing,
    keep   <- Resources \ Disposable

(* The controller keeps the promise of ClusterPromise: whatever a          *)
(* reconcile read from the cache and wherever it stops, the objects of a   *)
(* wanted cluster stay, those of a deleted one are all gone before the CR  *)
(* is, none is made after the sweep (cleanupClusterRes), and the claims    *)
(* stay unless cleanupMetadata is set (cleanupPVC).                        *)
Implements == Promise!Spec
=============================================================================
