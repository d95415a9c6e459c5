------------------------- MODULE AISLifecycleProofs -------------------------
(***************************************************************************)
(* Proofs about AISLifecycle, for every size of the cluster, set of nodes, *)
(* combination of options and number of edits and faults; at the end, that *)
(* it implements ClusterPromise.                                           *)
(***************************************************************************)
EXTENDS AISLifecycle, TLAPS

(* The in-memory object of an idle operator is a CR.                       *)
LEMMA NewCRType == NewCR \in CR
BY DEF NewCR, CR, States, CleanupStates

(* The switch of Reconcile always leads to a step.                         *)
LEMMA RouteType ==
    ASSUME NEW a
    PROVE  Dispatch(a) \in Steps /\ Route(a) \in Steps
BY DEF Dispatch, Route, Steps

(* patchStatus writes a CR.                                                *)
LEMMA PatchType ==
    ASSUME TypeOK, NEW a \in CR, PatchStatus(a)
    PROVE  cr' \in CR
<1> DEFINE id == cr.id \/ a.id
<1>1. id \in BOOLEAN
  OBVIOUS
<1>2. cr' = [cr EXCEPT !.state = a.state, !.created = a.created, !.ready = a.ready,
                       !.rebalance = a.rebalance, !.url = a.url, !.id = id]
  BY DEF PatchStatus
<1> HIDE DEF id
<1> QED
  BY <1>1, <1>2, ZenonT(60) DEF TypeOK, CR

(* updateStatusWithState writes a CR.                                      *)
LEMMA UpdateType ==
    ASSUME TypeOK, NEW s \in States, UpdateStatusWithState(s)
    PROVE  cr' \in CR
<1>1. [mem EXCEPT !.state = s] \in CR
  BY DEF TypeOK, CR
<1> QED
  BY <1>1, PatchType DEF UpdateStatusWithState

(* Creating resources keeps the type of res.                               *)
LEMMA CreatedType ==
    ASSUME TypeOK, NEW rs
    PROVE  Created(rs) \in [Resources -> ResourceState]
BY DEF TypeOK, Created, ResourceState

(* UpdateStatefulSetReplicas keeps the type of ss.                         *)
LEMMA UpdateReplicasType ==
    ASSUME TypeOK, NEW k \in Kinds, NEW n \in 0..Size,
           UpdateReplicas(k, n) \/ UpdateReplicasFails(k, n)
    PROVE  ss' \in [Kinds -> StatefulSet]
BY SizeAssumption DEF TypeOK, UpdateReplicas, UpdateReplicasFails, StatefulSet

(* The initial state is well typed.                                        *)
LEMMA TypeInit == Init => TypeOK
<1> SUFFICES ASSUME Init PROVE TypeOK
  OBVIOUS
<1>1. opts \in [cleanupMetadata : BOOLEAN, hostPath : BOOLEAN, externalLB : BOOLEAN]
  BY OptsAssumption DEF Init
<1>2. cr \in CR /\ cached \in CR /\ mem \in CR
  BY NewCRType DEF Init
<1>3. NoStatefulSet \in StatefulSet
  BY SizeAssumption DEF NoStatefulSet, StatefulSet
<1>4. ss \in [Kinds -> StatefulSet] /\ ssCached \in [Kinds -> StatefulSet]
  BY <1>3 DEF Init
<1>5. /\ res \in [Resources -> ResourceState]
      /\ jobs \in [Hosts -> JobState] /\ jobsCached \in SUBSET Hosts
  BY DEF Init, ResourceState, JobState
<1>6. faults \in 0..MaxFaults /\ edits \in 0..MaxEdits
  BY BoundAssumption DEF Init
<1>7. /\ pc \in Steps /\ updated \in BOOLEAN /\ queued \in BOOLEAN
      /\ lbReady \in BOOLEAN /\ stopped \in BOOLEAN
  BY DEF Init, Steps
<1> QED
  BY <1>1, <1>2, <1>4, <1>5, <1>6, <1>7 DEF TypeOK

-----------------------------------------------------------------------------
(* TypeOK by the part of the state that an action writes.                  *)
OptsType == opts \in [cleanupMetadata : BOOLEAN, hostPath : BOOLEAN, externalLB : BOOLEAN]
CRType == cr \in CR /\ cached \in CR
OperatorType == mem \in CR /\ pc \in Steps /\ updated \in BOOLEAN /\ queued \in BOOLEAN
StatefulSetType ==
    ss \in [Kinds -> StatefulSet] /\ ssCached \in [Kinds -> StatefulSet]
ResourceType ==
    res \in [Resources -> ResourceState] /\ lbReady \in BOOLEAN /\ stopped \in BOOLEAN
JobType == jobs \in [Hosts -> JobState] /\ jobsCached \in SUBSET Hosts
CounterType == faults \in 0..MaxFaults /\ edits \in 0..MaxEdits

(* The parts make TypeOK.                                                  *)
LEMMA TypeParts ==
    ASSUME OptsType', CRType', OperatorType', StatefulSetType', ResourceType',
           JobType', CounterType'
    PROVE  TypeOK'
BY DEF TypeOK, OptsType, CRType, OperatorType, StatefulSetType, ResourceType,
       JobType, CounterType

(* Parts that a step leaves alone keep their type.                         *)
LEMMA TypeUnchanged ==
    ASSUME TypeOK
    PROVE  /\ UNCHANGED opts => OptsType'
           /\ UNCHANGED <<cr, cached>> => CRType'
           /\ UNCHANGED <<operator, queued>> => OperatorType'
           /\ UNCHANGED <<ss, ssCached>> => StatefulSetType'
           /\ UNCHANGED <<res, lbReady, stopped>> => ResourceType'
           /\ UNCHANGED <<jobs, jobsCached>> => JobType'
           /\ UNCHANGED <<faults, edits>> => CounterType'
BY DEF TypeOK, OptsType, CRType, OperatorType, StatefulSetType, ResourceType,
       JobType, CounterType, operator

(* The end of a reconcile.                                                 *)
LEMMA ReturnType ==
    ASSUME TypeOK, NEW requeue \in BOOLEAN, Return(requeue)
    PROVE  OperatorType'
<1>1. mem' \in CR /\ pc' \in Steps
  BY NewCRType DEF Return, Steps
<1>2. updated' \in BOOLEAN
  BY DEF Return
<1>3. queued' \in BOOLEAN
  BY Zenon DEF Return
<1> QED
  BY <1>1, <1>2, <1>3 DEF OperatorType

(* A reconcile goes on.                                                    *)
LEMMA GotoType ==
    ASSUME TypeOK, NEW step \in Steps, NEW a \in CR, Goto(step, a)
    PROVE  OperatorType'
BY NewCRType DEF TypeOK, Goto, OperatorType

(* An error or a requeue from handleCREvents.                              *)
LEMMA RequeueType ==
    ASSUME TypeOK, RequeueCREvents
    PROVE  OperatorType'
<1>1. "markUpgrading" \in Steps /\ mem \in CR
  BY DEF TypeOK, Steps
<1> QED
  BY <1>1, GotoType, ReturnType DEF RequeueCREvents

-----------------------------------------------------------------------------
(* A step that patches the status of the CR and leaves the world alone.    *)
LEMMA StatusWriteType ==
    ASSUME TypeOK, cr' \in CR, OperatorType',
           UNCHANGED <<opts, cached, world, faults, edits>>
    PROVE  TypeOK'
<1>1. CRType'
  BY DEF TypeOK, CRType
<1> QED
  BY <1>1, TypeParts, TypeUnchanged DEF world

(* A step that only moves the reconcile on.                                *)
LEMMA MoveType ==
    ASSUME TypeOK, OperatorType', UNCHANGED <<opts, cr, cached, world, faults, edits>>
    PROVE  TypeOK'
BY TypeParts, TypeUnchanged DEF world

(* A reconcile step that writes StatefulSets and resources only.           *)
LEMMA WriteType ==
    ASSUME TypeOK, OperatorType', ss' \in [Kinds -> StatefulSet],
           res' \in [Resources -> ResourceState],
           UNCHANGED <<opts, cr, cached, ssCached, lbReady, stopped, jobs, jobsCached,
                       faults, edits>>
    PROVE  TypeOK'
<1>1. StatefulSetType' /\ ResourceType'
  BY DEF TypeOK, StatefulSetType, ResourceType
<1> QED
  BY <1>1, TypeParts, TypeUnchanged

(* A change of the world while the operator waits.                         *)
LEMMA WorldType ==
    ASSUME TypeOK, StatefulSetType', ResourceType', JobType', CounterType',
           UNCHANGED <<opts, cr, cached, operator>>, queued' \in BOOLEAN
    PROVE  TypeOK'
<1>1. OperatorType'
  BY DEF TypeOK, OperatorType, operator
<1> QED
  BY <1>1, TypeParts, TypeUnchanged

(* The steps of Reconcile before the dispatch, of shutdown, decommission   *)
(* and host cleanup that write the status of the CR.                       *)
LEMMA StatusStepsType ==
    ASSUME TypeOK,
           \/ AddFinalizer \/ MarkInitialized \/ MarkDecommissioning
           \/ DisableRebalance \/ MarkShuttingDown \/ AbortShutdown \/ MarkShutdown
           \/ MarkCleanup \/ MarkJobsCreated \/ MarkHostCleanup \/ MarkFinalized
           \/ Finalize
    PROVE  TypeOK'
<1> USE DEF Steps
<1>1. CASE AddFinalizer
  <2>1. cr' \in CR
    BY <1>1 DEF AddFinalizer, TypeOK, CR
  <2> QED
    BY <1>1, <2>1, GotoType, StatusWriteType DEF AddFinalizer
<1>2. CASE MarkInitialized
  <2>1. cr' \in CR
    BY <1>2, UpdateType DEF MarkInitialized, States
  <2> QED
    BY <1>2, <2>1, RouteType, GotoType, StatusWriteType DEF MarkInitialized
<1>3. CASE MarkDecommissioning
  <2>1. cr' \in CR
    BY <1>3, UpdateType DEF MarkDecommissioning, States, CleanupStates
  <2> QED
    BY <1>3, <2>1, RouteType, GotoType, StatusWriteType DEF MarkDecommissioning
<1>4. CASE DisableRebalance
  <2>1. [mem EXCEPT !.rebalance = FALSE] \in CR
    BY DEF TypeOK, CR
  <2>2. cr' \in CR
    BY <1>4, <2>1, PatchType DEF DisableRebalance
  <2> QED
    BY <1>4, <2>2, GotoType, StatusWriteType DEF DisableRebalance
<1>5. CASE MarkShuttingDown
  <2>1. cr' \in CR
    BY <1>5, UpdateType DEF MarkShuttingDown, States
  <2> QED
    BY <1>5, <2>1, RouteType, GotoType, StatusWriteType DEF MarkShuttingDown
<1>6. CASE AbortShutdown \/ MarkShutdown
  <2>1. cr' \in CR
    BY <1>6, UpdateType DEF AbortShutdown, MarkShutdown, States
  <2> QED
    BY <1>6, <2>1, ReturnType, StatusWriteType DEF AbortShutdown, MarkShutdown
<1>7. CASE MarkCleanup \/ MarkHostCleanup \/ MarkFinalized
  <2>1. cr' \in CR
    BY <1>7, UpdateType
    DEF MarkCleanup, MarkHostCleanup, MarkFinalized, States, CleanupStates
  <2> QED
    BY <1>7, <2>1, ReturnType, StatusWriteType
    DEF MarkCleanup, MarkHostCleanup, MarkFinalized
<1>8. CASE MarkJobsCreated
  <2>1. cr' \in CR
    BY <1>8, UpdateType DEF MarkJobsCreated, States, CleanupStates
  <2> QED
    BY <1>8, <2>1, ReturnType, GotoType, StatusWriteType DEF MarkJobsCreated
<1>9. CASE Finalize
  <2> DEFINE stays == cr.exists /\ ~cr.deleting
  <2>1. stays \in BOOLEAN
    OBVIOUS
  <2>2. cr' = [cr EXCEPT !.finalizer = FALSE, !.exists = stays]
    BY <1>9 DEF Finalize
  <2> HIDE DEF stays
  <2>3. cr' \in CR
    BY <2>1, <2>2 DEF TypeOK, CR
  <2> QED
    BY <1>9, <2>3, ReturnType, StatusWriteType DEF Finalize
<1> QED
  BY <1>1, <1>2, <1>3, <1>4, <1>5, <1>6, <1>7, <1>8, <1>9

(* The steps of service that write the status of the CR.                   *)
LEMMA ServiceStatusType ==
    ASSUME TypeOK,
           \/ MarkLB \/ SetURL \/ MarkCreated \/ CheckAISClusterReady
           \/ EnableRebalanceCondition \/ HandleSuccessfulReconcile
           \/ UpdateStatusAndRequeue
    PROVE  TypeOK'
<1> USE DEF Steps
<1>0. cr \in CR /\ mem \in CR
  BY DEF TypeOK
<1>1. CASE MarkLB
  <2>1. cr' \in CR
    BY <1>1, UpdateType DEF MarkLB, States
  <2> QED
    BY <1>1, <2>1, ReturnType, StatusWriteType DEF MarkLB
<1>2. CASE SetURL
  <2>1. [mem EXCEPT !.url = TRUE] \in CR
    BY <1>0 DEF CR
  <2>2. cr' \in CR
    BY <1>0, <1>2, <2>1, PatchType DEF SetURL
  <2> QED
    BY <1>0, <1>2, <2>2, GotoType, StatusWriteType DEF SetURL, AfterURL
<1>3. CASE MarkCreated
  <2>1. [mem EXCEPT !.state = "Created", !.created = TRUE] \in CR
    BY <1>0 DEF CR, States
  <2>2. cr' \in CR
    BY <1>3, <2>1, PatchType DEF MarkCreated
  <2> QED
    BY <1>3, <2>2, ReturnType, StatusWriteType DEF MarkCreated
<1>4. CASE CheckAISClusterReady
  <2>1. [mem EXCEPT !.id = TRUE] \in CR
    BY <1>0 DEF CR
  <2>2. cr' \in CR
    BY <1>0, <1>4, <2>1, PatchType DEF CheckAISClusterReady
  <2> QED
    BY <1>0, <1>4, <2>2, ReturnType, RequeueType, GotoType, StatusWriteType
    DEF CheckAISClusterReady
<1>5. CASE EnableRebalanceCondition
  <2>1. [mem EXCEPT !.rebalance = TRUE] \in CR
    BY <1>0 DEF CR
  <2>2. cr' \in CR
    BY <1>0, <1>5, <2>1, PatchType DEF EnableRebalanceCondition
  <2> QED
    BY <1>0, <1>5, <2>2, GotoType, StatusWriteType DEF EnableRebalanceCondition
<1>6. CASE HandleSuccessfulReconcile
  <2>1. [mem EXCEPT !.state = "Ready", !.ready = TRUE] \in CR
    BY <1>0 DEF CR, States
  <2>2. cr' \in CR
    BY <1>0, <1>6, <2>1, PatchType DEF HandleSuccessfulReconcile
  <2> QED
    BY <1>6, <2>2, ReturnType, StatusWriteType DEF HandleSuccessfulReconcile
<1>7. CASE UpdateStatusAndRequeue
  <2>1. [mem EXCEPT !.state = "Upgrading", !.ready = FALSE] \in CR
    BY <1>0 DEF CR, States
  <2>2. cr' \in CR
    BY <1>7, <2>1, PatchType DEF UpdateStatusAndRequeue
  <2> QED
    BY <1>7, <2>2, ReturnType, StatusWriteType DEF UpdateStatusAndRequeue
<1> QED
  BY <1>1, <1>2, <1>3, <1>4, <1>5, <1>6, <1>7

(* The steps that write nothing but the progress of the reconcile.         *)
LEMMA MoveStepsType ==
    ASSUME TypeOK,
           \/ StartReconcile \/ ForceConfig \/ ForceConfigUnreachable
           \/ \E k \in Kinds : \E at, next \in Steps : AwaitDown(k, at, next)
           \/ HandleConfigState \/ CRGone
    PROVE  TypeOK'
<1>0. cr \in CR /\ mem \in CR /\ cached \in CR
  BY DEF TypeOK
<1>1. CASE StartReconcile
  <2>1. pc' \in Steps /\ mem' \in CR
    BY <1>0, <1>1, RouteType, NewCRType DEF StartReconcile, Steps
  <2>2. OperatorType'
    BY <1>1, <2>1 DEF StartReconcile, OperatorType, TypeOK
  <2> QED
    BY <1>1, <2>2, MoveType DEF StartReconcile
<1>2. CASE ForceConfig \/ ForceConfigUnreachable
  BY <1>0, <1>2, GotoType, ReturnType, MoveType DEF ForceConfig, ForceConfigUnreachable, Steps
<1>3. ASSUME NEW k \in Kinds, NEW at \in Steps, NEW next \in Steps, AwaitDown(k, at, next)
      PROVE  TypeOK'
  BY <1>0, <1>3, GotoType, ReturnType, MoveType DEF AwaitDown
<1>4. CASE HandleConfigState \/ CRGone
  BY <1>0, <1>4, GotoType, ReturnType, MoveType DEF HandleConfigState, CRGone, Steps
<1> QED
  BY <1>1, <1>2, <1>3, <1>4

(* Faults are counted up to their bound.                                   *)
LEMMA FaultType ==
    ASSUME TypeOK, UNCHANGED edits,
           UNCHANGED faults \/ (faults < MaxFaults /\ faults' = faults + 1)
    PROVE  CounterType'
<1>1. faults \in Nat /\ MaxFaults \in Nat
  BY BoundAssumption DEF TypeOK
<1> QED
  BY <1>1 DEF TypeOK, CounterType

(* A StatefulSet is created with some replicas.                            *)
LEMMA NewStatefulSetType ==
    ASSUME NEW f \in [Kinds -> StatefulSet], NEW k \in Kinds, NEW n \in 0..Size
    PROVE  [f EXCEPT ![k].exists = TRUE, ![k].replicas = n] \in [Kinds -> StatefulSet]
<1> DEFINE g == [f EXCEPT ![k].exists = TRUE]
<1>1. g \in [Kinds -> StatefulSet]
  BY DEF StatefulSet
<1>2. [g EXCEPT ![k].replicas = n] \in [Kinds -> StatefulSet]
  <2> HIDE DEF g
  <2> QED
    BY <1>1 DEF StatefulSet
<1> QED
  BY <1>2

(* initProxies, whatever its caller does next.                             *)
LEMMA InitProxiesType ==
    ASSUME TypeOK, NEW waiting, NEW next, InitProxies(waiting, next)
    PROVE  ss' \in [Kinds -> StatefulSet]
<1>1. /\ ss \in [Kinds -> StatefulSet] /\ "proxy" \in Kinds
      /\ 1 \in 0..Size /\ Size \in 0..Size
  BY SizeAssumption DEF TypeOK, Kinds
<1>2. CASE ~ss["proxy"].exists
  <2>1. ss' = [ss EXCEPT !["proxy"].exists = TRUE, !["proxy"].replicas = 1]
    BY <1>2 DEF InitProxies
  <2> QED
    BY <1>1, <2>1, NewStatefulSetType
<1>3. CASE ss["proxy"].exists
  BY <1>1, <1>3, UpdateReplicasType DEF InitProxies
<1> QED
  BY <1>2, <1>3

(* initTargets, whatever its caller does next.                             *)
LEMMA InitTargetsType ==
    ASSUME TypeOK, NEW waiting, NEW next, InitTargets(waiting, next)
    PROVE  ss' \in [Kinds -> StatefulSet]
<1>1. ss \in [Kinds -> StatefulSet] /\ "target" \in Kinds /\ Size \in 0..Size
  BY SizeAssumption DEF TypeOK, Kinds
<1>2. CASE ss["target"].exists
  BY <1>1, <1>2 DEF InitTargets
<1>3. CASE ~ss["target"].exists
  <2>1. ss' = [ss EXCEPT !["target"].exists = TRUE, !["target"].replicas = Size]
    BY <1>3 DEF InitTargets
  <2> QED
    BY <1>1, <2>1, NewStatefulSetType
<1> QED
  BY <1>2, <1>3

(* The part of handleProxyState and handleTargetState that they share.     *)
LEMMA HandleStatefulSetType ==
    ASSUME TypeOK, NEW k \in Kinds, NEW next \in Steps, HandleStatefulSet(k, next)
    PROVE  ss' \in [Kinds -> StatefulSet] /\ OperatorType'
<1>1. ss \in [Kinds -> StatefulSet] /\ mem \in CR /\ Size \in 0..Size
  BY SizeAssumption DEF TypeOK
<1> QED
  BY <1>1, UpdateReplicasType, RequeueType, ReturnType, GotoType DEF HandleStatefulSet

(* The steps of the operator that write StatefulSets, resources or jobs.   *)
LEMMA WriteStepsType ==
    ASSUME TypeOK,
           \/ \E k \in Kinds : \E at, next \in Steps : ScaleDown(k, at, next)
           \/ DecommissionCluster \/ Cleanup \/ CreateJobs \/ CleanupHost
           \/ \E at, next \in Steps : EnsurePrereqs(at, next)
           \/ ReconcileExternalAccess \/ BootstrapNew
           \/ HandleProxyState \/ HandleTargetState
    PROVE  TypeOK'
<1> USE DEF Steps
<1>0. /\ mem \in CR /\ ss \in [Kinds -> StatefulSet]
      /\ res \in [Resources -> ResourceState]
      /\ "proxy" \in Kinds /\ "target" \in Kinds /\ 0 \in 0..Size /\ Size \in 0..Size
  BY SizeAssumption DEF TypeOK, Kinds
<1>1. ASSUME NEW k \in Kinds, NEW at \in Steps, NEW next \in Steps, ScaleDown(k, at, next)
      PROVE  TypeOK'
  <2>1. ss' \in [Kinds -> StatefulSet]
    BY <1>0, <1>1, UpdateReplicasType DEF ScaleDown
  <2>2. OperatorType'
    BY <1>0, <1>1, GotoType, ReturnType DEF ScaleDown
  <2> QED
    BY <1>0, <1>1, <2>1, <2>2, WriteType DEF ScaleDown
<1>2. CASE DecommissionCluster
  <2>1. OperatorType'
    BY <1>0, <1>2, GotoType, ReturnType DEF DecommissionCluster, DecommissionAIS
  <2>2. stopped' \in BOOLEAN
    <3>1. (stopped \/ ss["proxy"].ready > 0) \in BOOLEAN
      OBVIOUS
    <3>2. stopped \in BOOLEAN
      BY DEF TypeOK
    <3> QED
      BY <1>2, <3>1, <3>2, Zenon DEF DecommissionCluster, DecommissionAIS
  <2>3. ResourceType'
    BY <1>2, <2>2 DEF DecommissionCluster, DecommissionAIS, ResourceType, TypeOK
  <2> QED
    BY <1>2, <2>1, <2>3, TypeParts, TypeUnchanged DEF DecommissionCluster, DecommissionAIS
<1>3. CASE Cleanup
  <2> PICK n \in 0..Len(CleanupOrder) :
         /\ res' = SweptResources(n)
         /\ ss' = SweptStatefulSets(n)
         /\ IF n < Len(CleanupOrder)
               THEN faults < MaxFaults /\ faults' = faults + 1 /\ Return(TRUE)
               ELSE UNCHANGED faults /\ AfterSweep
    BY <1>3 DEF Cleanup
  <2>1. ss' \in [Kinds -> StatefulSet]
    BY <1>0 DEF SweptStatefulSets, StatefulSet
  <2>2. res' \in [Resources -> ResourceState]
    BY <1>0 DEF SweptResources, Deleted, ResourceState
  <2>3. OperatorType'
    <3>1. CASE Return(TRUE)
      BY <3>1, ReturnType
    <3>2. CASE AfterSweep
      <4>1. AnyExisted \in BOOLEAN
        BY DEF AnyExisted
      <4>2. CASE opts.cleanupMetadata /\ opts.hostPath
        BY <1>0, <3>2, <4>1, <4>2 DEF AfterSweep, OperatorType, TypeOK
      <4>3. CASE ~(opts.cleanupMetadata /\ opts.hostPath)
        BY <1>0, <3>2, <4>3, ReturnType, GotoType DEF AfterSweep
      <4> QED
        BY <4>2, <4>3
    <3> QED
      BY <3>1, <3>2
  <2>4. CounterType'
    BY <1>3, FaultType DEF Cleanup
  <2>5. StatefulSetType' /\ ResourceType'
    BY <1>3, <2>1, <2>2 DEF Cleanup, StatefulSetType, ResourceType, TypeOK
  <2> QED
    BY <1>3, <2>3, <2>4, <2>5, TypeParts, TypeUnchanged DEF Cleanup
<1>4. CASE CreateJobs
  <2>1. JobType'
    BY <1>4 DEF CreateJobs, JobType, JobState, TypeOK
  <2>2. OperatorType'
    BY <1>0, <1>4, ReturnType, GotoType DEF CreateJobs
  <2>3. CounterType'
    BY <1>4, FaultType DEF CreateJobs
  <2> QED
    BY <1>4, <2>1, <2>2, <2>3, TypeParts, TypeUnchanged DEF CreateJobs
<1>5. CASE CleanupHost
  <2>1. JobType'
    BY <1>5 DEF CleanupHost, JobType, JobState, TypeOK
  <2>2. OperatorType'
    BY <1>0, <1>5, ReturnType, GotoType DEF CleanupHost
  <2> QED
    BY <1>5, <2>1, <2>2, TypeParts, TypeUnchanged DEF CleanupHost
<1>6. ASSUME NEW at \in Steps, NEW next \in Steps, EnsurePrereqs(at, next)
      PROVE  TypeOK'
  BY <1>0, <1>6, GotoType, CreatedType, WriteType DEF EnsurePrereqs
<1>7. CASE ReconcileExternalAccess
  <2>1. res' \in [Resources -> ResourceState]
    BY <1>0, <1>7, CreatedType DEF ReconcileExternalAccess
  <2> QED
    BY <1>0, <1>7, <2>1, GotoType, WriteType DEF ReconcileExternalAccess
<1>8. CASE BootstrapNew
  <2>1. CASE pc = "initProxies"
    <3>1. InitProxies(Return(TRUE), Goto("initTargets", mem))
      BY <1>8, <2>1 DEF BootstrapNew
    <3>2. ss' \in [Kinds -> StatefulSet]
      BY <3>1, InitProxiesType
    <3>3. Return(TRUE) \/ Goto("initTargets", mem)
      BY <3>1 DEF InitProxies
    <3> QED
      BY <1>0, <1>8, <3>2, <3>3, ReturnType, GotoType, WriteType DEF BootstrapNew
  <2>2. CASE pc = "initTargets"
    <3>1. InitTargets(Return(TRUE), Goto("markCreated", mem))
      BY <1>8, <2>2 DEF BootstrapNew
    <3>2. ss' \in [Kinds -> StatefulSet]
      BY <3>1, InitTargetsType
    <3>3. Return(TRUE) \/ Goto("markCreated", mem)
      BY <3>1 DEF InitTargets
    <3> QED
      BY <1>0, <1>8, <3>2, <3>3, ReturnType, GotoType, WriteType DEF BootstrapNew
  <2> QED
    BY <1>8, <2>1, <2>2 DEF BootstrapNew
<1>9. CASE HandleProxyState
  <2>1. ss' \in [Kinds -> StatefulSet] /\ OperatorType'
    <3>1. CASE HandleStatefulSet("proxy", "handleTargets")
      BY <1>0, <3>1, HandleStatefulSetType
    <3>2. CASE InitProxies(RequeueCREvents, Goto("handleTargets", mem))
      <4>1. ss' \in [Kinds -> StatefulSet]
        BY <3>2, InitProxiesType
      <4>2. Return(TRUE) \/ RequeueCREvents \/ Goto("handleTargets", mem)
        BY <3>2 DEF InitProxies
      <4> QED
        BY <1>0, <4>1, <4>2, ReturnType, RequeueType, GotoType
    <3> QED
      BY <1>9, <3>1, <3>2 DEF HandleProxyState
  <2> QED
    BY <1>0, <1>9, <2>1, WriteType DEF HandleProxyState
<1>10. CASE HandleTargetState
  <2>1. ss' \in [Kinds -> StatefulSet] /\ OperatorType'
    <3>1. CASE HandleStatefulSet("target", "checkReady")
      BY <1>0, <3>1, HandleStatefulSetType
    <3>2. CASE InitTargets(RequeueCREvents, Goto("checkReady", mem))
      <4>1. ss' \in [Kinds -> StatefulSet]
        BY <3>2, InitTargetsType
      <4>2. RequeueCREvents \/ Goto("checkReady", mem)
        BY <3>2 DEF InitTargets
      <4> QED
        BY <1>0, <4>1, <4>2, RequeueType, GotoType
    <3> QED
      BY <1>10, <3>1, <3>2 DEF HandleTargetState
  <2>2. res' \in [Resources -> ResourceState]
    BY <1>0, <1>10, CreatedType DEF HandleTargetState
  <2> QED
    BY <1>10, <2>1, <2>2, WriteType DEF HandleTargetState
<1> HIDE DEF Steps
<1> QED
  BY <1>1, <1>2, <1>3, <1>4, <1>5, <1>6, <1>7, <1>8, <1>9, <1>10

(* The user, the informers and the faults.                                 *)
LEMMA UserAndCacheType ==
    ASSUME TypeOK,
           \/ UserDeletes \/ UserFlipsShutdown \/ SyncCR \/ SyncJobs \/ OwnedEvent
           \/ Fail \/ \E k \in Kinds : SyncStatefulSet(k)
    PROVE  TypeOK'
<1>1. CASE UserDeletes
  <2>1. CRType'
    <3>1. cr' \in {[cr EXCEPT !.deleting = TRUE], [cr EXCEPT !.exists = FALSE]}
      BY <1>1 DEF UserDeletes
    <3>2. UNCHANGED cached
      BY <1>1 DEF UserDeletes
    <3> QED
      BY <3>1, <3>2, ZenonT(60) DEF CRType, TypeOK, CR
  <2> QED
    BY <1>1, <2>1, TypeParts, TypeUnchanged DEF UserDeletes, world
<1>2. CASE UserFlipsShutdown
  <2>1. CRType'
    <3> DEFINE flipped == ~cr.shutdown
    <3>1. flipped \in BOOLEAN
      OBVIOUS
    <3>2. cr' = [cr EXCEPT !.shutdown = flipped] /\ UNCHANGED cached
      BY <1>2 DEF UserFlipsShutdown
    <3> HIDE DEF flipped
    <3> QED
      BY <3>1, <3>2 DEF CRType, TypeOK, CR
  <2>2. CounterType'
    <3>1. edits \in Nat /\ MaxEdits \in Nat
      BY BoundAssumption DEF TypeOK
    <3> QED
      BY <1>2, <3>1 DEF UserFlipsShutdown, CounterType, TypeOK
  <2> QED
    BY <1>2, <2>1, <2>2, TypeParts, TypeUnchanged DEF UserFlipsShutdown, world
<1>3. CASE SyncCR
  <2>1. CRType' /\ OperatorType'
    BY <1>3 DEF SyncCR, CRType, OperatorType, TypeOK, operator
  <2> QED
    BY <1>3, <2>1, TypeParts, TypeUnchanged DEF SyncCR, world
<1>4. CASE SyncJobs
  <2>1. JobType'
    BY <1>4 DEF SyncJobs, JobType, TypeOK
  <2> QED
    BY <1>4, <2>1, TypeParts, TypeUnchanged DEF SyncJobs
<1>5. CASE OwnedEvent
  <2>1. OperatorType'
    BY <1>5 DEF OwnedEvent, OperatorType, TypeOK, operator
  <2> QED
    BY <1>5, <2>1, TypeParts, TypeUnchanged DEF OwnedEvent, world
<1>6. CASE Fail
  BY <1>6, FaultType, ReturnType, TypeParts, TypeUnchanged DEF Fail, world
<1>7. ASSUME NEW k \in Kinds, SyncStatefulSet(k) PROVE TypeOK'
  <2>1. StatefulSetType' /\ OperatorType'
    BY <1>7 DEF SyncStatefulSet, StatefulSetType, OperatorType, TypeOK, operator
  <2> QED
    BY <1>7, <2>1, TypeParts, TypeUnchanged DEF SyncStatefulSet
<1> QED
  BY <1>1, <1>2, <1>3, <1>4, <1>5, <1>6, <1>7

(* Pods, load balancers, terminating objects and jobs.                     *)
LEMMA KubernetesType ==
    ASSUME TypeOK,
           \/ \E k \in Kinds : Pods(k) \/ PodFails(k)
           \/ LBAllocated
           \/ \E r \in Resources : Reclaimed(r)
           \/ \E h \in Hosts : JobDone(h) \/ JobRemoved(h)
    PROVE  TypeOK'
<1>0. ss \in [Kinds -> StatefulSet] /\ res \in [Resources -> ResourceState]
  BY DEF TypeOK
<1>1. ASSUME NEW k \in Kinds, PodCreated(k) PROVE TypeOK'
  <2>1. ss[k].pods + 1 \in 0..Size
    BY <1>0, <1>1, SizeAssumption DEF PodCreated, StatefulSet
  <2>2. StatefulSetType'
    BY <1>0, <1>1, <2>1 DEF PodCreated, StatefulSet, StatefulSetType, TypeOK
  <2>3. ResourceType'
    BY <1>1, CreatedType DEF PodCreated, ResourceType, TypeOK
  <2> QED
    BY <1>1, <2>2, <2>3, TypeParts, TypeUnchanged DEF PodCreated
<1>2. ASSUME NEW k \in Kinds, PodReady(k) PROVE TypeOK'
  <2>1. ss[k].ready + 1 \in 0..Size
    BY <1>0, <1>2, SizeAssumption DEF PodReady, StatefulSet
  <2>2. StatefulSetType'
    BY <1>0, <1>2, <2>1 DEF PodReady, StatefulSet, StatefulSetType, TypeOK
  <2> QED
    BY <1>2, <2>2, TypeParts, TypeUnchanged DEF PodReady
<1>3. ASSUME NEW k \in Kinds, PodDeleted(k) PROVE TypeOK'
  <2> DEFINE fewer == ss[k].pods - 1
             ready == IF ss[k].ready > fewer THEN fewer ELSE ss[k].ready
             old == [ss[k] EXCEPT !.pods = fewer, !.ready = ready]
  <2>1. fewer \in 0..Size /\ ready \in 0..Size
    BY <1>0, <1>3, SizeAssumption DEF PodDeleted, StatefulSet
  <2>2. ss' = [ss EXCEPT ![k] = old]
    BY <1>0, <1>3 DEF PodDeleted, StatefulSet
  <2>3. old \in StatefulSet
    <3> HIDE DEF fewer, ready
    <3> QED
      BY <1>0, <2>1 DEF StatefulSet
  <2>4. StatefulSetType'
    BY <1>0, <1>3, <2>2, <2>3 DEF PodDeleted, StatefulSetType, TypeOK
  <2> QED
    BY <1>3, <2>4, TypeParts, TypeUnchanged DEF PodDeleted
<1>4. ASSUME NEW k \in Kinds, DaemonStops(k) \/ PodFails(k) PROVE TypeOK'
  <2>1. ss[k].ready - 1 \in 0..Size
    BY <1>0, <1>4, SizeAssumption DEF DaemonStops, PodFails, StatefulSet
  <2>2. StatefulSetType'
    BY <1>0, <1>4, <2>1, ZenonT(60) DEF DaemonStops, PodFails, StatefulSet, StatefulSetType, TypeOK
  <2>3. CounterType'
    BY <1>4, FaultType DEF DaemonStops, PodFails
  <2> QED
    BY <1>4, <2>2, <2>3, TypeParts, TypeUnchanged DEF DaemonStops, PodFails
<1>5. CASE LBAllocated
  <2>1. ResourceType' /\ OperatorType'
    BY <1>5 DEF LBAllocated, ResourceType, OperatorType, TypeOK, operator
  <2> QED
    BY <1>5, <2>1, TypeParts, TypeUnchanged DEF LBAllocated
<1>6. ASSUME NEW r \in Resources, Reclaimed(r) PROVE TypeOK'
  <2>1. ResourceType'
    BY <1>0, <1>6 DEF Reclaimed, ResourceType, ResourceState, TypeOK
  <2> QED
    BY <1>6, <2>1, TypeParts, TypeUnchanged DEF Reclaimed
<1>7. ASSUME NEW h \in Hosts, JobDone(h) \/ JobRemoved(h) PROVE TypeOK'
  <2>1. JobType'
    BY <1>7 DEF JobDone, JobRemoved, JobType, JobState, TypeOK
  <2> QED
    BY <1>7, <2>1, TypeParts, TypeUnchanged DEF JobDone, JobRemoved
<1> QED
  BY <1>1, <1>2, <1>3, <1>4, <1>5, <1>6, <1>7 DEF Pods

(* Every step keeps the state well typed.                                  *)
LEMMA TypeStep == TypeOK /\ [Next]_vars => TypeOK'
<1> SUFFICES ASSUME TypeOK, [Next]_vars PROVE TypeOK'
  OBVIOUS
<1>1. CASE OperatorStep
  <2>1. {"scaleProxies", "awaitProxies", "scaleTargets", "awaitTargets", "markShutdown",
         "prereqs", "externalAccess", "daemonPrereqs", "setURL"} \subseteq Steps
    BY DEF Steps
  <2>2. CASE ShutdownCluster
    BY <2>1, <2>2, StatusStepsType, MoveStepsType, WriteStepsType DEF ShutdownCluster, Kinds
  <2>3. CASE EnsurePrereqs("prereqs", "externalAccess") \/ EnsurePrereqs("daemonPrereqs", "setURL")
    BY <2>1, <2>3, WriteStepsType
  <2> QED
    BY <1>1, <2>2, <2>3, StatusStepsType, ServiceStatusType, MoveStepsType, WriteStepsType
    DEF OperatorStep
<1>2. CASE UNCHANGED vars
  BY <1>2 DEF vars, TypeOK
<1>3. CASE Next /\ ~OperatorStep
  BY <1>3, UserAndCacheType, KubernetesType DEF Next
<1> QED
  BY <1>1, <1>2, <1>3

(* Every reachable state is well typed: in particular replicas, pods and   *)
(* ready pods never leave 0..Size, although UpdateStatefulSetReplicas      *)
(* decides on a stale copy.                                                *)
THEOREM TypeCorrect == Spec => []TypeOK
BY TypeInit, TypeStep, PTL DEF Spec

-----------------------------------------------------------------------------
(***************************************************************************)
(* DeletionInv is inductive.  The lemmas below say once for each kind of   *)
(* step what it must respect; the actions are then sorted into the kinds.  *)
(***************************************************************************)
USE DEF SweptStates, CacheCondemned

(* What is swept stays swept when nothing is created.                      *)
LEMMA SweptStable ==
    ASSUME CleanupComplete, UNCHANGED opts,
           \A k \in Kinds : ss'[k].exists => ss[k].exists,
           \A r \in Resources : res'[r] = "present" => res[r] = "present"
    PROVE  CleanupComplete'
BY DEF CleanupComplete, Disposable

(* What is swept stays swept when nothing changes.                         *)
LEMMA SweptUnchanged ==
    ASSUME CleanupComplete, UNCHANGED <<opts, ss, res>>
    PROVE  CleanupComplete'
BY DEF CleanupComplete, Disposable

(* What patchStatus does to the fields the invariant speaks of.            *)
LEMMA PatchEffect ==
    ASSUME TypeOK, NEW a \in CR, PatchStatus(a)
    PROVE  /\ cr.exists /\ cr'.exists
           /\ cr'.deleting = cr.deleting /\ cr'.finalizer = cr.finalizer
           /\ cr'.shutdown = cr.shutdown /\ cr'.state = a.state
<1> DEFINE id == cr.id \/ a.id
<1>1. cr.exists /\ cr' = [cr EXCEPT !.state = a.state, !.created = a.created,
             !.ready = a.ready, !.rebalance = a.rebalance, !.url = a.url, !.id = id]
  BY DEF PatchStatus
<1> HIDE DEF id
<1> QED
  BY <1>1 DEF TypeOK, CR

(* What updateStatusWithState does to these fields.                        *)
LEMMA UpdateEffect ==
    ASSUME TypeOK, NEW s \in States, UpdateStatusWithState(s)
    PROVE  /\ cr.exists /\ cr'.exists
           /\ cr'.deleting = cr.deleting /\ cr'.finalizer = cr.finalizer
           /\ cr'.shutdown = cr.shutdown /\ cr'.state = s
<1>1. [mem EXCEPT !.state = s] \in CR /\ [mem EXCEPT !.state = s].state = s
  BY DEF TypeOK, CR
<1> QED
  BY <1>1, PatchEffect DEF UpdateStatusWithState

(* An idle operator remembers no state and no deletion.                    *)
LEMMA NewCRFields == NewCR.state = "" /\ ~NewCR.deleting
BY DEF NewCR

(* A step that leaves the CR, its copies and the reconcile alone.          *)
LEMMA FrameInv ==
    ASSUME DeletionInv, TypeOK', UNCHANGED <<cr, cached, mem, pc>>,
           CleanupComplete => CleanupComplete'
    PROVE  DeletionInv'
BY DEF DeletionInv, CopiesLag, CleanupOnlyDeleted, PointOfNoReturn, ServiceIsLive,
       SweepStands

(* A reconcile that ends without a write of the CR.                        *)
LEMMA EndInv ==
    ASSUME DeletionInv, TypeOK', UNCHANGED <<cr, cached>>, pc' = "idle", mem' = NewCR,
           CleanupComplete => CleanupComplete'
    PROVE  DeletionInv'
<1>1. pc' \notin InitSteps \cup DecommissionSteps \cup SweptSteps \cup ServiceSteps \cup {"cleanup"}
  BY DEF InitSteps, DecommissionSteps, SweptSteps, ServiceSteps
<1>2. mem'.state \notin CleanupStates /\ ~mem'.deleting /\ pc' # "markInitialized"
  BY NewCRFields DEF CleanupStates
<1> QED
  BY <1>1, <1>2 DEF DeletionInv, CopiesLag, CleanupOnlyDeleted, PointOfNoReturn,
     ServiceIsLive, SweepStands

(* A step of service or shutdown, which may create what it likes.          *)
LEMMA ServiceInv ==
    ASSUME DeletionInv, TypeOK', UNCHANGED cached,
           pc \in ServiceSteps, pc' \in ServiceSteps \cup {"idle"},
           cr'.exists, cr'.deleting = cr.deleting, cr'.finalizer = cr.finalizer,
           cr'.state \notin SweptStates \cup {""},
           cr'.state \in CleanupStates => cr.deleting,
           mem' \in {mem, cr'} \/ (pc' = "idle" /\ mem' = NewCR)
    PROVE  DeletionInv'
<1>1. pc' \notin InitSteps \cup DecommissionSteps \cup SweptSteps \cup {"cleanup"}
  BY DEF InitSteps, DecommissionSteps, SweptSteps, ServiceSteps
<1>2. pc' # "markInitialized"
  BY <1>1 DEF InitSteps
<1>3. pc' \in ServiceSteps => mem' \in {mem, cr'}
  BY DEF ServiceSteps
<1>4. mem'.state \in CleanupStates => mem'.deleting
  BY NewCRFields DEF DeletionInv, CleanupOnlyDeleted, CleanupStates
<1>5. mem'.deleting => cr'.deleting
  BY NewCRFields DEF DeletionInv, CopiesLag
<1>6. CopiesLag'
  BY <1>2, <1>5 DEF DeletionInv, CopiesLag, ServiceIsLive
<1>7. CleanupOnlyDeleted'
  BY <1>1, <1>4 DEF DeletionInv, CleanupOnlyDeleted
<1>8. PointOfNoReturn'
  BY <1>1 DEF DeletionInv, PointOfNoReturn
<1>9. ServiceIsLive'
  BY <1>1, <1>3 DEF DeletionInv, ServiceIsLive
<1>10. SweepStands'
  BY <1>1 DEF DeletionInv, SweepStands, ServiceIsLive
<1> QED
  BY <1>6, <1>7, <1>8, <1>9, <1>10 DEF DeletionInv

(* A step of decommission or cleanup, which may sweep but not create.      *)
LEMMA CleanupInv ==
    ASSUME DeletionInv, TypeOK', UNCHANGED cached, cr.deleting,
           pc' \in DecommissionSteps \cup SweptSteps \cup {"cleanup", "idle"},
           \/ cr' = cr
           \/ /\ cr.exists /\ cr'.exists
              /\ cr'.deleting = cr.deleting /\ cr'.finalizer = cr.finalizer
              /\ cr'.state \in CleanupStates
              /\ cr'.state \in SweptStates => CacheCondemned /\ CleanupComplete',
           pc' \in SweptSteps \cup {"cleanup"} => CacheCondemned,
           pc' \in SweptSteps => CleanupComplete',
           CleanupComplete => CleanupComplete',
           mem' \in {mem, cr', NewCR}
    PROVE  DeletionInv'
<1>1. pc' \notin InitSteps \cup ServiceSteps
  BY DEF InitSteps, DecommissionSteps, SweptSteps, ServiceSteps
<1>2. pc' # "markInitialized" /\ "" \notin CleanupStates
  BY <1>1 DEF InitSteps, CleanupStates
<1>3. cr'.state \in CleanupStates => cr'.deleting
  BY DEF DeletionInv, CleanupOnlyDeleted
<1>4. mem'.state \in CleanupStates => mem'.deleting
  BY <1>2, <1>3, NewCRFields DEF DeletionInv, CleanupOnlyDeleted
<1>5. CopiesLag'
  BY <1>2 DEF DeletionInv, CopiesLag
<1>6. CleanupOnlyDeleted'
  BY <1>3, <1>4 DEF DeletionInv, CleanupOnlyDeleted
<1>7. PointOfNoReturn'
  BY DEF DeletionInv, PointOfNoReturn
<1>8. ServiceIsLive'
  BY <1>1 DEF ServiceIsLive
<1>9. SweepStands'
  BY DEF DeletionInv, SweepStands
<1> QED
  BY <1>5, <1>6, <1>7, <1>8, <1>9 DEF DeletionInv

(* The initial state satisfies the invariant.                              *)
LEMMA InvInit == Init => DeletionInv
<1> SUFFICES ASSUME Init PROVE DeletionInv
  OBVIOUS
<1>1. /\ cr.state = "" /\ cached.state = "" /\ mem.state = "" /\ pc = "idle"
      /\ cr.exists /\ ~cr.deleting /\ ~cached.deleting /\ ~mem.deleting
      /\ ~cr.finalizer /\ ~cached.finalizer
  BY DEF Init, NewCR
<1>2. CleanupComplete
  BY DEF Init, CleanupComplete, NoStatefulSet, Disposable
<1>3. CopiesLag /\ CleanupOnlyDeleted
  BY <1>1 DEF CopiesLag, CleanupOnlyDeleted, CleanupStates, DecommissionSteps
<1>4. PointOfNoReturn /\ ServiceIsLive
  BY <1>1 DEF PointOfNoReturn, ServiceIsLive, ServiceSteps, SweptSteps, InitSteps
<1> QED
  BY <1>2, <1>3, <1>4, TypeInit DEF DeletionInv, SweepStands

(* Where Reconcile goes, and what the CR it read says then.                *)
LEMMA RouteCases ==
    ASSUME NEW a
    PROVE  \/ Route(a) = "markDecommissioning" /\ a.deleting
           \/ Route(a) \in ServiceSteps /\ a.state \notin CleanupStates /\ ~a.deleting
           \/ Route(a) = "decommission" /\ a.state = "Decommissioning"
           \/ Route(a) = "cleanup" /\ a.state = "CleaningResources"
           \/ Route(a) = "cleanupHost" /\ a.state = "HostCleanup"
           \/ Route(a) = "finalize" /\ a.state = "Finalized"
           \/ Route(a) = "idle"
<1>1. CASE ShouldDecommission(a)
  BY <1>1 DEF Route, ShouldDecommission
<1>2. CASE ~ShouldDecommission(a) /\ ShouldStartShutdown(a)
  BY <1>2 DEF Route, ShouldDecommission, ShouldStartShutdown, CleanupStates, ServiceSteps,
     Steps, InitSteps, DecommissionSteps, SweptSteps
<1>3. CASE ~ShouldDecommission(a) /\ ~ShouldStartShutdown(a)
  <2>1. Route(a) = Dispatch(a)
    BY <1>3 DEF Route
  <2>2. CASE a.state \in CleanupStates
    BY <2>1, <2>2 DEF Dispatch, CleanupStates
  <2>3. CASE a.state \notin CleanupStates
    <3>1. ~a.deleting
      BY <1>3, <2>3 DEF ShouldDecommission
    <3>2. Dispatch(a) \in {"scaleProxies", "abortShutdown", "idle", "prereqs"}
      BY <2>3 DEF Dispatch, CleanupStates
    <3>3. {"scaleProxies", "abortShutdown", "prereqs"} \subseteq ServiceSteps
      BY DEF ServiceSteps, Steps, InitSteps, DecommissionSteps, SweptSteps
    <3> QED
      BY <2>1, <2>3, <3>1, <3>2, <3>3
  <2> QED
    BY <2>2, <2>3
<1> QED
  BY <1>1, <1>2, <1>3

(* A reconcile starts from whatever the cache shows.                       *)
LEMMA StartInv == DeletionInv /\ TypeOK' /\ StartReconcile => DeletionInv'
<1> SUFFICES ASSUME DeletionInv, TypeOK', StartReconcile PROVE DeletionInv'
  OBVIOUS
<1>1. UNCHANGED <<opts, cr, cached, ss, res>>
  BY DEF StartReconcile, world
<1>2. CleanupComplete => CleanupComplete'
  BY <1>1, SweptUnchanged
<1>3. CASE pc' = "idle"
  BY <1>1, <1>2, <1>3, EndInv DEF StartReconcile
<1>4. CASE pc' # "idle" /\ cached.state = ""
  <2>1. mem' = cached /\ pc' \in InitSteps /\ (pc' = "markInitialized" => cached.finalizer)
    BY <1>4 DEF StartReconcile, InitSteps
  <2>2. pc' \notin ServiceSteps \cup SweptSteps \cup DecommissionSteps \cup {"cleanup"}
    BY <2>1 DEF InitSteps, ServiceSteps, SweptSteps, DecommissionSteps
  <2>3. cr.state \notin SweptStates /\ "" \notin CleanupStates
    BY <1>4 DEF DeletionInv, PointOfNoReturn, CleanupStates
  <2>4. CopiesLag' /\ CleanupOnlyDeleted'
    BY <1>1, <1>4, <2>1, <2>2, <2>3 DEF DeletionInv, CopiesLag, CleanupOnlyDeleted
  <2>5. PointOfNoReturn' /\ ServiceIsLive' /\ SweepStands'
    BY <1>1, <1>2, <2>1, <2>2, <2>3
    DEF DeletionInv, PointOfNoReturn, ServiceIsLive, SweepStands
  <2> QED
    BY <2>4, <2>5 DEF DeletionInv
<1>5. CASE pc' # "idle" /\ cached.state # ""
  <2>1. mem' = cached /\ pc' = Route(cached)
    BY <1>5 DEF StartReconcile
  <2>2. cr.state # ""
    BY <1>5 DEF DeletionInv, CopiesLag
  <2>3. CASE pc' \in ServiceSteps
    <3>1. cached.state \notin CleanupStates /\ ~cached.deleting
      <4>1. pc' \notin {"markDecommissioning", "decommission", "cleanup", "cleanupHost",
                       "finalize", "idle"}
        BY <2>3 DEF ServiceSteps, DecommissionSteps, SweptSteps
      <4> QED
        BY <2>1, <4>1, RouteCases
    <3>2. cr.exists /\ cr.finalizer /\ cr.state \notin SweptStates
      BY <2>2, <3>1 DEF DeletionInv, PointOfNoReturn, CopiesLag
    <3>3. pc' \notin InitSteps \cup SweptSteps \cup DecommissionSteps \cup {"cleanup"}
      BY <2>3 DEF InitSteps, ServiceSteps, SweptSteps, DecommissionSteps
    <3>4. pc' # "markInitialized" /\ SweptStates \subseteq CleanupStates
      BY <3>3 DEF InitSteps, CleanupStates
    <3>5. CopiesLag' /\ CleanupOnlyDeleted'
      BY <1>1, <2>1, <3>1, <3>3, <3>4 DEF DeletionInv, CopiesLag, CleanupOnlyDeleted
    <3>6. PointOfNoReturn' /\ SweepStands'
      BY <1>1, <1>2, <3>3 DEF DeletionInv, PointOfNoReturn, SweepStands
    <3>7. ServiceIsLive'
      BY <1>1, <1>5, <2>1, <2>2, <3>1, <3>2, <3>3, <3>4 DEF ServiceIsLive
    <3> QED
      BY <3>5, <3>6, <3>7 DEF DeletionInv
  <2>4. CASE pc' \notin ServiceSteps
    <3>1. /\ pc' \in {"markDecommissioning", "decommission", "cleanup", "cleanupHost", "finalize"}
          /\ cached.deleting
          /\ pc' \in SweptSteps => cached.state \in SweptStates
      BY <1>5, <2>1, <2>4, RouteCases
      DEF DeletionInv, CleanupOnlyDeleted, CleanupStates, SweptSteps
    <3>2. pc' \in DecommissionSteps \cup SweptSteps \cup {"cleanup"}
      BY <3>1 DEF DecommissionSteps, SweptSteps
    <3>3. pc' \notin InitSteps /\ pc' # "markInitialized"
      BY <3>1 DEF InitSteps
    <3>4. CopiesLag' /\ CleanupOnlyDeleted'
      BY <1>1, <2>1, <3>1, <3>3 DEF DeletionInv, CopiesLag, CleanupOnlyDeleted
    <3>5. PointOfNoReturn' /\ ServiceIsLive'
      BY <1>1, <1>5, <2>4, <3>1, <3>3 DEF DeletionInv, PointOfNoReturn, ServiceIsLive
    <3>6. SweepStands'
      BY <1>1, <1>2, <3>1 DEF DeletionInv, SweepStands
    <3> QED
      BY <3>4, <3>5, <3>6 DEF DeletionInv
  <2> QED
    BY <2>3, <2>4
<1> QED
  BY <1>3, <1>4, <1>5

(* initializeCR: the finalizer is there before anything else is.           *)
LEMMA InitStepsInv ==
    ASSUME DeletionInv, TypeOK', AddFinalizer \/ MarkInitialized
    PROVE  DeletionInv'
<1>1. UNCHANGED <<opts, cached, ss, res>>
  BY DEF AddFinalizer, MarkInitialized, world
<1>2. CleanupComplete => CleanupComplete'
  BY <1>1, SweptUnchanged
<1>3. CASE AddFinalizer
  <2>1. /\ cr.exists /\ cr'.exists /\ cr'.finalizer
        /\ cr'.deleting = cr.deleting /\ cr'.state = cr.state
        /\ pc = "addFinalizer" /\ pc' = "markInitialized" /\ mem' = cr'
    BY <1>3 DEF AddFinalizer, Goto, DeletionInv, TypeOK, CR
  <2>2. /\ pc \in InitSteps
        /\ pc' \notin ServiceSteps \cup SweptSteps \cup DecommissionSteps \cup {"cleanup"}
    BY <2>1 DEF InitSteps, ServiceSteps, SweptSteps, DecommissionSteps
  <2>3. CopiesLag' /\ CleanupOnlyDeleted'
    BY <1>1, <2>1, <2>2 DEF DeletionInv, CopiesLag, CleanupOnlyDeleted
  <2>4. PointOfNoReturn' /\ ServiceIsLive' /\ SweepStands'
    BY <1>1, <1>2, <2>1, <2>2 DEF DeletionInv, PointOfNoReturn, ServiceIsLive, SweepStands
  <2> QED
    BY <2>3, <2>4 DEF DeletionInv
<1>4. CASE MarkInitialized
  <2>1. /\ cr.exists /\ cr'.exists /\ cr'.finalizer = cr.finalizer
        /\ cr'.deleting = cr.deleting /\ cr'.state = "Initialized"
    BY <1>4, UpdateEffect DEF MarkInitialized, DeletionInv, States
  <2>2. cr.finalizer /\ "Initialized" \notin CleanupStates
    BY <1>4, <2>1 DEF MarkInitialized, DeletionInv, CopiesLag, CleanupStates
  <2>3. pc' = (IF cr.deleting THEN "markDecommissioning" ELSE "prereqs")
    BY <1>4, <2>1, <2>2
    DEF MarkInitialized, Goto, Route, Dispatch, ShouldDecommission, ShouldStartShutdown
  <2>4. mem' = cr'
    BY <1>4, <2>3 DEF MarkInitialized, Goto
  <2>5. /\ pc' \notin InitSteps \cup SweptSteps \cup {"cleanup", "markInitialized"}
        /\ pc' \in DecommissionSteps => cr.deleting
        /\ pc' \in ServiceSteps => ~cr.deleting
    BY <2>3 DEF InitSteps, ServiceSteps, SweptSteps, DecommissionSteps
  <2>6. CopiesLag' /\ CleanupOnlyDeleted'
    BY <1>1, <2>1, <2>2, <2>4, <2>5 DEF DeletionInv, CopiesLag, CleanupOnlyDeleted
  <2>7. cached.state \in SweptStates => cr.deleting
    BY DEF DeletionInv, CleanupOnlyDeleted, CopiesLag, CleanupStates
  <2>8. PointOfNoReturn' /\ ServiceIsLive' /\ SweepStands'
    BY <1>1, <1>2, <2>1, <2>2, <2>4, <2>5, <2>7
    DEF DeletionInv, PointOfNoReturn, ServiceIsLive, SweepStands
  <2> QED
    BY <2>6, <2>8 DEF DeletionInv
<1> QED
  BY <1>3, <1>4

-----------------------------------------------------------------------------
(* How a step of service or shutdown leaves the reconcile.                 *)
Serving(a) == (pc' \in ServiceSteps /\ mem' = a) \/ (pc' = "idle" /\ mem' = NewCR)

(* A service step that patches the status with a copy of mem.              *)
LEMMA ServicePatchInv ==
    ASSUME DeletionInv, TypeOK', UNCHANGED cached, pc \in ServiceSteps,
           NEW a \in CR, PatchStatus(a), Serving(cr'),
           a.state = mem.state \/ a.state \notin CleanupStates \cup {""}
    PROVE  DeletionInv'
<1>1. /\ cr'.exists /\ cr'.deleting = cr.deleting /\ cr'.finalizer = cr.finalizer
      /\ cr'.state = a.state
  BY PatchEffect DEF DeletionInv
<1>2. SweptStates \subseteq CleanupStates
  BY DEF CleanupStates
<1>3. a.state \notin SweptStates \cup {""} /\ (a.state \in CleanupStates => cr.deleting)
  BY <1>2 DEF DeletionInv, ServiceIsLive, CleanupOnlyDeleted, CopiesLag
<1> QED
  BY <1>1, <1>3, ServiceInv DEF Serving

(* A service step that does not write the CR.                              *)
LEMMA ServiceMoveInv ==
    ASSUME DeletionInv, TypeOK', UNCHANGED <<cr, cached>>, pc \in ServiceSteps,
           Serving(mem) \/ Serving(cr)
    PROVE  DeletionInv'
<1>1. /\ cr.exists /\ cr.state \notin SweptStates \cup {""}
      /\ cr.state \in CleanupStates => cr.deleting
  BY DEF DeletionInv, ServiceIsLive, CleanupOnlyDeleted
<1> QED
  BY <1>1, ServiceInv DEF Serving

(* Goto, Return and the requeue of handleCREvents, as service steps use    *)
(* them.                                                                   *)
LEMMA ServingGoto ==
    ASSUME NEW step \in ServiceSteps, NEW a, Goto(step, a) PROVE Serving(a)
BY DEF Goto, Serving, ServiceSteps

(* The end of a reconcile is the end of its service steps.                 *)
LEMMA ServingReturn ==
    ASSUME NEW requeue, NEW a, Return(requeue) PROVE Serving(a)
BY DEF Return, Serving

(* A requeue from handleCREvents ends the reconcile or marks it Upgrading. *)
LEMMA ServingRequeue == RequeueCREvents => Serving(mem)
<1>1. "markUpgrading" \in ServiceSteps
  BY DEF ServiceSteps, Steps, InitSteps, DecommissionSteps, SweptSteps
<1> QED
  BY <1>1, ServingGoto, ServingReturn DEF RequeueCREvents

(* The service steps that write the status of the CR.                      *)
LEMMA ServiceStatusInv ==
    ASSUME DeletionInv, TypeOK',
           \/ DisableRebalance \/ MarkShuttingDown \/ AbortShutdown \/ MarkShutdown
           \/ MarkLB \/ SetURL \/ MarkCreated \/ CheckAISClusterReady
           \/ EnableRebalanceCondition \/ HandleSuccessfulReconcile
           \/ UpdateStatusAndRequeue
    PROVE  DeletionInv'
<1> DEFINE Written ==
      {"disableRebalance", "markShuttingDown", "abortShutdown", "markShutdown", "markLB",
       "setURL", "markCreated", "checkReady", "enableRebalance", "markReady",
       "markUpgrading"}
<1> DEFINE Reached ==
      {"forceConfig", "scaleProxies", "abortShutdown", "handleProxies", "initProxies",
       "enableRebalance", "syncConfig"}
<1>1. Written \cup Reached \subseteq ServiceSteps
  BY DEF ServiceSteps, Steps, InitSteps, DecommissionSteps, SweptSteps
<1>2. cr \in CR /\ mem \in CR
  BY DEF DeletionInv, TypeOK
<1> DEFINE Patched(a) ==
      /\ a \in CR /\ PatchStatus(a)
      /\ a.state = mem.state \/ a.state \notin CleanupStates \cup {""}
<1>3. UNCHANGED cached /\ pc \in ServiceSteps
  <2>1. UNCHANGED cached /\ pc \in Written
    BY DEF DisableRebalance, MarkShuttingDown, AbortShutdown, MarkShutdown, MarkLB, SetURL,
       MarkCreated, CheckAISClusterReady, EnableRebalanceCondition,
       HandleSuccessfulReconcile, UpdateStatusAndRequeue
  <2> QED
    BY <1>1, <2>1
<1>4. ASSUME NEW a, Patched(a), Serving(cr') PROVE DeletionInv'
  BY <1>3, <1>4, ServicePatchInv
<1>5. ASSUME UNCHANGED cr, Serving(mem) PROVE DeletionInv'
  BY <1>3, <1>5, ServiceMoveInv
<1>6. ASSUME NEW s \in States \ (CleanupStates \cup {""}), UpdateStatusWithState(s),
             Serving(cr')
      PROVE  DeletionInv'
  <2>1. Patched([mem EXCEPT !.state = s])
    BY <1>2, <1>6 DEF UpdateStatusWithState, CR
  <2> QED
    BY <1>4, <1>6, <2>1
<1>7. {"ShuttingDown", "Shutdown", "Upgrading", "InitializingLB", "PendingLB"}
         \subseteq States \ (CleanupStates \cup {""})
  BY DEF States, CleanupStates
<1>8. CASE DisableRebalance
  <2>1. Patched([mem EXCEPT !.rebalance = FALSE])
    BY <1>2, <1>8 DEF DisableRebalance, CR
  <2>2. Serving(cr')
    BY <1>1, <1>8, ServingGoto DEF DisableRebalance
  <2> QED
    BY <1>4, <2>1, <2>2
<1>9. CASE MarkShuttingDown
  <2>1. cr'.state = "ShuttingDown"
    BY <1>9, UpdateEffect DEF MarkShuttingDown, DeletionInv, States
  <2>2. Dispatch(cr') \in ServiceSteps
    BY <1>1, <2>1 DEF Dispatch
  <2>3. Serving(cr')
    BY <1>9, <2>2, ServingGoto DEF MarkShuttingDown
  <2> QED
    BY <1>6, <1>7, <1>9, <2>3 DEF MarkShuttingDown
<1>10. CASE AbortShutdown \/ MarkShutdown
  <2>1. Serving(cr')
    BY <1>10, ServingReturn DEF AbortShutdown, MarkShutdown
  <2> QED
    BY <1>6, <1>7, <1>10, <2>1 DEF AbortShutdown, MarkShutdown
<1>11. CASE MarkLB
  <2>1. Serving(cr')
    BY <1>11, ServingReturn DEF MarkLB
  <2> QED
    BY <1>6, <1>7, <1>11, <2>1 DEF MarkLB
<1>12. CASE SetURL
  <2>1. AfterURL(mem) \in ServiceSteps /\ AfterURL(cr') \in ServiceSteps
    BY <1>1 DEF AfterURL
  <2>2. CASE mem.url
    <3>1. UNCHANGED cr /\ Serving(mem)
      BY <1>12, <2>1, <2>2, ServingGoto DEF SetURL
    <3> QED
      BY <1>5, <3>1
  <2>3. CASE ~mem.url
    <3>1. Patched([mem EXCEPT !.url = TRUE]) /\ Serving(cr')
      BY <1>2, <1>12, <2>1, <2>3, ServingGoto DEF SetURL, CR
    <3> QED
      BY <1>4, <3>1
  <2> QED
    BY <2>2, <2>3
<1>13. CASE MarkCreated
  <2>1. Patched([mem EXCEPT !.state = "Created", !.created = TRUE])
    BY <1>2, <1>13 DEF MarkCreated, CR, States, CleanupStates
  <2>2. Serving(cr')
    BY <1>13, ServingReturn DEF MarkCreated
  <2> QED
    BY <1>4, <2>1, <2>2
<1>14. CASE CheckAISClusterReady
  <2>1. CASE UNCHANGED cr /\ (Return(TRUE) \/ RequeueCREvents \/ Goto("enableRebalance", mem))
    <3>1. Serving(mem)
      BY <1>1, <2>1, ServingReturn, ServingRequeue, ServingGoto
    <3> QED
      BY <1>5, <2>1, <3>1
  <2>2. CASE PatchStatus([mem EXCEPT !.id = TRUE]) /\ Goto("enableRebalance", cr')
    <3>1. Patched([mem EXCEPT !.id = TRUE]) /\ Serving(cr')
      BY <1>1, <1>2, <2>2, ServingGoto DEF CR
    <3> QED
      BY <1>4, <3>1
  <2> QED
    BY <1>14, <2>1, <2>2 DEF CheckAISClusterReady
<1>15. CASE EnableRebalanceCondition
  <2>1. CASE mem.rebalance
    <3>1. UNCHANGED cr /\ Serving(mem)
      BY <1>1, <1>15, <2>1, ServingGoto DEF EnableRebalanceCondition
    <3> QED
      BY <1>5, <3>1
  <2>2. CASE ~mem.rebalance
    <3>1. Patched([mem EXCEPT !.rebalance = TRUE]) /\ Serving(cr')
      BY <1>1, <1>2, <1>15, <2>2, ServingGoto DEF EnableRebalanceCondition, CR
    <3> QED
      BY <1>4, <3>1
  <2> QED
    BY <2>1, <2>2
<1>16. CASE HandleSuccessfulReconcile
  <2>1. Serving(cr') /\ Serving(mem)
    BY <1>16, ServingReturn DEF HandleSuccessfulReconcile
  <2>2. CASE mem.ready /\ mem.state = "Ready"
    BY <1>5, <1>16, <2>1, <2>2 DEF HandleSuccessfulReconcile
  <2>3. CASE ~(mem.ready /\ mem.state = "Ready")
    <3>1. Patched([mem EXCEPT !.state = "Ready", !.ready = TRUE])
      BY <1>2, <1>16, <2>3 DEF HandleSuccessfulReconcile, CR, States, CleanupStates
    <3> QED
      BY <1>4, <2>1, <3>1
  <2> QED
    BY <2>2, <2>3
<1>17. CASE UpdateStatusAndRequeue
  <2>1. Patched([mem EXCEPT !.state = "Upgrading", !.ready = FALSE])
    BY <1>2, <1>17 DEF UpdateStatusAndRequeue, CR, States, CleanupStates
  <2>2. Serving(cr')
    BY <1>17, ServingReturn DEF UpdateStatusAndRequeue
  <2> QED
    BY <1>4, <2>1, <2>2
<1> QED
  BY <1>8, <1>9, <1>10, <1>11, <1>12, <1>13, <1>14, <1>15, <1>16, <1>17

(* The service steps that create and scale, or only move on.               *)
LEMMA ServiceMoveStepsInv ==
    ASSUME DeletionInv, TypeOK',
           \/ ForceConfig \/ ForceConfigUnreachable
           \/ \E k \in Kinds : \E at, next \in ServiceSteps :
                 ScaleDown(k, at, next) \/ AwaitDown(k, at, next)
           \/ \E at, next \in ServiceSteps : EnsurePrereqs(at, next)
           \/ ReconcileExternalAccess \/ BootstrapNew
           \/ HandleProxyState \/ HandleTargetState \/ HandleConfigState
    PROVE  DeletionInv'
<1> DEFINE Used ==
      {"forceConfig", "markShuttingDown", "externalAccess", "markLB", "daemonPrereqs",
       "initProxies", "initTargets", "markCreated", "handleProxies", "handleTargets",
       "checkReady", "syncConfig", "markReady"}
<1>1. Used \subseteq ServiceSteps
  BY DEF ServiceSteps, Steps, InitSteps, DecommissionSteps, SweptSteps
<1>2. ASSUME UNCHANGED <<cr, cached>>, pc \in ServiceSteps, Serving(mem) \/ Serving(cr)
      PROVE  DeletionInv'
  BY <1>2, ServiceMoveInv
<1>3. CASE ForceConfig \/ ForceConfigUnreachable \/ HandleConfigState
  <2>1. Serving(mem) \/ Serving(cr)
    BY <1>1, <1>3, ServingGoto, ServingReturn
    DEF ForceConfig, ForceConfigUnreachable, HandleConfigState
  <2> QED
    BY <1>1, <1>2, <1>3, <2>1 DEF ForceConfig, ForceConfigUnreachable, HandleConfigState
<1>4. ASSUME NEW k \in Kinds, NEW at \in ServiceSteps, NEW next \in ServiceSteps,
             ScaleDown(k, at, next) \/ AwaitDown(k, at, next)
      PROVE  DeletionInv'
  <2>1. Serving(mem)
    BY <1>4, ServingGoto, ServingReturn DEF ScaleDown, AwaitDown
  <2> QED
    BY <1>2, <1>4, <2>1 DEF ScaleDown, AwaitDown
<1>5. ASSUME NEW at \in ServiceSteps, NEW next \in ServiceSteps, EnsurePrereqs(at, next)
      PROVE  DeletionInv'
  <2>1. Serving(mem)
    BY <1>5, ServingGoto DEF EnsurePrereqs
  <2> QED
    BY <1>2, <1>5, <2>1 DEF EnsurePrereqs
<1>6. CASE ReconcileExternalAccess
  <2>1. Serving(mem)
    BY <1>1, <1>6, ServingGoto DEF ReconcileExternalAccess
  <2> QED
    BY <1>1, <1>2, <1>6, <2>1 DEF ReconcileExternalAccess
<1>7. CASE BootstrapNew
  <2>1. Return(TRUE) \/ Goto("initTargets", mem) \/ Goto("markCreated", mem)
    BY <1>7 DEF BootstrapNew, InitProxies, InitTargets
  <2>2. Serving(mem)
    BY <1>1, <2>1, ServingGoto, ServingReturn
  <2> QED
    BY <1>1, <1>2, <1>7, <2>2 DEF BootstrapNew
<1>8. CASE HandleProxyState
  <2>1. Return(TRUE) \/ RequeueCREvents \/ Goto("handleTargets", mem)
    BY <1>8 DEF HandleProxyState, InitProxies, HandleStatefulSet
  <2>2. Serving(mem)
    BY <1>1, <2>1, ServingGoto, ServingReturn, ServingRequeue
  <2> QED
    BY <1>1, <1>2, <1>8, <2>2 DEF HandleProxyState
<1>9. CASE HandleTargetState
  <2>1. Return(TRUE) \/ RequeueCREvents \/ Goto("checkReady", mem)
    BY <1>9 DEF HandleTargetState, InitTargets, HandleStatefulSet
  <2>2. Serving(mem)
    BY <1>1, <2>1, ServingGoto, ServingReturn, ServingRequeue
  <2> QED
    BY <1>1, <1>2, <1>9, <2>2 DEF HandleTargetState
<1> QED
  BY <1>3, <1>4, <1>5, <1>6, <1>7, <1>8, <1>9

-----------------------------------------------------------------------------
(* A delete leaves nothing present, and creates nothing.                   *)
LEMMA SweepEffect ==
    ASSUME TypeOK, NEW n \in 0..Len(CleanupOrder)
    PROVE  /\ \A k \in Kinds : SweptStatefulSets(n)[k].exists => ss[k].exists
           /\ \A r \in Resources : SweptResources(n)[r] = "present" => res[r] = "present"
           /\ \A r \in Swept(n) \cap Resources : SweptResources(n)[r] # "present"
           /\ "ssProxy" \in Swept(n) => ~SweptStatefulSets(n)["proxy"].exists
           /\ "ssTarget" \in Swept(n) => ~SweptStatefulSets(n)["target"].exists
<1>1. \A k \in Kinds : SweptStatefulSets(n)[k].exists => ss[k].exists
  BY DEF SweptStatefulSets, TypeOK, StatefulSet
<1>2. \A r \in Resources : Deleted(r) # "present"
  BY DEF Deleted, TypeOK, ResourceState
<1>3. /\ \A r \in Resources : SweptResources(n)[r] = "present" => res[r] = "present"
      /\ \A r \in Swept(n) \cap Resources : SweptResources(n)[r] # "present"
  BY <1>2 DEF SweptResources
<1>4. /\ "ssProxy" \in Swept(n) => ~SweptStatefulSets(n)["proxy"].exists
      /\ "ssTarget" \in Swept(n) => ~SweptStatefulSets(n)["target"].exists
  BY DEF SweptStatefulSets, TypeOK, StatefulSet, Kinds
<1> QED
  BY <1>1, <1>3, <1>4

(* A complete pass of cleanup deletes everything that it owns.             *)
LEMMA FullSweep ==
    /\ Disposable \subseteq Swept(Len(CleanupOrder)) \cap Resources
    /\ {"ssProxy", "ssTarget"} \subseteq Swept(Len(CleanupOrder))
<1>1. Len(CleanupOrder) = 7
  BY DEF CleanupOrder
<1>2. {"pdb", "ssTarget", "ssProxy", "lb", "pvcTarget", "pvcProxy", "base"}
         \subseteq {CleanupOrder[i] : i \in 1..Len(CleanupOrder)}
  <2>1. /\ CleanupOrder[1] = "pdb" /\ CleanupOrder[2] = "ssTarget"
        /\ CleanupOrder[3] = "ssProxy" /\ CleanupOrder[4] = "lb"
        /\ CleanupOrder[5] = "pvcTarget" /\ CleanupOrder[6] = "pvcProxy"
        /\ CleanupOrder[7] = "base"
    BY DEF CleanupOrder
  <2> QED
    BY <1>1, <2>1
<1> QED
  BY <1>2 DEF Swept, Disposable, Resources

(* cleanup: a partial pass ends the reconcile, a complete one sweeps.      *)
LEMMA CleanupStepInv == DeletionInv /\ TypeOK' /\ Cleanup => DeletionInv'
<1> SUFFICES ASSUME DeletionInv, TypeOK', Cleanup PROVE DeletionInv'
  OBVIOUS
<1>1. /\ TypeOK /\ pc = "cleanup" /\ UNCHANGED <<opts, cr, cached>>
  BY DEF DeletionInv, Cleanup
<1>2. CacheCondemned /\ cr.deleting
  BY <1>1 DEF DeletionInv, PointOfNoReturn, CopiesLag
<1> PICK n \in 0..Len(CleanupOrder) :
       /\ res' = SweptResources(n)
       /\ ss' = SweptStatefulSets(n)
       /\ IF n < Len(CleanupOrder)
             THEN faults < MaxFaults /\ faults' = faults + 1 /\ Return(TRUE)
             ELSE UNCHANGED faults /\ AfterSweep
  BY DEF Cleanup
<1>3. CleanupComplete => CleanupComplete'
  BY <1>1, SweepEffect, SweptStable
<1>4. CASE Return(TRUE)
  BY <1>1, <1>3, <1>4, EndInv DEF Return
<1>5. CASE AfterSweep /\ n = Len(CleanupOrder)
  <2>1. \A k \in Kinds : ~ss'[k].exists
    BY <1>1, <1>5, SweepEffect, FullSweep DEF Kinds
  <2>2. \A r \in Disposable : res'[r] # "present"
    BY <1>1, <1>5, SweepEffect, FullSweep
  <2>3. CleanupComplete'
    BY <1>1, <2>1, <2>2 DEF CleanupComplete, Disposable
  <2>4. /\ pc' \in {"createJobs", "markHostCleanup", "idle"}
        /\ mem' \in {mem, cr', NewCR}
    BY <1>5 DEF AfterSweep, Return, Goto
  <2>5. pc' \in SweptSteps \cup {"idle"}
    BY <2>4 DEF SweptSteps
  <2> QED
    BY <1>1, <1>2, <2>3, <2>4, <2>5, CleanupInv
<1>6. n < Len(CleanupOrder) \/ n = Len(CleanupOrder)
  <2>1. Len(CleanupOrder) = 7
    BY DEF CleanupOrder
  <2> QED
    BY <2>1
<1> QED
  BY <1>4, <1>5, <1>6

(* The status writes of decommission and cleanup.                          *)
LEMMA CleanupStatusInv ==
    ASSUME DeletionInv, TypeOK',
           \/ MarkDecommissioning \/ MarkCleanup \/ MarkJobsCreated
           \/ MarkHostCleanup \/ MarkFinalized
    PROVE  DeletionInv'
<1>1. UNCHANGED <<opts, cached, ss, res>>
  BY DEF MarkDecommissioning, MarkCleanup, MarkJobsCreated, MarkHostCleanup,
     MarkFinalized, world
<1>2. CleanupComplete => CleanupComplete'
  BY <1>1, SweptUnchanged
<1>3. ASSUME NEW s \in CleanupStates, UpdateStatusWithState(s)
      PROVE  /\ cr.exists /\ cr'.exists /\ cr'.state = s
             /\ cr'.deleting = cr.deleting /\ cr'.finalizer = cr.finalizer
  BY <1>3, UpdateEffect DEF DeletionInv, States
<1>4. CASE MarkDecommissioning
  <2>1. "Decommissioning" \in CleanupStates \ SweptStates
    BY DEF CleanupStates
  <2>2. cr.deleting
    BY <1>4 DEF MarkDecommissioning, DeletionInv, CleanupOnlyDeleted, DecommissionSteps
  <2>3. pc' = "decommission" /\ mem' = cr'
    BY <1>3, <1>4, <2>1 DEF MarkDecommissioning, Goto, Dispatch
  <2>4. pc' \in DecommissionSteps /\ pc' \notin SweptSteps \cup {"cleanup"}
    BY <2>3 DEF DecommissionSteps, SweptSteps
  <2> QED
    BY <1>1, <1>2, <1>3, <1>4, <2>1, <2>2, <2>3, <2>4, CleanupInv DEF MarkDecommissioning
<1>5. CASE MarkCleanup
  <2>1. "CleaningResources" \in CleanupStates \ SweptStates
    BY DEF CleanupStates
  <2>2. cr.deleting
    BY <1>5 DEF MarkCleanup, DeletionInv, CleanupOnlyDeleted, DecommissionSteps
  <2>3. pc' = "idle" /\ mem' = NewCR /\ pc' \notin SweptSteps \cup {"cleanup"}
    BY <1>5 DEF MarkCleanup, Return, SweptSteps
  <2> QED
    BY <1>1, <1>2, <1>3, <1>5, <2>1, <2>2, <2>3, CleanupInv DEF MarkCleanup
<1>6. CASE MarkJobsCreated \/ MarkHostCleanup \/ MarkFinalized
  <2>1. {"HostCleanup", "Finalized"} \subseteq CleanupStates
    BY DEF CleanupStates
  <2>2. pc \in SweptSteps
    BY <1>6 DEF MarkJobsCreated, MarkHostCleanup, MarkFinalized, SweptSteps
  <2>3. CacheCondemned /\ cr.deleting /\ CleanupComplete'
    BY <1>2, <2>2 DEF DeletionInv, PointOfNoReturn, CopiesLag, SweepStands
  <2>4. /\ pc' \in SweptSteps \cup {"idle"} /\ mem' \in {cr', NewCR}
    BY <1>6 DEF MarkJobsCreated, MarkHostCleanup, MarkFinalized, Return, Goto, SweptSteps
  <2>5. UpdateStatusWithState("HostCleanup") \/ UpdateStatusWithState("Finalized")
    BY <1>6 DEF MarkJobsCreated, MarkHostCleanup, MarkFinalized
  <2>6. /\ cr.exists /\ cr'.exists /\ cr'.state \in SweptStates
        /\ cr'.deleting = cr.deleting /\ cr'.finalizer = cr.finalizer
    BY <1>3, <2>1, <2>5
  <2> QED
    BY <1>1, <1>2, <2>1, <2>3, <2>4, <2>6, CleanupInv
<1> QED
  BY <1>4, <1>5, <1>6

(* The other steps of decommission and cleanup.                            *)
LEMMA CleanupMoveInv ==
    ASSUME DeletionInv, TypeOK', DecommissionCluster \/ CreateJobs \/ CleanupHost
    PROVE  DeletionInv'
<1>1. UNCHANGED <<opts, cr, cached, ss, res>>
  BY DEF DecommissionCluster, DecommissionAIS, CreateJobs, CleanupHost
<1>2. CleanupComplete => CleanupComplete'
  BY <1>1, SweptUnchanged
<1>3. CASE DecommissionCluster
  <2>1. cr.deleting
    BY <1>3 DEF DecommissionCluster, DecommissionAIS, DeletionInv, CleanupOnlyDeleted, DecommissionSteps
  <2>2. pc' \in {"markCleanup", "idle"} /\ mem' \in {mem, NewCR}
    BY <1>3 DEF DecommissionCluster, DecommissionAIS, Goto, Return
  <2>3. pc' \in DecommissionSteps \cup {"idle"} /\ pc' \notin SweptSteps \cup {"cleanup"}
    BY <2>2 DEF DecommissionSteps, SweptSteps
  <2> QED
    BY <1>1, <1>2, <2>1, <2>2, <2>3, CleanupInv
<1>4. CASE CreateJobs \/ CleanupHost
  <2>1. pc \in SweptSteps
    BY <1>4 DEF CreateJobs, CleanupHost, SweptSteps
  <2>2. CacheCondemned /\ cr.deleting /\ CleanupComplete'
    BY <1>2, <2>1 DEF DeletionInv, PointOfNoReturn, CopiesLag, SweepStands
  <2>3. pc' \in SweptSteps \cup {"idle"} /\ mem' \in {mem, NewCR}
    BY <1>4 DEF CreateJobs, CleanupHost, Goto, Return, SweptSteps
  <2> QED
    BY <1>1, <1>2, <2>2, <2>3, CleanupInv
<1> QED
  BY <1>3, <1>4

(* finalize: with the finalizer the CR goes, too.                          *)
LEMMA FinalizeInv == DeletionInv /\ TypeOK' /\ Finalize => DeletionInv'
<1> SUFFICES ASSUME DeletionInv, TypeOK', Finalize PROVE DeletionInv'
  OBVIOUS
<1>1. UNCHANGED <<opts, cached, ss, res>> /\ pc = "finalize" /\ pc' = "idle" /\ mem' = NewCR
  BY DEF Finalize, Return, world
<1>2. pc \in SweptSteps
  BY <1>1 DEF SweptSteps
<1>3. CacheCondemned /\ cr.deleting /\ CleanupComplete
  BY <1>2 DEF DeletionInv, PointOfNoReturn, CopiesLag, SweepStands
<1>4. CleanupComplete'
  BY <1>1, <1>3, SweptUnchanged
<1>5. ~cr'.finalizer /\ ~cr'.exists /\ cr'.deleting = cr.deleting /\ cr'.state = cr.state
  <2> DEFINE stays == cr.exists /\ ~cr.deleting
  <2>1. ~stays
    BY <1>3
  <2>2. cr' = [cr EXCEPT !.finalizer = FALSE, !.exists = stays]
    BY DEF Finalize
  <2> HIDE DEF stays
  <2> QED
    BY <2>1, <2>2 DEF DeletionInv, TypeOK, CR
<1>6. /\ pc' \notin InitSteps \cup DecommissionSteps \cup SweptSteps \cup ServiceSteps
      /\ pc' \notin {"cleanup", "markInitialized"}
      /\ mem'.state \notin CleanupStates /\ ~mem'.deleting
  BY <1>1, NewCRFields
  DEF InitSteps, DecommissionSteps, SweptSteps, ServiceSteps, CleanupStates
<1>7. CopiesLag' /\ CleanupOnlyDeleted'
  BY <1>1, <1>5, <1>6 DEF DeletionInv, CopiesLag, CleanupOnlyDeleted
<1>8. PointOfNoReturn' /\ ServiceIsLive' /\ SweepStands'
  BY <1>1, <1>3, <1>4, <1>5, <1>6 DEF PointOfNoReturn, ServiceIsLive, SweepStands
<1> QED
  BY <1>7, <1>8 DEF DeletionInv

-----------------------------------------------------------------------------
(* The user: a CR without a finalizer had nothing, one with it is marked.  *)
LEMMA UserInv ==
    ASSUME DeletionInv, TypeOK', UserDeletes \/ UserFlipsShutdown
    PROVE  DeletionInv'
<1>1. UNCHANGED <<opts, cached, mem, pc, ss, res>> /\ cr.exists /\ cr \in CR
  BY DEF UserDeletes, UserFlipsShutdown, operator, world, DeletionInv, TypeOK
<1>2. CleanupComplete => CleanupComplete'
  BY <1>1, SweptUnchanged
<1>3. /\ cr'.state = cr.state /\ cr'.finalizer = cr.finalizer
      /\ cr.deleting => cr'.deleting
      /\ cr'.deleting => cr.deleting \/ cr.finalizer
      /\ ~cr'.exists => ~cr.finalizer
  <2>1. CASE UserFlipsShutdown
    <3> DEFINE flipped == ~cr.shutdown
    <3>1. cr' = [cr EXCEPT !.shutdown = flipped]
      BY <2>1 DEF UserFlipsShutdown
    <3> HIDE DEF flipped
    <3> QED
      BY <1>1, <3>1 DEF CR
  <2>2. CASE UserDeletes
    BY <1>1, <2>2 DEF UserDeletes, CR
  <2> QED
    BY <2>1, <2>2
<1>4. CopiesLag' /\ CleanupOnlyDeleted'
  BY <1>1, <1>3 DEF DeletionInv, CopiesLag, CleanupOnlyDeleted
<1>5. PointOfNoReturn'
  BY <1>1, <1>3 DEF DeletionInv, PointOfNoReturn, CopiesLag
<1>6. ServiceIsLive' /\ SweepStands'
  BY <1>1, <1>2, <1>3 DEF DeletionInv, ServiceIsLive, SweepStands
<1> QED
  BY <1>4, <1>5, <1>6 DEF DeletionInv

(* The informer catches up with the CR.                                    *)
LEMMA SyncInv == DeletionInv /\ TypeOK' /\ SyncCR => DeletionInv'
<1> SUFFICES ASSUME DeletionInv, TypeOK', SyncCR PROVE DeletionInv'
  OBVIOUS
<1>1. UNCHANGED <<opts, cr, mem, pc, ss, res>> /\ cached' = cr
  BY DEF SyncCR, operator, world
<1>2. CleanupComplete => CleanupComplete'
  BY <1>1, SweptUnchanged
<1>3. CopiesLag' /\ CleanupOnlyDeleted'
  BY <1>1 DEF DeletionInv, CopiesLag, CleanupOnlyDeleted
<1>4. CacheCondemned => CacheCondemned'
  BY <1>1 DEF DeletionInv, CopiesLag
<1>5. cr.state \in SweptStates => cr.deleting /\ cr.state # ""
  BY DEF DeletionInv, CleanupOnlyDeleted, CleanupStates
<1>6. PointOfNoReturn'
  BY <1>1, <1>4, <1>5 DEF DeletionInv, PointOfNoReturn
<1>7. ServiceIsLive' /\ SweepStands'
  BY <1>1, <1>2 DEF DeletionInv, ServiceIsLive, SweepStands
<1> QED
  BY <1>3, <1>6, <1>7 DEF DeletionInv

(* Kubernetes creates pods and claims for existing StatefulSets only.      *)
LEMMA KubernetesInv ==
    ASSUME DeletionInv, TypeOK',
           \/ \E k \in Kinds : SyncStatefulSet(k) \/ Pods(k) \/ PodFails(k)
           \/ SyncJobs \/ LBAllocated \/ OwnedEvent
           \/ \E r \in Resources : Reclaimed(r)
           \/ \E h \in Hosts : JobDone(h) \/ JobRemoved(h)
    PROVE  DeletionInv'
<1>0. ss \in [Kinds -> StatefulSet] /\ res \in [Resources -> ResourceState]
  BY DEF DeletionInv, TypeOK
<1>1. UNCHANGED <<opts, cr, cached, mem, pc>>
  BY DEF SyncStatefulSet, Pods, PodCreated, PodReady, PodDeleted, DaemonStops, PodFails,
     SyncJobs, LBAllocated, OwnedEvent, Reclaimed, JobDone, JobRemoved, operator
<1>2. CleanupComplete => CleanupComplete'
  <2>1. ASSUME NEW k \in Kinds, PodCreated(k) PROVE ~CleanupComplete
    BY <2>1 DEF PodCreated, CleanupComplete
  <2>2. ASSUME NEW k \in Kinds, PodReady(k) \/ PodDeleted(k) \/ DaemonStops(k) \/ PodFails(k)
        PROVE  UNCHANGED res /\ \A j \in Kinds : ss'[j].exists = ss[j].exists
    BY <1>0, <2>2 DEF PodReady, PodDeleted, DaemonStops, PodFails, StatefulSet
  <2>3. ASSUME NEW r \in Resources, Reclaimed(r)
        PROVE  UNCHANGED ss /\ \A q \in Resources : res'[q] = "present" => res[q] = "present"
    BY <1>0, <2>3 DEF Reclaimed
  <2>4. CASE \/ \E k \in Kinds : SyncStatefulSet(k)
             \/ SyncJobs \/ LBAllocated \/ OwnedEvent
             \/ \E h \in Hosts : JobDone(h) \/ JobRemoved(h)
    BY <1>1, <2>4, SweptUnchanged
    DEF SyncStatefulSet, SyncJobs, LBAllocated, OwnedEvent, JobDone, JobRemoved, world
  <2> QED
    BY <1>1, <2>1, <2>2, <2>3, <2>4, SweptStable DEF Pods
<1> QED
  BY <1>1, <1>2, FrameInv

(* An error return, a crash, or a CR that is gone.                         *)
LEMMA FailInv ==
    ASSUME DeletionInv, TypeOK', CRGone \/ Fail
    PROVE  DeletionInv'
<1>1. UNCHANGED <<opts, cr, cached, ss, res>> /\ pc' = "idle" /\ mem' = NewCR
  BY DEF CRGone, Fail, Return, world
<1> QED
  BY <1>1, SweptUnchanged, EndInv

(* Every step preserves the invariant.                                     *)
LEMMA InvStep == DeletionInv /\ [Next]_vars => DeletionInv'
<1> SUFFICES ASSUME DeletionInv, [Next]_vars PROVE DeletionInv'
  OBVIOUS
<1>1. TypeOK'
  BY TypeStep DEF DeletionInv
<1>2. CASE UNCHANGED vars
  <2>1. UNCHANGED <<opts, cr, cached, mem, pc, ss, res>>
    BY <1>2 DEF vars
  <2> QED
    BY <1>1, <2>1, SweptUnchanged, FrameInv
<1>3. CASE OperatorStep
  <2>1. {"scaleProxies", "awaitProxies", "scaleTargets", "awaitTargets", "markShutdown",
         "prereqs", "externalAccess", "daemonPrereqs", "setURL"} \subseteq ServiceSteps
    BY DEF ServiceSteps, Steps, InitSteps, DecommissionSteps, SweptSteps
  <2>2. CASE ShutdownCluster
    BY <1>1, <2>1, <2>2, ServiceStatusInv, ServiceMoveStepsInv DEF ShutdownCluster, Kinds
  <2>3. CASE EnsurePrereqs("prereqs", "externalAccess") \/ EnsurePrereqs("daemonPrereqs", "setURL")
    BY <1>1, <2>1, <2>3, ServiceMoveStepsInv
  <2> QED
    BY <1>1, <1>3, <2>2, <2>3, StartInv, InitStepsInv, ServiceStatusInv,
       ServiceMoveStepsInv, CleanupStatusInv, CleanupStepInv, CleanupMoveInv, FinalizeInv,
       FailInv
    DEF OperatorStep
<1>4. CASE Next /\ ~OperatorStep
  BY <1>1, <1>4, FailInv, UserInv, SyncInv, KubernetesInv DEF Next
<1> QED
  BY <1>2, <1>3, <1>4

(* DeletionInv holds in every reachable state: whatever stale copy of the  *)
(* CR a reconcile works from and wherever it fails.                        *)
THEOREM DeletionInvariant == Spec => []DeletionInv
BY InvInit, InvStep, PTL DEF Spec

(* From host cleanup on, cleanup is complete and never undone.             *)
THEOREM CleanedBeforeFinalize == Spec => []CleanupBeforeFinalize
<1>1. DeletionInv => CleanupBeforeFinalize
  BY DEF DeletionInv, SweepStands, CleanupBeforeFinalize
<1> QED
  BY <1>1, DeletionInvariant, PTL

(* A CR that is gone leaves nothing of its cluster behind.                 *)
THEOREM GoneIsClean == Spec => []GoneMeansClean
<1>1. DeletionInv => GoneMeansClean
  BY DEF DeletionInv, PointOfNoReturn, SweepStands, GoneMeansClean
<1> QED
  BY <1>1, DeletionInvariant, PTL

-----------------------------------------------------------------------------
(* A CR past its sweep is in a cleanup state after any step: the steps of  *)
(* service, whose status writes could take it back, are out of reach.      *)
LEMMA SweptStaysCleanup ==
    ASSUME DeletionInv, [Next]_vars, cr.state \in SweptStates
    PROVE  cr'.state \in CleanupStates
<1>0. /\ TypeOK /\ cr \in CR /\ {"HostCleanup", "Finalized"} \subseteq CleanupStates
      /\ CleanupStates \subseteq States
  BY DEF DeletionInv, TypeOK, CleanupStates, States
<1>1. pc \notin ServiceSteps \cup InitSteps
  BY DEF DeletionInv, ServiceIsLive
<1>2. pc \notin {"disableRebalance", "markShuttingDown", "abortShutdown", "markShutdown",
        "markLB", "setURL", "markCreated", "checkReady", "enableRebalance", "markReady",
        "markUpgrading", "addFinalizer", "markInitialized"}
  BY <1>1 DEF ServiceSteps, InitSteps, Steps, DecommissionSteps, SweptSteps
<1>3. CASE UNCHANGED cr
  BY <1>0, <1>3
<1>4. CASE UserDeletes \/ UserFlipsShutdown \/ Finalize
  <2>1. cr'.state = cr.state
    BY <1>0, <1>4 DEF UserDeletes, UserFlipsShutdown, Finalize, CR
  <2> QED
    BY <1>0, <2>1
<1>5. CASE \E s \in CleanupStates : UpdateStatusWithState(s)
  BY <1>0, <1>5, UpdateEffect
<1>6. CASE \/ MarkDecommissioning \/ MarkCleanup \/ MarkJobsCreated
           \/ MarkHostCleanup \/ MarkFinalized
  BY <1>5, <1>6 DEF MarkDecommissioning, MarkCleanup, MarkJobsCreated, MarkHostCleanup,
     MarkFinalized, CleanupStates
<1>7. CASE \/ DisableRebalance \/ MarkShuttingDown \/ AbortShutdown \/ MarkShutdown
           \/ MarkLB \/ SetURL \/ MarkCreated \/ CheckAISClusterReady
           \/ EnableRebalanceCondition \/ HandleSuccessfulReconcile
           \/ UpdateStatusAndRequeue \/ AddFinalizer \/ MarkInitialized
  BY <1>2, <1>7 DEF DisableRebalance, MarkShuttingDown, AbortShutdown, MarkShutdown,
     MarkLB, SetURL, MarkCreated, CheckAISClusterReady, EnableRebalanceCondition,
     HandleSuccessfulReconcile, UpdateStatusAndRequeue, AddFinalizer, MarkInitialized
<1>8. CASE \/ StartReconcile \/ ForceConfig \/ ForceConfigUnreachable
           \/ \E k \in Kinds : \E at, next \in Steps :
                 ScaleDown(k, at, next) \/ AwaitDown(k, at, next)
           \/ DecommissionCluster \/ Cleanup \/ CreateJobs \/ CleanupHost
           \/ \E at, next \in Steps : EnsurePrereqs(at, next)
           \/ ReconcileExternalAccess \/ BootstrapNew \/ HandleProxyState
           \/ HandleTargetState \/ HandleConfigState \/ CRGone \/ Fail
  BY <1>3, <1>8 DEF StartReconcile, ForceConfig, ForceConfigUnreachable, ScaleDown,
     AwaitDown, DecommissionCluster, Cleanup, CreateJobs, CleanupHost, EnsurePrereqs,
     ReconcileExternalAccess, BootstrapNew, HandleProxyState, HandleTargetState,
     HandleConfigState, CRGone, Fail
<1>9. CASE \/ \E k \in Kinds : SyncStatefulSet(k) \/ Pods(k) \/ PodFails(k)
           \/ SyncCR \/ SyncJobs \/ LBAllocated \/ OwnedEvent
           \/ \E r \in Resources : Reclaimed(r)
           \/ \E h \in Hosts : JobDone(h) \/ JobRemoved(h)
           \/ UNCHANGED vars
  BY <1>3, <1>9 DEF SyncStatefulSet, Pods, PodCreated, PodReady, PodDeleted, DaemonStops,
     PodFails, SyncCR, SyncJobs, LBAllocated, OwnedEvent, Reclaimed, JobDone, JobRemoved,
     vars
<1>10. CASE ShutdownCluster
  <2>1. {"scaleProxies", "awaitProxies", "scaleTargets", "awaitTargets",
         "markShutdown"} \subseteq Steps /\ {"proxy", "target"} \subseteq Kinds
    BY DEF Steps, Kinds
  <2> QED
    BY <1>7, <1>8, <1>10, <2>1 DEF ShutdownCluster
<1>11. CASE EnsurePrereqs("prereqs", "externalAccess") \/ EnsurePrereqs("daemonPrereqs", "setURL")
  BY <1>8, <1>11 DEF Steps
<1> QED
  BY <1>4, <1>6, <1>7, <1>8, <1>9, <1>10, <1>11 DEF Next, OperatorStep

(* No step takes a CR from host cleanup back into service.                 *)
THEOREM NeverBackInService == Spec => NoReturnToService
<1>1. DeletionInv /\ [Next]_vars =>
        [cr.state \in {"HostCleanup", "Finalized"} => cr'.state \in CleanupStates]_cr
  BY SweptStaysCleanup
<1> QED
  BY <1>1, DeletionInvariant, PTL DEF Spec, NoReturnToService

-----------------------------------------------------------------------------
(* Every StatefulSet and every resource that is there stays there.         *)
Keeps ==
    /\ \A k \in Kinds : ss[k].exists => ss'[k].exists
    /\ \A r \in Resources : res[r] = "present" => res'[r] = "present"

(* Creating and scaling delete nothing.                                    *)
LEMMA CreateKeeps ==
    ASSUME TypeOK
    PROVE  /\ \A rs : res' = Created(rs) =>
                 \A r \in Resources : res[r] = "present" => res'[r] = "present"
           /\ \A k \in Kinds : \A n \in 0..Size :
                 UpdateReplicas(k, n) \/ UpdateReplicasFails(k, n) =>
                    \A j \in Kinds : ss[j].exists => ss'[j].exists
           /\ \A k \in Kinds : \A n \in 0..Size :
                 ss' = [ss EXCEPT ![k].exists = TRUE, ![k].replicas = n] =>
                    \A j \in Kinds : ss[j].exists => ss'[j].exists
<1>1. \A rs : res' = Created(rs) =>
         \A r \in Resources : res[r] = "present" => res'[r] = "present"
  BY DEF Created
<1>2. ss \in [Kinds -> StatefulSet]
  BY DEF TypeOK
<1>3. ASSUME NEW k \in Kinds, NEW n \in 0..Size, UpdateReplicas(k, n) \/ UpdateReplicasFails(k, n)
      PROVE  \A j \in Kinds : ss[j].exists => ss'[j].exists
  BY <1>2, <1>3 DEF UpdateReplicas, UpdateReplicasFails, StatefulSet
<1>4. ASSUME NEW k \in Kinds, NEW n \in 0..Size,
             ss' = [ss EXCEPT ![k].exists = TRUE, ![k].replicas = n]
      PROVE  \A j \in Kinds : ss[j].exists => ss'[j].exists
  <2> DEFINE g == [ss EXCEPT ![k].exists = TRUE]
  <2>1. g \in [Kinds -> StatefulSet] /\ \A j \in Kinds : ss[j].exists => g[j].exists
    BY <1>2 DEF StatefulSet
  <2>2. ss' = [g EXCEPT ![k].replicas = n]
    BY <1>4
  <2> HIDE DEF g
  <2>3. \A j \in Kinds : g[j].exists => ss'[j].exists
    BY <2>1, <2>2 DEF StatefulSet
  <2> QED
    BY <2>1, <2>3
<1> QED
  BY <1>1, <1>3, <1>4

(* The cleanup pass is the only step that deletes.                         *)
LEMMA OnlyCleanupDeletes ==
    ASSUME TypeOK, [Next]_vars, ~Cleanup
    PROVE  Keeps
<1>0. /\ ss \in [Kinds -> StatefulSet] /\ res \in [Resources -> ResourceState]
      /\ "proxy" \in Kinds /\ "target" \in Kinds
      /\ 0 \in 0..Size /\ 1 \in 0..Size /\ Size \in 0..Size
  BY SizeAssumption DEF TypeOK, Kinds
<1>1. CASE UNCHANGED <<ss, res>>
  BY <1>1 DEF Keeps
<1>2. ASSUME NEW k \in Kinds, NEW at, NEW next, ScaleDown(k, at, next) PROVE Keeps
  BY <1>0, <1>2, CreateKeeps DEF ScaleDown, Keeps
<1>3. ASSUME NEW at, NEW next, EnsurePrereqs(at, next) PROVE Keeps
  BY <1>3, CreateKeeps DEF EnsurePrereqs, Keeps
<1>4. CASE ReconcileExternalAccess
  BY <1>4, CreateKeeps DEF ReconcileExternalAccess, Keeps
<1>5. ASSUME NEW waiting, NEW next, InitProxies(waiting, next)
      PROVE  \A j \in Kinds : ss[j].exists => ss'[j].exists
  <2>1. CASE ~ss["proxy"].exists
    <3>1. ss' = [ss EXCEPT !["proxy"].exists = TRUE, !["proxy"].replicas = 1]
      BY <1>5, <2>1 DEF InitProxies
    <3> QED
      BY <1>0, <3>1, CreateKeeps
  <2>2. CASE ss["proxy"].exists
    <3>1. UNCHANGED ss \/ UpdateReplicas("proxy", Size) \/ UpdateReplicasFails("proxy", Size)
      BY <1>5, <2>2 DEF InitProxies
    <3> QED
      BY <1>0, <3>1, CreateKeeps
  <2> QED
    BY <2>1, <2>2
<1>6. ASSUME NEW waiting, NEW next, InitTargets(waiting, next)
      PROVE  \A j \in Kinds : ss[j].exists => ss'[j].exists
  <2>1. \/ UNCHANGED ss
        \/ ss' = [ss EXCEPT !["target"].exists = TRUE, !["target"].replicas = Size]
    BY <1>6 DEF InitTargets
  <2> QED
    BY <1>0, <2>1, CreateKeeps
<1>7. ASSUME NEW k \in Kinds, NEW next, HandleStatefulSet(k, next)
      PROVE  \A j \in Kinds : ss[j].exists => ss'[j].exists
  <2>1. UNCHANGED ss \/ UpdateReplicas(k, Size) \/ UpdateReplicasFails(k, Size)
    BY <1>7 DEF HandleStatefulSet
  <2> QED
    BY <1>0, <2>1, CreateKeeps
<1>8. CASE BootstrapNew
  <2>1. \A j \in Kinds : ss[j].exists => ss'[j].exists
    BY <1>5, <1>6, <1>8 DEF BootstrapNew
  <2> QED
    BY <1>8, <2>1 DEF BootstrapNew, Keeps
<1>9. CASE HandleProxyState
  <2>1. \A j \in Kinds : ss[j].exists => ss'[j].exists
    BY <1>0, <1>5, <1>7, <1>9 DEF HandleProxyState
  <2> QED
    BY <1>9, <2>1 DEF HandleProxyState, Keeps
<1>10. CASE HandleTargetState
  <2>1. \A j \in Kinds : ss[j].exists => ss'[j].exists
    BY <1>0, <1>6, <1>7, <1>10 DEF HandleTargetState
  <2>2. \A r \in Resources : res[r] = "present" => res'[r] = "present"
    BY <1>10, CreateKeeps DEF HandleTargetState
  <2> QED
    BY <2>1, <2>2 DEF Keeps
<1>11. ASSUME NEW k \in Kinds, Pods(k) \/ PodFails(k) PROVE Keeps
  <2>1. CASE PodCreated(k)
    BY <1>0, <2>1, CreateKeeps, ZenonT(60) DEF PodCreated, Keeps, StatefulSet
  <2>2. CASE PodReady(k) \/ PodDeleted(k) \/ DaemonStops(k) \/ PodFails(k)
    <3>1. UNCHANGED res /\ \A j \in Kinds : ss'[j].exists = ss[j].exists
      BY <1>0, <2>2 DEF PodReady, PodDeleted, DaemonStops, PodFails, StatefulSet
    <3> QED
      BY <3>1 DEF Keeps
  <2> QED
    BY <1>11, <2>1, <2>2 DEF Pods
<1>12. ASSUME NEW r \in Resources, Reclaimed(r) PROVE Keeps
  BY <1>0, <1>12 DEF Reclaimed, Keeps
<1>13. CASE \/ StartReconcile \/ AddFinalizer \/ MarkInitialized \/ MarkDecommissioning
            \/ DisableRebalance \/ ForceConfig \/ ForceConfigUnreachable
            \/ MarkShuttingDown \/ AbortShutdown \/ MarkShutdown
            \/ \E k \in Kinds : \E at, next \in Steps : AwaitDown(k, at, next)
            \/ DecommissionCluster \/ MarkCleanup \/ CreateJobs \/ MarkJobsCreated
            \/ MarkHostCleanup \/ CleanupHost \/ MarkFinalized \/ Finalize
  BY <1>1, <1>13 DEF StartReconcile, AddFinalizer, MarkInitialized, MarkDecommissioning,
     DisableRebalance, ForceConfig, ForceConfigUnreachable, MarkShuttingDown,
     AbortShutdown, MarkShutdown, AwaitDown, DecommissionCluster, MarkCleanup, CreateJobs,
     MarkJobsCreated, MarkHostCleanup, CleanupHost, MarkFinalized, Finalize, world
<1>14. CASE \/ MarkLB \/ SetURL \/ MarkCreated \/ CheckAISClusterReady
            \/ EnableRebalanceCondition \/ HandleConfigState \/ HandleSuccessfulReconcile
            \/ UpdateStatusAndRequeue \/ CRGone \/ Fail
  BY <1>1, <1>14 DEF MarkLB, SetURL, MarkCreated, CheckAISClusterReady,
     EnableRebalanceCondition, HandleConfigState, HandleSuccessfulReconcile,
     UpdateStatusAndRequeue, CRGone, Fail, world
<1>15. CASE \/ UserDeletes \/ UserFlipsShutdown \/ SyncCR \/ SyncJobs \/ LBAllocated
            \/ OwnedEvent \/ \E k \in Kinds : SyncStatefulSet(k)
            \/ \E h \in Hosts : JobDone(h) \/ JobRemoved(h)
            \/ UNCHANGED vars
  BY <1>1, <1>15 DEF UserDeletes, UserFlipsShutdown, SyncCR, SyncJobs, LBAllocated,
     OwnedEvent, SyncStatefulSet, JobDone, JobRemoved, vars, world
<1>16. CASE ShutdownCluster
  <2>1. {"scaleProxies", "awaitProxies", "scaleTargets", "awaitTargets",
         "markShutdown"} \subseteq Steps
    BY DEF Steps
  <2> QED
    BY <1>0, <1>2, <1>13, <1>16, <2>1 DEF ShutdownCluster
<1> QED
  BY <1>3, <1>4, <1>8, <1>9, <1>10, <1>11, <1>12, <1>13, <1>14, <1>15, <1>16
  DEF Next, OperatorStep

(* Nothing of a cluster is deleted before its user deleted the CR.         *)
THEOREM WantedIsKept == Spec => NothingDeletedWhileWanted
<1>1. DeletionInv /\ Cleanup => cr.deleting
  BY DEF DeletionInv, Cleanup, PointOfNoReturn, CopiesLag
<1>2. DeletionInv /\ [Next]_vars =>
        [(cr.exists /\ ~cr.deleting) =>
            /\ \A k \in Kinds : ss[k].exists => ss'[k].exists
            /\ \A r \in Resources : res[r] = "present" => res'[r] = "present"]_<<ss, res>>
  BY <1>1, OnlyCleanupDeletes DEF DeletionInv, Keeps
<1> QED
  BY <1>2, DeletionInvariant, PTL DEF Spec, NothingDeletedWhileWanted

-----------------------------------------------------------------------------
(***************************************************************************)
(* The controller of AISLifecycle keeps the promise of ClusterPromise, for *)
(* every size, set of nodes, options and bounds.  The inductive invariant  *)
(* DeletionInv says that no reconcile in service has a sweep behind it;    *)
(* what is added here is that a sweep, once it is for good, stays.         *)
(***************************************************************************)

(* What patchStatus leaves alone.                                          *)
LEMMA PatchKeepsCR ==
    ASSUME TypeOK, NEW a, PatchStatus(a)
    PROVE  cr'.exists = cr.exists /\ cr'.deleting = cr.deleting
<1> DEFINE id == cr.id \/ a.id
<1>1. cr' = [cr EXCEPT !.state = a.state, !.created = a.created,
             !.ready = a.ready, !.rebalance = a.rebalance, !.url = a.url, !.id = id]
  BY DEF PatchStatus
<1> HIDE DEF id
<1> QED
  BY <1>1 DEF TypeOK, CR

(* Only kubectl delete and finalize decide whether the CR is there and     *)
(* whether it is being deleted.                                            *)
LEMMA CRSteps ==
    ASSUME TypeOK, [Next]_vars
    PROVE  \/ cr'.exists = cr.exists /\ cr'.deleting = cr.deleting
           \/ UserDeletes
           \/ Finalize
<1> DEFINE Same == cr'.exists = cr.exists /\ cr'.deleting = cr.deleting
<1>1. CASE UNCHANGED cr
  BY <1>1
<1>2. ASSUME NEW a, PatchStatus(a) PROVE Same
  BY <1>2, PatchKeepsCR
<1>3. ASSUME NEW s, UpdateStatusWithState(s) PROVE Same
  BY <1>2, <1>3 DEF UpdateStatusWithState
<1>4. CASE AddFinalizer \/ UserFlipsShutdown
  BY <1>4 DEF AddFinalizer, UserFlipsShutdown, TypeOK, CR
<1>5. CASE \/ MarkInitialized \/ MarkDecommissioning \/ DisableRebalance
           \/ MarkShuttingDown \/ AbortShutdown \/ MarkShutdown \/ MarkCleanup
           \/ MarkJobsCreated \/ MarkHostCleanup \/ MarkFinalized \/ MarkLB
           \/ MarkCreated \/ UpdateStatusAndRequeue
  BY <1>2, <1>3, <1>5 DEF MarkInitialized, MarkDecommissioning, DisableRebalance,
     MarkShuttingDown, AbortShutdown, MarkShutdown, MarkCleanup, MarkJobsCreated,
     MarkHostCleanup, MarkFinalized, MarkLB, MarkCreated, UpdateStatusAndRequeue
<1>6. CASE \/ SetURL \/ CheckAISClusterReady \/ EnableRebalanceCondition
           \/ HandleSuccessfulReconcile
  BY <1>1, <1>2, <1>6 DEF SetURL, CheckAISClusterReady, EnableRebalanceCondition,
     HandleSuccessfulReconcile
<1>7. CASE \/ StartReconcile \/ ForceConfig \/ ForceConfigUnreachable
           \/ \E k \in Kinds : \E at, next \in Steps :
                 ScaleDown(k, at, next) \/ AwaitDown(k, at, next)
           \/ DecommissionCluster \/ Cleanup \/ CreateJobs \/ CleanupHost
           \/ EnsurePrereqs("prereqs", "externalAccess")
           \/ EnsurePrereqs("daemonPrereqs", "setURL")
           \/ ReconcileExternalAccess \/ BootstrapNew \/ HandleProxyState
           \/ HandleTargetState \/ HandleConfigState \/ CRGone \/ Fail
  BY <1>1, <1>7 DEF StartReconcile, ForceConfig, ForceConfigUnreachable, ScaleDown,
     AwaitDown, DecommissionCluster, Cleanup, CreateJobs, CleanupHost, EnsurePrereqs,
     ReconcileExternalAccess, BootstrapNew, HandleProxyState, HandleTargetState,
     HandleConfigState, CRGone, Fail
<1>8. CASE \/ \E k \in Kinds : SyncStatefulSet(k) \/ Pods(k) \/ PodFails(k)
           \/ SyncCR \/ SyncJobs \/ LBAllocated \/ OwnedEvent
           \/ \E r \in Resources : Reclaimed(r)
           \/ \E h \in Hosts : JobDone(h) \/ JobRemoved(h)
           \/ UNCHANGED vars
  BY <1>1, <1>8 DEF SyncStatefulSet, Pods, PodCreated, PodReady, PodDeleted, DaemonStops,
     PodFails, SyncCR, SyncJobs, LBAllocated, OwnedEvent, Reclaimed, JobDone, JobRemoved,
     vars
<1>9. CASE ShutdownCluster
  <2>1. {"scaleProxies", "awaitProxies", "scaleTargets", "awaitTargets",
         "markShutdown"} \subseteq Steps /\ {"proxy", "target"} \subseteq Kinds
    BY DEF Steps, Kinds
  <2> QED
    BY <1>5, <1>7, <1>9, <2>1 DEF ShutdownCluster
<1> QED
  BY <1>4, <1>5, <1>6, <1>7, <1>8, <1>9 DEF Next, OperatorStep

(* A step after which everything is swept has made no resource.            *)
LEMMA NothingMade ==
    ASSUME TypeOK, [Next]_vars, CleanupComplete'
    PROVE  \A r \in Resources : res'[r] = "present" => res[r] = "present"
<1> DEFINE Fewer == \A r \in Resources : res'[r] = "present" => res[r] = "present"
<1>0. /\ ss \in [Kinds -> StatefulSet] /\ res \in [Resources -> ResourceState]
      /\ \A r \in Resources \ {"pvcTarget", "pvcProxy"} : res'[r] # "present"
  BY DEF TypeOK, CleanupComplete, Disposable
<1>1. CASE UNCHANGED res
  BY <1>1
<1>2. ASSUME NEW rs \in SUBSET {"base", "lb", "pdb"}, res' = Created(rs) PROVE Fewer
  BY <1>0, <1>2 DEF Created
<1>3. ASSUME NEW at, NEW next, EnsurePrereqs(at, next) PROVE Fewer
  <2>1. res' = Created({"base"}) /\ {"base"} \in SUBSET {"base", "lb", "pdb"}
    BY <1>3 DEF EnsurePrereqs
  <2> QED
    BY <1>2, <2>1
<1>4. CASE ReconcileExternalAccess
  <2>1. UNCHANGED res \/ res' = Created({"lb"})
    BY <1>4 DEF ReconcileExternalAccess
  <2>2. {"lb"} \in SUBSET {"base", "lb", "pdb"}
    OBVIOUS
  <2> QED
    BY <1>1, <1>2, <2>1, <2>2
<1>5. CASE HandleTargetState
  <2> DEFINE rs == {"pdb"} \cup
        IF opts.externalLB /\ ssCached["target"].replicas < Size THEN {"lb"} ELSE {}
  <2>1. UNCHANGED res \/ res' = Created(rs)
    BY <1>5 DEF HandleTargetState
  <2>2. rs \in SUBSET {"base", "lb", "pdb"}
    OBVIOUS
  <2> HIDE DEF rs
  <2> QED
    BY <1>1, <1>2, <2>1, <2>2
<1>6. ASSUME NEW k \in Kinds, Pods(k) \/ PodFails(k) PROVE Fewer
  <2>1. ASSUME PodCreated(k) PROVE FALSE
    <3>1. ss'[k].exists
      BY <1>0, <2>1 DEF PodCreated, StatefulSet
    <3> QED
      BY <3>1 DEF CleanupComplete
  <2> QED
    BY <1>1, <1>6, <2>1 DEF Pods, PodReady, PodDeleted, DaemonStops, PodFails
<1>7. ASSUME NEW r \in Resources, Reclaimed(r) PROVE Fewer
  BY <1>0, <1>7 DEF Reclaimed
<1>8. CASE Cleanup
  BY <1>8, SweepEffect DEF Cleanup
<1>9. CASE \/ StartReconcile \/ AddFinalizer \/ MarkInitialized \/ MarkDecommissioning
           \/ DisableRebalance \/ ForceConfig \/ ForceConfigUnreachable
           \/ MarkShuttingDown \/ AbortShutdown \/ MarkShutdown
           \/ \E k \in Kinds : \E at, next \in Steps :
                 ScaleDown(k, at, next) \/ AwaitDown(k, at, next)
           \/ DecommissionCluster \/ MarkCleanup \/ CreateJobs \/ MarkJobsCreated
           \/ MarkHostCleanup \/ CleanupHost \/ MarkFinalized \/ Finalize
  BY <1>1, <1>9 DEF StartReconcile, AddFinalizer, MarkInitialized, MarkDecommissioning,
     DisableRebalance, ForceConfig, ForceConfigUnreachable, MarkShuttingDown,
     AbortShutdown, MarkShutdown, ScaleDown, AwaitDown, DecommissionCluster, MarkCleanup,
     CreateJobs, MarkJobsCreated, MarkHostCleanup, CleanupHost, MarkFinalized, Finalize,
     world
<1>10. CASE \/ MarkLB \/ SetURL \/ MarkCreated \/ BootstrapNew \/ HandleProxyState
            \/ CheckAISClusterReady \/ EnableRebalanceCondition \/ HandleConfigState
            \/ HandleSuccessfulReconcile \/ UpdateStatusAndRequeue \/ CRGone \/ Fail
  BY <1>1, <1>10 DEF MarkLB, SetURL, MarkCreated, BootstrapNew, HandleProxyState,
     CheckAISClusterReady, EnableRebalanceCondition, HandleConfigState,
     HandleSuccessfulReconcile, UpdateStatusAndRequeue, CRGone, Fail, world
<1>11. CASE \/ UserDeletes \/ UserFlipsShutdown \/ SyncCR \/ SyncJobs \/ LBAllocated
            \/ OwnedEvent \/ \E k \in Kinds : SyncStatefulSet(k)
            \/ \E h \in Hosts : JobDone(h) \/ JobRemoved(h)
            \/ UNCHANGED vars
  BY <1>1, <1>11 DEF UserDeletes, UserFlipsShutdown, SyncCR, SyncJobs, LBAllocated,
     OwnedEvent, SyncStatefulSet, JobDone, JobRemoved, vars, world
<1>12. CASE ShutdownCluster
  <2>1. {"scaleProxies", "awaitProxies", "scaleTargets", "awaitTargets",
         "markShutdown"} \subseteq Steps /\ {"proxy", "target"} \subseteq Kinds
    BY DEF Steps, Kinds
  <2> QED
    BY <1>9, <1>12, <2>1 DEF ShutdownCluster
<1> QED
  BY <1>3, <1>4, <1>5, <1>6, <1>7, <1>8, <1>9, <1>10, <1>11, <1>12 DEF Next, OperatorStep

(* The actions of service and of shutdown.                                 *)
ServiceAction ==
    \/ DisableRebalance \/ ForceConfig \/ ForceConfigUnreachable
    \/ MarkShuttingDown \/ AbortShutdown \/ ShutdownCluster
    \/ EnsurePrereqs("prereqs", "externalAccess")
    \/ ReconcileExternalAccess \/ MarkLB
    \/ EnsurePrereqs("daemonPrereqs", "setURL")
    \/ SetURL \/ BootstrapNew \/ MarkCreated
    \/ HandleProxyState \/ HandleTargetState \/ CheckAISClusterReady
    \/ EnableRebalanceCondition \/ HandleConfigState
    \/ HandleSuccessfulReconcile \/ UpdateStatusAndRequeue

(* They happen at the steps of service only.                               *)
LEMMA NotInService ==
    ASSUME pc \notin ServiceSteps
    PROVE  ~ServiceAction
<1>1. pc \notin {"disableRebalance", "forceConfig", "markShuttingDown", "abortShutdown",
        "scaleProxies", "awaitProxies", "scaleTargets", "awaitTargets", "markShutdown",
        "prereqs", "externalAccess", "markLB", "daemonPrereqs", "setURL", "initProxies",
        "initTargets", "markCreated", "handleProxies", "handleTargets", "checkReady",
        "enableRebalance", "syncConfig", "markReady", "markUpgrading"}
  BY DEF ServiceSteps, InitSteps, DecommissionSteps, SweptSteps, Steps
<1> QED
  BY <1>1 DEF ServiceAction, DisableRebalance, ForceConfig, ForceConfigUnreachable,
     MarkShuttingDown, AbortShutdown, ShutdownCluster, ScaleDown, AwaitDown, MarkShutdown,
     EnsurePrereqs, ReconcileExternalAccess, MarkLB, SetURL, BootstrapNew, MarkCreated,
     HandleProxyState, HandleTargetState, CheckAISClusterReady, EnableRebalanceCondition,
     HandleConfigState, HandleSuccessfulReconcile, UpdateStatusAndRequeue

(* A reconcile that started from a condemned CR goes nowhere near service. *)
LEMMA NoServiceAfterwards ==
    ASSUME DeletionInv, [Next]_vars, CacheCondemned, pc \notin ServiceSteps
    PROVE  pc' \notin ServiceSteps
<1> DEFINE Away ==
      {"idle", "cleanup", "addFinalizer", "markInitialized", "markDecommissioning",
       "decommission", "markCleanup", "createJobs", "markJobsCreated", "markHostCleanup",
       "cleanupHost", "markFinalized", "finalize"}
<1>0. /\ TypeOK /\ cr.deleting
      /\ \A s \in Away : s \notin ServiceSteps
      /\ {"markInitialized", "markDecommissioning"} \subseteq Steps
      /\ {"Initialized", "Decommissioning"} \subseteq States
  BY DEF DeletionInv, CopiesLag, CacheCondemned, ServiceSteps, InitSteps,
     DecommissionSteps, SweptSteps, Steps, States, CleanupStates
<1>1. CASE UNCHANGED pc
  BY <1>1
<1>2. CASE pc' \in Away
  BY <1>0, <1>2
<1>3. CASE StartReconcile
  <2>1. CASE pc' # "idle"
    <3>1. pc' = Route(cached)
      BY <1>3, <2>1 DEF StartReconcile, CacheCondemned
    <3>2. pc' \in Away \/ ~cached.deleting
      BY <3>1, RouteCases
    <3> QED
      BY <1>2, <3>2 DEF CacheCondemned
  <2> QED
    BY <1>2, <2>1
<1>4. CASE MarkInitialized
  <2>1. cr'.deleting /\ pc' = Route(cr')
    BY <1>0, <1>4, UpdateEffect DEF MarkInitialized, Goto
  <2>2. pc' \in Away
    BY <2>1, RouteCases
  <2> QED
    BY <1>2, <2>2
<1>5. CASE MarkDecommissioning
  <2>1. cr'.state = "Decommissioning" /\ pc' = Dispatch(cr')
    BY <1>0, <1>5, UpdateEffect DEF MarkDecommissioning, Goto
  <2>2. pc' \in Away
    BY <2>1 DEF Dispatch
  <2> QED
    BY <1>2, <2>2
<1>6. CASE \/ AddFinalizer \/ DecommissionCluster \/ MarkCleanup \/ Cleanup \/ CreateJobs
           \/ MarkJobsCreated \/ MarkHostCleanup \/ CleanupHost \/ MarkFinalized
           \/ Finalize \/ CRGone \/ Fail
  BY <1>2, <1>6 DEF AddFinalizer, DecommissionCluster, MarkCleanup, Cleanup, AfterSweep,
     CreateJobs, MarkJobsCreated, MarkHostCleanup, CleanupHost, MarkFinalized, Finalize,
     CRGone, Fail, Goto, Return
<1>7. CASE \/ UserDeletes \/ UserFlipsShutdown \/ SyncCR \/ SyncJobs \/ LBAllocated
           \/ OwnedEvent \/ \E k \in Kinds : SyncStatefulSet(k) \/ Pods(k) \/ PodFails(k)
           \/ \E r \in Resources : Reclaimed(r)
           \/ \E h \in Hosts : JobDone(h) \/ JobRemoved(h)
           \/ UNCHANGED vars
  BY <1>1, <1>7 DEF UserDeletes, UserFlipsShutdown, SyncCR, SyncJobs, LBAllocated,
     OwnedEvent, SyncStatefulSet, Pods, PodCreated, PodReady, PodDeleted, DaemonStops,
     PodFails, Reclaimed, JobDone, JobRemoved, vars, operator
<1> QED
  BY <1>3, <1>4, <1>5, <1>6, <1>7, NotInService DEF Next, OperatorStep, ServiceAction

(* What is swept stays swept unless a step of service makes something.     *)
LEMMA NothingRemade ==
    ASSUME DeletionInv, [Next]_vars, CleanupComplete, pc \notin ServiceSteps
    PROVE  CleanupComplete'
<1>0. /\ TypeOK /\ ss \in [Kinds -> StatefulSet] /\ res \in [Resources -> ResourceState]
      /\ \A k \in Kinds : ~ss[k].exists
  BY DEF DeletionInv, TypeOK, CleanupComplete
<1>1. CASE UNCHANGED <<opts, ss, res>>
  BY <1>1, SweptUnchanged
<1>2. CASE Cleanup
  BY <1>0, <1>2, SweepEffect, SweptStable DEF Cleanup
<1>3. CASE \/ StartReconcile \/ AddFinalizer \/ MarkInitialized \/ MarkDecommissioning
           \/ DecommissionCluster \/ MarkCleanup \/ CreateJobs
           \/ MarkJobsCreated \/ MarkHostCleanup \/ CleanupHost \/ MarkFinalized
           \/ Finalize \/ CRGone \/ Fail
  BY <1>1, <1>3 DEF StartReconcile, AddFinalizer, MarkInitialized, MarkDecommissioning,
     DecommissionCluster, MarkCleanup, CreateJobs, MarkJobsCreated, MarkHostCleanup,
     CleanupHost, MarkFinalized, Finalize, CRGone, Fail, world
<1>4. CASE \/ UserDeletes \/ UserFlipsShutdown \/ SyncCR \/ SyncJobs \/ LBAllocated
           \/ OwnedEvent \/ \E k \in Kinds : SyncStatefulSet(k)
           \/ \E h \in Hosts : JobDone(h) \/ JobRemoved(h)
           \/ UNCHANGED vars
  BY <1>1, <1>4 DEF UserDeletes, UserFlipsShutdown, SyncCR, SyncJobs, LBAllocated,
     OwnedEvent, SyncStatefulSet, JobDone, JobRemoved, vars, world
<1>5. ASSUME NEW k \in Kinds, Pods(k) \/ PodFails(k) PROVE CleanupComplete'
  <2>1. ~PodCreated(k)
    BY <1>0 DEF PodCreated
  <2>2. UNCHANGED <<opts, res>> /\ \A j \in Kinds : ss'[j].exists = ss[j].exists
    BY <1>0, <1>5, <2>1 DEF Pods, PodReady, PodDeleted, DaemonStops, PodFails, StatefulSet
  <2> QED
    BY <2>2, SweptStable
<1>6. ASSUME NEW r \in Resources, Reclaimed(r) PROVE CleanupComplete'
  <2>1. UNCHANGED <<opts, ss>> /\ \A q \in Resources : res'[q] = "present" => res[q] = "present"
    BY <1>0, <1>6 DEF Reclaimed
  <2> QED
    BY <2>1, SweptStable
<1> QED
  BY <1>2, <1>3, <1>4, <1>5, <1>6, NotInService DEF Next, OperatorStep, ServiceAction

(* The informer shows what it showed, or the CR as it is; the options of   *)
(* the spec do not change.                                                 *)
LEMMA CacheSteps ==
    ASSUME [Next]_vars
    PROVE  cached' \in {cached, cr} /\ opts' = opts
BY DEF Next, OperatorStep, StartReconcile, AddFinalizer, MarkInitialized,
   MarkDecommissioning, DisableRebalance, ForceConfig, ForceConfigUnreachable,
   MarkShuttingDown, AbortShutdown, ShutdownCluster, ScaleDown, AwaitDown, MarkShutdown,
   DecommissionCluster, MarkCleanup, Cleanup, CreateJobs, MarkJobsCreated,
   MarkHostCleanup, CleanupHost, MarkFinalized, Finalize, EnsurePrereqs,
   ReconcileExternalAccess, MarkLB, SetURL, BootstrapNew, MarkCreated, HandleProxyState,
   HandleTargetState, CheckAISClusterReady, EnableRebalanceCondition, HandleConfigState,
   HandleSuccessfulReconcile, UpdateStatusAndRequeue, CRGone, Fail, UserDeletes,
   UserFlipsShutdown, SyncCR, SyncJobs, LBAllocated, OwnedEvent, SyncStatefulSet, Pods,
   PodCreated, PodReady, PodDeleted, DaemonStops, PodFails, Reclaimed, JobDone,
   JobRemoved, vars

(* A sweep that is for good stays for good.                                *)
LEMMA SweptStays ==
    ASSUME DeletionInv, [Next]_vars, SweptForGood
    PROVE  SweptForGood'
<1>1. CacheCondemned /\ pc \notin ServiceSteps /\ CleanupComplete
  BY DEF SweptForGood
<1>2. CacheCondemned'
  <2>1. cr.deleting /\ cr.state # ""
    BY <1>1 DEF DeletionInv, CopiesLag, CacheCondemned
  <2>2. cached' = cached \/ cached' = cr
    BY CacheSteps
  <2> QED
    BY <1>1, <2>1, <2>2 DEF CacheCondemned
<1> QED
  BY <1>1, <1>2, NoServiceAfterwards, NothingRemade DEF SweptForGood

-----------------------------------------------------------------------------
(* The objects in the words of ClusterPromise.                             *)
LEMMA ExistingFacts ==
    /\ Existing \subseteq Kinds \cup Resources
    /\ CleanupComplete => Existing \subseteq Resources \ Disposable
    /\ Existing \cap (Resources \ Disposable) =
          {r \in Resources \ Disposable : res[r] = "present"}
<1>1. \A k \in Kinds : k \notin Resources
  BY DEF Kinds, Resources
<1> QED
  BY <1>1 DEF Existing, CleanupComplete

(* One pass of cleanup deletes objects, but none that is to be kept.       *)
LEMMA CleanupDismantles ==
    ASSUME TypeOK, Cleanup
    PROVE  /\ Existing' \subseteq Existing
           /\ Existing \cap (Resources \ Disposable) \subseteq Existing'
<1> PICK n \in 0..Len(CleanupOrder) : res' = SweptResources(n) /\ ss' = SweptStatefulSets(n)
  BY DEF Cleanup
<1>1. Existing' \subseteq Existing
  BY SweepEffect DEF Existing
<1>2. \A r \in Resources \ Disposable : r \notin Swept(n) /\ res'[r] = res[r]
  BY DEF Swept, Disposable, SweptResources
<1>3. Existing \cap (Resources \ Disposable) \subseteq Existing'
  BY <1>2, ExistingFacts DEF Existing
<1> QED
  BY <1>1, <1>3

(* The initial states are initial states of ClusterPromise.                *)
LEMMA PromiseInit == Init => Promise!Init
<1> SUFFICES ASSUME Init PROVE Promise!Init
  OBVIOUS
<1>1. cr.exists /\ ~cr.deleting /\ ~cached.deleting
  BY DEF Init, NewCR
<1>2. Phase = "wanted"
  BY <1>1 DEF Phase, SweptForGood, CacheCondemned
<1> QED
  BY <1>2, ExistingFacts DEF Promise!Init

(* Every step is a step of ClusterPromise, or changes nothing of it.       *)
LEMMA PromiseStep == DeletionInv /\ DeletionInv' /\ [Next]_vars => [Promise!Next]_(Promise!vars)
<1> SUFFICES ASSUME DeletionInv, DeletionInv', [Next]_vars PROVE [Promise!Next]_(Promise!vars)
  OBVIOUS
<1> DEFINE Keep == Resources \ Disposable
<1>0. /\ TypeOK /\ opts' = opts /\ Keep' = Keep
      /\ Existing' \subseteq Kinds \cup Resources
      /\ CleanupComplete => Existing \subseteq Keep
      /\ CleanupComplete' => Existing' \subseteq Keep
  <2>1. opts' = opts
    BY CacheSteps
  <2>2. Keep' = Keep
    BY <2>1 DEF Disposable
  <2>3. /\ Existing' \subseteq Kinds \cup Resources
        /\ CleanupComplete' => Existing' \subseteq Keep'
    BY DEF Existing, CleanupComplete
  <2> QED
    BY <2>1, <2>2, <2>3, ExistingFacts DEF DeletionInv
<1>1. CleanupComplete' => Existing' \subseteq Existing
  BY <1>0, NothingMade DEF Existing, CleanupComplete
<1>2. ~Cleanup => Existing \subseteq Existing'
  BY <1>0, OnlyCleanupDeletes DEF Keeps, Existing
<1>3. /\ Cleanup => Existing' \subseteq Existing /\ Existing \cap Keep \subseteq Existing'
      /\ Cleanup => cr' = cr /\ cr.deleting
  BY <1>0, CleanupDismantles DEF DeletionInv, Cleanup, PointOfNoReturn, CopiesLag,
     CacheCondemned
<1>4. CleanupComplete /\ CleanupComplete' => Existing' = Existing
  BY <1>0, <1>1, <1>2, <1>3
<1>5. Finalize => SweptForGood /\ cr.deleting
  BY DEF DeletionInv, Finalize, SweepStands, PointOfNoReturn, CopiesLag, SweptForGood,
     CacheCondemned, SweptSteps, ServiceSteps
<1>6. /\ \/ Phase' \in {"gone", "swept", "condemned"} /\ cr'.deleting
         \/ Phase' \in {"gone", "wanted"} /\ ~cr'.deleting
      /\ cr'.exists <=> Phase' # "gone"
      /\ Phase' = "swept" => CleanupComplete'
  <2>1. SweptForGood' => cr'.deleting /\ CleanupComplete'
    BY DEF DeletionInv, CopiesLag, SweptForGood, CacheCondemned
  <2> QED
    BY <2>1 DEF Phase
<1>7. CASE ~cr.exists
  <2>1. Phase = "gone" /\ CleanupComplete
    BY <1>7 DEF Phase, DeletionInv, PointOfNoReturn, SweepStands
  <2>2. ~cr'.exists
    BY <1>0, <1>7, CRSteps DEF UserDeletes, Finalize, TypeOK, CR
  <2>3. Phase' = "gone" /\ CleanupComplete'
    BY <2>2 DEF Phase, DeletionInv, PointOfNoReturn, SweepStands
  <2> QED
    BY <1>0, <1>4, <2>1, <2>3 DEF Promise!vars
<1>8. CASE cr.exists /\ SweptForGood
  <2>1. Phase = "swept" /\ CleanupComplete
    BY <1>8 DEF Phase, SweptForGood
  <2>2. SweptForGood'
    BY <1>8, SweptStays
  <2>3. Phase' \in {"gone", "swept"} /\ CleanupComplete'
    BY <2>2 DEF Phase, SweptForGood
  <2> QED
    BY <1>0, <1>4, <2>1, <2>3 DEF Promise!vars, Promise!Next, Promise!Release
<1>9. CASE cr.exists /\ ~SweptForGood /\ cr.deleting
  <2>1. Phase = "condemned"
    BY <1>9 DEF Phase
  <2>2. cr'.exists /\ cr'.deleting
    BY <1>0, <1>5, <1>9, CRSteps DEF UserDeletes
  <2>3. Phase' \in {"swept", "condemned"}
    BY <1>6, <2>2
  <2>4. CASE Cleanup \/ Phase' = "swept"
    <3>1. /\ Existing' \subseteq Existing /\ Existing \cap Keep \subseteq Existing'
          /\ Phase' = "swept" => Existing' \subseteq Keep
      BY <1>0, <1>1, <1>2, <1>3, <1>6, <2>4
    <3> QED
      BY <1>0, <2>1, <2>3, <3>1 DEF Promise!Next, Promise!Dismantle
  <2>5. CASE ~Cleanup /\ Phase' = "condemned"
    BY <1>0, <1>2, <2>1, <2>5 DEF Promise!Next, Promise!Provision
  <2> QED
    BY <2>3, <2>4, <2>5
<1>10. CASE cr.exists /\ ~SweptForGood /\ ~cr.deleting
  <2>1. Phase = "wanted" /\ ~Cleanup /\ ~Finalize
    BY <1>3, <1>5, <1>10 DEF Phase
  <2>2. CASE UserDeletes
    <3>1. Existing' = Existing /\ cached' = cached
      BY <2>2 DEF UserDeletes, Existing, world
    <3>2. CASE cr.finalizer
      <4>1. cr'.exists /\ cr'.deleting
        BY <1>0, <2>2, <3>2 DEF UserDeletes, TypeOK, CR
      <4>2. ~SweptForGood'
        BY <1>10, <3>1 DEF DeletionInv, CopiesLag, SweptForGood, CacheCondemned
      <4>3. Phase' = "condemned"
        BY <4>1, <4>2 DEF Phase
      <4> QED
        BY <1>0, <2>1, <3>1, <4>3 DEF Promise!Next, Promise!Condemn
    <3>3. CASE ~cr.finalizer
      <4>1. Phase' = "gone"
        BY <1>0, <2>2, <3>3 DEF UserDeletes, TypeOK, CR, Phase
      <4>2. Existing \subseteq Keep
        BY <1>0, <3>3 DEF DeletionInv, SweepStands
      <4> QED
        BY <1>0, <2>1, <3>1, <4>1, <4>2 DEF Promise!Next, Promise!Release
    <3> QED
      BY <3>2, <3>3
  <2>3. CASE ~UserDeletes
    <3>1. cr'.exists /\ ~cr'.deleting
      BY <1>0, <1>10, <2>1, <2>3, CRSteps
    <3>2. Phase' = "wanted"
      BY <1>6, <3>1
    <3> QED
      BY <1>0, <1>2, <2>1, <3>2 DEF Promise!Next, Promise!Provision
  <2> QED
    BY <2>2, <2>3
<1> QED
  BY <1>7, <1>8, <1>9, <1>10

(* The controller implements ClusterPromise.                               *)
THEOREM KeepsPromise == Spec => Implements
<1> QED
  BY PromiseInit, PromiseStep, DeletionInvariant, PTL DEF Spec, Implements, Promise!Spec
=============================================================================
