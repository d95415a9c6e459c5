--------------------------- MODULE AutoscalingProofs ---------------------------
(***************************************************************************)
(* Proofs about Autoscaling, for any number of nodes, every configuration  *)
(* and any sequence of node changes, crashes and faults: the types, with   *)
(* the size between none and all of the nodes, and that a disruption       *)
(* within the budget defers a scale-down.                                  *)
(***************************************************************************)
EXTENDS Autoscaling, TLAPS, FiniteSetTheorems

Recs == [at : {"idle", "state", "confirm", "resize"}, nodes : SUBSET Nodes, ss : StatefulSets]
Bounds == {"nodes", "crashes", "faults"}
PodNews == [exists : BOOLEAN, node : Nodes \cup {NoNode}]

(***************************************************************************)
(* Sizes.                                                                  *)
(***************************************************************************)
LEMMA NodeCount ==
    /\ Cardinality(Nodes) \in Nat
    /\ \A S \in SUBSET Nodes : Cardinality(S) \in 0..Cardinality(Nodes)
<1>1. IsFiniteSet(Nodes)
  BY AutoscalingBoundsAssumption
<1>2. Cardinality(Nodes) \in Nat
  BY <1>1, FS_CardinalityType
<1>3. ASSUME NEW S \in SUBSET Nodes PROVE Cardinality(S) \in 0..Cardinality(Nodes)
  <2>1. IsFiniteSet(S) /\ Cardinality(S) <= Cardinality(Nodes)
    BY <1>1, FS_Subset
  <2>2. Cardinality(S) \in Nat
    BY <2>1, FS_CardinalityType
  <2> QED
    BY <1>2, <2>1, <2>2
<1> QED
  BY <1>2, <1>3

(* As many pods as there are nodes at most.                                *)
LEMMA PodCount == \A S \in SUBSET Ordinals : Cardinality(S) \in 0..Cardinality(Nodes)
<1> SUFFICES ASSUME NEW S \in SUBSET Ordinals
             PROVE  Cardinality(S) \in 0..Cardinality(Nodes)
  OBVIOUS
<1> DEFINE c == Cardinality(Nodes)
<1>1. c \in Nat
  BY NodeCount
<1> HIDE DEF c
<1>2. Ordinals = 0..(c - 1)
  BY DEF Ordinals, c
<1>3. IsFiniteSet(0..(c - 1)) /\ Cardinality(0..(c - 1)) = IF 0 > c - 1 THEN 0 ELSE (c - 1) - 0 + 1
  BY <1>1, FS_Interval
<1>4. Cardinality(0..(c - 1)) = c
  BY <1>1, <1>3
<1>5. IsFiniteSet(S) /\ Cardinality(S) <= Cardinality(0..(c - 1))
  BY <1>2, <1>3, FS_Subset
<1>6. Cardinality(S) \in Nat
  BY <1>5, FS_CardinalityType
<1>7. Cardinality(S) \in 0..c
  BY <1>1, <1>4, <1>5, <1>6
<1> QED
  BY <1>7 DEF c

LEMMA OneLimit ==
    ASSUME conf \in Configs, NEW l \in conf.limit, NEW k \in conf.limit
    PROVE  l = k /\ l \in Nat
<1>1. IsFiniteSet(conf.limit) /\ Cardinality(conf.limit) <= 1 /\ conf.limit \subseteq Nat
  BY AutoscalingBoundsAssumption
<1>2. Cardinality(conf.limit) \in Nat
  BY <1>1, FS_CardinalityType
<1>3. Cardinality(conf.limit) # 0
  BY <1>1, FS_EmptySet
<1>4. Cardinality(conf.limit) = 1
  BY <1>1, <1>2, <1>3
<1>5. PICK x : conf.limit = {x}
  BY <1>1, <1>4, FS_Singleton
<1> QED
  BY <1>1, <1>5

(* A limit only lowers the size, which is never more than the nodes.       *)
LEMMA SizeType ==
    ASSUME conf \in Configs, NEW S \in SUBSET Nodes
    PROVE  Size(S) \in 0..Cardinality(Nodes)
<1>1. Cardinality(S) \in 0..Cardinality(Nodes) /\ Cardinality(Nodes) \in Nat
  BY NodeCount
<1>2. CASE ~conf.auto
  <2>1. FixedSize \in 1..Cardinality(Nodes)
    BY AutoscalingBoundsAssumption
  <2> QED
    BY <1>1, <1>2, <2>1 DEF Size
<1>3. CASE conf.auto /\ \E l \in conf.limit : l < Cardinality(S)
  <2>1. PICK l \in conf.limit : l < Cardinality(S)
    BY <1>3
  <2>2. (CHOOSE k \in conf.limit : TRUE) \in conf.limit
    OBVIOUS
  <2>3. (CHOOSE k \in conf.limit : TRUE) = l /\ l \in Nat
    BY <2>2, OneLimit
  <2>4. Size(S) = l
    BY <1>3, <2>1, <2>3 DEF Size
  <2> QED
    BY <1>1, <2>1, <2>3, <2>4
<1>4. CASE conf.auto /\ ~\E l \in conf.limit : l < Cardinality(S)
  BY <1>1, <1>4 DEF Size
<1> QED
  BY <1>2, <1>3, <1>4

(***************************************************************************)
(* The parts of the type invariant.                                        *)
(***************************************************************************)
NodePart ==
    /\ conf \in Configs /\ wake \in BOOLEAN /\ budget \in BOOLEAN
    /\ node \in [Nodes -> NodeStates] /\ nodeSeen \in [Nodes -> NodeStates]
    /\ left \in [Bounds -> Nat] /\ \A x \in Bounds : left[x] <= conf.bounds[x]

PodPart == pod \in [Ordinals -> Pods] /\ podSeen \in [Ordinals -> PodNews]

SetPart == ss \in StatefulSets /\ ssSeen \in StatefulSets /\ rec \in Recs

CRPart == {expected, expSeen, cert} \subseteq SUBSET Nodes

LEMMA TypeParts == TypeOK <=> NodePart /\ PodPart /\ SetPart /\ CRPart
BY DEF TypeOK, NodePart, PodPart, SetPart, CRPart, Recs, Bounds, PodNews

LEMMA IdleType == Idle \in Recs
<1>1. 0 \in 0..Cardinality(Nodes)
  BY NodeCount
<1>2. NoStatefulSet \in StatefulSets
  BY <1>1 DEF NoStatefulSet, StatefulSets
<1> QED
  BY <1>2 DEF Idle, Recs

LEMMA NoPodType == NoPod \in Pods
BY DEF NoPod, Pods

(* A pod is on a node, or on none.                                         *)
LEMMA PodNode == \A p \in Pods : p.node \in Nodes \cup {NoNode} /\ AsSeen(p) \in PodNews
BY DEF Pods, AsSeen, PodNews

LEMMA ExpectedType ==
    ASSUME PodPart
    PROVE  ExpectedNodes \subseteq Nodes
<1>1. NodesRunningPods(pod) \subseteq Nodes
  BY PodNode DEF PodPart, NodesRunningPods
<1> QED
  BY <1>1 DEF ExpectedNodes, MatchingNodes

LEMMA TypeInit == Init => TypeOK
<1> SUFFICES ASSUME Init PROVE TypeOK
  OBVIOUS
<1>1. conf \in Configs /\ conf.bounds \in [Bounds -> Nat]
  BY AutoscalingBoundsAssumption DEF Init, Bounds
<1>2. NodePart
  <2>1. left = conf.bounds /\ \A x \in Bounds : left[x] <= conf.bounds[x]
    BY <1>1 DEF Init
  <2> QED
    BY <1>1, <2>1 DEF Init, NodePart, NodeStates
<1>3. Size(Nodes) \in 0..Cardinality(Nodes)
  BY <1>1, SizeType
<1>4. PodPart
  <2> DEFINE size == Size(Nodes)
  <2>1. pod = [i \in Ordinals |-> IF i < size THEN [phase |-> "ready", node |-> NodeAt[i]] ELSE NoPod]
    BY DEF Init
  <2>2. \A i \in Ordinals : [phase |-> "ready", node |-> NodeAt[i]] \in Pods
    <3>1. NodeAt \in [Ordinals -> Nodes]
      BY AutoscalingBoundsAssumption DEF Ordinals
    <3> QED
      BY <3>1 DEF Pods
  <2> HIDE DEF size
  <2>3. pod \in [Ordinals -> Pods]
    BY <2>1, <2>2, NoPodType
  <2>4. podSeen = [i \in Ordinals |-> AsSeen(pod[i])]
    BY DEF Init
  <2> QED
    BY <2>3, <2>4, PodNode DEF PodPart
<1>5. SetPart
  <2>1. ss = [spec |-> Size(Nodes), observed |-> TRUE, count |-> Size(Nodes), ready |-> Size(Nodes)]
    BY DEF Init
  <2>2. ss \in StatefulSets
    BY <1>3, <2>1 DEF StatefulSets
  <2> QED
    BY <2>2, IdleType DEF Init, SetPart
<1>6. CRPart
  BY DEF Init, CRPart
<1> QED
  BY <1>2, <1>4, <1>5, <1>6, TypeParts

(***************************************************************************)
(* The types after a step.                                                 *)
(***************************************************************************)
LEMMA LeftStep ==
    ASSUME NodePart, NEW x \in Bounds, left[x] > 0, left' = [left EXCEPT ![x] = @ - 1]
    PROVE  left' \in [Bounds -> Nat] /\ \A y \in Bounds : left'[y] <= conf.bounds[y]
<1>1. left[x] \in Nat /\ left[x] - 1 \in Nat
  BY DEF NodePart
<1>2. left' \in [Bounds -> Nat]
  BY <1>1 DEF NodePart
<1>3. ASSUME NEW y \in Bounds PROVE left'[y] <= conf.bounds[y]
  <2>1. conf.bounds[y] \in Nat /\ left[y] \in Nat /\ left[y] <= conf.bounds[y]
    BY AutoscalingBoundsAssumption DEF NodePart, Bounds
  <2>2. left'[y] = IF y = x THEN left[y] - 1 ELSE left[y]
    BY DEF NodePart
  <2> QED
    BY <2>1, <2>2
<1> QED
  BY <1>2, <1>3

LEMMA NodeStep ==
    ASSUME TypeOK, [Next]_vars
    PROVE  NodePart'
<1>0. NodePart
  BY TypeParts
<1>1. UNCHANGED conf
  BY DEF Next, Reconcile, DetermineAutoScaleStatus, HandleState, Confirm, Resize, Fail, Sync,
         SyncNode, SyncPod, SyncStatefulSet, SyncCR, UpdateStatus, Kubernetes, CreatePod,
         DeletePod, Schedule, PodReady, Evict, PodCrashes, SetPod, NodeChanges, vars
<1>2. wake' \in BOOLEAN /\ budget' \in BOOLEAN
  BY <1>0 DEF NodePart, Next, Reconcile, DetermineAutoScaleStatus, HandleState, Confirm, Resize,
         Fail, Sync, SyncNode, SyncPod, SyncStatefulSet, SyncCR, UpdateStatus, Kubernetes,
         CreatePod, DeletePod, Schedule, PodReady, Evict, PodCrashes, SetPod, NodeChanges,
         Return, WithinBudget, vars
<1>3. node' \in [Nodes -> NodeStates]
  <2>1. node' = node \/ \E n \in Nodes, s \in NodeStates : node' = [node EXCEPT ![n] = s]
    BY AutoscalingBoundsAssumption
       DEF Next, Reconcile, DetermineAutoScaleStatus, HandleState, Confirm, Resize, Fail, Sync,
           SyncNode, SyncPod, SyncStatefulSet, SyncCR, UpdateStatus, Kubernetes, CreatePod,
           DeletePod, Schedule, PodReady, Evict, PodCrashes, SetPod, NodeChanges, vars, nodeVars
  <2> QED
    BY <1>0, <2>1 DEF NodePart
<1>4. nodeSeen' \in [Nodes -> NodeStates]
  <2>1. nodeSeen' = nodeSeen \/ \E n \in Nodes : nodeSeen' = [nodeSeen EXCEPT ![n] = node[n]]
    BY DEF Next, Reconcile, DetermineAutoScaleStatus, HandleState, Confirm, Resize, Fail, Sync,
           SyncNode, SyncPod, SyncStatefulSet, SyncCR, UpdateStatus, Kubernetes, CreatePod,
           DeletePod, Schedule, PodReady, Evict, PodCrashes, SetPod, NodeChanges, vars, nodeVars
  <2> QED
    BY <1>0, <2>1 DEF NodePart
<1>5. left' \in [Bounds -> Nat] /\ \A y \in Bounds : left'[y] <= conf.bounds[y]
  <2>1. \/ left' = left
        \/ \E x \in Bounds : left[x] > 0 /\ left' = [left EXCEPT ![x] = @ - 1]
    BY DEF Next, Reconcile, DetermineAutoScaleStatus, HandleState, Confirm, Resize, Fail, Sync,
           SyncNode, SyncPod, SyncStatefulSet, SyncCR, UpdateStatus, Kubernetes, CreatePod,
           DeletePod, Schedule, PodReady, Evict, PodCrashes, SetPod, NodeChanges, vars, Bounds
  <2> QED
    BY <1>0, <2>1, LeftStep DEF NodePart
<1> QED
  BY <1>0, <1>1, <1>2, <1>3, <1>4, <1>5 DEF NodePart

LEMMA PodStep ==
    ASSUME TypeOK, [Next]_vars
    PROVE  PodPart'
<1>0. PodPart
  BY TypeParts
<1>1. ASSUME NEW i \in Ordinals, NEW p \in Pods, SetPod(i, p)
      PROVE  PodPart'
  BY <1>0, <1>1 DEF SetPod, PodPart
<1>2. ASSUME NEW i \in Ordinals, SyncPod(i)
      PROVE  PodPart'
  <2>1. AsSeen(pod[i]) \in PodNews
    BY <1>0, PodNode DEF PodPart
  <2> QED
    BY <1>0, <1>2, <2>1 DEF SyncPod, PodPart
<1>3. ASSUME NEW i \in Ordinals, Kubernetes(i) \/ PodCrashes(i)
      PROVE  PodPart'
  <2>1. [phase |-> "pending", node |-> NoNode] \in Pods
    BY DEF Pods
  <2>2. \A n \in Nodes : [phase |-> "ready", node |-> n] \in Pods
    BY DEF Pods
  <2>3. /\ pod[i].phase = "unready" => [pod[i] EXCEPT !.phase = "ready"] \in Pods
        /\ pod[i].phase = "ready" => [pod[i] EXCEPT !.phase = "unready"] \in Pods
    <3>1. pod[i] \in Pods
      BY <1>0 DEF PodPart
    <3> QED
      BY <3>1 DEF Pods
  <2>4. \E p \in Pods : SetPod(i, p)
    BY <1>3, <2>1, <2>2, <2>3, NoPodType
       DEF Kubernetes, CreatePod, DeletePod, Schedule, PodReady, Evict, PodCrashes
  <2> QED
    BY <1>1, <2>4
<1>4. CASE UNCHANGED podVars
  BY <1>0, <1>4 DEF PodPart, podVars
<1>5. CASE \/ Reconcile \/ Fail \/ UpdateStatus \/ SyncStatefulSet \/ SyncCR
           \/ (\E n \in Nodes : SyncNode(n)) \/ (\E n \in Fickle : NodeChanges(n))
  <2>1. UNCHANGED podVars
    BY <1>5 DEF Reconcile, DetermineAutoScaleStatus, HandleState, Confirm, Resize, Fail,
         SyncNode, SyncStatefulSet, SyncCR, UpdateStatus, NodeChanges, podVars
  <2> QED
    BY <1>4, <2>1
<1>6. CASE UNCHANGED vars
  BY <1>4, <1>6 DEF vars, podVars
<1> QED
  BY <1>2, <1>3, <1>5, <1>6 DEF Next, Sync

LEMMA StatusType ==
    ASSUME NEW s \in StatefulSets
    PROVE  StatusOf(s, pod) \in StatefulSets /\ StatusOf(s, pod).spec = s.spec
<1> DEFINE c == Cardinality({i \in Ordinals : pod[i] # NoPod})
           r == Cardinality({i \in Ordinals : pod[i].phase = "ready"})
<1>1. c \in 0..Cardinality(Nodes) /\ r \in 0..Cardinality(Nodes)
  BY PodCount
<1>2. StatusOf(s, pod) = [s EXCEPT !.observed = TRUE, !.count = c, !.ready = r]
  BY DEF StatusOf
<1> HIDE DEF c, r
<1> QED
  BY <1>1, <1>2 DEF StatefulSets

LEMMA ResizeType ==
    ASSUME NEW s \in StatefulSets, NEW n \in 0..Cardinality(Nodes)
    PROVE  LET t == [s EXCEPT !.spec = n, !.observed = FALSE]
           IN  t \in StatefulSets /\ t.spec = n
BY DEF StatefulSets

(* What a step makes of the StatefulSet.                                   *)
LEMMA SetMoves ==
    ASSUME TypeOK, [Next]_vars
    PROVE  \/ UNCHANGED ss
           \/ UpdateStatus /\ ss'.spec = ss.spec
           \/ Resize /\ ss'.spec = Size(rec.nodes)
<1>0. conf \in Configs /\ ss \in StatefulSets /\ rec.nodes \in SUBSET Nodes
  BY TypeParts DEF NodePart, SetPart, Recs
<1>1. CASE UpdateStatus
  BY <1>0, <1>1, StatusType DEF UpdateStatus
<1>2. CASE Resize
  <2>1. Size(rec.nodes) \in 0..Cardinality(Nodes)
    BY <1>0, SizeType
  <2> QED
    BY <1>0, <1>2, <2>1, ResizeType DEF Resize
<1>3. CASE ~UpdateStatus /\ ~Resize
  BY <1>3 DEF Next, Reconcile, DetermineAutoScaleStatus, HandleState, Confirm, Fail, Sync,
         SyncNode, SyncPod, SyncStatefulSet, SyncCR, Kubernetes, CreatePod, DeletePod, Schedule,
         PodReady, Evict, PodCrashes, SetPod, NodeChanges, vars, ssVars
<1> QED
  BY <1>1, <1>2, <1>3

LEMMA SetStep ==
    ASSUME TypeOK, [Next]_vars
    PROVE  SetPart'
<1>0. /\ conf \in Configs /\ ss \in StatefulSets /\ ssSeen \in StatefulSets /\ rec \in Recs
      /\ rec.nodes \in SUBSET Nodes /\ PodPart /\ CRPart
  BY TypeParts DEF NodePart, SetPart, Recs
<1>1. ss' \in StatefulSets
  <2>1. CASE UpdateStatus
    BY <1>0, <2>1, StatusType DEF UpdateStatus
  <2>2. CASE Resize
    <3>1. Size(rec.nodes) \in 0..Cardinality(Nodes)
      BY <1>0, SizeType
    <3> QED
      BY <1>0, <2>2, <3>1, ResizeType DEF Resize
  <2> QED
    BY <1>0, <2>1, <2>2, SetMoves
<1>2. ssSeen' \in StatefulSets
  <2>1. ssSeen' = ssSeen \/ ssSeen' = ss
    BY DEF Next, Reconcile, DetermineAutoScaleStatus, HandleState, Confirm, Resize, Fail, Sync,
           SyncNode, SyncPod, SyncStatefulSet, SyncCR, UpdateStatus, Kubernetes, CreatePod,
           DeletePod, Schedule, PodReady, Evict, PodCrashes, SetPod, NodeChanges, vars, ssVars
  <2> QED
    BY <1>0, <2>1
<1>3. rec' \in Recs
  <2>1. CASE DetermineAutoScaleStatus
    <3>1. PICK nodes \in SUBSET Nodes : rec' = [rec EXCEPT !.at = "state", !.nodes = nodes]
      BY <1>0, <2>1, ExpectedType DEF DetermineAutoScaleStatus, CRPart
    <3> QED
      BY <1>0, <3>1 DEF Recs
  <2>2. CASE rec' = [rec EXCEPT !.at = "confirm", !.ss = ssSeen]
    BY <1>0, <2>2 DEF Recs
  <2>3. CASE rec' = [rec EXCEPT !.at = "resize"]
    BY <1>0, <2>3 DEF Recs
  <2>4. CASE rec' \in {rec, Idle}
    BY <1>0, <2>4, IdleType
  <2> QED
    BY <2>1, <2>2, <2>3, <2>4
       DEF Next, Reconcile, HandleState, Confirm, Resize, Fail, Return, Sync,
           SyncNode, SyncPod, SyncStatefulSet, SyncCR, UpdateStatus, Kubernetes, CreatePod,
           DeletePod, Schedule, PodReady, Evict, PodCrashes, SetPod, NodeChanges, vars
<1> QED
  BY <1>1, <1>2, <1>3 DEF SetPart

LEMMA CRStep ==
    ASSUME TypeOK, [Next]_vars
    PROVE  CRPart'
<1>0. CRPart /\ PodPart /\ rec.nodes \subseteq Nodes /\ nodeSeen \in [Nodes -> NodeStates]
  BY TypeParts DEF SetPart, Recs, NodePart
<1>1. CASE DetermineAutoScaleStatus
  BY <1>0, <1>1, ExpectedType DEF DetermineAutoScaleStatus, CRPart
<1>2. CASE HandleState
  <2>1. PublicNetHosts(rec.nodes) \subseteq Nodes
    BY <1>0 DEF PublicNetHosts, MatchingNodes
  <2> QED
    BY <1>0, <1>2, <2>1 DEF HandleState, CRPart, crVars
<1>3. CASE SyncCR
  BY <1>0, <1>3 DEF SyncCR, CRPart
<1>4. CASE UNCHANGED <<expected, expSeen, cert>>
  BY <1>0, <1>4 DEF CRPart
<1>5. CASE ~DetermineAutoScaleStatus /\ ~HandleState /\ ~SyncCR
  <2>1. UNCHANGED <<expected, expSeen, cert>>
    BY <1>5 DEF Next, Reconcile, Confirm, Resize, Fail, Sync, SyncNode, SyncPod,
           SyncStatefulSet, UpdateStatus, Kubernetes, CreatePod, DeletePod, Schedule, PodReady,
           Evict, PodCrashes, SetPod, NodeChanges, vars, crVars
  <2> QED
    BY <1>4, <2>1
<1> QED
  BY <1>1, <1>2, <1>3, <1>5

LEMMA TypeStep == TypeOK /\ [Next]_vars => TypeOK'
BY NodeStep, PodStep, SetStep, CRStep, TypeParts, PTL

(***************************************************************************)
(* THEOREM.  Nodes, pods, the StatefulSet and the reconcile keep their     *)
(* types, for any number of nodes: in particular the size that autoscaling *)
(* asks for is never more than there are nodes, with a limit or without    *)
(* (GetTargetSize, determineAutoScaleStatus, UpdateStatefulSetReplicas).   *)
(***************************************************************************)
THEOREM AutoscalingTypes == Spec => []TypeOK
BY TypeInit, TypeStep, PTL DEF Spec

-----------------------------------------------------------------------------
(***************************************************************************)
(* Disruptions.                                                            *)
(***************************************************************************)
(* While the budget holds, the status shows it; and a reconcile that is to *)
(* scale down, as it sees it, has had the status confirmed, which stays.   *)
DeferInv ==
    /\ budget => WithinBudget(ss)
    /\ /\ rec.at = "resize" /\ conf.auto
       /\ Size(rec.nodes) < rec.ss.spec /\ Size(rec.nodes) < ss.spec
       => ~budget

(* A scale-down is not confirmed over a disruption within the budget.      *)
LEMMA BudgetDefers ==
    ASSUME TypeOK, conf.auto, WithinBudget(ss), Size(rec.nodes) < rec.ss.spec,
           Size(rec.nodes) < ss.spec
    PROVE  ~ConfirmScalingNeeded(rec.ss, ss, Size(rec.nodes))
<1>1. /\ Size(rec.nodes) \in Nat /\ rec.ss.spec \in Nat /\ ss.spec \in Nat /\ ss.ready \in Nat
      /\ conf.maxUnavailable \in Nat
  <2>1. conf \in Configs /\ rec.nodes \in SUBSET Nodes /\ rec.ss \in StatefulSets
        /\ ss \in StatefulSets
    BY TypeParts DEF NodePart, SetPart, Recs
  <2>2. Size(rec.nodes) \in 0..Cardinality(Nodes) /\ Cardinality(Nodes) \in Nat
    BY <2>1, SizeType, NodeCount
  <2>3. conf.maxUnavailable \in Nat
    BY <2>1, AutoscalingBoundsAssumption
  <2> QED
    BY <2>1, <2>2, <2>3 DEF StatefulSets
<1>2. ss.spec - ss.ready >= 1 /\ ss.spec - ss.ready <= conf.maxUnavailable
  BY <1>1 DEF WithinBudget
<1> QED
  BY <1>1, <1>2 DEF ConfirmScalingNeeded, ScalingNeeded

LEMMA DeferStep == TypeOK /\ DeferInv /\ [Next]_vars => DeferInv'
<1> SUFFICES ASSUME TypeOK, DeferInv, [Next]_vars PROVE DeferInv'
  OBVIOUS
<1>0. /\ UNCHANGED conf
      /\ rec \in Recs /\ conf' = conf
  <2>1. UNCHANGED conf
    BY DEF Next, Reconcile, DetermineAutoScaleStatus, HandleState, Confirm, Resize, Fail, Sync,
         SyncNode, SyncPod, SyncStatefulSet, SyncCR, UpdateStatus, Kubernetes, CreatePod,
         DeletePod, Schedule, PodReady, Evict, PodCrashes, SetPod, NodeChanges, vars
  <2> QED
    BY <2>1, TypeParts DEF SetPart
<1>1. CASE Return(TRUE) \/ Return(IsScalingInProgress(ssSeen) \/ ~IsStatefulSetReady(ssSeen, rec.nodes))
  BY <1>1 DEF Return, Idle, DeferInv
<1>2. CASE DetermineAutoScaleStatus
  <2>1. rec'.at = "state"
    BY <1>0, <1>2 DEF DetermineAutoScaleStatus, Recs
  <2>2. ss' = ss /\ budget' = WithinBudget(ss)
    BY <1>2 DEF DetermineAutoScaleStatus, ssVars
  <2> QED
    BY <1>0, <2>1, <2>2 DEF DeferInv, WithinBudget, IsScalingInProgress
<1>3. CASE HandleState /\ rec' = [rec EXCEPT !.at = "confirm", !.ss = ssSeen] /\ UNCHANGED budget
  <2>1. rec'.at = "confirm" /\ ss' = ss
    BY <1>0, <1>3 DEF HandleState, ssVars, Recs
  <2> QED
    BY <1>0, <1>3, <2>1 DEF DeferInv, WithinBudget, IsScalingInProgress
<1>4. CASE /\ Confirm /\ ConfirmScalingNeeded(rec.ss, ss, Size(rec.nodes))
           /\ rec' = [rec EXCEPT !.at = "resize"] /\ UNCHANGED budget
  <2>1. rec'.nodes = rec.nodes /\ rec'.ss = rec.ss /\ ss' = ss
    BY <1>0, <1>4 DEF Confirm, ssVars, Recs
  <2>2. Size(rec.nodes)' = Size(rec.nodes)
    BY <1>0, <2>1 DEF Size
  <2>3. budget /\ conf.auto /\ Size(rec.nodes) < rec.ss.spec => ~(Size(rec.nodes) < ss.spec)
    BY <1>4, BudgetDefers DEF DeferInv
  <2> QED
    BY <1>0, <1>4, <2>1, <2>2, <2>3 DEF DeferInv, WithinBudget, IsScalingInProgress
<1>5. CASE UpdateStatus
  <2>1. UNCHANGED rec /\ budget' = (budget /\ WithinBudget(ss)')
    BY <1>0, <1>5 DEF UpdateStatus, WithinBudget, IsScalingInProgress
  <2>2. ss'.spec = ss.spec
    BY <1>5, SetMoves, StatusType, TypeParts DEF UpdateStatus, SetPart
  <2>3. Size(rec.nodes)' = Size(rec.nodes)
    BY <1>0, <2>1 DEF Size
  <2> QED
    BY <1>0, <2>1, <2>2, <2>3 DEF DeferInv
<1>6. CASE UNCHANGED <<ss, rec, budget>>
  <2>1. Size(rec.nodes)' = Size(rec.nodes)
    BY <1>0, <1>6 DEF Size
  <2> QED
    BY <1>0, <1>6, <2>1 DEF DeferInv, WithinBudget, IsScalingInProgress
<1> QED
  BY <1>1, <1>2, <1>3, <1>4, <1>5, <1>6
     DEF Next, Reconcile, HandleState, Confirm, Resize, Fail, Sync, SyncNode, SyncPod,
         SyncStatefulSet, SyncCR, Kubernetes, CreatePod, DeletePod, Schedule, PodReady, Evict,
         PodCrashes, SetPod, NodeChanges, vars, ssVars

(***************************************************************************)
(* THEOREM.  A reconcile that decides to scale down takes no daemon away   *)
(* over a disruption within the budget that the StatefulSet shows from its *)
(* start, whatever nodes, pods and caches do meanwhile: the direct read    *)
(* comes after the start, and the budget that it sees defers the step      *)
(* (confirmScalingNeeded, statefulsetScalingNeeded).                       *)
(***************************************************************************)
THEOREM DisruptionsDefer == Spec => DisruptionDefers
<1>1. Init => TypeOK /\ DeferInv
  BY TypeInit DEF Init, DeferInv, Idle
<1>2. TypeOK /\ DeferInv /\ [Next]_vars => (TypeOK /\ DeferInv)'
  BY TypeStep, DeferStep
<1>3. TypeOK /\ DeferInv /\ [Next]_vars =>
        [conf.auto /\ ss'.spec < ss.spec /\ ss'.spec < rec.ss.spec => ~budget]_vars
  <2> SUFFICES ASSUME TypeOK, DeferInv, [Next]_vars,
                      conf.auto, ss'.spec < ss.spec, ss'.spec < rec.ss.spec
               PROVE  ~budget
    OBVIOUS
  <2>1. ss.spec \in Nat
    BY TypeParts, NodeCount DEF SetPart, StatefulSets
  <2>2. ss'.spec # ss.spec
    BY <2>1
  <2>3. Resize /\ ss'.spec = Size(rec.nodes)
    BY <2>2, SetMoves
  <2> QED
    BY <2>3 DEF Resize, DeferInv
<1> QED
  BY <1>1, <1>2, <1>3, PTL DEF Spec, DisruptionDefers
=============================================================================
