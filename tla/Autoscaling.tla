------------------------------ MODULE Autoscaling ------------------------------
(***************************************************************************)
(* How the size of the targets (or of the proxies: the code is the same)   *)
(* and the names in the TLS certificate follow the nodes of Kubernetes.    *)
(* The operator sees nodes, its StatefulSet and its own CR through caches  *)
(* that lag one another, and is woken only by what the watches of          *)
(* SetupWithManager let through, or by a requeue of its own.               *)
(*                                                                         *)
(* No rollout is under way (TargetController and ProxyController model     *)
(* those), a pod that is deleted is gone, and a removed daemon has been    *)
(* decommissioned when Resize takes place, or keeps it waiting.  Nodes,    *)
(* scheduler, kubelet and the StatefulSet controller are external.         *)
(***************************************************************************)
EXTENDS Integers, FiniteSets

CONSTANTS
    Nodes,
    NodeAt,          \* the node that each ordinal is on at first
    Configs,         \* see conf
    Fickle,          \* the nodes that change
    FixedSize,       \* the size of a cluster that does not autoscale
    NoNode

ASSUME AutoscalingBoundsAssumption ==
    /\ IsFiniteSet(Nodes) /\ Nodes # {} /\ NoNode \notin Nodes
    /\ Fickle \subseteq Nodes
    /\ \A c \in Configs : /\ c.auto \in BOOLEAN /\ c.maxUnavailable \in Nat
                          /\ c.limit \subseteq Nat \ {0}
                          /\ IsFiniteSet(c.limit) /\ Cardinality(c.limit) <= 1
                          /\ c.turns \subseteq STRING \X STRING
                          /\ c.bounds \in [{"nodes", "crashes", "faults"} -> Nat]
    /\ FixedSize \in 1..Cardinality(Nodes)
    /\ NodeAt \in [0..Cardinality(Nodes) - 1 -> Nodes]
    /\ \A n \in Nodes : \E i \in DOMAIN NodeAt : NodeAt[i] = n

VARIABLES
    conf,      \* auto: the size is -1; limit: autoScaleConf.sizeLimit, at most one number;
               \* maxUnavailable: of autoScaleConf, 0 if it is unset;
               \* turns: from what to what a node may change, in pairs; and
               \* bounds: on node changes, crashes and faults
    node,      \* of each node: "absent", "unlabelled" (the selector does not
               \* match), "free", or with a taint that is not tolerated: "cordoned"
               \* (NoSchedule), "evicting" (NoExecute)
    nodeSeen,
    pod,       \* of each ordinal: phase and node
    podSeen,   \* of each ordinal what the watch last told: whether there is one, and its node
    ss,        \* spec: replicas; observed: the status is of this spec; count, ready: the status
    ssSeen,
    expected,  \* status.autoscaleStatus of the CR
    expSeen,
    cert,      \* the hosts of the TLS certificate
    rec,       \* the reconcile: at, its copy of the expected nodes, and of the StatefulSet
    wake,      \* a reconcile is queued
    budget,    \* since the reconcile began, unavailable pods were within the budget
    left       \* node changes, crashes and faults still to come

vars == <<conf, node, nodeSeen, pod, podSeen, ss, ssSeen, expected, expSeen, cert,
          rec, wake, budget, left>>

nodeVars == <<node, nodeSeen>>
podVars == <<pod, podSeen>>
ssVars == <<ss, ssSeen>>
crVars == <<expected, expSeen>>

NodeStates == {"absent", "unlabelled", "free", "cordoned", "evicting"}
Ordinals == 0..Cardinality(Nodes) - 1
NoPod == [phase |-> "none", node |-> NoNode]
Pods == [phase : {"none", "pending"}, node : {NoNode}]
        \cup [phase : {"unready", "ready"}, node : Nodes]
AsSeen(p) == [exists |-> p.phase # "none", node |-> p.node]
StatefulSets == [spec : 0..Cardinality(Nodes), observed : BOOLEAN,
                 count : 0..Cardinality(Nodes), ready : 0..Cardinality(Nodes)]

NoStatefulSet == [spec |-> 0, observed |-> FALSE, count |-> 0, ready |-> 0]
Idle == [at |-> "idle", nodes |-> {}, ss |-> NoStatefulSet]

(* The types of the state; no pod beyond the nodes is ever asked for.      *)
TypeOK ==
    /\ conf \in Configs /\ wake \in BOOLEAN /\ budget \in BOOLEAN
    /\ {node, nodeSeen} \subseteq [Nodes -> NodeStates]
    /\ pod \in [Ordinals -> Pods]
    /\ podSeen \in [Ordinals -> [exists : BOOLEAN, node : Nodes \cup {NoNode}]]
    /\ {ss, ssSeen} \subseteq StatefulSets
    /\ {expected, expSeen, cert} \subseteq SUBSET Nodes
    /\ rec \in [at : {"idle", "state", "confirm", "resize"}, nodes : SUBSET Nodes,
               ss : StatefulSets]
    /\ left \in [{"nodes", "crashes", "faults"} -> Nat]
    /\ \A x \in {"nodes", "crashes", "faults"} : left[x] <= conf.bounds[x]

-----------------------------------------------------------------------------
(* nodeMatchesSelector *)
MatchesSelector(s) == s \in {"free", "cordoned", "evicting"}

(* toleratesTaints *)
ToleratesTaints(s) == s \notin {"cordoned", "evicting"}

(* listMatchingNodes, listMatchingNodeNames                                *)
MatchingNodes(ns) ==
    {n \in Nodes : ns[n] # "absent" /\ MatchesSelector(ns[n]) /\ ToleratesTaints(ns[n])}

(* Mutation: a pod that is on no node counts.                              *)
MutantNodesRunningPods(ps) == {ps[i].node : i \in Ordinals}

(* listNodesRunningDaemonPods *)
NodesRunningPods(ps) == {ps[i].node : i \in Ordinals} \ {NoNode}

(* determineAutoScaleStatus: nodes of either kind.  Pods are not read from *)
(* the cache.                                                              *)
ExpectedNodes == MatchingNodes(nodeSeen) \cup NodesRunningPods(pod)

(* GetProxySize, GetTargetSize                                             *)
Size(nodes) ==
    IF ~conf.auto THEN FixedSize
    ELSE LET n == Cardinality(nodes)
         IN  IF \E l \in conf.limit : l < n THEN CHOOSE l \in conf.limit : TRUE ELSE n

(* GetMinReadyProxies, GetMinReadyTargets                                  *)
MinReady(nodes) ==
    IF ~conf.auto THEN Size(nodes)
    ELSE IF Size(nodes) - conf.maxUnavailable > 1 THEN Size(nodes) - conf.maxUnavailable ELSE 1

(* isScalingInProgress *)
IsScalingInProgress(s) == s.count # s.spec

(* statefulsetScalingNeeded *)
ScalingNeeded(s, desired) ==
    \/ desired > s.spec
    \/ /\ desired < s.spec
       /\ conf.auto => /\ ~IsScalingInProgress(s)
                  /\ \/ s.spec - s.ready = 0
                     \/ s.spec - s.ready > conf.maxUnavailable

(* Mutation: the scale-down is confirmed by the cached copy.               *)
MutantConfirmScalingNeeded(cached, fresh, desired) ==
    \/ ~conf.auto \/ desired >= cached.spec
    \/ ScalingNeeded(cached, desired)

(* confirmScalingNeeded: a scale-down is decided again by a direct read.   *)
ConfirmScalingNeeded(cached, fresh, desired) ==
    \/ ~conf.auto \/ desired >= cached.spec
    \/ ScalingNeeded(fresh, desired)

(* isStatefulSetReady, isStatefulSetFullyReady                             *)
IsStatefulSetReady(s, nodes) ==
    \/ s.spec = Size(nodes) /\ s.count = s.spec /\ s.ready = s.spec
    \/ conf.auto /\ ~IsScalingInProgress(s) /\ s.ready >= MinReady(nodes)

(* discoverPublicNetHosts, targetPublicHosts: with names of nodes.         *)
PublicNetHosts(nodes) ==
    IF conf.auto /\ nodes # {} THEN nodes ELSE MatchingNodes(nodeSeen)

-----------------------------------------------------------------------------
(* Mutation: only the nodes of autoscaled clusters are watched.            *)
MutantNodeAffectsTLSCertificate(s) == FALSE

(* nodeAffectsTLSCertificate *)
NodeAffectsTLSCertificate(s) == MatchesSelector(s) /\ ToleratesTaints(s)

(* findAISClustersForNode, nodeMatchesForTarget: for a node in state s.    *)
FindsClusterForNode(n, s) ==
    \/ conf.auto /\ (n \in expSeen \/ MatchesSelector(s))
    \/ NodeAffectsTLSCertificate(s)

(* Mutation: changes of taints are left out.                               *)
MutantNodePredicate(old, new) ==
    \/ "absent" \in {old, new}
    \/ (old = "unlabelled") # (new = "unlabelled")

(* nodePredicate: labels or taints changed, created or deleted.            *)
NodePredicate(old, new) == old # new

(* podPredicate *)
PodPredicate(old, new) ==
    old.exists # new.exists \/ old.node # new.node

(* SetupWithManager: an update is mapped by the old and by the new object. *)
SyncNode(n) ==
    /\ nodeSeen[n] # node[n]
    /\ nodeSeen' = [nodeSeen EXCEPT ![n] = node[n]]
    /\ wake' = \/ wake
               \/ /\ NodePredicate(nodeSeen[n], node[n])
                  /\ \E s \in {nodeSeen[n], node[n]} \ {"absent"} : FindsClusterForNode(n, s)
    /\ UNCHANGED <<conf, node, podVars, ssVars, crVars, cert, rec, budget, left>>

(* findAISClustersForPod: by the label of the pod.                         *)
SyncPod(i) ==
    /\ podSeen[i] # AsSeen(pod[i])
    /\ podSeen' = [podSeen EXCEPT ![i] = AsSeen(pod[i])]
    /\ wake' = (wake \/ PodPredicate(podSeen[i], AsSeen(pod[i])))
    /\ UNCHANGED <<conf, nodeVars, pod, ssVars, crVars, cert, rec, budget, left>>

(* Owns(StatefulSet) and For(AIStore): every change wakes.                 *)
SyncStatefulSet ==
    /\ ssSeen # ss /\ ssSeen' = ss /\ wake' = TRUE
    /\ UNCHANGED <<conf, nodeVars, podVars, ss, crVars, cert, rec, budget, left>>

SyncCR ==
    /\ expSeen # expected /\ expSeen' = expected /\ wake' = TRUE
    /\ UNCHANGED <<conf, nodeVars, podVars, ssVars, expected, cert, rec, budget, left>>

-----------------------------------------------------------------------------
(* The status of the StatefulSet tells of unavailable pods, within budget. *)
WithinBudget(s) ==
    /\ s.observed /\ ~IsScalingInProgress(s)
    /\ s.spec - s.ready \in 1..conf.maxUnavailable

(* Reconcile, determineAutoScaleStatus, updateAutoScaleStatus.  The answer *)
(* of the patch goes on with the reconcile.                                *)
DetermineAutoScaleStatus ==
    /\ rec.at = "idle" /\ wake
    /\ wake' = FALSE
    /\ LET nodes == IF conf.auto THEN ExpectedNodes ELSE expSeen
       IN  /\ expected' = IF nodes = expSeen THEN expected ELSE nodes
           /\ rec' = [rec EXCEPT !.at = "state", !.nodes = nodes]
    /\ budget' = WithinBudget(ss)
    /\ UNCHANGED <<conf, nodeVars, podVars, ssVars, expSeen, cert, left>>

Return(requeue) ==
    /\ rec' = Idle /\ budget' = FALSE
    /\ wake' = (wake \/ requeue)

(* reconcileTLSCertificate, then handleTargetState or handleProxyState, on *)
(* the cached StatefulSet.                                                 *)
HandleState ==
    /\ rec.at = "state"
    /\ cert' = PublicNetHosts(rec.nodes)
    /\ \/ ~ssSeen.observed /\ Return(TRUE)
       \/ /\ ssSeen.observed /\ ScalingNeeded(ssSeen, Size(rec.nodes))
          /\ rec' = [rec EXCEPT !.at = "confirm", !.ss = ssSeen]
          /\ UNCHANGED <<wake, budget>>
       \/ /\ ssSeen.observed /\ ~ScalingNeeded(ssSeen, Size(rec.nodes))
          /\ Return(IsScalingInProgress(ssSeen) \/ ~IsStatefulSetReady(ssSeen, rec.nodes))
    /\ UNCHANGED <<conf, nodeVars, podVars, ssVars, crVars, left>>

(* handleTargetScaling, handleProxyScale: a deferred scale-down is queued. *)
Confirm ==
    /\ rec.at = "confirm"
    /\ IF ConfirmScalingNeeded(rec.ss, ss, Size(rec.nodes))
       THEN rec' = [rec EXCEPT !.at = "resize"] /\ UNCHANGED <<wake, budget>>
       ELSE Return(TRUE)
    /\ UNCHANGED <<conf, nodeVars, podVars, ssVars, crVars, cert, left>>

(* resolveStatefulSetScaling, UpdateStatefulSetReplicas: the cached copy   *)
(* says whether there is anything to patch.                                *)
Resize ==
    /\ rec.at = "resize"
    /\ ss' = IF Size(rec.nodes) \in {ss.spec, ssSeen.spec} THEN ss
             ELSE [ss EXCEPT !.spec = Size(rec.nodes), !.observed = FALSE]
    /\ Return(TRUE)
    /\ UNCHANGED <<conf, nodeVars, podVars, ssSeen, crVars, cert, left>>

(* An API call fails, a scale-down has to wait for AIStore, or the operator *)
(* crashes: the request is queued again.                                   *)
Fail ==
    /\ rec.at # "idle" /\ left.faults > 0
    /\ left' = [left EXCEPT !.faults = @ - 1]
    /\ Return(TRUE)
    /\ UNCHANGED <<conf, nodeVars, podVars, ssVars, crVars, cert>>

-----------------------------------------------------------------------------
(***************************************************************************)
(* External.                                                               *)
(***************************************************************************)
NodeChanges(n) ==
    /\ left.nodes > 0
    /\ left' = [left EXCEPT !.nodes = @ - 1]
    /\ \E s \in NodeStates \ {node[n]} :
            <<node[n], s>> \in conf.turns /\ node' = [node EXCEPT ![n] = s]
    /\ UNCHANGED <<conf, nodeSeen, podVars, ssVars, crVars, cert, rec, wake, budget>>

SetPod(i, p) ==
    /\ pod' = [pod EXCEPT ![i] = p]
    /\ UNCHANGED <<conf, nodeVars, podSeen, ssVars, crVars, cert, rec, wake, budget>>

(* The StatefulSet controller; its pods are managed in parallel.           *)
CreatePod(i) ==
    /\ i < ss.spec /\ pod[i] = NoPod
    /\ SetPod(i, [phase |-> "pending", node |-> NoNode]) /\ UNCHANGED left

DeletePod(i) ==
    /\ i >= ss.spec /\ pod[i] # NoPod
    /\ SetPod(i, NoPod) /\ UNCHANGED left

(* One pod of a kind per node: the pods repel one another.  It starts at   *)
(* once; pods that take time are crashed ones.                             *)
Schedule(i) ==
    /\ pod[i].phase = "pending"
    /\ \E n \in {m \in Nodes : node[m] = "free"} \ NodesRunningPods(pod) :
            SetPod(i, [phase |-> "ready", node |-> n])
    /\ UNCHANGED left

PodReady(i) ==
    /\ pod[i].phase = "unready"
    /\ SetPod(i, [pod[i] EXCEPT !.phase = "ready"]) /\ UNCHANGED left

PodCrashes(i) ==
    /\ pod[i].phase = "ready" /\ left.crashes > 0
    /\ left' = [left EXCEPT !.crashes = @ - 1]
    /\ SetPod(i, [pod[i] EXCEPT !.phase = "unready"])

Evict(i) ==
    /\ pod[i].node # NoNode /\ node[pod[i].node] \in {"absent", "evicting"}
    /\ SetPod(i, NoPod) /\ UNCHANGED left

(* The status follows the pods, and the spec, with a delay.                *)
StatusOf(s, ps) ==
    [s EXCEPT !.observed = TRUE,
              !.count = Cardinality({i \in Ordinals : ps[i] # NoPod}),
              !.ready = Cardinality({i \in Ordinals : ps[i].phase = "ready"})]

UpdateStatus ==
    /\ ss # StatusOf(ss, pod)
    /\ ss' = StatusOf(ss, pod)
    /\ budget' = (budget /\ WithinBudget(ss'))
    /\ UNCHANGED <<conf, nodeVars, podVars, ssSeen, crVars, cert, rec, wake, left>>

-----------------------------------------------------------------------------
(* A cluster that has settled on its nodes, all of them free.              *)
Init ==
    /\ conf \in Configs
    /\ node = [n \in Nodes |-> "free"] /\ nodeSeen = node
    /\ LET size == Size(Nodes)
       IN  /\ pod = [i \in Ordinals |-> IF i < size THEN [phase |-> "ready", node |-> NodeAt[i]]
                                        ELSE NoPod]
           /\ ss = [spec |-> size, observed |-> TRUE, count |-> size, ready |-> size]
    /\ podSeen = [i \in Ordinals |-> AsSeen(pod[i])] /\ ssSeen = ss
    /\ expected = (IF conf.auto THEN Nodes ELSE {}) /\ expSeen = expected
    /\ cert = Nodes
    /\ rec = Idle
    /\ wake = FALSE /\ budget = FALSE
    /\ left = conf.bounds

Reconcile ==
    DetermineAutoScaleStatus \/ HandleState \/ Confirm \/ Resize

Sync == (\E n \in Nodes : SyncNode(n)) \/ (\E i \in Ordinals : SyncPod(i)) \/ SyncStatefulSet \/ SyncCR

Kubernetes(i) == CreatePod(i) \/ DeletePod(i) \/ Schedule(i) \/ PodReady(i) \/ Evict(i)

Next ==
    \/ Reconcile \/ Fail \/ Sync \/ UpdateStatus
    \/ \E i \in Ordinals : Kubernetes(i) \/ PodCrashes(i)
    \/ \E n \in Fickle : NodeChanges(n)

Spec == Init /\ [][Next]_vars

(* Requests are worked off, informers and the StatefulSet controller catch *)
(* up, pods are scheduled, start and go.  Nodes change, pods crash and     *)
(* calls fail only so often.                                               *)
FairSpec ==
    /\ Spec
    /\ WF_vars(Reconcile)
    /\ \A n \in Nodes : WF_vars(SyncNode(n))
    /\ \A i \in Ordinals : WF_vars(SyncPod(i)) /\ WF_vars(Kubernetes(i))
    /\ WF_vars(SyncStatefulSet) /\ WF_vars(SyncCR) /\ WF_vars(UpdateStatus)

-----------------------------------------------------------------------------
(***************************************************************************)
(* Properties.                                                             *)
(***************************************************************************)
(* A reconcile that decides to scale down never takes a daemon away over a *)
(* disruption within the budget that the status of the StatefulSet shows   *)
(* all through it, however stale the cached copy is, the one it decided on *)
(* or a later one (confirmScalingNeeded, UpdateStatefulSetReplicas).  Not  *)
(* so where the cached copy is of a smaller StatefulSet than the size, and *)
(* the scale-down looks like a scale-up: that is not confirmed.            *)
DisruptionDefers ==
    [][conf.auto /\ ss'.spec < ss.spec /\ ss'.spec < rec.ss.spec => ~budget]_vars

Held == NodesRunningPods(pod)
Served == {pod[i].node : i \in {j \in Ordinals : pod[j].phase = "ready"}}

(* Every node that takes pods has a ready one, or the limit is reached;    *)
(* the size is that of the nodes, or its reduction is deferred within the  *)
(* budget.                                                                 *)
Scaled ==
    LET size == Size(MatchingNodes(node) \cup Held)
    IN  /\ \/ MatchingNodes(node) \subseteq Served
           \/ \E l \in conf.limit : Cardinality(Served) >= l
        /\ ss.spec = size \/ (ss.spec > size /\ WithinBudget(ss))

(* Once the nodes stop changing an autoscaled cluster comes to fit them,   *)
(* though the operator is woken by events only, and each tells of one      *)
(* thing (SetupWithManager, findAISClustersForNode).                       *)
NodesServed == conf.auto => <>[]Scaled

(* The certificate comes to name exactly the nodes that pods can be on: of *)
(* a cluster of fixed size those that take pods, of an autoscaled one also *)
(* those that still run one.                                               *)
CertificateFollows ==
    <>[](cert = IF conf.auto THEN MatchingNodes(node) \cup Held ELSE MatchingNodes(node))
=============================================================================
