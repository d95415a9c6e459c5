# A verification project for the AIStore Kubernetes operator

TLA+ specifications of the AIS operator of NVIDIA/ais-k8s (`src/operator`), the
TLC configurations that check them on small instances, and proofs of their main
safety properties for all instances. The modules are written from the Go code;
`PROJECT.json` maps every definition to the lines that it models.

## 1. The system

The operator is a controller-runtime manager. Each controller has one worker,
which takes requests from a queue; a watch event, a requeue delay or an error
puts a request there. A reconcile reads the custom resource (CR) and most other
objects from informer caches that lag behind the API server, and takes a number
of steps, each of which writes at most one object, until it returns.

| Component | State | Operations | Interacts with |
|---|---|---|---|
| AIStore controller, life cycle (`cluster_controller.go`, `cluster_cleanup.go`) | status of the CR (state, conditions, URL, cluster ID), finalizer | `Reconcile` and its dispatch on the state: initialize, bootstrap, shut down, abort, decommission, clean up, finalize | all others; the API server; the AIS API |
| Target controller (`target_controllers.go`) | the StatefulSet of the targets (`OnDelete`), its pods, PDB, LB services | roll out, scale up, scale down with maintenance or decommission | cluster map of AIStore, rebalance condition |
| Proxy controller (`proxy_controller.go`) | the StatefulSet of the proxies (`RollingUpdate` with a partition) | bootstrap with one proxy, roll out, scale, move the primary | cluster map of AIStore |
| Config sync (`handleConfigState`, `cmn/config.go`) | hash annotations on the CR, the live config | send the config, record its hash | AIS API |
| Autoscaling and watches (`determineAutoScaleStatus`, `findAISClustersFor*`) | lists of expected nodes in the status | count nodes, map events to clusters | nodes, pods |
| Client manager (`internal/services`) | cache of AIS clients, tokens and their expiry | get, refresh, replace a client | AuthN, OAuth, AIS API |
| AIStoreAuth controller (`controller/aisauth`) | AuthN deployment, services, PVC, certificate | reconcile, retain the PVC, finalize | API server |
| Webhooks | none | validate specs and their updates | API server |
| Resource builders, client helpers, start-up, charts, playbooks | none of their own | build and apply objects | |

**What is hard here.** The state of the protocol lives in the status of the CR,
which `patchStatus` overwrites as a whole from memory, without a resource version,
while memory comes from a lagging cache; a crash or a failed call can come
between any two writes; reconciles are driven by events, so that a missing
requeue is a lost wakeup; the user may change the spec, or delete the CR, at any
point; and the operator judges pods and data by a StatefulSet status and by a
cluster map that change under it. `PROJECT.json` lists these hazards at their
lines under `hazards`.

**What makes it correct.** Life cycle: nothing of the cluster is deleted unless the CR is; a
CR is gone only when everything else is; cleanup is never undone; deletion, shutdown and
coming up complete. Targets: one at a time in a rollout; no target leaves with data that is
still needed; rebalance is off in a rollout and on in a decommission; the targets become what
the spec asks for. Proxies: the primary moves before its pod goes. Templates: pods restart
for the edits, and the versions of the operator, that need it, for all of them and nothing
else. Autoscaling: the cluster fits the nodes, and a short disruption takes no daemon away.
Clients: a rejected or expired token is not used, and the operator is never locked out for
good. AuthN: Ready is true, the claim outlives its CR when it should. Webhooks: no sequence
of admitted edits leads to a spec that the controllers cannot handle, and none stops the
operator's own writes.

## 2. The modules

| Module | What it is |
|---|---|
| `AISLifecycle` | the life of one CR under the AIStore controller |
| `ClusterPromise` | what it promises: the abstract specification that `AISLifecycle` implements |
| `AISLifecycleProofs` | the theorems about them |
| `StatefulSetStatus` | the predicates of `common.go` on a StatefulSet |
| `TargetController` | rollout and scaling of the targets of a cluster in service; extends `StatefulSetStatus` |
| `ProxyController` | rollout and scaling of its proxies, and the primary; extends `StatefulSetStatus` |
| `TemplateSync` | which edits restart the daemons: template comparison and restart config |
| `Autoscaling` | size and certificate follow the nodes; the watches |
| `ClientManager` | the API clients of the operator and their tokens |
| `AuthController` | the AIStoreAuth controller |
| `Admission` | the validating webhooks, over sequences of submissions |
| `TargetControllerProofs`, `ProxyControllerProofs`, `TemplateSyncProofs`, `AutoscalingProofs`, `ClientManagerProofs`, `AuthControllerProofs`, `AdmissionProofs` | the theorems about the module of that name |
| `MC...` | small instances of the module of that name |

How they fit together: `AISLifecycle` is the frame. In a cluster in service its actions
`HandleProxyState`, `HandleTargetState` and `HandleConfigState` stand for handlers that
`ProxyController`, `TargetController` and `TemplateSync` model in full, for a CR that is not
deleted; `Autoscaling` is where their sizes come from, `ClientManager` what a call to
the AIS API may meet, `Admission` which specs and edits they get. Each is checked
against an environment as free as the others leave it: any failing call, any lag.

Definitions named `Mutant...` are wrong variants of the definition that follows
them. Each stands for a plausible bug; `PROJECT.json` says which property of
which run finds it. Scenarios (`Scenarios`, `Families`, `Configs`) are constants: what users,
nodes or auth services do, in which order; when they do it is left open.

### 2.1 AISLifecycle

`cr` is the CR at the API server, `cached` the copy in the informer, `mem` the copy
in the memory of the running reconcile and `pc` its next step. One action is one
step with at most one write:

| Code | Actions |
|---|---|
| `Reconcile` up to the switch | `StartReconcile`, `AddFinalizer`, `MarkInitialized`, `MarkDecommissioning`, `DisableRebalance`, `ForceConfig`, `ForceConfigUnreachable`, `MarkShuttingDown`; the decision itself is `Route` and `Dispatch` |
| `shutdownCluster` | `ShutdownCluster` (scale, wait, for proxies and then targets; `MarkShutdown`) |
| abort of a shutdown | `AbortShutdown` |
| `decommissionCluster` | `DecommissionCluster`, `MarkCleanup` |
| `cleanupClusterRes`, `cleanup` | `Cleanup` (a whole pass, or one stopped by an error after any prefix of its deletes), `CreateJobs`, `MarkJobsCreated`, `MarkHostCleanup` |
| `cleanupHost`, `finalize` | `CleanupHost`, `MarkFinalized`, `Finalize` |
| `ensurePrereqs`, `reconcileExternalAccess` | `EnsurePrereqs`, `ReconcileExternalAccess`, `MarkLB`, `SetURL` |
| `bootstrapNew` | `BootstrapNew`, `MarkCreated` |
| `handleCREvents` | `HandleProxyState`, `HandleTargetState`, `CheckAISClusterReady`, `EnableRebalanceCondition`, `HandleConfigState`, `HandleSuccessfulReconcile`, `UpdateStatusAndRequeue` |
| errors, crashes | `Fail` at any step before its effect, `CRGone` for a write to a CR that is gone |

The user (`UserDeletes`, `UserFlipsShutdown`), the informers (`Sync...`), the
StatefulSet controller and the kubelets (`Pod...`), load balancers, jobs and
finalizers of other objects (`LBAllocated`, `Job...`, `Reclaimed`) interleave with
it. `OwnedEvent` is the watch of pods and owned objects and the resync: a reconcile
may be queued at any time.

Abstractions:

- The cluster has a fixed size and a pod template that does not change; sizes and
  templates are the subject of `TargetController`.
- Resources other than StatefulSets are five groups. A group is present while one of
  its members is; deletes follow the code's order of the last members. `base` is
  RBAC, ConfigMaps, headless services, certificate and admin client. The PDB is
  taken to be enabled.
- A StatefulSet is one record of spec and status; the lag of its status is part
  of the lag of `ssCached`.
- Daemons in the cluster map are counted as ready pods. An API call needs a ready
  proxy and otherwise fails; `Health` errors and any other error are `Fail`.
- Services and claims are deleted as they are at the API server; the cached list that
  `DeleteAllServicesIfExist` and `DeletePVCs` delete by is not modelled (see the
  hazard at `api.go:375`).
- A cleanup job that is `done` has succeeded or is older than the two minutes after
  which `deleteFinishedJobs` gives it up. One cluster per namespace.
- Daemons told to stop stay stopped: the containers restart, but the decommission has
  removed them from the cluster.

### 2.2 TargetController

The same style for `handleTargetState` and what follows it in `handleCREvents`. `set`
and `setCached` are the StatefulSet and its cached copy, with the fields of its spec
and of its status apart and the flag `observed` for `observedGeneration`; `seen` is the
copy that a reconcile holds. `pods` has the phase and revision of every ordinal, `smap`
the membership of every target, and `rebalance` is the live config. The revision of the
template is a number. `scenario`, chosen at the start from the constant `Scenarios`, has
the cluster to begin with, the changes that the user makes one after the other at any
time, whether a scale-down keeps the data, and for every revision whether its pods come
up, crash or are not schedulable (`Fate`).

| Code | Actions |
|---|---|
| `handleTargetState` up to its first write | `HandleTargetState` (`Choice`) |
| `disableRebalance`, `enableRebalanceCondition`, `handleConfigState` | `SetRebalanceCondition`, `HandleConfigState` |
| `syncTargetPodSpec` | `SyncTargetPodSpec` |
| `startTargetScaling`, `prepareTargetsForScaleDown` | `StartTargetScaling`, `PrepareTargetsForScaleDown` (any prefix, with an error after it) |
| `resolveStatefulSetScaling`, `isReadyToScaleDown*` | `ResolveStatefulSetScaling`, `Resize` |
| `handleTargetRollout`, `findPodNeedingUpdate`, `prepareTargetForRollout` | `FindPodNeedingUpdate`, `PrepareTargetForRollout`, `DeletePod` |
| `checkAISClusterReady` and the rest of `handleCREvents` | `HandleReady` |

Abstractions:

- No autoscaling (`confirmScalingNeeded` then says yes), no external access, PDB and PVC
  retention policy not tracked, the AIS API reachable (an error is `Fail`).
- A reconcile that would do nothing is left out; one that does something may start at
  any time.
- External: a daemon that joins leaves maintenance (nothing in the operator ends it); a
  decommissioned target leaves the cluster map and then exits; the request for
  maintenance of a target in decommission is refused; the StatefulSet controller
  works in parallel and never bumps the current revision with `OnDelete`.
- Pods are read directly, as `cmd/main.go` configures it. They do not fail by
  themselves here.

### 2.3 ClusterPromise

Four phases of a CR (wanted, condemned, swept, gone) and the set of objects that exist:
objects of a wanted cluster are never deleted, those of a condemned one all are before
the CR goes, and what the user asked to keep (the claims, without `cleanupMetadata`) stays.
`AISLifecycle` maps its state to it at its end (`Phase`, `Existing`) and states the
refinement as `Implements`. A CR counts as swept when the sweep is over and nobody is left
who would act on an older copy (`SweptForGood`); this is what the state in the status
cannot tell, and why the refinement is more than a relabelling.

### 2.4 ProxyController

`handleProxyState` with the steps of its handlers one by one, in the style of
`TargetController`: `SyncProxyPodSpec` (primary to ordinal 0, template and partition),
`SyncProxyPVCRetentionPolicy`, `HandleProxyScale`, `PrepareProxyScaleDown` with
`IsIndexValidNewPrimary`, `SetLowestEligiblePodAsPrimary` and `DecommissionProxies`, `Resize`,
`HandleProxyRollout` and `ResetSSPartition`. The StatefulSet controller replaces pods from
the highest ordinal down to the partition and waits for each; AIStore elects a new
primary when the old one is lost, and drops proxies by keepalive. `elected` records that
AIStore, not the operator, made the present choice.

### 2.5 TemplateSync

The pod template by the parts that `shouldUpdatePodTemplate` tells apart, as the builders
make it of a spec and of the version of the operator; the comparison function by
function; `syncPodTemplate` and the merge patch; and `handleConfigState` with
`calcRestartConfigAnnotation`. A hash stands for what it is made of. `asked` counts the
edits and upgrades that no rollout has followed yet. How pods are replaced is left to the
modules above: any pod of an older template may be replaced next.

A version of the operator is what it puts into templates: its default security contexts
(of the pod and the AIS container where the spec gives none, of init container and
sidecar always), which are compared "to force sync with the v3.0.0 release"
(`common.go:57`); the attributes of csi volumes, which are compared with the volumes, so
that clusters in `mode: csi` roll once when they change (`CHANGELOG.md:72`, of v3.3.0); and what
nobody compares (other fields, the order of volumes, the label `managed-by`). Whether an
upgrade is worth a rollout is `VersionMatters`. A new operator fills its caches before its
first reconcile. The probes have the scheme that `UseHTTPS` gives, so an edit of
`net.http` that turns TLS on or off changes the pods and the restart config
(`PodsChange`). `certificate` is one that a csi driver mounts; a Secret differs only by
having no attributes of the operator.

### 2.6 Autoscaling

One kind of daemon; the other is handled by the same code. Nodes change between five
conditions, pods are scheduled, become ready, crash and are evicted, and every cache (of
nodes, StatefulSet and CR) catches up by its own events, filtered by the predicates of
`SetupWithManager` and mapped by `findAISClustersForNode` and `findAISClustersForPod`. Pods
are read directly, as `cmd/main.go` configures it. A reconcile is `DetermineAutoScaleStatus`,
the certificate, `HandleState`, `Confirm` (the direct read of `confirmScalingNeeded`) and
`Resize`. Rollouts are not under way here; a removed daemon has been drained, or keeps
`Resize` waiting. The addresses of nodes, which no predicate looks at, are not modelled.

### 2.7 ClientManager

`GetClient` in its steps (refresh, endpoint, `HasValidBaseParams`, create), the ways to a
token (password, OAuth, token exchange; inline, by profile, legacy), and the calls, whose
refusal marks the client. The world (CR, secrets, profile, CAs, auth service, proxies, load
balancer) changes step by step at any time; the clock ticks, but less than the expiry buffer
between the look at a token and its use: the buffer is 5 minutes, a call times out after
seconds. `TLSConfigWorks` is the error path of `getTLSConfig`: a CA file that cannot be read
stops a new client, one that is missing does not. The cache of TLS configurations of auth
services (`authn_api.go:146`, by time) is left out.

### 2.8 AuthController

The whole reconcile, one step per write, each of which may fail; CR, claim and Services
are read from caches. Objects of a deleted CR are collected unless they were released;
a CR of the same name may follow. Others may take the name of an optional Service;
Deployment controller, pods and load balancer are external. `history` records which
claims were to be kept, and which the cache showed.

The finalizer patches of the operator pass the webhook of AIStoreAuth (`Validate`), as every
update does: while a Secret that the live spec refers to is missing both are refused, also
for a CR that terminates (`aistoreauth_webhook.go:44`). Deletes and patches of the status
are not validated. `secret` is whether the Secrets are there, as one; they go and return at
any time (`SecretChanges`), and a pod that takes its environment from them does not start
while they are gone.

### 2.9 Admission

An object of one of the three kinds is created, updated and deleted by its user, with
every spec of a family; references appear, vanish and become unreadable, access is given
and taken; the operator adds and removes its finalizer through the same webhook. An
optional field is a set of at most one value. `Delete` rejects nothing.

## 3. The runs

Properties are stated, with the code they are about, in the modules.

| Run | Instance | Checks |
|---|---|---|
| `lifecycle` | 1 + 1 daemons, two nodes; bootstrap behind load balancers, teardown with host paths, shutdown and restart (two flips); one fault, a deletion at any time | `TypeOK`, `CleanupBeforeFinalize`, `GoneMeansClean`, `NoReturnToService`, `Implements` |
| `deletion` | bootstrap; teardown with host paths and one fault anywhere; teardown in a shutdown; fair | `DeletionInv`, `DeletionCompletes` |
| `service` | bootstrap; two flips, or one fault, in a running cluster, whose pods fail; the restart of one that was shut down, with one fault anywhere; fair | `ReachesReady` |
| `targets` | 2 targets, any one change of size (1 to 4), revision or both, decommission or maintenance; 3 targets and an upgrade; a bad upgrade and its repair; targets that were never scheduled; two faults; fair | `TypeOK`, `NoRebalanceInRollout`, `DecommissionMigrates`, `OneTargetAtATime`, `DrainedBeforeEviction`, `EventuallyConverges` |
| `primary` | 2 proxies and one edit: upgrade, smaller with another policy, both, larger; one fault, one proxy that restarts by itself; fair | `TypeOK`, `PrimaryMovedFirst`, `PolicyBeforeScaleDown`, `ProxiesSettle` |
| `templates` | 2 pods; every field changed, given or taken away, while a call fails or the operator is upgraded to a version that rolls nothing; upgrades with other security contexts or csi attributes, alone and with edits; pairs of edits of pods and config; TLS turned on; fair | `TypeOK`, `RolloutsAreAsked`, `EditsReachPods` |
| `autoscale` | 2 nodes of which one changes, with a limit, a budget, or a fixed size; one crash, one fault; fair | `TypeOK`, `DisruptionDefers`, `NodesServed`, `CertificateFollows` |
| `clients` | 21 histories of a cluster and its auth service; fair | `TypeOK`, `NoExpiredToken`, `NoRefusedClient`, `CallsRecover` |
| `authn` | 13 histories of a CR: deletions, edits, external access, a Secret that goes and may return; faults, drifts and crashes; fair | `TypeOK`, `ReadyMeansRolled`, `ShownClaimKept`, `OtherServiceKept`, `DeletionCompletes`, `AuthSettles` |
| `admission` | six families of specs, sequences of any length | `TypeOK`, `AdmittedSizes`, `ClaimTemplateHolds`, `OperatorNotLockedOut`, `ReferencesReviewed` |

*Bounds.* One daemon of a kind is enough for the life cycle: its decisions are about
none, some and all of them, and the proofs hold for any number. Two flips make a
shutdown and its abort or restart. One fault splits any reconcile at any step; two, in
`TargetController`, also split the retry. Three targets are the fewest with one before,
one at and one after the pod that is rolled; a change from two goes down, up, and up by
two at once, which disables rebalance first. Two proxies have one that the partition holds
back and one that it does not. Two nodes make a disruption of one pod within a budget of
one, and of both beyond it. Two values of a field tell changed from unchanged; the third
is for a second edit. `ReadyInit` and `ShutdownInit` are states that `Spec` of `AISLifecycle`
reaches, so runs from them explore a part of its behaviours, without the interleavings that
led there. A Secret that goes and returns is two changes, which stop at any point.
Nodes are symmetric in `lifecycle`, whose properties do not name one. Deadlock is not
checked where a system that has come to rest has nothing left to do, that is
everywhere but in `admission`.

*Fairness.* Weak fairness of: the worker of the controller (controller-runtime runs it
whenever a request is queued, and every error and delay queues one), the informers, the
StatefulSet, Deployment and garbage collection controllers and the kubelets, the allocation
of load balancers, AIStore's elections, and time passing for the jobs. None of users, faults,
disruptions, node changes, jobs succeeding, Secrets coming back, or the unspecific events of
`OwnedEvent`. `DeletionCompletes` of `AuthController` therefore promises that a deleted CR
goes, or that its Secret does; once a Secret is back, the requeue of the refused patch
releases the CR. In `ClientManager` the cluster is reconciled again and again: that is what
its failing calls cause. The liveness properties therefore do not rest on lucky wakeups:
without the requeue in `cleanupHost` (`MutantCleanupHost`) `DeletionCompletes` fails, without
the event for a taint (`MutantNodePredicate`) `NodesServed` does.

### Disagreements

Two runs show, with a counterexample, that the code does not do what a comment or a
document says of it. `PROJECT.json` quotes the lines under `findings`.

| Run | What happens |
|---|---|
| `settle` | a stale status write puts the state back to Ready after the proxies are gone; the shutdown then fails for ever in its forced config update |
| `rollback` | a rollback to the original revision is not recognised as a rollout: the pods of the abandoned revision stay |

The scenarios of the other runs are chosen with what the models showed in mind. With
others a specification does not have the property, and no run claims that it has:

- *Targets.* A second upgrade during the first deletes ordinal 0 while a later target is
  still down (`OneTargetAtATime`, wishes `<<W(3, 2), W(3, 3)>>` from `W(3, 1)`), and so does an
  upgrade to a revision whose pods find no node, which counts them as rolled out by
  design. An upgrade together with a scale-down removes a target that rejoined after its
  maintenance (`DrainedBeforeEviction`; with data that is kept from 2 targets on, with
  decommission from 3). A template change during a pending decommission
  turns rebalance off under it (`target_controllers.go:407` against the comment at 323). A
  scale-down with maintenance that is taken back leaves the target in maintenance, and
  targets that crash before they ever registered are not replaced by an upgrade.
- *Proxies.* A second template change in the middle of a rollout opens the partition early,
  so that the primary itself is replaced; a partition of 1 in the stale copy makes the merge
  patch leave the live partition at 0. A template change when all pods are of the new
  revision, but the status does not say so yet, leaves `CurrentReplicas` at 0, and
  `shouldResetPartition` never holds.
- *Restart config.* An edit of restart config before the first annotation is recorded
  (`cluster_controller.go:757`: no annotation becomes "initial" for the new config) restarts
  nobody. A restart config that is changed and changed back while pods are being replaced can
  leave one on the other. An edit of both pods and restart config causes two rollouts,
  because the wanted template is built before the config is sent; so does turning TLS on or
  off, which changes the probes and the restart config at once. A spec that spells out the
  security context that another version has by default may need one more rollout after an
  upgrade: a merge patch that is computed from a stale copy leaves out what that copy has. An
  annotation that is removed from the spec stays; affinity and node selectors are never
  synced.
- *Clients.* A new CA of the cluster is not noticed outside public mode, and neither is a
  change of `operatorSkipVerifyCrt`, until something else makes a new client: only that reads
  the CA file, while a token that expires is refreshed in the old one. With `authNSecretName`
  alone the client is made anew each time; an OAuth answer without a lifetime is fetched
  anew each time.
- *AuthN.* `retainPVC` reads the claim from the cache (`cleanup.go:101`): a CR that adopts a
  retained claim and is deleted before the cache shows the adoption takes the claim with it,
  though `aistoreauth_types.go:252` says that Retain keeps it; `ShownClaimKept` is the part
  that holds. A ConfigMap edit that is taken back before the rollout leaves a pod that read
  the other content. The Certificate is deleted by its name, whoever owns it. An AIStoreAuth
  whose Secret is gone for good neither gets a finalizer nor loses it: once deleted it stays
  until the Secret is back, for the webhook also validates updates of what terminates
  (`aistoreauth_webhook.go:44`), which that of profiles avoids
  (`aistoreauthprofile_webhook.go:59`). `DeletionCompletes` speaks of CRs whose Secrets are
  there, and `OperatorNotLockedOut` states the limit.
- *Admission.* An AIStore whose storage class was deleted cannot be released: the webhook
  checks the class also while the object terminates (`aistore_webhook.go:107`), which the
  webhook of profiles avoids (`aistoreauthprofile_webhook.go:59`). `OperatorNotLockedOut`
  therefore supposes that the class is there.

## 4. What is proved

The theorems hold for every value of the constants that satisfies the named assumptions of
the modules: types, at least one daemon, and in `ClientManager` a buffer and lifetimes that
exceed it. Sizes, revisions, nodes, the number of edits and faults, and what users and the
world do are arbitrary, unless a hypothesis says otherwise. Each invariant below was checked
with TLC on small instances before it was proved.

| Theorem | Statement |
|---|---|
| **`AISLifecycleProofs`** | |
| `TypeCorrect`, `DeletionInvariant` | `Spec => []TypeOK`, `Spec => []DeletionInv` |
| `CleanedBeforeFinalize`, `GoneIsClean` | `Spec => []CleanupBeforeFinalize`, `Spec => []GoneMeansClean` |
| `NeverBackInService`, `WantedIsKept` | `Spec => NoReturnToService`, `Spec => NothingDeletedWhileWanted` |
| `KeepsPromise` | `Spec => Implements`: the refinement of `ClusterPromise` |
| **`TargetControllerProofs`** | |
| `TargetTypes` | `Spec => []TypeOK` |
| `OneAtATime` | `Spec /\ OneEdit /\ Schedulable => OneTargetAtATime` |
| `DecommissionMovesData` | `Spec /\ OneEdit => []DecommissionMigrates` |
| `RolloutStaysQuiet` | `Spec /\ OneEdit /\ Schedulable => []NoRebalanceInRollout` |
| `DrainedFirst` | `Spec /\ OneEdit /\ Separate => DrainedBeforeEviction` |
| **`ProxyControllerProofs`** | |
| `ProxyTypes` | `Spec => []TypeOK` |
| `PolicyFirst` | `Spec /\ PolicyChangesOnce => PolicyBeforeScaleDown` |
| `PrimaryFirst` | `Spec /\ SingleEdit => PrimaryMovedFirst` |
| **`TemplateSyncProofs`** | |
| `TemplateTypes` | `Spec => []TypeOK` |
| `RolloutsOfOneEdit` | `Spec /\ OneEdit /\ DefaultsNotGiven => RolloutsAreAsked` |
| `NothingPassedOver` | not `ShouldUpdatePodTemplate` of the template of `s` and `t` implies `Carries(t, s)` |
| **`AutoscalingProofs`** | |
| `AutoscalingTypes`, `DisruptionsDefer` | `Spec => []TypeOK`, `Spec => DisruptionDefers` |
| **`ClientManagerProofs`** | |
| `ClientTypes`, `TokensInTime`, `RefusedIsReplaced` | `Spec => []TypeOK`, `Spec => []NoExpiredToken`, `Spec => NoRefusedClient` |
| **`AuthControllerProofs`** | |
| `AuthTypes`, `OthersKeepServices` | `Spec => []TypeOK`, `Spec => OtherServiceKept` |
| `RetainedClaimStays`, `ReadyVouches` | `Spec => ShownClaimKept`, `Spec => ReadyMeansRolled` |
| **`AdmissionProofs`** | |
| `AdmissionTypes`, `SizesAdmitted` | `Spec => []TypeOK`, `Spec => []AdmittedSizes` |
| `ClaimsStayWithTemplate`, `OperatorKeepsAccess` | `Spec => []ClaimTemplateHolds`, `Spec => []OperatorNotLockedOut` |
| `ReferencesNeedLeave` | `Spec => ReferencesReviewed` |

### 4.1 The life cycle

None of the properties is inductive, because what a reconcile does depends on the copies of
the CR that it and the cache hold. `DeletionInv` says what a stale copy can still be trusted
for:

- `CopiesLag`: a copy never shows a deletion, or a non-empty state, that the live CR does
  not have, and a CR with a state, or being deleted, has its finalizer;
- `CleanupOnlyDeleted`: every copy in a state of cleanup is one of a deleted CR;
- `PointOfNoReturn`: from the first sweep on the cache shows a deleted and initialized CR,
  for which `Route` never chooses service;
- `ServiceIsLive`: a reconcile in service or shutdown has no sweep behind it, so its late
  status writes and creations are harmless;
- `SweepStands`: whoever claims that the sweep is over, live CR, cache, program counter or
  a missing finalizer, is right.

Every action preserves it; the lemmas group the actions by what they write (service
steps that patch the status, service steps that move objects, the sweep, its status
writes, the user, the caches, Kubernetes). The run `deletion` checks the same formula.
The two action properties follow from the invariant and from `OnlyCleanupDeletes` and
`SweptStaysCleanup`.

`KeepsPromise` rests on the same invariant. Initial states map to initial states; every
action is an abstract step or a stutter: service steps provision, the sweep dismantles,
the first copy-free moment after it is `swept`, and `Finalize` releases. `DeletionInv` is what
excludes that an older copy of the CR makes anything after that.

### 4.2 Targets

The safety of a rollout and of a scale-down is proved for what one edit asks for
(`OneEdit`: size, revision or both), because with a second one it does not hold (section 3).
`Schedulable` (pods of the new revision find a node) and `Separate` (not a new revision and
fewer targets at once) exclude the other two known exceptions. The scenarios of the run
`targets` with one edit satisfy the first two, and all but one of them the third.

`EditInv` is the common invariant. Its parts say how far the edit has come, and who knows:

- `CopyInv`: a copy of the CR is the old one, or the new one, and then the live one is new;
- `RevOK`, `LagInv`: a new template reaches the StatefulSet, then its copies, and never goes
  back; the replicas change only after that is known, so the operator does not scale while
  the template is about to change;
- `UpgradeInv`: before the template changes no pod does. While a pod of the old revision is
  left (`Waiting`) the operator does not scale, no daemon is sent away, and the pods are
  replaced in order: all before a changed one are done. `StatusOK` says that a status, live,
  cached or in memory, that shows no rollout is right about it, however old: the counts of
  `UpdateStatus` can agree only if no old pod is left, and none comes back.

`OneAtATime` follows: a pod about to be deleted is the first that is still unchanged, all
before it serve and all after it are untouched. `MigrateInv` adds that a decommission
happens only in a cluster that shrinks, after rebalance was allowed, and that every step
that would disallow it belongs to a rollout or to a growing cluster. `QuietInv` adds that
after the last old pod is gone only the last target can be in maintenance, that it is until
its new pod is ready, and that a status which shows all ready has counted that pod.
`DrainInv` adds that all targets on their way out were sent away before the replicas are
lowered, and that none of them starts again.

### 4.3 Proxies

`PrimaryFirst` is for one edit, of size, template and policy in any combination
(`SingleEdit`), because with a second one it does not hold (section 3). An upgrade is of more
than one proxy, and fewer than all may restart by themselves: the only proxy can only be
replaced as the primary, and when no proxy is ready the code rolls out without protection.
All scenarios of the run `primary` satisfy this. `PrimaryParts` is the invariant:

- `OrderInv`: an upgrade takes the StatefulSet from the old template to the new one under a
  partition that protects the first pod, and then to the open partition; it is scaled after
  that. The copies in the cache and in a reconcile are behind, the cache by one phase at most;
- `EditInv`: nothing happens before the edit, and a reconcile works on the edited CR;
- `RolledInv`: before the upgrade all pods are there and one is ready; until the partition is
  opened the first pod is not touched;
- `PrepareInv`: a reconcile that goes on to patch the template, to open the partition or to
  lower the replicas has moved the primary to where that step leaves it alone;
- `PrimaryInv`: a primary that AIStore did not elect is below the replicas, and in an upgrade
  it is replaced already, or it is the first pod, behind the partition.

The last part gives the property; the others are why the operator's stale view cannot break it.

`PolicyInv`: a change of the policy goes one way, from the CR through the memory of a reconcile
to the StatefulSet and its cached copy; whoever has it got it from one that still has it. A
reconcile that scales therefore has the policy of the live StatefulSet, although it compared
with a stale one. `PolicyChangesOnce` allows any number of edits of which one changes the
policy; of a policy that is changed back a stale copy may show what the CR asks for.

### 4.4 Templates

For one edit, from spec `s` to spec `g` (`OneEdit`), and one upgrade of the operator, to any
version at any point, every template that the StatefulSet may have is at one of six places
(`Places`): at level 0 it is made of `s`, at level 1 of `g`, at level 2 of `g` and asks for the
restart; and it was made by the old operator or the new one. `RolloutInv` says that the level
never falls, that a level which the new operator has reached is not left to the old one, and
how far each copy lets it go:

- `SetInv`: the StatefulSet is at a place, and its cached copy is the same or behind it
  (`IsBehind`): one that differs was left behind by the operator that runs, because a new one
  fills its cache first;
- `CopyInv`: live, cached and remembered CR each lead to a level (`Stage`), and the
  StatefulSet is never above the copy that the next template is made of;
- `WantInv`: a template that a reconcile is about to send is of a level at least as high as
  what it has seen, and was wanted for a reason: another level, or a version that matters;
- `AskedInv`: what the edit and the upgrade ask for is on the account until a template that
  has it is there.

`OneEdit` is needed for the levels. `DefaultsNotGiven` (no value that a spec can give is what
a version has for a default security context) is needed for the merge patch: from a stale
copy of `s` by the old operator to `g` by the new one it leaves out what these two have in
common, and if `g` spells out the old default, while the live template has the new one, that
stays wrong until the next rollout.

The proof rests on lemmas about the operators, for all specs and versions. `NoUpdate`: a
version that does not matter and the initial restart annotation are no reason for an update.
`TemplateAdvances`, `PatchAdvances`: `syncPodTemplate` and the merge patch computed from a stale
copy still give exactly the template that is wanted. `CalcDuringEdit`: the restart annotation
changes once. The converse of `NoUpdate` is `NothingPassedOver`: where the comparison sees no
reason, the template carries all that the spec asks for, and the security contexts and
volumes of the operator that runs. It says of a single comparison what `EditsReachPods` says of
whole behaviours. Several edits are left to the run.

### 4.5 The others

- *Autoscaling.* `DeferInv`: while the budget holds since the start of a reconcile the status
  shows it, and a reconcile that goes on to lower the replicas has read a status that is not
  within it (`BudgetDefers`).
- *Clients.* `TokenInv`: the client knows when its token dies, and when the token was looked
  at it had the buffer before it. The proof needs that less than the buffer passes between
  the look and the call, which is what `Tick` allows.
- *AuthN.* `CachedIncarnation`: of the incarnation of a Service that lives, the cache knows
  whose it is; so a delete with a UID as its precondition hits only the operator's own.
  `ReleaseInv`: a reconcile that applies is about the CR that lives and has a finalizer, one
  that cleans up is about a CR being deleted or gone, and a claim that the cache showed as
  a CR's stays so until its cleanup releases it. `ReadyInv` adds what the generations vouch
  for between the apply of the Deployment and the patch of the status.
- *Admission.* `Validated`: whatever was edited, the spec in the API server has passed the
  checks that look at the spec alone. `ClaimInv`: from the spec that
  the operator knows, and from the one that the StatefulSets were made of, the object can
  only have come to one with the same claims or none.

Only model-checked: liveness (fairness and `ENABLED` are out of this prover's reach), and the
scenarios with several edits for the properties whose theorem is about one.

## 5. What is not modelled, and the plan

Left out for now: the second cluster in a namespace, which matters for the names of
cleanup jobs (`cluster_cleanup.go:68`); the cached lists by which Services and claims are
deleted (`api.go:375`); the content of host paths; the cache of TLS configurations; PDB,
claim retention and single load balancers of the targets; the admin client Deployment.

Proofs that are worth their while next: `RolloutsAreAsked` for any number of edits that do not
go back to an earlier spec, whose invariant has to rank the templates of all of them, and
`DrainedBeforeEviction` for the upgrades with a scale-down that have it.

Never: deep copies and manifests that are generated, construction of objects that no
decision depends on, charts, playbooks, dashboards and images. They have no state of
their own.
