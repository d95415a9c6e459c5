----------------------------- MODULE TemplateSync -----------------------------
(***************************************************************************)
(* When an edit of an AIStore restarts its daemons: the pod template that  *)
(* the builders make of the CR, shouldUpdatePodTemplate, which decides     *)
(* whether its difference to the StatefulSet is worth a rollout,           *)
(* syncPodTemplate, which takes it over, and the restart annotation by     *)
(* which handleConfigState asks for a rollout after a change of config     *)
(* that daemons read only when they start (net.http).                      *)
(*                                                                         *)
(* The StatefulSet is the one of the targets; that of the proxies is       *)
(* compared and patched by the same functions.  A cluster in service, of a *)
(* fixed size.  The order in which the pods are replaced is left to        *)
(* TargetController and ProxyController.                                   *)
(***************************************************************************)
EXTENDS Integers, Sequences

CONSTANTS
    Pods,       \* the pods of the StatefulSet
    Values,     \* values of a field of the spec, positive numbers
    HTTPS,      \* the values of net.http that turn on TLS
    Scenarios,  \* specs: of the CR, one after the other; faults: failed calls;
                \* to: the version that the operator is replaced by, if another one
    OldVersion  \* of the operator

(***************************************************************************)
(* The parts of the spec that a pod depends on.  0: not given.  net.http   *)
(* has a value, and a hash, also when it is not given.                     *)
(***************************************************************************)
Fields ==
    {"nodeImage", "env", "resources", "probes", "aisSecurity", "initImage", "sidecar",
     "sidecarResources", "security", "annotation", "label", "certificate", "priority",
     "tolerations", "http"}
Specs == {s \in [Fields -> {0} \cup Values] : s.http # 0}

(* A version of the operator, by what it puts into templates: its default  *)
(* security contexts and the attributes of csi volumes, which are          *)
(* compared, and what is not (build).                                      *)
Versions == [build : Nat, security : Nat, csi : Nat]

ASSUME TemplateValueAssumption ==
    Values \subseteq Nat \ {0} /\ Pods # {} /\ OldVersion \in Versions
ASSUME TemplateScenarioAssumption ==
    \A s \in Scenarios : /\ s.specs \in Seq(Specs) /\ Len(s.specs) > 0
                         /\ s.faults \in Nat /\ s.to \in Versions

VARIABLES
    scenario,  \* the scenario that is played
    edits,     \* edits of the user so far
    version,   \* of the running operator
    faults,    \* faults so far
    cr,        \* spec, rebalance condition, annotations: config hash and restart
    ccr,       \* the CR in the cache
    set,       \* the StatefulSet: template; observed, rolled: its status
    cset,      \* the StatefulSet in the cache
    config,    \* the global ConfigMap: what a daemon finds when it starts
    pods,      \* of each pod the template it was made of and the config it found
    pc,        \* the next step of the running reconcile
    mem,       \* the CR in its memory
    seen,      \* the template of the StatefulSet in its memory
    want,      \* the template it wants
    queued,    \* a request is in the work queue
    asked      \* edits of pods, and of config, that no rollout has followed yet

vars == <<scenario, edits, version, faults, cr, ccr, set, cset, config, pods, pc, mem, seen,
          want, queued, asked>>
operator == <<pc, mem, seen, want, queued>>
crs == <<cr, ccr>>
sets == <<set, cset>>

Restarts == [conf : {0} \cup Values, initial : BOOLEAN]
NoRestart == [conf |-> 0, initial |-> FALSE]

-----------------------------------------------------------------------------
(***************************************************************************)
(* The builders.  What the version v determines may differ between         *)
(* operators.                                                              *)
(***************************************************************************)
(* GetPodSecurityContext, GetAISSecurityContext: of the spec, or a default *)
(* of the operator.                                                        *)
SecurityContext(given, v) == IF given # 0 THEN given ELSE v.security

(* UseHTTPS: part of net.http; the scheme of the probes is made of it.     *)
UseHTTPS(s) == s.http \in HTTPS

(* targetPodSpec, NewLogSidecar: a container of the pod.  Init container   *)
(* and sidecar have a security context that no spec can change.            *)
Container(image, env, resources, probes, security, rest) ==
    [image |-> image, env |-> env, resources |-> resources, probes |-> probes,
     security |-> security, rest |-> rest]

Containers(s, v) ==
    LET ais     == Container(s.nodeImage, s.env, s.resources, <<s.probes, UseHTTPS(s)>>,
                             SecurityContext(s.aisSecurity, v), v.build)
        sidecar == Container(s.sidecar, v.build, s.sidecarResources, v.build,
                             SecurityContext(0, v), v.build)
    IN  IF s.sidecar = 0 THEN <<ais>> ELSE <<ais, sidecar>>

(* newVolumes: one more, with attributes by the operator, if a csi driver  *)
(* mounts the certificate.  The order is up to the operator.               *)
Volumes(s, v) ==
    LET base == <<"base", 0, 0>>
        tls  == <<"tls", s.certificate, v.csi>>
    IN  IF s.certificate = 0 THEN <<base>>
        ELSE IF v = OldVersion THEN <<base, tls>> ELSE <<tls, base>>

(* PrepareAnnotations: the restart annotation is there, if only empty.     *)
PrepareAnnotations(s, restart) == [user |-> s.annotation, restart |-> restart]

(* NewTargetSS.  Earlier operators did not set the label managed-by.       *)
Template(s, v, restart) ==
    [init        |-> <<Container(s.initImage, v.build, v.build, v.build,
                                 SecurityContext(0, v), v.build)>>,
     containers  |-> Containers(s, v),
     annotations |-> PrepareAnnotations(s, restart),
     labels      |-> [user |-> s.label, managed |-> v # OldVersion],
     security    |-> SecurityContext(s.security, v),
     volumes     |-> Volumes(s, v),
     priority    |-> s.priority,
     tolerations |-> s.tolerations]

-----------------------------------------------------------------------------
(***************************************************************************)
(* shouldUpdatePodTemplate: of the desired and the current template.       *)
(***************************************************************************)
(* Mutation: probes are left out.                                          *)
MutantContainerChecksFor(i) ==
    IF i = 1 THEN {"image", "env", "resources", "security"}
    ELSE {"image", "resources", "security"}

(* containerChecksFor: the AIS container is the first.                     *)
ContainerChecksFor(i) ==
    IF i = 1 THEN {"image", "env", "resources", "probes", "security"}
    ELSE {"image", "resources", "security"}

(* shouldUpdateContainerSpec *)
ShouldUpdateContainerSpec(d, c, checks) == \E field \in checks : d[field] # c[field]

ShouldUpdateInitContainers(d, c) ==
    \/ Len(d.init) # Len(c.init)
    \/ \E i \in DOMAIN d.init :
            ShouldUpdateContainerSpec(d.init[i], c.init[i], {"image", "security"})

ShouldUpdateContainers(d, c) ==
    \/ Len(d.containers) # Len(c.containers)
    \/ \E i \in DOMAIN d.containers :
            ShouldUpdateContainerSpec(d.containers[i], c.containers[i], ContainerChecksFor(i))

(* DeepDerivative of annotations: what is empty in d may be anything in c. *)
Derivative(d, c) ==
    /\ d.user # 0 => d.user = c.user
    /\ d.restart # NoRestart => d.restart = c.restart

(* Mutation: the initial restart annotation is like any other.             *)
MutantShouldUpdateAnnotations(d, c) == ~Derivative(d.annotations, c.annotations)

(* shouldUpdateAnnotations: the initial restart annotation alone is no     *)
(* reason.                                                                 *)
ShouldUpdateAnnotations(d, c) ==
    LET da == d.annotations
        ca == c.annotations
    IN  /\ ~Derivative(da, ca)
        /\ \/ ~da.restart.initial /\ da.restart # ca.restart
           \/ da.user # 0 /\ da.user # ca.user

OnlyManagedByLabelAdded(d, c) == ~c.managed /\ d.managed /\ d.user = c.user

ShouldUpdateLabels(d, c) ==
    d.labels # c.labels /\ ~OnlyManagedByLabelAdded(d.labels, c.labels)

(* shouldUpdateVolumes: by name, in any order.                             *)
ShouldUpdateVolumes(d, c) ==
    \/ Len(d.volumes) # Len(c.volumes)
    \/ \E i \in DOMAIN d.volumes : \A j \in DOMAIN c.volumes : d.volumes[i] # c.volumes[j]

ShouldUpdatePodSecurityContext(d, c) == d.security # c.security
ShouldUpdatePriorityClass(d, c) == d.priority # c.priority
ShouldUpdateTolerations(d, c) == d.tolerations # c.tolerations

ShouldUpdatePodTemplate(d, c) ==
    \/ ShouldUpdateInitContainers(d, c)
    \/ ShouldUpdateContainers(d, c)
    \/ ShouldUpdatePodSecurityContext(d, c)
    \/ ShouldUpdateAnnotations(d, c)
    \/ ShouldUpdateLabels(d, c)
    \/ ShouldUpdateVolumes(d, c)
    \/ ShouldUpdatePriorityClass(d, c)
    \/ ShouldUpdateTolerations(d, c)

(* syncPodTemplate: all that differs is taken over, compared or not;       *)
(* annotations that were only removed stay.                                *)
SyncPodTemplate(d, c) ==
    [d EXCEPT !.annotations = IF Derivative(@, c.annotations) THEN c.annotations ELSE @]

(* MergeFrom(from): only what to changes goes out; maps key by key.        *)
Merge(live, from, to) ==
    [k \in DOMAIN live |-> IF to[k] # from[k] THEN to[k] ELSE live[k]]

Patched(live, from, to) ==
    [Merge(live, from, to) EXCEPT
        !.annotations = Merge(live.annotations, from.annotations, to.annotations),
        !.labels = Merge(live.labels, from.labels, to.labels)]

-----------------------------------------------------------------------------
(***************************************************************************)
(* The config.                                                             *)
(***************************************************************************)
(* GenerateGlobalConfig, HashGlobalConfig, HashRestartConfigs: a hash      *)
(* stands for what it is made of.                                          *)
HashGlobalConfig(c) == [http |-> c.spec.http, rebalance |-> c.rebalance]
HashRestartConfigs(c) == c.spec.http

(* Mutation: the restart config is hashed before that of the spec is merged. *)
MutantCalcRestartConfigAnnotation(c) == [conf |-> 0, initial |-> c.restart = NoRestart]

CalcRestartConfigAnnotation(c) ==
    LET hash == HashRestartConfigs(c)
    IN  IF c.restart = NoRestart THEN [conf |-> hash, initial |-> TRUE]
        ELSE IF c.restart.initial /\ c.restart.conf = hash THEN c.restart
        ELSE [conf |-> hash, initial |-> FALSE]

-----------------------------------------------------------------------------
First == scenario.specs[1]

(* The types of the state.                                                 *)
TypeOK ==
    /\ scenario \in Scenarios /\ edits \in 1..Len(scenario.specs)
    /\ version \in {OldVersion, scenario.to} /\ faults \in 0..scenario.faults
    /\ \A c \in {cr, ccr, mem} :
        /\ c.spec \in Specs /\ c.rebalance \in BOOLEAN
        /\ c.restart \in Restarts /\ c.restart.conf \in Values
        /\ c.hash \in [http : Values, rebalance : BOOLEAN]
    /\ \A s \in {set, cset} : s.observed \in BOOLEAN /\ s.rolled \in BOOLEAN
    /\ config \in Values
    /\ \A p \in Pods : pods[p].http \in Values
    /\ \A t \in {set.template, cset.template, seen, want} \cup {pods[p].template : p \in Pods} :
        /\ t.annotations \in [user : {0} \cup Values, restart : Restarts]
        /\ t.labels \in [user : {0} \cup Values, managed : BOOLEAN]
    /\ pc \in {"idle", "apply", "state", "disable", "force", "patch", "enable", "config"}
    /\ queued \in BOOLEAN
    /\ asked \in [pods : Nat, config : Nat]

(* A cluster that an operator of the old version has brought up: its       *)
(* template was made before there was a restart annotation; or one that    *)
(* was rolled since, for an earlier config.                                *)
Init ==
    /\ scenario \in Scenarios
    /\ edits = 1 /\ version = OldVersion /\ faults = 0
    /\ \E initial \in BOOLEAN :
        LET restart  == [conf |-> First.http, initial |-> initial]
            template == Template(First, OldVersion, IF initial THEN NoRestart ELSE restart)
        IN  /\ cr = [spec |-> First, rebalance |-> TRUE, restart |-> restart,
                     hash |-> [http |-> First.http, rebalance |-> TRUE]]
            /\ set = [template |-> template, observed |-> TRUE, rolled |-> TRUE]
            /\ pods = [p \in Pods |-> [template |-> template, http |-> First.http]]
    /\ ccr = cr /\ cset = set /\ config = First.http
    /\ pc = "idle" /\ mem = cr /\ seen = set.template /\ want = set.template
    /\ queued = FALSE /\ asked = [pods |-> 0, config |-> 0]

-----------------------------------------------------------------------------
(***************************************************************************)
(* The reconcile.                                                          *)
(***************************************************************************)
Goto(step) == pc' = step /\ UNCHANGED <<seen, want, queued>>

Return(requeue) ==
    /\ pc' = "idle" /\ queued' = (queued \/ requeue)
    /\ UNCHANGED <<seen, want>>

(* Reconcile: the CR comes from the cache.                                 *)
Begin ==
    /\ pc = "idle" /\ queued
    /\ pc' = "apply" /\ mem' = ccr /\ queued' = FALSE
    /\ UNCHANGED <<scenario, edits, version, faults, crs, sets, config, pods, seen, want, asked>>

(* reconcileResources: the global ConfigMap is applied.                    *)
ReconcileResources ==
    /\ pc = "apply"
    /\ config' = mem.spec.http
    /\ Goto("state")
    /\ UNCHANGED <<scenario, edits, version, faults, crs, sets, pods, mem, asked>>

(* handleTargetState: a status that lags and a rollout are waited for, but *)
(* a new template is not held up by the rollout of another.                *)
HandleTargetState ==
    /\ pc = "state"
    /\ LET desired == Template(mem.spec, version, mem.restart)
       IN  IF ~cset.observed THEN Return(TRUE)
           ELSE IF ShouldUpdatePodTemplate(desired, cset.template)
           THEN pc' = "disable" /\ want' = desired /\ seen' = cset.template /\ UNCHANGED queued
           ELSE IF ~cset.rolled THEN Return(TRUE)
           ELSE Goto("enable")
    /\ UNCHANGED <<scenario, edits, version, faults, crs, sets, config, pods, mem, asked>>

(* disableRebalance, enableRebalanceCondition: the answer to a patch of    *)
(* the status replaces the CR in memory.                                   *)
SetRebalanceCondition(step, next, to) ==
    /\ pc = step
    /\ IF mem.rebalance /\ to THEN UNCHANGED <<cr, mem>>
       ELSE cr' = [cr EXCEPT !.rebalance = to] /\ mem' = cr'
    /\ Goto(next)
    /\ UNCHANGED <<scenario, edits, version, faults, ccr, sets, config, pods, asked>>

DisableRebalance == SetRebalanceCondition("disable", "force", FALSE)
EnableRebalanceCondition == SetRebalanceCondition("enable", "config", TRUE)

(* handleConfigState, patchAISAnnotations: an initial restart annotation   *)
(* is recorded only along with a changed config.                           *)
HandleConfigState ==
    /\ pc \in {"force", "config"}
    /\ LET new     == [mem EXCEPT !.hash = HashGlobalConfig(mem),
                                  !.restart = CalcRestartConfigAnnotation(mem)]
           requeue == new.restart # mem.restart /\ ~new.restart.initial
       IN  IF requeue \/ new.hash # mem.hash
           THEN cr' = Merge(cr, mem, new) /\ mem' = cr'
           ELSE UNCHANGED <<cr, mem>>
    /\ IF pc = "force" THEN Goto("patch") ELSE Return(FALSE)
    /\ UNCHANGED <<scenario, edits, version, faults, ccr, sets, config, pods, asked>>

(* A new template that asks for a restart, by its annotation.              *)
AsksRestart(old, new) ==
    new.annotations.restart # old.annotations.restart /\ ~new.annotations.restart.initial

(* syncTargetPodSpec: the template that was wanted before the config.      *)
SyncTargetPodSpec ==
    /\ pc = "patch"
    /\ LET new == Patched(set.template, seen, SyncPodTemplate(want, seen))
       IN  /\ set' = IF new = set.template THEN set
                     ELSE [template |-> new, observed |-> FALSE, rolled |-> FALSE]
           /\ asked' = IF new = set.template THEN asked
                       ELSE IF AsksRestart(set.template, new)
                       THEN [asked EXCEPT !.config = IF @ > 0 THEN @ - 1 ELSE 0]
                       ELSE [asked EXCEPT !.pods = IF @ > 0 THEN @ - 1 ELSE 0]
    /\ Return(TRUE)
    /\ UNCHANGED <<scenario, edits, version, faults, crs, cset, config, pods, mem>>

(* A call fails, or the operator crashes.                                  *)
Fail ==
    /\ pc # "idle" /\ faults < scenario.faults
    /\ faults' = faults + 1
    /\ Return(TRUE)
    /\ UNCHANGED <<scenario, edits, version, crs, sets, config, pods, mem, asked>>

Reconciler ==
    \/ Begin \/ ReconcileResources \/ HandleTargetState \/ DisableRebalance
    \/ EnableRebalanceCondition \/ HandleConfigState \/ SyncTargetPodSpec

-----------------------------------------------------------------------------
(***************************************************************************)
(* The environment.                                                        *)
(***************************************************************************)
(* What pods are made of, apart from the config that they read.            *)
PodsChange(s, t) == [t EXCEPT !.http = s.http] # s \/ UseHTTPS(t) # UseHTTPS(s)

UserEdits ==
    /\ edits < Len(scenario.specs)
    /\ edits' = edits + 1
    /\ LET s == scenario.specs[edits']
       IN  /\ cr' = [cr EXCEPT !.spec = s]
           /\ asked' = [pods   |-> asked.pods + (IF PodsChange(cr.spec, s) THEN 1 ELSE 0),
                        config |-> asked.config + (IF s.http # cr.spec.http THEN 1 ELSE 0)]
    /\ UNCHANGED <<scenario, version, faults, ccr, sets, config, pods, operator>>

(* Whether a version makes anything that is compared differently, for s.   *)
VersionMatters(v, w, s) ==
    v.security # w.security \/ (s.certificate # 0 /\ v.csi # w.csi)

(* The operator is replaced by one of another version, at any point.  The  *)
(* new one fills its caches before its first reconcile.                    *)
UpgradeOperator ==
    /\ version = OldVersion /\ scenario.to # OldVersion
    /\ version' = scenario.to
    /\ pc' = "idle" /\ queued' = TRUE /\ ccr' = cr /\ cset' = set
    /\ asked' = IF VersionMatters(version, version', cr.spec)
                THEN [asked EXCEPT !.pods = @ + 1] ELSE asked
    /\ UNCHANGED <<scenario, edits, faults, cr, set, config, pods, mem, seen, want>>

SyncCR ==
    /\ ccr # cr /\ ccr' = cr /\ queued' = TRUE
    /\ UNCHANGED <<scenario, edits, version, faults, cr, sets, config, pods, pc, mem, seen,
                   want, asked>>

SyncSet ==
    /\ cset # set /\ cset' = set /\ queued' = TRUE
    /\ UNCHANGED <<scenario, edits, version, faults, crs, set, config, pods, pc, mem, seen,
                   want, asked>>

(* A pod is replaced by one of the current template.                       *)
RestartPod(p) ==
    /\ pods[p].template # set.template
    /\ pods' = [pods EXCEPT ![p] = [template |-> set.template, http |-> config]]
    /\ UNCHANGED <<scenario, edits, version, faults, crs, sets, config, operator, asked>>

UpdateStatus ==
    LET new == [set EXCEPT !.observed = TRUE,
                           !.rolled = \A p \in Pods : pods[p].template = set.template]
    IN  /\ set # new /\ set' = new
        /\ UNCHANGED <<scenario, edits, version, faults, crs, cset, config, pods, operator, asked>>

Next ==
    \/ Reconciler \/ Fail \/ UserEdits \/ UpgradeOperator \/ SyncCR \/ SyncSet \/ UpdateStatus
    \/ \E p \in Pods : RestartPod(p)

Spec == Init /\ [][Next]_vars

(* Requests are worked off, informers deliver, a rollout goes on.          *)
FairSpec ==
    /\ Spec
    /\ WF_vars(Reconciler) /\ WF_vars(SyncCR) /\ WF_vars(SyncSet) /\ WF_vars(UpdateStatus)
    /\ \A p \in Pods : WF_vars(RestartPod(p))

-----------------------------------------------------------------------------
(***************************************************************************)
(* Properties.                                                             *)
(***************************************************************************)
(* Pods are restarted at most once for an edit of what they are made of,   *)
(* once for an edit of config that needs it (both, if it turns TLS on or   *)
(* off), and once for an operator of another version, if it has other      *)
(* security contexts or csi attributes, which are compared to that end     *)
(* (containerChecks); neither what else another version makes differently, *)
(* nor the first restart annotation, nor stale caches and repeated         *)
(* reconciles cause a rollout (shouldUpdatePodTemplate).                   *)
RolloutsAreAsked ==
    [][set'.template # set.template =>
          IF AsksRestart(set.template, set'.template) THEN asked.config > 0 ELSE asked.pods > 0]_vars

(* What the user asks for in s is in template t, and what the operator     *)
(* that runs puts in where s says nothing; an annotation may be left over. *)
Carries(t, s) ==
    LET d == Template(s, version, NoRestart)
    IN  /\ t.init[1].image = s.initImage /\ t.init[1].security = version.security
        /\ Len(t.containers) = Len(d.containers)
        /\ \A i \in DOMAIN d.containers :
            /\ t.containers[i].image = d.containers[i].image
            /\ t.containers[i].resources = d.containers[i].resources
            /\ t.containers[i].security = d.containers[i].security
        /\ t.containers[1].env = s.env /\ t.containers[1].probes = <<s.probes, UseHTTPS(s)>>
        /\ t.security = SecurityContext(s.security, version)
        /\ s.annotation # 0 => t.annotations.user = s.annotation
        /\ t.labels.user = s.label
        /\ {t.volumes[i] : i \in DOMAIN t.volumes} = {d.volumes[i] : i \in DOMAIN d.volumes}
        /\ t.priority = s.priority /\ t.tolerations = s.tolerations

(* Every edit reaches every pod: in the end all of them are made of the    *)
(* last spec, by the operator that runs in all that is compared, and have  *)
(* started on its config, also when the config changes while the pods are  *)
(* replaced for another reason (syncPodTemplate,                           *)
(* calcRestartConfigAnnotation).                                           *)
EditsReachPods ==
    <>[]\A p \in Pods : pods[p].http = cr.spec.http /\ Carries(pods[p].template, cr.spec)
=============================================================================
