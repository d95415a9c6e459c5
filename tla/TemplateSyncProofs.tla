------------------------- MODULE TemplateSyncProofs -------------------------
(***************************************************************************)
(* Proofs about TemplateSync, for any pods, values of the fields, faults   *)
(* and upgrades of the operator: the types, that one edit of an AIStore    *)
(* and an upgrade cause no more rollouts than they ask for, and that the   *)
(* comparison of templates passes over nothing that a spec or the operator *)
(* asks for.                                                               *)
(***************************************************************************)
EXTENDS TemplateSync, TLAPS

(***************************************************************************)
(* The shape of templates, StatefulSets and CRs.                           *)
(***************************************************************************)
Annotations == [user : {0} \cup Values, restart : Restarts]
Labels      == [user : {0} \cup Values, managed : BOOLEAN]

TemplateFields ==
    {"init", "containers", "annotations", "labels", "security", "volumes", "priority",
     "tolerations"}

IsTemplate(t) ==
    /\ t = [k \in TemplateFields |-> t[k]]
    /\ t.annotations \in Annotations /\ t.labels \in Labels

IsSet(x) ==
    /\ x = [template |-> x.template, observed |-> x.observed, rolled |-> x.rolled]
    /\ IsTemplate(x.template) /\ x.observed \in BOOLEAN /\ x.rolled \in BOOLEAN

Hashes == [http : Values, rebalance : BOOLEAN]

CRs ==
    [spec : Specs, rebalance : BOOLEAN, restart : [conf : Values, initial : BOOLEAN],
     hash : Hashes]

LEMMA SpecTypes ==
    ASSUME NEW s \in Specs
    PROVE  /\ \A f \in Fields : s[f] \in {0} \cup Values
           /\ s.http \in Values /\ s.http # 0
           /\ s.annotation \in {0} \cup Values /\ s.label \in {0} \cup Values
<1>1. s \in [Fields -> {0} \cup Values] /\ s.http # 0
  BY DEF Specs
<1>2. "http" \in Fields /\ "annotation" \in Fields /\ "label" \in Fields
  BY DEF Fields
<1> QED
  BY <1>1, <1>2

(* NewTargetSS: its init container.                                        *)
InitContainer(s, v) ==
    Container(s.initImage, v.build, v.build, v.build, SecurityContext(0, v), v.build)

LEMMA TemplateShape ==
    ASSUME NEW s \in Specs, NEW v, NEW r \in Restarts
    PROVE  IsTemplate(Template(s, v, r))
<1> DEFINE t == Template(s, v, r)
           a == <<InitContainer(s, v)>>
           e == SecurityContext(s.security, v)
           b == Containers(s, v)
           c == Volumes(s, v)
<1>1. t = [init |-> a, containers |-> b,
           annotations |-> [user |-> s.annotation, restart |-> r],
           labels |-> [user |-> s.label, managed |-> v # OldVersion],
           security |-> e, volumes |-> c, priority |-> s.priority,
           tolerations |-> s.tolerations]
  BY DEF Template, PrepareAnnotations, InitContainer
<1> HIDE DEF a, b, c, e, t
<1>2. t = [k \in TemplateFields |-> t[k]]
  BY <1>1 DEF TemplateFields
<1>3. t.annotations \in Annotations /\ t.labels \in Labels
  BY <1>1, SpecTypes DEF Annotations, Labels
<1> QED
  BY <1>2, <1>3 DEF IsTemplate, t

(* syncPodTemplate *)
LEMMA SyncShape ==
    ASSUME NEW d, NEW c, IsTemplate(d), IsTemplate(c)
    PROVE  IsTemplate(SyncPodTemplate(d, c))
<1> DEFINE a == IF Derivative(d.annotations, c.annotations) THEN c.annotations ELSE d.annotations
<1>1. SyncPodTemplate(d, c) = [d EXCEPT !.annotations = a]
  BY DEF SyncPodTemplate
<1>2. a \in Annotations
  BY DEF IsTemplate
<1> HIDE DEF a
<1>3. d = [k \in TemplateFields |-> d[k]] /\ d.labels \in Labels
  BY DEF IsTemplate
<1>4. [d EXCEPT !.annotations = a] = [k \in TemplateFields |-> [d EXCEPT !.annotations = a][k]]
  BY <1>3
<1>5. [d EXCEPT !.annotations = a].annotations = a /\ [d EXCEPT !.annotations = a].labels = d.labels
  BY <1>3 DEF TemplateFields
<1> QED
  BY <1>1, <1>2, <1>3, <1>4, <1>5 DEF IsTemplate

(* A merge patch of a map with two keys.                                   *)
LEMMA MergeTypes ==
    ASSUME NEW x \in Annotations, NEW y \in Annotations, NEW z \in Annotations,
           NEW k \in Labels, NEW l \in Labels, NEW m \in Labels
    PROVE  /\ Merge(x, y, z) \in Annotations
           /\ Merge(k, l, m) \in Labels
<1>1. DOMAIN x = {"user", "restart"} /\ DOMAIN k = {"user", "managed"}
  BY DEF Annotations, Labels
<1>2. Merge(x, y, z) \in Annotations
  BY <1>1 DEF Merge, Annotations
<1>3. Merge(k, l, m) \in Labels
  BY <1>1 DEF Merge, Labels
<1> QED
  BY <1>2, <1>3

LEMMA PatchedShape ==
    ASSUME NEW x, NEW y, NEW z, IsTemplate(x), IsTemplate(y), IsTemplate(z)
    PROVE  IsTemplate(Patched(x, y, z))
<1> DEFINE a == Merge(x.annotations, y.annotations, z.annotations)
           l == Merge(x.labels, y.labels, z.labels)
           m == Merge(x, y, z)
           p == [m EXCEPT !.annotations = a, !.labels = l]
<1>1. a \in Annotations /\ l \in Labels
  BY MergeTypes DEF IsTemplate
<1>2. m = [k \in TemplateFields |-> m[k]]
  BY DEF Merge, IsTemplate
<1>3. Patched(x, y, z) = p
  BY DEF Patched
<1> HIDE DEF a, l, m
<1>4. p = [k \in TemplateFields |-> p[k]] /\ p.annotations = a /\ p.labels = l
  BY <1>2 DEF TemplateFields
<1> QED
  BY <1>1, <1>3, <1>4 DEF IsTemplate

(***************************************************************************)
(* Types.                                                                  *)
(***************************************************************************)
Steps == {"idle", "apply", "state", "disable", "force", "patch", "enable", "config"}

(* The scenario.                                                           *)
PlayType ==
    /\ scenario \in Scenarios /\ edits \in 1..Len(scenario.specs)
    /\ version \in {OldVersion, scenario.to} /\ faults \in 0..scenario.faults
(* The CR and its copies.                                                  *)
CRType == cr \in CRs /\ ccr \in CRs /\ mem \in CRs
(* The StatefulSet, its pods and the config they read.                     *)
SetType == IsSet(set) /\ IsSet(cset) /\ config \in Values
PodType ==
    /\ pods = [p \in Pods |-> pods[p]]
    /\ \A p \in Pods : pods[p].http \in Values /\ IsTemplate(pods[p].template)
(* The reconcile.                                                          *)
WorkType ==
    /\ IsTemplate(seen) /\ IsTemplate(want) /\ pc \in Steps /\ queued \in BOOLEAN
AskedType == asked \in [pods : Nat, config : Nat]

TypeInv == PlayType /\ CRType /\ SetType /\ PodType /\ WorkType /\ AskedType

LEMMA ScenarioSpecs ==
    ASSUME scenario \in Scenarios
    PROVE  /\ Len(scenario.specs) \in Nat /\ Len(scenario.specs) > 0
           /\ \A i \in 1..Len(scenario.specs) : scenario.specs[i] \in Specs
           /\ First \in Specs /\ scenario.faults \in Nat
<1>1. scenario.specs \in Seq(Specs) /\ Len(scenario.specs) > 0 /\ scenario.faults \in Nat
  BY TemplateScenarioAssumption
<1>2. Len(scenario.specs) \in Nat /\ \A i \in 1..Len(scenario.specs) : scenario.specs[i] \in Specs
  BY <1>1
<1> QED
  BY <1>1, <1>2 DEF First

LEMMA TypeInvImpliesTypeOK ==
    ASSUME TypeInv
    PROVE  TypeOK
<1>1. \A c \in CRs : /\ c.spec \in Specs /\ c.rebalance \in BOOLEAN
                     /\ c.restart \in Restarts /\ c.restart.conf \in Values
                     /\ c.hash \in [http : Values, rebalance : BOOLEAN]
  BY DEF CRs, Hashes, Restarts
<1>2. \A c \in {cr, ccr, mem} : c \in CRs
  BY DEF TypeInv, CRType
<1>3. \A t \in {set.template, cset.template, seen, want} \cup {pods[p].template : p \in Pods} :
        IsTemplate(t)
  BY DEF TypeInv, SetType, IsSet, PodType, WorkType
<1>4. \A t \in {set.template, cset.template, seen, want} \cup {pods[p].template : p \in Pods} :
        /\ t.annotations \in [user : {0} \cup Values, restart : Restarts]
        /\ t.labels \in [user : {0} \cup Values, managed : BOOLEAN]
  BY <1>3 DEF IsTemplate, Annotations, Labels
<1>5. \A s \in {set, cset} : s.observed \in BOOLEAN /\ s.rolled \in BOOLEAN
  BY DEF TypeInv, SetType, IsSet
<1>6. /\ PlayType /\ config \in Values /\ \A p \in Pods : pods[p].http \in Values
      /\ pc \in Steps /\ queued \in BOOLEAN /\ AskedType
  BY DEF TypeInv, SetType, PodType, WorkType
<1> HIDE DEF TypeInv
<1>7. \A c \in {cr, ccr, mem} :
        /\ c.spec \in Specs /\ c.rebalance \in BOOLEAN
        /\ c.restart \in Restarts /\ c.restart.conf \in Values
        /\ c.hash \in [http : Values, rebalance : BOOLEAN]
  BY <1>1, <1>2
<1> QED
  BY <1>4, <1>5, <1>6, <1>7, Zenon DEF TypeOK, PlayType, Steps, AskedType

LEMMA InitTypes == Init => TypeInv
<1> SUFFICES ASSUME Init PROVE TypeInv
  OBVIOUS
<1>1. scenario \in Scenarios /\ edits = 1 /\ version = OldVersion /\ faults = 0
  BY DEF Init
<1>2. First \in Specs /\ First.http \in Values
  BY <1>1, ScenarioSpecs, SpecTypes
<1>3. PICK b \in BOOLEAN :
        LET restart  == [conf |-> First.http, initial |-> b]
            template == Template(First, OldVersion, IF b THEN NoRestart ELSE restart)
        IN  /\ cr = [spec |-> First, rebalance |-> TRUE, restart |-> restart,
                     hash |-> [http |-> First.http, rebalance |-> TRUE]]
            /\ set = [template |-> template, observed |-> TRUE, rolled |-> TRUE]
            /\ pods = [p \in Pods |-> [template |-> template, http |-> First.http]]
  BY DEF Init
<1> DEFINE restart  == [conf |-> First.http, initial |-> b]
           r        == IF b THEN NoRestart ELSE restart
           template == Template(First, OldVersion, r)
<1>4. r \in Restarts
  BY <1>2 DEF Restarts, NoRestart
<1>5. IsTemplate(template)
  BY <1>2, <1>4, TemplateShape
<1>6. cr \in CRs
  BY <1>2, <1>3 DEF CRs, Hashes
<1>7. set = [template |-> template, observed |-> TRUE, rolled |-> TRUE]
  BY <1>3
<1>8. pods = [p \in Pods |-> [template |-> template, http |-> First.http]]
  BY <1>3
<1> HIDE DEF template
<1>9. IsSet(set) /\ set.template = template
  BY <1>5, <1>7 DEF IsSet
<1>10. PodType
  BY <1>2, <1>5, <1>8 DEF PodType
<1>11. PlayType
  BY <1>1, ScenarioSpecs DEF PlayType
<1>12. CRType /\ SetType
  BY <1>2, <1>6, <1>9 DEF Init, CRType, SetType
<1>13. WorkType /\ AskedType
  BY <1>5, <1>9 DEF Init, WorkType, AskedType, Steps
<1> QED
  BY <1>10, <1>11, <1>12, <1>13 DEF TypeInv

(* patchAISAnnotations: a merge patch of the CR.                           *)
LEMMA MergeCR ==
    ASSUME NEW x \in CRs, NEW y \in CRs, NEW z \in CRs
    PROVE  Merge(x, y, z) \in CRs
<1>1. DOMAIN x = {"spec", "rebalance", "restart", "hash"}
  BY DEF CRs
<1> QED
  BY <1>1 DEF Merge, CRs

(* What handleConfigState computes of the CR in its memory.                *)
NewConfigState(c) ==
    [c EXCEPT !.hash = HashGlobalConfig(c), !.restart = CalcRestartConfigAnnotation(c)]

LEMMA NewConfigStateTypes ==
    ASSUME NEW c \in CRs
    PROVE  NewConfigState(c) \in CRs
<1>1. c.spec \in Specs /\ c.spec.http \in Values /\ c.rebalance \in BOOLEAN
  BY SpecTypes DEF CRs
<1>2. c.restart \in [conf : Values, initial : BOOLEAN]
  BY DEF CRs
<1>3. HashGlobalConfig(c) \in Hashes
  BY <1>1 DEF HashGlobalConfig, Hashes
<1>4. CalcRestartConfigAnnotation(c) \in [conf : Values, initial : BOOLEAN]
  BY <1>1, <1>2 DEF CalcRestartConfigAnnotation, HashRestartConfigs
<1> QED
  BY <1>3, <1>4 DEF NewConfigState, CRs

LEMMA ReconcileTypes ==
    ASSUME TypeInv, Begin \/ ReconcileResources \/ HandleTargetState \/ DisableRebalance
                    \/ EnableRebalanceCondition
    PROVE  TypeInv'
<1> USE DEF TypeInv, PlayType, CRType, SetType, PodType, WorkType, AskedType, Goto, Return, crs,
            sets
<1>1. CASE Begin
  BY <1>1 DEF Begin, Steps
<1>2. CASE ReconcileResources
  <2>1. mem.spec.http \in Values
    BY SpecTypes DEF CRs
  <2> QED
    BY <1>2, <2>1 DEF ReconcileResources, Steps
<1>3. CASE HandleTargetState
  <2>1. mem.spec \in Specs /\ mem.restart \in Restarts
    BY DEF CRs, Restarts
  <2>2. IsTemplate(Template(mem.spec, version, mem.restart))
    BY <2>1, TemplateShape
  <2>3. IsTemplate(cset.template)
    BY DEF IsSet
  <2>4. IsTemplate(seen') /\ IsTemplate(want') /\ pc' \in Steps /\ queued' \in BOOLEAN
    BY <1>3, <2>2, <2>3 DEF HandleTargetState, Steps
  <2> QED
    BY <1>3, <2>4 DEF HandleTargetState
<1>4. ASSUME NEW step, NEW next \in Steps, NEW to \in BOOLEAN, SetRebalanceCondition(step, next, to)
      PROVE  TypeInv'
  <2>1. [cr EXCEPT !.rebalance = to] \in CRs
    BY DEF CRs
  <2>2. cr' \in CRs /\ mem' \in CRs
    BY <1>4, <2>1 DEF SetRebalanceCondition
  <2> QED
    BY <1>4, <2>2 DEF SetRebalanceCondition
<1>5. CASE DisableRebalance
  <2>1. "force" \in Steps /\ FALSE \in BOOLEAN
    BY DEF Steps
  <2> QED
    BY <1>4, <1>5, <2>1 DEF DisableRebalance
<1>6. CASE EnableRebalanceCondition
  <2>1. "config" \in Steps /\ TRUE \in BOOLEAN
    BY DEF Steps
  <2> QED
    BY <1>4, <1>6, <2>1 DEF EnableRebalanceCondition
<1> QED
  BY <1>1, <1>2, <1>3, <1>5, <1>6

LEMMA ConfigStateTypes ==
    ASSUME TypeInv, HandleConfigState
    PROVE  TypeInv'
<1> USE DEF TypeInv, PlayType, CRType, SetType, PodType, WorkType, AskedType, Goto, Return, sets
<1>1. NewConfigState(mem) \in CRs
  BY NewConfigStateTypes
<1>2. Merge(cr, mem, NewConfigState(mem)) \in CRs
  BY <1>1, MergeCR
<1>3. cr' \in CRs /\ mem' \in CRs
  BY <1>2 DEF HandleConfigState, NewConfigState
<1>4. /\ pc' \in Steps /\ queued' \in BOOLEAN
      /\ UNCHANGED <<scenario, edits, version, faults, ccr, sets, config, pods, asked, seen, want>>
  BY DEF HandleConfigState, Steps
<1> QED
  BY <1>3, <1>4

LEMMA PatchTypes ==
    ASSUME TypeInv, SyncTargetPodSpec
    PROVE  TypeInv'
<1> USE DEF TypeInv, PlayType, CRType, SetType, PodType, WorkType, AskedType, Return, crs
<1> DEFINE new == Patched(set.template, seen, SyncPodTemplate(want, seen))
<1>1. IsTemplate(new)
  BY SyncShape, PatchedShape DEF IsSet
<1>2. /\ set' = IF new = set.template THEN set
                ELSE [template |-> new, observed |-> FALSE, rolled |-> FALSE]
      /\ asked' = IF new = set.template THEN asked
                  ELSE IF AsksRestart(set.template, new)
                  THEN [asked EXCEPT !.config = IF @ > 0 THEN @ - 1 ELSE 0]
                  ELSE [asked EXCEPT !.pods = IF @ > 0 THEN @ - 1 ELSE 0]
  BY DEF SyncTargetPodSpec
<1> HIDE DEF new
<1>3. IsSet(set')
  BY <1>1, <1>2 DEF IsSet
<1>4. asked' \in [pods : Nat, config : Nat]
  BY <1>2
<1>5. /\ pc' \in Steps /\ queued' \in BOOLEAN
      /\ UNCHANGED <<scenario, edits, version, faults, crs, cset, config, pods, mem, seen, want>>
  BY DEF SyncTargetPodSpec, Steps
<1> QED
  BY <1>3, <1>4, <1>5

LEMMA EnvironmentTypes ==
    ASSUME TypeInv, \/ Fail \/ UserEdits \/ UpgradeOperator \/ SyncCR \/ SyncSet \/ UpdateStatus
                    \/ \E p \in Pods : RestartPod(p)
    PROVE  TypeInv'
<1> USE DEF TypeInv, PlayType, CRType, SetType, PodType, WorkType, AskedType, Return, crs, sets,
            operator
<1>1. CASE Fail
  <2>1. faults + 1 \in 0..scenario.faults
    BY <1>1, ScenarioSpecs DEF Fail
  <2> QED
    BY <1>1, <2>1 DEF Fail, Steps
<1>2. CASE UserEdits
  <2>1. edits' \in 1..Len(scenario.specs)
    BY <1>2, ScenarioSpecs DEF UserEdits
  <2>2. scenario.specs[edits'] \in Specs
    BY <2>1, ScenarioSpecs
  <2>3. cr' \in CRs
    BY <1>2, <2>2 DEF UserEdits, CRs
  <2>4. asked' \in [pods : Nat, config : Nat]
    BY <1>2 DEF UserEdits
  <2> QED
    BY <1>2, <2>1, <2>3, <2>4 DEF UserEdits
<1>3. CASE UpgradeOperator
  <2>1. asked' \in [pods : Nat, config : Nat]
    BY <1>3 DEF UpgradeOperator
  <2> QED
    BY <1>3, <2>1 DEF UpgradeOperator, Steps
<1>4. CASE SyncCR
  BY <1>4 DEF SyncCR
<1>5. CASE SyncSet
  BY <1>5 DEF SyncSet
<1>6. CASE UpdateStatus
  <2>1. PICK b \in BOOLEAN : set' = [set EXCEPT !.observed = TRUE, !.rolled = b]
    BY <1>6 DEF UpdateStatus
  <2>2. IsSet(set')
    BY <2>1 DEF IsSet
  <2> QED
    BY <1>6, <2>2 DEF UpdateStatus
<1>7. CASE \E p \in Pods : RestartPod(p)
  <2>1. PICK p \in Pods : RestartPod(p)
    BY <1>7
  <2>2. pods' = [pods EXCEPT ![p] = [template |-> set.template, http |-> config]]
    BY <2>1 DEF RestartPod
  <2>3. IsTemplate(set.template)
    BY DEF IsSet
  <2>4. PodType'
    BY <2>2, <2>3
  <2> QED
    BY <2>1, <2>4 DEF RestartPod
<1> QED
  BY <1>1, <1>2, <1>3, <1>4, <1>5, <1>6, <1>7

LEMMA TypesInductive == TypeInv /\ [Next]_vars => TypeInv'
<1> SUFFICES ASSUME TypeInv, [Next]_vars PROVE TypeInv'
  OBVIOUS
<1>1. CASE UNCHANGED vars
  BY <1>1 DEF vars, TypeInv, PlayType, CRType, SetType, PodType, WorkType, AskedType
<1>2. CASE Next
  BY <1>2, ReconcileTypes, ConfigStateTypes, PatchTypes, EnvironmentTypes DEF Next, Reconciler
<1> QED
  BY <1>1, <1>2

(* The types of the state hold, whatever the order of reconciles, edits,   *)
(* faults and upgrades of the operator.                                    *)
THEOREM TemplateTypes == Spec => []TypeOK
<1>1. Init => TypeInv
  BY InitTypes
<1>2. TypeInv /\ [Next]_vars => TypeInv'
  BY TypesInductive
<1>3. TypeInv => TypeOK
  BY TypeInvImpliesTypeOK
<1> QED
  BY <1>1, <1>2, <1>3, PTL DEF Spec

(***************************************************************************)
(* Patches of templates.                                                   *)
(***************************************************************************)
LEMMA MapMerged ==
    ASSUME NEW D, NEW x, NEW y, NEW z,
           x = [k \in D |-> x[k]], z = [k \in D |-> z[k]],
           \A k \in D : z[k] = y[k] => x[k] = z[k]
    PROVE  Merge(x, y, z) = z
<1>1. DOMAIN x = D
  OBVIOUS
<1>2. \A k \in D : (IF z[k] # y[k] THEN z[k] ELSE x[k]) = z[k]
  OBVIOUS
<1> QED
  BY <1>1, <1>2 DEF Merge

(* A merge patch gives the template it was computed for, but for the       *)
(* annotations, when what it leaves out is already there.                  *)
LEMMA PatchReaches ==
    ASSUME NEW x, NEW y, NEW z, IsTemplate(x), IsTemplate(y), IsTemplate(z),
           \A k \in TemplateFields \ {"annotations", "labels"} : z[k] = y[k] => x[k] = z[k],
           z.labels.user = y.labels.user => x.labels.user = z.labels.user,
           z.labels.managed = y.labels.managed => x.labels.managed = z.labels.managed
    PROVE  Patched(x, y, z)
             = [z EXCEPT !.annotations = Merge(x.annotations, y.annotations, z.annotations)]
<1>1. Merge(x.labels, y.labels, z.labels) = z.labels
  <2>1. /\ x.labels = [k \in {"user", "managed"} |-> x.labels[k]]
        /\ z.labels = [k \in {"user", "managed"} |-> z.labels[k]]
    BY DEF IsTemplate, Labels
  <2> QED
    BY <2>1, MapMerged
<1> DEFINE m == Merge(x, y, z)
           a == Merge(x.annotations, y.annotations, z.annotations)
           p == [m EXCEPT !.annotations = a, !.labels = z.labels]
           q == [z EXCEPT !.annotations = a]
<1>2. x = [k \in TemplateFields |-> x[k]] /\ z = [k \in TemplateFields |-> z[k]]
  BY DEF IsTemplate
<1>3. DOMAIN m = TemplateFields /\ m = [k \in TemplateFields |-> m[k]]
  BY <1>2 DEF Merge
<1>4. \A k \in TemplateFields \ {"annotations", "labels"} : m[k] = z[k]
  BY <1>2 DEF Merge
<1>5. Patched(x, y, z) = p
  BY <1>1 DEF Patched
<1> HIDE DEF m, a
<1>6. /\ p = [k \in TemplateFields |-> p[k]] /\ q = [k \in TemplateFields |-> q[k]]
      /\ \A k \in TemplateFields : p[k] = q[k]
  BY <1>2, <1>3, <1>4 DEF TemplateFields
<1> HIDE DEF p, q
<1>7. p = q
  BY <1>6
<1> QED
  BY <1>5, <1>7 DEF a, q

(* A template of s by v in all but the annotations.                        *)
SameButAnnotations(t, d) ==
    \A k \in TemplateFields \ {"annotations"} : t[k] = d[k]

LEMMA RestartOnlyAnnotates ==
    ASSUME NEW s, NEW v, NEW q, NEW r
    PROVE  SameButAnnotations(Template(s, v, q), Template(s, v, r))
BY DEF Template, SameButAnnotations, TemplateFields

(***************************************************************************)
(* A version that does not matter is no reason to update containers, ...   *)
(***************************************************************************)
LEMMA ContainersKept ==
    ASSUME NEW s \in Specs, NEW v, NEW w, v.security = w.security,
           NEW t, t.containers = Containers(s, v), NEW d, d.containers = Containers(s, w)
    PROVE  ~ShouldUpdateContainers(d, t)
<1> DEFINE ais(x) == Container(s.nodeImage, s.env, s.resources, <<s.probes, UseHTTPS(s)>>,
                               SecurityContext(s.aisSecurity, x), x.build)
           sidecar(x) == Container(s.sidecar, x.build, s.sidecarResources, x.build,
                                   SecurityContext(0, x), x.build)
<1>1. ~ShouldUpdateContainerSpec(ais(w), ais(v), ContainerChecksFor(1))
  <2>1. SecurityContext(s.aisSecurity, w) = SecurityContext(s.aisSecurity, v)
    BY DEF SecurityContext
  <2> QED
    BY <2>1 DEF ShouldUpdateContainerSpec, ContainerChecksFor, Container
<1>2. ~ShouldUpdateContainerSpec(sidecar(w), sidecar(v), ContainerChecksFor(2))
  <2>1. SecurityContext(0, w) = SecurityContext(0, v)
    BY DEF SecurityContext
  <2> QED
    BY <2>1 DEF ShouldUpdateContainerSpec, ContainerChecksFor, Container
<1>3. CASE s.sidecar = 0
  <2>1. d.containers = <<ais(w)>> /\ t.containers = <<ais(v)>>
    BY <1>3 DEF Containers
  <2> HIDE DEF ais
  <2> QED
    BY <1>1, <2>1 DEF ShouldUpdateContainers
<1>4. CASE s.sidecar # 0
  <2>1. d.containers = <<ais(w), sidecar(w)>> /\ t.containers = <<ais(v), sidecar(v)>>
    BY <1>4 DEF Containers
  <2> HIDE DEF ais, sidecar
  <2>2. /\ Len(d.containers) = 2 /\ Len(t.containers) = 2 /\ DOMAIN d.containers = 1..2
        /\ d.containers[1] = ais(w) /\ d.containers[2] = sidecar(w)
        /\ t.containers[1] = ais(v) /\ t.containers[2] = sidecar(v)
    BY <2>1
  <2> QED
    BY <1>1, <1>2, <2>2 DEF ShouldUpdateContainers
<1> QED
  BY <1>3, <1>4

(* ... an init container, ...                                              *)
LEMMA InitKept ==
    ASSUME NEW s, NEW v, NEW w, v.security = w.security,
           NEW t, t.init = <<InitContainer(s, v)>>, NEW d, d.init = <<InitContainer(s, w)>>
    PROVE  ~ShouldUpdateInitContainers(d, t)
<1>1. ~ShouldUpdateContainerSpec(InitContainer(s, w), InitContainer(s, v), {"image", "security"})
  BY DEF ShouldUpdateContainerSpec, InitContainer, Container, SecurityContext
<1> QED
  BY <1>1 DEF ShouldUpdateInitContainers

(* ... or the volumes.                                                     *)
LEMMA VolumesKept ==
    ASSUME NEW s, NEW v, NEW w, s.certificate = 0 \/ v.csi = w.csi,
           NEW t, t.volumes = Volumes(s, v), NEW d, d.volumes = Volumes(s, w)
    PROVE  ~ShouldUpdateVolumes(d, t)
<1> DEFINE base == <<"base", 0, 0>>
           tls == <<"tls", s.certificate, v.csi>>
           vs(x) == Volumes(s, x)
<1> SUFFICES /\ Len(vs(w)) = Len(vs(v))
             /\ \A i \in DOMAIN vs(w) : \E j \in DOMAIN vs(v) : vs(w)[i] = vs(v)[j]
  BY DEF ShouldUpdateVolumes
<1>1. CASE s.certificate = 0
  BY <1>1 DEF Volumes
<1>2. CASE s.certificate # 0
  <2>1. \A x \in {v, w} : vs(x) = <<base, tls>> \/ vs(x) = <<tls, base>>
    BY <1>2 DEF Volumes
  <2> HIDE DEF base, tls, vs
  <2>2. \A x \in {v, w} : /\ Len(vs(x)) = 2 /\ DOMAIN vs(x) = 1..2
                          /\ \/ vs(x)[1] = base /\ vs(x)[2] = tls
                             \/ vs(x)[1] = tls /\ vs(x)[2] = base
    BY <2>1
  <2>3. 1 \in DOMAIN vs(v) /\ 2 \in DOMAIN vs(v)
    BY <2>2
  <2>4. \A i \in DOMAIN vs(w) : vs(w)[i] = vs(v)[1] \/ vs(w)[i] = vs(v)[2]
    BY <2>2
  <2> QED
    BY <2>2, <2>3, <2>4
<1> QED
  BY <1>1, <1>2

(* shouldUpdatePodTemplate: a template of the spec needs no update but for *)
(* a restart when it was made by an operator of this version, or of the    *)
(* old one and this one makes nothing differently that is compared.        *)
LEMMA NoUpdate ==
    ASSUME NEW s \in Specs, NEW v, NEW w, v = OldVersion \/ v = w, ~VersionMatters(v, w, s),
           NEW r, NEW q, NEW t, SameButAnnotations(t, Template(s, v, q)),
           r.initial \/ t.annotations.restart = r,
           s.annotation # 0 => t.annotations.user = s.annotation
    PROVE  ~ShouldUpdatePodTemplate(Template(s, w, r), t)
<1> DEFINE d == Template(s, w, r)
           c == Template(s, v, q)
<1>1. /\ t.init = <<InitContainer(s, v)>>
      /\ t.containers = Containers(s, v)
      /\ t.labels = [user |-> s.label, managed |-> v # OldVersion]
      /\ t.security = SecurityContext(s.security, v) /\ t.volumes = Volumes(s, v)
      /\ t.priority = s.priority /\ t.tolerations = s.tolerations
  <2>1. /\ t.init = c.init /\ t.containers = c.containers /\ t.labels = c.labels
        /\ t.security = c.security /\ t.volumes = c.volumes /\ t.priority = c.priority
        /\ t.tolerations = c.tolerations
    BY DEF SameButAnnotations, TemplateFields
  <2> QED
    BY <2>1 DEF Template, InitContainer, c
<1>2. /\ d.init = <<InitContainer(s, w)>>
      /\ d.containers = Containers(s, w)
      /\ d.annotations = [user |-> s.annotation, restart |-> r]
      /\ d.labels = [user |-> s.label, managed |-> w # OldVersion]
      /\ d.security = SecurityContext(s.security, w) /\ d.volumes = Volumes(s, w)
      /\ d.priority = s.priority /\ d.tolerations = s.tolerations
  BY DEF Template, PrepareAnnotations, InitContainer, d
<1> HIDE DEF c, d
<1>0. v.security = w.security /\ (s.certificate = 0 \/ v.csi = w.csi)
  BY DEF VersionMatters
<1>3. ~ShouldUpdateInitContainers(d, t)
  BY <1>0, <1>1, <1>2, InitKept
<1>4. ~ShouldUpdateContainers(d, t)
  BY <1>0, <1>1, <1>2, ContainersKept
<1>5. ~ShouldUpdateVolumes(d, t)
  BY <1>0, <1>1, <1>2, VolumesKept
<1>6. ~ShouldUpdateLabels(d, t)
  <2>1. CASE v = w
    BY <1>1, <1>2, <2>1 DEF ShouldUpdateLabels
  <2>2. CASE v = OldVersion /\ w # OldVersion
    <3>1. (v # OldVersion) = FALSE /\ (w # OldVersion) = TRUE
      BY <2>2
    <3>2. /\ t.labels = [user |-> s.label, managed |-> FALSE]
          /\ d.labels = [user |-> s.label, managed |-> TRUE]
      BY <1>1, <1>2, <3>1, Zenon
    <3>3. t.labels.user = d.labels.user /\ ~t.labels.managed /\ d.labels.managed
      BY <3>2
    <3> QED
      BY <3>3 DEF ShouldUpdateLabels, OnlyManagedByLabelAdded
  <2> QED
    BY <2>1, <2>2
<1>7. ~ShouldUpdateAnnotations(d, t)
  BY <1>2 DEF ShouldUpdateAnnotations
<1>8. /\ ~ShouldUpdatePodSecurityContext(d, t) /\ ~ShouldUpdatePriorityClass(d, t)
      /\ ~ShouldUpdateTolerations(d, t)
  BY <1>0, <1>1, <1>2
     DEF ShouldUpdatePodSecurityContext, ShouldUpdatePriorityClass, ShouldUpdateTolerations,
         SecurityContext
<1> QED
  BY <1>3, <1>4, <1>5, <1>6, <1>7, <1>8 DEF ShouldUpdatePodTemplate, d
-----------------------------------------------------------------------------
(***************************************************************************)
(* One edit, from spec s to spec g, and the rollouts that follow it and an *)
(* upgrade of the operator.  b: the restart annotation of the CR is the    *)
(* initial one, and the pods were made before there was one.               *)
(***************************************************************************)
Goal == scenario.specs[Len(scenario.specs)]

Moved(s, g) == g.http # s.http

(* The restart annotation before and after the operator has noticed that   *)
(* the config has moved.                                                   *)
Before(s, b) == [conf |-> s.http, initial |-> b]
After(g) == [conf |-> g.http, initial |-> FALSE]

(* Where a template is: at level 0 it is of the first spec, at level 1 of  *)
(* the second one, at level 2 of the second one and asks for a restart;    *)
(* and which operator made it.                                             *)
Places == [level : 0..2, by : {OldVersion, scenario.to}]

SpecAt(s, g, n) == IF n = 0 THEN s ELSE g
RestartAt(s, g, b, n) == IF n = 2 THEN After(g) ELSE Before(s, b)

(* A template of s by version v, with annotations a.                       *)
Made(s, v, a) == [Template(s, v, NoRestart) EXCEPT !.annotations = a]

(* An annotation that the user has only removed may stay on the pods.      *)
NotesAt(s, g, b, x, a) ==
    /\ a.user \in {s.annotation, g.annotation}
    /\ x.level = 0 => a.user = s.annotation
    /\ x.level > 0 /\ g.annotation # 0 => a.user = g.annotation
    /\ a.restart = IF b /\ x.level = 0 /\ x.by = OldVersion THEN NoRestart
                   ELSE RestartAt(s, g, b, x.level)

IsAt(s, g, b, x, t) ==
    /\ t = Made(SpecAt(s, g, x.level), x.by, t.annotations)
    /\ t.annotations \in Annotations /\ NotesAt(s, g, b, x, t.annotations)

(* No earlier place than y.                                                *)
NotAfter(y, x) == y.level <= x.level /\ (y.level = x.level /\ y.by = version => x.by = version)

(* A template at y with annotations c is a copy of the one at x, with a.   *)
(* One that is behind was left so by the operator that runs: the cache of  *)
(* a new one is fresh.  An annotation that was removed since is not put    *)
(* back for the sake of such a copy.                                       *)
IsBehind(g, y, c, x, a) ==
    \/ y = x /\ c = a
    \/ /\ x.by = version /\ y.level <= x.level /\ y # x
       /\ \/ x.level = 0 \/ a.user = g.annotation
          \/ c.restart = a.restart /\ c.user # g.annotation

(* How far a CR can lead.                                                  *)
Stage(s, g, c) ==
    IF Moved(s, g) /\ c.restart = After(g) THEN 2 ELSE IF c.spec = g /\ g # s THEN 1 ELSE 0

(* The values of a CR during the edit.                                     *)
IsCopy(s, g, b, c) ==
    /\ c.spec \in {s, g}
    /\ c.restart \in {Before(s, b), After(g)}
    /\ c.restart # Before(s, b) => Moved(s, g) /\ c.spec = g

(* The StatefulSet is at x and its copy in the cache at y.                 *)
SetInv(s, g, b, x, y) ==
    /\ IsAt(s, g, b, x, set.template) /\ IsAt(s, g, b, y, cset.template)
    /\ x.by \in {OldVersion, version} /\ y.by \in {OldVersion, version}
    /\ IsBehind(g, y, cset.template.annotations, x, set.template.annotations)

(* The StatefulSet is never ahead of the copies of the CR that the next    *)
(* template is made of.                                                    *)
CopyInv(s, g, b, x) ==
    /\ IsCopy(s, g, b, cr) /\ IsCopy(s, g, b, ccr) /\ IsCopy(s, g, b, mem)
    /\ cr.spec = IF edits = 1 THEN s ELSE g
    /\ x.level <= Stage(s, g, ccr) /\ Stage(s, g, ccr) <= Stage(s, g, cr)
    /\ Stage(s, g, mem) <= Stage(s, g, cr)
    /\ pc \in {"apply", "state"} =>
        x.level <= Stage(s, g, mem) /\ Stage(s, g, mem) <= Stage(s, g, ccr)

Matters(w, s) == VersionMatters(w, version, s)

(* Why a template of level k is wanted in place of the one at z.           *)
Reason(s, g, z, k) ==
    \/ z.level = 0 /\ k = 1 /\ PodsChange(s, g)
    \/ z.level < k /\ k = 2
    \/ z.level <= k /\ Matters(z.by, SpecAt(s, g, k))

(* A reconcile that patches the StatefulSet wants level k, and has seen    *)
(* the template at z.                                                      *)
Patching == pc \in {"disable", "force", "patch"}

WantInv(s, g, b, x, y, z, k) ==
    Patching =>
        /\ want = Template(SpecAt(s, g, k), version, RestartAt(s, g, b, k))
        /\ IsAt(s, g, b, z, seen) /\ z.by \in {OldVersion, version}
        /\ IsBehind(g, z, seen.annotations, x, set.template.annotations) /\ NotAfter(z, y)
        /\ Reason(s, g, z, k) /\ x.level <= k /\ k <= Stage(s, g, ccr)
        /\ k = 2 => Moved(s, g)

(* A template of the first spec may still come.                            *)
StartInUse(s, g, k) ==
    \/ Stage(s, g, ccr) = 0
    \/ pc \in {"apply", "state"} /\ Stage(s, g, mem) = 0
    \/ Patching /\ k = 0

(* What was asked for and has not been rolled out yet is on the account.   *)
EditOpen(s, g, x) == edits = 2 /\ x.level = 0 /\ PodsChange(s, g)

AskedInv(s, g, x, k) ==
    LET upgrade == Matters(x.by, SpecAt(s, g, x.level))
    IN  /\ EditOpen(s, g, x) \/ upgrade => asked.pods > 0
        /\ EditOpen(s, g, x) /\ upgrade /\ StartInUse(s, g, k) => asked.pods > 1
        /\ edits = 2 /\ x.level < 2 /\ Moved(s, g) => asked.config > 0

EditInv(s, g, b, x, y, z, k) ==
    /\ SetInv(s, g, b, x, y) /\ CopyInv(s, g, b, x)
    /\ WantInv(s, g, b, x, y, z, k) /\ AskedInv(s, g, x, k)

RolloutInv ==
    \E b \in BOOLEAN, x, y, z \in Places, k \in 0..2 : EditInv(First, Goal, b, x, y, z, k)

(***************************************************************************)
(* The templates of an edit.                                               *)
(***************************************************************************)
LEMMA RestartValues ==
    ASSUME NEW s \in Specs, NEW g \in Specs, NEW b \in BOOLEAN
    PROVE  /\ Before(s, b) \in Restarts /\ After(g) \in Restarts /\ NoRestart \in Restarts
           /\ Before(s, b) # NoRestart /\ After(g) # NoRestart
           /\ Before(s, b).initial = b /\ ~After(g).initial
           /\ Before(s, b).conf = s.http /\ After(g).conf = g.http
           /\ Moved(s, g) => After(g) # Before(s, b)
<1>1. s.http \in Values /\ g.http \in Values /\ s.http # 0 /\ g.http # 0
  BY SpecTypes
<1>2. Before(s, b) \in Restarts /\ After(g) \in Restarts /\ NoRestart \in Restarts
  BY <1>1 DEF Before, After, NoRestart, Restarts
<1>3. /\ Before(s, b).conf = s.http /\ After(g).conf = g.http /\ NoRestart.conf = 0
      /\ Before(s, b).initial = b /\ After(g).initial = FALSE
  BY DEF Before, After, NoRestart
<1> QED
  BY <1>1, <1>2, <1>3 DEF Moved

LEMMA MadeParts ==
    ASSUME NEW s \in Specs, NEW v, NEW a \in Annotations
    PROVE  /\ IsTemplate(Made(s, v, a)) /\ Made(s, v, a).annotations = a
           /\ \A q : SameButAnnotations(Made(s, v, a), Template(s, v, q))
<1> DEFINE t == Template(s, v, NoRestart)
<1>1. IsTemplate(t)
  BY TemplateShape DEF NoRestart, Restarts
<1>2. \A q : SameButAnnotations(t, Template(s, v, q))
  BY RestartOnlyAnnotates
<1>3. Made(s, v, a) = [t EXCEPT !.annotations = a]
  BY DEF Made
<1> HIDE DEF t
<1>4. t = [k \in TemplateFields |-> t[k]] /\ t.labels \in Labels
  BY <1>1 DEF IsTemplate
<1> DEFINE m == [t EXCEPT !.annotations = a]
<1>5. m = [k \in TemplateFields |-> m[k]] /\ m.annotations = a /\ m.labels = t.labels
      /\ SameButAnnotations(m, t)
  BY <1>4 DEF TemplateFields, SameButAnnotations
<1> HIDE DEF m
<1>6. IsTemplate(m)
  BY <1>4, <1>5 DEF IsTemplate
<1>7. \A q : SameButAnnotations(m, Template(s, v, q))
  BY <1>2, <1>5 DEF SameButAnnotations
<1> QED
  BY <1>3, <1>5, <1>6, <1>7 DEF m

(* What syncPodTemplate makes of the annotations a.                        *)
Synced(s, r, a) ==
    LET d == [user |-> s.annotation, restart |-> r]
    IN  IF Derivative(d, a) THEN a ELSE d

LEMMA SyncMakes ==
    ASSUME NEW s \in Specs, NEW v, NEW r \in Restarts, NEW c, c.annotations \in Annotations
    PROVE  /\ SyncPodTemplate(Template(s, v, r), c) = Made(s, v, Synced(s, r, c.annotations))
           /\ Synced(s, r, c.annotations) \in Annotations
<1> DEFINE t == Template(s, v, r)
           u == Template(s, v, NoRestart)
           a == Synced(s, r, c.annotations)
<1>1. a \in Annotations
  BY SpecTypes DEF Synced, Annotations
<1>2. t.annotations = [user |-> s.annotation, restart |-> r]
  BY DEF Template, PrepareAnnotations
<1>3. SyncPodTemplate(t, c) = [t EXCEPT !.annotations = a]
  BY <1>2 DEF SyncPodTemplate, Synced
<1>4. IsTemplate(t) /\ IsTemplate(u)
  BY TemplateShape DEF NoRestart, Restarts
<1>5. SameButAnnotations(t, u)
  BY RestartOnlyAnnotates
<1> HIDE DEF t, a, u
<1>6. t = [k \in TemplateFields |-> t[k]] /\ u = [k \in TemplateFields |-> u[k]]
  BY <1>4 DEF IsTemplate
<1> DEFINE p == [t EXCEPT !.annotations = a]
           q == [u EXCEPT !.annotations = a]
<1>7. /\ p = [k \in TemplateFields |-> p[k]] /\ q = [k \in TemplateFields |-> q[k]]
      /\ \A k \in TemplateFields : p[k] = q[k]
  BY <1>5, <1>6 DEF SameButAnnotations
<1> HIDE DEF p, q
<1>8. p = q
  BY <1>7
<1> QED
  BY <1>1, <1>3, <1>8 DEF p, q, Made, t, u, a

(***************************************************************************)
(* MergeFrom: what the first spec by another version has in common with    *)
(* the second one by this version, it has in common with it by this        *)
(* version too, unless a user spells out what is a default of the other.   *)
(***************************************************************************)
LEMMA ContainersAdvance ==
    ASSUME NEW s \in Specs, NEW g \in Specs, NEW u, NEW v,
           u.security \notin Values, v.security \notin Values,
           Containers(g, v) = Containers(s, u)
    PROVE  Containers(s, v) = Containers(g, v)
<1> DEFINE ais(p, x) == Container(p.nodeImage, p.env, p.resources, <<p.probes, UseHTTPS(p)>>,
                                  SecurityContext(p.aisSecurity, x), x.build)
           sidecar(p, x) == Container(p.sidecar, x.build, p.sidecarResources, x.build,
                                      SecurityContext(0, x), x.build)
<1>1. s.aisSecurity \in {0} \cup Values /\ g.aisSecurity \in {0} \cup Values
  BY SpecTypes DEF Fields
<1>2. ASSUME ais(g, v) = ais(s, u) PROVE ais(s, v) = ais(g, v)
  <2>1. /\ g.nodeImage = s.nodeImage /\ g.env = s.env /\ g.resources = s.resources
        /\ <<g.probes, UseHTTPS(g)>> = <<s.probes, UseHTTPS(s)>>
        /\ SecurityContext(g.aisSecurity, v) = SecurityContext(s.aisSecurity, u)
    BY <1>2 DEF Container
  <2>2. SecurityContext(s.aisSecurity, v) = SecurityContext(g.aisSecurity, v)
    BY <1>1, <2>1 DEF SecurityContext
  <2> QED
    BY <2>1, <2>2
<1>3. ASSUME sidecar(g, v) = sidecar(s, u) PROVE sidecar(s, v) = sidecar(g, v)
  <2>1. g.sidecar = s.sidecar /\ g.sidecarResources = s.sidecarResources
    BY <1>3 DEF Container
  <2> QED
    BY <2>1
<1>4. \A p, x : Containers(p, x) = IF p.sidecar = 0 THEN <<ais(p, x)>>
                                   ELSE <<ais(p, x), sidecar(p, x)>>
  BY DEF Containers
<1> HIDE DEF ais, sidecar
<1>5. (g.sidecar = 0 <=> s.sidecar = 0) /\ ais(g, v) = ais(s, u)
      /\ (s.sidecar # 0 => sidecar(g, v) = sidecar(s, u))
  <2>1. CASE g.sidecar = 0 /\ s.sidecar = 0
    <3>1. <<ais(g, v)>> = <<ais(s, u)>>
      BY <1>4, <2>1
    <3> QED
      BY <2>1, <3>1
  <2>2. CASE g.sidecar # 0 /\ s.sidecar # 0
    <3>1. <<ais(g, v), sidecar(g, v)>> = <<ais(s, u), sidecar(s, u)>>
      BY <1>4, <2>2
    <3> QED
      BY <2>2, <3>1
  <2>3. CASE g.sidecar = 0 /\ s.sidecar # 0
    <3>1. <<ais(g, v)>> = <<ais(s, u), sidecar(s, u)>>
      BY <1>4, <2>3
    <3> QED
      BY <3>1
  <2>4. CASE g.sidecar # 0 /\ s.sidecar = 0
    <3>1. <<ais(g, v), sidecar(g, v)>> = <<ais(s, u)>>
      BY <1>4, <2>4
    <3> QED
      BY <3>1
  <2> QED
    BY <2>1, <2>2, <2>3, <2>4
<1> QED
  BY <1>2, <1>3, <1>4, <1>5

LEMMA VolumesAdvance ==
    ASSUME NEW s, NEW g, NEW u, NEW v, Volumes(g, v) = Volumes(s, u)
    PROVE  Volumes(s, v) = Volumes(g, v)
<1> DEFINE base == <<"base", 0, 0>>
           tls(p, x) == <<"tls", p.certificate, x.csi>>
<1>1. \A p, x : Volumes(p, x) = IF p.certificate = 0 THEN <<base>>
                                ELSE IF x = OldVersion THEN <<base, tls(p, x)>>
                                ELSE <<tls(p, x), base>>
  BY DEF Volumes
<1>2. \A p, x : tls(p, x) # base
  BY Zenon, "tls" # "base"
<1>3. ASSUME tls(g, v) = tls(s, u) PROVE tls(s, v) = tls(g, v)
  BY <1>3
<1> HIDE DEF base, tls
<1>4. CASE g.certificate = 0
  <2>1. s.certificate = 0
    BY <1>1, <1>4
  <2> QED
    BY <1>1, <1>4, <2>1
<1>5. CASE g.certificate # 0
  <2>1. s.certificate # 0
    BY <1>1, <1>5
  <2>2. tls(g, v) = tls(s, u)
    BY <1>1, <1>2, <1>5, <2>1
  <2> QED
    BY <1>1, <1>3, <1>5, <2>1, <2>2
<1> QED
  BY <1>4, <1>5

LEMMA TemplateAdvances ==
    ASSUME NEW s \in Specs, NEW g \in Specs, NEW u, NEW v, NEW q,
           u.security \notin Values, v.security \notin Values,
           NEW f \in TemplateFields \ {"annotations", "labels"},
           Template(g, v, q)[f] = Template(s, u, q)[f]
    PROVE  Template(s, v, q)[f] = Template(g, v, q)[f]
<1>1. \A p, x : /\ Template(p, x, q).init = <<InitContainer(p, x)>>
                /\ Template(p, x, q).containers = Containers(p, x)
                /\ Template(p, x, q).security = SecurityContext(p.security, x)
                /\ Template(p, x, q).volumes = Volumes(p, x)
                /\ Template(p, x, q).priority = p.priority
                /\ Template(p, x, q).tolerations = p.tolerations
  BY DEF Template, InitContainer
<1>2. CASE f = "init"
  <2>1. InitContainer(g, v) = InitContainer(s, u)
    BY <1>1, <1>2
  <2>2. g.initImage = s.initImage
    BY <2>1 DEF InitContainer, Container
  <2>3. InitContainer(s, v) = InitContainer(g, v)
    BY <2>2 DEF InitContainer
  <2>4. Template(s, v, q).init = Template(g, v, q).init
    BY <1>1, <2>3
  <2> QED
    BY <1>2, <2>4, Zenon
<1>3. CASE f = "containers"
  <2>1. Template(g, v, q).containers = Template(s, u, q).containers
    BY <1>3, Zenon
  <2>2. Containers(g, v) = Containers(s, u)
    BY <1>1, <2>1, Zenon
  <2>3. Containers(s, v) = Containers(g, v)
    BY <2>2, ContainersAdvance
  <2>4. Template(s, v, q).containers = Template(g, v, q).containers
    BY <1>1, <2>3
  <2> QED
    BY <1>3, <2>4, Zenon
<1>4. CASE f = "security"
  <2>1. s.security \in {0} \cup Values /\ g.security \in {0} \cup Values
    BY SpecTypes DEF Fields
  <2>2. Template(g, v, q).security = Template(s, u, q).security
    BY <1>4, Zenon
  <2>3. SecurityContext(g.security, v) = SecurityContext(s.security, u)
    BY <1>1, <2>2
  <2>4. SecurityContext(s.security, v) = SecurityContext(g.security, v)
    BY <2>1, <2>3 DEF SecurityContext
  <2>5. Template(s, v, q).security = Template(g, v, q).security
    BY <1>1, <2>4
  <2> QED
    BY <1>4, <2>5
<1>5. CASE f = "volumes"
  BY <1>1, <1>5, VolumesAdvance
<1>6. CASE f = "priority" \/ f = "tolerations"
  BY <1>1, <1>6
<1> QED
  BY <1>2, <1>3, <1>4, <1>5, <1>6 DEF TemplateFields

(***************************************************************************)
(* The annotations of an edit.                                             *)
(***************************************************************************)
LEMMA NotesMerged ==
    ASSUME NEW a \in Annotations, NEW e \in Annotations, NEW c \in Annotations
    PROVE  /\ Merge(a, e, c) \in Annotations
           /\ Merge(a, e, c).user = IF c.user # e.user THEN c.user ELSE a.user
           /\ Merge(a, e, c).restart = IF c.restart # e.restart THEN c.restart ELSE a.restart
           /\ \A d \in Annotations : d.user = a.user /\ d.restart = a.restart => d = a
<1>1. DOMAIN a = {"user", "restart"}
  BY DEF Annotations
<1> QED
  BY <1>1 DEF Merge, Annotations

(* The place that a patch leads to.                                        *)
Target(k) == [level |-> k, by |-> version]

(* The states in which the StatefulSet is at x with annotations a, the     *)
(* reconcile has seen it at z with annotations e and wants level k.        *)
NotesInv(s, g, b, x, a, z, e, k) ==
    /\ NotesAt(s, g, b, x, a) /\ NotesAt(s, g, b, z, e)
    /\ x.by \in {OldVersion, version} /\ z.by \in {OldVersion, version}
    /\ IsBehind(g, z, e, x, a) /\ x.level <= k
    /\ k = 0 => version # OldVersion
    /\ k = 2 => Moved(s, g)

LEMMA SyncedNotes ==
    ASSUME NEW s \in Specs, NEW g \in Specs, NEW b \in BOOLEAN, NEW k \in 0..2,
           NEW e \in Annotations
    PROVE  LET r == RestartAt(s, g, b, k)
               c == Synced(SpecAt(s, g, k), r, e)
           IN  /\ c \in Annotations /\ c.restart = r /\ r # NoRestart
               /\ c.user = SpecAt(s, g, k).annotation \/ c.user = e.user
               /\ SpecAt(s, g, k).annotation # 0 => c.user = SpecAt(s, g, k).annotation
               /\ e.restart # r => c.user = SpecAt(s, g, k).annotation
               /\ SpecAt(s, g, k).annotation = 0 /\ c.user # e.user => e.restart # r
<1> DEFINE r == RestartAt(s, g, b, k)
           p == SpecAt(s, g, k)
           c == Synced(p, r, e)
<1>1. r \in Restarts /\ r # NoRestart
  BY RestartValues DEF RestartAt
<1>2. p \in Specs
  BY DEF SpecAt
<1>3. p.annotation \in {0} \cup Values
  BY <1>2, SpecTypes
<1> HIDE DEF r, p
<1>4. /\ c \in Annotations /\ c.restart = r
      /\ c.user = p.annotation \/ c.user = e.user
      /\ p.annotation # 0 => c.user = p.annotation
      /\ e.restart # r => c.user = p.annotation
      /\ p.annotation = 0 /\ c.user # e.user => e.restart # r
  BY <1>1, <1>3 DEF Synced, Derivative, Annotations
<1> QED
  BY <1>1, <1>4 DEF r, p

(* The patch leads to its target, or leaves what is there already.         *)
LEMMA NotesAdvance ==
    ASSUME NEW s \in Specs, NEW g \in Specs, NEW b \in BOOLEAN, NEW k \in 0..2,
           NEW x \in Places, NEW z \in Places, NEW a \in Annotations, NEW e \in Annotations,
           NotesInv(s, g, b, x, a, z, e, k)
    PROVE  LET new == Merge(a, e, Synced(SpecAt(s, g, k), RestartAt(s, g, b, k), e))
           IN  /\ new \in Annotations /\ NotesAt(s, g, b, Target(k), new)
               /\ x.level = k /\ x.by = version => new = a
<1> DEFINE r == RestartAt(s, g, b, k)
           p == SpecAt(s, g, k)
           c == Synced(p, r, e)
           new == Merge(a, e, c)
<1>1. /\ c \in Annotations /\ c.restart = r /\ r # NoRestart
      /\ c.user = p.annotation \/ c.user = e.user
      /\ p.annotation # 0 => c.user = p.annotation
      /\ e.restart # r => c.user = p.annotation
      /\ p.annotation = 0 /\ c.user # e.user => e.restart # r
  BY SyncedNotes
<1>2. p = IF k = 0 THEN s ELSE g
  BY DEF SpecAt
<1>3. r = IF k = 2 THEN After(g) ELSE Before(s, b)
  BY DEF RestartAt
<1> HIDE DEF p, r, c
<1>4. /\ new \in Annotations
      /\ new.user = IF c.user # e.user THEN c.user ELSE a.user
      /\ new.restart = IF c.restart # e.restart THEN c.restart ELSE a.restart
      /\ new.user = a.user /\ new.restart = a.restart => new = a
  BY <1>1, NotesMerged
<1> HIDE DEF new
<1>5. /\ x.level \in 0..2 /\ z.level \in 0..2
      /\ Target(k).level = k /\ Target(k).by = version
  BY DEF Places, Target
<1>6. /\ NoRestart # Before(s, b) /\ NoRestart # After(g)
      /\ Moved(s, g) => Before(s, b) # After(g)
  BY RestartValues
<1>7. /\ NotesAt(s, g, b, x, a) /\ NotesAt(s, g, b, z, e)
      /\ x.by \in {OldVersion, version} /\ z.by \in {OldVersion, version}
      /\ IsBehind(g, z, e, x, a) /\ x.level <= k /\ z.level <= x.level
      /\ k = 0 => version # OldVersion
      /\ k = 2 => Moved(s, g)
  BY <1>5 DEF NotesInv, IsBehind
<1>8. new.restart = r
  <2>1. CASE e.restart # r
    BY <1>1, <1>4, <2>1
  <2>2. CASE e.restart = r
    <3>1. a.restart = r
      <4>1. CASE z = x
        BY <1>7, <2>2, <4>1 DEF IsBehind
      <4>2. CASE z # x
        <5>1. x.by = version /\ (version = OldVersion => z.level < x.level)
          <6>1. x.by = version
            BY <1>7, <4>2 DEF IsBehind
          <6>2. ASSUME version = OldVersion PROVE z.level # x.level
            BY <1>7, <4>2, <6>1, <6>2 DEF Places
          <6> QED
            BY <1>5, <1>7, <6>1, <6>2
        <5>2. a.restart = IF b /\ x.level = 0 /\ x.by = OldVersion THEN NoRestart
                          ELSE IF x.level = 2 THEN After(g) ELSE Before(s, b)
          BY <1>7 DEF NotesAt, RestartAt
        <5>3. e.restart = IF b /\ z.level = 0 /\ z.by = OldVersion THEN NoRestart
                          ELSE IF z.level = 2 THEN After(g) ELSE Before(s, b)
          BY <1>7 DEF NotesAt, RestartAt
        <5>4. ~(x.level = 0 /\ x.by = OldVersion)
          BY <1>5, <1>7, <5>1
        <5> QED
          BY <1>1, <1>3, <1>5, <1>6, <1>7, <2>2, <5>2, <5>3, <5>4
      <4> QED
        BY <4>1, <4>2
    <3> QED
      BY <1>1, <1>4, <2>2, <3>1
  <2> QED
    BY <2>1, <2>2
<1>9. /\ a.user \in {s.annotation, g.annotation} /\ e.user \in {s.annotation, g.annotation}
      /\ x.level = 0 => a.user = s.annotation
      /\ x.level > 0 /\ g.annotation # 0 => a.user = g.annotation
      /\ z.level = 0 => e.user = s.annotation
      /\ z.level > 0 /\ g.annotation # 0 => e.user = g.annotation
  BY <1>7 DEF NotesAt
<1>10. /\ new.user \in {s.annotation, g.annotation}
       /\ k = 0 => new.user = s.annotation
       /\ k > 0 /\ g.annotation # 0 => new.user = g.annotation
  BY <1>1, <1>2, <1>4, <1>5, <1>7, <1>9
<1>11. ~(k = 0 /\ version = OldVersion)
  BY <1>7
<1>12. NotesAt(s, g, b, Target(k), new)
  BY <1>3, <1>5, <1>8, <1>10, <1>11 DEF NotesAt, RestartAt
<1>13. ASSUME x.level = k, x.by = version PROVE new = a
  <2>1. a.restart = r
    BY <1>3, <1>7, <1>11, <1>13 DEF NotesAt, RestartAt
  <2>2. CASE c.user = e.user
    BY <1>4, <1>8, <2>1, <2>2
  <2>3. CASE c.user # e.user /\ k = 0
    BY <1>1, <1>2, <1>5, <1>7, <1>9, <2>3
  <2>4. CASE c.user # e.user /\ k # 0
    <3>1. c.user = g.annotation
      BY <1>1, <1>2, <2>4
    <3>2. a.user = g.annotation
      <4>1. CASE g.annotation # 0
        BY <1>5, <1>9, <1>13, <2>4, <4>1
      <4>2. CASE g.annotation = 0
        <5>1. e.restart # a.restart
          BY <1>1, <1>2, <2>1, <2>4, <4>2
        <5> QED
          BY <1>5, <1>7, <1>13, <2>4, <5>1 DEF IsBehind
      <4> QED
        BY <4>1, <4>2
    <3> QED
      BY <1>4, <1>8, <2>1, <2>4, <3>1, <3>2
  <2> QED
    BY <2>2, <2>3, <2>4
<1> QED
  BY <1>4, <1>12, <1>13 DEF new, c, p, r

(* The copy of the StatefulSet in the cache, which is not older than what  *)
(* the reconcile has seen, is behind the new template.                     *)
LEMMA StillBehind ==
    ASSUME NEW s \in Specs, NEW g \in Specs, NEW b \in BOOLEAN, NEW k \in 0..2,
           NEW x \in Places, NEW z \in Places, NEW a \in Annotations, NEW e \in Annotations,
           NotesInv(s, g, b, x, a, z, e, k), ~(x.level = k /\ x.by = version),
           NEW y \in Places, NEW h \in Annotations, NotesAt(s, g, b, y, h),
           y.by \in {OldVersion, version}, IsBehind(g, y, h, x, a), NotAfter(z, y)
    PROVE  IsBehind(g, y, h, Target(k),
                    Merge(a, e, Synced(SpecAt(s, g, k), RestartAt(s, g, b, k), e)))
<1> DEFINE r == RestartAt(s, g, b, k)
           p == SpecAt(s, g, k)
           c == Synced(p, r, e)
           new == Merge(a, e, c)
<1>1. /\ c \in Annotations /\ c.restart = r /\ r # NoRestart
      /\ c.user = p.annotation \/ c.user = e.user
      /\ e.restart # r => c.user = p.annotation
  BY SyncedNotes
<1>2. p = IF k = 0 THEN s ELSE g
  BY DEF SpecAt
<1>3. r = IF k = 2 THEN After(g) ELSE Before(s, b)
  BY DEF RestartAt
<1>4. NotesAt(s, g, b, Target(k), new)
  BY NotesAdvance
<1> HIDE DEF p, r, c
<1>5. new.user = IF c.user # e.user THEN c.user ELSE a.user
  BY <1>1, NotesMerged
<1> HIDE DEF new
<1>6. /\ x.level \in 0..2 /\ y.level \in 0..2 /\ z.level \in 0..2
      /\ Target(k).level = k /\ Target(k).by = version
  BY DEF Places, Target
<1>7. /\ NotesAt(s, g, b, x, a) /\ NotesAt(s, g, b, z, e)
      /\ x.by \in {OldVersion, version} /\ z.by \in {OldVersion, version}
      /\ IsBehind(g, z, e, x, a) /\ IsBehind(g, y, h, x, a)
      /\ x.level <= k /\ z.level <= x.level /\ y.level <= x.level
      /\ k = 2 => Moved(s, g)
  BY <1>6 DEF NotesInv, IsBehind
<1>8. y # Target(k)
  BY <1>6, <1>7 DEF IsBehind
<1>9. /\ a.user \in {s.annotation, g.annotation}
      /\ x.level = 0 => a.user = s.annotation
      /\ y.level = 0 => h.user = s.annotation
      /\ z.level = 0 => e.user = s.annotation
  BY <1>7 DEF NotesAt
<1>10. ASSUME k # 0, h.user = g.annotation PROVE new.user = g.annotation
  <2>1. a.user = g.annotation
    BY <1>6, <1>7, <1>9, <1>10 DEF IsBehind
  <2> QED
    BY <1>1, <1>2, <1>5, <1>10, <2>1
<1>11. ASSUME k # 0, h.restart # r PROVE new.user = g.annotation
  <2>1. e.restart # r
    <3> SUFFICES ASSUME e.restart = r PROVE FALSE
      OBVIOUS
    <3>1. /\ NoRestart # Before(s, b) /\ NoRestart # After(g)
          /\ Moved(s, g) => Before(s, b) # After(g)
      BY RestartValues
    <3>2. h.restart = IF b /\ y.level = 0 /\ y.by = OldVersion THEN NoRestart
                      ELSE IF y.level = 2 THEN After(g) ELSE Before(s, b)
      BY DEF NotesAt, RestartAt
    <3>3. e.restart = IF b /\ z.level = 0 /\ z.by = OldVersion THEN NoRestart
                      ELSE IF z.level = 2 THEN After(g) ELSE Before(s, b)
      BY <1>7 DEF NotesAt, RestartAt
    <3>4. z.level <= y.level /\ (z.level = y.level /\ z.by = version => y.by = version)
      BY DEF NotAfter
    <3>5. CASE k = 2
      <4>1. z.level = 2
        BY <1>3, <1>7, <3>1, <3>3, <3>5
      <4> QED
        BY <1>3, <1>6, <1>11, <3>2, <3>4, <3>5, <4>1
    <3>6. CASE k = 1
      <4>1. y.level # 2 /\ r = Before(s, b)
        BY <1>3, <1>6, <1>7, <3>6
      <4>2. b /\ y.level = 0 /\ y.by = OldVersion
        BY <1>11, <3>2, <4>1
      <4>3. z.level = 0
        BY <1>6, <3>4, <4>2
      <4>4. z.by # OldVersion
        BY <3>1, <3>3, <4>1, <4>2, <4>3
      <4> QED
        BY <1>7, <3>4, <4>2, <4>3, <4>4
    <3> QED
      BY <1>11, <3>5, <3>6
  <2>2. c.user = g.annotation
    BY <1>1, <1>2, <1>11, <2>1
  <2>3. CASE c.user # e.user
    BY <1>5, <2>2, <2>3
  <2>4. CASE c.user = e.user
    <3>1. a.user = g.annotation
      BY <1>6, <1>7, <1>9, <2>2, <2>4 DEF IsBehind
    <3> QED
      BY <1>5, <2>4, <3>1
  <2> QED
    BY <2>3, <2>4
<1>12. k = 0 \/ new.user = g.annotation \/ (h.restart = new.restart /\ h.user # g.annotation)
  <2>1. new.restart = IF b /\ k = 0 /\ version = OldVersion THEN NoRestart ELSE r
    BY <1>4, <1>6 DEF NotesAt, r
  <2> QED
    BY <1>10, <1>11, <2>1
<1>13. y.level <= k
  BY <1>6, <1>7
<1> QED
  BY <1>6, <1>8, <1>12, <1>13 DEF IsBehind, new, c, p, r

(***************************************************************************)
(* syncTargetPodSpec: what a patch makes of the StatefulSet.               *)
(***************************************************************************)
(* No version has a security context that a user has spelled out.          *)
DefaultsNotGiven == OldVersion.security \notin Values /\ scenario.to.security \notin Values

LEMMA PatchAdvances ==
    ASSUME NEW s \in Specs, NEW g \in Specs, NEW b \in BOOLEAN, NEW k \in 0..2,
           NEW x \in Places, NEW z \in Places, NEW t, NEW u,
           IsAt(s, g, b, x, t), IsAt(s, g, b, z, u),
           NotesInv(s, g, b, x, t.annotations, z, u.annotations, k),
           version \in {OldVersion, scenario.to}, DefaultsNotGiven
    PROVE  LET r   == RestartAt(s, g, b, k)
               p   == SpecAt(s, g, k)
               a   == Merge(t.annotations, u.annotations, Synced(p, r, u.annotations))
               new == Patched(t, u, SyncPodTemplate(Template(p, version, r), u))
           IN  new = Made(p, version, a) /\ a \in Annotations
<1> DEFINE r == RestartAt(s, g, b, k)
           p == SpecAt(s, g, k)
           c == Synced(p, r, u.annotations)
           a == Merge(t.annotations, u.annotations, c)
           to == Made(p, version, c)
<1>1. PICK v : v = version
  OBVIOUS
<1>2. r \in Restarts /\ p \in Specs
  BY RestartValues DEF RestartAt, SpecAt
<1>3. t.annotations \in Annotations /\ u.annotations \in Annotations
  BY DEF IsAt
<1> HIDE DEF p, r
<1>4. SyncPodTemplate(Template(p, v, r), u) = Made(p, v, c) /\ c \in Annotations
  BY <1>2, <1>3, SyncMakes
<1> HIDE DEF c
<1>5. a \in Annotations
  BY <1>3, <1>4, NotesMerged
<1> HIDE DEF a
<1>6. SpecAt(s, g, x.level) \in Specs /\ SpecAt(s, g, z.level) \in Specs
  BY DEF SpecAt
<1>7. PICK i \in Specs, j \in Specs, l \in {x.by}, m \in {z.by} :
        /\ i = SpecAt(s, g, x.level) /\ j = SpecAt(s, g, z.level) /\ l = x.by /\ m = z.by
  BY <1>6
<1>8. t = Made(i, l, t.annotations) /\ u = Made(j, m, u.annotations)
  BY <1>7 DEF IsAt
<1>9. /\ IsTemplate(t) /\ \A q : SameButAnnotations(t, Template(i, l, q))
  BY <1>3, <1>8, MadeParts
<1>10. /\ IsTemplate(u) /\ \A q : SameButAnnotations(u, Template(j, m, q))
  BY <1>3, <1>8, MadeParts
<1>11. /\ IsTemplate(to) /\ \A q : SameButAnnotations(to, Template(p, v, q))
       /\ to.annotations = c
  BY <1>1, <1>2, <1>4, MadeParts
<1>12. /\ x.level \in 0..2 /\ z.level \in 0..2
       /\ l \in {OldVersion, v} /\ m \in {OldVersion, v}
       /\ IsBehind(g, z, u.annotations, x, t.annotations) /\ x.level <= k
  BY <1>1, <1>7 DEF NotesInv, Places
<1>13. \/ i = j /\ l = m
       \/ i = p /\ l = v
       \/ i = s /\ j = s /\ p = g /\ m = OldVersion /\ l = v
  <2>1. CASE z = x
    BY <1>7, <2>1
  <2>2. CASE z # x
    <3>1. l = v /\ z.level <= x.level
      BY <1>1, <1>7, <1>12, <2>2 DEF IsBehind
    <3>2. CASE x.level > 0
      BY <1>7, <1>12, <3>1, <3>2 DEF SpecAt, p
    <3>3. CASE x.level = 0 /\ k = 0
      BY <1>7, <3>1, <3>3 DEF SpecAt, p
    <3>4. CASE x.level = 0 /\ k # 0
      <4>1. z.level = 0
        BY <1>12, <3>1, <3>4
      <4>2. m # l
        BY <1>7, <2>2, <3>4, <4>1 DEF Places
      <4> QED
        BY <1>7, <1>12, <3>1, <3>4, <4>1, <4>2 DEF SpecAt, p
    <3> QED
      BY <1>12, <3>2, <3>3, <3>4
  <2> QED
    BY <2>1, <2>2
<1>14. OldVersion.security \notin Values /\ v.security \notin Values
  BY <1>1 DEF DefaultsNotGiven
<1> DEFINE T(q, w) == Template(q, w, NoRestart)
<1>15. /\ \A f \in TemplateFields \ {"annotations"} : t[f] = T(i, l)[f]
       /\ \A f \in TemplateFields \ {"annotations"} : u[f] = T(j, m)[f]
       /\ \A f \in TemplateFields \ {"annotations"} : to[f] = T(p, v)[f]
  BY <1>9, <1>10, <1>11 DEF SameButAnnotations
<1>16. \A f \in TemplateFields \ {"annotations", "labels"} :
         T(p, v)[f] = T(j, m)[f] => T(i, l)[f] = T(p, v)[f]
  <2>1. CASE i = j /\ l = m
    BY <2>1
  <2>2. CASE i = p /\ l = v
    BY <2>2
  <2>3. CASE i = s /\ j = s /\ p = g /\ m = OldVersion /\ l = v
    BY <1>14, <2>3, TemplateAdvances
  <2> QED
    BY <1>13, <2>1, <2>2, <2>3
<1>17. \A q, w : T(q, w).labels = [user |-> q.label, managed |-> w # OldVersion]
  BY DEF Template
<1> HIDE DEF to, T
<1>18. /\ to.labels.user = u.labels.user => t.labels.user = to.labels.user
       /\ to.labels.managed = u.labels.managed => t.labels.managed = to.labels.managed
  <2>1. t.labels = T(i, l).labels /\ u.labels = T(j, m).labels /\ to.labels = T(p, v).labels
    BY <1>15 DEF TemplateFields
  <2>2. CASE i = j /\ l = m
    BY <2>1, <2>2
  <2>3. CASE i = p /\ l = v
    BY <2>1, <2>3
  <2>4. CASE i = s /\ j = s /\ p = g /\ m = OldVersion /\ l = v
    <3>1. t.labels = [user |-> s.label, managed |-> v # OldVersion]
      BY <1>17, <2>1, <2>4, Zenon
    <3>2. u.labels = [user |-> s.label, managed |-> OldVersion # OldVersion]
      BY <1>17, <2>1, <2>4, Zenon
    <3>3. to.labels = [user |-> g.label, managed |-> v # OldVersion]
      BY <1>17, <2>1, <2>4, Zenon
    <3>4. /\ t.labels.user = s.label /\ u.labels.user = s.label
          /\ t.labels.managed = to.labels.managed
      BY <3>1, <3>2, <3>3
    <3> QED
      BY <3>4
  <2> QED
    BY <1>13, <2>2, <2>3, <2>4
<1>19. Patched(t, u, to) = [to EXCEPT !.annotations = a]
  <2>1. \A f \in TemplateFields \ {"annotations", "labels"} : to[f] = u[f] => t[f] = to[f]
    BY <1>15, <1>16
  <2> QED
    BY <1>9, <1>10, <1>11, <1>18, <2>1, PatchReaches DEF a
<1>20. [to EXCEPT !.annotations = a] = Made(p, v, a)
  <2>1. IsTemplate(Template(p, v, NoRestart))
    BY <1>2, TemplateShape DEF NoRestart, Restarts
  <2> DEFINE d == Template(p, v, NoRestart)
  <2>2. to = [d EXCEPT !.annotations = c] /\ Made(p, v, a) = [d EXCEPT !.annotations = a]
    BY <1>1 DEF to, Made
  <2> HIDE DEF d
  <2>3. d = [f \in TemplateFields |-> d[f]]
    BY <2>1 DEF IsTemplate, d
  <2> QED
    BY <2>2, <2>3
<1> QED
  BY <1>1, <1>4, <1>5, <1>19, <1>20 DEF to, a, c, p, r

(* Edits that change nothing of the pods.                                  *)
LEMMA SamePods ==
    ASSUME NEW s \in Specs, NEW g \in Specs, ~PodsChange(s, g)
    PROVE  /\ \A v, r : Template(g, v, r) = Template(s, v, r)
           /\ g.certificate = s.certificate /\ g.annotation = s.annotation
<1>1. s \in [Fields -> {0} \cup Values] /\ g \in [Fields -> {0} \cup Values]
  BY DEF Specs
<1>2. [g EXCEPT !.http = s.http] = s /\ UseHTTPS(g) = UseHTTPS(s)
  BY DEF PodsChange, UseHTTPS
<1>3. \A f \in Fields \ {"http"} : g[f] = s[f]
  BY <1>1, <1>2
<1>4. /\ g.nodeImage = s.nodeImage /\ g.env = s.env /\ g.resources = s.resources
      /\ g.probes = s.probes /\ g.aisSecurity = s.aisSecurity /\ g.initImage = s.initImage
      /\ g.sidecar = s.sidecar /\ g.sidecarResources = s.sidecarResources
  BY <1>3 DEF Fields
<1>5. /\ g.security = s.security /\ g.annotation = s.annotation /\ g.label = s.label
      /\ g.certificate = s.certificate /\ g.priority = s.priority
      /\ g.tolerations = s.tolerations
  BY <1>3 DEF Fields
<1>6. \A v : Containers(g, v) = Containers(s, v) /\ Volumes(g, v) = Volumes(s, v)
  BY <1>2, <1>4, <1>5 DEF Containers, Volumes
<1> QED
  BY <1>4, <1>5, <1>6 DEF Template, PrepareAnnotations

LEMMA NoChange == ASSUME NEW s \in Specs PROVE ~PodsChange(s, s)
BY DEF PodsChange, UseHTTPS, Specs

(* shouldUpdatePodTemplate of the template at z, and of the one that a CR  *)
(* with the spec and the restart annotation of the same level asks for.    *)
LEMMA LevelKept ==
    ASSUME NEW s \in Specs, NEW g \in Specs, NEW b \in BOOLEAN, NEW z \in Places, NEW t,
           IsAt(s, g, b, z, t), z.by \in {OldVersion, version},
           ~Matters(z.by, SpecAt(s, g, z.level))
    PROVE  ~ShouldUpdatePodTemplate(
                Template(SpecAt(s, g, z.level), version, RestartAt(s, g, b, z.level)), t)
<1>1. PICK v, w : v = version /\ w = z.by
  OBVIOUS
<1>2. PICK p \in Specs, r \in {RestartAt(s, g, b, z.level)} :
        p = SpecAt(s, g, z.level) /\ r = RestartAt(s, g, b, z.level)
  BY DEF SpecAt
<1>3. t = Made(p, w, t.annotations) /\ t.annotations \in Annotations
  BY <1>1, <1>2 DEF IsAt
<1>4. SameButAnnotations(t, Template(p, w, NoRestart))
  BY <1>3, MadeParts
<1>5. r.initial \/ t.annotations.restart = r
  <2>1. CASE b /\ z.level = 0
    <3>1. r = Before(s, b)
      BY <1>2, <2>1 DEF RestartAt
    <3>2. Before(s, b).initial = b
      BY RestartValues
    <3> QED
      BY <2>1, <3>1, <3>2
  <2>2. CASE ~(b /\ z.level = 0)
    BY <1>2, <2>2 DEF IsAt, NotesAt
  <2> QED
    BY <2>1, <2>2
<1>6. p.annotation # 0 => t.annotations.user = p.annotation
  BY <1>2 DEF IsAt, NotesAt, SpecAt, Places
<1>7. ~VersionMatters(w, v, p) /\ (w = OldVersion \/ w = v)
  BY <1>1, <1>2 DEF Matters
<1> QED
  BY <1>1, <1>2, <1>4, <1>5, <1>6, <1>7, NoUpdate

(* handleTargetState: a template is wanted for a reason.                   *)
LEMMA Decides ==
    ASSUME NEW s \in Specs, NEW g \in Specs, NEW b \in BOOLEAN, NEW c, IsCopy(s, g, b, c),
           NEW z \in Places, NEW t, IsAt(s, g, b, z, t), z.by \in {OldVersion, version},
           z.level <= Stage(s, g, c),
           ShouldUpdatePodTemplate(Template(c.spec, version, c.restart), t)
    PROVE  /\ c.spec = SpecAt(s, g, Stage(s, g, c))
           /\ c.restart = RestartAt(s, g, b, Stage(s, g, c))
           /\ Reason(s, g, z, Stage(s, g, c))
           /\ Stage(s, g, c) = 2 => Moved(s, g)
<1>0. PICK k : k = Stage(s, g, c)
  OBVIOUS
<1>1. k \in 0..2 /\ z.level \in 0..2 /\ z.level <= k /\ (k = 2 => Moved(s, g))
  BY <1>0 DEF Stage, Places
<1>2. c.spec = SpecAt(s, g, k) /\ c.restart = RestartAt(s, g, b, k)
  <2>1. CASE Moved(s, g) /\ c.restart = After(g)
    <3>1. k = 2 /\ c.spec = g
      BY <1>0, <2>1, RestartValues DEF Stage, IsCopy
    <3> QED
      BY <2>1, <3>1 DEF SpecAt, RestartAt
  <2>2. CASE ~(Moved(s, g) /\ c.restart = After(g))
    <3>1. c.restart = Before(s, b)
      BY <2>2 DEF IsCopy
    <3>2. k = IF c.spec = g /\ g # s THEN 1 ELSE 0
      BY <1>0, <2>2 DEF Stage
    <3> QED
      BY <3>1, <3>2 DEF IsCopy, SpecAt, RestartAt
  <2> QED
    BY <2>1, <2>2
<1>3. Reason(s, g, z, k)
  <2>1. CASE z.level = k
    <3>1. Matters(z.by, SpecAt(s, g, k))
      BY <1>2, <2>1, LevelKept
    <3> QED
      BY <1>1, <2>1, <3>1 DEF Reason
  <2>2. CASE z.level < k /\ k = 2
    BY <2>2 DEF Reason
  <2>3. CASE z.level = 0 /\ k = 1 /\ PodsChange(s, g)
    BY <2>3 DEF Reason
  <2>4. CASE z.level = 0 /\ k = 1 /\ ~PodsChange(s, g)
    <3>1. Template(g, version, c.restart) = Template(s, version, c.restart)
          /\ g.certificate = s.certificate
      BY <2>4, SamePods
    <3>2. c.spec = g /\ c.restart = Before(s, b)
      BY <1>2, <2>4 DEF SpecAt, RestartAt
    <3>3. Template(g, version, c.restart) = Template(g, version, Before(s, b))
      BY <3>2
    <3>4. ShouldUpdatePodTemplate(
                Template(SpecAt(s, g, z.level), version, RestartAt(s, g, b, z.level)), t)
      BY <2>4, <3>1, <3>2 DEF SpecAt, RestartAt
    <3>5. Matters(z.by, s)
      BY <2>4, <3>4, LevelKept DEF SpecAt
    <3>6. Matters(z.by, g)
      BY <3>1, <3>5 DEF Matters, VersionMatters
    <3> QED
      BY <2>4, <3>6 DEF Reason, SpecAt
  <2> QED
    BY <1>1, <2>1, <2>2, <2>3, <2>4
<1> QED
  BY <1>0, <1>1, <1>2, <1>3

(* calcRestartConfigAnnotation during the edit.                            *)
LEMMA CalcDuringEdit ==
    ASSUME NEW s \in Specs, NEW g \in Specs, NEW b \in BOOLEAN, NEW c, IsCopy(s, g, b, c)
    PROVE  \/ CalcRestartConfigAnnotation(c) = c.restart
           \/ /\ CalcRestartConfigAnnotation(c) = After(g)
              /\ Moved(s, g) /\ c.spec = g
<1>1. c.restart # NoRestart
  BY RestartValues DEF IsCopy
<1>2. CASE c.restart # Before(s, b)
  <2>1. c.restart = After(g) /\ c.spec = g
    BY <1>2 DEF IsCopy
  <2> QED
    BY <1>1, <2>1, RestartValues DEF CalcRestartConfigAnnotation, HashRestartConfigs, After
<1>3. CASE c.restart = Before(s, b) /\ c.spec.http = s.http
  <2>1. CASE b
    BY <1>1, <1>3, <2>1, RestartValues DEF CalcRestartConfigAnnotation, HashRestartConfigs
  <2>2. CASE ~b
    BY <1>1, <1>3, <2>2, RestartValues
       DEF CalcRestartConfigAnnotation, HashRestartConfigs, Before
  <2> QED
    BY <2>1, <2>2
<1>4. CASE c.restart = Before(s, b) /\ c.spec.http # s.http
  <2>1. c.spec = g /\ Moved(s, g)
    BY <1>4 DEF IsCopy, Moved
  <2> QED
    BY <1>1, <1>4, <2>1, RestartValues
       DEF CalcRestartConfigAnnotation, HashRestartConfigs, After
<1> QED
  BY <1>2, <1>3, <1>4

(***************************************************************************)
(* Every step keeps the invariant.                                         *)
(***************************************************************************)
LEMMA StageRange ==
    ASSUME NEW s, NEW g, NEW c
    PROVE  Stage(s, g, c) \in 0..2
BY DEF Stage

(* Only the spec and the restart annotation count.                         *)
LEMMA StageOfCopy ==
    ASSUME NEW s, NEW g, NEW b, NEW c, NEW d, c.spec = d.spec, c.restart = d.restart
    PROVE  Stage(s, g, c) = Stage(s, g, d) /\ (IsCopy(s, g, b, c) <=> IsCopy(s, g, b, d))
BY DEF Stage, IsCopy

(* Steps that leave the templates and the account alone.                   *)
LEMMA EditKept ==
    ASSUME NEW s, NEW g, NEW b, NEW x, NEW y, NEW z, NEW k, EditInv(s, g, b, x, y, z, k),
           UNCHANGED <<version, edits, cset, asked>>, set'.template = set.template,
           NEW i, NEW j, CopyInv(s, g, b, x)', WantInv(s, g, b, x, y, i, j)',
           StartInUse(s, g, j)' => StartInUse(s, g, k)
    PROVE  EditInv(s, g, b, x, y, i, j)'
<1>1. SetInv(s, g, b, x, y)'
  BY DEF EditInv, SetInv, IsAt, IsBehind
<1>2. AskedInv(s, g, x, j)'
  BY DEF EditInv, AskedInv, EditOpen, Matters
<1> QED
  BY <1>1, <1>2 DEF EditInv

(* What is wanted stays so while copies of the CR move on.                 *)
LEMMA WantKept ==
    ASSUME NEW s, NEW g, NEW b, NEW x, NEW y, NEW z, NEW k \in 0..2,
           EditInv(s, g, b, x, y, z, k),
           UNCHANGED <<version, cset, seen, want>>, set'.template = set.template,
           Patching' => Patching, Stage(s, g, ccr) <= Stage(s, g, ccr')
    PROVE  WantInv(s, g, b, x, y, z, k)'
<1>1. Stage(s, g, ccr) \in 0..2 /\ Stage(s, g, ccr') \in 0..2
  BY StageRange
<1>2. Reason(s, g, z, k)' <=> Reason(s, g, z, k)
  BY DEF Reason, Matters
<1>3. NotAfter(z, y)' <=> NotAfter(z, y)
  BY DEF NotAfter
<1>4. /\ IsAt(s, g, b, z, seen)' <=> IsAt(s, g, b, z, seen)
      /\ IsBehind(g, z, seen.annotations, x, set.template.annotations)'
            <=> IsBehind(g, z, seen.annotations, x, set.template.annotations)
  BY DEF IsAt, IsBehind
<1> SUFFICES ASSUME Patching'
             PROVE  /\ want' = Template(SpecAt(s, g, k), version', RestartAt(s, g, b, k))
                    /\ IsAt(s, g, b, z, seen)' /\ z.by \in {OldVersion, version'}
                    /\ IsBehind(g, z, seen.annotations, x, set.template.annotations)'
                    /\ NotAfter(z, y)' /\ Reason(s, g, z, k)' /\ x.level <= k
                    /\ k <= Stage(s, g, ccr') /\ (k = 2 => Moved(s, g))
  BY DEF WantInv
<1>5. /\ want = Template(SpecAt(s, g, k), version, RestartAt(s, g, b, k))
      /\ IsAt(s, g, b, z, seen) /\ z.by \in {OldVersion, version}
      /\ IsBehind(g, z, seen.annotations, x, set.template.annotations) /\ NotAfter(z, y)
      /\ Reason(s, g, z, k) /\ x.level <= k /\ k <= Stage(s, g, ccr)
      /\ k = 2 => Moved(s, g)
  BY DEF EditInv, WantInv
<1> QED
  BY <1>1, <1>2, <1>3, <1>4, <1>5

LEMMA EditKeptByReads ==
    ASSUME NEW s \in Specs, NEW g \in Specs, NEW b \in BOOLEAN, NEW x \in Places,
           NEW y \in Places, NEW z \in Places, NEW k \in 0..2, EditInv(s, g, b, x, y, z, k),
           TypeInv, \/ UNCHANGED vars \/ ReconcileResources \/ Fail \/ UpdateStatus
                    \/ (HandleTargetState /\ ~Patching') \/ \E p \in Pods : RestartPod(p)
    PROVE  EditInv(s, g, b, x, y, z, k)'
<1>1. UNCHANGED <<version, edits, cr, ccr, mem, cset, asked>> /\ set'.template = set.template
  <2>1. CASE UpdateStatus
    BY <2>1 DEF UpdateStatus, operator, crs, TypeInv, SetType, IsSet
  <2>2. CASE \E p \in Pods : RestartPod(p)
    BY <2>2 DEF RestartPod, operator, crs, sets
  <2>3. CASE \/ UNCHANGED vars \/ ReconcileResources \/ HandleTargetState \/ Fail
    BY <2>3 DEF vars, ReconcileResources, HandleTargetState, Fail, crs, sets
  <2> QED
    BY <2>1, <2>2, <2>3
<1>2. /\ pc' \in {"apply", "state"} => pc \in {"apply", "state"}
      /\ Patching' => UNCHANGED <<pc, want, seen>>
  BY DEF vars, ReconcileResources, HandleTargetState, Fail, UpdateStatus, RestartPod, operator,
         Goto, Return, Patching
<1>3. CopyInv(s, g, b, x)'
  BY <1>1, <1>2 DEF EditInv, CopyInv
<1>4. StartInUse(s, g, k)' => StartInUse(s, g, k)
  BY <1>1, <1>2 DEF StartInUse, Patching
<1>5. WantInv(s, g, b, x, y, z, k)'
  <2>1. CASE Patching'
    <3>1. Stage(s, g, ccr) <= Stage(s, g, ccr') /\ Patching
      BY <1>1, <1>2, <2>1, StageRange DEF Patching
    <3> QED
      BY <1>1, <1>2, <2>1, <3>1, WantKept
  <2>2. CASE ~Patching'
    BY <2>2 DEF WantInv
  <2> QED
    BY <2>1, <2>2
<1> QED
  BY <1>1, <1>3, <1>4, <1>5, EditKept

(* handleTargetState: a rollout is decided.                                *)
LEMMA EditKeptByDecision ==
    ASSUME NEW s \in Specs, NEW g \in Specs, NEW b \in BOOLEAN, NEW x \in Places,
           NEW y \in Places, NEW z \in Places, NEW k \in 0..2, EditInv(s, g, b, x, y, z, k),
           TypeInv, HandleTargetState, Patching'
    PROVE  \E l \in 0..2 : EditInv(s, g, b, x, y, y, l)'
<1>1. /\ UNCHANGED <<version, edits, cr, ccr, mem, cset, set, asked>> /\ pc = "state"
      /\ ShouldUpdatePodTemplate(Template(mem.spec, version, mem.restart), cset.template)
      /\ want' = Template(mem.spec, version, mem.restart) /\ seen' = cset.template
  BY DEF HandleTargetState, Goto, Return, Patching, crs, sets
<1>2. PICK l \in 0..2 : l = Stage(s, g, mem)
  BY StageRange
<1>3. /\ SetInv(s, g, b, x, y) /\ CopyInv(s, g, b, x)
  BY DEF EditInv
<1>4. /\ IsAt(s, g, b, y, cset.template) /\ y.by \in {OldVersion, version}
      /\ IsBehind(g, y, cset.template.annotations, x, set.template.annotations)
  BY <1>3 DEF SetInv
<1>5. IsCopy(s, g, b, mem) /\ x.level <= l /\ l <= Stage(s, g, ccr)
  BY <1>1, <1>2, <1>3 DEF CopyInv
<1>6. y.level <= l
  BY <1>4, <1>5 DEF IsBehind, Places
<1>7. /\ mem.spec = SpecAt(s, g, l) /\ mem.restart = RestartAt(s, g, b, l)
      /\ Reason(s, g, y, l) /\ (l = 2 => Moved(s, g))
  BY <1>1, <1>2, <1>4, <1>5, <1>6, Decides
<1>8. CopyInv(s, g, b, x)'
  BY <1>1, <1>3 DEF CopyInv, Patching
<1>9. StartInUse(s, g, l)' => StartInUse(s, g, k)
  BY <1>1, <1>2 DEF StartInUse, Patching
<1>10. /\ Reason(s, g, y, l)' /\ NotAfter(y, y)'
       /\ IsAt(s, g, b, y, seen)' /\ y.by \in {OldVersion, version'}
       /\ IsBehind(g, y, seen.annotations, x, set.template.annotations)'
  BY <1>1, <1>4, <1>7 DEF Reason, Matters, NotAfter, IsAt, IsBehind, Places
<1>11. want' = Template(SpecAt(s, g, l), version', RestartAt(s, g, b, l))
  BY <1>1, <1>7
<1>12. WantInv(s, g, b, x, y, y, l)'
  BY <1>1, <1>5, <1>7, <1>10, <1>11 DEF WantInv
<1>13. EditInv(s, g, b, x, y, y, l)'
  BY <1>1, <1>8, <1>9, <1>12, EditKept
<1> QED
  BY <1>13

(* Reconcile begins, and the CR reaches the cache.                         *)
LEMMA EditKeptByCopies ==
    ASSUME NEW s \in Specs, NEW g \in Specs, NEW b \in BOOLEAN, NEW x \in Places,
           NEW y \in Places, NEW z \in Places, NEW k \in 0..2, EditInv(s, g, b, x, y, z, k),
           TypeInv, Begin \/ SyncCR
    PROVE  EditInv(s, g, b, x, y, z, k)'
<1>1. UNCHANGED <<version, edits, cr, set, cset, want, seen, asked>>
  BY DEF Begin, SyncCR, crs, sets
<1>2. \A c : Stage(s, g, c) \in 0..2
  BY StageRange
<1>3. CopyInv(s, g, b, x)
  BY DEF EditInv
<1>4. CASE Begin
  <2>1. CopyInv(s, g, b, x)'
    BY <1>1, <1>2, <1>3, <1>4 DEF CopyInv, Begin, crs
  <2>2. WantInv(s, g, b, x, y, z, k)'
    BY <1>4 DEF WantInv, Begin, Patching
  <2>3. StartInUse(s, g, k)' => StartInUse(s, g, k)
    BY <1>4 DEF StartInUse, Begin, Patching, crs
  <2> QED
    BY <1>1, <2>1, <2>2, <2>3, EditKept
<1>5. CASE SyncCR
  <2>1. ccr' = cr /\ mem' = mem /\ pc' = pc
    BY <1>5 DEF SyncCR
  <2>2. Stage(s, g, ccr) <= Stage(s, g, ccr')
    BY <1>3, <2>1 DEF CopyInv
  <2>3. CopyInv(s, g, b, x)'
    <3>1. x.level <= Stage(s, g, cr)
      BY <1>2, <1>3 DEF CopyInv, Places
    <3>2. pc \in {"apply", "state"} => Stage(s, g, mem) <= Stage(s, g, cr)
      BY <1>3 DEF CopyInv
    <3> QED
      BY <1>1, <1>2, <1>3, <2>1, <3>1, <3>2 DEF CopyInv
  <2>4. WantInv(s, g, b, x, y, z, k)'
    BY <1>1, <2>1, <2>2, WantKept DEF Patching
  <2>5. StartInUse(s, g, k)' => StartInUse(s, g, k)
    BY <1>2, <2>1, <2>2 DEF StartInUse, Patching
  <2> QED
    BY <1>1, <2>3, <2>4, <2>5, EditKept
<1> QED
  BY <1>4, <1>5

(* A patch of the CR by the reconcile.                                     *)
LEMMA EditKeptByPatchOfCR ==
    ASSUME NEW s \in Specs, NEW g \in Specs, NEW b \in BOOLEAN, NEW x \in Places,
           NEW y \in Places, NEW z \in Places, NEW k \in 0..2, EditInv(s, g, b, x, y, z, k),
           UNCHANGED <<version, edits, ccr, set, cset, want, seen, asked>>,
           cr'.spec = cr.spec, IsCopy(s, g, b, cr'), Stage(s, g, cr) <= Stage(s, g, cr'),
           mem' \in {mem, cr'}, pc \in {"disable", "enable", "force", "config"},
           pc' \in {"force", "config", "patch", "idle"},
           pc' \in {"force", "patch"} => pc \in {"disable", "force"}
    PROVE  EditInv(s, g, b, x, y, z, k)'
<1>1. \A c : Stage(s, g, c) \in 0..2
  BY StageRange
<1>2. CopyInv(s, g, b, x)'
  BY <1>1 DEF EditInv, CopyInv
<1>3. Patching' => Patching
  BY DEF Patching
<1>4. WantInv(s, g, b, x, y, z, k)'
  BY <1>1, <1>3, WantKept
<1>5. StartInUse(s, g, k)' => StartInUse(s, g, k)
  BY <1>3 DEF StartInUse
<1> QED
  BY <1>2, <1>4, <1>5, EditKept

LEMMA EditKeptByReconcileOfCR ==
    ASSUME NEW s \in Specs, NEW g \in Specs, NEW b \in BOOLEAN, NEW x \in Places,
           NEW y \in Places, NEW z \in Places, NEW k \in 0..2, EditInv(s, g, b, x, y, z, k),
           TypeInv, DisableRebalance \/ EnableRebalanceCondition \/ HandleConfigState
    PROVE  EditInv(s, g, b, x, y, z, k)'
<1>1. \A c : Stage(s, g, c) \in 0..2
  BY StageRange
<1>2. IsCopy(s, g, b, cr) /\ IsCopy(s, g, b, mem) /\ Stage(s, g, mem) <= Stage(s, g, cr)
  BY DEF EditInv, CopyInv
<1>3. cr \in CRs /\ mem \in CRs
  BY DEF TypeInv, CRType
<1>4. /\ UNCHANGED <<version, edits, ccr, set, cset, want, seen, asked>>
      /\ pc \in {"disable", "enable", "force", "config"}
      /\ pc' \in {"force", "config", "patch", "idle"}
      /\ pc' \in {"force", "patch"} => pc \in {"disable", "force"}
  BY DEF DisableRebalance, EnableRebalanceCondition, SetRebalanceCondition, HandleConfigState,
         Goto, Return, sets
<1>5. CASE cr' = cr /\ mem' = mem
  BY <1>1, <1>2, <1>4, <1>5, EditKeptByPatchOfCR
<1>6. CASE /\ mem' = cr' /\ \E to : cr' = [cr EXCEPT !.rebalance = to]
  <2>1. PICK to : cr' = [cr EXCEPT !.rebalance = to]
    BY <1>6
  <2>2. cr'.spec = cr.spec /\ cr'.restart = cr.restart
    BY <1>3, <2>1 DEF CRs
  <2>3. IsCopy(s, g, b, cr') /\ Stage(s, g, cr') = Stage(s, g, cr)
    BY <1>2, <2>2, StageOfCopy
  <2> QED
    BY <1>1, <1>4, <1>6, <2>2, <2>3, EditKeptByPatchOfCR
<1>7. CASE mem' = cr' /\ cr' = Merge(cr, mem, NewConfigState(mem))
  <2> DEFINE new == NewConfigState(mem)
  <2>1. new.spec = mem.spec /\ new.restart = CalcRestartConfigAnnotation(mem)
    BY <1>3 DEF CRs, NewConfigState
  <2>2. DOMAIN cr = {"spec", "rebalance", "restart", "hash"}
    BY <1>3 DEF CRs
  <2>3. /\ cr'.spec = cr.spec
        /\ cr'.restart = IF new.restart # mem.restart THEN new.restart ELSE cr.restart
    BY <1>7, <2>1, <2>2 DEF Merge
  <2>4. CASE cr'.restart = cr.restart
    <3>1. IsCopy(s, g, b, cr') /\ Stage(s, g, cr') = Stage(s, g, cr)
      BY <1>2, <2>3, <2>4, StageOfCopy
    <3> QED
      BY <1>1, <1>4, <1>7, <2>3, <3>1, EditKeptByPatchOfCR
  <2>5. CASE cr'.restart # cr.restart
    <3>1. /\ cr'.restart = After(g) /\ Moved(s, g) /\ mem.spec = g
      BY <1>2, <2>1, <2>3, <2>5, CalcDuringEdit
    <3>2. g # s
      BY <3>1 DEF Moved
    <3>3. cr.spec = g
      BY <1>2, <3>1, <3>2, RestartValues DEF Stage, IsCopy
    <3>4. IsCopy(s, g, b, cr') /\ Stage(s, g, cr') = 2
      BY <2>3, <3>1, <3>3 DEF Stage, IsCopy
    <3> QED
      BY <1>1, <1>4, <1>7, <2>3, <3>4, EditKeptByPatchOfCR
  <2> QED
    BY <2>4, <2>5
<1> QED
  <2>1. CASE DisableRebalance \/ EnableRebalanceCondition
    <3>1. (cr' = cr /\ mem' = mem) \/ (mem' = cr' /\ \E to : cr' = [cr EXCEPT !.rebalance = to])
      BY <2>1 DEF DisableRebalance, EnableRebalanceCondition, SetRebalanceCondition
    <3> QED
      BY <1>5, <1>6, <3>1
  <2>2. CASE HandleConfigState
    <3>1. (cr' = cr /\ mem' = mem) \/ (mem' = cr' /\ cr' = Merge(cr, mem, NewConfigState(mem)))
      BY <2>2 DEF HandleConfigState, NewConfigState
    <3> QED
      BY <1>5, <1>7, <3>1
  <2> QED
    BY <2>1, <2>2

(* A fresh copy of the StatefulSet.                                        *)
LEMMA EditKeptBySyncSet ==
    ASSUME NEW s \in Specs, NEW g \in Specs, NEW b \in BOOLEAN, NEW x \in Places,
           NEW y \in Places, NEW z \in Places, NEW k \in 0..2, EditInv(s, g, b, x, y, z, k),
           TypeInv, SyncSet
    PROVE  EditInv(s, g, b, x, x, z, k)'
<1>1. UNCHANGED <<version, edits, cr, ccr, set, mem, pc, want, seen, asked>> /\ cset' = set
  BY DEF SyncSet, crs
<1>2. SetInv(s, g, b, x, y) /\ CopyInv(s, g, b, x) /\ AskedInv(s, g, x, k)
  BY DEF EditInv
<1>3. SetInv(s, g, b, x, x)'
  BY <1>1, <1>2 DEF SetInv, IsAt, IsBehind
<1>4. CopyInv(s, g, b, x)' /\ AskedInv(s, g, x, k)'
  BY <1>1, <1>2 DEF CopyInv, AskedInv, EditOpen, Matters, StartInUse, Patching
<1>5. WantInv(s, g, b, x, x, z, k)'
  <2>1. ASSUME Patching PROVE NotAfter(z, x)
    <3>1. IsBehind(g, z, seen.annotations, x, set.template.annotations)
      BY <2>1 DEF EditInv, WantInv
    <3> QED
      BY <3>1 DEF IsBehind, NotAfter, Places
  <2>2. WantInv(s, g, b, x, x, z, k)
    BY <2>1 DEF EditInv, WantInv
  <2> QED
    BY <1>1, <2>2 DEF WantInv, Patching, IsAt, IsBehind, NotAfter, Reason, Matters
<1> QED
  BY <1>3, <1>4, <1>5 DEF EditInv

(* The operator is replaced; its caches are fresh.                         *)
LEMMA EditKeptByUpgrade ==
    ASSUME NEW s \in Specs, NEW g \in Specs, NEW b \in BOOLEAN, NEW x \in Places,
           NEW y \in Places, NEW z \in Places, NEW k \in 0..2, EditInv(s, g, b, x, y, z, k),
           TypeInv, Len(scenario.specs) <= 2, UpgradeOperator
    PROVE  EditInv(s, g, b, x, x, z, k)'
<1>1. /\ UNCHANGED <<edits, cr, set, mem>> /\ cset' = set /\ ccr' = cr
      /\ version = OldVersion /\ ~Patching' /\ pc' = "idle"
      /\ asked' = IF VersionMatters(OldVersion, version', cr.spec)
                  THEN [asked EXCEPT !.pods = @ + 1] ELSE asked
  BY DEF UpgradeOperator, Patching
<1>2. SetInv(s, g, b, x, y) /\ CopyInv(s, g, b, x) /\ AskedInv(s, g, x, k)
  BY DEF EditInv
<1>3. x.by = OldVersion /\ x.level \in 0..2
  BY <1>1, <1>2 DEF SetInv, Places
<1>4. SetInv(s, g, b, x, x)'
  BY <1>1, <1>2, <1>3 DEF SetInv, IsAt, IsBehind
<1>5. \A c : Stage(s, g, c) \in 0..2
  BY StageRange
<1>6. CopyInv(s, g, b, x)'
  BY <1>1, <1>2, <1>3, <1>5 DEF CopyInv
<1>7. WantInv(s, g, b, x, x, z, k)'
  BY <1>1 DEF WantInv
<1>8. /\ asked.pods \in Nat /\ asked.config \in Nat
      /\ asked = [pods |-> asked.pods, config |-> asked.config]
  BY DEF TypeInv, AskedType
<1>9. /\ asked'.config = asked.config /\ asked'.pods >= asked.pods /\ asked'.pods \in Nat
      /\ VersionMatters(OldVersion, version', cr.spec) => asked'.pods = asked.pods + 1
  BY <1>1, <1>8
<1> DEFINE p == SpecAt(s, g, x.level)
<1>10. /\ EditOpen(s, g, x) => asked.pods > 0
       /\ edits = 2 /\ x.level < 2 /\ Moved(s, g) => asked.config > 0
  BY <1>2 DEF AskedInv
<1>11. CASE ~EditOpen(s, g, x)
  <2>1. VersionMatters(OldVersion, version', p) => VersionMatters(OldVersion, version', cr.spec)
    <3>1. CASE cr.spec = p
      BY <3>1
    <3>2. CASE cr.spec # p
      <4>1. x.level = 0 /\ cr.spec = g /\ edits # 1
        <5>1. CASE edits = 1
          <6>1. Stage(s, g, cr) = 0 \/ g = s
            BY <1>2, <5>1, RestartValues DEF CopyInv, Stage, IsCopy, Moved
          <6>2. x.level = 0 \/ g = s
            BY <1>2, <1>3, <1>5, <6>1 DEF CopyInv
          <6> QED
            BY <1>2, <3>2, <5>1, <6>2 DEF CopyInv, SpecAt
        <5>2. CASE edits # 1
          BY <1>2, <3>2, <5>2 DEF CopyInv, SpecAt
        <5> QED
          BY <5>1, <5>2
      <4>2. edits = 2
        BY <4>1, ScenarioSpecs DEF TypeInv, PlayType
      <4>3. ~PodsChange(s, g)
        BY <1>11, <4>1, <4>2 DEF EditOpen
      <4>4. cr.spec.certificate = p.certificate
        BY <4>1, <4>3, SamePods DEF SpecAt
      <4> QED
        BY <4>4 DEF VersionMatters
    <3> QED
      BY <3>1, <3>2
  <2>2. Matters(x.by, p)' => asked'.pods > 0
    BY <1>3, <1>8, <1>9, <2>1 DEF Matters
  <2>3. AskedInv(s, g, x, k)'
    BY <1>1, <1>9, <1>10, <1>11, <2>2 DEF AskedInv, EditOpen
  <2> QED
    BY <1>4, <1>6, <1>7, <2>3 DEF EditInv
<1>12. CASE EditOpen(s, g, x)
  <2>1. Stage(s, g, cr) # 0
    <3>1. g # s /\ cr.spec = g
      BY <1>2, <1>12, NoChange DEF EditOpen, CopyInv
    <3> QED
      BY <3>1 DEF Stage
  <2>2. ~StartInUse(s, g, k)'
    BY <1>1, <2>1 DEF StartInUse
  <2>3. AskedInv(s, g, x, k)'
    BY <1>1, <1>8, <1>9, <1>10, <1>12, <2>2 DEF AskedInv
  <2> QED
    BY <1>4, <1>6, <1>7, <2>3 DEF EditInv
<1> QED
  BY <1>11, <1>12

(* The edit: of spec s to spec g.                                          *)
LEMMA EditKeptByUser ==
    ASSUME NEW s \in Specs, NEW g \in Specs, NEW b \in BOOLEAN, NEW x \in Places,
           NEW y \in Places, NEW z \in Places, NEW k \in 0..2, EditInv(s, g, b, x, y, z, k),
           TypeInv, Len(scenario.specs) <= 2, g = Goal, UserEdits
    PROVE  EditInv(s, g, b, x, y, z, k)'
<1>1. Len(scenario.specs) \in Nat /\ edits \in 1..Len(scenario.specs)
  BY ScenarioSpecs DEF TypeInv, PlayType
<1>2. edits = 1 /\ edits' = 2 /\ scenario.specs[edits'] = g
  BY <1>1 DEF UserEdits, Goal
<1>3. /\ UNCHANGED <<version, set, cset, ccr, pc, mem, seen, want>>
      /\ cr' = [cr EXCEPT !.spec = g]
  BY <1>2 DEF UserEdits, sets, operator
<1>4. SetInv(s, g, b, x, y) /\ CopyInv(s, g, b, x) /\ AskedInv(s, g, x, k)
  BY DEF EditInv
<1>5. cr \in CRs /\ cr.spec = s /\ IsCopy(s, g, b, cr)
  BY <1>2, <1>4 DEF TypeInv, CRType, CopyInv
<1>6. cr'.spec = g /\ cr'.restart = cr.restart
  BY <1>3, <1>5 DEF CRs
<1>7. IsCopy(s, g, b, cr') /\ Stage(s, g, cr) <= Stage(s, g, cr')
  BY <1>5, <1>6 DEF IsCopy, Stage
<1>8. \A c : Stage(s, g, c) \in 0..2
  BY StageRange
<1>9. CopyInv(s, g, b, x)'
  BY <1>2, <1>3, <1>4, <1>6, <1>7, <1>8 DEF CopyInv
<1>10. SetInv(s, g, b, x, y)'
  BY <1>3, <1>4 DEF SetInv, IsAt, IsBehind
<1>11. WantInv(s, g, b, x, y, z, k)'
  <2>1. Stage(s, g, ccr) <= Stage(s, g, ccr')
    BY <1>3, <1>8
  <2> QED
    BY <1>3, <2>1, WantKept DEF Patching
<1>12. AskedInv(s, g, x, k)'
  <2>1. asked.pods \in Nat /\ asked.config \in Nat
    BY DEF TypeInv, AskedType
  <2>2. asked' = [pods   |-> asked.pods + (IF PodsChange(s, g) THEN 1 ELSE 0),
                  config |-> asked.config + (IF Moved(s, g) THEN 1 ELSE 0)]
    BY <1>2, <1>5 DEF UserEdits, Moved
  <2>3. /\ PodsChange(s, g) => asked'.pods = asked.pods + 1
        /\ ~PodsChange(s, g) => asked'.pods = asked.pods
        /\ Moved(s, g) => asked'.config = asked.config + 1
    BY <2>1, <2>2
  <2>4. ~EditOpen(s, g, x)
    BY <1>2 DEF EditOpen
  <2>5. Matters(x.by, SpecAt(s, g, x.level))' <=> Matters(x.by, SpecAt(s, g, x.level))
    BY <1>3 DEF Matters
  <2>6. Matters(x.by, SpecAt(s, g, x.level)) => asked.pods > 0
    BY <1>4 DEF AskedInv
  <2>7. EditOpen(s, g, x)' => PodsChange(s, g)
    BY DEF EditOpen
  <2>8. /\ EditOpen(s, g, x)' \/ Matters(x.by, SpecAt(s, g, x.level))' => asked'.pods > 0
        /\ EditOpen(s, g, x)' /\ Matters(x.by, SpecAt(s, g, x.level))' => asked'.pods > 1
        /\ Moved(s, g) => asked'.config > 0
    BY <2>1, <2>3, <2>5, <2>6, <2>7
  <2> QED
    BY <2>8 DEF AskedInv
<1> QED
  BY <1>9, <1>10, <1>11, <1>12 DEF EditInv

(* Which rollouts ask for a restart by the annotation.                     *)
LEMMA WhatRolloutAsks ==
    ASSUME NEW s \in Specs, NEW g \in Specs, NEW b \in BOOLEAN, NEW x \in Places,
           NEW t, IsAt(s, g, b, x, t), NEW k \in 0..2, NEW u, IsAt(s, g, b, Target(k), u),
           x.level <= k, ~(k = 0 /\ version = OldVersion), k = 2 => Moved(s, g)
    PROVE  AsksRestart(t, u) <=> k = 2 /\ x.level < 2
<1>1. /\ Target(k).level = k /\ Target(k).by = version /\ x.level \in 0..2
  BY DEF Target, Places
<1>2. u.annotations.restart = IF k = 2 THEN After(g) ELSE Before(s, b)
  BY <1>1 DEF IsAt, NotesAt, RestartAt
<1>3. t.annotations.restart = IF b /\ x.level = 0 /\ x.by = OldVersion THEN NoRestart
                              ELSE IF x.level = 2 THEN After(g) ELSE Before(s, b)
  BY DEF IsAt, NotesAt, RestartAt
<1>4. /\ NoRestart # Before(s, b) /\ NoRestart # After(g)
      /\ Moved(s, g) => Before(s, b) # After(g)
      /\ Before(s, b).initial = b /\ ~After(g).initial
  BY RestartValues
<1>5. CASE k = 2 /\ x.level < 2
  BY <1>2, <1>3, <1>4, <1>5 DEF AsksRestart
<1>6. CASE k = 2 /\ x.level = 2
  BY <1>2, <1>3, <1>6 DEF AsksRestart
<1>7. CASE k # 2
  <2>1. u.annotations.restart = Before(s, b) /\ x.level # 2
    BY <1>1, <1>2, <1>7
  <2>2. CASE b
    <3>1. Before(s, b).initial
      BY <1>4, <2>2
    <3> QED
      BY <1>7, <2>1, <3>1 DEF AsksRestart
  <2>3. CASE ~b
    BY <1>3, <1>7, <2>1, <2>3 DEF AsksRestart
  <2> QED
    BY <2>2, <2>3
<1> QED
  BY <1>1, <1>5, <1>6, <1>7

(* syncTargetPodSpec: the StatefulSet goes on to what is wanted, and that  *)
(* was asked for, or has it already.                                       *)
LEMMA PatchDuringEdit ==
    ASSUME NEW s \in Specs, NEW g \in Specs, NEW b \in BOOLEAN, NEW x \in Places,
           NEW y \in Places, NEW z \in Places, NEW k \in 0..2, EditInv(s, g, b, x, y, z, k),
           TypeInv, Len(scenario.specs) <= 2, DefaultsNotGiven, SyncTargetPodSpec
    PROVE  \/ /\ set'.template = set.template
              /\ EditInv(s, g, b, x, y, z, k)'
           \/ /\ IF AsksRestart(set.template, set'.template) THEN asked.config > 0
                 ELSE asked.pods > 0
              /\ \E i \in Places : EditInv(s, g, b, i, y, z, k)'
<1>1. /\ want = Template(SpecAt(s, g, k), version, RestartAt(s, g, b, k))
      /\ IsAt(s, g, b, z, seen) /\ z.by \in {OldVersion, version}
      /\ IsBehind(g, z, seen.annotations, x, set.template.annotations) /\ NotAfter(z, y)
      /\ Reason(s, g, z, k) /\ x.level <= k /\ k <= Stage(s, g, ccr)
      /\ k = 2 => Moved(s, g)
  BY DEF SyncTargetPodSpec, EditInv, WantInv, Patching
<1>2. /\ IsAt(s, g, b, x, set.template) /\ IsAt(s, g, b, y, cset.template)
      /\ x.by \in {OldVersion, version} /\ y.by \in {OldVersion, version}
      /\ IsBehind(g, y, cset.template.annotations, x, set.template.annotations)
  BY DEF EditInv, SetInv
<1>3. CopyInv(s, g, b, x) /\ AskedInv(s, g, x, k)
  BY DEF EditInv
<1>4. x.level \in 0..2 /\ y.level \in 0..2 /\ z.level \in 0..2
  BY DEF Places
<1>5. ~(k = 0 /\ version = OldVersion)
  BY <1>1, <1>4 DEF Reason, Matters, VersionMatters
<1> DEFINE r   == RestartAt(s, g, b, k)
           p   == SpecAt(s, g, k)
           a   == set.template.annotations
           e   == seen.annotations
           h   == cset.template.annotations
           n   == Merge(a, e, Synced(p, r, e))
           new == Patched(set.template, seen, SyncPodTemplate(want, seen))
<1>6. a \in Annotations /\ e \in Annotations /\ h \in Annotations
  BY <1>1, <1>2 DEF IsAt
<1>7. NotesInv(s, g, b, x, a, z, e, k)
  BY <1>1, <1>2, <1>5 DEF NotesInv, IsAt
<1>8. new = Made(p, version, n) /\ n \in Annotations
  BY <1>1, <1>2, <1>7, PatchAdvances DEF TypeInv, PlayType
<1>9. NotesAt(s, g, b, Target(k), n) /\ (x.level = k /\ x.by = version => n = a)
  BY <1>6, <1>7, NotesAdvance
<1>10. /\ set' = IF new = set.template THEN set
                 ELSE [template |-> new, observed |-> FALSE, rolled |-> FALSE]
       /\ asked' = IF new = set.template THEN asked
                   ELSE IF AsksRestart(set.template, new)
                   THEN [asked EXCEPT !.config = IF @ > 0 THEN @ - 1 ELSE 0]
                   ELSE [asked EXCEPT !.pods = IF @ > 0 THEN @ - 1 ELSE 0]
  BY DEF SyncTargetPodSpec
<1>11. pc' = "idle" /\ UNCHANGED <<version, edits, cr, ccr, cset, mem, seen, want>>
  BY DEF SyncTargetPodSpec, Return, crs
<1>12. ASSUME NEW i, NEW j PROVE WantInv(s, g, b, i, j, z, k)'
  BY <1>11 DEF WantInv, Patching
<1> HIDE DEF new
<1>13. CASE new = set.template
  <2>1. set' = set /\ asked' = asked
    BY <1>10, <1>13
  <2>2. CopyInv(s, g, b, x)'
    BY <1>3, <1>11, <2>1 DEF CopyInv
  <2>3. StartInUse(s, g, k)' => StartInUse(s, g, k)
    BY <1>11 DEF StartInUse, Patching
  <2> QED
    BY <1>11, <1>12, <2>1, <2>2, <2>3, EditKept
<1>14. CASE new # set.template
  <2>1. set'.template = new
    BY <1>10, <1>14
  <2>2. ~(x.level = k /\ x.by = version)
    <3> SUFFICES ASSUME x.level = k, x.by = version PROVE FALSE
      OBVIOUS
    <3>1. set.template = Made(p, version, a)
      BY <1>2 DEF IsAt
    <3> QED
      BY <1>8, <1>9, <1>14, <3>1
  <2>3. edits = 2 \/ k = 0
    <3>1. edits \in 1..2
      BY ScenarioSpecs DEF TypeInv, PlayType
    <3>2. CASE edits = 1
      <4>1. cr.spec = s /\ IsCopy(s, g, b, cr) /\ k <= Stage(s, g, cr)
        BY <1>1, <1>3, <3>2, StageRange DEF CopyInv
      <4>2. Stage(s, g, cr) = 0
        BY <4>1, RestartValues DEF Stage, IsCopy, Moved
      <4> QED
        BY <4>1, <4>2
    <3> QED
      BY <3>1, <3>2
  <2>4. PICK i \in Places : i = Target(k) /\ i.level = k /\ i.by = version
    <3>1. /\ Target(k) \in Places
          /\ Target(k).level = k /\ Target(k).by = version
      BY DEF Target, Places, TypeInv, PlayType
    <3> QED
      BY <3>1
  <2>5. new.annotations = n
    BY <1>8, MadeParts DEF SpecAt
  <2>6. IsAt(s, g, b, i, new)
    BY <1>8, <1>9, <2>4, <2>5 DEF IsAt
  <2>7. SetInv(s, g, b, i, y)'
    <3>1. IsBehind(g, y, h, i, n)
      BY <1>1, <1>2, <1>6, <1>7, <2>2, <2>4, StillBehind DEF IsAt
    <3> QED
      BY <1>2, <1>11, <2>1, <2>4, <2>5, <2>6, <3>1 DEF SetInv, IsAt, IsBehind
  <2>8. CopyInv(s, g, b, i)'
    BY <1>1, <1>3, <1>11, <2>4 DEF CopyInv
  <2>9. asked.pods \in Nat /\ asked.config \in Nat
    BY DEF TypeInv, AskedType
  <2>10. ~Matters(version, SpecAt(s, g, k))
    BY DEF Matters, VersionMatters
  <2>11. x.by # version => z = x
    BY <1>1 DEF IsBehind
  <2>12. AsksRestart(set.template, new) <=> k = 2 /\ x.level < 2
    BY <1>1, <1>2, <1>5, <2>4, <2>6, WhatRolloutAsks
  <2>13. CASE k = 2 /\ x.level < 2
    <3>1. edits = 2 /\ Moved(s, g)
      BY <1>1, <2>3, <2>13
    <3>2. asked.config > 0
      BY <1>3, <2>13, <3>1 DEF AskedInv
    <3>3. AskedInv(s, g, i, k)'
      BY <1>11, <2>4, <2>10, <2>13 DEF AskedInv, EditOpen, Matters
    <3> QED
      BY <1>12, <2>1, <2>7, <2>8, <2>12, <2>13, <3>2, <3>3 DEF EditInv
  <2>14. CASE ~(k = 2 /\ x.level < 2)
    <3>1. EditOpen(s, g, x) \/ Matters(x.by, SpecAt(s, g, x.level))
      <4>1. CASE x.by = version
        <5>1. x.level = 0 /\ k = 1 /\ z.level = 0 /\ edits = 2
          BY <1>1, <1>4, <2>2, <2>3, <2>14, <4>1 DEF IsBehind
        <5>2. CASE PodsChange(s, g)
          BY <5>1, <5>2 DEF EditOpen
        <5>3. CASE ~PodsChange(s, g)
          <6>1. z.by = OldVersion /\ z.by # version
            BY <1>1, <2>10, <5>1, <5>3 DEF Reason
          <6>2. g.annotation = s.annotation /\ \A w, q : Template(g, w, q) = Template(s, w, q)
            BY <5>3, SamePods
          <6>3. a.user = s.annotation /\ e.user = s.annotation
            BY <1>1, <1>2, <5>1 DEF IsAt, NotesAt
          <6>4. a.restart = Before(s, b) /\ r = Before(s, b) /\ p = g
            BY <1>2, <4>1, <5>1, <6>1 DEF IsAt, NotesAt, RestartAt, SpecAt
          <6>5. n.user = s.annotation
            BY <6>2, <6>3, <6>4, <1>6, SyncedNotes, NotesMerged
          <6>6. n.restart = Before(s, b)
            BY <6>4, <1>6, SyncedNotes, NotesMerged
          <6>7. n = a
            BY <1>6, <1>8, <6>3, <6>4, <6>5, <6>6, SyncedNotes, NotesMerged
          <6>8. set.template = Made(s, version, a)
            BY <1>2, <4>1, <5>1 DEF IsAt, SpecAt
          <6>9. new = Made(g, version, a)
            BY <1>8, <6>4, <6>7
          <6> QED
            BY <1>14, <6>2, <6>8, <6>9 DEF Made
        <5> QED
          BY <5>2, <5>3
      <4>2. CASE x.by # version
        <5>1. z = x
          BY <2>11, <4>2
        <5>2. CASE x.level = k
          BY <1>1, <1>4, <2>14, <5>1, <5>2 DEF Reason
        <5>3. CASE x.level # k
          <6>1. x.level = 0 /\ k = 1 /\ edits = 2
            BY <1>1, <1>4, <2>3, <2>14, <5>3
          <6>2. CASE PodsChange(s, g)
            BY <6>1, <6>2 DEF EditOpen
          <6>3. CASE ~PodsChange(s, g)
            <7>1. Matters(x.by, g)
              BY <1>1, <5>1, <6>1, <6>3 DEF Reason, SpecAt
            <7> QED
              BY <6>1, <6>3, <7>1, SamePods DEF Matters, VersionMatters, SpecAt
          <6> QED
            BY <6>2, <6>3
        <5> QED
          BY <5>2, <5>3
      <4> QED
        BY <4>1, <4>2
    <3>2. asked.pods > 0
      BY <1>3, <3>1 DEF AskedInv
    <3>3. asked' = [asked EXCEPT !.pods = @ - 1]
      BY <1>10, <1>14, <2>12, <2>14, <3>2
    <3>4. asked'.pods = asked.pods - 1 /\ asked'.config = asked.config
      BY <3>3 DEF TypeInv, AskedType
    <3>5. EditOpen(s, g, i)' => asked'.pods > 0
      <4> SUFFICES ASSUME EditOpen(s, g, i)' PROVE asked.pods > 1
        BY <2>9, <3>4
      <4>1. k = 0 /\ edits = 2 /\ PodsChange(s, g)
        BY <1>11, <2>4 DEF EditOpen
      <4>2. x.level = 0 /\ x.by # version
        BY <1>1, <1>4, <2>2, <4>1
      <4>3. Matters(x.by, SpecAt(s, g, x.level))
        BY <1>1, <1>4, <2>11, <4>1, <4>2 DEF Reason
      <4>4. StartInUse(s, g, k)
        BY <4>1 DEF StartInUse, Patching, SyncTargetPodSpec
      <4> QED
        BY <1>3, <4>1, <4>2, <4>3, <4>4 DEF AskedInv, EditOpen
    <3>6. edits = 2 /\ k < 2 /\ Moved(s, g) => asked'.config > 0
      BY <1>1, <1>3, <1>4, <3>4 DEF AskedInv
    <3>7. AskedInv(s, g, i, k)'
      BY <1>11, <2>4, <2>10, <3>5, <3>6 DEF AskedInv, Matters
    <3> QED
      BY <1>12, <2>1, <2>7, <2>8, <2>12, <2>14, <3>2, <3>7 DEF EditInv
  <2> QED
    BY <2>13, <2>14
<1> QED
  BY <1>13, <1>14

(***************************************************************************)
(* The theorem.                                                            *)
(***************************************************************************)
(* The CR is edited at most once.                                          *)
OneEdit == Len(scenario.specs) <= 2

LEMMA GoalType ==
    ASSUME scenario \in Scenarios
    PROVE  Goal \in Specs
BY ScenarioSpecs DEF Goal

LEMMA RolloutInit == Init /\ OneEdit => RolloutInv
<1> SUFFICES ASSUME Init, OneEdit PROVE RolloutInv
  OBVIOUS
<1>1. First \in Specs /\ Goal \in Specs /\ TypeInv
  BY ScenarioSpecs, GoalType, InitTypes DEF Init
<1>2. PICK s \in Specs, g \in Specs : s = First /\ g = Goal
  BY <1>1
<1>3. PICK b \in BOOLEAN :
        /\ cr = [spec |-> s, rebalance |-> TRUE, restart |-> Before(s, b),
                 hash |-> [http |-> s.http, rebalance |-> TRUE]]
        /\ set = [template |-> Template(s, OldVersion,
                                        IF b THEN NoRestart ELSE Before(s, b)),
                  observed |-> TRUE, rolled |-> TRUE]
  BY <1>2 DEF Init, Before
<1>4. PICK x \in Places : x.level = 0 /\ x.by = OldVersion
  <2>1. /\ [level |-> 0, by |-> OldVersion] \in Places
        /\ [level |-> 0, by |-> OldVersion].level = 0
        /\ [level |-> 0, by |-> OldVersion].by = OldVersion
    BY DEF Places
  <2> QED
    BY <2>1
<1>5. /\ cr.spec = s /\ cr.restart = Before(s, b) /\ ccr = cr /\ mem = cr /\ cset = set
      /\ edits = 1 /\ pc = "idle" /\ version = OldVersion
      /\ asked.pods = 0 /\ asked.config = 0
  BY <1>3 DEF Init
<1>6. IsCopy(s, g, b, cr) /\ Stage(s, g, cr) = 0
  BY <1>5, RestartValues DEF IsCopy, Stage, Moved
<1>7. IsAt(s, g, b, x, set.template)
  <2>1. PICK q \in Restarts : q = (IF b THEN NoRestart ELSE Before(s, b))
    BY RestartValues
  <2>2. set.template = Template(s, OldVersion, q)
    BY <1>3, <2>1
  <2> DEFINE a == [user |-> s.annotation, restart |-> q]
  <2>3. Template(s, OldVersion, q).annotations = a
    BY DEF Template, PrepareAnnotations
  <2>4. a \in Annotations /\ a.user = s.annotation /\ a.restart = q
    BY SpecTypes DEF Annotations
  <2>5. Template(s, OldVersion, q) = Made(s, OldVersion, a)
    BY DEF Template, PrepareAnnotations, Made
  <2> HIDE DEF a
  <2>6. NotesAt(s, g, b, x, a)
    BY <1>4, <2>1, <2>4 DEF NotesAt, RestartAt
  <2> QED
    BY <1>4, <2>2, <2>3, <2>4, <2>5, <2>6 DEF IsAt, SpecAt
<1>8. SetInv(s, g, b, x, x)
  BY <1>4, <1>5, <1>7 DEF SetInv, IsBehind
<1>9. CopyInv(s, g, b, x)
  BY <1>4, <1>5, <1>6 DEF CopyInv
<1>10. WantInv(s, g, b, x, x, x, 0) /\ AskedInv(s, g, x, 0)
  BY <1>4, <1>5 DEF WantInv, Patching, AskedInv, EditOpen, Matters, VersionMatters
<1>11. EditInv(s, g, b, x, x, x, 0)
  BY <1>8, <1>9, <1>10 DEF EditInv
<1> HIDE DEF EditInv
<1> QED
  BY <1>2, <1>11 DEF RolloutInv

(* A step keeps the invariant, and a new template is one that was asked    *)
(* for.                                                                    *)
LEMMA RolloutStep ==
    ASSUME TypeInv, OneEdit, DefaultsNotGiven, RolloutInv, [Next]_vars
    PROVE  /\ RolloutInv' /\ OneEdit' /\ DefaultsNotGiven'
           /\ set'.template # set.template =>
                IF AsksRestart(set.template, set'.template) THEN asked.config > 0
                ELSE asked.pods > 0
<1>1. scenario' = scenario
  BY DEF Next, Reconciler, Begin, ReconcileResources, HandleTargetState, DisableRebalance,
         EnableRebalanceCondition, SetRebalanceCondition, HandleConfigState, SyncTargetPodSpec,
         Fail, UserEdits, UpgradeOperator, SyncCR, SyncSet, UpdateStatus, RestartPod, vars
<1>2. First \in Specs /\ Goal \in Specs
  BY ScenarioSpecs, GoalType DEF TypeInv, PlayType
<1>3. PICK s \in Specs, g \in Specs : s = First /\ g = Goal
  BY <1>2
<1>4. First' = s /\ Goal' = g /\ Places' = Places /\ OneEdit' /\ DefaultsNotGiven'
  BY <1>1, <1>3 DEF First, Goal, Places, OneEdit, DefaultsNotGiven
<1>5. PICK b \in BOOLEAN, x \in Places, y \in Places, z \in Places, k \in 0..2 :
        EditInv(s, g, b, x, y, z, k)
  BY <1>3 DEF RolloutInv
<1>6. ASSUME NEW i \in Places, NEW j \in Places, NEW l \in Places, NEW m \in 0..2,
             EditInv(s, g, b, i, j, l, m)'
      PROVE  RolloutInv'
  BY <1>4, <1>6 DEF RolloutInv
<1>7. Len(scenario.specs) <= 2
  BY DEF OneEdit
<1>8. CASE SyncTargetPodSpec
  <2>1. \/ /\ set'.template = set.template
           /\ EditInv(s, g, b, x, y, z, k)'
        \/ /\ IF AsksRestart(set.template, set'.template) THEN asked.config > 0
              ELSE asked.pods > 0
           /\ \E i \in Places : EditInv(s, g, b, i, y, z, k)'
    BY <1>5, <1>7, <1>8, PatchDuringEdit
  <2> QED
    BY <1>4, <1>6, <2>1
<1>9. CASE ~SyncTargetPodSpec
  <2>1. set'.template = set.template
    BY <1>9 DEF Next, Reconciler, Begin, ReconcileResources, HandleTargetState, DisableRebalance,
         EnableRebalanceCondition, SetRebalanceCondition, HandleConfigState, Fail, UserEdits,
         UpgradeOperator, SyncCR, SyncSet, UpdateStatus, RestartPod, vars, sets, TypeInv, SetType,
         IsSet
  <2> SUFFICES \E i, j, l \in Places, m \in 0..2 : EditInv(s, g, b, i, j, l, m)'
    BY <1>4, <1>6, <2>1
  <2>2. CASE \/ UNCHANGED vars \/ ReconcileResources \/ Fail \/ UpdateStatus
             \/ (HandleTargetState /\ ~Patching') \/ \E p \in Pods : RestartPod(p)
    BY <1>5, <2>2, EditKeptByReads
  <2>3. CASE HandleTargetState /\ Patching'
    BY <1>5, <2>3, EditKeptByDecision
  <2>4. CASE Begin \/ SyncCR
    BY <1>5, <2>4, EditKeptByCopies
  <2>5. CASE DisableRebalance \/ EnableRebalanceCondition \/ HandleConfigState
    BY <1>5, <2>5, EditKeptByReconcileOfCR
  <2>6. CASE SyncSet
    BY <1>5, <2>6, EditKeptBySyncSet
  <2>7. CASE UpgradeOperator
    BY <1>5, <1>7, <2>7, EditKeptByUpgrade
  <2>8. CASE UserEdits
    BY <1>3, <1>5, <1>7, <2>8, EditKeptByUser
  <2> QED
    BY <1>9, <2>2, <2>3, <2>4, <2>5, <2>6, <2>7, <2>8 DEF Next, Reconciler
<1> QED
  BY <1>8, <1>9

(* One edit of an AIStore rolls the pods at most once for what they are    *)
(* made of and once for config that daemons read at their start, and an    *)
(* operator of another version once if it has other security contexts or   *)
(* csi attributes, and not at all if it has not: however stale the caches, *)
(* however often reconciles fail and are repeated, and whenever the        *)
(* operator is replaced (shouldUpdatePodTemplate, syncPodTemplate,         *)
(* handleConfigState).  Assumed: no user spells out the security context   *)
(* that an operator has by default.                                        *)
THEOREM RolloutsOfOneEdit == Spec /\ OneEdit /\ DefaultsNotGiven => RolloutsAreAsked
<1>1. Init => TypeInv
  BY InitTypes
<1>2. TypeInv /\ [Next]_vars => TypeInv'
  BY TypesInductive
<1>3. Init /\ OneEdit => RolloutInv
  BY RolloutInit
<1>4. TypeInv /\ OneEdit /\ DefaultsNotGiven /\ RolloutInv /\ [Next]_vars
        => OneEdit' /\ DefaultsNotGiven' /\ RolloutInv'
  BY RolloutStep
<1>5. TypeInv /\ OneEdit /\ DefaultsNotGiven /\ RolloutInv /\ [Next]_vars =>
        [set'.template # set.template =>
            IF AsksRestart(set.template, set'.template) THEN asked.config > 0
            ELSE asked.pods > 0]_vars
  BY RolloutStep
<1> QED
  BY <1>1, <1>2, <1>3, <1>4, <1>5, PTL DEF Spec, RolloutsAreAsked

(***************************************************************************)
(* The comparison is complete.                                             *)
(***************************************************************************)
LEMMA ContainersCompared ==
    ASSUME NEW s, NEW v, NEW d, NEW t, d.containers = Containers(s, v),
           ~ShouldUpdateContainers(d, t)
    PROVE  /\ Len(t.containers) = Len(d.containers)
           /\ \A i \in DOMAIN d.containers :
                /\ t.containers[i].image = d.containers[i].image
                /\ t.containers[i].resources = d.containers[i].resources
                /\ t.containers[i].security = d.containers[i].security
           /\ t.containers[1].env = s.env
           /\ t.containers[1].probes = <<s.probes, UseHTTPS(s)>>
<1>1. /\ Len(d.containers) = Len(t.containers)
      /\ \A i \in DOMAIN d.containers : \A f \in ContainerChecksFor(i) :
            d.containers[i][f] = t.containers[i][f]
  BY DEF ShouldUpdateContainers, ShouldUpdateContainerSpec
<1>2. \A i : {"image", "resources", "security"} \subseteq ContainerChecksFor(i)
  BY DEF ContainerChecksFor
<1>3. {"env", "probes"} \subseteq ContainerChecksFor(1)
  BY DEF ContainerChecksFor
<1> DEFINE ais == Container(s.nodeImage, s.env, s.resources, <<s.probes, UseHTTPS(s)>>,
                            SecurityContext(s.aisSecurity, v), v.build)
           sidecar == Container(s.sidecar, v.build, s.sidecarResources, v.build,
                                SecurityContext(0, v), v.build)
<1>4. ais.env = s.env /\ ais.probes = <<s.probes, UseHTTPS(s)>>
  BY DEF Container
<1>5. d.containers = <<ais>> \/ d.containers = <<ais, sidecar>>
  BY DEF Containers
<1> HIDE DEF ais, sidecar
<1>6. 1 \in DOMAIN d.containers /\ d.containers[1] = ais
  BY <1>5
<1> QED
  BY <1>1, <1>2, <1>3, <1>4, <1>6

(* The volumes of a pod, in any order.                                     *)
VolumeSet(t) == {t.volumes[i] : i \in DOMAIN t.volumes}

LEMMA VolumesCompared ==
    ASSUME NEW s, NEW v, NEW q, NEW w, NEW d, NEW t,
           d.volumes = Volumes(s, v), t.volumes = Volumes(q, w), ~ShouldUpdateVolumes(d, t)
    PROVE  VolumeSet(t) = VolumeSet(d)
<1> DEFINE base == <<"base", 0, 0>>
           tls(x, y) == <<"tls", x.certificate, y.csi>>
           V(x, y) == Volumes(x, y)
           Set(f) == {f[i] : i \in DOMAIN f}
<1>1. \A x, y : \/ V(x, y) = <<base>>
                \/ V(x, y) = <<base, tls(x, y)>> \/ V(x, y) = <<tls(x, y), base>>
  BY DEF Volumes
<1>2. \A x, y : tls(x, y) # base
  BY Zenon, "tls" # "base" DEF tls, base
<1>3. /\ Len(V(s, v)) = Len(V(q, w))
      /\ \A i \in DOMAIN V(s, v) : \E j \in DOMAIN V(q, w) : V(s, v)[i] = V(q, w)[j]
  BY DEF ShouldUpdateVolumes
<1> HIDE DEF base, tls, V
<1>4. \A x, y : \/ Len(V(x, y)) = 1 /\ DOMAIN V(x, y) = {1} /\ V(x, y)[1] = base
                \/ /\ Len(V(x, y)) = 2 /\ DOMAIN V(x, y) = {1, 2}
                   /\ \/ V(x, y)[1] = base /\ V(x, y)[2] = tls(x, y)
                      \/ V(x, y)[1] = tls(x, y) /\ V(x, y)[2] = base
  BY <1>1
<1>5. \A x, y : \/ Len(V(x, y)) = 1 /\ Set(V(x, y)) = {base}
                \/ Len(V(x, y)) = 2 /\ Set(V(x, y)) = {base, tls(x, y)}
  BY <1>4
<1>6. Set(V(s, v)) \subseteq Set(V(q, w))
  BY <1>3
<1> HIDE DEF Set
<1>7. Set(V(s, v)) = Set(V(q, w))
  <2>1. CASE Len(V(s, v)) = 1
    <3>1. Len(V(q, w)) = 1
      BY <1>3, <2>1
    <3>2. Set(V(s, v)) = {base} /\ Set(V(q, w)) = {base}
      BY <1>5, <2>1, <3>1
    <3> QED
      BY <3>2
  <2>2. CASE Len(V(s, v)) # 1
    <3>1. Set(V(s, v)) = {base, tls(s, v)} /\ Set(V(q, w)) = {base, tls(q, w)}
      BY <1>3, <1>5, <2>2
    <3> QED
      BY <1>2, <1>6, <3>1
  <2> QED
    BY <2>1, <2>2
<1> QED
  BY <1>7 DEF Set, V, VolumeSet

(* Whatever spec and operator the template of the StatefulSet was made of: *)
(* if shouldUpdatePodTemplate finds no reason for a rollout, everything    *)
(* that the spec and the operator that runs ask of a pod is in it, and so  *)
(* is a restart that is asked for.  No edit of a compared field is passed  *)
(* over, and no security context or volume of an earlier operator.         *)
THEOREM NothingPassedOver ==
    ASSUME NEW s \in Specs, NEW r \in Restarts, NEW q \in Specs, NEW v, NEW t,
           SameButAnnotations(t, Template(q, v, NoRestart)),
           ~ShouldUpdatePodTemplate(Template(s, version, r), t)
    PROVE  /\ Carries(t, s)
           /\ ~r.initial /\ r # NoRestart => t.annotations.restart = r
<1> DEFINE d == Template(s, version, r)
           e == Template(s, version, NoRestart)
           c == Template(q, v, NoRestart)
<1>1. t.init = c.init /\ t.containers = c.containers /\ t.volumes = c.volumes
  BY DEF SameButAnnotations, TemplateFields
<1>2. /\ c.containers = Containers(q, v) /\ c.volumes = Volumes(q, v)
  BY DEF Template
<1>3. /\ d.init = <<InitContainer(s, version)>>
      /\ d.containers = Containers(s, version) /\ d.volumes = Volumes(s, version)
      /\ d.annotations.user = s.annotation /\ d.annotations.restart = r
      /\ d.labels.user = s.label /\ d.security = SecurityContext(s.security, version)
      /\ d.priority = s.priority /\ d.tolerations = s.tolerations
  BY DEF Template, PrepareAnnotations, InitContainer
<1>4. e.containers = d.containers /\ e.volumes = d.volumes
  BY DEF Template
<1> HIDE DEF c, d, e
<1>5. /\ ~ShouldUpdateInitContainers(d, t) /\ ~ShouldUpdateContainers(d, t)
      /\ ~ShouldUpdatePodSecurityContext(d, t) /\ ~ShouldUpdateAnnotations(d, t)
      /\ ~ShouldUpdateLabels(d, t) /\ ~ShouldUpdateVolumes(d, t)
      /\ ~ShouldUpdatePriorityClass(d, t) /\ ~ShouldUpdateTolerations(d, t)
  BY DEF ShouldUpdatePodTemplate, d
<1>6. t.init[1].image = s.initImage /\ t.init[1].security = version.security
  <2> DEFINE i == InitContainer(s, version)
  <2>1. i.image = s.initImage /\ i.security = version.security
    BY DEF InitContainer, Container, SecurityContext
  <2>2. d.init = <<i>>
    BY <1>3
  <2> HIDE DEF i
  <2>3. 1 \in DOMAIN d.init /\ d.init[1] = i
    BY <2>2
  <2>4. d.init[1].image = t.init[1].image /\ d.init[1].security = t.init[1].security
    BY <1>5, <2>3 DEF ShouldUpdateInitContainers, ShouldUpdateContainerSpec
  <2> QED
    BY <2>1, <2>3, <2>4
<1>7. /\ Len(t.containers) = Len(d.containers)
      /\ \A i \in DOMAIN d.containers :
            /\ t.containers[i].image = d.containers[i].image
            /\ t.containers[i].resources = d.containers[i].resources
            /\ t.containers[i].security = d.containers[i].security
      /\ t.containers[1].env = s.env
      /\ t.containers[1].probes = <<s.probes, UseHTTPS(s)>>
  <2>1. d.containers = Containers(s, version) /\ ~ShouldUpdateContainers(d, t)
    BY <1>3, <1>5
  <2> QED
    BY <2>1, ContainersCompared
<1>8. VolumeSet(t) = VolumeSet(d)
  <2>1. /\ d.volumes = Volumes(s, version) /\ t.volumes = Volumes(q, v)
        /\ ~ShouldUpdateVolumes(d, t)
    BY <1>1, <1>2, <1>3, <1>5
  <2> QED
    BY <2>1, VolumesCompared
<1>9. /\ t.security = SecurityContext(s.security, version)
      /\ t.priority = s.priority /\ t.tolerations = s.tolerations
  BY <1>3, <1>5
     DEF ShouldUpdatePodSecurityContext, ShouldUpdatePriorityClass, ShouldUpdateTolerations
<1>10. t.labels.user = s.label
  BY <1>3, <1>5 DEF ShouldUpdateLabels, OnlyManagedByLabelAdded
<1>11. /\ s.annotation # 0 => t.annotations.user = s.annotation
       /\ ~r.initial /\ r # NoRestart => t.annotations.restart = r
  BY <1>3, <1>5 DEF ShouldUpdateAnnotations, Derivative
<1>12. Carries(t, s)
  <2>1. /\ Len(t.containers) = Len(e.containers)
        /\ \A i \in DOMAIN e.containers :
            /\ t.containers[i].image = e.containers[i].image
            /\ t.containers[i].resources = e.containers[i].resources
            /\ t.containers[i].security = e.containers[i].security
        /\ {t.volumes[i] : i \in DOMAIN t.volumes} = {e.volumes[i] : i \in DOMAIN e.volumes}
    BY <1>4, <1>7, <1>8 DEF VolumeSet
  <2> QED
    BY <1>6, <1>7, <1>9, <1>10, <1>11, <2>1, Zenon DEF Carries, e
<1> QED
  BY <1>11, <1>12
=============================================================================
