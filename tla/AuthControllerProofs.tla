-------------------------- MODULE AuthControllerProofs --------------------------
(***************************************************************************)
(* Proofs about AuthController, for all scenarios: the types, that the     *)
(* Services of others stay, that the claim of a CR with policy Retain      *)
(* outlives it, and that Ready vouches for the generation it names.        *)
(***************************************************************************)
EXTENDS AuthController, TLAPS

(* What the type invariant says of a CR and of the copies of it.           *)
CRType(c, uids) ==
    c \in CRs /\ c.uid <= uids /\ (c.uid = 0 <=> c.spec = NoSpec)

(* The CRs, who they were given to and what the user has yet to do.        *)
CRPart ==
    /\ todo \in Seq(Specs \cup {NoSpec})
    /\ CRType(cr, history.uids) /\ CRType(ccr, history.uids) /\ CRType(authn, history.uids)
    /\ history \in [uids : Nat, kept : SUBSET Nat, shown : SUBSET Nat]
    /\ history.kept \subseteq 1..history.uids /\ history.shown \subseteq 1..history.uids

ClaimPart == \A c \in {claim, cclaim} : c \in Claims /\ c.owner <= history.uids

ServicePart ==
    /\ svc \in [Services -> ServiceObjects] /\ csvc \in [Optional -> ServiceObjects]
    /\ \A n \in Services : svc[n].owner <= history.uids
    /\ \A n \in Optional : csvc[n].owner <= history.uids

DeploymentPart ==
    /\ config \in Confs \cup {""}
    /\ cert \in Certs /\ cert.owner <= history.uids
    /\ dep \in Deployments /\ dep.owner <= history.uids /\ dep.obs <= dep.gen

RunPart ==
    /\ pc \in {"idle", "finalizer", "config", "claim", "cluster", "nodeport", "lb", "cert",
               "deployment", "status", "retain", "release"}
    /\ base \in Statuses /\ queued \in BOOLEAN
    /\ {faults, drifts, crashes} \subseteq Nat
    /\ secret \in [live : BOOLEAN, outages : Nat]

LEMMA TypeParts ==
    TypeOK <=> CRPart /\ ClaimPart /\ ServicePart /\ DeploymentPart /\ RunPart
BY DEF TypeOK, CRPart, ClaimPart, ServicePart, DeploymentPart, RunPart, CRType

(* A reconcile is about a CR.                                              *)
AboutCR == pc # "idle" => authn.uid # 0

TypeInv == TypeOK /\ AboutCR

(***************************************************************************)
(* The operators of the model.                                             *)
(***************************************************************************)
LEMMA NoCRType == \A uids \in Nat : CRType(NoCR, uids)
BY DEF CRType, NoCR, NoStatus, CRs, Statuses, Reasons

LEMMA SpecOfCR ==
    ASSUME NEW uids \in Nat, NEW c, CRType(c, uids), c.uid # 0
    PROVE  c.spec \in Specs
BY DEF CRType, CRs

LEMMA SetReadyType ==
    ASSUME NEW uids \in Nat, NEW c, CRType(c, uids), NEW r \in Reasons
    PROVE  /\ CRType(SetReady(c, r), uids)
           /\ SetReady(c, r).uid = c.uid /\ SetReady(c, r).gen = c.gen
           /\ SetReady(c, r).del = c.del /\ SetReady(c, r).fin = c.fin
           /\ SetReady(c, r).spec = c.spec
           /\ SetReady(c, r).st.reason = r /\ SetReady(c, r).st.rgen = c.gen
BY DEF CRType, SetReady, CRs, Statuses

(* What is recorded of an error.                                           *)
LEMMA ErrorStatus ==
    ASSUME NEW uids \in Nat, NEW c, CRType(c, uids), NEW r \in {"Failed", "CleanupFailed"}
    PROVE  /\ SetReady(c, r).uid = c.uid /\ SetReady(c, r).gen = c.gen
           /\ SetReady(c, r).spec = c.spec /\ SetReady(c, r).st.reason = r
<1>1. r \in Reasons
  BY DEF Reasons
<1> QED
  BY <1>1, SetReadyType

LEMMA NewStatusType ==
    ASSUME NEW uids \in Nat, NEW c, CRType(c, uids), NEW l \in Statuses, NEW b \in Statuses
    PROVE  Patched(l, b, NewStatus(c)) \in Statuses
<1>1. NewStatus(c) \in Statuses
  BY DEF NewStatus, ServiceURL, CRType, CRs, Statuses
<1> QED
  BY <1>1 DEF Patched, Statuses

LEMMA TemplateType == \A s \in Specs : Template(s) \in Templates
BY DEF Template, Templates, Specs

LEMMA ReasonType == \A d : ReasonFromDeployment(d) \in Reasons
BY DEF ReasonFromDeployment, RolloutPending, Reasons

LEMMA InitType == Init => TypeInv
<1> SUFFICES ASSUME Init PROVE TypeInv
  OBVIOUS
<1>0. /\ ccr = cr /\ cclaim = claim /\ csvc = [n \in Optional |-> svc[n]]
      /\ pc = "idle" /\ authn = NoCR /\ base = NoStatus /\ queued = FALSE
  BY DEF Init
<1>1. PICK s \in Scenarios :
        /\ todo = s.todo /\ secret = [live |-> TRUE, outages |-> s.outages]
        /\ faults = s.faults /\ drifts = s.drifts /\ crashes = s.crashes
        /\ IF s.from = NoSpec THEN InitEmpty ELSE InitSettled(s.from)
  BY DEF Init
<1>2. /\ todo \in Seq(Specs \cup {NoSpec}) /\ {faults, drifts, crashes} \subseteq Nat
      /\ secret \in [live : BOOLEAN, outages : Nat]
  BY <1>1, AuthScenarioAssumption
<1>3. NoStatus \in Statuses
  BY DEF NoStatus, Statuses, Reasons
<1>4. RunPart /\ AboutCR
  BY <1>0, <1>2, <1>3 DEF RunPart, AboutCR
<1>5. ASSUME svc \in [Services -> ServiceObjects], NEW uids \in Nat,
             \A n \in Services : svc[n].owner <= uids, history.uids = uids
      PROVE  ServicePart
  BY <1>0, <1>5 DEF ServicePart, Services
<1>6. CASE InitEmpty
  <2>1. CRPart
    <3>1. /\ history.uids = 0 /\ history.kept = {} /\ history.shown = {}
          /\ history \in [uids : Nat, kept : SUBSET Nat, shown : SUBSET Nat]
      BY <1>6 DEF InitEmpty
    <3>2. cr = NoCR /\ ccr = NoCR /\ authn = NoCR
      BY <1>0, <1>6 DEF InitEmpty
    <3>3. CRType(NoCR, history.uids)
      BY <3>1, NoCRType
    <3> QED
      BY <1>2, <3>1, <3>2, <3>3 DEF CRPart
  <2>2. ClaimPart
    <3>1. history.uids = 0 /\ claim = NoClaim /\ cclaim = NoClaim
      BY <1>0, <1>6 DEF InitEmpty
    <3>2. NoClaim \in Claims /\ NoClaim.owner <= 0
      BY DEF NoClaim, Claims
    <3> QED
      BY <3>1, <3>2 DEF ClaimPart
  <2>3. ServicePart
    <3>1. history.uids = 0 /\ svc = [n \in Services |-> NoService(0)]
      BY <1>6 DEF InitEmpty
    <3>2. NoService(0) \in ServiceObjects /\ NoService(0).owner = 0
      BY DEF NoService, ServiceObjects
    <3> QED
      BY <1>5, <3>1, <3>2
  <2>4. DeploymentPart
    <3>1. history.uids = 0 /\ config = "" /\ cert = NoCert /\ dep = NoDeployment
      BY <1>6 DEF InitEmpty
    <3>2. NoDeployment \in Deployments
      BY DEF NoDeployment, NoPod, Deployments, Templates
    <3>3. NoDeployment.owner <= 0 /\ NoDeployment.obs <= NoDeployment.gen
      BY DEF NoDeployment
    <3>4. NoCert \in Certs /\ NoCert.owner <= 0
      BY DEF NoCert, Certs
    <3> QED
      BY <3>1, <3>2, <3>3, <3>4 DEF DeploymentPart
  <2> QED
    BY <1>4, <2>1, <2>2, <2>3, <2>4, TypeParts DEF TypeInv
<1>7. ASSUME NEW spec \in Specs, spec.conf # "invalid", InitSettled(spec)
      PROVE  TypeInv
  <2>1. history.uids = 1
    BY <1>7 DEF InitSettled
  <2>2. CRPart
    <3>1. cr \in CRs
      BY <1>7 DEF InitSettled, CRs, Statuses, Reasons, ServiceURL
    <3>2. cr.uid = 1 /\ cr.spec = spec
      BY <1>7 DEF InitSettled
    <3>3. CRType(cr, 1)
      BY <3>1, <3>2, AuthScenarioAssumption DEF CRType
    <3>4. CRType(authn, 1)
      BY <1>0, NoCRType
    <3>5. /\ history.kept = {} /\ history.shown = {1}
          /\ history \in [uids : Nat, kept : SUBSET Nat, shown : SUBSET Nat]
      BY <1>7 DEF InitSettled
    <3> QED
      BY <1>0, <1>2, <2>1, <3>3, <3>4, <3>5 DEF CRPart
  <2>3. ClaimPart
    <3>1. claim \in Claims /\ claim.owner = 1
      BY <1>7 DEF InitSettled, Claims, Specs
    <3> QED
      BY <1>0, <2>1, <3>1 DEF ClaimPart
  <2>4. ServicePart
    <3> DEFINE Made(n) == [live |-> TRUE, owner |-> 1, id |-> 1, addr |-> n = "lb"]
    <3>1. svc = [n \in Services |-> IF Wanted(n, spec) THEN Made(n) ELSE NoService(0)]
      BY <1>7 DEF InitSettled
    <3>2. \A n : Made(n) \in ServiceObjects /\ Made(n).owner = 1
      BY DEF ServiceObjects
    <3>3. NoService(0) \in ServiceObjects /\ NoService(0).owner = 0
      BY DEF NoService, ServiceObjects
    <3> HIDE DEF Made
    <3>4. \A n \in Services : svc[n] \in ServiceObjects /\ svc[n].owner <= 1
      BY <3>1, <3>2, <3>3
    <3>5. svc \in [Services -> ServiceObjects]
      BY <3>1, <3>2, <3>3
    <3> QED
      BY <1>5, <2>1, <3>4, <3>5
  <2>5. DeploymentPart
    <3>1. Template(spec) \in Templates
      BY TemplateType
    <3>2. dep \in Deployments /\ dep.owner <= 1 /\ dep.obs <= dep.gen
      BY <1>7, <3>1 DEF InitSettled, Deployments
    <3>3. cert \in Certs /\ cert.owner <= 1
      BY <1>7 DEF InitSettled, NoCert, Certs
    <3>4. config \in Confs
      BY <1>7 DEF InitSettled, Specs
    <3> QED
      BY <2>1, <3>2, <3>3, <3>4 DEF DeploymentPart
  <2> QED
    BY <1>4, <2>2, <2>3, <2>4, <2>5, TypeParts DEF TypeInv
<1> QED
  BY <1>1, <1>6, <1>7, AuthScenarioAssumption

(***************************************************************************)
(* The CR after a step.                                                    *)
(***************************************************************************)
LEMMA MoreUids ==
    ASSUME NEW u \in Nat, NEW v \in Nat, u <= v, NEW c, CRType(c, u)
    PROVE  CRType(c, v)
BY DEF CRType, CRs

LEMMA GoneType ==
    ASSUME CRPart, Gone, cr.uid # 0
    PROVE  /\ history' \in [uids : Nat, kept : SUBSET Nat, shown : SUBSET Nat]
           /\ history'.uids = history.uids /\ history'.shown = history.shown
           /\ history'.kept \subseteq history.kept \cup {cr.uid}
           /\ history'.kept \subseteq 1..history.uids
           /\ CRType(cr', history.uids)
<1>1. history.uids \in Nat /\ cr.uid \in 1..history.uids
  BY DEF CRPart, CRType, CRs
<1>2. CRType(cr', history.uids)
  BY <1>1, NoCRType DEF Gone
<1> QED
  BY <1>1, <1>2 DEF CRPart, Gone

LEMMA NoSpecApart == \A s \in Specs : s # NoSpec
BY AuthScenarioAssumption

LEMMA EditType ==
    ASSUME NEW uids \in Nat, NEW c, CRType(c, uids)
    PROVE  /\ c.uid # 0 => CRType([c EXCEPT !.fin = TRUE], uids)
           /\ CRType([c EXCEPT !.fin = FALSE], uids)
           /\ CRType([c EXCEPT !.del = TRUE, !.gen = @ + 1], uids)
           /\ \A st \in Statuses : CRType([c EXCEPT !.st = st], uids)
           /\ \A s \in Specs : c.uid # 0 => CRType([c EXCEPT !.spec = s, !.gen = @ + 1], uids)
<1>1. c \in CRs /\ c.uid \in Nat /\ c.uid <= uids /\ (c.uid = 0 <=> c.spec = NoSpec)
  BY DEF CRType, CRs
<1> DEFINE next == c.gen + 1
<1>0. next \in Nat
  BY <1>1 DEF CRs
<1> HIDE DEF next
<1>2. /\ [c EXCEPT !.fin = TRUE] \in CRs /\ [c EXCEPT !.fin = FALSE] \in CRs
      /\ [c EXCEPT !.del = TRUE, !.gen = next] \in CRs
  BY <1>0, <1>1 DEF CRs
<1>3. ASSUME NEW st \in Statuses PROVE CRType([c EXCEPT !.st = st], uids)
  <2>1. [c EXCEPT !.st = st] \in CRs
    BY <1>1 DEF CRs
  <2> QED
    BY <1>1, <2>1 DEF CRType, CRs
<1>4. ASSUME NEW s \in Specs, c.uid # 0
      PROVE  CRType([c EXCEPT !.spec = s, !.gen = next], uids)
  <2> DEFINE d == [c EXCEPT !.spec = s, !.gen = next]
  <2>1. d \in CRs /\ d.uid = c.uid /\ d.spec = s
    BY <1>0, <1>1 DEF CRs
  <2> QED
    BY <1>1, <1>4, <2>1, NoSpecApart DEF CRType
<1>5. /\ CRType([c EXCEPT !.fin = TRUE], uids) /\ CRType([c EXCEPT !.fin = FALSE], uids)
      /\ CRType([c EXCEPT !.del = TRUE, !.gen = next], uids)
  BY <1>1, <1>2 DEF CRType, CRs
<1> QED
  BY <1>3, <1>4, <1>5 DEF next

LEMMA NewCRType ==
    ASSUME NEW uids \in Nat \ {0}, NEW s \in Specs
    PROVE  CRType([NoCR EXCEPT !.uid = uids, !.gen = 1, !.spec = s], uids)
<1> DEFINE c == [NoCR EXCEPT !.uid = uids, !.gen = 1, !.spec = s]
<1>1. c \in CRs
  BY DEF CRs, NoCR, NoStatus, Statuses, Reasons
<1>2. c.uid = uids /\ c.spec = s
  BY DEF NoCR
<1> QED
  BY <1>1, <1>2, NoSpecApart DEF CRType

(* The actions that change the CR, and what is noted of it.                *)
LEMMA CRFrame ==
    ASSUME [Next]_vars, ~EnsureFinalizer, ~UpdateStatus, ~RemoveFinalizer, ~UserActs
    PROVE  UNCHANGED cr
BY DEF Next, Reconciler, Begin, ReconcileConfigMap, ReconcilePersistence, ReconcileServices,
       ReconcileService, ReconcileTLSCertificate, ReconcileDeployment, RetainPVC, Fault,
       SecretChanges, Watches, SyncCR, SyncClaim, SyncServices, Collect, AssignAddress, OthersChangeService,
       StopOldPod, StartPod, PodAvailable, PodLost, ReportDeployment, RolloutStalls,
       DeploymentChanges, vars, crs

LEMMA CacheFrame ==
    ASSUME [Next]_vars
    PROVE  /\ SyncCR \/ UNCHANGED ccr
           /\ UserActs \/ UNCHANGED todo
           /\ SyncClaim \/ UNCHANGED cclaim
           /\ SyncServices \/ UNCHANGED csvc
           /\ UserActs \/ SyncClaim \/ RemoveFinalizer \/ UNCHANGED history
BY DEF Next, Reconciler, Begin, EnsureFinalizer, ReconcileConfigMap, ReconcilePersistence,
       ReconcileServices, ReconcileService, ReconcileTLSCertificate, ReconcileDeployment,
       UpdateStatus, RetainPVC, RemoveFinalizer, Fault, UserActs, SecretChanges, Watches, SyncCR, SyncClaim,
       SyncServices, Collect, AssignAddress, OthersChangeService, StopOldPod, StartPod,
       PodAvailable, PodLost, ReportDeployment, RolloutStalls, DeploymentChanges, vars, crs,
       caches

LEMMA ObjectFrame ==
    ASSUME [Next]_vars
    PROVE  /\ ReconcileConfigMap \/ UNCHANGED config
           /\ ReconcilePersistence \/ RetainPVC \/ Collect \/ UNCHANGED claim
           /\ \/ ReconcileServices \/ Collect \/ AssignAddress
              \/ \E n \in Optional : OthersChangeService(n)
              \/ UNCHANGED svc
           /\ ReconcileTLSCertificate \/ Collect \/ UNCHANGED cert
           /\ \/ ReconcileDeployment \/ Collect \/ StopOldPod \/ StartPod \/ PodAvailable
              \/ PodLost \/ ReportDeployment \/ RolloutStalls \/ UNCHANGED dep
BY DEF Next, Reconciler, Begin, EnsureFinalizer, ReconcileConfigMap, ReconcilePersistence,
       ReconcileServices, ReconcileService, ReconcileTLSCertificate, ReconcileDeployment,
       UpdateStatus, RetainPVC, RemoveFinalizer, Fault, UserActs, SecretChanges, Watches, SyncCR, SyncClaim,
       SyncServices, Collect, AssignAddress, OthersChangeService, StopOldPod, StartPod,
       PodAvailable, PodLost, ReportDeployment, RolloutStalls, DeploymentChanges, vars, objects

LEMMA RunFrame ==
    ASSUME [Next]_vars
    PROVE  Reconciler \/ Fault \/ UNCHANGED run
BY DEF Next, UserActs, SecretChanges, Watches, SyncCR, SyncClaim,
       SyncServices, Collect, AssignAddress, OthersChangeService, StopOldPod, StartPod,
       PodAvailable, PodLost, ReportDeployment, RolloutStalls, DeploymentChanges, vars, run

(* The CR, its cached copy and what is noted keep their types.             *)
LEMMA CRStep ==
    ASSUME TypeInv, [Next]_vars
    PROVE  /\ todo' \in Seq(Specs \cup {NoSpec})
           /\ CRType(cr', history'.uids) /\ CRType(ccr', history'.uids)
           /\ history' \in [uids : Nat, kept : SUBSET Nat, shown : SUBSET Nat]
           /\ history'.kept \subseteq 1..history'.uids
           /\ history'.shown \subseteq 1..history'.uids
           /\ history'.uids >= history.uids
<1>0. CRPart
  BY TypeParts DEF TypeInv
<1>1. /\ history.uids \in Nat
      /\ history \in [uids : Nat, kept : SUBSET Nat, shown : SUBSET Nat]
      /\ history.kept \subseteq 1..history.uids /\ history.shown \subseteq 1..history.uids
      /\ CRType(cr, history.uids) /\ CRType(ccr, history.uids) /\ CRType(authn, history.uids)
      /\ todo \in Seq(Specs \cup {NoSpec})
  BY <1>0 DEF CRPart
<1>a. history.uids >= history.uids
  BY <1>1
<1>2. cr.st \in Statuses /\ base \in Statuses
  BY <1>1, TypeParts DEF TypeInv, RunPart, CRType, CRs
<1>3. CASE EnsureFinalizer
  <2>1. CRType(cr', history.uids)
    BY <1>1, <1>3, EditType DEF EnsureFinalizer, crs, Fail
  <2>2. UNCHANGED <<todo, ccr, history>>
    BY <1>3 DEF EnsureFinalizer, crs
  <2> QED
    BY <1>1, <1>a, <2>1, <2>2
<1>4. CASE UpdateStatus
  <2>1. Patched(cr.st, base, NewStatus(authn)) \in Statuses
    BY <1>1, <1>2, NewStatusType
  <2>2. CRType(cr', history.uids)
    <3> DEFINE st == Patched(cr.st, base, NewStatus(authn))
    <3>1. cr' = cr \/ cr' = [cr EXCEPT !.st = st]
      BY <1>4 DEF UpdateStatus
    <3>2. st \in Statuses
      BY <2>1
    <3> HIDE DEF st
    <3>3. CRType([cr EXCEPT !.st = st], history.uids)
      BY <1>1, <3>2, EditType, Zenon
    <3> QED
      BY <1>1, <3>1, <3>3
  <2>3. UNCHANGED <<todo, ccr, history>>
    BY <1>4 DEF UpdateStatus
  <2> QED
    BY <1>1, <1>a, <2>2, <2>3
<1>5. CASE RemoveFinalizer
  <2>1. CASE Gone /\ cr.uid # 0
    <3>1. UNCHANGED <<todo, ccr>>
      BY <1>5 DEF RemoveFinalizer
    <3> QED
      BY <1>0, <1>1, <1>a, <2>1, <3>1, GoneType
  <2>2. CASE cr' = [cr EXCEPT !.fin = FALSE] /\ UNCHANGED history
    BY <1>1, <1>a, <1>5, <2>2, EditType DEF RemoveFinalizer
  <2>3. CASE UNCHANGED <<cr, history>>
    BY <1>1, <1>5, <2>3 DEF RemoveFinalizer
  <2> QED
    BY <1>5, <2>1, <2>2, <2>3 DEF RemoveFinalizer
<1>6. CASE UserActs
  <2>1. todo' \in Seq(Specs \cup {NoSpec}) /\ Head(todo) \in Specs \cup {NoSpec} /\ ccr' = ccr
    BY <1>1, <1>6 DEF UserActs
  <2>2. CASE Gone /\ cr.uid # 0
    BY <1>0, <1>1, <1>a, <2>1, <2>2, GoneType
  <2>3. CASE cr' = [cr EXCEPT !.del = TRUE, !.gen = @ + 1] /\ UNCHANGED history
    BY <1>1, <1>a, <2>1, <2>3, EditType
  <2>4. CASE UNCHANGED <<cr, history>>
    BY <1>1, <2>1, <2>4
  <2>5. CASE /\ history' = [history EXCEPT !.uids = @ + 1] /\ Head(todo) # NoSpec
             /\ cr' = [NoCR EXCEPT !.uid = history'.uids, !.gen = 1, !.spec = Head(todo)]
    <3>1. /\ history'.uids = history.uids + 1 /\ history'.kept = history.kept
          /\ history'.shown = history.shown
          /\ history' \in [uids : Nat, kept : SUBSET Nat, shown : SUBSET Nat]
      BY <1>1, <2>5
    <3>2. /\ history'.uids \in Nat \ {0} /\ history.uids <= history'.uids
          /\ 1..history.uids \subseteq 1..history'.uids
      BY <1>1, <3>1
    <3>3. CRType(cr', history'.uids)
      BY <2>1, <2>5, <3>2, NewCRType
    <3>4. CRType(ccr', history'.uids)
      BY <1>1, <2>1, <3>2, MoreUids
    <3> QED
      BY <1>1, <2>1, <3>1, <3>2, <3>3, <3>4
  <2>6. CASE /\ cr' = [cr EXCEPT !.spec = Head(todo), !.gen = @ + 1] /\ UNCHANGED history
             /\ cr.uid # 0 /\ Head(todo) # NoSpec
    BY <1>1, <1>a, <2>1, <2>6, EditType
  <2> QED
    BY <1>6, <2>2, <2>3, <2>4, <2>5, <2>6 DEF UserActs
<1>7. CASE SyncCR
  BY <1>1, <1>7 DEF SyncCR
<1>8. CASE SyncClaim
  <2>1. UNCHANGED <<todo, cr, ccr>>
    BY <1>8 DEF SyncClaim, crs
  <2>2. ccr.uid # 0 => ccr.uid \in 1..history.uids
    BY <1>1 DEF CRType, CRs
  <2>3. /\ history' \in [uids : Nat, kept : SUBSET Nat, shown : SUBSET Nat]
        /\ history'.uids = history.uids /\ history'.kept = history.kept
        /\ history'.shown \subseteq 1..history.uids
    BY <1>1, <1>8, <2>2 DEF SyncClaim
  <2> QED
    BY <1>1, <1>a, <2>1, <2>3
<1>9. CASE UNCHANGED <<todo, cr, ccr, history>>
  BY <1>1, <1>9
<1> QED
  BY <1>3, <1>4, <1>5, <1>6, <1>7, <1>8, <1>9, CRFrame, CacheFrame

(***************************************************************************)
(* The run after a step.                                                   *)
(***************************************************************************)
(* The CR in memory of a run that has a next step.                         *)
RunType(uids) ==
    /\ CRType(authn', uids)
    /\ pc' # "idle" => authn'.uid # 0
    /\ pc' \in {"idle", "finalizer", "config", "claim", "cluster", "nodeport", "lb", "cert",
                "deployment", "status", "retain", "release"}
    /\ base' \in Statuses /\ queued' \in BOOLEAN

LEMMA FailRun ==
    ASSUME TypeInv, pc # "idle", Fail \/ CleanupFails
    PROVE  RunType(history.uids)
<1>1. /\ history.uids \in Nat /\ CRType(authn, history.uids)
      /\ base \in Statuses /\ authn.uid # 0
  BY TypeParts DEF TypeInv, CRPart, RunPart, AboutCR
<1>2. PICK r \in Reasons : authn' = SetReady(authn, r)
  BY DEF Fail, CleanupFails, Reasons
<1>3. CRType(authn', history.uids) /\ authn'.uid # 0
  BY <1>1, <1>2, SetReadyType
<1> QED
  BY <1>1, <1>3 DEF Fail, CleanupFails, RunType

LEMMA GotoRun ==
    ASSUME TypeInv, pc # "idle",
           NEW step \in {"claim", "cluster", "nodeport", "lb", "cert", "deployment", "release"},
           Goto(step)
    PROVE  RunType(history.uids)
BY TypeParts DEF TypeInv, CRPart, RunPart, AboutCR, Goto, RunType

LEMMA IdleRun ==
    ASSUME TypeInv, pc' = "idle", authn' = NoCR, base' = NoStatus, queued' \in BOOLEAN
    PROVE  RunType(history.uids)
<1>1. NoStatus \in Statuses
  BY DEF NoStatus, Statuses, Reasons
<1>2. CRType(NoCR, history.uids)
  BY NoCRType, TypeParts DEF TypeInv, CRPart
<1> QED
  BY <1>1, <1>2 DEF RunType

LEMMA RunStep ==
    ASSUME TypeInv, [Next]_vars
    PROVE  RunType(history'.uids)
<1>0. /\ history.uids \in Nat /\ history'.uids \in Nat /\ history'.uids >= history.uids
      /\ CRType(authn, history.uids) /\ CRType(ccr, history.uids) /\ CRType(cr, history.uids)
      /\ base \in Statuses /\ queued \in BOOLEAN
      /\ pc \in {"idle", "finalizer", "config", "claim", "cluster", "nodeport", "lb", "cert",
                 "deployment", "status", "retain", "release"}
      /\ pc # "idle" => authn.uid # 0
  BY TypeParts, CRStep DEF TypeInv, CRPart, RunPart, AboutCR
<1>1. SUFFICES RunType(history.uids)
  BY <1>0, MoreUids DEF RunType
<1>2. CASE Begin
  <2>1. ccr.st \in Statuses
    BY <1>0 DEF CRType, CRs
  <2> QED
    BY <1>0, <1>2, <2>1 DEF Begin, RunType
<1>3. CASE EnsureFinalizer
  <2>1. CASE Fail
    BY <1>3, <2>1, FailRun DEF EnsureFinalizer
  <2>2. CASE /\ cr.uid # 0 /\ cr' = [cr EXCEPT !.fin = TRUE]
             /\ authn' = cr' /\ base' = cr.st /\ pc' = "config" /\ UNCHANGED queued
    <3>1. CRType(cr', history.uids)
      BY <1>0, <2>2, EditType
    <3>2. cr'.uid = cr.uid /\ cr.st \in Statuses
      BY <1>0, <2>2 DEF CRType, CRs
    <3> QED
      BY <1>0, <2>2, <3>1, <3>2 DEF RunType
  <2> QED
    BY <1>3, <2>1, <2>2 DEF EnsureFinalizer
<1>4. CASE ReconcileConfigMap \/ ReconcilePersistence \/ ReconcileServices
           \/ ReconcileTLSCertificate \/ Fault
  <2>1. /\ pc # "idle"
        /\ Fail \/ \E step \in {"claim", "cluster", "nodeport", "lb", "cert", "deployment"} : Goto(step)
    BY <1>4 DEF ReconcileConfigMap, ReconcilePersistence, ReconcileServices, ReconcileService,
                ReconcileTLSCertificate, Fault
  <2> QED
    BY <2>1, FailRun, GotoRun
<1>5. CASE ReconcileDeployment
  <2>1. CASE Fail
    BY <1>5, <2>1, FailRun DEF ReconcileDeployment
  <2>2. CASE /\ authn' = SetReady(authn, ReasonFromDeployment(dep'))
             /\ pc' = "status" /\ UNCHANGED <<base, queued>>
    <3>1. CRType(authn', history.uids) /\ authn'.uid = authn.uid
      BY <1>0, <2>2, SetReadyType, ReasonType
    <3> QED
      BY <1>0, <1>5, <2>2, <3>1 DEF RunType, ReconcileDeployment
  <2> QED
    BY <1>5, <2>1, <2>2 DEF ReconcileDeployment
<1>6. CASE UpdateStatus
  BY <1>0, <1>6, IdleRun DEF UpdateStatus
<1>7. CASE RetainPVC
  <2>1. pc # "idle" /\ (Goto("release") \/ CleanupFails)
    BY <1>7 DEF RetainPVC
  <2> QED
    BY <2>1, FailRun, GotoRun
<1>8. CASE RemoveFinalizer
  <2>1. CASE CleanupFails
    BY <1>8, <2>1, FailRun DEF RemoveFinalizer
  <2>2. CASE pc' = "idle" /\ authn' = NoCR /\ base' = NoStatus /\ UNCHANGED queued
    BY <1>0, <2>2, IdleRun
  <2> QED
    BY <1>8, <2>1, <2>2 DEF RemoveFinalizer
<1>9. CASE UNCHANGED run
  <2>1. queued' \in BOOLEAN
    BY <1>0 DEF Next, Reconciler, Begin, EnsureFinalizer, ReconcileConfigMap,
          ReconcilePersistence, ReconcileServices, ReconcileService, ReconcileTLSCertificate,
          ReconcileDeployment, UpdateStatus, RetainPVC, RemoveFinalizer, Fault, UserActs,
          SecretChanges, Watches, SyncCR, SyncClaim, SyncServices, Collect, AssignAddress,
          OthersChangeService, StopOldPod, StartPod, PodAvailable, PodLost, ReportDeployment,
          RolloutStalls, DeploymentChanges, Fail, CleanupFails, Goto, vars
  <2> QED
    BY <1>0, <1>9, <2>1 DEF run, RunType
<1> QED
  BY <1>2, <1>3, <1>4, <1>5, <1>6, <1>7, <1>8, <1>9, RunFrame DEF Reconciler

LEMMA BoundStep ==
    ASSUME TypeInv, [Next]_vars
    PROVE  /\ {faults', drifts', crashes'} \subseteq Nat
           /\ secret' \in [live : BOOLEAN, outages : Nat]
<1>0. faults \in Nat /\ drifts \in Nat /\ crashes \in Nat
  BY TypeParts DEF TypeInv, RunPart
<1>1. faults' = faults \/ (faults > 0 /\ faults' = faults - 1)
  BY DEF Next, Reconciler, Begin, EnsureFinalizer, ReconcileConfigMap,
         ReconcilePersistence, ReconcileServices, ReconcileService, ReconcileTLSCertificate,
         ReconcileDeployment, UpdateStatus, RetainPVC, RemoveFinalizer, Fault, UserActs,
         SecretChanges, Watches, SyncCR, SyncClaim, SyncServices, Collect, AssignAddress,
         OthersChangeService, StopOldPod, StartPod, PodAvailable, PodLost, ReportDeployment,
         RolloutStalls, DeploymentChanges, CleanupFails, bounds, vars
<1>2. drifts' = drifts \/ (drifts > 0 /\ drifts' = drifts - 1)
  BY DEF Next, Reconciler, Begin, EnsureFinalizer, ReconcileConfigMap,
         ReconcilePersistence, ReconcileServices, ReconcileService, ReconcileTLSCertificate,
         ReconcileDeployment, UpdateStatus, RetainPVC, RemoveFinalizer, Fault, UserActs,
         SecretChanges, Watches, SyncCR, SyncClaim, SyncServices, Collect, AssignAddress,
         OthersChangeService, StopOldPod, StartPod, PodAvailable, PodLost, ReportDeployment,
         RolloutStalls, DeploymentChanges, bounds, vars
<1>3. crashes' = crashes \/ (crashes > 0 /\ crashes' = crashes - 1)
  BY DEF Next, Reconciler, Begin, EnsureFinalizer, ReconcileConfigMap,
         ReconcilePersistence, ReconcileServices, ReconcileService, ReconcileTLSCertificate,
         ReconcileDeployment, UpdateStatus, RetainPVC, RemoveFinalizer, Fault, UserActs,
         SecretChanges, Watches, SyncCR, SyncClaim, SyncServices, Collect, AssignAddress,
         OthersChangeService, StopOldPod, StartPod, PodAvailable, PodLost, ReportDeployment,
         RolloutStalls, DeploymentChanges, bounds, vars
<1>4. faults' \in Nat
  BY <1>0, <1>1
<1>5. drifts' \in Nat
  BY <1>0, <1>2
<1>6. crashes' \in Nat
  BY <1>0, <1>3
<1>7. SecretChanges \/ UNCHANGED secret
  BY DEF Next, Reconciler, Begin, EnsureFinalizer, ReconcileConfigMap,
         ReconcilePersistence, ReconcileServices, ReconcileService, ReconcileTLSCertificate,
         ReconcileDeployment, UpdateStatus, RetainPVC, RemoveFinalizer, Fault, UserActs,
         Watches, SyncCR, SyncClaim, SyncServices, Collect, AssignAddress,
         OthersChangeService, StopOldPod, StartPod, PodAvailable, PodLost, ReportDeployment,
         RolloutStalls, DeploymentChanges, vars
<1>8. secret' \in [live : BOOLEAN, outages : Nat]
  <2>1. secret \in [live : BOOLEAN, outages : Nat]
    BY TypeParts DEF TypeInv, RunPart
  <2>2. CASE SecretChanges
    <3>1. (~secret.live) \in BOOLEAN /\ secret.outages - 1 \in Nat
      BY <2>1, <2>2 DEF SecretChanges
    <3> QED
      BY <2>2, <3>1 DEF SecretChanges
  <2> QED
    BY <1>7, <2>1, <2>2
<1> QED
  BY <1>4, <1>5, <1>6, <1>8

(***************************************************************************)
(* The objects after a step.                                               *)
(***************************************************************************)
(* UIDs of owners stay within what was given, and the CR in memory is one  *)
(* that may own.                                                           *)
LEMMA OwnerRange ==
    ASSUME TypeInv, [Next]_vars
    PROVE  /\ history.uids \in Nat /\ history'.uids \in Nat /\ history.uids <= history'.uids
           /\ authn.uid \in Nat /\ authn.uid <= history.uids
           /\ pc # "idle" => authn.spec \in Specs /\ authn.uid # 0
<1>1. CRType(authn, history.uids) /\ history.uids \in Nat
  BY TypeParts DEF TypeInv, CRPart
<1>2. history'.uids \in Nat /\ history.uids <= history'.uids
  BY <1>1, CRStep
<1>3. pc # "idle" => authn.uid # 0
  BY DEF TypeInv, AboutCR
<1> QED
  BY <1>1, <1>2, <1>3, SpecOfCR DEF CRType, CRs

LEMMA ClaimStep ==
    ASSUME TypeInv, [Next]_vars
    PROVE  ClaimPart'
<1>0. claim \in Claims /\ cclaim \in Claims /\ claim.owner <= history.uids
      /\ cclaim.owner <= history.uids
  BY TypeParts DEF TypeInv, ClaimPart
<1>1. claim' \in Claims /\ claim'.owner <= history.uids
  <2>1. CASE ReconcilePersistence
    <3>1. authn.uid \in Nat /\ authn.uid <= history.uids /\ authn.spec \in Specs
      BY <2>1, OwnerRange DEF ReconcilePersistence
    <3>2. authn.spec.claim \in {"class", "volume", "none"}
      BY <3>1 DEF Specs
    <3>3. \/ claim' = claim
          \/ claim' = [live |-> TRUE, owner |-> authn.uid, kind |-> authn.spec.claim]
      BY <2>1 DEF ReconcilePersistence
    <3> DEFINE o == [live |-> TRUE, owner |-> authn.uid, kind |-> authn.spec.claim]
    <3>4. o \in Claims /\ o.owner = authn.uid
      BY <3>1, <3>2 DEF Claims
    <3> HIDE DEF o
    <3>5. claim' = claim \/ claim' = o
      BY <3>3 DEF o
    <3> QED
      BY <1>0, <3>1, <3>4, <3>5
  <2>2. CASE RetainPVC
    <3>1. claim' = claim \/ claim' = [claim EXCEPT !.owner = 0]
      BY <2>2 DEF RetainPVC
    <3> QED
      BY <1>0, <3>1, OwnerRange DEF Claims
  <2>3. CASE Collect
    <3>1. claim' = claim \/ claim' = NoClaim
      BY <2>3 DEF Collect
    <3>2. NoClaim \in Claims /\ NoClaim.owner = 0
      BY DEF Claims, NoClaim
    <3>3. 0 <= history.uids
      BY OwnerRange
    <3> QED
      BY <1>0, <3>1, <3>2, <3>3
  <2> QED
    BY <1>0, <2>1, <2>2, <2>3, ObjectFrame
<1>2. cclaim' \in Claims /\ cclaim'.owner <= history.uids
  BY <1>0, CacheFrame DEF SyncClaim
<1>3. claim'.owner <= history'.uids /\ cclaim'.owner <= history'.uids
  BY <1>1, <1>2, OwnerRange DEF Claims
<1> QED
  BY <1>1, <1>2, <1>3 DEF ClaimPart

(* One Service after a step of the reconcile.                              *)
LEMMA ServiceType ==
    ASSUME TypeInv, [Next]_vars, NEW n \in Services, NEW next, ReconcileService(n, next)
    PROVE  \/ svc' = svc
           \/ \E o \in ServiceObjects :
                /\ svc' = [svc EXCEPT ![n] = o] /\ o.owner <= history.uids
                /\ \/ o.live /\ o.owner = authn.uid /\ o.owner # 0
                      /\ IF svc[n].live THEN o.id = svc[n].id ELSE o.id = svc[n].id + 1
                   \/ /\ n \in Optional /\ csvc[n].live /\ csvc[n].owner = authn.uid
                      /\ svc[n].live => svc[n].id = csvc[n].id
                      /\ o = NoService(svc[n].id)
<1>0. svc[n] \in ServiceObjects /\ svc[n].owner <= history.uids
  BY TypeParts DEF TypeInv, ServicePart
<1>1. pc = n /\ pc # "idle"
  BY DEF ReconcileService, Services, Optional
<1>2. /\ authn.uid \in Nat /\ authn.uid <= history.uids /\ authn.uid # 0
      /\ history.uids \in Nat
  BY <1>1, OwnerRange
<1>3. CASE svc' = svc
  BY <1>3
<1>4. CASE svc' = [svc EXCEPT ![n] = IF @.live THEN [@ EXCEPT !.owner = authn.uid]
                                     ELSE [live |-> TRUE, owner |-> authn.uid,
                                           id |-> @.id + 1, addr |-> FALSE]]
  <2> DEFINE o == IF svc[n].live THEN [svc[n] EXCEPT !.owner = authn.uid]
                  ELSE [live |-> TRUE, owner |-> authn.uid, id |-> svc[n].id + 1, addr |-> FALSE]
  <2>1. svc' = [svc EXCEPT ![n] = o]
    BY <1>4
  <2>2. /\ o \in ServiceObjects /\ o.owner = authn.uid /\ o.live
        /\ IF svc[n].live THEN o.id = svc[n].id ELSE o.id = svc[n].id + 1
    BY <1>0, <1>2 DEF ServiceObjects
  <2> HIDE DEF o
  <2> QED
    BY <1>2, <2>1, <2>2
<1>5. CASE /\ svc' = [svc EXCEPT ![n] = NoService(@.id)]
           /\ n \in Optional /\ csvc[n].live /\ csvc[n].owner = authn.uid
           /\ svc[n].live => svc[n].id = csvc[n].id
  <2>1. NoService(svc[n].id) \in ServiceObjects /\ NoService(svc[n].id).owner <= history.uids
    BY <1>0, <1>2 DEF NoService, ServiceObjects
  <2> QED
    BY <1>5, <2>1
<1> QED
  BY <1>3, <1>4, <1>5 DEF ReconcileService, MayDelete

LEMMA ServiceStep ==
    ASSUME TypeInv, [Next]_vars
    PROVE  ServicePart'
<1>0. /\ svc \in [Services -> ServiceObjects] /\ csvc \in [Optional -> ServiceObjects]
      /\ \A n \in Services : svc[n].owner <= history.uids
      /\ \A n \in Optional : csvc[n].owner <= history.uids
      /\ Optional \subseteq Services
      /\ history.uids \in Nat
  BY TypeParts, OwnerRange DEF TypeInv, ServicePart, Services
<1>1. ASSUME NEW n \in Services, NEW o \in ServiceObjects, o.owner <= history.uids,
             svc' = [svc EXCEPT ![n] = o]
      PROVE  svc' \in [Services -> ServiceObjects] /\ \A m \in Services : svc'[m].owner <= history.uids
  BY <1>0, <1>1
<1>2. \A i \in Nat : NoService(i) \in ServiceObjects /\ NoService(i).owner <= history.uids
  BY <1>0 DEF NoService, ServiceObjects
<1>3. svc' \in [Services -> ServiceObjects] /\ \A n \in Services : svc'[n].owner <= history.uids
  <2>1. CASE ReconcileServices
    <3>1. PICK n \in Services, next \in {"nodeport", "lb", "cert"} : ReconcileService(n, next)
      BY <2>1 DEF ReconcileServices, Services, Optional
    <3> QED
      BY <1>0, <1>1, <3>1, ServiceType
  <2>2. CASE Collect
    <3>1. \/ svc' = svc
          \/ \E n \in Services : svc' = [svc EXCEPT ![n] = NoService(svc[n].id)]
      BY <2>2 DEF Collect
    <3>2. \A n \in Services : svc[n].id \in Nat
      BY <1>0 DEF ServiceObjects
    <3> QED
      BY <1>0, <1>1, <1>2, <3>1, <3>2
  <2>3. CASE AssignAddress
    <3>1. [svc["lb"] EXCEPT !.addr = TRUE] \in ServiceObjects
          /\ [svc["lb"] EXCEPT !.addr = TRUE].owner <= history.uids /\ "lb" \in Services
      BY <1>0 DEF ServiceObjects, Services, Optional
    <3>2. svc' = [svc EXCEPT !["lb"] = [svc["lb"] EXCEPT !.addr = TRUE]]
      BY <2>3 DEF AssignAddress
    <3> QED
      BY <1>1, <3>1, <3>2
  <2>4. ASSUME NEW n \in Optional, OthersChangeService(n)
        PROVE  svc' \in [Services -> ServiceObjects]
               /\ \A m \in Services : svc'[m].owner <= history.uids
    <3> DEFINE o == [live |-> TRUE, owner |-> 0, id |-> svc[n].id + 1, addr |-> FALSE]
    <3>1. svc[n].id \in Nat /\ n \in Services
      BY <1>0 DEF ServiceObjects
    <3>2. o \in ServiceObjects /\ o.owner <= history.uids
      BY <1>0, <3>1 DEF ServiceObjects
    <3>3. svc' = [svc EXCEPT ![n] = NoService(svc[n].id)] \/ svc' = [svc EXCEPT ![n] = o]
      BY <2>4 DEF OthersChangeService
    <3> HIDE DEF o
    <3> QED
      BY <1>1, <1>2, <3>1, <3>2, <3>3
  <2> QED
    BY <1>0, <2>1, <2>2, <2>3, <2>4, ObjectFrame
<1>4. csvc' \in [Optional -> ServiceObjects] /\ \A n \in Optional : csvc'[n].owner <= history.uids
  BY <1>0, CacheFrame DEF SyncServices
<1>5. /\ \A n \in Services : svc'[n].owner <= history'.uids
      /\ \A n \in Optional : csvc'[n].owner <= history'.uids
  BY <1>3, <1>4, OwnerRange DEF ServiceObjects
<1> QED
  BY <1>3, <1>4, <1>5 DEF ServicePart

(* The Deployment after a step: what each actor makes of it.               *)
LEMMA DeploymentType ==
    ASSUME TypeInv, [Next]_vars
    PROVE  dep' \in Deployments /\ dep'.owner <= history.uids /\ dep'.obs <= dep'.gen
<1>0. /\ dep \in Deployments /\ dep.owner <= history.uids /\ dep.obs <= dep.gen
      /\ history.uids \in Nat
  BY TypeParts, OwnerRange DEF TypeInv, DeploymentPart
<1>1. NoDeployment \in Deployments /\ NoDeployment.owner = 0
      /\ NoDeployment.obs = 0 /\ NoDeployment.gen = 0
  BY DEF NoDeployment, NoPod, Deployments, Templates
<1>2. NoPod \in [exists : BOOLEAN, template : Templates, available : BOOLEAN]
  BY DEF NoPod, Templates
<1>3. dep.template \in Templates /\ dep.gen \in Nat
      /\ dep.pod \in [exists : BOOLEAN, template : Templates, available : BOOLEAN]
  BY <1>0 DEF Deployments
<1>4. ASSUME NEW pod \in [exists : BOOLEAN, template : Templates, available : BOOLEAN],
             dep' = [dep EXCEPT !.pod = pod]
      PROVE  dep' \in Deployments /\ dep'.owner <= history.uids /\ dep'.obs <= dep'.gen
  BY <1>0, <1>4 DEF Deployments
<1>5. CASE ReconcileDeployment
  <2>1. /\ authn.uid \in Nat /\ authn.uid <= history.uids
        /\ Template(authn.spec) \in Templates
    BY <1>5, OwnerRange, TemplateType DEF ReconcileDeployment
  <2> DEFINE t == Template(authn.spec)
             u == authn.uid
  <2>2. \/ dep' = dep
        \/ dep' = [NoDeployment EXCEPT !.live = TRUE, !.owner = u, !.gen = 1, !.template = t]
        \/ dep' = [dep EXCEPT !.owner = u]
        \/ dep' = [dep EXCEPT !.owner = u, !.gen = dep.gen + 1, !.template = t]
    BY <1>5 DEF ReconcileDeployment
  <2>3. t \in Templates /\ u \in Nat /\ u <= history.uids
    BY <2>1
  <2> HIDE DEF t, u
  <2>4. CASE dep' = [NoDeployment EXCEPT !.live = TRUE, !.owner = u, !.gen = 1, !.template = t]
    <3> DEFINE d == [NoDeployment EXCEPT !.live = TRUE, !.owner = u, !.gen = 1, !.template = t]
    <3>1. d \in Deployments
      BY <1>1, <2>3 DEF Deployments
    <3>2. d.owner = u /\ d.obs = 0 /\ d.gen = 1
      BY DEF NoDeployment
    <3> QED
      BY <2>3, <2>4, <3>1, <3>2
  <2>5. CASE dep' = [dep EXCEPT !.owner = u]
    BY <1>0, <2>3, <2>5 DEF Deployments
  <2>6. CASE dep' = [dep EXCEPT !.owner = u, !.gen = dep.gen + 1, !.template = t]
    <3> DEFINE g == dep.gen + 1
    <3>1. g \in Nat /\ dep.obs <= g
      BY <1>0, <1>3 DEF Deployments
    <3>2. dep' = [dep EXCEPT !.owner = u, !.gen = g, !.template = t]
      BY <2>6
    <3> HIDE DEF g
    <3> QED
      BY <1>0, <2>3, <3>1, <3>2 DEF Deployments
  <2> QED
    BY <1>0, <2>2, <2>4, <2>5, <2>6
<1>6. CASE Collect
  <2>1. dep' = dep \/ dep' = NoDeployment
    BY <1>6 DEF Collect
  <2> QED
    BY <1>0, <1>1, <2>1
<1>7. CASE StopOldPod \/ PodLost
  <2>1. dep' = [dep EXCEPT !.pod = NoPod]
    BY <1>7 DEF StopOldPod, PodLost, DeploymentChanges
  <2> QED
    BY <1>2, <1>4, <2>1
<1>8. CASE StartPod
  <2> DEFINE pod == [exists |-> TRUE, template |-> dep.template, available |-> FALSE]
  <2>1. dep' = [dep EXCEPT !.pod = pod]
    BY <1>8 DEF StartPod, DeploymentChanges
  <2>2. pod \in [exists : BOOLEAN, template : Templates, available : BOOLEAN]
    BY <1>3
  <2> HIDE DEF pod
  <2> QED
    BY <1>4, <2>1, <2>2
<1>9. CASE PodAvailable
  <2>1. dep' = [dep EXCEPT !.pod = [dep.pod EXCEPT !.available = TRUE]]
    BY <1>9 DEF PodAvailable, DeploymentChanges
  <2>2. [dep.pod EXCEPT !.available = TRUE]
            \in [exists : BOOLEAN, template : Templates, available : BOOLEAN]
    BY <1>3
  <2> QED
    BY <1>4, <2>1, <2>2
<1>10. CASE ReportDeployment
  <2> DEFINE up == dep.pod.exists /\ dep.pod.template = dep.template
             st == dep.stalled /\ dep.obs = dep.gen /\ ~dep.pod.available
             av == dep.pod.available
             g  == dep.gen
  <2>1. dep' = [dep EXCEPT !.obs = g, !.updated = up, !.available = av, !.stalled = st]
    BY <1>10 DEF ReportDeployment, DeploymentChanges
  <2>2. up \in BOOLEAN /\ st \in BOOLEAN /\ av \in BOOLEAN /\ g \in Nat /\ dep.gen = g
    BY <1>0 DEF Deployments
  <2> HIDE DEF up, st, av, g
  <2>3. dep' \in Deployments
    BY <1>0, <2>1, <2>2 DEF Deployments
  <2>4. dep'.owner = dep.owner /\ dep'.obs = g /\ dep'.gen = g
    BY <1>0, <2>1, <2>2 DEF Deployments
  <2> QED
    BY <1>0, <2>2, <2>3, <2>4
<1>11. CASE RolloutStalls
  <2>1. dep' = [dep EXCEPT !.stalled = TRUE]
    BY <1>11 DEF RolloutStalls, DeploymentChanges
  <2> QED
    BY <1>0, <2>1 DEF Deployments
<1>12. CASE UNCHANGED dep
  BY <1>0, <1>12
<1> QED
  BY <1>5, <1>6, <1>7, <1>8, <1>9, <1>10, <1>11, <1>12, ObjectFrame

LEMMA DeploymentStep ==
    ASSUME TypeInv, [Next]_vars
    PROVE  DeploymentPart'
<1>0. /\ config \in Confs \cup {""} /\ cert \in Certs /\ cert.owner <= history.uids
      /\ history.uids \in Nat
  BY TypeParts, OwnerRange DEF TypeInv, DeploymentPart
<1>1. config' \in Confs \cup {""}
  <2>1. CASE ReconcileConfigMap
    <3>1. authn.spec \in Specs
      BY <2>1, OwnerRange DEF ReconcileConfigMap
    <3>2. authn.spec.conf # "invalid" => authn.spec.conf \in Confs
      BY <3>1 DEF Specs
    <3> QED
      BY <1>0, <2>1, <3>2 DEF ReconcileConfigMap, Renders
  <2> QED
    BY <1>0, <2>1, ObjectFrame
<1>2. cert' \in Certs /\ cert'.owner <= history.uids
  <2>1. NoCert \in Certs /\ NoCert.owner <= history.uids
    <3>1. NoCert \in Certs /\ NoCert.owner = 0
      BY DEF NoCert, Certs
    <3>2. 0 <= history.uids
      BY OwnerRange
    <3> QED
      BY <3>1, <3>2
  <2>2. CASE ReconcileTLSCertificate
    <3>1. authn.uid \in Nat /\ authn.uid <= history.uids
      BY OwnerRange
    <3>2. LoadBalancerEndpoints(authn.spec) \in BOOLEAN
      <4>1. csvc["lb"].live \in BOOLEAN /\ csvc["lb"].addr \in BOOLEAN
        BY TypeParts DEF TypeInv, ServicePart, ServiceObjects, Optional
      <4> QED
        BY <4>1 DEF LoadBalancerEndpoints
    <3> DEFINE o == [live |-> TRUE, owner |-> authn.uid, lb |-> LoadBalancerEndpoints(authn.spec)]
    <3>3. o \in Certs /\ o.owner <= history.uids
      BY <3>1, <3>2 DEF Certs
    <3>4. cert' = cert \/ cert' = NoCert \/ cert' = o
      BY <2>2 DEF ReconcileTLSCertificate
    <3> HIDE DEF o
    <3> QED
      BY <1>0, <2>1, <3>3, <3>4
  <2>3. CASE Collect
    BY <1>0, <2>1, <2>3 DEF Collect
  <2> QED
    BY <1>0, <2>2, <2>3, ObjectFrame
<1>3. dep' \in Deployments /\ dep'.owner <= history.uids /\ dep'.obs <= dep'.gen
  BY DeploymentType
<1>4. cert'.owner <= history'.uids /\ dep'.owner <= history'.uids
  BY <1>2, <1>3, OwnerRange DEF Certs, Deployments
<1> QED
  BY <1>1, <1>2, <1>3, <1>4 DEF DeploymentPart

LEMMA TypeStep == TypeInv /\ [Next]_vars => TypeInv'
<1> SUFFICES ASSUME TypeInv, [Next]_vars PROVE TypeInv'
  OBVIOUS
<1>1. CRPart'
  BY CRStep, RunStep DEF CRPart, RunType
<1>2. RunPart' /\ AboutCR'
  BY RunStep, BoundStep DEF RunType, RunPart, AboutCR
<1>3. ClaimPart' /\ ServicePart' /\ DeploymentPart'
  BY ClaimStep, ServiceStep, DeploymentStep
<1>4. TypeOK'
  BY <1>1, <1>2, <1>3, TypeParts, PTL
<1> QED
  BY <1>2, <1>4 DEF TypeInv

(***************************************************************************)
(* THEOREM.  The CR, its objects, the caches and the reconcile keep their  *)
(* types: owners are CRs that were created, no ConfigMap has an invalid    *)
(* config, and a reconcile past its start is about a CR (Reconcile,        *)
(* reconcileConfigMap and the other steps of the AIStoreAuth controller).  *)
(***************************************************************************)
THEOREM AuthTypes == Spec => []TypeOK
<1>1. TypeInv => TypeOK
  BY DEF TypeInv
<1> QED
  BY <1>1, InitType, TypeStep, PTL DEF Spec

-----------------------------------------------------------------------------
(***************************************************************************)
(* The Services of others.                                                 *)
(***************************************************************************)
(* The cache never shows an incarnation that is still to come, and of the  *)
(* incarnation that lives it knows whether it is the controller's: one     *)
(* that it owns is not given up.                                           *)
CachedIncarnation ==
    \A n \in Optional :
        /\ csvc[n].id <= svc[n].id
        /\ csvc[n].live /\ csvc[n].owner # 0 /\ svc[n].live /\ csvc[n].id = svc[n].id
            => svc[n].owner # 0

ServiceInv == TypeInv /\ CachedIncarnation

(* What a step may do to a Service: nothing, give it another owner or an   *)
(* address, remove it where it has an owner or is shown to have one, or    *)
(* make the next incarnation.                                              *)
ServiceMoves(n) ==
    \/ svc'[n] = svc[n]
    \/ /\ svc[n].live /\ svc'[n].live /\ svc'[n].id = svc[n].id
       /\ svc'[n].owner # 0 \/ svc'[n].owner = svc[n].owner
    \/ ~svc[n].live /\ svc'[n].live /\ svc'[n].id = svc[n].id + 1
    \/ /\ ~svc'[n].live /\ svc'[n].id = svc[n].id
       /\ \/ svc[n].live => svc[n].owner # 0
          \/ /\ n \in Optional /\ csvc[n].live /\ csvc[n].owner # 0
             /\ svc[n].live => svc[n].id = csvc[n].id

LEMMA ServicesMove ==
    ASSUME TypeInv, [Next]_vars
    PROVE  \A n \in Services : ServiceMoves(n)
<1>0. /\ svc \in [Services -> ServiceObjects] /\ svc' \in [Services -> ServiceObjects]
      /\ Optional \subseteq Services
  BY TypeParts, ServiceStep DEF TypeInv, ServicePart, Services
<1>1. \A i : ~NoService(i).live /\ NoService(i).id = i
  BY DEF NoService
<1>2. CASE UNCHANGED svc
  BY <1>2 DEF ServiceMoves
<1>3. ASSUME NEW n \in Services, NEW o, svc' = [svc EXCEPT ![n] = o],
             ServiceMoves(n)
      PROVE  \A m \in Services : ServiceMoves(m)
  <2>1. \A m \in Services : m # n => svc'[m] = svc[m]
    BY <1>0, <1>3
  <2> QED
    BY <1>3, <2>1 DEF ServiceMoves
<1>4. CASE ReconcileServices
  <2>1. PICK n \in Services, next \in {"nodeport", "lb", "cert"} : ReconcileService(n, next)
    BY <1>4 DEF ReconcileServices, Services, Optional
  <2>2. CASE \E o \in ServiceObjects :
                /\ svc' = [svc EXCEPT ![n] = o] /\ o.owner <= history.uids
                /\ \/ o.live /\ o.owner = authn.uid /\ o.owner # 0
                      /\ IF svc[n].live THEN o.id = svc[n].id ELSE o.id = svc[n].id + 1
                   \/ /\ n \in Optional /\ csvc[n].live /\ csvc[n].owner = authn.uid
                      /\ svc[n].live => svc[n].id = csvc[n].id
                      /\ o = NoService(svc[n].id)
    <3>1. PICK o \in ServiceObjects :
                /\ svc' = [svc EXCEPT ![n] = o] /\ o.owner <= history.uids
                /\ \/ o.live /\ o.owner = authn.uid /\ o.owner # 0
                      /\ IF svc[n].live THEN o.id = svc[n].id ELSE o.id = svc[n].id + 1
                   \/ /\ n \in Optional /\ csvc[n].live /\ csvc[n].owner = authn.uid
                      /\ svc[n].live => svc[n].id = csvc[n].id
                      /\ o = NoService(svc[n].id)
      BY <2>2
    <3>2. svc'[n] = o
      BY <1>0, <3>1
    <3>3. authn.uid # 0
      BY <2>1, OwnerRange DEF ReconcileService, Services, Optional
    <3>4. ServiceMoves(n)
      BY <1>1, <3>1, <3>2, <3>3 DEF ServiceMoves
    <3> QED
      BY <1>3, <3>1, <3>4
  <2> QED
    BY <1>2, <2>1, <2>2, ServiceType
<1>5. CASE Collect
  <2>1. CASE \E n \in Services :
                Orphaned(svc[n]) /\ svc' = [svc EXCEPT ![n] = NoService(svc[n].id)]
    <3>1. PICK n \in Services :
                Orphaned(svc[n]) /\ svc' = [svc EXCEPT ![n] = NoService(svc[n].id)]
      BY <2>1
    <3>2. svc'[n] = NoService(svc[n].id) /\ svc[n].owner # 0
      BY <1>0, <3>1 DEF Orphaned
    <3>3. ServiceMoves(n)
      BY <1>1, <3>2 DEF ServiceMoves
    <3> QED
      BY <1>3, <3>1, <3>3
  <2> QED
    BY <1>2, <1>5, <2>1 DEF Collect
<1>6. CASE AssignAddress
  <2> DEFINE o == [svc["lb"] EXCEPT !.addr = TRUE]
  <2>1. svc' = [svc EXCEPT !["lb"] = o] /\ "lb" \in Services /\ svc["lb"].live
    BY <1>6 DEF AssignAddress, Services, Optional
  <2>2. o.live = svc["lb"].live /\ o.id = svc["lb"].id /\ o.owner = svc["lb"].owner
    BY <1>0, <2>1 DEF ServiceObjects
  <2> HIDE DEF o
  <2>3. svc'["lb"] = o
    BY <1>0, <2>1
  <2>4. ServiceMoves("lb")
    BY <2>1, <2>2, <2>3 DEF ServiceMoves
  <2> QED
    BY <1>3, <2>1, <2>4
<1>7. ASSUME NEW n \in Optional, OthersChangeService(n)
      PROVE  \A m \in Services : ServiceMoves(m)
  <2> DEFINE o == IF svc[n].live THEN NoService(svc[n].id)
                  ELSE [live |-> TRUE, owner |-> 0, id |-> svc[n].id + 1, addr |-> FALSE]
  <2>1. svc' = [svc EXCEPT ![n] = o] /\ n \in Services /\ (svc[n].live => svc[n].owner # 0)
    BY <1>0, <1>7 DEF OthersChangeService
  <2>2. svc'[n] = o
    BY <1>0, <2>1
  <2>3. ServiceMoves(n)
    BY <1>1, <2>1, <2>2 DEF ServiceMoves
  <2> HIDE DEF o
  <2> QED
    BY <1>3, <2>1, <2>3
<1> QED
  BY <1>2, <1>4, <1>5, <1>6, <1>7, ObjectFrame

LEMMA ServiceInvStep == ServiceInv /\ [Next]_vars => CachedIncarnation'
<1> SUFFICES ASSUME ServiceInv, [Next]_vars, NEW n \in Optional
             PROVE  /\ csvc'[n].id <= svc'[n].id
                    /\ csvc'[n].live /\ csvc'[n].owner # 0 /\ svc'[n].live
                            /\ csvc'[n].id = svc'[n].id
                        => svc'[n].owner # 0
  BY DEF CachedIncarnation
<1>1. /\ svc[n].id \in Nat /\ svc'[n].id \in Nat /\ csvc[n].id \in Nat
      /\ svc[n].live \in BOOLEAN /\ svc'[n].live \in BOOLEAN
  BY TypeParts, ServiceStep DEF ServiceInv, TypeInv, ServicePart, ServiceObjects, Services
<1>2. CASE SyncServices
  <2>1. csvc'[n] = svc[n] /\ svc' = svc
    BY <1>2 DEF SyncServices, objects
  <2> QED
    BY <1>1, <2>1
<1>3. CASE UNCHANGED csvc
  <2>1. ServiceMoves(n)
    BY ServicesMove DEF ServiceInv, Services
  <2>2. /\ csvc[n].id <= svc[n].id
        /\ csvc[n].live /\ csvc[n].owner # 0 /\ svc[n].live /\ csvc[n].id = svc[n].id
            => svc[n].owner # 0
    BY DEF ServiceInv, CachedIncarnation
  <2> QED
    BY <1>1, <1>3, <2>1, <2>2 DEF ServiceMoves
<1> QED
  BY <1>2, <1>3, CacheFrame

(***************************************************************************)
(* THEOREM.  A Service that another made under an optional name stays, for *)
(* any lag of the cache and any sequence of changes by others: whatever    *)
(* the delete was decided on, its precondition names the incarnation, and  *)
(* the cache knows whose that is (deleteOwnedService).                     *)
(***************************************************************************)
THEOREM OthersKeepServices == Spec => OtherServiceKept
<1>1. Init => ServiceInv
  <2> SUFFICES ASSUME Init PROVE ServiceInv
    OBVIOUS
  <2>1. TypeInv
    BY InitType
  <2>2. \A n \in Optional : csvc[n] = svc[n] /\ svc[n].id \in Nat
    BY <2>1, TypeParts DEF TypeInv, ServicePart, ServiceObjects, Services, Init
  <2> QED
    BY <2>1, <2>2 DEF ServiceInv, CachedIncarnation
<1>2. ServiceInv /\ [Next]_vars => ServiceInv'
  BY TypeStep, ServiceInvStep DEF ServiceInv
<1>3. ServiceInv /\ [Next]_vars =>
        [\A n \in Services : svc[n].live /\ svc[n].owner = 0 =>
            svc'[n].live /\ svc'[n].id = svc[n].id]_vars
  <2> SUFFICES ASSUME ServiceInv, [Next]_vars,
                      NEW n \in Services, svc[n].live, svc[n].owner = 0
               PROVE  svc'[n].live /\ svc'[n].id = svc[n].id
    OBVIOUS
  <2>1. ServiceMoves(n)
    BY ServicesMove DEF ServiceInv
  <2>2. n \in Optional => ~(csvc[n].live /\ csvc[n].owner # 0 /\ csvc[n].id = svc[n].id)
    BY DEF ServiceInv, CachedIncarnation
  <2> QED
    BY <2>1, <2>2 DEF ServiceMoves
<1> QED
  BY <1>1, <1>2, <1>3, PTL DEF Spec, OtherServiceKept

-----------------------------------------------------------------------------
(***************************************************************************)
(* The data of a CR that is deleted.                                       *)
(***************************************************************************)
Applying == pc \in {"config", "claim", "cluster", "nodeport", "lb", "cert", "deployment"}
Cleaning == pc \in {"retain", "release"}

(* A CR is deleted with its finalizer on it, and a new one has the latest  *)
(* UID.  The cache shows a live finalizer only while it is there; where it *)
(* shows a deletion, that CR is being deleted or is gone, and no other has *)
(* a finalizer until the cache has shown it.                               *)
CacheInv ==
    /\ \A c \in {cr, ccr} : (c.del => c.fin) /\ (c.fin => c.uid # 0)
    /\ cr.uid \in {0, history.uids}
    /\ ccr.fin /\ ~ccr.del => ccr.uid = cr.uid /\ cr.fin
    /\ ccr.del => IF ccr.uid = cr.uid THEN cr.del /\ cr.spec = ccr.spec ELSE ~cr.fin

(* What a reconcile may rely on: while it applies, the CR it is about has  *)
(* a finalizer and stays; while it cleans up, the CR it is about is being  *)
(* deleted, or is gone and no finalizer of another is at risk.             *)
RunInv ==
    /\ Applying => authn.uid = cr.uid /\ cr.fin
    /\ pc = "finalizer" /\ ccr.del => ccr.uid = cr.uid
    /\ Cleaning =>
        /\ IF authn.uid = cr.uid
           THEN cr.del /\ cr.spec = authn.spec /\ ccr.uid = cr.uid
           ELSE ~cr.fin
        /\ ccr.uid = authn.uid => ccr.del
        /\ ccr.fin => ccr.del

(* Who owns the claim: a CR with a finalizer; a CR that the cache showed   *)
(* as the owner still is, in the cache too, until its own cleanup releases *)
(* the claim; and no claim of a CR that is gone, retained and shown is     *)
(* left to the garbage collector.                                          *)
OwnerInv ==
    /\ \A c \in {claim, cclaim} : c.owner # 0 => c.live
    /\ claim.owner = cr.uid /\ cr.uid # 0 => cr.fin
    /\ ccr.uid # 0 /\ ~ccr.del /\ claim.owner = ccr.uid => ccr.uid = cr.uid
    /\ cr.uid \in history.shown =>
        \/ claim.owner = cr.uid /\ cclaim.owner = cr.uid
        \/ /\ cr.del /\ ccr.del /\ ccr.uid = cr.uid /\ claim.owner # cr.uid
           /\ ~Applying /\ pc # "finalizer"
    /\ /\ pc = "release" /\ ~ShouldDeletePVC(authn.spec)
       /\ authn.uid = cr.uid /\ cr.uid \in history.shown
       => claim.owner # cr.uid
    /\ cr.uid \notin history.kept
    /\ claim.owner \in history.kept => claim.owner \notin history.shown

ReleaseInv == TypeInv /\ CacheInv /\ RunInv /\ OwnerInv

(* The numbers and flags that the invariant compares.                      *)
LEMMA FieldTypes ==
    ASSUME TypeInv
    PROVE  /\ cr \in CRs /\ ccr \in CRs /\ authn \in CRs
           /\ cr.uid \in Nat /\ ccr.uid \in Nat /\ authn.uid \in Nat /\ claim.owner \in Nat
           /\ cr.uid <= history.uids /\ ccr.uid <= history.uids /\ authn.uid <= history.uids
           /\ claim.owner <= history.uids /\ history.uids \in Nat
           /\ \A u \in history.shown \cup history.kept : u \in Nat /\ 0 < u /\ u <= history.uids
           /\ {cr.del, cr.fin, ccr.del, ccr.fin} \subseteq BOOLEAN
           /\ pc # "idle" => authn.uid # 0
<1>1. CRPart /\ ClaimPart /\ AboutCR
  BY TypeParts DEF TypeInv
<1> QED
  BY <1>1 DEF CRPart, ClaimPart, CRType, CRs, Claims, AboutCR

(* What the steps of users and of the reconcile make of the CR.            *)
LEMMA UserMoves ==
    ASSUME TypeInv, UserActs
    PROVE  /\ ~cr.del
           /\ \/ /\ cr.fin /\ cr.uid # 0 /\ cr'.uid = cr.uid /\ cr'.fin /\ cr'.del
                 /\ cr'.gen = cr.gen + 1 /\ UNCHANGED history
              \/ ~cr.fin /\ cr.uid # 0 /\ Gone
              \/ UNCHANGED <<cr, history>>
              \/ /\ cr.uid = 0 /\ history' = [history EXCEPT !.uids = @ + 1]
                 /\ cr'.uid = history.uids + 1 /\ ~cr'.fin /\ ~cr'.del
                 /\ cr'.st = NoStatus
              \/ /\ cr.uid # 0 /\ cr'.uid = cr.uid /\ cr'.fin = cr.fin /\ cr'.del = cr.del
                 /\ cr'.gen = cr.gen + 1 /\ UNCHANGED history
           /\ cr'.st = cr.st \/ cr'.st = NoStatus
           /\ UNCHANGED <<ccr, claim, cclaim, pc, authn, dep>>
<1>0. cr \in CRs /\ history \in [uids : Nat, kept : SUBSET Nat, shown : SUBSET Nat]
  BY TypeParts, FieldTypes DEF TypeInv, CRPart
<1>1. ~cr.del /\ UNCHANGED <<ccr, claim, cclaim, pc, authn, dep>>
  BY DEF UserActs, objects, caches, run
<1>2. CASE /\ cr.uid # 0 /\ cr.fin
           /\ cr' = [cr EXCEPT !.del = TRUE, !.gen = @ + 1] /\ UNCHANGED history
  <2>1. /\ cr'.uid = cr.uid /\ cr'.fin = cr.fin /\ cr'.del /\ cr'.gen = cr.gen + 1
        /\ cr'.st = cr.st
    BY <1>0, <1>2 DEF CRs
  <2> QED
    BY <1>1, <1>2, <2>1
<1>3. CASE cr.uid # 0 /\ ~cr.fin /\ Gone
  <2>1. cr'.st = NoStatus
    BY <1>3 DEF Gone, NoCR
  <2> QED
    BY <1>1, <1>3, <2>1
<1>4. CASE UNCHANGED <<cr, history>>
  BY <1>1, <1>4
<1>5. CASE /\ cr.uid = 0 /\ history' = [history EXCEPT !.uids = @ + 1]
           /\ cr' = [NoCR EXCEPT !.uid = history'.uids, !.gen = 1, !.spec = Head(todo)]
  <2>1. history'.uids = history.uids + 1
    BY <1>0, <1>5
  <2>2. cr'.uid = history'.uids /\ ~cr'.fin /\ ~cr'.del /\ cr'.st = NoStatus
    BY <1>5 DEF NoCR
  <2> QED
    BY <1>1, <1>5, <2>1, <2>2
<1>6. CASE /\ cr.uid # 0 /\ cr' = [cr EXCEPT !.spec = Head(todo), !.gen = @ + 1]
           /\ UNCHANGED history
  <2>1. /\ cr'.uid = cr.uid /\ cr'.fin = cr.fin /\ cr'.del = cr.del
        /\ cr'.gen = cr.gen + 1 /\ cr'.st = cr.st
    BY <1>0, <1>6 DEF CRs
  <2> QED
    BY <1>1, <1>6, <2>1
<1> QED
  BY <1>2, <1>3, <1>4, <1>5, <1>6 DEF UserActs

LEMMA GoneMoves ==
    ASSUME TypeInv, Gone, cr.uid # 0
    PROVE  /\ cr'.uid = 0 /\ ~cr'.fin /\ ~cr'.del
           /\ history'.uids = history.uids /\ history'.shown = history.shown
           /\ history'.kept = IF ShouldDeletePVC(cr.spec) THEN history.kept
                              ELSE history.kept \cup {cr.uid}
<1>1. history \in [uids : Nat, kept : SUBSET Nat, shown : SUBSET Nat]
  BY TypeParts DEF TypeInv, CRPart
<1> QED
  BY <1>1 DEF Gone, NoCR

(* The steps of the reconcile after its start that write no CR and no      *)
(* claim.                                                                  *)
LEMMA ApplyMoves ==
    ASSUME TypeInv,
           \/ ReconcileConfigMap \/ ReconcileServices \/ ReconcileTLSCertificate
           \/ ReconcileDeployment \/ Fault
    PROVE  /\ Applying \/ (pc = "finalizer" /\ pc' = "status")
           /\ pc' \in {"claim", "cluster", "nodeport", "lb", "cert", "deployment", "status"}
           /\ authn'.uid = authn.uid /\ authn'.spec = authn.spec /\ authn'.gen = authn.gen
           /\ UNCHANGED <<cr, ccr, claim, cclaim, history>>
<1>0. CRType(authn, history.uids) /\ history.uids \in Nat
  BY TypeParts DEF TypeInv, CRPart
<1>1. \A r \in Reasons : /\ SetReady(authn, r).uid = authn.uid
                         /\ SetReady(authn, r).spec = authn.spec
                         /\ SetReady(authn, r).gen = authn.gen
  BY <1>0, SetReadyType
<1>2. "Failed" \in Reasons /\ ReasonFromDeployment(dep') \in Reasons
  BY ReasonType DEF Reasons
<1>3. Fail => /\ pc' = "status" /\ authn'.uid = authn.uid /\ authn'.spec = authn.spec
              /\ authn'.gen = authn.gen
  BY <1>1, <1>2 DEF Fail
<1>4. CASE ReconcileConfigMap \/ ReconcileServices \/ ReconcileTLSCertificate \/ Fault
  BY <1>3, <1>4 DEF ReconcileConfigMap, ReconcileServices, ReconcileService,
        ReconcileTLSCertificate, Fault, Goto, Applying, crs, caches, objects
<1>5. CASE ReconcileDeployment
  BY <1>1, <1>2, <1>3, <1>5 DEF ReconcileDeployment, Applying, crs, caches
<1> QED
  BY <1>4, <1>5

(* The actions that the invariant has to be shown for.                     *)
LEMMA ReleaseFrame ==
    ASSUME [Next]_vars
    PROVE  \/ Begin \/ EnsureFinalizer \/ ReconcilePersistence \/ UpdateStatus \/ RetainPVC
           \/ RemoveFinalizer \/ UserActs \/ SyncCR \/ SyncClaim \/ Collect
           \/ ReconcileConfigMap \/ ReconcileServices \/ ReconcileTLSCertificate
           \/ ReconcileDeployment \/ Fault
           \/ UNCHANGED <<cr, ccr, pc, authn, claim, cclaim, history>>
BY DEF Next, Reconciler, SecretChanges, Watches, SyncServices, AssignAddress,
       OthersChangeService, StopOldPod, StartPod, PodAvailable, PodLost, ReportDeployment, RolloutStalls, DeploymentChanges,
       vars, crs, objects, caches, run

LEMMA EnsureMoves ==
    ASSUME TypeInv, EnsureFinalizer
    PROVE  /\ pc = "finalizer"
           /\ \/ /\ cr.uid # 0 /\ cr'.uid = cr.uid /\ cr'.del = cr.del /\ cr'.fin
                 /\ cr'.gen = cr.gen /\ cr'.spec = cr.spec
                 /\ authn' = cr' /\ pc' = "config"
              \/ /\ UNCHANGED cr /\ pc' = "status" /\ authn' = SetReady(authn, "Failed")
           /\ cr'.st = cr.st
           /\ UNCHANGED <<ccr, claim, cclaim, history, dep>>
<1>0. cr \in CRs
  BY FieldTypes
<1>1. CASE cr.uid # 0 /\ Validate(cr.spec)
  BY <1>0, <1>1 DEF EnsureFinalizer, CRs, objects, caches
<1>2. CASE ~(cr.uid # 0 /\ Validate(cr.spec))
  BY <1>0, <1>2 DEF EnsureFinalizer, Fail, crs, objects, caches
<1> QED
  BY <1>1, <1>2

LEMMA StatusMoves ==
    ASSUME TypeInv, UpdateStatus
    PROVE  /\ pc = "status" /\ pc' = "idle" /\ authn' = NoCR
           /\ cr'.uid = cr.uid /\ cr'.del = cr.del /\ cr'.fin = cr.fin
           /\ cr'.gen = cr.gen /\ cr'.spec = cr.spec
           /\ cr' = cr \/ cr'.st = Patched(cr.st, base, NewStatus(authn))
           /\ UNCHANGED <<ccr, claim, cclaim, history, dep>>
<1>0. cr \in CRs
  BY FieldTypes
<1>1. /\ pc = "status" /\ pc' = "idle" /\ authn' = NoCR
      /\ UNCHANGED <<ccr, claim, cclaim, history, dep>>
  BY DEF UpdateStatus, objects, caches
<1> DEFINE st == Patched(cr.st, base, NewStatus(authn))
<1>2. cr' = cr \/ cr' = [cr EXCEPT !.st = st]
  BY DEF UpdateStatus
<1> HIDE DEF st
<1>3. /\ cr'.uid = cr.uid /\ cr'.del = cr.del /\ cr'.fin = cr.fin
      /\ cr'.gen = cr.gen /\ cr'.spec = cr.spec
      /\ cr' = cr \/ cr'.st = st
  BY <1>0, <1>2 DEF CRs
<1> QED
  BY <1>1, <1>3 DEF st

LEMMA CleanMoves ==
    ASSUME TypeInv, RetainPVC
    PROVE  /\ pc = "retain" /\ pc' \in {"release", "status"}
           /\ authn'.uid = authn.uid /\ authn'.spec = authn.spec /\ authn'.gen = authn.gen
           /\ UNCHANGED claim \/ claim' = [claim EXCEPT !.owner = 0]
           /\ pc' = "release" =>
                /\ UNCHANGED authn
                /\ claim' = IF Releases(authn.spec) /\ claim.live
                            THEN [claim EXCEPT !.owner = 0] ELSE claim
           /\ pc' # "release" => UNCHANGED claim /\ authn' = SetReady(authn, "CleanupFailed")
           /\ UNCHANGED <<cr, ccr, cclaim, history, dep>>
<1>0. CRType(authn, history.uids) /\ history.uids \in Nat /\ "CleanupFailed" \in Reasons
  BY TypeParts DEF TypeInv, CRPart, Reasons
<1>1. LET c == SetReady(authn, "CleanupFailed")
      IN  c.uid = authn.uid /\ c.spec = authn.spec /\ c.gen = authn.gen
  BY <1>0, SetReadyType
<1> QED
  BY <1>1 DEF RetainPVC, Goto, CleanupFails, crs, caches

LEMMA RemoveMoves ==
    ASSUME TypeInv, RemoveFinalizer
    PROVE  /\ pc = "release"
           /\ \/ cr.uid # 0 /\ cr.del /\ Gone /\ pc' = "idle" /\ authn' = NoCR
              \/ /\ cr.uid = 0 \/ ~cr.del
                 /\ cr'.uid = cr.uid /\ cr'.del = cr.del /\ ~cr'.fin /\ cr'.spec = cr.spec
                 /\ cr'.gen = cr.gen /\ cr'.st = cr.st
                 /\ pc' = "idle" /\ authn' = NoCR /\ UNCHANGED history
              \/ /\ UNCHANGED <<cr, history>> /\ pc' = "status"
                 /\ authn' = SetReady(authn, "CleanupFailed")
           /\ UNCHANGED <<ccr, claim, cclaim, dep>>
<1>0. cr \in CRs
  BY FieldTypes
<1>1. cr' = [cr EXCEPT !.fin = FALSE] =>
        /\ cr'.uid = cr.uid /\ cr'.del = cr.del /\ ~cr'.fin /\ cr'.spec = cr.spec
        /\ cr'.gen = cr.gen /\ cr'.st = cr.st
  BY <1>0 DEF CRs
<1> QED
  BY <1>1 DEF RemoveFinalizer, CleanupFails, objects, caches

LEMMA SyncMoves ==
    ASSUME TypeInv, SyncClaim
    PROVE  /\ cclaim' = claim /\ history'.uids = history.uids /\ history'.kept = history.kept
           /\ history'.shown = IF claim.owner = ccr.uid /\ ccr.uid # 0 /\ ~ccr.del
                               THEN history.shown \cup {ccr.uid} ELSE history.shown
           /\ UNCHANGED <<cr, ccr, claim, pc, authn, dep>>
<1>1. history \in [uids : Nat, kept : SUBSET Nat, shown : SUBSET Nat]
  BY TypeParts DEF TypeInv, CRPart
<1> QED
  BY <1>1 DEF SyncClaim, crs, objects, run

LEMMA CacheInvStep == TypeInv /\ CacheInv /\ RunInv /\ [Next]_vars => CacheInv'
<1> SUFFICES ASSUME TypeInv, CacheInv, RunInv, [Next]_vars PROVE CacheInv'
  OBVIOUS
<1>1. CASE EnsureFinalizer
  BY <1>1, EnsureMoves, FieldTypes DEF CacheInv, RunInv
<1>2. CASE RemoveFinalizer
  BY <1>2, RemoveMoves, GoneMoves, FieldTypes DEF CacheInv, RunInv, Cleaning
<1>3. CASE UserActs
  <2>1. CASE cr.uid = 0 /\ history' = [history EXCEPT !.uids = @ + 1]
             /\ cr'.uid = history.uids + 1 /\ ~cr'.fin /\ ~cr'.del
    <3>1. history'.uids = history.uids + 1
      BY <2>1, TypeParts DEF TypeInv, CRPart
    <3> QED
      BY <1>3, <2>1, <3>1, UserMoves, FieldTypes DEF CacheInv
  <2> QED
    BY <1>3, <2>1, UserMoves, GoneMoves, FieldTypes DEF CacheInv
<1>4. CASE SyncCR
  BY <1>4, FieldTypes DEF SyncCR, CacheInv
<1>5. CASE UpdateStatus
  BY <1>5, StatusMoves DEF CacheInv
<1>6. CASE SyncClaim
  BY <1>6, SyncMoves DEF CacheInv
<1>7. CASE UNCHANGED <<cr, ccr, history>>
  BY <1>7 DEF CacheInv
<1> QED
  BY <1>1, <1>2, <1>3, <1>4, <1>5, <1>6, <1>7, CRFrame, CacheFrame

LEMMA RunInvStep == TypeInv /\ CacheInv /\ RunInv /\ [Next]_vars => RunInv'
<1> SUFFICES ASSUME TypeInv, CacheInv, RunInv, [Next]_vars PROVE RunInv'
  OBVIOUS
<1>1. CASE Begin
  BY <1>1, FieldTypes DEF Begin, CacheInv, RunInv, Applying, Cleaning, crs
<1>2. CASE EnsureFinalizer
  BY <1>2, EnsureMoves DEF RunInv, Applying, Cleaning
<1>3. CASE ReconcilePersistence
  BY <1>3 DEF ReconcilePersistence, Goto, Fail, RunInv, Applying, Cleaning, crs
<1>4. CASE UpdateStatus
  BY <1>4, StatusMoves DEF RunInv, Applying, Cleaning
<1>5. CASE RetainPVC
  BY <1>5, CleanMoves DEF RunInv, Applying, Cleaning
<1>6. CASE RemoveFinalizer
  BY <1>6, RemoveMoves DEF RunInv, Applying, Cleaning
<1>7. CASE UserActs
  BY <1>7, UserMoves, GoneMoves, FieldTypes DEF RunInv, CacheInv, Applying, Cleaning
<1>8. CASE SyncCR
  BY <1>8, FieldTypes DEF SyncCR, RunInv, CacheInv, Applying, Cleaning, run
<1>9. CASE SyncClaim
  BY <1>9, SyncMoves DEF RunInv, Applying, Cleaning
<1>10. CASE Collect
  BY <1>10 DEF Collect, RunInv, Applying, Cleaning, crs, run
<1>11. CASE \/ ReconcileConfigMap \/ ReconcileServices \/ ReconcileTLSCertificate
            \/ ReconcileDeployment \/ Fault
  BY <1>11, ApplyMoves DEF RunInv, Applying, Cleaning
<1>12. CASE UNCHANGED <<cr, ccr, pc, authn, claim, cclaim, history>>
  BY <1>12 DEF RunInv, Applying, Cleaning
<1> QED
  BY <1>1, <1>2, <1>3, <1>4, <1>5, <1>6, <1>7, <1>8, <1>9, <1>10, <1>11, <1>12, ReleaseFrame

LEMMA ClaimRelease ==
    ASSUME TypeInv
    PROVE  LET c == [claim EXCEPT !.owner = 0]
           IN  c.owner = 0 /\ c.live = claim.live
BY TypeParts DEF TypeInv, ClaimPart, Claims

LEMMA OwnerInvStep == ReleaseInv /\ [Next]_vars => OwnerInv'
<1> SUFFICES ASSUME ReleaseInv, [Next]_vars PROVE OwnerInv'
  OBVIOUS
<1>0. TypeInv /\ CacheInv /\ RunInv /\ OwnerInv
  BY DEF ReleaseInv
<1>1. CASE Begin
  BY <1>0, <1>1, FieldTypes DEF Begin, OwnerInv, Applying, crs, objects, caches
<1>2. CASE EnsureFinalizer
  BY <1>0, <1>2, EnsureMoves, FieldTypes DEF OwnerInv, Applying
<1>3. CASE ReconcilePersistence
  <2>1. CASE UNCHANGED claim /\ Fail
    BY <1>0, <1>3, <2>1 DEF ReconcilePersistence, Fail, OwnerInv, Applying, crs, caches
  <2>2. CASE /\ claim' = [live |-> TRUE, owner |-> authn.uid, kind |-> authn.spec.claim]
             /\ Goto("cluster")
    <3>1. claim'.live /\ claim'.owner = authn.uid
      BY <2>2
    <3>2. authn.uid = cr.uid /\ cr.fin /\ Applying
      BY <1>0, <1>3 DEF RunInv, Applying, ReconcilePersistence
    <3>3. UNCHANGED <<cr, ccr, cclaim, history>> /\ pc' = "cluster"
      BY <1>3, <2>2 DEF ReconcilePersistence, Goto, crs, caches
    <3> QED
      BY <1>0, <3>1, <3>2, <3>3, FieldTypes DEF OwnerInv
  <2> QED
    BY <1>3, <2>1, <2>2 DEF ReconcilePersistence
<1>4. CASE UpdateStatus
  BY <1>0, <1>4, StatusMoves DEF OwnerInv, Applying
<1>5. CASE RetainPVC
  <2>1. CASE pc' # "release"
    BY <1>0, <1>5, <2>1, CleanMoves DEF OwnerInv, Applying
  <2>2. CASE pc' = "release"
    <3>1. claim' = claim \/ claim'.owner = 0
      BY <1>0, <1>5, <2>2, CleanMoves, ClaimRelease
    <3>2. \A c \in {claim', cclaim'} : c.owner # 0 => c.live
      BY <1>0, <1>5, <3>1, CleanMoves DEF OwnerInv
    <3>3. CASE claim' = claim /\ ~(Releases(authn.spec) /\ claim.live)
      <4>1. /\ ~ShouldDeletePVC(authn.spec) /\ authn.uid = cr.uid /\ cr.uid \in history.shown
            => claim.owner # cr.uid
        BY <1>0, <3>3, FieldTypes DEF OwnerInv, Releases
      <4> QED
        BY <1>0, <1>5, <2>2, <3>2, <3>3, <4>1, CleanMoves DEF OwnerInv, Applying
    <3>4. CASE claim'.owner = 0 /\ Releases(authn.spec)
      <4>1. cr.uid \in history.shown /\ claim.owner = cr.uid /\ cclaim.owner = cr.uid
            => authn.uid = cr.uid
        BY <3>4 DEF Releases
      <4>2. authn.uid = cr.uid => cr.del /\ ccr.del /\ ccr.uid = cr.uid
        BY <1>0, <1>5, CleanMoves DEF RunInv, Cleaning
      <4> QED
        BY <1>0, <1>5, <2>2, <3>2, <3>4, <4>1, <4>2, CleanMoves, FieldTypes
           DEF OwnerInv, Applying
    <3> QED
      BY <1>0, <1>5, <2>2, <3>3, <3>4, CleanMoves, ClaimRelease
  <2> QED
    BY <2>1, <2>2
<1>6. CASE RemoveFinalizer
  <2>1. CASE cr.uid # 0 /\ cr.del /\ Gone /\ pc' = "idle"
    <3>1. authn.uid = cr.uid /\ cr.spec = authn.spec /\ ccr.del /\ ccr.uid = cr.uid
      BY <1>0, <1>6, <2>1, RemoveMoves DEF CacheInv, RunInv, Cleaning
    <3>2. ~ShouldDeletePVC(cr.spec) /\ cr.uid \in history.shown => claim.owner # cr.uid
      BY <1>0, <1>6, <3>1, RemoveMoves DEF OwnerInv
    <3> QED
      BY <1>0, <1>6, <2>1, <3>1, <3>2, RemoveMoves, GoneMoves, FieldTypes
         DEF OwnerInv, Applying
  <2>2. CASE /\ cr.uid = 0 \/ ~cr.del
             /\ cr'.uid = cr.uid /\ cr'.del = cr.del /\ ~cr'.fin /\ pc' = "idle"
             /\ UNCHANGED history
    <3>1. ~cr.fin
      BY <1>0, <1>6, <2>2, RemoveMoves DEF CacheInv, RunInv, Cleaning
    <3> QED
      BY <1>0, <1>6, <2>2, <3>1, RemoveMoves, FieldTypes DEF OwnerInv, Applying
  <2>3. CASE UNCHANGED <<cr, history>> /\ pc' = "status"
    BY <1>0, <1>6, <2>3, RemoveMoves DEF OwnerInv, Applying
  <2> QED
    BY <1>0, <1>6, <2>1, <2>2, <2>3, RemoveMoves
<1>7. CASE UserActs
  <2>1. CASE ~cr.fin /\ cr.uid # 0 /\ Gone
    BY <1>0, <1>7, <2>1, UserMoves, GoneMoves, FieldTypes DEF OwnerInv, Applying
  <2>2. CASE cr.uid = 0 /\ history' = [history EXCEPT !.uids = @ + 1]
             /\ cr'.uid = history.uids + 1 /\ ~cr'.fin /\ ~cr'.del
    <3>1. history'.kept = history.kept /\ history'.shown = history.shown
      BY <1>0, <2>2, TypeParts DEF TypeInv, CRPart
    <3> QED
      BY <1>0, <1>7, <2>2, <3>1, UserMoves, FieldTypes DEF OwnerInv, Applying
  <2>3. CASE cr'.uid = cr.uid /\ (cr.fin => cr'.fin) /\ UNCHANGED history
    BY <1>0, <1>7, <2>3, UserMoves DEF OwnerInv, Applying
  <2> QED
    BY <1>0, <1>7, <2>1, <2>2, <2>3, UserMoves
<1>8. CASE SyncCR
  BY <1>0, <1>8, FieldTypes DEF SyncCR, OwnerInv, Applying, objects, caches, run
<1>9. CASE SyncClaim
  <2>1. /\ pc = "release" /\ ~ShouldDeletePVC(authn.spec)
        /\ authn.uid = cr.uid /\ cr.uid \in history'.shown
        => cr.uid \in history.shown
    BY <1>0, <1>9, SyncMoves DEF RunInv, Cleaning
  <2>2. /\ ccr.uid # 0 /\ ~ccr.del /\ claim.owner = ccr.uid => ccr.uid = cr.uid
        /\ cr.uid \notin history.kept
    BY <1>0 DEF OwnerInv
  <2> QED
    BY <1>0, <1>9, <2>1, <2>2, SyncMoves DEF OwnerInv, Applying
<1>10. CASE Collect
  <2>1. \/ UNCHANGED claim
        \/ claim.owner # cr.uid /\ claim'.owner = 0 /\ ~claim'.live
    BY <1>10 DEF Collect, Orphaned, NoClaim
  <2>2. UNCHANGED <<cr, ccr, pc, authn, cclaim, history>>
    BY <1>10 DEF Collect, crs, run, caches
  <2> QED
    BY <1>0, <2>1, <2>2, FieldTypes DEF OwnerInv, Applying
<1>11. CASE \/ ReconcileConfigMap \/ ReconcileServices \/ ReconcileTLSCertificate
            \/ ReconcileDeployment \/ Fault
  BY <1>0, <1>11, ApplyMoves DEF OwnerInv, Applying
<1>12. CASE UNCHANGED <<cr, ccr, pc, authn, claim, cclaim, history>>
  BY <1>0, <1>12 DEF OwnerInv, Applying
<1> QED
  BY <1>1, <1>2, <1>3, <1>4, <1>5, <1>6, <1>7, <1>8, <1>9, <1>10, <1>11, <1>12, ReleaseFrame

LEMMA ReleaseInvInit == Init => ReleaseInv
<1> SUFFICES ASSUME Init PROVE ReleaseInv
  OBVIOUS
<1>0. TypeInv /\ ccr = cr /\ cclaim = claim /\ pc = "idle"
  BY InitType DEF Init
<1>1. \/ InitEmpty \/ \E spec : InitSettled(spec)
  BY DEF Init
<1>2. \/ /\ cr.uid = 0 /\ ~cr.del /\ ~cr.fin /\ claim.owner = 0 /\ history.uids = 0
         /\ history.kept = {} /\ history.shown = {}
      \/ /\ cr.uid = 1 /\ ~cr.del /\ cr.fin /\ claim.owner = 1 /\ claim.live
         /\ history.uids = 1 /\ history.kept = {} /\ history.shown = {1}
  <2>1. CASE InitEmpty
    BY <2>1 DEF InitEmpty, NoCR, NoClaim
  <2>2. ASSUME NEW spec, InitSettled(spec)
        PROVE  /\ cr.uid = 1 /\ ~cr.del /\ cr.fin /\ claim.owner = 1 /\ claim.live
               /\ history.uids = 1 /\ history.kept = {} /\ history.shown = {1}
    BY <2>2 DEF InitSettled
  <2> QED
    BY <1>1, <2>1, <2>2
<1>3. CacheInv
  BY <1>0, <1>2 DEF CacheInv
<1>4. RunInv
  BY <1>0 DEF RunInv, Applying, Cleaning
<1>5. OwnerInv
  BY <1>0, <1>2 DEF OwnerInv
<1> QED
  BY <1>0, <1>3, <1>4, <1>5 DEF ReleaseInv

LEMMA ReleaseInvStep == ReleaseInv /\ [Next]_vars => ReleaseInv'
BY TypeStep, CacheInvStep, RunInvStep, OwnerInvStep DEF ReleaseInv

(***************************************************************************)
(* THEOREM.  The claim of a CR with policy Retain outlives the CR once the *)
(* cache has shown whose it is, for any number of edits, deletions and     *)
(* CRs of the same name, any lag of the caches and any failed writes: the  *)
(* finalizer holds the CR until its claim is released, and no cleanup      *)
(* takes the finalizer of a CR it is not about (retainPVC,                 *)
(* reconcileDeletion, ensureFinalizer).                                    *)
(***************************************************************************)
THEOREM RetainedClaimStays == Spec => ShownClaimKept
<1>1. ReleaseInv /\ [Next]_vars =>
        [claim.live /\ ~claim'.live => claim.owner \notin history.kept \cap history.shown]_vars
  <2> SUFFICES ASSUME ReleaseInv, [Next]_vars, claim.live, ~claim'.live
               PROVE  claim.owner \notin history.kept \cap history.shown
    OBVIOUS
  <2> QED
    BY DEF ReleaseInv, OwnerInv
<1> QED
  BY <1>1, ReleaseInvInit, ReleaseInvStep, PTL DEF Spec, ShownClaimKept

-----------------------------------------------------------------------------
(***************************************************************************)
(* What Ready vouches for.                                                 *)
(***************************************************************************)
(* A status that is up to date and says updated leaves no pod of an        *)
(* earlier template.                                                       *)
ReportInv ==
    dep.obs = dep.gen /\ dep.updated => (dep.pod.exists => dep.pod.template = dep.template)

(* A copy of the CR with its generation has its spec.                      *)
GenerationInv ==
    \A c \in {ccr, authn} : c.uid = cr.uid /\ c.uid # 0 =>
        c.gen <= cr.gen /\ (c.gen = cr.gen => c.spec = cr.spec)

(* Between the apply of a Deployment that is rolled out and the patch of   *)
(* the status, the CR stays, with the Deployment as it was applied.        *)
VouchInv ==
    pc = "status" /\ authn.st.reason = "Available" =>
        /\ authn.uid = cr.uid /\ cr.fin /\ authn.st.rgen = authn.gen
        /\ dep.live /\ dep.owner = authn.uid /\ dep.template = Template(authn.spec)
        /\ dep.pod.exists => dep.pod.template = dep.template

ReadyInv == ReleaseInv /\ ReportInv /\ GenerationInv /\ VouchInv

(* What the Deployment controller, the kubelet and the garbage collector   *)
(* make of a Deployment.                                                   *)
LEMMA DeploymentMoves ==
    ASSUME TypeInv, [Next]_vars, ~ReconcileDeployment
    PROVE  \/ Orphaned(dep) /\ dep' = NoDeployment
           \/ /\ dep'.live = dep.live /\ dep'.owner = dep.owner
              /\ dep'.template = dep.template /\ dep'.gen = dep.gen
              /\ \/ /\ dep'.obs = dep.obs /\ dep'.updated = dep.updated
                    /\ dep'.pod.exists =>
                        \/ dep'.pod.template = dep.template
                        \/ dep.pod.exists /\ dep'.pod.template = dep.pod.template
                 \/ /\ dep'.pod = dep.pod
                    /\ dep'.updated = (dep.pod.exists /\ dep.pod.template = dep.template)
<1>0. /\ dep \in Deployments
      /\ dep.pod \in [exists : BOOLEAN, template : Templates, available : BOOLEAN]
  BY TypeParts DEF TypeInv, DeploymentPart, Deployments
<1>1. ASSUME NEW pod, dep' = [dep EXCEPT !.pod = pod]
      PROVE  /\ dep'.live = dep.live /\ dep'.owner = dep.owner
             /\ dep'.template = dep.template /\ dep'.gen = dep.gen
             /\ dep'.obs = dep.obs /\ dep'.updated = dep.updated /\ dep'.pod = pod
  BY <1>0, <1>1 DEF Deployments
<1>2. CASE StopOldPod \/ PodLost
  <2>1. dep' = [dep EXCEPT !.pod = NoPod] /\ ~NoPod.exists
    BY <1>2 DEF StopOldPod, PodLost, DeploymentChanges, NoPod
  <2> QED
    BY <1>1, <2>1
<1>3. CASE StartPod
  <2> DEFINE pod == [exists |-> TRUE, template |-> dep.template, available |-> FALSE]
  <2>1. dep' = [dep EXCEPT !.pod = pod]
    BY <1>3 DEF StartPod, DeploymentChanges
  <2>2. pod.template = dep.template
    OBVIOUS
  <2> HIDE DEF pod
  <2> QED
    BY <1>1, <2>1, <2>2
<1>4. CASE PodAvailable
  <2> DEFINE pod == [dep.pod EXCEPT !.available = TRUE]
  <2>1. dep' = [dep EXCEPT !.pod = pod] /\ dep.pod.exists
    BY <1>4 DEF PodAvailable, DeploymentChanges
  <2>2. pod.template = dep.pod.template
    BY <1>0
  <2> HIDE DEF pod
  <2> QED
    BY <1>1, <2>1, <2>2
<1>5. CASE ReportDeployment
  <2> DEFINE up == dep.pod.exists /\ dep.pod.template = dep.template
             st == dep.stalled /\ dep.obs = dep.gen /\ ~dep.pod.available
  <2>1. dep' = [dep EXCEPT !.obs = dep.gen, !.updated = up, !.available = dep.pod.available,
                           !.stalled = st]
    BY <1>5 DEF ReportDeployment, DeploymentChanges
  <2> HIDE DEF up, st
  <2>2. /\ dep'.live = dep.live /\ dep'.owner = dep.owner
        /\ dep'.template = dep.template /\ dep'.gen = dep.gen
        /\ dep'.pod = dep.pod /\ dep'.updated = up
    BY <1>0, <2>1 DEF Deployments
  <2> QED
    BY <2>2 DEF up
<1>6. CASE RolloutStalls
  <2>1. dep' = [dep EXCEPT !.stalled = TRUE]
    BY <1>6 DEF RolloutStalls, DeploymentChanges
  <2>2. /\ dep'.live = dep.live /\ dep'.owner = dep.owner
        /\ dep'.template = dep.template /\ dep'.gen = dep.gen
        /\ dep'.obs = dep.obs /\ dep'.updated = dep.updated /\ dep'.pod = dep.pod
    BY <1>0, <2>1 DEF Deployments
  <2> QED
    BY <2>2
<1>7. CASE UNCHANGED dep
  BY <1>7
<1>8. CASE Collect /\ dep' # dep
  BY <1>8 DEF Collect
<1> QED
  BY <1>2, <1>3, <1>4, <1>5, <1>6, <1>7, <1>8, ObjectFrame

(* What reconcileDeployment makes of it.                                   *)
LEMMA ApplyDeployment ==
    ASSUME TypeInv, ReportInv, ReconcileDeployment, Adoptable(dep)
    PROVE  /\ dep'.live /\ dep'.owner = authn.uid /\ dep'.template = Template(authn.spec)
           /\ ReportInv'
<1>0. /\ dep \in Deployments /\ dep.obs <= dep.gen /\ dep.obs \in Nat /\ dep.gen \in Nat
  BY TypeParts DEF TypeInv, DeploymentPart, Deployments
<1>1. CASE ~dep.live
  <2> DEFINE t == Template(authn.spec)
             u == authn.uid
  <2>1. dep' = [NoDeployment EXCEPT !.live = TRUE, !.owner = u, !.gen = 1, !.template = t]
    BY <1>1 DEF ReconcileDeployment
  <2> HIDE DEF t, u
  <2>2. dep'.live /\ dep'.owner = u /\ dep'.template = t /\ dep'.obs = 0 /\ dep'.gen = 1
    BY <2>1 DEF NoDeployment
  <2> QED
    BY <2>2 DEF ReportInv, t, u
<1>2. CASE dep.live /\ dep.template = Template(authn.spec)
  <2> DEFINE u == authn.uid
  <2>1. dep' = [dep EXCEPT !.owner = u]
    BY <1>2 DEF ReconcileDeployment
  <2> HIDE DEF u
  <2>2. /\ dep'.live = dep.live /\ dep'.owner = u /\ dep'.template = dep.template
        /\ dep'.obs = dep.obs /\ dep'.gen = dep.gen /\ dep'.updated = dep.updated
        /\ dep'.pod = dep.pod
    BY <1>0, <2>1 DEF Deployments
  <2> QED
    BY <1>2, <2>2 DEF ReportInv, u
<1>3. CASE dep.live /\ dep.template # Template(authn.spec)
  <2> DEFINE t == Template(authn.spec)
             u == authn.uid
             g == dep.gen + 1
  <2>1. dep' = [dep EXCEPT !.owner = u, !.gen = g, !.template = t]
    BY <1>3 DEF ReconcileDeployment
  <2>2. dep.obs # g
    BY <1>0
  <2> HIDE DEF t, u, g
  <2>3. /\ dep'.live = dep.live /\ dep'.owner = u /\ dep'.template = t
        /\ dep'.obs = dep.obs /\ dep'.gen = g
    BY <1>0, <2>1 DEF Deployments
  <2> QED
    BY <1>3, <2>2, <2>3 DEF ReportInv, t, u
<1> QED
  BY <1>1, <1>2, <1>3

LEMMA ReportStep == ReadyInv /\ [Next]_vars => ReportInv'
<1> SUFFICES ASSUME ReadyInv, [Next]_vars PROVE ReportInv'
  OBVIOUS
<1>0. TypeInv /\ ReportInv
  BY DEF ReadyInv, ReleaseInv
<1>1. CASE ReconcileDeployment
  <2>1. CASE ~Adoptable(dep)
    <3>1. dep' = dep
      BY <1>1, <2>1 DEF ReconcileDeployment
    <3> QED
      BY <1>0, <3>1 DEF ReportInv
  <2> QED
    BY <1>0, <1>1, <2>1, ApplyDeployment
<1>2. CASE ~ReconcileDeployment
  <2>1. ~NoDeployment.updated
    BY DEF NoDeployment
  <2> QED
    BY <1>0, <1>2, <2>1, DeploymentMoves DEF ReportInv
<1> QED
  BY <1>1, <1>2

LEMMA GenerationStep == ReadyInv /\ [Next]_vars => GenerationInv'
<1> SUFFICES ASSUME ReadyInv, [Next]_vars PROVE GenerationInv'
  OBVIOUS
<1>0. TypeInv /\ GenerationInv /\ CRType(authn, history.uids) /\ history.uids \in Nat
  BY TypeParts DEF ReadyInv, ReleaseInv, TypeInv, CRPart
<1>1. cr.gen \in Nat /\ ccr.gen \in Nat /\ authn.gen \in Nat
  BY <1>0, FieldTypes DEF CRs
<1>2. CASE Begin
  BY <1>0, <1>2 DEF Begin, GenerationInv, crs
<1>3. CASE EnsureFinalizer
  <2>1. SetReady(authn, "Failed").uid = authn.uid /\ SetReady(authn, "Failed").spec = authn.spec
        /\ SetReady(authn, "Failed").gen = authn.gen
    BY <1>0, ErrorStatus
  <2> QED
    BY <1>0, <1>1, <1>3, <2>1, EnsureMoves DEF GenerationInv
<1>4. CASE ReconcilePersistence
  <2>1. authn'.uid = authn.uid /\ authn'.spec = authn.spec /\ authn'.gen = authn.gen
    BY <1>0, <1>4, ErrorStatus DEF ReconcilePersistence, Fail, Goto
  <2> QED
    BY <1>0, <1>4, <2>1 DEF ReconcilePersistence, GenerationInv, crs
<1>5. CASE UpdateStatus
  <2>1. NoCR.uid = 0
    BY DEF NoCR
  <2> QED
    BY <1>0, <1>5, <2>1, StatusMoves DEF GenerationInv
<1>6. CASE RetainPVC
  BY <1>0, <1>6, CleanMoves DEF GenerationInv
<1>7. CASE RemoveFinalizer
  <2>1. NoCR.uid = 0
    BY DEF NoCR
  <2>2. LET c == SetReady(authn, "CleanupFailed")
        IN  c.uid = authn.uid /\ c.spec = authn.spec /\ c.gen = authn.gen
    BY <1>0, ErrorStatus
  <2> QED
    BY <1>0, <1>7, <2>1, <2>2, RemoveMoves, GoneMoves DEF GenerationInv
<1>8. CASE UserActs
  BY <1>0, <1>1, <1>8, UserMoves, GoneMoves, FieldTypes DEF GenerationInv
<1>9. CASE SyncCR
  BY <1>0, <1>1, <1>9 DEF SyncCR, GenerationInv, run
<1>10. CASE SyncClaim
  BY <1>0, <1>10, SyncMoves DEF GenerationInv
<1>11. CASE Collect
  BY <1>0, <1>11 DEF Collect, GenerationInv, crs, run
<1>12. CASE \/ ReconcileConfigMap \/ ReconcileServices \/ ReconcileTLSCertificate
            \/ ReconcileDeployment \/ Fault
  BY <1>0, <1>12, ApplyMoves DEF GenerationInv
<1>13. CASE UNCHANGED <<cr, ccr, pc, authn, claim, cclaim, history>>
  BY <1>0, <1>13 DEF GenerationInv
<1> QED
  BY <1>2, <1>3, <1>4, <1>5, <1>6, <1>7, <1>8, <1>9, <1>10, <1>11, <1>12, <1>13, ReleaseFrame

LEMMA VouchStep == ReadyInv /\ [Next]_vars => VouchInv'
<1> SUFFICES ASSUME ReadyInv, [Next]_vars, pc' = "status", authn'.st.reason = "Available"
             PROVE  VouchInv'
  BY DEF VouchInv
<1>0. /\ TypeInv /\ ReportInv /\ VouchInv /\ CacheInv /\ RunInv
      /\ CRType(authn, history.uids) /\ history.uids \in Nat
  BY TypeParts DEF ReadyInv, ReleaseInv, TypeInv, CRPart
<1>1. ~Fail /\ ~CleanupFails
  <2>1. SetReady(authn, "Failed").st.reason = "Failed"
        /\ SetReady(authn, "CleanupFailed").st.reason = "CleanupFailed"
    BY <1>0, ErrorStatus
  <2> QED
    BY <2>1 DEF Fail, CleanupFails
<1>2. CASE ReconcileDeployment
  <2>1. /\ Adoptable(dep) /\ authn' = SetReady(authn, ReasonFromDeployment(dep'))
        /\ pc = "deployment" /\ UNCHANGED cr
    BY <1>1, <1>2 DEF ReconcileDeployment, crs
  <2>2. /\ dep'.live /\ dep'.owner = authn.uid /\ dep'.template = Template(authn.spec)
        /\ ReportInv'
    BY <1>0, <1>2, <2>1, ApplyDeployment
  <2>3. /\ authn'.uid = authn.uid /\ authn'.spec = authn.spec /\ authn'.gen = authn.gen
        /\ authn'.st.reason = ReasonFromDeployment(dep') /\ authn'.st.rgen = authn.gen
    BY <1>0, <2>1, ReasonType, SetReadyType
  <2>4. IsRolloutComplete(dep')
    BY <2>3 DEF ReasonFromDeployment, RolloutPending
  <2>5. dep'.obs \in Nat /\ dep'.gen \in Nat /\ dep'.obs <= dep'.gen
    BY <1>0, DeploymentType DEF Deployments
  <2>6. dep'.obs = dep'.gen /\ dep'.updated
    BY <2>4, <2>5 DEF IsRolloutComplete
  <2>7. authn.uid = cr.uid /\ cr.fin
    BY <1>0, <2>1 DEF RunInv, Applying
  <2> QED
    BY <2>1, <2>2, <2>3, <2>6, <2>7 DEF VouchInv, ReportInv
<1>3. CASE UNCHANGED run /\ ~ReconcileDeployment
  <2>1. /\ authn.uid = cr.uid /\ cr.fin /\ authn.st.rgen = authn.gen
        /\ dep.live /\ dep.owner = authn.uid /\ dep.template = Template(authn.spec)
        /\ dep.pod.exists => dep.pod.template = dep.template
    BY <1>0, <1>3 DEF VouchInv, run
  <2>2. ~Orphaned(dep)
    BY <2>1 DEF Orphaned
  <2>3. /\ dep'.live /\ dep'.owner = authn.uid /\ dep'.template = Template(authn.spec)
        /\ dep'.pod.exists => dep'.pod.template = dep'.template
    BY <1>0, <1>3, <2>1, <2>2, DeploymentMoves
  <2>4. cr'.uid = cr.uid /\ cr'.fin
    <3>1. CASE UserActs
      BY <1>0, <2>1, <3>1, UserMoves, FieldTypes DEF CacheInv
    <3>2. CASE EnsureFinalizer \/ UpdateStatus \/ RemoveFinalizer
      BY <1>3, <3>2 DEF EnsureFinalizer, Fail, UpdateStatus, RemoveFinalizer, CleanupFails, run
    <3> QED
      BY <2>1, <3>1, <3>2, CRFrame
  <2> QED
    BY <1>3, <2>1, <2>3, <2>4 DEF VouchInv, run
<1>4. CASE /\ Reconciler \/ Fault
           /\ ~ReconcileDeployment
  <2>1. Fault => Fail
    BY DEF Fault
  <2> QED
    BY <1>1, <1>4, <2>1 DEF Reconciler, Begin, EnsureFinalizer, ReconcileConfigMap,
        ReconcilePersistence, ReconcileServices, ReconcileService, ReconcileTLSCertificate,
        UpdateStatus, RetainPVC, RemoveFinalizer, Goto
<1> QED
  BY <1>2, <1>3, <1>4, RunFrame

LEMMA ReadyInvInit == Init => ReadyInv
<1> SUFFICES ASSUME Init PROVE ReadyInv
  OBVIOUS
<1>1. ReleaseInv /\ ccr = cr /\ pc = "idle" /\ authn = NoCR
  BY ReleaseInvInit DEF Init
<1>2. VouchInv
  BY <1>1 DEF VouchInv
<1>3. GenerationInv
  <2>1. cr.gen \in Nat /\ NoCR.uid = 0
    BY <1>1, FieldTypes DEF ReleaseInv, CRs, NoCR
  <2> QED
    BY <1>1, <2>1 DEF GenerationInv
<1>4. ReportInv
  <2>1. CASE InitEmpty
    BY <2>1 DEF InitEmpty, ReportInv, NoDeployment
  <2>2. ASSUME NEW spec, InitSettled(spec)
        PROVE  ReportInv
    BY <2>2 DEF InitSettled, ReportInv
  <2> QED
    BY <2>1, <2>2 DEF Init
<1> QED
  BY <1>1, <1>2, <1>3, <1>4 DEF ReadyInv

LEMMA ReadyInvStep == ReadyInv /\ [Next]_vars => ReadyInv'
BY ReleaseInvStep, ReportStep, GenerationStep, VouchStep DEF ReadyInv

(* Only updateStatus makes Ready True.                                     *)
LEMMA ReadyComesFromStatus ==
    ASSUME TypeInv, [Next]_vars, TurnsReady
    PROVE  UpdateStatus
<1>1. NoCR.uid = 0 /\ NoStatus.reason = ""
  BY DEF NoCR, NoStatus
<1>2. ASSUME UserActs PROVE FALSE
  BY <1>1, <1>2, UserMoves DEF TurnsReady
<1>3. ASSUME EnsureFinalizer PROVE FALSE
  BY <1>3, EnsureMoves DEF TurnsReady
<1>4. ASSUME RemoveFinalizer PROVE FALSE
  BY <1>1, <1>4, RemoveMoves DEF TurnsReady, Gone
<1> QED
  BY <1>2, <1>3, <1>4, CRFrame DEF TurnsReady

(***************************************************************************)
(* THEOREM.  When Ready turns True for the current generation, the         *)
(* Deployment has the template of the current spec and no pod of an        *)
(* earlier one runs, for any edits during the reconcile and any lag of the *)
(* Deployment's status: the status is up to date with the generation that  *)
(* Apply returned, and the finalizer keeps the CR and the Deployment until *)
(* the patch (isRolloutComplete, reconcileDeployment, updateStatus).       *)
(***************************************************************************)
THEOREM ReadyVouches == Spec => ReadyMeansRolled
<1>1. ReadyInv /\ [Next]_vars =>
        [TurnsReady => /\ dep.live => dep.template = Template(cr.spec)
                       /\ dep.pod.exists => dep.pod.template = Template(cr.spec)]_vars
  <2> SUFFICES ASSUME ReadyInv, [Next]_vars, TurnsReady
               PROVE  /\ dep.live => dep.template = Template(cr.spec)
                      /\ dep.pod.exists => dep.pod.template = Template(cr.spec)
    OBVIOUS
  <2>0. TypeInv /\ VouchInv /\ GenerationInv
    BY DEF ReadyInv, ReleaseInv
  <2>1. UpdateStatus
    BY <2>0, ReadyComesFromStatus
  <2>2. pc = "status" /\ cr'.gen = cr.gen /\ cr'.uid = cr.uid
        /\ cr'.st = Patched(cr.st, base, NewStatus(authn))
    BY <2>0, <2>1, StatusMoves DEF TurnsReady
  <2>3. NewStatus(authn).reason = authn.st.reason /\ NewStatus(authn).rgen = authn.st.rgen
    <3>1. authn.st \in Statuses
      BY <2>0, FieldTypes DEF CRs
    <3> QED
      BY <3>1 DEF NewStatus, Statuses
  <2>4. authn.st.reason = "Available" /\ authn.st.rgen = cr.gen
    BY <2>2, <2>3 DEF Patched, TurnsReady
  <2>5. authn.uid = cr.uid /\ authn.gen = cr.gen /\ cr.uid # 0
    BY <2>0, <2>2, <2>4 DEF VouchInv, TurnsReady
  <2>6. authn.spec = cr.spec
    BY <2>0, <2>5 DEF GenerationInv
  <2> QED
    BY <2>0, <2>2, <2>4, <2>6 DEF VouchInv
<1> QED
  BY <1>1, ReadyInvInit, ReadyInvStep, PTL DEF Spec, ReadyMeansRolled
=============================================================================
