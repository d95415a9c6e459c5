---------------------------- MODULE AuthController ----------------------------
(***************************************************************************)
(* The controller of AIStoreAuth: the finalizer, the objects it applies    *)
(* for the AuthN server (ConfigMap, claim, Services, Certificate,          *)
(* Deployment), the Ready condition, and what becomes of the data when the *)
(* CR goes.                                                                *)
(*                                                                         *)
(* The CR, the claim and the Services are read from caches that lag.  Each *)
(* write to the API server is a step, and may fail.  Of the manifests the  *)
(* model keeps what a later step or another actor depends on.  The API     *)
(* server, the garbage collector, the Deployment controller and the load   *)
(* balancer are external.                                                  *)
(***************************************************************************)
EXTENDS Integers, Sequences

CONSTANTS
    Confs,      \* contents of authn.json; "invalid" fails its validation
    Scenarios,  \* from: the spec of a CR that is settled, NoSpec without one;
                \* todo: what the user does, specs that are applied, NoSpec a delete;
                \* outages: how often the Secret goes or returns, all in all;
                \* bounds: faults, writes that fail; drifts, Services that others
                \* change; crashes, pods that are lost and rollouts that stall
    NoSpec

Optional == {"nodeport", "lb"}
Services == {"cluster"} \cup Optional

(* The parts of AIStoreAuthSpec that the objects depend on.                *)
Specs ==
    [conf   : Confs \cup {"invalid"},
     claim  : {"class", "volume", "none"},   \* where the claim gets its volume
     policy : {"Retain", "Delete"},
     access : SUBSET Optional,               \* spec.externalAccess
     tls    : {"none", "secret", "cert", "csi"},
     secret : BOOLEAN]                       \* adminSecret, hmacSecret or rsaPassphraseSecret

ASSUME AuthScenarioAssumption ==
    /\ NoSpec \notin Specs
    /\ \A s \in Scenarios :
        /\ s.from = NoSpec \/ (s.from \in Specs /\ s.from.conf # "invalid")
        /\ s.todo \in Seq(Specs \cup {NoSpec})
        /\ {s.faults, s.drifts, s.crashes, s.outages} \subseteq Nat

(* AIStoreAuthStatus: why Ready is what it is ("Available": it is True),   *)
(* for which generation, and the URL.                                      *)
Reasons == {"", "Available", "Unavailable", "DeadlineExceeded", "Failed", "CleanupFailed"}
Statuses == [reason : Reasons, rgen : Nat, obs : Nat, url : {"", "http", "https"}]

NoStatus == [reason |-> "", rgen |-> 0, obs |-> 0, url |-> ""]
NoCR == [uid |-> 0, gen |-> 0, del |-> FALSE, fin |-> FALSE, spec |-> NoSpec, st |-> NoStatus]

(* Owners are UIDs of CRs, 0 for none.                                     *)
NoClaim == [live |-> FALSE, owner |-> 0, kind |-> "none"]
NoService(id) == [live |-> FALSE, owner |-> 0, id |-> id, addr |-> FALSE]
NoCert == [live |-> FALSE, owner |-> 0, lb |-> FALSE]
NoPod == [exists |-> FALSE, template |-> <<>>, available |-> FALSE]
NoDeployment ==
    [live |-> FALSE, owner |-> 0, gen |-> 0, template |-> <<>>, pod |-> NoPod,
     obs |-> 0, updated |-> FALSE, available |-> FALSE, stalled |-> FALSE]

VARIABLES
    todo,     \* what the user has yet to do
    secret,   \* live: the caches show the Secrets that specs refer to;
              \* outages: how often that may still change
    cr,       \* the CR in the API server
    ccr,      \* the CR in the cache
    config,   \* the content of the ConfigMap, "" before it exists
    claim,    \* the claim: live, owner, kind
    cclaim,   \* the claim in the cache
    svc,      \* the Services: live, owner, incarnation, load balancer address
    csvc,     \* the optional Services in the cache
    cert,     \* the Certificate: live, owner, whether it names the address
    dep,      \* the Deployment: spec, status and pod
    pc,       \* the next step of the running reconcile
    authn,    \* the CR in its memory
    base,     \* the status the patch is computed against
    queued,   \* a request is in the work queue
    faults, drifts, crashes,
    history   \* uids: given so far.  kept: CRs that went with policy Retain.
              \* shown: CRs shown by the cache to own the claim, before
              \* it showed their deletion.

crs == <<cr, ccr>>
objects == <<config, claim, svc, cert, dep>>
caches == <<cclaim, csvc>>
run == <<pc, authn, base>>
bounds == <<faults, drifts, crashes>>
vars == <<todo, secret, crs, objects, caches, run, queued, bounds, history>>

(* The objects.                                                            *)
CRs == [uid : Nat, gen : Nat, del : BOOLEAN, fin : BOOLEAN, spec : Specs \cup {NoSpec},
        st : Statuses]
Claims == [live : BOOLEAN, owner : Nat, kind : {"class", "volume", "none"}]
ServiceObjects == [live : BOOLEAN, owner : Nat, id : Nat, addr : BOOLEAN]
Certs == [live : BOOLEAN, owner : Nat, lb : BOOLEAN]
Templates ==
    {<<>>} \cup ((Confs \cup {"invalid"}) \X {"none", "secret", "cert", "csi"} \X BOOLEAN)
Deployments ==
    [live : BOOLEAN, owner : Nat, gen : Nat, template : Templates,
     pod : [exists : BOOLEAN, template : Templates, available : BOOLEAN],
     obs : Nat, updated : BOOLEAN, available : BOOLEAN, stalled : BOOLEAN]

(* The types of the state; a UID is one that was given to a CR, and only a *)
(* CR that exists has a spec.                                              *)
TypeOK ==
    /\ todo \in Seq(Specs \cup {NoSpec})
    /\ secret \in [live : BOOLEAN, outages : Nat]
    /\ \A c \in {cr, ccr, authn} :
        c \in CRs /\ c.uid <= history.uids /\ (c.uid = 0 <=> c.spec = NoSpec)
    /\ config \in Confs \cup {""}
    /\ \A c \in {claim, cclaim} : c \in Claims /\ c.owner <= history.uids
    /\ svc \in [Services -> ServiceObjects] /\ csvc \in [Optional -> ServiceObjects]
    /\ \A n \in Services : svc[n].owner <= history.uids
    /\ \A n \in Optional : csvc[n].owner <= history.uids
    /\ cert \in Certs /\ cert.owner <= history.uids
    /\ dep \in Deployments /\ dep.owner <= history.uids /\ dep.obs <= dep.gen
    /\ pc \in {"idle", "finalizer", "config", "claim", "cluster", "nodeport", "lb", "cert",
               "deployment", "status", "retain", "release"}
    /\ base \in Statuses /\ queued \in BOOLEAN
    /\ {faults, drifts, crashes} \subseteq Nat
    /\ history \in [uids : Nat, kept : SUBSET Nat, shown : SUBSET Nat]
    /\ history.kept \subseteq 1..history.uids /\ history.shown \subseteq 1..history.uids

-----------------------------------------------------------------------------
(***************************************************************************)
(* The manifests.                                                          *)
(***************************************************************************)
HasTLSEnabled(spec) == spec.tls # "none"
UseTLSCertificate(spec) == spec.tls = "cert"
ShouldDeletePVC(spec) == spec.policy = "Delete"

(* ServiceURL *)
ServiceURL(spec) == IF HasTLSEnabled(spec) THEN "https" ELSE "http"

(* Mutation: the config is not validated.                                  *)
MutantRenders(spec) == TRUE

(* renderAuthnJSON, GenerateConfig: the config is validated.               *)
Renders(spec) == spec.conf # "invalid"

(* NewPVC: a claim names a storage class or a volume.                      *)
HasPVC(spec) == spec.claim # "none"

(* NewService, NewNodePortService, NewLoadBalancerService                  *)
Wanted(n, spec) == n = "cluster" \/ n \in spec.access

(* NewDeployment: the checksum of authn.json, which has the TLS settings   *)
(* too, and the pod with its TLS volume and the env from the Secrets.      *)
Template(spec) == <<spec.conf, spec.tls, spec.secret>>

(* The webhook of AIStoreAuth: each create and update, finalizer patches   *)
(* included, needs the Secrets, also while the CR is terminating.  Deletes *)
(* and patches of the status are not validated.                            *)
Validate(spec) == spec # NoSpec /\ spec.secret => secret.live

(* Mutation: the status of an earlier generation is taken at face value.   *)
MutantIsRolloutComplete(d) == d.updated /\ d.available

(* isRolloutComplete *)
IsRolloutComplete(d) ==
    /\ d.obs >= d.gen
    /\ d.updated
    /\ d.available

(* isProgressDeadlineExceeded, rolloutPending                              *)
RolloutPending(d) ==
    IF d.obs >= d.gen /\ d.stalled THEN "DeadlineExceeded" ELSE "Unavailable"

(* setReadyFromDeployment *)
ReasonFromDeployment(d) ==
    IF IsRolloutComplete(d) THEN "Available" ELSE RolloutPending(d)

(* setReadyCondition *)
SetReady(c, reason) == [c EXCEPT !.st.reason = reason, !.st.rgen = c.gen]

-----------------------------------------------------------------------------
(* Before the first CR.                                                    *)
InitEmpty ==
    /\ cr = NoCR /\ config = ""
    /\ claim = NoClaim /\ svc = [n \in Services |-> NoService(0)]
    /\ cert = NoCert /\ dep = NoDeployment
    /\ history = [uids |-> 0, kept |-> {}, shown |-> {}]

(* A CR that has been reconciled.                                          *)
InitSettled(spec) ==
    /\ cr = [uid |-> 1, gen |-> 1, del |-> FALSE, fin |-> TRUE, spec |-> spec,
             st |-> [reason |-> "Available", rgen |-> 1, obs |-> 1, url |-> ServiceURL(spec)]]
    /\ config = spec.conf
    /\ claim = [live |-> TRUE, owner |-> 1, kind |-> spec.claim]
    /\ svc = [n \in Services |->
                IF Wanted(n, spec)
                THEN [live |-> TRUE, owner |-> 1, id |-> 1, addr |-> n = "lb"]
                ELSE NoService(0)]
    /\ cert = IF UseTLSCertificate(spec)
              THEN [live |-> TRUE, owner |-> 1, lb |-> "lb" \in spec.access] ELSE NoCert
    /\ dep = [live |-> TRUE, owner |-> 1, gen |-> 1, template |-> Template(spec),
              pod |-> [exists |-> TRUE, template |-> Template(spec), available |-> TRUE],
              obs |-> 1, updated |-> TRUE, available |-> TRUE, stalled |-> FALSE]
    /\ history = [uids |-> 1, kept |-> {}, shown |-> {1}]

Init ==
    /\ \E s \in Scenarios :
        /\ todo = s.todo /\ secret = [live |-> TRUE, outages |-> s.outages]
        /\ faults = s.faults /\ drifts = s.drifts /\ crashes = s.crashes
        /\ IF s.from = NoSpec THEN InitEmpty ELSE InitSettled(s.from)
    /\ ccr = cr /\ cclaim = claim /\ csvc = [n \in Optional |-> svc[n]]
    /\ pc = "idle" /\ authn = NoCR /\ base = NoStatus /\ queued = FALSE

-----------------------------------------------------------------------------
(***************************************************************************)
(* Server-side apply, with force.  An object without a controller is       *)
(* adopted; one with another controller is refused.                        *)
(***************************************************************************)
Adoptable(o) == o.owner \in {0, authn.uid}

-----------------------------------------------------------------------------
(***************************************************************************)
(* The reconcile.                                                          *)
(***************************************************************************)
(* Reconcile: the CR comes from the cache.                                 *)
Begin ==
    /\ pc = "idle" /\ queued
    /\ queued' = FALSE
    /\ authn' = ccr /\ base' = ccr.st
    /\ pc' = IF ccr.uid = 0 THEN "idle"
             ELSE IF ccr.del THEN (IF ccr.fin THEN "retain" ELSE "idle")
             ELSE IF ccr.fin THEN "config" ELSE "finalizer"
    /\ UNCHANGED <<todo, secret, crs, objects, caches, bounds, history>>

Goto(step) == pc' = step /\ UNCHANGED <<authn, base, queued>>

(* recordError, and the error that Reconcile returns.                      *)
Fail ==
    /\ pc' = "status" /\ authn' = SetReady(authn, "Failed")
    /\ queued' = TRUE
    /\ UNCHANGED base

(* A step whose write the API server does not take.                        *)
Fault ==
    /\ pc \in {"finalizer", "config", "claim", "cluster", "nodeport", "lb", "cert", "deployment"}
    /\ faults > 0 /\ faults' = faults - 1
    /\ Fail
    /\ UNCHANGED <<todo, secret, crs, objects, caches, drifts, crashes, history>>

(* ensureFinalizer: the patch names no UID and no version; its answer is   *)
(* the live CR, which replaces the cached one.  One that is already being  *)
(* deleted has the finalizer: the patch changes nothing and succeeds.      *)
EnsureFinalizer ==
    /\ pc = "finalizer"
    /\ IF cr.uid # 0 /\ Validate(cr.spec)
       THEN /\ cr' = [cr EXCEPT !.fin = TRUE]
            /\ authn' = cr' /\ base' = cr.st /\ pc' = "config"
            /\ UNCHANGED <<ccr, queued>>
       ELSE Fail /\ UNCHANGED crs
    /\ UNCHANGED <<todo, secret, objects, caches, bounds, history>>

(* reconcileConfigMap *)
ReconcileConfigMap ==
    /\ pc = "config"
    /\ IF Renders(authn.spec)
       THEN config' = authn.spec.conf /\ Goto("claim")
       ELSE Fail /\ UNCHANGED config
    /\ UNCHANGED <<todo, secret, crs, claim, svc, cert, dep, caches, bounds, history>>

(* reconcilePersistence: where the volume comes from cannot be changed.    *)
ReconcilePersistence ==
    /\ pc = "claim"
    /\ IF HasPVC(authn.spec) /\ Adoptable(claim) /\ (claim.live => claim.kind = authn.spec.claim)
       THEN /\ claim' = [live |-> TRUE, owner |-> authn.uid, kind |-> authn.spec.claim]
            /\ Goto("cluster")
       ELSE Fail /\ UNCHANGED claim
    /\ UNCHANGED <<todo, secret, crs, config, svc, cert, dep, caches, bounds, history>>

(* Mutation: the delete goes by name.                                      *)
MutantMayDelete(n) == TRUE

(* deleteOwnedService: the delete is for the incarnation in the cache.     *)
MayDelete(n) == svc[n].live => svc[n].id = csvc[n].id

(* applyOrDeleteService *)
ReconcileService(n, next) ==
    /\ pc = n
    /\ LET deletes == n \in Optional /\ csvc[n].live /\ csvc[n].owner = authn.uid
       IN  IF Wanted(n, authn.spec)
           THEN IF Adoptable(svc[n])
                THEN /\ svc' = [svc EXCEPT ![n] =
                                   IF @.live THEN [@ EXCEPT !.owner = authn.uid]
                                   ELSE [live |-> TRUE, owner |-> authn.uid,
                                         id |-> @.id + 1, addr |-> FALSE]]
                     /\ Goto(next)
                ELSE Fail /\ UNCHANGED svc
           ELSE IF deletes /\ ~MayDelete(n) THEN Fail /\ UNCHANGED svc
           ELSE /\ svc' = IF deletes THEN [svc EXCEPT ![n] = NoService(@.id)] ELSE svc
                /\ Goto(next)
    /\ UNCHANGED <<todo, secret, crs, config, claim, cert, dep, caches, bounds, history>>

ReconcileServices ==
    \/ ReconcileService("cluster", "nodeport")
    \/ ReconcileService("nodeport", "lb")
    \/ ReconcileService("lb", "cert")

(* loadBalancerEndpoints: the addresses of the Service in the cache.       *)
LoadBalancerEndpoints(spec) ==
    "lb" \in spec.access /\ csvc["lb"].live /\ csvc["lb"].addr

(* reconcileTLSCertificate: a certificate that is not used is deleted by   *)
(* its name, whoever owns it.                                              *)
ReconcileTLSCertificate ==
    /\ pc = "cert"
    /\ IF ~UseTLSCertificate(authn.spec) THEN cert' = NoCert /\ Goto("deployment")
       ELSE IF Adoptable(cert)
       THEN /\ cert' = [live |-> TRUE, owner |-> authn.uid,
                        lb |-> LoadBalancerEndpoints(authn.spec)]
            /\ Goto("deployment")
       ELSE Fail /\ UNCHANGED cert
    /\ UNCHANGED <<todo, secret, crs, config, claim, svc, dep, caches, bounds, history>>

(* reconcileDeployment: Ready comes from the Deployment that Apply returns.*)
ReconcileDeployment ==
    /\ pc = "deployment"
    /\ IF Adoptable(dep)
       THEN /\ dep' = IF ~dep.live
                      THEN [NoDeployment EXCEPT !.live = TRUE, !.owner = authn.uid,
                                !.gen = 1, !.template = Template(authn.spec)]
                      ELSE IF dep.template = Template(authn.spec)
                      THEN [dep EXCEPT !.owner = authn.uid]
                      ELSE [dep EXCEPT !.owner = authn.uid, !.gen = @ + 1,
                                !.template = Template(authn.spec)]
            /\ authn' = SetReady(authn, ReasonFromDeployment(dep'))
            /\ pc' = "status"
            /\ UNCHANGED <<base, queued>>
       ELSE Fail /\ UNCHANGED dep
    /\ UNCHANGED <<todo, secret, crs, config, claim, svc, cert, caches, bounds, history>>

(* MergeFrom: only what differs from base is sent, Ready as a whole.       *)
Patched(live, b, s) ==
    [reason |-> IF s.reason # b.reason \/ s.rgen # b.rgen THEN s.reason ELSE live.reason,
     rgen   |-> IF s.reason # b.reason \/ s.rgen # b.rgen THEN s.rgen ELSE live.rgen,
     obs    |-> IF s.obs # b.obs THEN s.obs ELSE live.obs,
     url    |-> IF s.url # b.url THEN s.url ELSE live.url]

(* Mutation: the URL goes out with the first status only.                  *)
MutantNewStatus(c) ==
    [c.st EXCEPT !.obs = c.gen, !.url = IF @ = "" THEN ServiceURL(c.spec) ELSE @]

(* updateStatus: the end of a reconcile, failed or not.                    *)
NewStatus(c) == [c.st EXCEPT !.obs = c.gen, !.url = ServiceURL(c.spec)]

UpdateStatus ==
    /\ pc = "status"
    /\ \/ /\ cr' = IF cr.uid = 0 THEN cr
                   ELSE [cr EXCEPT !.st = Patched(@, base, NewStatus(authn))]
          /\ UNCHANGED <<faults, queued>>
       \/ /\ faults > 0 /\ faults' = faults - 1
          /\ queued' = TRUE
          /\ UNCHANGED cr
    /\ pc' = "idle" /\ authn' = NoCR /\ base' = NoStatus
    /\ UNCHANGED <<todo, secret, ccr, objects, caches, drifts, crashes, history>>

-----------------------------------------------------------------------------
(***************************************************************************)
(* Deletion.                                                               *)
(***************************************************************************)
(* Mutation: the failure is recorded and the error not returned.           *)
MutantCleanupFails ==
    /\ pc' = "status" /\ authn' = SetReady(authn, "CleanupFailed")
    /\ UNCHANGED <<queued, base>>

(* recordCleanupFailure, and the error that Reconcile returns.             *)
CleanupFails ==
    /\ pc' = "status" /\ authn' = SetReady(authn, "CleanupFailed")
    /\ queued' = TRUE
    /\ UNCHANGED base

(* Mutation: the policy is read the wrong way around.                      *)
MutantReleases(spec) ==
    /\ ShouldDeletePVC(spec)
    /\ cclaim.live /\ cclaim.owner = authn.uid

(* retainPVC: whether there is a claim to release is decided by the cache. *)
Releases(spec) ==
    /\ ~ShouldDeletePVC(spec)
    /\ cclaim.live /\ cclaim.owner = authn.uid

RetainPVC ==
    /\ pc = "retain"
    /\ \/ /\ claim' = IF Releases(authn.spec) /\ claim.live
                      THEN [claim EXCEPT !.owner = 0] ELSE claim
          /\ Goto("release") /\ UNCHANGED faults
       \/ /\ Releases(authn.spec)
          /\ faults > 0 /\ faults' = faults - 1
          /\ CleanupFails /\ UNCHANGED claim
    /\ UNCHANGED <<todo, secret, crs, config, svc, cert, dep, caches, drifts, crashes, history>>

(* A CR goes; whether its claim was to be retained is noted.               *)
Gone ==
    /\ cr' = NoCR
    /\ history' = [history EXCEPT !.kept =
                      IF ShouldDeletePVC(cr.spec) THEN @ ELSE @ \cup {cr.uid}]

(* reconcileDeletion, its end: without finalizer a deleted CR goes.  The   *)
(* patch passes the webhook, which refuses it while a Secret is missing.   *)
RemoveFinalizer ==
    /\ pc = "release"
    /\ \/ /\ Validate(cr.spec)
          /\ IF cr.uid # 0 /\ cr.del THEN Gone
             ELSE cr' = [cr EXCEPT !.fin = FALSE] /\ UNCHANGED history
          /\ pc' = "idle" /\ authn' = NoCR /\ base' = NoStatus
          /\ UNCHANGED <<queued, faults>>
       \/ /\ \/ ~Validate(cr.spec) /\ UNCHANGED faults
             \/ faults > 0 /\ faults' = faults - 1
          /\ CleanupFails /\ UNCHANGED <<cr, history>>
    /\ UNCHANGED <<todo, secret, ccr, objects, caches, drifts, crashes>>

-----------------------------------------------------------------------------
(***************************************************************************)
(* The user.                                                               *)
(***************************************************************************)
(* A spec that is applied creates the CR or edits it, and is refused while *)
(* its Secret is missing; a CR that is being deleted is waited for.  A     *)
(* delete bumps the generation.                                            *)
UserActs ==
    /\ todo # <<>> /\ ~cr.del /\ Validate(Head(todo))
    /\ todo' = Tail(todo)
    /\ LET s == Head(todo)
       IN  IF s = NoSpec
           THEN IF cr.uid # 0 /\ cr.fin
                THEN cr' = [cr EXCEPT !.del = TRUE, !.gen = @ + 1] /\ UNCHANGED history
                ELSE IF cr.uid # 0 THEN Gone ELSE UNCHANGED <<cr, history>>
           ELSE IF cr.uid = 0
           THEN /\ history' = [history EXCEPT !.uids = @ + 1]
                /\ cr' = [NoCR EXCEPT !.uid = history'.uids, !.gen = 1, !.spec = s]
           ELSE cr' = [cr EXCEPT !.spec = s, !.gen = @ + 1] /\ UNCHANGED history
    /\ UNCHANGED <<secret, ccr, objects, caches, run, queued, bounds>>

(* Somebody deletes the Secrets or makes them again.                       *)
SecretChanges ==
    /\ secret.outages > 0
    /\ secret' = [live |-> ~secret.live, outages |-> secret.outages - 1]
    /\ UNCHANGED <<todo, crs, objects, caches, run, queued, bounds, history>>

-----------------------------------------------------------------------------
(***************************************************************************)
(* Caches and the watches of SetupWithManager: the CR and all that it owns.*)
(***************************************************************************)
SyncCR ==
    /\ ccr # cr /\ ccr' = cr
    /\ queued' = TRUE
    /\ UNCHANGED <<todo, secret, cr, objects, caches, run, bounds, history>>

SyncClaim ==
    /\ cclaim # claim /\ cclaim' = claim
    /\ queued' = TRUE
    /\ history' = [history EXCEPT !.shown = 
                      IF claim.owner = ccr.uid /\ ccr.uid # 0 /\ ~ccr.del THEN @ \cup {ccr.uid} ELSE @]
    /\ UNCHANGED <<todo, secret, crs, objects, csvc, run, bounds>>

(* The news is a Service of others under a name that was free.             *)
OnlyOthers(n) ==
    /\ svc[n].live /\ svc[n].owner = 0 /\ csvc[n].owner = 0
    /\ svc[n].id <= csvc[n].id + 1

SyncServices ==
    /\ csvc' = [n \in Optional |-> svc[n]] /\ csvc' # csvc
    /\ queued' = (queued \/ \E n \in Optional : svc[n] # csvc[n] /\ ~OnlyOthers(n))
    /\ UNCHANGED <<todo, secret, crs, objects, cclaim, run, bounds, history>>

-----------------------------------------------------------------------------
(***************************************************************************)
(* External: garbage collection, load balancer, Deployment controller.     *)
(***************************************************************************)
Orphaned(o) == o.live /\ o.owner # 0 /\ o.owner # cr.uid

Collect ==
    /\ \/ Orphaned(claim) /\ claim' = NoClaim /\ UNCHANGED <<svc, cert, dep>>
       \/ /\ \E n \in Services :
               Orphaned(svc[n]) /\ svc' = [svc EXCEPT ![n] = NoService(@.id)]
          /\ UNCHANGED <<claim, cert, dep>>
       \/ Orphaned(cert) /\ cert' = NoCert /\ UNCHANGED <<claim, svc, dep>>
       \/ Orphaned(dep) /\ dep' = NoDeployment /\ UNCHANGED <<claim, svc, cert>>
    /\ UNCHANGED <<todo, secret, crs, config, caches, run, queued, bounds, history>>

AssignAddress ==
    /\ svc["lb"].live /\ ~svc["lb"].addr
    /\ svc' = [svc EXCEPT !["lb"].addr = TRUE]
    /\ UNCHANGED <<todo, secret, crs, config, claim, cert, dep, caches, run, queued, bounds, history>>

(* Others delete a Service of the controller, or take a free name.         *)
OthersChangeService(n) ==
    /\ drifts > 0 /\ drifts' = drifts - 1
    /\ svc' = [svc EXCEPT ![n] =
                  IF @.live THEN NoService(@.id)
                  ELSE [live |-> TRUE, owner |-> 0, id |-> @.id + 1, addr |-> FALSE]]
    /\ svc[n].live => svc[n].owner # 0
    /\ UNCHANGED <<todo, secret, crs, config, claim, cert, dep, caches, run, queued, faults, crashes, history>>

DeploymentChanges(d) ==
    /\ dep' = d
    /\ UNCHANGED <<todo, secret, crs, config, claim, svc, cert, caches, run, faults, drifts, history>>

(* Recreate: the old pod goes before the new one comes.                    *)
StopOldPod ==
    /\ dep.pod.exists /\ dep.pod.template # dep.template
    /\ DeploymentChanges([dep EXCEPT !.pod = NoPod]) /\ UNCHANGED <<queued, crashes>>

StartPod ==
    /\ dep.live /\ ~dep.pod.exists
    /\ DeploymentChanges([dep EXCEPT !.pod = [exists |-> TRUE, template |-> dep.template,
                                              available |-> FALSE]])
    /\ UNCHANGED <<queued, crashes>>

(* A container whose env comes from a missing Secret does not start.       *)
PodAvailable ==
    /\ dep.pod.exists /\ ~dep.pod.available
    /\ dep.pod.template[3] => secret.live
    /\ DeploymentChanges([dep EXCEPT !.pod.available = TRUE]) /\ UNCHANGED <<queued, crashes>>

(* A pod is evicted, or its node is drained.                               *)
PodLost ==
    /\ crashes > 0 /\ crashes' = crashes - 1
    /\ dep.pod.exists
    /\ DeploymentChanges([dep EXCEPT !.pod = NoPod]) /\ UNCHANGED queued

(* The status of the Deployment; a change of it is an event.               *)
ReportDeployment ==
    /\ dep.live
    /\ LET d == [dep EXCEPT !.obs = dep.gen,
                    !.updated = dep.pod.exists /\ dep.pod.template = dep.template,
                    !.available = dep.pod.available,
                    !.stalled = dep.stalled /\ dep.obs = dep.gen /\ ~dep.pod.available]
       IN  d # dep /\ DeploymentChanges(d)
    /\ queued' = TRUE /\ UNCHANGED crashes

RolloutStalls ==
    /\ crashes > 0 /\ crashes' = crashes - 1
    /\ dep.live /\ dep.obs = dep.gen /\ ~dep.available /\ ~dep.pod.available /\ ~dep.stalled
    /\ DeploymentChanges([dep EXCEPT !.stalled = TRUE])
    /\ queued' = TRUE

-----------------------------------------------------------------------------
Reconciler ==
    \/ Begin \/ EnsureFinalizer \/ ReconcileConfigMap \/ ReconcilePersistence
    \/ ReconcileServices \/ ReconcileTLSCertificate \/ ReconcileDeployment
    \/ UpdateStatus \/ RetainPVC \/ RemoveFinalizer

Watches == SyncCR \/ SyncClaim \/ SyncServices

Next ==
    \/ Reconciler \/ Fault \/ UserActs \/ SecretChanges \/ Watches
    \/ Collect \/ AssignAddress \/ \E n \in Optional : OthersChangeService(n)
    \/ StopOldPod \/ StartPod \/ PodAvailable \/ PodLost \/ ReportDeployment \/ RolloutStalls

Spec == Init /\ [][Next]_vars

(* The work queue serves its requests, informers deliver, Kubernetes does  *)
(* its part.  Users and failures are free.                                 *)
FairSpec ==
    /\ Spec
    /\ WF_vars(Reconciler) /\ WF_vars(SyncCR) /\ WF_vars(SyncClaim) /\ WF_vars(SyncServices)
    /\ WF_vars(Collect) /\ WF_vars(AssignAddress)
    /\ WF_vars(StopOldPod) /\ WF_vars(StartPod) /\ WF_vars(PodAvailable)
    /\ WF_vars(ReportDeployment)

-----------------------------------------------------------------------------
(***************************************************************************)
(* Properties.                                                             *)
(***************************************************************************)
(* Ready turns True for the current generation.                            *)
TurnsReady ==
    /\ cr'.uid # 0
    /\ cr'.st.reason # cr.st.reason \/ cr'.st.rgen # cr.st.rgen
    /\ cr'.st.reason = "Available" /\ cr'.st.rgen = cr'.gen

(* Ready vouches for the generation it names: when it turns True for the   *)
(* current one, the Deployment has the template of the current spec, and   *)
(* no pod of an earlier template runs, though the status it is read from   *)
(* lags and the spec changes meanwhile (isRolloutComplete, updateStatus).  *)
ReadyMeansRolled ==
    [][TurnsReady => /\ dep.live => dep.template = Template(cr.spec)
                     /\ dep.pod.exists => dep.pod.template = Template(cr.spec)]_vars

(* The claim of a CR with policy Retain outlives it, if the cache showed   *)
(* its owner before it showed the deletion: it is released before the      *)
(* finalizer goes, whatever fails meanwhile (retainPVC, reconcileDeletion).*)
ShownClaimKept ==
    [][claim.live /\ ~claim'.live => claim.owner \notin history.kept \cap history.shown]_vars

(* A Service that another made under an optional name and the controller   *)
(* has not adopted is never deleted, not even by a delete that was decided *)
(* on the one before it (deleteOwnedService and its precondition).         *)
OtherServiceKept ==
    [][\A n \in Services : svc[n].live /\ svc[n].owner = 0 =>
            svc'[n].live /\ svc'[n].id = svc[n].id]_vars

(* A deleted CR goes, unless a Secret of its spec goes first: neither      *)
(* failed writes nor stale caches, nor earlier refusals of the webhook,    *)
(* hold the finalizer (reconcileDeletion, ValidateUpdate).  While a Secret *)
(* is missing the CR stays: the webhook makes no exception for it.         *)
DeletionCompletes ==
    (cr.del /\ Validate(cr.spec)) ~> (~cr.del \/ ~Validate(cr.spec))

(* A spec that no apply can satisfy.                                       *)
Unappliable ==
    \/ ~Renders(cr.spec) \/ ~HasPVC(cr.spec)
    \/ claim.live /\ claim.kind # cr.spec.claim

(* Every object is as the spec has it, and the status says so.             *)
Settled ==
    /\ cr.st = [reason |-> "Available", rgen |-> cr.gen, obs |-> cr.gen,
                url |-> ServiceURL(cr.spec)]
    /\ config = cr.spec.conf /\ claim.owner = cr.uid
    /\ \A n \in Services :
        IF Wanted(n, cr.spec) THEN svc[n].live /\ svc[n].owner = cr.uid
        ELSE svc[n].live => svc[n].owner = 0
    /\ cert.live = UseTLSCertificate(cr.spec)
    /\ cert.live => cert.owner = cr.uid /\ cert.lb = ("lb" \in cr.spec.access)
    /\ dep.owner = cr.uid /\ dep.template = Template(cr.spec) /\ dep.pod.available

(* A CR that stays settles: Ready for its last generation, or, where the   *)
(* spec cannot be applied or its Secret is missing, Ready False for it;    *)
(* with the right URL, though patches are computed against stale statuses, *)
(* and with the address of the load balancer in the certificate            *)
(* (SetupWithManager, updateStatus).                                       *)
AuthSettles ==
    <>[](cr.uid # 0 /\ ~cr.del =>
            \/ Settled
            \/ /\ Unappliable
               /\ cr.st = [reason |-> "Failed", rgen |-> cr.gen, obs |-> cr.gen,
                           url |-> ServiceURL(cr.spec)]
            \/ /\ ~Validate(cr.spec)
               /\ cr.st.reason \in {"Failed", "Unavailable", "DeadlineExceeded"}
               /\ cr.st.rgen = cr.gen /\ cr.st.obs = cr.gen
               /\ cr.st.url = ServiceURL(cr.spec))
=============================================================================
