------------------------------- MODULE Admission -------------------------------
(***************************************************************************)
(* The validating webhooks of AIStore, AIStoreAuth and AIStoreAuthProfile, *)
(* over sequences of submissions.  One object; its user creates, updates   *)
(* and deletes it, while what it refers to, and who may read that, changes.*)
(* The operator's own writes of an object, its finalizer, pass the same    *)
(* webhook.  The API server and RBAC are external.                         *)
(*                                                                         *)
(* An optional field is a set of at most one value.  Warnings reject       *)
(* nothing and are left out.                                               *)
(***************************************************************************)
EXTENDS Integers, FiniteSets

CONSTANTS
    Families,  \* kind: of the object; specs: what may be submitted for it;
               \* turns: references, with what changes of them meanwhile: "state",
               \* "grants" or "readable"
    Refs,      \* names of storage classes, profiles, secrets and config maps
    NoSpec

(* What the specs of each kind are made of, as far as a webhook looks.     *)
AIStoreSpecs ==
    [size : SUBSET Int, proxy : SUBSET Int, target : SUBSET Int,
     selectors : SUBSET {"proxy", "target"},
     storage : SUBSET [modes : SUBSET {"hostPath", "pvc", "emptyDir"}, class : Refs],
     legacyClass : SUBSET Refs, prefix : BOOLEAN, shutdown : BOOLEAN, ports : BOOLEAN,
     tls : BOOLEAN, certPaths : BOOLEAN, fixed : STRING, externalLB : BOOLEAN,
     profile : SUBSET Refs,
     password : SUBSET [own : Refs, other : Refs, ns : SUBSET STRING]]

AIStoreAuthSpecs == [admin : SUBSET Refs, hmac : SUBSET Refs, rsa : SUBSET Refs]

ProfileSpecs ==
    [url : BOOLEAN, endpoint : BOOLEAN, methods : SUBSET {"password", "exchange"},
     secret : SUBSET Refs, ca : SUBSET Refs]

ASSUME AdmissionFamilyAssumption ==
    \A f \in Families : /\ f.kind \in {"AIStore", "AIStoreAuth", "AIStoreAuthProfile"}
                        /\ f.turns \subseteq Refs \X {"state", "grants", "readable"}
                        /\ NoSpec \notin f.specs
                        /\ f.kind = "AIStore" => f.specs \subseteq AIStoreSpecs
                        /\ f.kind = "AIStoreAuth" => f.specs \subseteq AIStoreAuthSpecs
                        /\ f.kind = "AIStoreAuthProfile" => f.specs \subseteq ProfileSpecs

VARIABLES
    family,    \* what is submitted in this behaviour
    obj,       \* the object in the API server: exists, del, fin, spec
    seen,      \* the object as the operator knows it, which lags
    template,  \* classes of the claim template of the StatefulSets, if there are any
    state,     \* of each reference: "absent", "incomplete" or "complete"
    grants,    \* references that the user may get or use
    readable   \* references that the operator may get

vars == <<family, obj, seen, template, state, grants, readable>>

NoObject == [exists |-> FALSE, del |-> FALSE, fin |-> FALSE, spec |-> NoSpec]

(* The types of the state.                                                 *)
TypeOK ==
    /\ family \in Families
    /\ \A o \in {obj, seen} :
        /\ o \in [exists : BOOLEAN, del : BOOLEAN, fin : BOOLEAN,
                  spec : family.specs \cup {NoSpec}]
        /\ o.exists = (o.spec # NoSpec) /\ (o.del => o.fin) /\ (o.fin => o.exists)
    /\ Cardinality(template) <= 1
    /\ \A t \in template : t \subseteq Refs
    /\ state \in [Refs -> {"absent", "incomplete", "complete"}]
    /\ grants \subseteq Refs /\ readable \subseteq Refs

Init ==
    /\ family \in Families
    /\ obj = NoObject /\ seen = NoObject /\ template = {}
    /\ state = [r \in Refs |-> "complete"]
    /\ grants = Refs /\ readable = Refs

Exists(r) == state[r] # "absent"

-----------------------------------------------------------------------------
(***************************************************************************)
(* AIStore.                                                                *)
(***************************************************************************)
(* IsProxyAutoScaling, IsTargetAutoScaling: of a daemon kind d.            *)
IsAutoScaling(s, d) == -1 \in s.size \/ -1 \in s[d]

(* GetProxySize, GetTargetSize of a kind that is not autoscaled.           *)
GetSize(s, d) == IF s[d] # {} THEN s[d] ELSE s.size

(* StateStoragePVCStorageClass: stateStorage, else the legacy field.       *)
PVCStorageClass(s) ==
    IF s.storage = {} THEN s.legacyClass
    ELSE UNION {IF "pvc" \in m.modes THEN {m.class} ELSE {} : m \in s.storage}

UsesStateEmptyDir(s) == \E m \in s.storage : "emptyDir" \in m.modes

(* Mutation: the general size is checked only if both others are missing.  *)
MutantValidateSize(s) ==
    /\ \A d \in {"proxy", "target"} :
        (\A n \in s[d] : n > 0) \/ IsAutoScaling(s, d)
    /\ s.proxy = {} /\ s.target = {} => \E n \in s.size : n = -1 \/ n > 0

(* validateSize *)
ValidateSize(s) ==
    /\ \A d \in {"proxy", "target"} :
        (\A n \in s[d] : n > 0) \/ IsAutoScaling(s, d)
    /\ s.proxy = {} \/ s.target = {} => \E n \in s.size : n = -1 \/ n > 0

(* validateStateStorage, hasExactlyOneStateStorageMode                     *)
ValidateStateStorage(s) ==
    IF s.storage # {} THEN \A m \in s.storage : Cardinality(m.modes) = 1
    ELSE s.legacyClass # {} \/ s.prefix

(* validateShutdownWithEmptyDir *)
ValidateShutdownWithEmptyDir(s) == ~(UsesStateEmptyDir(s) /\ s.shutdown)

(* validateAutoScaling *)
ValidateAutoScaling(s) ==
    \A d \in {"proxy", "target"} : IsAutoScaling(s, d) => d \in s.selectors

(* validateServiceSpec: every port is a valid one.                         *)
ValidateServiceSpec(s) == s.ports

(* validateTLSCertPaths *)
ValidateTLSCertPaths(s) == ~(s.tls /\ s.certPaths)

(* ValidateSpec *)
ValidateSpec(s) ==
    /\ ValidateSize(s)
    /\ ValidateStateStorage(s)
    /\ ValidateShutdownWithEmptyDir(s)
    /\ ValidateAutoScaling(s)
    /\ ValidateServiceSpec(s)
    /\ ValidateTLSCertPaths(s)

(* verifyRequiredStorageClasses *)
VerifyRequiredStorageClasses(s) == \A c \in PVCStorageClass(s) : Exists(c)

(* authSecretNamespace: unset is the namespace of the cluster.  In this    *)
(* model the name of a secret in a namespace is a reference of its own.    *)
AuthSecret(s) == {IF u.ns = {} THEN u.own ELSE u.other : u \in s.password}

(* Mutation: the namespace of the secret is not compared.                  *)
MutantSecretUnchanged(prev, s) ==
    prev # NoSpec /\ prev.password # {} /\ s.password # {}

(* validateAuthSecret: a reference that does not change is not reviewed.   *)
SecretUnchanged(prev, s) ==
    prev # NoSpec /\ prev.password # {} /\ AuthSecret(prev) = AuthSecret(s)

ValidateAuthSecret(prev, s, allowed) ==
    SecretUnchanged(prev, s) \/ AuthSecret(s) \subseteq allowed

(* Mutation: every update is reviewed.                                     *)
MutantProfileUnchanged(prev, s) == FALSE

(* validateAuthProfile, validateAuthProfileExistence                       *)
ProfileUnchanged(prev, s) == prev # NoSpec /\ prev.profile = s.profile

ValidateAuthProfile(prev, s, allowed) ==
    \/ ProfileUnchanged(prev, s)
    \/ \A p \in s.profile : p \in allowed /\ Exists(p)

(* Mutation: a claim template may be introduced.                           *)
MutantValidateStateStorageUpdate(prev, s) ==
    PVCStorageClass(s) # {} /\ PVCStorageClass(prev) # {}
        => PVCStorageClass(s) = PVCStorageClass(prev)

(* validateStateStorageUpdate: away from claims, never to others.          *)
ValidateStateStorageUpdate(prev, s) ==
    PVCStorageClass(s) \in {PVCStorageClass(prev), {}}

(* validateProxyUpdate, validateTargetUpdate, allowDaemonSpecUpdates:      *)
(* selectors and what "fixed" stands for cannot be changed; enableExternalLB *)
ValidateDaemonUpdate(prev, s) ==
    /\ s.selectors = prev.selectors /\ s.fixed = prev.fixed
    /\ s.externalLB = prev.externalLB

(* ValidateCreate, ValidateUpdate: the submitter may use what is in        *)
(* allowed.                                                                *)
AdmitsAIStore(prev, s, allowed) ==
    /\ ValidateSpec(s)
    /\ VerifyRequiredStorageClasses(s)
    /\ ValidateAuthProfile(prev, s, allowed)
    /\ ValidateAuthSecret(prev, s, allowed)
    /\ prev # NoSpec => ValidateDaemonUpdate(prev, s) /\ ValidateStateStorageUpdate(prev, s)

-----------------------------------------------------------------------------
(***************************************************************************)
(* AIStoreAuth: the secrets exist, and there is one kind of signing key.   *)
(***************************************************************************)
AdmitsAIStoreAuth(s) ==
    /\ \A r \in s.admin \cup s.hmac : Exists(r)
    /\ IF s.hmac # {} THEN s.rsa = {} ELSE \A r \in s.rsa : Exists(r)

-----------------------------------------------------------------------------
(***************************************************************************)
(* AIStoreAuthProfile.                                                     *)
(***************************************************************************)
(* ValidateSpec of a profile: the URL, one method, and its endpoint.       *)
ValidateProfileSpec(s) ==
    /\ s.url
    /\ Cardinality(s.methods) = 1
    /\ s.endpoint

(* validateSecretRef, validateCAConfigMap, handleResourceGetError: first   *)
(* the access of the submitter; what the operator may not read passes.     *)
ValidateRef(r, allowed) ==
    /\ r \in allowed
    /\ r \in readable => state[r] = "complete"

ProfileRefs(s) == s.ca \cup (IF "password" \in s.methods THEN s.secret ELSE {})

(* validate: references are not checked while the profile terminates.      *)
AdmitsProfile(s, allowed, del) ==
    /\ ValidateProfileSpec(s)
    /\ del \/ \A r \in ProfileRefs(s) : ValidateRef(r, allowed)

-----------------------------------------------------------------------------
(* A submission of s over prev, by someone who may use what is in allowed. *)
Admits(prev, s, allowed) ==
    CASE family.kind = "AIStore"            -> AdmitsAIStore(prev, s, allowed)
      [] family.kind = "AIStoreAuth"        -> AdmitsAIStoreAuth(s)
      [] family.kind = "AIStoreAuthProfile" -> AdmitsProfile(s, allowed, obj.del)

(* The user creates, or updates; an update of an object that terminates    *)
(* is one too.                                                             *)
Submit ==
    \E s \in family.specs :
        /\ s # obj.spec
        /\ Admits(obj.spec, s, grants)
        /\ obj' = [obj EXCEPT !.exists = TRUE, !.spec = s]
        /\ UNCHANGED <<family, seen, template, state, grants, readable>>

(* ValidateDelete lets every delete pass.                                  *)
Delete ==
    /\ obj.exists /\ ~obj.del
    /\ obj' = IF obj.fin THEN [obj EXCEPT !.del = TRUE] ELSE NoObject
    /\ UNCHANGED <<family, seen, template, state, grants, readable>>

(* External: the cache, and RBAC and the objects that are referred to.     *)
SyncObject ==
    /\ seen # obj /\ seen' = obj
    /\ UNCHANGED <<family, obj, template, state, grants, readable>>

Toggle(S, r) == IF r \in S THEN S \ {r} ELSE S \cup {r}

RefChanges ==
    \E t \in family.turns :
        /\ \/ /\ t[2] = "state"
              /\ \E st \in {"absent", "incomplete", "complete"} \ {state[t[1]]} :
                    state' = [state EXCEPT ![t[1]] = st]
              /\ UNCHANGED <<grants, readable>>
           \/ /\ t[2] = "grants" /\ grants' = Toggle(grants, t[1])
              /\ UNCHANGED <<state, readable>>
           \/ /\ t[2] = "readable" /\ readable' = Toggle(readable, t[1])
              /\ UNCHANGED <<state, grants>>
        /\ UNCHANGED <<family, obj, seen, template>>

(* The operator writes an object as it is, but for the finalizer; it has   *)
(* no need of access to what the object refers to.                         *)
OperatorMayWrite == Admits(obj.spec, obj.spec, {})

(* Mutation: the finalizer is put on what is no longer there.              *)
MutantAddFinalizer ==
    /\ seen.exists /\ ~seen.del /\ ~seen.fin
    /\ obj' = [obj EXCEPT !.fin = TRUE] /\ seen' = obj'
    /\ UNCHANGED <<family, template, state, grants, readable>>

(* The patch names no version; its answer is the object as it is.          *)
AddFinalizer ==
    /\ seen.exists /\ ~seen.del /\ ~seen.fin
    /\ obj.exists /\ ~obj.del
    /\ OperatorMayWrite
    /\ obj' = [obj EXCEPT !.fin = TRUE] /\ seen' = obj'
    /\ UNCHANGED <<family, template, state, grants, readable>>

(* The StatefulSets are made from the spec the operator knows, once.       *)
CreateStatefulSets ==
    /\ family.kind = "AIStore" /\ seen.fin /\ ~seen.del
    /\ template = {}
    /\ template' = {PVCStorageClass(seen.spec)}
    /\ UNCHANGED <<family, obj, seen, state, grants, readable>>

(* The teardown deletes the StatefulSets before the finalizer goes.        *)
Teardown ==
    /\ seen.del /\ template # {} /\ template' = {}
    /\ UNCHANGED <<family, obj, seen, state, grants, readable>>

RemoveFinalizer ==
    /\ seen.del /\ obj.del /\ template = {}
    /\ OperatorMayWrite
    /\ obj' = NoObject
    /\ UNCHANGED <<family, seen, template, state, grants, readable>>

Next ==
    \/ Submit \/ Delete \/ SyncObject \/ RefChanges
    \/ AddFinalizer \/ CreateStatefulSets \/ Teardown \/ RemoveFinalizer

Spec == Init /\ [][Next]_vars

-----------------------------------------------------------------------------
(***************************************************************************)
(* Properties.                                                             *)
(***************************************************************************)
(* Whatever edits were admitted, a size that is not autoscaled is defined  *)
(* and positive (GetProxySize, GetTargetSize dereference it unchecked),    *)
(* and an autoscaled kind has the selector its nodes are counted with.     *)
AdmittedSizes ==
    (family.kind = "AIStore" /\ obj.exists) =>
        \A d \in {"proxy", "target"} :
            IF IsAutoScaling(obj.spec, d) THEN d \in obj.spec.selectors
            ELSE \E n \in GetSize(obj.spec, d) : n >= 1

(* No sequence of admitted edits asks for claims that the StatefulSets,    *)
(* made from some earlier spec, do not have: their claim templates cannot  *)
(* be changed (validateStateStorageUpdate).                                *)
ClaimTemplateHolds ==
    (family.kind = "AIStore" /\ obj.exists) =>
        \A t \in template : PVCStorageClass(obj.spec) \in {t, {}}

(* What a spec refers to, and needs leave for.                             *)
References(s) ==
    IF s = NoSpec THEN {}
    ELSE CASE family.kind = "AIStore"            -> s.profile \cup AuthSecret(s)
           [] family.kind = "AIStoreAuth"        -> {}
           [] family.kind = "AIStoreAuthProfile" -> ProfileRefs(s)

(* A reference comes into an object only with the leave of the user who    *)
(* brings it in, however often it comes and goes, and though references    *)
(* that stay are not reviewed again (validateAuthAccess, validate).        *)
ReferencesReviewed ==
    [][obj'.exists /\ ~obj.del =>
        References(obj'.spec) \ References(obj.spec) \subseteq grants]_vars

(* The operator's own writes pass: an AIStore that was admitted stays      *)
(* admissible when leave is taken back and when its profile is deleted, as *)
(* long as its storage class is there; an AIStoreAuth as long as all its   *)
(* secrets are there, and no longer, not even while it terminates; and a   *)
(* profile that terminates can be released, whatever became of its         *)
(* references (validateAuthAccess, validate of the other two kinds).       *)
OperatorNotLockedOut ==
    /\ (family.kind = "AIStore" /\ obj.exists /\ VerifyRequiredStorageClasses(obj.spec))
        => OperatorMayWrite
    /\ (family.kind = "AIStoreAuth" /\ obj.exists)
        => (OperatorMayWrite <=>
                \A r \in obj.spec.admin \cup obj.spec.hmac \cup obj.spec.rsa : Exists(r))
    /\ (family.kind = "AIStoreAuthProfile" /\ obj.del) => OperatorMayWrite
=============================================================================
