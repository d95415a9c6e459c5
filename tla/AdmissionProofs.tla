---------------------------- MODULE AdmissionProofs ----------------------------
(***************************************************************************)
(* Proofs about Admission, for every set of specs that users may submit,   *)
(* every sequence of submissions and every change of what they refer to:   *)
(* the types, the sizes, the claim templates, that the operator is not     *)
(* locked out, and that references are reviewed.                           *)
(***************************************************************************)
EXTENDS Admission, TLAPS, FiniteSetTheorems

(* What the type invariant says of the object and of its copy.             *)
ObjectType(o) ==
    /\ o \in [exists : BOOLEAN, del : BOOLEAN, fin : BOOLEAN, spec : family.specs \cup {NoSpec}]
    /\ o.exists = (o.spec # NoSpec) /\ (o.del => o.fin) /\ (o.fin => o.exists)

(* An existing object has a spec of its family, which is a proper one.     *)
LEMMA SpecType ==
    ASSUME TypeOK, NEW o \in {obj, seen}, o.exists
    PROVE  /\ o.spec \in family.specs
           /\ family.kind = "AIStore" => o.spec \in AIStoreSpecs
           /\ family.kind = "AIStoreAuth" => o.spec \in AIStoreAuthSpecs
           /\ family.kind = "AIStoreAuthProfile" => o.spec \in ProfileSpecs
BY AdmissionFamilyAssumption DEF TypeOK

(* The storage classes of a spec are references.                           *)
LEMMA ClassType ==
    ASSUME NEW s \in AIStoreSpecs
    PROVE  PVCStorageClass(s) \subseteq Refs
<1>1. s.legacyClass \subseteq Refs
  BY DEF AIStoreSpecs
<1>2. \A m \in s.storage : {m.class} \subseteq Refs
  BY DEF AIStoreSpecs
<1> QED
  BY <1>1, <1>2 DEF PVCStorageClass

LEMMA TypeInit == Init => TypeOK
<1> SUFFICES ASSUME Init PROVE TypeOK
  OBVIOUS
<1>1. ObjectType(NoObject)
  BY DEF ObjectType, NoObject
<1>2. Cardinality({}) <= 1
  BY FS_EmptySet
<1> QED
  BY <1>1, <1>2 DEF Init, TypeOK, ObjectType

(***************************************************************************)
(* The objects after a step.                                               *)
(***************************************************************************)
LEMMA ObjectStep ==
    ASSUME TypeOK, [Next]_vars
    PROVE  UNCHANGED family /\ ObjectType(obj') /\ ObjectType(seen')
<1>0. ObjectType(obj) /\ ObjectType(seen) /\ family \in Families
  BY DEF TypeOK, ObjectType
<1>1. NoSpec \notin family.specs
  BY <1>0, AdmissionFamilyAssumption
<1>2. ObjectType(NoObject)
  BY DEF ObjectType, NoObject
<1>3. CASE Submit
  <2>1. PICK s \in family.specs : obj' = [obj EXCEPT !.exists = TRUE, !.spec = s]
    BY <1>3 DEF Submit
  <2>2. ObjectType(obj')
    BY <1>0, <1>1, <2>1 DEF ObjectType
  <2> QED
    BY <1>0, <1>3, <2>2 DEF Submit
<1>4. CASE Delete
  <2>1. obj.fin => ObjectType([obj EXCEPT !.del = TRUE])
    BY <1>0 DEF ObjectType
  <2>2. ObjectType(obj')
    BY <1>0, <1>2, <1>4, <2>1 DEF Delete
  <2> QED
    BY <1>0, <1>4, <2>2 DEF Delete
<1>5. CASE AddFinalizer
  <2>1. obj.exists => ObjectType([obj EXCEPT !.fin = TRUE])
    BY <1>0 DEF ObjectType
  <2> QED
    BY <1>0, <1>5, <2>1 DEF AddFinalizer
<1>6. CASE RemoveFinalizer
  BY <1>0, <1>2, <1>6 DEF RemoveFinalizer
<1>7. CASE SyncObject \/ RefChanges \/ CreateStatefulSets \/ Teardown \/ UNCHANGED vars
  BY <1>0, <1>7 DEF SyncObject, RefChanges, CreateStatefulSets, Teardown, vars
<1> QED
  BY <1>3, <1>4, <1>5, <1>6, <1>7 DEF Next

(* The StatefulSets and the references after a step.                       *)
LEMMA RestStep ==
    ASSUME TypeOK, [Next]_vars
    PROVE  /\ Cardinality(template') <= 1 /\ \A t \in template' : t \subseteq Refs
           /\ state' \in [Refs -> {"absent", "incomplete", "complete"}]
           /\ grants' \subseteq Refs /\ readable' \subseteq Refs
<1>0. /\ Cardinality(template) <= 1 /\ \A t \in template : t \subseteq Refs
      /\ state \in [Refs -> {"absent", "incomplete", "complete"}]
      /\ grants \subseteq Refs /\ readable \subseteq Refs
  BY DEF TypeOK
<1>1. CASE RefChanges
  <2>1. PICK t \in family.turns :
            /\ \/ /\ \E st \in {"absent", "incomplete", "complete"} \ {state[t[1]]} :
                        state' = [state EXCEPT ![t[1]] = st]
                  /\ UNCHANGED <<grants, readable>>
               \/ grants' = Toggle(grants, t[1]) /\ UNCHANGED <<state, readable>>
               \/ readable' = Toggle(readable, t[1]) /\ UNCHANGED <<state, grants>>
            /\ UNCHANGED template
    BY <1>1 DEF RefChanges
  <2>2. t[1] \in Refs
    BY AdmissionFamilyAssumption DEF TypeOK
  <2> QED
    BY <1>0, <2>1, <2>2 DEF Toggle
<1>2. CASE CreateStatefulSets
  <2>1. seen.spec \in AIStoreSpecs
    BY <1>2, SpecType DEF CreateStatefulSets, TypeOK
  <2>2. template' = {PVCStorageClass(seen.spec)} /\ UNCHANGED <<state, grants, readable>>
    BY <1>2 DEF CreateStatefulSets
  <2>3. Cardinality(template') = 1
    BY <2>2, FS_Singleton
  <2> QED
    BY <1>0, <2>1, <2>2, <2>3, ClassType
<1>3. CASE Teardown
  <2>1. Cardinality({}) = 0
    BY FS_EmptySet
  <2> QED
    BY <1>0, <1>3, <2>1 DEF Teardown
<1>4. CASE \/ Submit \/ Delete \/ SyncObject \/ AddFinalizer \/ RemoveFinalizer
           \/ UNCHANGED vars
  BY <1>0, <1>4 DEF Submit, Delete, SyncObject, AddFinalizer, RemoveFinalizer, vars
<1> QED
  BY <1>1, <1>2, <1>3, <1>4 DEF Next

LEMMA TypeStep ==
    ASSUME TypeOK, [Next]_vars
    PROVE  TypeOK'
BY ObjectStep, RestStep DEF TypeOK, ObjectType

(***************************************************************************)
(* THEOREM.  The object, the operator's copy of it and the StatefulSets    *)
(* keep their types: an object exists as long as it has a spec, only one   *)
(* with a finalizer terminates, and there is one claim template at most    *)
(* (ValidateCreate, ValidateUpdate, ValidateDelete of all three kinds).    *)
(***************************************************************************)
THEOREM AdmissionTypes == Spec => []TypeOK
<1>1. TypeOK /\ [Next]_vars => TypeOK'
  BY TypeStep
<1> QED
  BY <1>1, TypeInit, PTL DEF Spec

-----------------------------------------------------------------------------
(***************************************************************************)
(* What holds of every admitted object.                                    *)
(***************************************************************************)
(* Whatever was edited, the spec has passed the checks that look at the    *)
(* spec alone.                                                             *)
Validated ==
    obj.exists => /\ family.kind = "AIStore" => ValidateSpec(obj.spec)
                  /\ family.kind = "AIStoreAuth" => (obj.spec.hmac # {} => obj.spec.rsa = {})
                  /\ family.kind = "AIStoreAuthProfile" => ValidateProfileSpec(obj.spec)

LEMMA AdmitsValidates ==
    ASSUME NEW prev, NEW s, NEW allowed, Admits(prev, s, allowed)
    PROVE  /\ family.kind = "AIStore" => AdmitsAIStore(prev, s, allowed)
           /\ family.kind = "AIStoreAuth" => AdmitsAIStoreAuth(s)
           /\ family.kind = "AIStoreAuthProfile" => AdmitsProfile(s, allowed, obj.del)
BY DEF Admits

LEMMA ValidatedStep ==
    ASSUME TypeOK, Validated, [Next]_vars
    PROVE  Validated'
<1>0. ObjectType(obj) /\ UNCHANGED family
  BY ObjectStep DEF TypeOK, ObjectType
<1>1. CASE Submit
  <2>1. PICK s \in family.specs :
            /\ Admits(obj.spec, s, grants)
            /\ obj' = [obj EXCEPT !.exists = TRUE, !.spec = s]
    BY <1>1 DEF Submit
  <2>2. obj'.spec = s
    BY <1>0, <2>1 DEF ObjectType
  <2> QED
    BY <1>0, <2>1, <2>2, AdmitsValidates DEF Validated, AdmitsAIStore, AdmitsAIStoreAuth,
                                                     AdmitsProfile
<1>2. CASE obj' = NoObject
  BY <1>2 DEF NoObject, Validated
<1>3. CASE UNCHANGED <<obj.exists, obj.spec>>
  BY <1>0, <1>3 DEF Validated
<1>4. CASE Delete \/ AddFinalizer
  <2>1. obj' = NoObject \/ UNCHANGED <<obj.exists, obj.spec>>
    BY <1>0, <1>4 DEF Delete, AddFinalizer, ObjectType
  <2> QED
    BY <1>2, <1>3, <2>1
<1>5. CASE \/ SyncObject \/ RefChanges \/ CreateStatefulSets \/ Teardown \/ RemoveFinalizer
           \/ UNCHANGED vars
  <2>1. obj' = NoObject \/ UNCHANGED obj
    BY <1>5 DEF SyncObject, RefChanges, CreateStatefulSets, Teardown, RemoveFinalizer, vars
  <2> QED
    BY <1>2, <1>3, <2>1
<1> QED
  BY <1>1, <1>4, <1>5 DEF Next

LEMMA ValidatedAlways == Spec => []Validated
<1>1. Init => Validated
  BY DEF Init, NoObject, Validated
<1>2. TypeOK /\ Validated /\ [Next]_vars => Validated'
  BY ValidatedStep
<1> QED
  BY <1>1, <1>2, AdmissionTypes, PTL DEF Spec

(***************************************************************************)
(* THEOREM.  Whatever edits were admitted, a size that is not autoscaled   *)
(* is there and positive, and an autoscaled kind has its selector          *)
(* (validateSize, validateAutoScaling; GetProxySize, GetTargetSize).       *)
(***************************************************************************)
THEOREM SizesAdmitted == Spec => []AdmittedSizes
<1>1. TypeOK /\ Validated => AdmittedSizes
  <2> SUFFICES ASSUME TypeOK, Validated, family.kind = "AIStore", obj.exists,
                      NEW d \in {"proxy", "target"}
               PROVE  IF IsAutoScaling(obj.spec, d) THEN d \in obj.spec.selectors
                      ELSE \E n \in GetSize(obj.spec, d) : n >= 1
    BY DEF AdmittedSizes
  <2>1. obj.spec \in AIStoreSpecs /\ ValidateSize(obj.spec) /\ ValidateAutoScaling(obj.spec)
    BY SpecType DEF Validated, ValidateSpec
  <2>2. CASE IsAutoScaling(obj.spec, d)
    BY <2>1, <2>2 DEF ValidateAutoScaling
  <2>3. CASE ~IsAutoScaling(obj.spec, d) /\ obj.spec[d] # {}
    <3>1. obj.spec[d] \subseteq Int /\ \A n \in obj.spec[d] : n > 0
      BY <2>1, <2>3 DEF AIStoreSpecs, ValidateSize
    <3> QED
      BY <2>3, <3>1 DEF GetSize
  <2>4. CASE ~IsAutoScaling(obj.spec, d) /\ obj.spec[d] = {}
    <3>1. \E n \in obj.spec.size : n = -1 \/ n > 0
      BY <2>1, <2>4 DEF ValidateSize
    <3>2. -1 \notin obj.spec.size /\ obj.spec.size \subseteq Int
      BY <2>1, <2>4 DEF IsAutoScaling, AIStoreSpecs
    <3> QED
      BY <2>4, <3>1, <3>2 DEF GetSize
  <2> QED
    BY <2>2, <2>3, <2>4
<1> QED
  BY <1>1, AdmissionTypes, ValidatedAlways, PTL

(***************************************************************************)
(* THEOREM.  The operator's own writes pass, whatever leave was taken back *)
(* since the object was admitted, and whatever was deleted but a storage   *)
(* class of an AIStore or a secret of an AIStoreAuth (validateAuthAccess;  *)
(* validate of AIStoreAuth and AIStoreAuthProfile).                        *)
(***************************************************************************)
THEOREM OperatorKeepsAccess == Spec => []OperatorNotLockedOut
<1>1. TypeOK /\ Validated => OperatorNotLockedOut
  <2> SUFFICES ASSUME TypeOK, Validated PROVE OperatorNotLockedOut
    OBVIOUS
  <2>1. ASSUME family.kind = "AIStore", obj.exists, VerifyRequiredStorageClasses(obj.spec)
        PROVE  OperatorMayWrite
    <3>1. obj.spec \in AIStoreSpecs /\ obj.spec # NoSpec
      BY <2>1, SpecType DEF TypeOK
    <3>2. ValidateSpec(obj.spec)
      BY <2>1 DEF Validated
    <3>3. ValidateAuthProfile(obj.spec, obj.spec, {})
      BY <3>1 DEF ValidateAuthProfile, ProfileUnchanged
    <3>4. ValidateAuthSecret(obj.spec, obj.spec, {})
      <4>1. CASE obj.spec.password = {}
        BY <4>1 DEF ValidateAuthSecret, AuthSecret
      <4>2. CASE obj.spec.password # {}
        BY <3>1, <4>2 DEF ValidateAuthSecret, SecretUnchanged
      <4> QED
        BY <4>1, <4>2
    <3>5. ValidateDaemonUpdate(obj.spec, obj.spec) /\ ValidateStateStorageUpdate(obj.spec, obj.spec)
      BY DEF ValidateDaemonUpdate, ValidateStateStorageUpdate
    <3> QED
      BY <2>1, <3>2, <3>3, <3>4, <3>5 DEF OperatorMayWrite, Admits, AdmitsAIStore
  <2>2. ASSUME family.kind = "AIStoreAuthProfile", obj.del
        PROVE  OperatorMayWrite
    <3>1. ValidateProfileSpec(obj.spec)
      BY <2>2 DEF Validated, TypeOK
    <3> QED
      BY <2>2, <3>1 DEF OperatorMayWrite, Admits, AdmitsProfile
  <2>3. ASSUME family.kind = "AIStoreAuth", obj.exists
        PROVE  OperatorMayWrite <=>
                \A r \in obj.spec.admin \cup obj.spec.hmac \cup obj.spec.rsa : Exists(r)
    <3>1. obj.spec.hmac # {} => obj.spec.rsa = {}
      BY <2>3 DEF Validated
    <3>2. OperatorMayWrite <=> AdmitsAIStoreAuth(obj.spec)
      BY <2>3 DEF OperatorMayWrite, Admits
    <3> QED
      BY <3>1, <3>2 DEF AdmitsAIStoreAuth
  <2> QED
    BY <2>1, <2>2, <2>3 DEF OperatorNotLockedOut
<1> QED
  BY <1>1, AdmissionTypes, ValidatedAlways, PTL

-----------------------------------------------------------------------------
(***************************************************************************)
(* The claim templates.  The spec that the operator knows lags, and so may *)
(* the StatefulSets: they are made while their object has a finalizer, and *)
(* since then its claims have been kept or given up.                       *)
(***************************************************************************)
(* From one spec an object can only have come to another with the same     *)
(* claims or none.                                                         *)
Follows(class) == obj.fin /\ PVCStorageClass(obj.spec) \in {class, {}}

SeenFollowed == seen.fin /\ ~seen.del => Follows(PVCStorageClass(seen.spec))

TemplateFollowed == \A t \in template : Follows(t)

ClaimInv == family.kind = "AIStore" => SeenFollowed /\ TemplateFollowed

(* An admitted update keeps what followed before.                          *)
LEMMA SubmitFollows ==
    ASSUME TypeOK, family.kind = "AIStore", Submit, NEW class, Follows(class)
    PROVE  Follows(class)'
<1>1. PICK s \in family.specs :
          /\ Admits(obj.spec, s, grants)
          /\ obj' = [obj EXCEPT !.exists = TRUE, !.spec = s]
  BY DEF Submit
<1>2. obj.spec # NoSpec /\ obj'.fin /\ obj'.spec = s
  BY <1>1 DEF Follows, TypeOK
<1>3. PVCStorageClass(s) \in {PVCStorageClass(obj.spec), {}}
  BY <1>1, <1>2, AdmitsValidates DEF AdmitsAIStore, ValidateStateStorageUpdate
<1> QED
  BY <1>2, <1>3 DEF Follows

LEMMA ClaimInvStep ==
    ASSUME TypeOK, ClaimInv, [Next]_vars
    PROVE  ClaimInv'
<1> SUFFICES ASSUME family.kind = "AIStore" PROVE SeenFollowed' /\ TemplateFollowed'
  BY ObjectStep DEF ClaimInv
<1>0. SeenFollowed /\ TemplateFollowed /\ ObjectType(obj) /\ ObjectType(seen)
  BY DEF ClaimInv, TypeOK, ObjectType
<1>1. CASE Submit
  BY <1>0, <1>1, SubmitFollows DEF Submit, SeenFollowed, TemplateFollowed
<1>2. CASE Delete
  <2>1. CASE obj.fin
    <3>1. obj'.fin /\ obj'.spec = obj.spec /\ UNCHANGED <<seen, template>>
      BY <1>0, <1>2, <2>1 DEF Delete, ObjectType
    <3> QED
      BY <1>0, <3>1 DEF SeenFollowed, TemplateFollowed, Follows
  <2>2. CASE ~obj.fin
    BY <1>0, <1>2, <2>2 DEF Delete, SeenFollowed, TemplateFollowed, Follows
  <2> QED
    BY <2>1, <2>2
<1>3. CASE SyncObject
  <2>1. seen' = obj /\ UNCHANGED <<obj, template>>
    BY <1>3 DEF SyncObject
  <2> QED
    BY <1>0, <2>1 DEF SeenFollowed, TemplateFollowed, Follows
<1>4. CASE AddFinalizer
  <2>1. seen' = obj' /\ obj'.fin /\ obj'.spec = obj.spec /\ UNCHANGED template
    BY <1>0, <1>4 DEF AddFinalizer, ObjectType
  <2> QED
    BY <1>0, <2>1 DEF SeenFollowed, TemplateFollowed, Follows
<1>5. CASE CreateStatefulSets
  BY <1>0, <1>5 DEF CreateStatefulSets, SeenFollowed, TemplateFollowed, Follows
<1>6. CASE Teardown
  BY <1>0, <1>6 DEF Teardown, SeenFollowed, TemplateFollowed, Follows
<1>7. CASE RemoveFinalizer
  BY <1>7 DEF RemoveFinalizer, SeenFollowed, TemplateFollowed
<1>8. CASE RefChanges \/ UNCHANGED vars
  BY <1>0, <1>8 DEF RefChanges, vars, SeenFollowed, TemplateFollowed, Follows
<1> QED
  BY <1>1, <1>2, <1>3, <1>4, <1>5, <1>6, <1>7, <1>8 DEF Next

(***************************************************************************)
(* THEOREM.  No sequence of admitted edits, deletions and new objects of   *)
(* the same name asks for claims that the StatefulSets of the cluster do   *)
(* not have, though they were made from a spec that the operator's cache   *)
(* showed late (validateStateStorageUpdate).                               *)
(***************************************************************************)
THEOREM ClaimsStayWithTemplate == Spec => []ClaimTemplateHolds
<1>1. Init => ClaimInv
  BY DEF Init, NoObject, ClaimInv, SeenFollowed, TemplateFollowed
<1>2. TypeOK /\ ClaimInv /\ [Next]_vars => ClaimInv'
  BY ClaimInvStep
<1>3. ClaimInv => ClaimTemplateHolds
  BY DEF ClaimInv, TemplateFollowed, Follows, ClaimTemplateHolds
<1> QED
  BY <1>1, <1>2, <1>3, AdmissionTypes, PTL DEF Spec

-----------------------------------------------------------------------------
(***************************************************************************)
(* THEOREM.  A reference comes into an object only with the leave of the   *)
(* user who brings it in, in every step of every sequence of submissions   *)
(* (validateAuthAccess; validate of AIStoreAuthProfile).                   *)
(***************************************************************************)
THEOREM ReferencesNeedLeave == Spec => ReferencesReviewed
<1>1. ASSUME TypeOK, [Next]_vars, obj'.exists, ~obj.del
      PROVE  References(obj'.spec) \ References(obj.spec) \subseteq grants
  <2>0. ObjectType(obj) /\ UNCHANGED family
    BY <1>1, ObjectStep DEF TypeOK, ObjectType
  <2>1. CASE Submit
    <3>1. PICK s \in family.specs :
              /\ Admits(obj.spec, s, grants)
              /\ obj' = [obj EXCEPT !.exists = TRUE, !.spec = s]
      BY <2>1 DEF Submit
    <3>2. obj'.spec = s
      BY <2>0, <3>1 DEF ObjectType
    <3>3. CASE family.kind = "AIStore"
      <4>1. ValidateAuthProfile(obj.spec, s, grants) /\ ValidateAuthSecret(obj.spec, s, grants)
        BY <3>1, <3>3, AdmitsValidates DEF AdmitsAIStore
      <4>2. s.profile \subseteq grants \/ (obj.spec # NoSpec /\ obj.spec.profile = s.profile)
        BY <4>1 DEF ValidateAuthProfile, ProfileUnchanged
      <4>3. \/ AuthSecret(s) \subseteq grants
            \/ obj.spec # NoSpec /\ AuthSecret(obj.spec) = AuthSecret(s)
        BY <4>1 DEF ValidateAuthSecret, SecretUnchanged
      <4> QED
        BY <2>0, <3>2, <3>3, <4>2, <4>3 DEF References
    <3>4. CASE family.kind = "AIStoreAuthProfile"
      <4>1. ProfileRefs(s) \subseteq grants
        BY <1>1, <3>1, <3>4, AdmitsValidates DEF AdmitsProfile, ValidateRef
      <4> QED
        BY <2>0, <3>2, <3>4, <4>1 DEF References
    <3>5. CASE family.kind = "AIStoreAuth"
      BY <2>0, <3>5 DEF References
    <3> QED
      BY <1>1, <3>3, <3>4, <3>5, AdmissionFamilyAssumption DEF TypeOK
  <2>2. CASE obj'.spec = obj.spec
    BY <2>0, <2>2 DEF References
  <2>3. CASE ~Submit
    <3>1. obj' = NoObject \/ obj'.spec = obj.spec
      BY <1>1, <2>0, <2>3 DEF Next, Delete, SyncObject, RefChanges, AddFinalizer,
            CreateStatefulSets, Teardown, RemoveFinalizer, vars, ObjectType
    <3> QED
      BY <1>1, <2>2, <3>1 DEF NoObject
  <2> QED
    BY <2>1, <2>3
<1>2. TypeOK /\ [Next]_vars =>
        [obj'.exists /\ ~obj.del =>
            References(obj'.spec) \ References(obj.spec) \subseteq grants]_vars
  BY <1>1
<1> QED
  BY <1>2, AdmissionTypes, PTL DEF Spec, ReferencesReviewed
=============================================================================
