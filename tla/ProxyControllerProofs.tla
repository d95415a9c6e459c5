------------------------- MODULE ProxyControllerProofs -------------------------
(***************************************************************************)
(* Proofs about ProxyController, for any number of proxies and revisions,  *)
(* every sequence of edits and any number of faults and disruptions: the   *)
(* types, that the policy for the claims comes before a scale-down, and    *)
(* for one edit that the primary is moved before its pod is deleted.       *)
(***************************************************************************)
EXTENDS ProxyController, TLAPS, FiniteSetTheorems

(* Where the step at hand looks.                                           *)
ArgInv ==
    /\ pc \in {"setFirst", "setHighest"} => arg \in Ordinals
    /\ pc = "choose" => arg \in 0..mem.size

TypeInv == TypeOK /\ ArgInv

(***************************************************************************)
(* The parts of the type invariant.                                        *)
(***************************************************************************)
CRPart ==
    /\ scenario \in Scenarios /\ cr \in Wish /\ mem \in Wish
    /\ edits \in 0..Len(scenario.wishes)

SetPart == set \in StatefulSet /\ setCached \in StatefulSet /\ seen \in StatefulSet

PodTypes == [phase : Phases, rev : Revs]
MapTypes == [Ordinals -> {"absent", "active", "decommission"}]

PodPart == pods \in [Ordinals -> PodTypes]

MapPart == view \in Map /\ pmap \in MapTypes /\ primary \in Ordinals /\ elected \in BOOLEAN

RunPart ==
    /\ pc \in Steps /\ arg \in -1..MaxSize
    /\ faults \in 0..MaxFaults /\ disruptions \in 0..MaxDisruptions

LEMMA TypeParts == TypeOK <=> CRPart /\ SetPart /\ PodPart /\ MapPart /\ RunPart
<1>1. [pmap |-> pmap, primary |-> primary] \in Map <=> pmap \in MapTypes /\ primary \in Ordinals
  BY DEF Map, MapTypes
<1> QED
  BY <1>1 DEF TypeOK, CRPart, SetPart, PodPart, MapPart, RunPart, PodTypes

(***************************************************************************)
(* The operators of the model.                                             *)
(***************************************************************************)
LEMMA StartType ==
    ASSUME scenario \in Scenarios
    PROVE  /\ Start \in Wish /\ StartSet \in StatefulSet /\ NoPod \in PodTypes
           /\ Start.size \in 1..MaxSize /\ Start.rev \in Revs /\ Start.keep \in BOOLEAN
           /\ scenario.wishes \in Seq(Wish) /\ Len(scenario.wishes) \in Nat
<1>1. Start \in Wish /\ scenario.wishes \in Seq(Wish)
  BY ProxyScenarioAssumption DEF Scenario, Start
<1>2. Start.size \in 1..MaxSize /\ Start.rev \in Revs /\ Start.keep \in BOOLEAN
  BY <1>1 DEF Wish
<1>3. Start.size \in Sizes
  BY <1>2, ProxySizeAssumption DEF Sizes
<1>4. StartSet \in StatefulSet
  BY <1>2, <1>3 DEF StartSet, StatefulSet
<1>5. NoPod \in PodTypes
  BY <1>2 DEF NoPod, PodTypes, Phases
<1> QED
  BY <1>1, <1>2, <1>4, <1>5

LEMMA NoViewType == NoView \in Map
<1>1. 0 \in Ordinals
  BY ProxySizeAssumption DEF Ordinals
<1> QED
  BY <1>1 DEF NoView, Map

(* No more pods are counted than there are ordinals.                       *)
LEMMA CountType == \A S \in SUBSET Ordinals : Cardinality(S) \in Sizes
<1> SUFFICES ASSUME NEW S \in SUBSET Ordinals
             PROVE  Cardinality(S) \in Sizes
  OBVIOUS
<1>1. MaxSize \in Nat \ {0} /\ Ordinals = 0..(MaxSize - 1)
  BY ProxySizeAssumption DEF Ordinals
<1>2. /\ IsFiniteSet(0..(MaxSize - 1))
      /\ Cardinality(0..(MaxSize - 1)) = IF 0 > MaxSize - 1 THEN 0 ELSE (MaxSize - 1) - 0 + 1
  BY <1>1, FS_Interval
<1>3. Cardinality(0..(MaxSize - 1)) = MaxSize
  BY <1>1, <1>2
<1>4. IsFiniteSet(S) /\ Cardinality(S) <= Cardinality(0..(MaxSize - 1))
  BY <1>1, <1>2, FS_Subset
<1>5. Cardinality(S) \in Nat
  BY <1>4, FS_CardinalityType
<1> QED
  BY <1>1, <1>3, <1>4, <1>5 DEF Sizes

LEMMA TypeInit == Init => TypeInv
<1> SUFFICES ASSUME Init PROVE TypeInv
  OBVIOUS
<1>1. scenario \in Scenarios
  BY DEF Init
<1>2. CRPart
  <2>1. cr = Start /\ mem = Start /\ edits = 0
    BY DEF Init
  <2> QED
    BY <1>1, <2>1, StartType DEF CRPart
<1>3. SetPart
  BY <1>1, StartType DEF Init, SetPart
<1>4. PodPart
  <2>1. [phase |-> "ready", rev |-> Start.rev] \in PodTypes
    BY <1>1, StartType DEF PodTypes, Phases
  <2> QED
    BY <1>1, <2>1, StartType DEF Init, PodPart
<1>5. MapPart
  <2>1. \A i \in 0..(Start.size - 1) : i \in Ordinals
    BY <1>1, StartType, ProxySizeAssumption DEF Ordinals
  <2> QED
    BY <2>1, NoViewType DEF Init, MapPart, MapTypes
<1>6. RunPart
  BY ProxySizeAssumption, ProxyBoundAssumption DEF Init, RunPart, Steps
<1>7. ArgInv
  BY DEF Init, ArgInv
<1> QED
  BY <1>2, <1>3, <1>4, <1>5, <1>6, <1>7, TypeParts DEF TypeInv

(***************************************************************************)
(* What the steps leave alone.                                             *)
(***************************************************************************)
(* The steps of the operator.                                              *)
LEMMA OperatorFrame ==
    ASSUME OperatorStep \/ Fail
    PROVE  /\ scenario' = scenario /\ cr' = cr /\ edits' = edits
           /\ setCached' = setCached /\ pods' = pods /\ disruptions' = disruptions
           /\ \/ UNCHANGED mem
              \/ mem' = Start
              \/ mem' = cr
           /\ \/ UNCHANGED seen
              \/ seen' = StartSet
              \/ seen' = setCached
           /\ \/ UNCHANGED view
              \/ view' = NoView
              \/ view' = [pmap |-> pmap, primary |-> primary]
<1>1. CASE HandleProxyState \/ Fail
  BY <1>1 DEF HandleProxyState, Fail, Return, ais, counters
<1>2. CASE SyncProxyPodSpec \/ SyncProxyPVCRetentionPolicy \/ HandleProxyRollout
  BY <1>2 DEF SyncProxyPodSpec, SetPrimaryTo, PatchTemplate, SyncProxyPVCRetentionPolicy,
              HandleProxyRollout, ResetSSPartition, Return, Goto, ais, counters
<1>3. CASE HandleProxyScale
  <2>1. CASE PrepareProxyScaleDown \/ Resize
    BY <2>1 DEF PrepareProxyScaleDown, Resize, Return, ais, counters
  <2>2. CASE SetLowestEligiblePodAsPrimary \/ DecommissionProxies
    BY <2>2 DEF SetLowestEligiblePodAsPrimary, DecommissionProxies, Return, Goto, counters
  <2> QED
    BY <1>3, <2>1, <2>2 DEF HandleProxyScale
<1> QED
  BY <1>1, <1>2, <1>3 DEF OperatorStep

(* The environment.                                                        *)
Environment ==
    \/ UserEdits \/ SyncSet \/ UpdateStatus
    \/ \E i \in Ordinals : Pods(i) \/ Elect(i) \/ Disrupt(i)

LEMMA NextSplit == Next <=> (OperatorStep \/ Fail) \/ Environment
  BY DEF Next, Environment

LEMMA EnvironmentFrame ==
    ASSUME Environment
    PROVE  /\ scenario' = scenario /\ UNCHANGED operator /\ faults' = faults
           /\ UserEdits \/ (cr' = cr /\ edits' = edits)
           /\ SyncSet \/ setCached' = setCached
           /\ UpdateStatus \/ set' = set
<1>1. CASE UserEdits \/ SyncSet
  BY <1>1 DEF UserEdits, SyncSet, operator, counters
<1>2. CASE UpdateStatus
  BY <1>2 DEF UpdateStatus, operator, counters
<1>3. CASE \E i \in Ordinals : Pods(i)
  BY <1>3 DEF Pods, CreatePod, DeletePod, PodGone, PodSettles, ProxyLeaves, KeepaliveDrops,
              operator, counters
<1>4. CASE \E i \in Ordinals : Elect(i) \/ Disrupt(i)
  BY <1>4 DEF Elect, Disrupt, operator, counters
<1> QED
  BY <1>1, <1>2, <1>3, <1>4 DEF Environment

(***************************************************************************)
(* Every step keeps the types.                                             *)
(***************************************************************************)
LEMMA CRStep ==
    ASSUME TypeInv, Next
    PROVE  CRPart' /\ scenario' = scenario
<1>1. CRPart
  BY TypeParts DEF TypeInv
<1>2. CASE OperatorStep \/ Fail
  BY <1>1, <1>2, OperatorFrame, StartType DEF CRPart
<1>3. CASE Environment
  <2>1. scenario' = scenario /\ mem' = mem
    BY <1>3, EnvironmentFrame DEF operator
  <2>2. CASE UserEdits
    <3>1. edits < Len(scenario.wishes) /\ edits' = edits + 1 /\ cr' = scenario.wishes[edits']
      BY <2>2 DEF UserEdits
    <3>2. scenario.wishes \in Seq(Wish) /\ Len(scenario.wishes) \in Nat
      BY <1>1, StartType DEF CRPart
    <3>3. edits' \in 1..Len(scenario.wishes)
      BY <1>1, <3>1, <3>2 DEF CRPart
    <3>4. cr' \in Wish
      BY <3>1, <3>2, <3>3
    <3> QED
      BY <1>1, <2>1, <3>3, <3>4 DEF CRPart
  <2>3. CASE cr' = cr /\ edits' = edits
    BY <1>1, <2>1, <2>3 DEF CRPart
  <2> QED
    BY <1>3, <2>2, <2>3, EnvironmentFrame
<1> QED
  BY <1>2, <1>3, NextSplit

(* The fields that the steps of the operator write.                        *)
LEMMA SetWrites ==
    ASSUME NEW s \in StatefulSet, NEW w \in Wish, NEW p \in {0, 1}, NEW o \in BOOLEAN
    PROVE  /\ [s EXCEPT !.rev = w.rev, !.partition = p, !.observed = o] \in StatefulSet
           /\ [s EXCEPT !.keep = w.keep, !.observed = o] \in StatefulSet
           /\ [s EXCEPT !.partition = p, !.observed = o] \in StatefulSet
           /\ [s EXCEPT !.replicas = w.size, !.observed = o] \in StatefulSet
<1>1. w.rev \in Revs /\ w.keep \in BOOLEAN /\ w.size \in 1..MaxSize
  BY DEF Wish
<1> QED
  BY <1>1 DEF StatefulSet

(* What the StatefulSet controller writes.                                 *)
LEMMA StatusWrites ==
    ASSUME NEW s \in StatefulSet, NEW r \in Revs, NEW u \in Revs, NEW a \in Sizes,
           NEW b \in Sizes, NEW c \in Sizes, NEW d \in Sizes
    PROVE  [s EXCEPT !.observed = TRUE, !.updateRev = u, !.currentRev = r, !.pods = a,
                     !.ready = b, !.updated = c, !.current = d] \in StatefulSet
  BY DEF StatefulSet

LEMMA StatusType ==
    ASSUME TypeInv, UpdateStatus
    PROVE  /\ set' \in StatefulSet
           /\ set'.keep = set.keep /\ set'.replicas = set.replicas
<1> DEFINE Exists(p)  == p.phase # "none"
           IsReady(p) == p.phase = "ready"
           Updated(p) == IsActive(p) /\ p.rev = set.rev
           complete   == \A n \in {Count(Exists), Count(IsReady), Count(Updated)} :
                             n = set.replicas
           currentRev == IF complete THEN set.rev ELSE set.currentRev
           Current(p) == IsActive(p) /\ p.rev = currentRev
           ce == Count(Exists)
           cy == Count(IsReady)
           cu == Count(Updated)
           cc == Count(Current)
<1>1. set \in StatefulSet
  BY DEF TypeInv, TypeOK
<1>2. set.rev \in Revs /\ set.currentRev \in Revs
  BY <1>1 DEF StatefulSet
<1>3. currentRev \in Revs
  BY <1>2
<1>4. ce \in Sizes /\ cy \in Sizes /\ cu \in Sizes /\ cc \in Sizes
  BY CountType DEF Count
<1>5. set' = [set EXCEPT !.observed = TRUE, !.updateRev = set.rev,
                         !.currentRev = currentRev, !.pods = ce,
                         !.ready = cy, !.updated = cu, !.current = cc]
  BY DEF UpdateStatus
<1> HIDE DEF currentRev, ce, cy, cu, cc
<1>6. set' \in StatefulSet
  BY <1>1, <1>2, <1>3, <1>4, <1>5, StatusWrites
<1>7. set'.keep = set.keep /\ set'.replicas = set.replicas
  BY <1>1, <1>5 DEF StatefulSet
<1> QED
  BY <1>6, <1>7

(* The StatefulSet after a step of the operator.                           *)
LEMMA OperatorSetType ==
    ASSUME TypeInv, OperatorStep \/ Fail
    PROVE  set' \in StatefulSet
<1>1. set \in StatefulSet /\ mem \in Wish
  BY DEF TypeInv, TypeOK
<1>2. set.partition \in {0, 1} /\ set.observed \in BOOLEAN
  BY <1>1 DEF StatefulSet
<1>3. CASE PatchTemplate
  <2> DEFINE p   == IF seen.ready > 0 /\ seen.partition # 1 THEN 1 ELSE set.partition
             new == [set EXCEPT !.rev = mem.rev, !.partition = p]
             o   == set.observed /\ new = set
  <2>1. set' = [new EXCEPT !.observed = new.observed /\ new = set]
    BY <1>3 DEF PatchTemplate
  <2>2. new.observed = set.observed
    BY <1>1 DEF StatefulSet
  <2>3. set' = [set EXCEPT !.rev = mem.rev, !.partition = p, !.observed = o]
    BY <2>1, <2>2
  <2>4. p \in {0, 1} /\ o \in BOOLEAN
    BY <1>2
  <2> HIDE DEF p, o
  <2> QED
    BY <1>1, <2>3, <2>4, SetWrites
<1>4. CASE SyncProxyPVCRetentionPolicy
  <2> DEFINE o == set.observed /\ set.keep = mem.keep
  <2>1. set' = [set EXCEPT !.keep = mem.keep, !.observed = o]
    BY <1>4 DEF SyncProxyPVCRetentionPolicy
  <2>2. o \in BOOLEAN
    BY <1>2
  <2> HIDE DEF o
  <2> QED
    BY <1>1, <2>1, <2>2, SetWrites
<1>5. CASE ResetSSPartition
  <2> DEFINE o == set.observed /\ set.partition = 0
  <2>1. set' = [set EXCEPT !.partition = 0, !.observed = o]
    BY <1>5 DEF ResetSSPartition
  <2>2. o \in BOOLEAN
    BY <1>2
  <2> HIDE DEF o
  <2> QED
    BY <1>1, <2>1, <2>2, SetWrites
<1>6. CASE Resize
  <2> DEFINE o == set.observed /\ set.replicas = mem.size
  <2>1. set' = set \/ set' = [set EXCEPT !.replicas = mem.size, !.observed = o]
    BY <1>6 DEF Resize
  <2>2. o \in BOOLEAN
    BY <1>2
  <2> HIDE DEF o
  <2> QED
    <3>1. [set EXCEPT !.replicas = mem.size, !.observed = o] \in StatefulSet
      BY <1>1, <1>2, <2>2, SetWrites
    <3> QED
      BY <1>1, <2>1, <3>1
<1>7. CASE set' = set
  BY <1>1, <1>7
<1> QED
  BY <1>3, <1>4, <1>5, <1>6, <1>7
     DEF OperatorStep, Fail, HandleProxyState, SyncProxyPodSpec, SetPrimaryTo,
         HandleProxyRollout, HandleProxyScale, PrepareProxyScaleDown,
         SetLowestEligiblePodAsPrimary, DecommissionProxies

LEMMA SetStep ==
    ASSUME TypeInv, Next
    PROVE  SetPart'
<1>1. SetPart /\ scenario \in Scenarios
  BY TypeParts DEF TypeInv, TypeOK
<1>2. CASE OperatorStep \/ Fail
  <2>1. set' \in StatefulSet
    BY <1>2, OperatorSetType
  <2> QED
    BY <1>1, <1>2, <2>1, OperatorFrame, StartType DEF SetPart
<1>3. CASE Environment
  <2>1. set' \in StatefulSet
    BY <1>1, <1>3, EnvironmentFrame, StatusType DEF SetPart
  <2>2. setCached' \in StatefulSet
    BY <1>1, <1>3, EnvironmentFrame DEF SetPart, SyncSet
  <2> QED
    BY <1>1, <1>3, <2>1, <2>2, EnvironmentFrame DEF SetPart, operator
<1> QED
  BY <1>2, <1>3, NextSplit

LEMMA PodStep ==
    ASSUME TypeInv, Next
    PROVE  PodPart'
<1>1. PodPart /\ scenario \in Scenarios /\ set \in StatefulSet
  BY TypeParts DEF TypeInv, TypeOK
<1>2. CASE pods' = pods
  BY <1>1, <1>2 DEF PodPart
<1>3. ASSUME NEW i \in Ordinals, Pods(i) \/ Disrupt(i)
      PROVE  PodPart'
  <2>1. pods[i] \in PodTypes /\ pods[i].rev \in Revs /\ pods[i].phase \in Phases
    BY <1>1 DEF PodPart, PodTypes
  <2>2. \A x \in PodTypes : pods' = [pods EXCEPT ![i] = x] => PodPart'
    BY <1>1 DEF PodPart
  <2>3. \A f \in Phases : pods' = [pods EXCEPT ![i].phase = f] => PodPart'
    <3> TAKE f \in Phases
    <3>1. [pods[i] EXCEPT !.phase = f] \in PodTypes
      BY <2>1 DEF PodTypes
    <3> QED
      BY <2>2, <3>1
  <2>4. CASE CreatePod(i)
    <3>1. set.rev \in Revs /\ set.currentRev \in Revs
      BY <1>1 DEF StatefulSet
    <3>2. [phase |-> "starting", rev |-> IF i < set.partition THEN set.currentRev ELSE set.rev]
              \in PodTypes
      BY <3>1 DEF PodTypes, Phases
    <3> QED
      BY <2>2, <2>4, <3>2 DEF CreatePod
  <2>5. CASE PodGone(i)
    BY <1>1, <2>2, <2>5, StartType DEF PodGone
  <2>6. CASE DeletePod(i) \/ Disrupt(i)
    BY <2>3, <2>6 DEF DeletePod, Disrupt, Phases
  <2>7. CASE PodSettles(i)
    BY <2>3, <2>7 DEF PodSettles, Phases
  <2>8. CASE ProxyLeaves(i)
    <3> DEFINE f == IF pods[i].phase = "ready" THEN "starting" ELSE pods[i].phase
    <3>1. pods' = [pods EXCEPT ![i].phase = f]
      BY <2>8 DEF ProxyLeaves
    <3>2. f \in Phases
      BY <2>1 DEF Phases
    <3> HIDE DEF f
    <3> QED
      BY <2>3, <3>1, <3>2
  <2>9. CASE KeepaliveDrops(i)
    BY <1>2, <2>9 DEF KeepaliveDrops
  <2> QED
    BY <1>3, <2>4, <2>5, <2>6, <2>7, <2>8, <2>9 DEF Pods
<1>4. CASE OperatorStep \/ Fail
  BY <1>2, <1>4, OperatorFrame
<1>5. CASE UserEdits \/ SyncSet \/ UpdateStatus \/ \E i \in Ordinals : Elect(i)
  BY <1>2, <1>5 DEF UserEdits, SyncSet, UpdateStatus, Elect
<1> QED
  BY <1>3, <1>4, <1>5 DEF Next

LEMMA MapStep ==
    ASSUME TypeInv, Next
    PROVE  MapPart'
<1>1. MapPart /\ RunPart /\ ArgInv /\ scenario \in Scenarios /\ mem \in Wish
  BY TypeParts DEF TypeInv, TypeOK
<1>2. NoView \in Map /\ [pmap |-> pmap, primary |-> primary] \in Map
  BY <1>1, NoViewType DEF MapPart, Map, MapTypes
<1>3. \A i \in Ordinals : \A x \in {"absent", "active", "decommission"} :
          pmap' = [pmap EXCEPT ![i] = x] => pmap' \in MapTypes
  BY <1>1 DEF MapPart, MapTypes
<1>4. CASE OperatorStep \/ Fail
  <2>1. view' \in Map
    BY <1>1, <1>2, <1>4, OperatorFrame DEF MapPart
  <2>2. CASE UNCHANGED ais
    BY <1>1, <2>1, <2>2 DEF ais, MapPart
  <2>3. CASE \E next \in Steps : SetPrimaryTo("setFirst", next) \/ SetPrimaryTo("setHighest", next)
    <3>1. pmap' = pmap /\ (UNCHANGED <<primary, elected>> \/ (primary' = arg /\ elected' = FALSE))
      BY <2>3 DEF SetPrimaryTo
    <3>2. arg \in Ordinals
      BY <1>1, <2>3 DEF SetPrimaryTo, ArgInv
    <3> QED
      BY <1>1, <2>1, <3>1, <3>2 DEF MapPart
  <2>4. CASE SetLowestEligiblePodAsPrimary
    <3>1. /\ pc = "choose" /\ pmap' = pmap
          /\ \/ UNCHANGED <<primary, elected>>
             \/ primary' = arg /\ elected' = FALSE /\ arg # mem.size
      BY <2>4 DEF SetLowestEligiblePodAsPrimary
    <3>2. arg \in 0..mem.size /\ mem.size \in 1..MaxSize
      BY <1>1, <3>1 DEF ArgInv, Wish
    <3>3. arg # mem.size => arg \in Ordinals
      BY <3>2, ProxySizeAssumption DEF Ordinals
    <3> QED
      BY <1>1, <2>1, <3>1, <3>3 DEF MapPart
  <2>5. CASE DecommissionProxies
    <3>1. /\ primary' = primary /\ elected' = elected
          /\ \/ pmap' = pmap
             \/ arg >= mem.size /\ pmap' = [pmap EXCEPT ![arg] = "decommission"]
      BY <1>1, <2>5 DEF DecommissionProxies, RunPart, Wish
    <3>2. pmap' \in MapTypes
      BY <1>1, <3>1 DEF MapPart, MapTypes
    <3> QED
      BY <1>1, <2>1, <3>1, <3>2 DEF MapPart
  <2>6. CASE HandleProxyState \/ SyncProxyPVCRetentionPolicy \/ Fail
    BY <2>2, <2>6 DEF HandleProxyState, SyncProxyPVCRetentionPolicy, Fail
  <2>7. CASE SyncProxyPodSpec \/ HandleProxyRollout
    BY <2>2, <2>3, <2>7 DEF SyncProxyPodSpec, HandleProxyRollout, PatchTemplate,
                            ResetSSPartition, Steps
  <2>8. CASE PrepareProxyScaleDown \/ Resize
    BY <2>2, <2>8 DEF PrepareProxyScaleDown, Resize
  <2> QED
    BY <1>4, <2>4, <2>5, <2>6, <2>7, <2>8 DEF OperatorStep, HandleProxyScale
<1>5. CASE Environment
  <2>1. view' = view
    BY <1>5, EnvironmentFrame DEF operator
  <2>2. CASE UNCHANGED ais
    BY <1>1, <2>1, <2>2 DEF ais, MapPart
  <2>3. CASE UserEdits \/ SyncSet \/ UpdateStatus
    BY <2>2, <2>3 DEF UserEdits, SyncSet, UpdateStatus
  <2>4. ASSUME NEW i \in Ordinals, Pods(i) \/ Disrupt(i)
        PROVE  MapPart'
    <3>1. CASE CreatePod(i) \/ DeletePod(i) \/ PodGone(i) \/ Disrupt(i)
      BY <2>2, <3>1 DEF CreatePod, DeletePod, PodGone, Disrupt
    <3>2. CASE PodSettles(i) \/ ProxyLeaves(i) \/ KeepaliveDrops(i)
      <4>1. pmap[i] \in {"absent", "active", "decommission"}
        BY <1>1 DEF MapPart, MapTypes
      <4>2. \E x \in {"absent", "active", "decommission"} : pmap' = [pmap EXCEPT ![i] = x]
        BY <3>2, <4>1 DEF PodSettles, ProxyLeaves, KeepaliveDrops
      <4>3. primary' = primary /\ elected' = elected
        BY <3>2 DEF PodSettles, ProxyLeaves, KeepaliveDrops
      <4> QED
        BY <1>1, <1>3, <2>1, <4>2, <4>3 DEF MapPart
    <3> QED
      BY <2>4, <3>1, <3>2 DEF Pods
  <2>5. ASSUME NEW i \in Ordinals, Elect(i)
        PROVE  MapPart'
    BY <1>1, <1>3, <2>1, <2>5 DEF Elect, MapPart
  <2> QED
    BY <1>5, <2>3, <2>4, <2>5 DEF Environment
<1> QED
  BY <1>4, <1>5, NextSplit

(* A run of handleProxyState looks where there are proxies.                *)
LEMMA RunStep ==
    ASSUME TypeInv, Next
    PROVE  RunPart' /\ ArgInv'
<1>1. /\ RunPart /\ ArgInv /\ mem \in Wish /\ seen \in StatefulSet /\ cr \in Wish
      /\ setCached \in StatefulSet
  BY TypeParts DEF TypeInv, TypeOK
<1>2. /\ mem.size \in 1..MaxSize /\ seen.replicas \in 1..MaxSize
      /\ setCached.replicas \in 1..MaxSize /\ MaxSize \in Nat \ {0}
      /\ MaxFaults \in Nat /\ MaxDisruptions \in Nat
  BY <1>1, ProxySizeAssumption, ProxyBoundAssumption DEF Wish, StatefulSet
<1>3. CASE OperatorStep \/ Fail
  <2>1. disruptions' = disruptions
    BY <1>3, OperatorFrame
  <2>2. faults' \in 0..MaxFaults
    <3>1. faults' = faults \/ (faults < MaxFaults /\ faults' = faults + 1)
      BY <1>3 DEF OperatorStep, Fail, HandleProxyState, SyncProxyPodSpec, SetPrimaryTo,
                  PatchTemplate, SyncProxyPVCRetentionPolicy, HandleProxyRollout,
                  ResetSSPartition, HandleProxyScale, PrepareProxyScaleDown, Resize,
                  SetLowestEligiblePodAsPrimary, DecommissionProxies, counters
    <3> QED
      BY <1>1, <1>2, <3>1 DEF RunPart
  <2>3. pc' \in Steps /\ arg' \in -1..MaxSize /\ ArgInv' => RunPart' /\ ArgInv'
    BY <1>1, <2>1, <2>2 DEF RunPart
  <2>4. Return => pc' \in Steps /\ arg' \in -1..MaxSize /\ ArgInv'
    BY <1>2 DEF Return, Steps, ArgInv
  <2>5. CASE Return
    BY <2>3, <2>4, <2>5
  <2>6. CASE HandleProxyState
    <3>1. pc' \in Steps \ {"choose"}
      BY <2>6 DEF HandleProxyState, Choice, Steps
    <3>2. arg' \in Ordinals
      BY <1>2, <2>6 DEF HandleProxyState, Ordinals
    <3> QED
      BY <1>2, <2>3, <3>1, <3>2 DEF ArgInv, Ordinals
  <2>7. CASE SyncProxyPodSpec \/ HandleProxyRollout
    <3>1. Return \/ (pc' \in {"patchTemplate", "openPartition"} /\ arg' = arg)
      BY <2>7 DEF SyncProxyPodSpec, HandleProxyRollout, SetPrimaryTo, PatchTemplate,
                  ResetSSPartition, Goto
    <3> QED
      BY <1>1, <2>3, <2>5, <3>1 DEF ArgInv, RunPart, Steps
  <2>8. CASE SyncProxyPVCRetentionPolicy \/ Resize \/ Fail
    BY <2>5, <2>8 DEF SyncProxyPVCRetentionPolicy, Resize, Fail
  <2>9. CASE PrepareProxyScaleDown
    <3>1. \/ Return
          \/ pc' = "decommission" /\ arg' = seen.replicas - 1
          \/ pc' = "choose" /\ arg' = 0 /\ mem' = mem
      BY <2>9 DEF PrepareProxyScaleDown
    <3> QED
      BY <1>2, <2>3, <2>5, <3>1 DEF ArgInv, Steps
  <2>10. CASE SetLowestEligiblePodAsPrimary
    <3>1. /\ pc = "choose"
          /\ \/ Return
             \/ pc' = "decommission" /\ arg' = seen.replicas - 1
             \/ pc' = "choose" /\ arg' = arg + 1 /\ mem' = mem /\ arg # mem.size
      BY <2>10 DEF SetLowestEligiblePodAsPrimary, Goto
    <3>2. arg \in 0..mem.size
      BY <1>1, <3>1 DEF ArgInv
    <3> QED
      BY <1>2, <2>3, <2>5, <3>1, <3>2 DEF ArgInv, Steps
  <2>11. CASE DecommissionProxies
    <3>1. \/ pc' = "resize" /\ arg' = 0
          \/ pc' = "decommission" /\ arg' = arg - 1 /\ ~(arg < mem.size)
      BY <2>11 DEF DecommissionProxies, Goto
    <3>2. arg \in -1..MaxSize
      BY <1>1 DEF RunPart
    <3> QED
      BY <1>2, <2>3, <3>1, <3>2 DEF ArgInv, Steps
  <2> QED
    BY <1>3, <2>6, <2>7, <2>8, <2>9, <2>10, <2>11 DEF OperatorStep, HandleProxyScale
<1>4. CASE Environment
  <2>1. UNCHANGED <<pc, arg, mem, faults>>
    BY <1>4, EnvironmentFrame DEF operator
  <2>2. disruptions' = disruptions \/ (disruptions < MaxDisruptions /\ disruptions' = disruptions + 1)
    BY <1>4 DEF Environment, UserEdits, SyncSet, UpdateStatus, Pods, CreatePod, DeletePod,
                PodGone, PodSettles, ProxyLeaves, KeepaliveDrops, Elect, Disrupt, counters
  <2>3. disruptions' \in 0..MaxDisruptions
    BY <1>1, <1>2, <2>2 DEF RunPart
  <2> QED
    BY <1>1, <2>1, <2>3 DEF RunPart, ArgInv
<1> QED
  BY <1>3, <1>4, NextSplit

LEMMA TypeStep == TypeInv /\ [Next]_vars => TypeInv'
<1> SUFFICES ASSUME TypeInv, [Next]_vars PROVE TypeInv'
  OBVIOUS
<1>1. CASE Next
  <2>1. CRPart' /\ SetPart' /\ PodPart' /\ MapPart' /\ RunPart' /\ ArgInv'
    BY <1>1, CRStep, SetStep, PodStep, MapStep, RunStep
  <2>2. TypeOK'
    BY <2>1, TypeParts, PTL
  <2> QED
    BY <2>1, <2>2 DEF TypeInv
<1>2. CASE UNCHANGED vars
  BY <1>2 DEF vars, operator, ais, counters, TypeInv, TypeOK, ArgInv
<1> QED
  BY <1>1, <1>2

(* Whatever the scenario, the state has its types: no StatefulSet is       *)
(* scaled to nothing or beyond the sizes that users ask for, and the       *)
(* primary is never set to an ordinal that no proxy can have               *)
(* (setPrimaryTo, setLowestEligiblePodAsPrimary).                          *)
THEOREM ProxyTypes == Spec => []TypeOK
<1>1. Init => TypeInv
  BY TypeInit
<1>2. TypeInv /\ [Next]_vars => TypeInv'
  BY TypeStep
<1>3. TypeInv => TypeOK
  BY DEF TypeInv
<1> QED
  BY <1>1, <1>2, <1>3, PTL DEF Spec

-----------------------------------------------------------------------------
(***************************************************************************)
(* The policy for the claims comes before a scale-down.                    *)
(***************************************************************************)
(* What carries another policy than the cluster had at first.              *)
Changed(x) == x.keep # Start.keep

(* The user changes the policy at most once, among any number of edits.    *)
PolicyChangesOnce ==
    \A i, j \in 1..Len(scenario.wishes) :
        i <= j /\ Changed(scenario.wishes[i]) => Changed(scenario.wishes[j])

(* The steps of handleProxyScale.                                          *)
Scaling == {"readMap", "choose", "decommission", "resize"}

(* The change of the policy goes one way, from the CR through the memory   *)
(* of a reconcile to the StatefulSet and on to its cached copy: whoever    *)
(* has it got it from one that still has it.  So a reconcile that scales   *)
(* has the policy of the StatefulSet, though it read a stale copy.         *)
PolicyInv ==
    /\ PolicyChangesOnce
    /\ cr = Start \/ (edits \in 1..Len(scenario.wishes) /\ cr = scenario.wishes[edits])
    /\ Changed(setCached) => Changed(set)
    /\ Changed(set) => Changed(cr)
    /\ pc # "idle" /\ Changed(mem) => Changed(cr)
    /\ pc # "idle" /\ Changed(set) => Changed(mem)
    /\ pc \in Scaling /\ Changed(mem) => Changed(set)

LEMMA PolicyInit == Init /\ PolicyChangesOnce => PolicyInv
<1> SUFFICES ASSUME Init, PolicyChangesOnce PROVE PolicyInv
  OBVIOUS
<1>1. cr = Start /\ mem = Start /\ set = StartSet /\ setCached = StartSet /\ pc = "idle"
  BY DEF Init
<1>2. ~Changed(Start) /\ ~Changed(StartSet)
  BY DEF Changed, StartSet
<1> QED
  BY <1>1, <1>2 DEF PolicyInv, Scaling

(* Scaling starts under the policy of the cached StatefulSet.              *)
LEMMA ScalingStarts ==
    ASSUME HandleProxyState, pc' \in Scaling
    PROVE  mem'.keep = setCached.keep
  BY DEF HandleProxyState, Choice, Scaling

(* The policy in the StatefulSet is written by one step of the operator.   *)
LEMMA PolicyWrites ==
    ASSUME TypeInv, OperatorStep \/ Fail
    PROVE  \/ set'.keep = set.keep
           \/ pc # "idle" /\ pc' = "idle" /\ set'.keep = mem.keep
<1>1. set \in StatefulSet
  BY DEF TypeInv, TypeOK
<1>2. CASE SyncProxyPVCRetentionPolicy
  <2>1. set' = [set EXCEPT !.keep = mem.keep, !.observed = @ /\ set.keep = mem.keep]
    BY <1>2 DEF SyncProxyPVCRetentionPolicy
  <2>2. set'.keep = mem.keep
    BY <1>1, <2>1 DEF StatefulSet
  <2> QED
    BY <1>2, <2>2 DEF SyncProxyPVCRetentionPolicy, Return
<1>3. CASE PatchTemplate
  <2> DEFINE new == [set EXCEPT !.rev = mem.rev,
                                !.partition = IF seen.ready > 0 /\ seen.partition # 1
                                              THEN 1 ELSE @]
  <2>1. set' = [new EXCEPT !.observed = @ /\ new = set]
    BY <1>3 DEF PatchTemplate
  <2>2. new.keep = set.keep
    BY <1>1 DEF StatefulSet
  <2>3. set'.keep = new.keep
    <3>1. DOMAIN new = DOMAIN set /\ "keep" \in DOMAIN set
      BY <1>1 DEF StatefulSet
    <3> HIDE DEF new
    <3> QED
      BY <2>1, <3>1
  <2> QED
    BY <2>2, <2>3
<1>4. CASE ResetSSPartition
  <2>1. set' = [set EXCEPT !.partition = 0, !.observed = @ /\ set.partition = 0]
    BY <1>4 DEF ResetSSPartition
  <2> QED
    BY <1>1, <2>1 DEF StatefulSet
<1>5. CASE Resize
  <2>1. \/ set' = set
        \/ set' = [set EXCEPT !.replicas = mem.size, !.observed = @ /\ set.replicas = mem.size]
    BY <1>5 DEF Resize
  <2> QED
    BY <1>1, <2>1 DEF StatefulSet
<1>6. CASE set' = set
  BY <1>6
<1> QED
  BY <1>2, <1>3, <1>4, <1>5, <1>6
     DEF OperatorStep, Fail, HandleProxyState, SyncProxyPodSpec, SetPrimaryTo,
         HandleProxyRollout, HandleProxyScale, PrepareProxyScaleDown,
         SetLowestEligiblePodAsPrimary, DecommissionProxies

(* A reconcile goes on scaling, with the CR in its memory.                 *)
LEMMA RunGoesOn ==
    ASSUME OperatorStep \/ Fail, pc # "idle", pc' # "idle"
    PROVE  mem' = mem /\ (pc' \in Scaling => pc \in Scaling)
<1>1. CASE SyncProxyPodSpec \/ HandleProxyRollout
  BY <1>1 DEF SyncProxyPodSpec, HandleProxyRollout, SetPrimaryTo, PatchTemplate,
              ResetSSPartition, Return, Goto, Scaling
<1>2. CASE PrepareProxyScaleDown \/ SetLowestEligiblePodAsPrimary \/ DecommissionProxies
  BY <1>2 DEF PrepareProxyScaleDown, SetLowestEligiblePodAsPrimary, DecommissionProxies,
              Return, Goto, Scaling
<1>3. CASE Resize \/ SyncProxyPVCRetentionPolicy \/ Fail \/ HandleProxyState
  BY <1>3 DEF Resize, SyncProxyPVCRetentionPolicy, Fail, HandleProxyState, Return
<1> QED
  BY <1>1, <1>2, <1>3 DEF OperatorStep, HandleProxyScale

LEMMA PolicyOperator ==
    ASSUME TypeInv, PolicyInv, OperatorStep \/ Fail
    PROVE  PolicyInv'
<1>1. /\ scenario' = scenario /\ cr' = cr /\ edits' = edits /\ setCached' = setCached
      /\ Start' = Start
  BY OperatorFrame DEF Start
<1>2. PolicyChangesOnce'
  BY <1>1 DEF PolicyInv, PolicyChangesOnce, Changed
<1>3. cr' = Start' \/ (edits' \in 1..Len(scenario'.wishes) /\ cr' = scenario'.wishes[edits'])
  BY <1>1 DEF PolicyInv
<1>4. /\ set.keep \in BOOLEAN /\ setCached.keep \in BOOLEAN /\ mem.keep \in BOOLEAN
      /\ cr.keep \in BOOLEAN /\ Start.keep \in BOOLEAN
  BY StartType DEF TypeInv, TypeOK, StatefulSet, Wish
<1>5. CASE pc = "idle"
  <2>1. HandleProxyState
    BY <1>5 DEF OperatorStep, Fail, HandleProxyState, SyncProxyPodSpec, SetPrimaryTo,
         PatchTemplate, SyncProxyPVCRetentionPolicy, HandleProxyRollout, ResetSSPartition,
         HandleProxyScale, PrepareProxyScaleDown, SetLowestEligiblePodAsPrimary,
         DecommissionProxies, Resize
  <2>2. mem' = cr /\ set' = set
    BY <2>1 DEF HandleProxyState
  <2>3. pc' \in Scaling => mem'.keep = setCached.keep
    BY <2>1, ScalingStarts
  <2> QED
    BY <1>1, <1>2, <1>3, <2>2, <2>3 DEF PolicyInv, Changed
<1>6. CASE pc # "idle" /\ pc' = "idle"
  <2>1. set'.keep = set.keep \/ set'.keep = mem.keep
    BY PolicyWrites
  <2>2. Changed(set)' => Changed(cr)'
    BY <1>1, <1>6, <2>1 DEF PolicyInv, Changed
  <2>3. Changed(setCached)' => Changed(set)'
    \* the step that writes the policy of the CR in memory
    BY <1>1, <1>4, <1>6, <2>1 DEF PolicyInv, Changed
  <2> QED
    BY <1>2, <1>3, <1>6, <2>2, <2>3 DEF PolicyInv, Scaling
<1>7. CASE pc # "idle" /\ pc' # "idle"
  <2>1. set'.keep = set.keep
    BY <1>7, PolicyWrites
  <2>2. mem' = mem /\ (pc' \in Scaling => pc \in Scaling)
    BY <1>7, RunGoesOn
  <2> QED
    BY <1>1, <1>2, <1>3, <1>7, <2>1, <2>2 DEF PolicyInv, Changed
<1> QED
  BY <1>5, <1>6, <1>7

LEMMA PolicyEnvironment ==
    ASSUME TypeInv, PolicyInv, Environment
    PROVE  PolicyInv'
<1>1. scenario' = scenario /\ pc' = pc /\ mem' = mem /\ Start' = Start
  BY EnvironmentFrame DEF operator, Start
<1>2. PolicyChangesOnce'
  BY <1>1 DEF PolicyInv, PolicyChangesOnce, Changed
<1>3. set'.keep = set.keep
  <2>1. CASE UpdateStatus
    BY <2>1, StatusType
  <2> QED
    BY <2>1, EnvironmentFrame
<1>4. CASE UserEdits
  <2>1. /\ edits' = edits + 1 /\ edits < Len(scenario.wishes)
        /\ cr' = scenario.wishes[edits'] /\ setCached' = setCached
    BY <1>4 DEF UserEdits
  <2>2. edits \in 0..Len(scenario.wishes) /\ Len(scenario.wishes) \in Nat
    BY StartType DEF TypeInv, TypeOK
  <2>3. edits' \in 1..Len(scenario.wishes)
    BY <2>1, <2>2
  <2>4. Changed(cr) => Changed(cr')
    <3>1. CASE cr = Start
      BY <3>1 DEF Changed
    <3>2. CASE edits \in 1..Len(scenario.wishes) /\ cr = scenario.wishes[edits]
      <4>1. edits <= edits'
        BY <2>1, <3>2
      <4> QED
        BY <2>1, <2>3, <3>2, <4>1 DEF PolicyInv, PolicyChangesOnce
    <3> QED
      BY <3>1, <3>2 DEF PolicyInv
  <2> QED
    BY <1>1, <1>2, <1>3, <2>1, <2>3, <2>4 DEF PolicyInv, Changed
<1>5. CASE cr' = cr /\ edits' = edits
  <2>1. setCached' = set \/ setCached' = setCached
    BY EnvironmentFrame DEF SyncSet
  <2> QED
    BY <1>1, <1>2, <1>3, <1>5, <2>1 DEF PolicyInv, Changed
<1> QED
  BY <1>4, <1>5, EnvironmentFrame

(* Replicas only shrink while a reconcile scales.                          *)
LEMMA ShrinkScales ==
    ASSUME TypeInv, Next, set'.replicas < set.replicas
    PROVE  pc \in Scaling
<1>1. set \in StatefulSet /\ set.replicas \in Int
  BY ProxySizeAssumption DEF TypeInv, TypeOK, StatefulSet
<1>2. set'.replicas # set.replicas
  BY <1>1
<1>3. CASE PatchTemplate
  <2> DEFINE new == [set EXCEPT !.rev = mem.rev,
                                !.partition = IF seen.ready > 0 /\ seen.partition # 1
                                              THEN 1 ELSE @]
  <2>1. set' = [new EXCEPT !.observed = @ /\ new = set]
    BY <1>3 DEF PatchTemplate
  <2>2. new.replicas = set.replicas
    BY <1>1 DEF StatefulSet
  <2>3. set'.replicas = new.replicas
    <3>1. DOMAIN new = DOMAIN set /\ "replicas" \in DOMAIN set
      BY <1>1 DEF StatefulSet
    <3> HIDE DEF new
    <3> QED
      BY <2>1, <3>1
  <2> QED
    BY <1>2, <2>2, <2>3
<1>4. CASE SyncProxyPVCRetentionPolicy
  <2>1. set' = [set EXCEPT !.keep = mem.keep, !.observed = @ /\ set.keep = mem.keep]
    BY <1>4 DEF SyncProxyPVCRetentionPolicy
  <2> QED
    BY <1>1, <1>2, <2>1 DEF StatefulSet
<1>5. CASE ResetSSPartition
  <2>1. set' = [set EXCEPT !.partition = 0, !.observed = @ /\ set.partition = 0]
    BY <1>5 DEF ResetSSPartition
  <2> QED
    BY <1>1, <1>2, <2>1 DEF StatefulSet
<1>6. CASE UpdateStatus
  BY <1>2, <1>6, StatusType
<1>7. CASE Resize
  BY <1>7 DEF Resize, Scaling
<1>8. CASE set' = set
  BY <1>2, <1>8
<1>9. CASE OperatorStep \/ Fail
  BY <1>3, <1>4, <1>5, <1>7, <1>8, <1>9
     DEF OperatorStep, Fail, HandleProxyState, SyncProxyPodSpec, SetPrimaryTo,
         HandleProxyRollout, HandleProxyScale, PrepareProxyScaleDown,
         SetLowestEligiblePodAsPrimary, DecommissionProxies
<1>10. CASE Environment
  BY <1>6, <1>8, <1>10, EnvironmentFrame
<1> QED
  BY <1>9, <1>10, NextSplit

(* Of a policy that the user changes once, among any number of edits of    *)
(* size, template and policy, every scale-down is done under what the      *)
(* reconcile that decided it wants, whatever the lag of the cache, the     *)
(* failed calls and the crashes (syncProxyPVCRetentionPolicy before        *)
(* handleProxyScale).                                                      *)
THEOREM PolicyFirst == Spec /\ PolicyChangesOnce => PolicyBeforeScaleDown
<1> DEFINE Inv == TypeInv /\ PolicyInv
<1>1. Init /\ PolicyChangesOnce => Inv
  BY TypeInit, PolicyInit
<1>2. Inv /\ [Next]_vars => Inv'
  <2> SUFFICES ASSUME Inv, [Next]_vars PROVE Inv'
    OBVIOUS
  <2>1. TypeInv'
    BY TypeStep
  <2>2. PolicyInv'
    <3>1. CASE Next
      BY <3>1, NextSplit, PolicyOperator, PolicyEnvironment
    <3>2. CASE UNCHANGED vars
      BY <3>2 DEF vars, operator, ais, counters, PolicyInv, PolicyChangesOnce, Changed, Start
    <3> QED
      BY <3>1, <3>2
  <2> QED
    BY <2>1, <2>2
<1>3. Inv /\ [Next]_vars => [set'.replicas < set.replicas => set.keep = mem.keep]_set
  <2> SUFFICES ASSUME Inv, Next, set'.replicas < set.replicas
               PROVE  set.keep = mem.keep
    BY DEF vars
  <2>1. pc \in Scaling
    BY ShrinkScales
  <2>2. set.keep \in BOOLEAN /\ mem.keep \in BOOLEAN /\ Start.keep \in BOOLEAN
    BY StartType DEF TypeInv, TypeOK, StatefulSet, Wish
  <2>3. Changed(mem) <=> Changed(set)
    BY <2>1 DEF PolicyInv, Scaling
  <2> QED
    BY <2>2, <2>3 DEF Changed
<1> HIDE DEF Inv
<1> QED
  BY <1>1, <1>2, <1>3, PTL DEF Spec, PolicyBeforeScaleDown

-----------------------------------------------------------------------------
(***************************************************************************)
(* The primary is moved before its pod is deleted.                         *)
(***************************************************************************)
Goal     == scenario.wishes[1]
Upgrades == Goal.rev # Start.rev

(* The user edits the cluster once.  An upgrade is one of several proxies, *)
(* not all of which restart by themselves: the only proxy is replaced as   *)
(* the primary, and with no proxy ready the operator rolls all of them out *)
(* unprotected.                                                            *)
SingleEdit ==
    /\ Len(scenario.wishes) = 1
    /\ Upgrades => Start.size > 1 /\ MaxDisruptions < Start.size

(* Pod i is not, or no longer, one of the old template.                    *)
Replaced(i) == ~(IsActive(pods[i]) /\ pods[i].rev = Start.rev)

(* An upgrade goes through three phases: before the template is patched,   *)
(* with the partition closed, with the partition opened.                   *)
Phase(x) == IF x.rev = Start.rev THEN 0 ELSE IF x.partition = 1 THEN 1 ELSE 2

(* What holds of the StatefulSet and of every copy of it: where its fields *)
(* come from, and that a status that calls for the partition to be opened  *)
(* is one of a set whose highest pod has been replaced.                    *)
CopyInv(x) ==
    /\ x.rev \in {Start.rev, Goal.rev} /\ x.replicas \in {Start.size, Goal.size}
    /\ ~Upgrades => x.partition = 0
    /\ Upgrades /\ x.rev = Start.rev =>
          /\ x.partition = 0 /\ x.replicas = Start.size /\ x.pods = Start.size
          /\ x.ready > 0 /\ x.current # 1 /\ x.currentRev = Start.rev
    /\ Upgrades /\ x.rev = Goal.rev /\ x.observed => x.updateRev = Goal.rev
    /\ x.partition = 1 =>
          /\ x.replicas = Start.size /\ x.currentRev = Start.rev
          /\ x.current = 1 => Replaced(Start.size - 1)

(* Copies are of the past, at most by one phase in the cache; the phases   *)
(* of an upgrade only go on, and the set is scaled at their end.           *)
OrderInv ==
    /\ CopyInv(set) /\ CopyInv(setCached) /\ CopyInv(seen)
    /\ Phase(seen) <= Phase(setCached) /\ Phase(setCached) <= Phase(set)
    /\ Phase(set) <= Phase(setCached) + 1
    /\ Upgrades /\ set.replicas # Start.size => Phase(setCached) = 2

(* Before the edit nothing happens; a reconcile works on the edited CR.    *)
EditInv ==
    /\ SingleEdit
    /\ \/ edits = 0 /\ cr = Start /\ pc = "idle"
          /\ \A x \in {set, setCached} :
                x.rev = Start.rev /\ x.replicas = Start.size /\ x.keep = Start.keep
       \/ edits = 1 /\ cr = Goal
    /\ pc # "idle" => mem = Goal

Unready == {i \in 0..(Start.size - 1) : pods[i].phase # "ready"}

(* The pods: before the upgrade all are there and one is ready; until the  *)
(* partition is opened the first one is not touched.                       *)
RolledInv ==
    /\ \A i \in Ordinals : pods[i].rev \in {Start.rev, Goal.rev}
    /\ Upgrades /\ set.rev = Start.rev =>
          /\ \A i \in Ordinals : i < Start.size => IsActive(pods[i]) /\ pods[i].rev = Start.rev
          /\ \A i \in Ordinals : i >= Start.size => pods[i].phase = "none"
          /\ \A i \in Ordinals : pmap[i] # "decommission"
          /\ Cardinality(Unready) <= disruptions
    /\ set.partition = 1 => IsActive(pods[0]) /\ pods[0].rev = Start.rev

(* What a step of the operator rests on, from the steps before it.         *)
PrepareInv ==
    /\ pc \in {"setFirst", "patchTemplate"} =>
          Upgrades /\ seen.rev = Start.rev /\ Phase(set) <= 1
    /\ pc = "setFirst" => arg = 0
    /\ pc = "patchTemplate" /\ ~elected => primary = 0
    /\ pc \in {"setHighest", "openPartition"} =>
          seen.partition = 1 /\ seen.current = 1 /\ set.replicas = Start.size
    /\ pc = "setHighest" => arg = Start.size - 1
    /\ pc = "openPartition" /\ ~elected => Replaced(primary)
    /\ pc \in Scaling /\ Upgrades =>
          seen.rev = Goal.rev /\ seen.partition = 0 /\ seen.updateRev = Goal.rev
    /\ pc \in Scaling \ {"resize"} => Goal.size < Start.size
    /\ pc \in {"decommission", "resize"} /\ Goal.size < Start.size /\ ~elected =>
          primary < Goal.size

(* A primary that the operator chose is not one of the pods that go: it is *)
(* below the replicas, and during an upgrade it is replaced already or it  *)
(* is the first, behind the partition.                                     *)
PrimaryInv ==
    ~elected =>
       /\ primary < set.replicas
       /\ Upgrades /\ set.rev = Goal.rev =>
             Replaced(primary) \/ (set.partition = 1 /\ primary = 0)

PrimaryParts == OrderInv /\ EditInv /\ RolledInv /\ PrepareInv /\ PrimaryInv

(***************************************************************************)
(* Types, and what does not change.                                        *)
(***************************************************************************)
LEMMA GoalType ==
    ASSUME TypeInv, SingleEdit
    PROVE  /\ Goal \in Wish /\ Goal.size \in 1..MaxSize /\ Goal.rev \in Revs
           /\ Start.size \in 1..MaxSize /\ Start.rev \in Revs /\ MaxSize \in Nat
           /\ edits \in 0..1
<1>1. scenario \in Scenarios /\ edits \in 0..Len(scenario.wishes)
  BY DEF TypeInv, TypeOK
<1>2. scenario.wishes \in Seq(Wish) /\ Len(scenario.wishes) = 1
  BY <1>1, StartType DEF SingleEdit
<1>3. Goal \in Wish
  BY <1>2 DEF Goal
<1> QED
  BY <1>1, <1>2, <1>3, StartType, ProxySizeAssumption DEF Wish

LEMMA ScenarioFrame ==
    ASSUME scenario' = scenario
    PROVE  /\ Start' = Start /\ Goal' = Goal /\ StartSet' = StartSet
           /\ (Upgrades' <=> Upgrades) /\ (SingleEdit' <=> SingleEdit)
  BY DEF Start, Goal, StartSet, Upgrades, SingleEdit

LEMMA StepFrame ==
    ASSUME Next
    PROVE  scenario' = scenario
  BY NextSplit, OperatorFrame, EnvironmentFrame

LEMMA FieldTypes ==
    ASSUME NEW x \in StatefulSet
    PROVE  /\ x.replicas \in 1..MaxSize /\ x.rev \in Revs /\ x.partition \in {0, 1}
           /\ x.keep \in BOOLEAN /\ x.observed \in BOOLEAN /\ x.pods \in Sizes
           /\ x.ready \in Sizes /\ x.current \in Sizes /\ x.updateRev \in Revs
           /\ x.currentRev \in Revs
  BY DEF StatefulSet

(* The status that the operator leaves alone.                              *)
SameStatus ==
    /\ set'.pods = set.pods /\ set'.ready = set.ready /\ set'.current = set.current
    /\ set'.currentRev = set.currentRev /\ set'.updateRev = set.updateRev
    /\ set'.observed => set.observed /\ set'.rev = set.rev

(* The steps of the operator that write the StatefulSet, field by field.   *)
LEMMA OperatorWrites ==
    ASSUME TypeInv, OperatorStep \/ Fail
    PROVE  \/ set' = set
           \/ /\ SameStatus /\ Return /\ UNCHANGED ais
              /\ \/ /\ pc = "patchTemplate" /\ set'.rev = mem.rev
                    /\ set'.replicas = set.replicas /\ set'.keep = set.keep
                    /\ set'.partition = IF seen.ready > 0 /\ seen.partition # 1
                                        THEN 1 ELSE set.partition
                 \/ /\ pc = "patchPolicy" /\ set'.rev = set.rev
                    /\ set'.replicas = set.replicas /\ set'.partition = set.partition
                 \/ /\ pc = "openPartition" /\ set'.rev = set.rev
                    /\ set'.replicas = set.replicas /\ set'.partition = 0
                 \/ /\ pc = "resize" /\ set'.rev = set.rev
                    /\ set'.replicas = mem.size /\ set'.partition = set.partition
<1>1. set \in StatefulSet /\ set.observed \in BOOLEAN
  BY DEF TypeInv, TypeOK, StatefulSet
<1>2. CASE PatchTemplate
  <2> DEFINE p   == IF seen.ready > 0 /\ seen.partition # 1 THEN 1 ELSE set.partition
             new == [set EXCEPT !.rev = mem.rev, !.partition = p]
             o   == set.observed /\ new = set
  <2>1. set' = [new EXCEPT !.observed = new.observed /\ new = set]
    BY <1>2 DEF PatchTemplate
  <2>2. new.observed = set.observed
    BY <1>1 DEF StatefulSet
  <2>3. set' = [set EXCEPT !.rev = mem.rev, !.partition = p, !.observed = o]
    BY <2>1, <2>2
  <2>4. o => set.observed /\ mem.rev = set.rev
    BY <1>1 DEF StatefulSet
  <2> HIDE DEF p, o
  <2>5. SameStatus /\ set'.rev = mem.rev /\ set'.replicas = set.replicas
        /\ set'.keep = set.keep /\ set'.partition = p
    BY <1>1, <2>3, <2>4 DEF StatefulSet, SameStatus
  <2> QED
    BY <1>2, <2>5 DEF p, PatchTemplate
<1>3. CASE SyncProxyPVCRetentionPolicy
  <2>1. set' = [set EXCEPT !.keep = mem.keep, !.observed = set.observed /\ set.keep = mem.keep]
    BY <1>3 DEF SyncProxyPVCRetentionPolicy
  <2>2. SameStatus /\ set'.rev = set.rev /\ set'.replicas = set.replicas
        /\ set'.partition = set.partition
    BY <1>1, <2>1 DEF StatefulSet, SameStatus
  <2> QED
    BY <1>3, <2>2 DEF SyncProxyPVCRetentionPolicy
<1>4. CASE ResetSSPartition
  <2>1. set' = [set EXCEPT !.partition = 0, !.observed = set.observed /\ set.partition = 0]
    BY <1>4 DEF ResetSSPartition
  <2>2. SameStatus /\ set'.rev = set.rev /\ set'.replicas = set.replicas /\ set'.partition = 0
    BY <1>1, <2>1 DEF StatefulSet, SameStatus
  <2> QED
    BY <1>4, <2>2 DEF ResetSSPartition
<1>5. CASE Resize
  <2>1. CASE set' = [set EXCEPT !.replicas = mem.size,
                                !.observed = set.observed /\ set.replicas = mem.size]
    <3>1. SameStatus /\ set'.rev = set.rev /\ set'.replicas = mem.size
          /\ set'.partition = set.partition
      BY <1>1, <2>1 DEF StatefulSet, SameStatus
    <3> QED
      BY <1>5, <3>1 DEF Resize
  <2> QED
    BY <1>5, <2>1 DEF Resize
<1>6. CASE set' = set
  BY <1>6
<1> QED
  BY <1>2, <1>3, <1>4, <1>5, <1>6
     DEF OperatorStep, Fail, HandleProxyState, SyncProxyPodSpec, SetPrimaryTo,
         HandleProxyRollout, HandleProxyScale, PrepareProxyScaleDown,
         SetLowestEligiblePodAsPrimary, DecommissionProxies

(* The ordinals whose pods a status counts.                                *)
Existing   == {i \in Ordinals : pods[i].phase # "none"}
ReadyPods  == {i \in Ordinals : pods[i].phase = "ready"}
ActiveOn(r) == {i \in Ordinals : IsActive(pods[i]) /\ pods[i].rev = r}

LEMMA StatusFacts ==
    ASSUME TypeInv, UpdateStatus
    PROVE  /\ set'.rev = set.rev /\ set'.partition = set.partition
           /\ set'.replicas = set.replicas /\ set'.keep = set.keep
           /\ set'.updateRev = set.rev
           /\ set'.pods = Cardinality(Existing) /\ set'.ready = Cardinality(ReadyPods)
           /\ set'.current = Cardinality(ActiveOn(set'.currentRev))
           /\ \/ set'.currentRev = set.currentRev
              \/ /\ set'.currentRev = set.rev
                 /\ Cardinality(Existing) = Cardinality(ActiveOn(set.rev))
<1> DEFINE Exists(p)  == p.phase # "none"
           IsReady(p) == p.phase = "ready"
           Updated(p) == IsActive(p) /\ p.rev = set.rev
           complete   == \A n \in {Count(Exists), Count(IsReady), Count(Updated)} :
                             n = set.replicas
           currentRev == IF complete THEN set.rev ELSE set.currentRev
           Current(p) == IsActive(p) /\ p.rev = currentRev
           ce == Count(Exists)
           cy == Count(IsReady)
           cu == Count(Updated)
           cc == Count(Current)
<1>1. set \in StatefulSet
  BY DEF TypeInv, TypeOK
<1>2. set' = [set EXCEPT !.observed = TRUE, !.updateRev = set.rev,
                         !.currentRev = currentRev, !.pods = ce,
                         !.ready = cy, !.updated = cu, !.current = cc]
  BY DEF UpdateStatus
<1>3. ce = Cardinality(Existing) /\ cy = Cardinality(ReadyPods)
      /\ cu = Cardinality(ActiveOn(set.rev)) /\ cc = Cardinality(ActiveOn(currentRev))
  BY DEF Count, Existing, ReadyPods, ActiveOn
<1>4. currentRev = set.currentRev \/ (currentRev = set.rev /\ ce = cu)
  BY DEF currentRev
<1> HIDE DEF currentRev, ce, cy, cu, cc
<1>5. /\ set'.rev = set.rev /\ set'.partition = set.partition
      /\ set'.replicas = set.replicas /\ set'.keep = set.keep
      /\ set'.updateRev = set.rev /\ set'.currentRev = currentRev /\ set'.pods = ce
      /\ set'.ready = cy /\ set'.current = cc
  BY <1>1, <1>2 DEF StatefulSet
<1> QED
  BY <1>3, <1>4, <1>5

(***************************************************************************)
(* The pods.                                                               *)
(***************************************************************************)
(* What happens to pod j in a step.                                        *)
LEMMA PodChange ==
    ASSUME TypeInv, Next, NEW j \in Ordinals
    PROVE  \/ pods'[j] = pods[j]
           \/ CreatePod(j) \/ DeletePod(j) \/ PodGone(j)
           \/ IsActive(pods[j]) /\ IsActive(pods'[j]) /\ pods'[j].rev = pods[j].rev
<1>1. pods \in [Ordinals -> [phase : Phases, rev : Revs]]
  BY DEF TypeInv, TypeOK
<1>2. CASE pods' = pods
  BY <1>2
<1>3. ASSUME NEW i \in Ordinals, NEW f, pods' = [pods EXCEPT ![i].phase = f],
             f = pods[i].phase \/ (f \in {"starting", "ready", "crash"} /\ IsActive(pods[i]))
      PROVE  \/ pods'[j] = pods[j]
             \/ IsActive(pods[j]) /\ IsActive(pods'[j]) /\ pods'[j].rev = pods[j].rev
  <2>1. CASE i # j
    BY <1>1, <1>3, <2>1
  <2>2. CASE i = j
    <3>1. pods'[j].phase = f /\ pods'[j].rev = pods[j].rev
      BY <1>1, <1>3, <2>2
    <3>2. CASE f = pods[i].phase
      BY <1>1, <1>3, <2>2, <3>2
    <3>3. CASE f \in {"starting", "ready", "crash"} /\ IsActive(pods[i])
      BY <2>2, <3>1, <3>3 DEF IsActive
    <3> QED
      BY <1>3, <3>2, <3>3
  <2> QED
    BY <2>1, <2>2
<1>4. ASSUME NEW i \in Ordinals, Pods(i) \/ Disrupt(i)
      PROVE  \/ pods'[j] = pods[j]
             \/ CreatePod(j) \/ DeletePod(j) \/ PodGone(j)
             \/ IsActive(pods[j]) /\ IsActive(pods'[j]) /\ pods'[j].rev = pods[j].rev
  <2>1. CASE CreatePod(i) \/ DeletePod(i) \/ PodGone(i)
    <3>1. i # j => pods'[j] = pods[j]
      BY <1>1, <2>1 DEF CreatePod, DeletePod, PodGone
    <3> QED
      BY <2>1, <3>1
  <2>2. CASE PodSettles(i)
    <3> DEFINE f == IF Serving(pods[i].rev) THEN "ready" ELSE "crash"
    <3>1. pods' = [pods EXCEPT ![i].phase = f] /\ IsActive(pods[i])
      BY <2>2 DEF PodSettles, IsActive
    <3> QED
      BY <1>3, <3>1
  <2>3. CASE ProxyLeaves(i)
    <3> DEFINE f == IF pods[i].phase = "ready" THEN "starting" ELSE pods[i].phase
    <3>1. pods' = [pods EXCEPT ![i].phase = f]
      BY <2>3 DEF ProxyLeaves
    <3>2. f = pods[i].phase \/ (f = "starting" /\ IsActive(pods[i]))
      BY DEF IsActive
    <3> HIDE DEF f
    <3> QED
      BY <1>3, <3>1, <3>2
  <2>4. CASE Disrupt(i)
    <3>1. pods' = [pods EXCEPT ![i].phase = "starting"] /\ IsActive(pods[i])
      BY <2>4 DEF Disrupt, IsActive
    <3> QED
      BY <1>3, <3>1
  <2>5. CASE KeepaliveDrops(i)
    BY <1>2, <2>5 DEF KeepaliveDrops
  <2> QED
    BY <1>4, <2>1, <2>2, <2>3, <2>4, <2>5 DEF Pods
<1>5. CASE OperatorStep \/ Fail
  BY <1>2, <1>5, OperatorFrame
<1>6. CASE UserEdits \/ SyncSet \/ UpdateStatus \/ \E i \in Ordinals : Elect(i)
  BY <1>2, <1>6 DEF UserEdits, SyncSet, UpdateStatus, Elect
<1> QED
  BY <1>4, <1>5, <1>6 DEF Next

(* A pod that is replaced stays so while the template is the new one.      *)
LEMMA ReplacedStays ==
    ASSUME TypeInv, RolledInv, Next, Upgrades, set.rev = Goal.rev,
           NEW j \in Ordinals, Replaced(j)
    PROVE  Replaced(j)'
<1>1. Start' = Start /\ pods \in [Ordinals -> [phase : Phases, rev : Revs]]
  BY StepFrame, ScenarioFrame DEF TypeInv, TypeOK
<1>2. CASE CreatePod(j)
  <2>1. pods'[j].rev = IF j < set.partition THEN set.currentRev ELSE set.rev
    BY <1>1, <1>2 DEF CreatePod
  <2>2. ~(j < set.partition)
    <3>1. set.partition \in {0, 1} /\ j \in Nat
      BY FieldTypes, ProxySizeAssumption DEF TypeInv, TypeOK, Ordinals
    <3>2. pods[j].phase = "none"
      BY <1>2 DEF CreatePod
    <3> QED
      BY <3>1, <3>2 DEF RolledInv, IsActive
  <2> QED
    BY <1>1, <2>1, <2>2 DEF Replaced, Upgrades
<1>3. CASE DeletePod(j)
  <2>1. pods'[j].phase = "terminating"
    BY <1>1, <1>3 DEF DeletePod
  <2> QED
    BY <2>1 DEF Replaced, IsActive
<1>4. CASE PodGone(j)
  <2>1. pods'[j].phase = "none"
    BY <1>1, <1>4 DEF PodGone, NoPod
  <2> QED
    BY <2>1 DEF Replaced, IsActive
<1>5. CASE pods'[j] = pods[j]
  BY <1>1, <1>5 DEF Replaced
<1>6. CASE IsActive(pods[j]) /\ IsActive(pods'[j]) /\ pods'[j].rev = pods[j].rev
  BY <1>1, <1>6 DEF Replaced
<1> QED
  BY <1>2, <1>3, <1>4, <1>5, <1>6, PodChange

(* Sets of ordinals are finite.                                            *)
LEMMA OrdinalSets ==
    /\ \A S \in SUBSET Ordinals : IsFiniteSet(S) /\ Cardinality(S) \in Nat
    /\ IsFiniteSet(Existing) /\ IsFiniteSet(ReadyPods)
    /\ \A r : IsFiniteSet(ActiveOn(r)) /\ ActiveOn(r) \subseteq Existing
<1>1. IsFiniteSet(Ordinals)
  BY ProxySizeAssumption, FS_Interval DEF Ordinals
<1>2. \A S \in SUBSET Ordinals : IsFiniteSet(S) /\ Cardinality(S) \in Nat
  BY <1>1, FS_Subset, FS_CardinalityType
<1>3. Existing \in SUBSET Ordinals /\ ReadyPods \in SUBSET Ordinals
  BY DEF Existing, ReadyPods
<1>4. \A r : ActiveOn(r) \in SUBSET Ordinals /\ ActiveOn(r) \subseteq Existing
  BY DEF ActiveOn, Existing, IsActive
<1> QED
  BY <1>2, <1>3, <1>4

(* Before the upgrade a status shows all pods and one that is ready.       *)
LEMMA StatusBefore ==
    ASSUME TypeInv, SingleEdit, RolledInv, Upgrades, set.rev = Start.rev
    PROVE  /\ Cardinality(Existing) = Start.size /\ Cardinality(ReadyPods) > 0
           /\ Cardinality(ActiveOn(Start.rev)) # 1
<1>1. /\ Start.size \in Nat /\ Start.size > 1 /\ Start.size <= MaxSize /\ MaxSize \in Nat
      /\ MaxDisruptions \in Nat /\ disruptions \in Nat /\ disruptions < Start.size
  BY GoalType, ProxyBoundAssumption DEF SingleEdit, TypeInv, TypeOK
<1>2. 0..(Start.size - 1) \subseteq Ordinals
  BY <1>1 DEF Ordinals
<1>3. IsFiniteSet(0..(Start.size - 1)) /\ Cardinality(0..(Start.size - 1)) = Start.size
  <2>1. 0 \in Int /\ Start.size - 1 \in Int
    BY <1>1
  <2>2. /\ IsFiniteSet(0..(Start.size - 1))
        /\ Cardinality(0..(Start.size - 1)) = IF 0 > Start.size - 1 THEN 0
                                              ELSE (Start.size - 1) - 0 + 1
    BY <2>1, FS_Interval
  <2> QED
    BY <1>1, <2>2
<1>4. Cardinality(Existing) = Start.size
  <2>1. Existing = 0..(Start.size - 1)
    BY <1>1, <1>2 DEF RolledInv, Existing, IsActive, Ordinals
  <2> QED
    BY <1>3, <2>1
<1>5. Cardinality(ReadyPods) > 0
  <2>1. Unready \in SUBSET (0..(Start.size - 1))
    BY DEF Unready
  <2>2. Cardinality(Unready) <= disruptions /\ Cardinality(Unready) \in Nat
    BY <1>3, <2>1, FS_Subset, FS_CardinalityType DEF RolledInv
  <2>3. Unready # 0..(Start.size - 1)
    BY <1>1, <1>3, <2>2
  <2>4. PICK i \in 0..(Start.size - 1) : pods[i].phase = "ready"
    BY <2>1, <2>3 DEF Unready
  <2>5. ReadyPods # {}
    BY <1>2, <2>4 DEF ReadyPods
  <2>6. Cardinality(ReadyPods) # 0 /\ Cardinality(ReadyPods) \in Nat
    BY <2>5, OrdinalSets, FS_EmptySet, FS_CardinalityType
  <2> QED
    BY <2>6
<1>6. Cardinality(ActiveOn(Start.rev)) # 1
  <2>1. 0 \in Ordinals /\ 1 \in Ordinals
    BY <1>1 DEF Ordinals
  <2>2. 0 \in ActiveOn(Start.rev) /\ 1 \in ActiveOn(Start.rev)
    BY <1>1, <2>1 DEF RolledInv, ActiveOn
  <2>3. \A x : ActiveOn(Start.rev) # {x}
    BY <2>2
  <2> QED
    BY <2>3, OrdinalSets, FS_Singleton
<1> QED
  BY <1>4, <1>5, <1>6

(* While the partition is closed the first pod is one of the old template: *)
(* the rollout is not complete, and a status that counts one pod of the    *)
(* old template counts the first.                                          *)
LEMMA StatusBehind ==
    ASSUME TypeInv, SingleEdit, RolledInv, Upgrades, set.rev = Goal.rev, set.partition = 1
    PROVE  /\ Cardinality(Existing) # Cardinality(ActiveOn(set.rev))
           /\ Cardinality(ActiveOn(Start.rev)) = 1 => Replaced(Start.size - 1)
<1>1. /\ Start.size \in Nat /\ Start.size > 1 /\ Start.size <= MaxSize /\ MaxSize \in Nat
  BY GoalType DEF SingleEdit
<1>2. 0 \in Ordinals /\ Start.size - 1 \in Ordinals /\ Start.size - 1 # 0
  BY <1>1 DEF Ordinals
<1>3. 0 \in ActiveOn(Start.rev)
  BY <1>2 DEF RolledInv, ActiveOn
<1>4. Cardinality(Existing) # Cardinality(ActiveOn(set.rev))
  <2>1. 0 \in Existing /\ 0 \notin ActiveOn(set.rev)
    BY <1>2 DEF RolledInv, Existing, ActiveOn, IsActive, Upgrades
  <2>2. ActiveOn(set.rev) \in SUBSET Existing /\ IsFiniteSet(Existing)
    BY OrdinalSets
  <2> QED
    BY <2>1, <2>2, FS_Subset
<1>5. ASSUME Cardinality(ActiveOn(Start.rev)) = 1
      PROVE  Replaced(Start.size - 1)
  <2>1. PICK x : ActiveOn(Start.rev) = {x}
    BY <1>5, OrdinalSets, FS_Singleton
  <2>2. Start.size - 1 \notin ActiveOn(Start.rev)
    BY <1>2, <1>3, <2>1
  <2> QED
    BY <1>2, <2>2 DEF ActiveOn, Replaced
<1> QED
  BY <1>4, <1>5

(***************************************************************************)
(* The StatefulSet and its copies.                                         *)
(***************************************************************************)
LEMMA CopyOfStart ==
    ASSUME TypeInv, SingleEdit
    PROVE  /\ CopyInv(StartSet) /\ Phase(StartSet) = 0 /\ StartSet.rev = Start.rev
           /\ StartSet.replicas = Start.size /\ StartSet.keep = Start.keep
<1>1. /\ StartSet.rev = Start.rev /\ StartSet.replicas = Start.size /\ StartSet.partition = 0
      /\ StartSet.pods = Start.size /\ StartSet.ready = Start.size
      /\ StartSet.current = Start.size /\ StartSet.currentRev = Start.rev
      /\ StartSet.keep = Start.keep
  BY DEF StartSet
<1>2. Start.size \in Nat /\ Start.size > 0 /\ (Upgrades => Start.size > 1)
  BY GoalType DEF SingleEdit
<1>3. CopyInv(StartSet)
  BY <1>1, <1>2 DEF CopyInv, Upgrades
<1> QED
  BY <1>1, <1>3 DEF Phase

LEMMA PhaseType == \A x : Phase(x) \in 0..2
  BY DEF Phase

(* The step that the operator works on with the set in the cache.          *)
LEMMA Opened ==
    ASSUME TypeInv, PrimaryParts, pc \in Scaling, Upgrades
    PROVE  set.rev = Goal.rev /\ set.partition = 0
<1>1. Phase(seen) = 2
  BY DEF PrimaryParts, PrepareInv, Phase, Upgrades
<1>2. Phase(set) = 2
  BY <1>1, PhaseType DEF PrimaryParts, OrderInv
<1> QED
  BY <1>2, FieldTypes DEF PrimaryParts, OrderInv, CopyInv, Phase, TypeInv, TypeOK

LEMMA OperatorSet ==
    ASSUME TypeInv, PrimaryParts, OperatorStep \/ Fail
    PROVE  /\ CopyInv(set)' /\ Phase(set) <= Phase(set)' /\ Phase(set)' <= Phase(setCached) + 1
           /\ Upgrades /\ set'.replicas # Start.size => Phase(setCached) = 2
<1>1. /\ scenario' = scenario /\ pods' = pods /\ Start' = Start /\ Goal' = Goal
      /\ (Upgrades' <=> Upgrades)
  BY OperatorFrame, ScenarioFrame
<1>2. Replaced(Start.size - 1)' <=> Replaced(Start.size - 1)
  BY <1>1 DEF Replaced
<1>3. CopyInv(set) /\ CopyInv(seen) /\ SingleEdit /\ (pc # "idle" => mem = Goal)
  BY DEF PrimaryParts, OrderInv, EditInv
<1>4. /\ set.partition \in {0, 1} /\ Phase(set) <= Phase(setCached) + 1
      /\ Phase(seen) <= Phase(setCached)
      /\ Phase(set) \in 0..2 /\ Phase(setCached) \in 0..2 /\ Phase(seen) \in 0..2
      /\ (Upgrades /\ set.replicas # Start.size => Phase(setCached) = 2)
  BY FieldTypes, PhaseType DEF PrimaryParts, OrderInv, TypeInv, TypeOK
<1>5. CASE set' = set
  BY <1>1, <1>2, <1>3, <1>4, <1>5 DEF CopyInv, Phase
<1>6. CASE /\ SameStatus /\ pc = "patchTemplate" /\ set'.rev = mem.rev
           /\ set'.replicas = set.replicas
           /\ set'.partition = IF seen.ready > 0 /\ seen.partition # 1 THEN 1 ELSE set.partition
  <2>1. Upgrades /\ seen.rev = Start.rev /\ Phase(set) <= 1
    BY <1>6 DEF PrimaryParts, PrepareInv
  <2>2. set'.partition = 1 /\ set'.rev = Goal.rev
    BY <1>3, <1>6, <2>1 DEF CopyInv
  <2>3. set.replicas = Start.size /\ set.currentRev = Start.rev
        /\ (set.current = 1 => Replaced(Start.size - 1))
    BY <1>3, <1>4, <2>1 DEF CopyInv, Phase
  <2>4. CopyInv(set)'
    BY <1>1, <1>2, <1>3, <1>6, <2>1, <2>2, <2>3 DEF CopyInv, SameStatus, Upgrades
  <2>5. Phase(set)' = 1
    BY <1>1, <2>1, <2>2 DEF Phase, Upgrades
  <2> QED
    BY <1>4, <1>6, <2>1, <2>4, <2>5
<1>7. CASE /\ SameStatus /\ pc = "patchPolicy" /\ set'.rev = set.rev
           /\ set'.replicas = set.replicas /\ set'.partition = set.partition
  BY <1>1, <1>2, <1>3, <1>4, <1>7 DEF CopyInv, SameStatus, Phase
<1>8. CASE /\ SameStatus /\ pc = "openPartition" /\ set'.rev = set.rev
           /\ set'.replicas = set.replicas /\ set'.partition = 0
  <2>1. seen.partition = 1
    BY <1>8 DEF PrimaryParts, PrepareInv
  <2>2. Phase(seen) = 1 /\ Upgrades
    BY <1>3, <2>1 DEF CopyInv, Phase, Upgrades
  <2>3. Phase(set) >= 1 /\ Phase(setCached) >= 1
    BY <1>4, <2>2 DEF PrimaryParts, OrderInv
  <2>4. set.rev = Goal.rev /\ set.rev # Start.rev
    BY <1>3, <2>3 DEF CopyInv, Phase
  <2>5. CopyInv(set)'
    BY <1>1, <1>2, <1>3, <1>8, <2>4 DEF CopyInv, SameStatus
  <2>6. Phase(set)' = 2
    BY <1>1, <1>8, <2>4 DEF Phase
  <2> QED
    BY <1>4, <1>8, <2>3, <2>5, <2>6
<1>9. CASE /\ SameStatus /\ pc = "resize" /\ set'.rev = set.rev
           /\ set'.replicas = mem.size /\ set'.partition = set.partition
  <2>1. Upgrades => set.rev = Goal.rev /\ set.partition = 0
    BY <1>9, Opened DEF Scaling
  <2>2. ~Upgrades => set.partition = 0
    BY <1>3 DEF CopyInv
  <2>3. CopyInv(set)'
    BY <1>1, <1>2, <1>3, <1>9, <2>1, <2>2 DEF CopyInv, SameStatus, Upgrades
  <2>4. Upgrades => Phase(setCached) = 2
    <3>1. Upgrades => Phase(seen) = 2
      BY <1>9 DEF PrimaryParts, PrepareInv, Phase, Scaling, Upgrades
    <3> QED
      BY <1>4, <3>1
  <2> QED
    BY <1>1, <1>4, <1>9, <2>3, <2>4 DEF Phase
<1> QED
  BY <1>5, <1>6, <1>7, <1>8, <1>9, OperatorWrites

LEMMA StatusSet ==
    ASSUME TypeInv, PrimaryParts, UpdateStatus
    PROVE  CopyInv(set)' /\ Phase(set)' = Phase(set)
<1>1. /\ scenario' = scenario /\ pods' = pods /\ Start' = Start /\ Goal' = Goal
      /\ (Upgrades' <=> Upgrades)
  BY ScenarioFrame DEF UpdateStatus
<1>2. Replaced(Start.size - 1)' <=> Replaced(Start.size - 1)
  BY <1>1 DEF Replaced
<1>3. CopyInv(set) /\ SingleEdit /\ RolledInv
  BY DEF PrimaryParts, OrderInv, EditInv
<1>4. Phase(set)' = Phase(set)
  BY <1>1, StatusFacts DEF Phase
<1>5. CASE Upgrades /\ set.rev = Start.rev
  <2>1. set'.currentRev = Start.rev
    BY <1>3, <1>5, StatusFacts DEF CopyInv
  <2>2. set'.current # 1 /\ set'.ready > 0 /\ set'.pods = Start.size
    BY <1>3, <1>5, <2>1, StatusBefore, StatusFacts
  <2>3. set'.rev = Start.rev /\ set'.partition = 0 /\ set'.replicas = Start.size
    BY <1>3, <1>5, StatusFacts DEF CopyInv
  <2> QED
    BY <1>1, <1>4, <1>5, <2>1, <2>2, <2>3 DEF CopyInv, Upgrades
<1>6. CASE Upgrades /\ set.rev = Goal.rev /\ set.partition = 1
  <2>1. set'.currentRev = Start.rev
    BY <1>3, <1>6, StatusBehind, StatusFacts DEF CopyInv
  <2>2. set'.current = 1 => Replaced(Start.size - 1)
    BY <1>3, <1>6, <2>1, StatusBehind, StatusFacts
  <2>3. /\ set'.rev = Goal.rev /\ set'.partition = 1 /\ set'.replicas = Start.size
        /\ set'.updateRev = Goal.rev
    BY <1>3, <1>6, StatusFacts DEF CopyInv
  <2> QED
    BY <1>1, <1>2, <1>4, <1>6, <2>1, <2>2, <2>3 DEF CopyInv, Upgrades
<1>7. CASE ~Upgrades \/ (set.rev = Goal.rev /\ set.partition # 1)
  <2>1. /\ set'.rev = set.rev /\ set'.partition = set.partition
        /\ set'.replicas = set.replicas /\ set'.updateRev = set.rev
    BY StatusFacts
  <2> QED
    BY <1>1, <1>3, <1>4, <1>7, <2>1 DEF CopyInv, Upgrades
<1> QED
  BY <1>3, <1>5, <1>6, <1>7 DEF CopyInv

LEMMA OrderStep ==
    ASSUME TypeInv, PrimaryParts, Next
    PROVE  OrderInv'
<1>1. /\ scenario' = scenario /\ Start' = Start /\ Goal' = Goal /\ (Upgrades' <=> Upgrades)
      /\ StartSet' = StartSet
  BY StepFrame, ScenarioFrame
<1>2. /\ CopyInv(set) /\ CopyInv(setCached) /\ CopyInv(seen) /\ SingleEdit /\ RolledInv
      /\ Phase(seen) <= Phase(setCached) /\ Phase(setCached) <= Phase(set)
      /\ Phase(set) <= Phase(setCached) + 1
      /\ Phase(set) \in 0..2 /\ Phase(setCached) \in 0..2 /\ Phase(seen) \in 0..2
      /\ (Upgrades /\ set.replicas # Start.size => Phase(setCached) = 2)
  BY PhaseType DEF PrimaryParts, OrderInv, EditInv
<1>3. \A x \in {set, setCached, seen} : x.partition = 1 => Upgrades /\ set.rev = Goal.rev
  <2> TAKE x \in {set, setCached, seen}
  <2> HAVE x.partition = 1
  <2>1. Upgrades /\ x.rev = Goal.rev
    BY <1>2 DEF CopyInv
  <2>2. Phase(x) = 1 /\ Phase(x) <= Phase(set)
    BY <1>2, <2>1 DEF Phase, Upgrades
  <2>3. set.rev # Start.rev
    BY <2>2 DEF Phase
  <2> QED
    BY <1>2, <2>1, <2>3 DEF CopyInv
<1>4. \A x \in {set, setCached, seen} :
          x.partition = 1 /\ Replaced(Start.size - 1) => Replaced(Start.size - 1)'
  <2>1. Start.size - 1 \in Ordinals
    BY <1>2, GoalType DEF Ordinals
  <2> QED
    BY <1>1, <1>2, <1>3, <2>1, ReplacedStays
<1>5. CASE OperatorStep \/ Fail
  <2>1. /\ CopyInv(set)' /\ Phase(set) <= Phase(set)' /\ Phase(set)' <= Phase(setCached) + 1
        /\ (Upgrades /\ set'.replicas # Start.size => Phase(setCached) = 2)
    BY <1>5, OperatorSet
  <2>2. setCached' = setCached /\ (seen' = seen \/ seen' = StartSet \/ seen' = setCached)
    BY <1>5, OperatorFrame
  <2>3. CopyInv(setCached)' /\ Phase(setCached)' = Phase(setCached)
    BY <1>1, <1>2, <1>4, <2>2 DEF CopyInv, Phase
  <2>4. CopyInv(seen)' /\ Phase(seen)' <= Phase(setCached)
    <3>1. CASE seen' = seen
      BY <1>1, <1>2, <1>4, <3>1 DEF CopyInv, Phase
    <3>2. CASE seen' = setCached
      BY <1>1, <1>2, <1>4, <3>2 DEF CopyInv, Phase
    <3>3. CASE seen' = StartSet
      <4>1. CopyInv(StartSet) /\ StartSet.partition = 0 /\ Phase(StartSet) = 0
        BY <1>2, CopyOfStart DEF StartSet
      <4> QED
        BY <1>1, <1>2, <3>3, <4>1 DEF CopyInv, Phase
    <3> QED
      BY <2>2, <3>1, <3>2, <3>3
  <2>5. Phase(set)' \in 0..2 /\ Phase(seen)' \in 0..2
    BY DEF Phase
  <2> QED
    BY <1>1, <1>2, <2>1, <2>3, <2>4, <2>5 DEF OrderInv
<1>6. CASE Environment
  <2>1. seen' = seen
    BY <1>6, EnvironmentFrame DEF operator
  <2>2. CopyInv(seen)' /\ Phase(seen)' = Phase(seen)
    BY <1>1, <1>2, <1>4, <2>1 DEF CopyInv, Phase
  <2>3. CASE SyncSet
    <3>1. set' = set /\ setCached' = set
      BY <2>3 DEF SyncSet
    <3>2. CopyInv(set)' /\ CopyInv(setCached)' /\ Phase(set)' = Phase(set)
          /\ Phase(setCached)' = Phase(set)
      BY <1>1, <1>2, <1>4, <3>1 DEF CopyInv, Phase
    <3> QED
      <4>1. Upgrades /\ set.replicas # Start.size => Phase(set) = 2
        BY <1>2
      <4> QED
        BY <1>1, <1>2, <2>2, <3>1, <3>2, <4>1 DEF OrderInv
  <2>4. CASE setCached' = setCached
    <3>1. CopyInv(setCached)' /\ Phase(setCached)' = Phase(setCached)
      BY <1>1, <1>2, <1>4, <2>4 DEF CopyInv, Phase
    <3>2. CopyInv(set)' /\ Phase(set)' = Phase(set) /\ set'.replicas = set.replicas
      <4>1. CASE UpdateStatus
        BY <4>1, StatusSet, StatusFacts
      <4>2. CASE set' = set
        BY <1>1, <1>2, <1>4, <4>2 DEF CopyInv, Phase
      <4> QED
        BY <1>6, <4>1, <4>2, EnvironmentFrame
    <3> QED
      BY <1>1, <1>2, <2>2, <3>1, <3>2 DEF OrderInv
  <2> QED
    BY <1>6, <2>3, <2>4, EnvironmentFrame
<1> QED
  BY <1>5, <1>6, NextSplit

(***************************************************************************)
(* The edit.                                                               *)
(***************************************************************************)
(* A cluster that nobody edited needs nothing.                             *)
LEMMA NothingToDo ==
    ASSUME TypeInv, PrimaryParts, HandleProxyState
    PROVE  edits = 1 /\ cr = Goal
<1>1. CASE edits = 0
  <2>1. /\ cr = Start /\ setCached.rev = Start.rev /\ setCached.replicas = Start.size
        /\ setCached.keep = Start.keep
    BY <1>1 DEF PrimaryParts, EditInv
  <2>2. setCached.partition = 0
    BY <2>1 DEF PrimaryParts, OrderInv, CopyInv
  <2>3. Choice(cr, setCached) = "idle"
    BY <2>1, <2>2 DEF Choice, StatefulSetScalingNeeded, ShouldResetPartition
  <2> QED
    BY <2>3 DEF HandleProxyState
<1> QED
  BY <1>1 DEF PrimaryParts, EditInv

(* Only HandleProxyState begins.                                           *)
LEMMA Begins ==
    ASSUME OperatorStep \/ Fail, pc = "idle"
    PROVE  HandleProxyState
  BY DEF OperatorStep, Fail, HandleProxyState, SyncProxyPodSpec, SetPrimaryTo,
         PatchTemplate, SyncProxyPVCRetentionPolicy, HandleProxyRollout, ResetSSPartition,
         HandleProxyScale, PrepareProxyScaleDown, SetLowestEligiblePodAsPrimary,
         DecommissionProxies, Resize

LEMMA EditStep ==
    ASSUME TypeInv, PrimaryParts, Next
    PROVE  EditInv'
<1>1. /\ scenario' = scenario /\ Start' = Start /\ Goal' = Goal /\ SingleEdit'
  BY StepFrame, ScenarioFrame DEF PrimaryParts, EditInv
<1>2. CASE OperatorStep \/ Fail
  <2>1. cr' = cr /\ edits' = edits
    BY <1>2, OperatorFrame
  <2>2. edits = 1 /\ cr = Goal
    <3>1. CASE pc = "idle"
      BY <1>2, <3>1, Begins, NothingToDo
    <3> QED
      BY <3>1 DEF PrimaryParts, EditInv
  <2>3. pc' # "idle" => mem' = Goal
    <3>1. CASE pc = "idle"
      BY <1>2, <2>2, <3>1, Begins DEF HandleProxyState
    <3>2. CASE pc # "idle"
      BY <1>2, <3>2, RunGoesOn DEF PrimaryParts, EditInv
    <3> QED
      BY <3>1, <3>2
  <2> QED
    BY <1>1, <2>1, <2>2, <2>3 DEF EditInv
<1>3. CASE Environment
  <2>1. pc' = pc /\ mem' = mem
    BY <1>3, EnvironmentFrame DEF operator
  <2>2. CASE UserEdits
    <3>1. /\ edits' = edits + 1 /\ edits < Len(scenario.wishes)
          /\ cr' = scenario.wishes[edits']
      BY <2>2 DEF UserEdits
    <3>2. edits \in 0..1 /\ Len(scenario.wishes) = 1
      BY GoalType DEF PrimaryParts, EditInv, SingleEdit
    <3>3. edits' = 1 /\ cr' = Goal
      BY <3>1, <3>2 DEF Goal
    <3> QED
      BY <1>1, <2>1, <3>3 DEF PrimaryParts, EditInv
  <2>3. CASE cr' = cr /\ edits' = edits
    <3>1. set'.rev = set.rev /\ set'.replicas = set.replicas /\ set'.keep = set.keep
      <4>1. CASE UpdateStatus
        BY <4>1, StatusFacts
      <4> QED
        BY <1>3, <4>1, EnvironmentFrame
    <3>2. setCached' = setCached \/ setCached' = set
      BY <1>3, EnvironmentFrame DEF SyncSet
    <3> QED
      BY <1>1, <2>1, <2>3, <3>1, <3>2 DEF PrimaryParts, EditInv
  <2> QED
    BY <1>3, <2>2, <2>3, EnvironmentFrame
<1> QED
  BY <1>2, <1>3, NextSplit

(***************************************************************************)
(* The pods in the phases of an upgrade.                                   *)
(***************************************************************************)
LEMMA PhasesGoOn ==
    ASSUME TypeInv, PrimaryParts, Next
    PROVE  Phase(set) <= Phase(set)'
<1>1. Phase(set) \in 0..2
  BY PhaseType
<1>2. CASE OperatorStep \/ Fail
  BY <1>2, OperatorSet
<1>3. CASE Environment
  <2>1. CASE UpdateStatus
    BY <1>1, <2>1, StatusSet
  <2>2. CASE set' = set
    BY <1>1, <2>2, StepFrame, ScenarioFrame DEF Phase
  <2> QED
    BY <1>3, <2>1, <2>2, EnvironmentFrame
<1> QED
  BY <1>2, <1>3, NextSplit

(* A proxy is decommissioned by the operator, while it scales.             *)
LEMMA DecommissionScales ==
    ASSUME TypeInv, Next, NEW i \in Ordinals, pmap[i] # "decommission",
           pmap'[i] = "decommission"
    PROVE  pc \in Scaling
<1>1. pmap \in MapTypes
  BY TypeParts DEF TypeInv, MapPart
<1>2. CASE DecommissionProxies
  BY <1>2 DEF DecommissionProxies, Scaling
<1>3. CASE pmap' = pmap
  BY <1>3
<1>4. CASE OperatorStep \/ Fail
  BY <1>2, <1>3, <1>4 DEF OperatorStep, Fail, HandleProxyState, SyncProxyPodSpec, SetPrimaryTo,
         PatchTemplate, SyncProxyPVCRetentionPolicy, HandleProxyRollout, ResetSSPartition,
         HandleProxyScale, PrepareProxyScaleDown, SetLowestEligiblePodAsPrimary, Resize, ais
<1>5. CASE UserEdits \/ SyncSet \/ UpdateStatus
  BY <1>3, <1>5 DEF UserEdits, SyncSet, UpdateStatus, ais
<1>6. ASSUME NEW j \in Ordinals, Pods(j) \/ Elect(j) \/ Disrupt(j)
      PROVE  FALSE
  <2>1. CASE CreatePod(j) \/ DeletePod(j) \/ PodGone(j) \/ Disrupt(j)
    BY <1>3, <2>1 DEF CreatePod, DeletePod, PodGone, Disrupt, ais
  <2>2. CASE PodSettles(j) \/ ProxyLeaves(j) \/ KeepaliveDrops(j) \/ Elect(j)
    BY <1>1, <2>2 DEF PodSettles, ProxyLeaves, KeepaliveDrops, Elect, MapTypes
  <2> QED
    BY <1>6, <2>1, <2>2 DEF Pods
<1> QED
  BY <1>4, <1>5, <1>6 DEF Next

(* No more proxies are out than have restarted by themselves.              *)
LEMMA UnreadyStep ==
    ASSUME TypeInv, PrimaryParts, Next, Upgrades, set.rev = Start.rev
    PROVE  Cardinality(Unready)' <= disruptions'
<1>1. Start' = Start /\ pods \in [Ordinals -> [phase : Phases, rev : Revs]]
  BY StepFrame, ScenarioFrame DEF TypeInv, TypeOK
<1>2. /\ Start.size \in Nat /\ IsFiniteSet(0..(Start.size - 1))
      /\ 0..(Start.size - 1) \subseteq Ordinals /\ disruptions \in Nat
  <2>1. Start.size \in 1..MaxSize /\ MaxSize \in Nat
    BY GoalType DEF PrimaryParts, EditInv
  <2>2. 0 \in Int /\ Start.size - 1 \in Int
    BY <2>1
  <2>3. IsFiniteSet(0..(Start.size - 1))
    BY <2>2, FS_Interval
  <2>4. disruptions \in Nat
    BY ProxyBoundAssumption DEF TypeInv, TypeOK
  <2> QED
    BY <2>1, <2>3, <2>4 DEF Ordinals
<1>3. IsFiniteSet(Unready) /\ Cardinality(Unready) \in Nat /\ Cardinality(Unready) <= disruptions
  <2>1. Unready \in SUBSET (0..(Start.size - 1))
    BY DEF Unready
  <2> QED
    BY <1>2, <2>1, FS_Subset, FS_CardinalityType DEF PrimaryParts, RolledInv
<1>4. ASSUME Unready' \subseteq Unready, disruptions' = disruptions
      PROVE  Cardinality(Unready)' <= disruptions'
  <2>1. Cardinality(Unready') <= Cardinality(Unready) /\ IsFiniteSet(Unready')
    BY <1>3, <1>4, FS_Subset
  <2>2. Cardinality(Unready') \in Nat
    BY <2>1, FS_CardinalityType
  <2> QED
    BY <1>2, <1>3, <1>4, <2>1, <2>2
<1>5. CASE pods' = pods /\ disruptions' = disruptions
  BY <1>1, <1>4, <1>5 DEF Unready
<1>6. ASSUME NEW i \in Ordinals, Disrupt(i)
      PROVE  Cardinality(Unready)' <= disruptions'
  <2>1. pods' = [pods EXCEPT ![i].phase = "starting"] /\ disruptions' = disruptions + 1
    BY <1>6 DEF Disrupt
  <2>2. Unready' \subseteq Unready \cup {i}
    BY <1>1, <1>2, <2>1 DEF Unready
  <2>3. /\ IsFiniteSet(Unready \cup {i})
        /\ Cardinality(Unready \cup {i}) = IF i \in Unready THEN Cardinality(Unready)
                                           ELSE Cardinality(Unready) + 1
    BY <1>3, FS_AddElement
  <2>4. Cardinality(Unready') <= Cardinality(Unready \cup {i}) /\ IsFiniteSet(Unready')
    BY <2>2, <2>3, FS_Subset
  <2>5. Cardinality(Unready') \in Nat
    BY <2>4, FS_CardinalityType
  <2> QED
    BY <1>2, <1>3, <2>1, <2>3, <2>4, <2>5
<1>7. ASSUME NEW i \in Ordinals, Pods(i)
      PROVE  Cardinality(Unready)' <= disruptions'
  <2>1. disruptions' = disruptions
    BY <1>7 DEF Pods, CreatePod, DeletePod, PodGone, PodSettles, ProxyLeaves, KeepaliveDrops,
                counters
  <2>2. CASE PodSettles(i)
    <3>1. pods[i].phase # "ready" /\ \A j \in Ordinals : j # i => pods'[j] = pods[j]
      BY <1>1, <2>2 DEF PodSettles
    <3>2. Unready' \subseteq Unready
      BY <1>1, <1>2, <3>1 DEF Unready
    <3> QED
      BY <1>4, <2>1, <3>2
  <2>3. CASE CreatePod(i) \/ PodGone(i)
    <3>1. pods[i].phase # "ready" /\ \A j \in Ordinals : j # i => pods'[j] = pods[j]
      BY <1>1, <2>3 DEF CreatePod, PodGone
    <3>2. Unready' \subseteq Unready
      BY <1>1, <1>2, <3>1 DEF Unready
    <3> QED
      BY <1>4, <2>1, <3>2
  <2>4. CASE DeletePod(i)
    <3>1. /\ IsActive(pods[i]) /\ (i >= set.replicas \/ pods[i].rev # Start.rev)
          /\ set.replicas = Start.size /\ i \in Nat
      BY <2>4, ProxySizeAssumption
         DEF DeletePod, PrimaryParts, OrderInv, CopyInv, Ordinals
    <3>2. i >= Start.size
      BY <1>2, <3>1 DEF PrimaryParts, RolledInv
    <3> QED
      BY <3>1, <3>2 DEF PrimaryParts, RolledInv, IsActive
  <2>5. CASE ProxyLeaves(i)
    BY <2>5 DEF ProxyLeaves, PrimaryParts, RolledInv
  <2>6. CASE KeepaliveDrops(i)
    BY <1>5, <2>1, <2>6 DEF KeepaliveDrops
  <2> QED
    BY <1>7, <2>2, <2>3, <2>4, <2>5, <2>6 DEF Pods
<1>8. CASE OperatorStep \/ Fail
  BY <1>5, <1>8, OperatorFrame
<1>9. CASE UserEdits \/ SyncSet \/ UpdateStatus \/ \E i \in Ordinals : Elect(i)
  BY <1>5, <1>9 DEF UserEdits, SyncSet, UpdateStatus, Elect, counters
<1> QED
  BY <1>6, <1>7, <1>8, <1>9 DEF Next

LEMMA RolledStep ==
    ASSUME TypeInv, PrimaryParts, Next
    PROVE  RolledInv'
<1>1. /\ scenario' = scenario /\ Start' = Start /\ Goal' = Goal /\ (Upgrades' <=> Upgrades)
      /\ pods \in [Ordinals -> [phase : Phases, rev : Revs]]
  BY StepFrame, ScenarioFrame DEF TypeInv, TypeOK
<1>2. /\ CopyInv(set) /\ RolledInv /\ set.partition \in {0, 1} /\ set.replicas \in 1..MaxSize
      /\ MaxSize \in Nat /\ Start.size \in 1..MaxSize /\ SingleEdit
  BY FieldTypes, GoalType DEF PrimaryParts, OrderInv, EditInv, TypeInv, TypeOK
<1>3. \A i \in Ordinals : i \in Nat
  BY ProxySizeAssumption DEF Ordinals
<1>4. ASSUME NEW i \in Ordinals
      PROVE  pods'[i].rev \in {Start.rev, Goal.rev}
  <2>1. CASE CreatePod(i)
    <3>1. pods'[i].rev = IF i < set.partition THEN set.currentRev ELSE set.rev
      BY <1>1, <2>1 DEF CreatePod
    <3>2. i < set.partition => set.partition = 1
      BY <1>2, <1>3
    <3> QED
      BY <1>2, <3>1, <3>2 DEF CopyInv
  <2>2. CASE DeletePod(i)
    BY <1>1, <1>2, <2>2 DEF DeletePod, RolledInv
  <2>3. CASE PodGone(i)
    BY <1>1, <2>3 DEF PodGone, NoPod
  <2> QED
    BY <1>2, <2>1, <2>2, <2>3, PodChange DEF RolledInv
<1>5. ASSUME Upgrades, set'.rev = Start.rev
      PROVE  /\ \A i \in Ordinals : i < Start.size => IsActive(pods'[i]) /\ pods'[i].rev = Start.rev
             /\ \A i \in Ordinals : i >= Start.size => pods'[i].phase = "none"
             /\ \A i \in Ordinals : pmap'[i] # "decommission"
             /\ Cardinality(Unready)' <= disruptions'
  <2>1. set.rev = Start.rev
    <3>1. Phase(set)' = 0 /\ Phase(set) \in 0..2
      BY <1>1, <1>5, PhaseType DEF Phase
    <3>2. Phase(set) = 0
      BY <3>1, PhasesGoOn
    <3> QED
      BY <3>2 DEF Phase
  <2>2. set.partition = 0 /\ set.replicas = Start.size
    BY <1>2, <1>5, <2>1 DEF CopyInv
  <2>3. ASSUME NEW i \in Ordinals
        PROVE  \/ pods'[i] = pods[i]
               \/ IsActive(pods[i]) /\ IsActive(pods'[i]) /\ pods'[i].rev = pods[i].rev
    <3>1. i < Start.size => IsActive(pods[i]) /\ pods[i].rev = Start.rev
      BY <1>2, <1>5, <2>1 DEF RolledInv
    <3>2. i >= Start.size => pods[i].phase = "none"
      BY <1>2, <1>5, <2>1 DEF RolledInv
    <3>3. i < Start.size \/ i >= Start.size
      BY <1>2, <1>3
    <3>4. ~CreatePod(i)
      BY <2>2, <3>1 DEF CreatePod, IsActive
    <3>5. ~DeletePod(i)
      BY <1>2, <1>3, <2>1, <2>2, <3>1, <3>2, <3>3 DEF DeletePod, IsActive
    <3>6. ~PodGone(i)
      BY <3>1, <3>2, <3>3 DEF PodGone, IsActive
    <3> QED
      BY <3>4, <3>5, <3>6, PodChange
  <2>4. \A i \in Ordinals : i < Start.size => IsActive(pods'[i]) /\ pods'[i].rev = Start.rev
    BY <1>2, <1>5, <2>1, <2>3 DEF RolledInv
  <2>5. \A i \in Ordinals : i >= Start.size => pods'[i].phase = "none"
    <3> TAKE i \in Ordinals
    <3> HAVE i >= Start.size
    <3>1. pods[i].phase = "none"
      BY <1>2, <1>5, <2>1 DEF RolledInv
    <3> QED
      BY <2>3, <3>1 DEF IsActive
  <2>6. \A i \in Ordinals : pmap'[i] # "decommission"
    <3> SUFFICES ASSUME NEW i \in Ordinals, pmap'[i] = "decommission" PROVE FALSE
      OBVIOUS
    <3>1. pmap[i] # "decommission"
      BY <1>2, <1>5, <2>1 DEF RolledInv
    <3>2. set.rev = Goal.rev
      BY <1>5, <3>1, DecommissionScales, Opened
    <3> QED
      BY <1>5, <2>1, <3>2 DEF Upgrades
  <2>7. Cardinality(Unready)' <= disruptions'
    BY <1>5, <2>1, UnreadyStep
  <2> QED
    BY <2>4, <2>5, <2>6, <2>7
<1>6. ASSUME set'.partition = 1
      PROVE  IsActive(pods'[0]) /\ pods'[0].rev = Start.rev
  <2>1. 0 \in Ordinals
    BY ProxySizeAssumption DEF Ordinals
  <2>2. CASE set.partition = 1
    <3>1. IsActive(pods[0]) /\ pods[0].rev = Start.rev
      BY <1>2, <2>2 DEF RolledInv
    <3>2. ~CreatePod(0) /\ ~PodGone(0)
      BY <3>1 DEF CreatePod, PodGone, IsActive
    <3>3. ~DeletePod(0)
      BY <1>2, <2>2 DEF DeletePod
    <3> QED
      BY <2>1, <3>1, <3>2, <3>3, PodChange
  <2>3. CASE set.partition # 1
    <3>1. ~Environment
      <4>1. CASE UpdateStatus
        BY <1>6, <2>3, <4>1, StatusFacts
      <4> QED
        BY <1>6, <2>3, <4>1, EnvironmentFrame
    <3>2. OperatorStep \/ Fail
      BY <3>1, NextSplit
    <3>3. pc = "patchTemplate" /\ pods' = pods
      BY <1>6, <2>3, <3>2, OperatorWrites, OperatorFrame
    <3>4. Upgrades /\ Phase(set) <= 1
      BY <3>3 DEF PrimaryParts, PrepareInv
    <3>5. set.rev = Start.rev
      BY <2>3, <3>4 DEF Phase
    <3> QED
      BY <1>2, <2>1, <3>3, <3>4, <3>5 DEF RolledInv
  <2> QED
    BY <2>2, <2>3
<1> QED
  BY <1>1, <1>4, <1>5, <1>6 DEF RolledInv

(***************************************************************************)
(* What the steps of the operator prepare.                                 *)
(***************************************************************************)
(* What HandleProxyState finds in the cached StatefulSet.                  *)
LEMMA ChoiceFacts ==
    ASSUME TypeInv, PrimaryParts, HandleProxyState
    PROVE  /\ pc' \in {"setFirst", "patchTemplate"} =>
                 Upgrades /\ setCached.rev = Start.rev /\ pc' = "setFirst" /\ Phase(set) <= 1
           /\ pc' = "setHighest" =>
                 /\ setCached.partition = 1 /\ setCached.current = 1
                 /\ setCached.replicas = Start.size /\ set.replicas = Start.size
           /\ pc' \in Scaling /\ Upgrades =>
                 /\ setCached.rev = Goal.rev /\ setCached.partition = 0
                 /\ setCached.updateRev = Goal.rev
           /\ pc' = "readMap" => Goal.size < Start.size
           /\ pc' = "resize" => Start.size < Goal.size
           /\ pc' \notin {"idle", "openPartition", "choose", "decommission"}
<1>1. cr = Goal /\ pc' = Choice(Goal, setCached) /\ pc' # "idle"
  BY NothingToDo DEF HandleProxyState
<1>2. /\ CopyInv(setCached) /\ setCached.partition \in {0, 1} /\ setCached.observed \in BOOLEAN
      /\ Phase(set) <= Phase(setCached) + 1 /\ Phase(set) \in 0..2
      /\ (Upgrades /\ set.replicas # Start.size => Phase(setCached) = 2)
  BY FieldTypes, PhaseType DEF PrimaryParts, OrderInv, TypeInv, TypeOK
<1>3. Goal.size \in Nat /\ Start.size \in Nat
  BY GoalType DEF PrimaryParts, EditInv
<1>4. ASSUME pc' \in {"setFirst", "patchTemplate"}
      PROVE  Upgrades /\ setCached.rev = Start.rev /\ pc' = "setFirst" /\ Phase(set) <= 1
  <2>1. Goal.rev # setCached.rev /\ (setCached.ready > 0 => pc' = "setFirst")
    BY <1>1, <1>4 DEF Choice
  <2>2. setCached.rev = Start.rev /\ Upgrades
    BY <1>2, <2>1 DEF CopyInv, Upgrades
  <2>3. Phase(setCached) = 0
    BY <2>2 DEF Phase
  <2> QED
    BY <1>2, <2>1, <2>2, <2>3 DEF CopyInv
<1>5. ASSUME pc' = "setHighest"
      PROVE  /\ setCached.partition = 1 /\ setCached.current = 1
             /\ setCached.replicas = Start.size /\ set.replicas = Start.size
  <2>1. setCached.partition = 1 /\ setCached.current = 1
    BY <1>1, <1>2, <1>5 DEF Choice, ShouldResetPartition
  <2>2. Phase(setCached) # 2 /\ Upgrades
    BY <1>2, <2>1 DEF Phase, CopyInv
  <2> QED
    BY <1>2, <2>1, <2>2 DEF CopyInv
<1>6. ASSUME pc' \in Scaling
      PROVE  /\ setCached.observed /\ setCached.currentRev = setCached.updateRev
             /\ pc' \in {"readMap", "resize"}
             /\ pc' = "readMap" => setCached.replicas > Goal.size
             /\ pc' = "resize" => setCached.replicas # Goal.size /\ ~(setCached.replicas > Goal.size)
             /\ Goal.rev # setCached.rev => setCached.pods # setCached.replicas
  BY <1>1, <1>6 DEF Choice, Scaling, IsStatusCurrent, IsRolloutInProgress,
                    IsScalingInProgress, StatefulSetScalingNeeded
<1>7. ASSUME pc' \in Scaling, Upgrades
      PROVE  /\ setCached.rev = Goal.rev /\ setCached.partition = 0
             /\ setCached.updateRev = Goal.rev
  <2>1. setCached.rev = Goal.rev
    BY <1>2, <1>6, <1>7 DEF CopyInv
  <2> QED
    BY <1>2, <1>6, <1>7, <2>1 DEF CopyInv, Upgrades
<1>8. pc' = "readMap" => Goal.size < Start.size
  BY <1>2, <1>3, <1>6 DEF CopyInv, Scaling
<1>9. pc' = "resize" => Start.size < Goal.size
  BY <1>2, <1>3, <1>6 DEF CopyInv, Scaling
<1>10. pc' \notin {"idle", "openPartition", "choose", "decommission"}
  BY <1>1 DEF Choice
<1> QED
  BY <1>4, <1>5, <1>7, <1>8, <1>9, <1>10

LEMMA PrepareStep ==
    ASSUME TypeInv, PrimaryParts, Next
    PROVE  PrepareInv'
<1>1. /\ scenario' = scenario /\ Start' = Start /\ Goal' = Goal /\ (Upgrades' <=> Upgrades)
  BY StepFrame, ScenarioFrame
<1>2. /\ PrepareInv /\ (pc # "idle" => mem = Goal) /\ CopyInv(seen) /\ CopyInv(set)
      /\ RolledInv /\ SingleEdit /\ elected \in BOOLEAN /\ primary \in Ordinals
  BY TypeParts DEF PrimaryParts, OrderInv, EditInv, TypeInv, MapPart
<1>3. CASE pc' = "idle"
  BY <1>3 DEF PrepareInv, Scaling
<1>4. CASE OperatorStep \/ Fail
  <2>1. pods' = pods
    BY <1>4, OperatorFrame
  <2>2. CASE HandleProxyState
    <3>1. /\ seen' = setCached /\ set' = set /\ UNCHANGED ais
          /\ arg' = IF pc' = "setHighest" THEN setCached.replicas - 1 ELSE 0
      BY <2>2 DEF HandleProxyState
    <3>2. Phase(set)' = Phase(set)
      BY <1>1, <3>1 DEF Phase
    <3>3. pc' = "setHighest" => arg' = Start.size - 1
      BY <2>2, <3>1, ChoiceFacts
    <3>4. pc' \notin {"patchTemplate", "openPartition", "choose", "decommission"}
      BY <2>2, ChoiceFacts
    <3>5. pc' = "resize" => ~(Goal.size < Start.size)
      <4>1. Goal.size \in Nat /\ Start.size \in Nat
        BY <1>2, GoalType
      <4> QED
        BY <2>2, <4>1, ChoiceFacts
    <3>6. /\ pc' = "setFirst" => Upgrades /\ setCached.rev = Start.rev /\ Phase(set) <= 1
          /\ pc' = "setHighest" => /\ setCached.partition = 1 /\ setCached.current = 1
                                   /\ set.replicas = Start.size
          /\ pc' \in Scaling /\ Upgrades =>
                 /\ setCached.rev = Goal.rev /\ setCached.partition = 0
                 /\ setCached.updateRev = Goal.rev
          /\ pc' = "readMap" => Goal.size < Start.size
      BY <2>2, ChoiceFacts
    <3> QED
      BY <1>1, <3>1, <3>2, <3>3, <3>4, <3>5, <3>6 DEF PrepareInv, Scaling
  <2>3. CASE SetPrimaryTo("setFirst", "patchTemplate")
    <3>1. CASE Return
      BY <1>3, <3>1 DEF Return
    <3>2. CASE Goto("patchTemplate", arg) /\ primary' = arg
      <4>1. pc = "setFirst" /\ set' = set /\ seen' = seen /\ pc' = "patchTemplate"
        BY <2>3, <3>2 DEF SetPrimaryTo, Goto
      <4>2. Phase(set)' = Phase(set)
        BY <1>1, <4>1 DEF Phase
      <4> QED
        BY <1>1, <1>2, <3>2, <4>1, <4>2 DEF PrepareInv, Scaling
    <3> QED
      BY <2>3, <3>1, <3>2 DEF SetPrimaryTo
  <2>4. CASE SetPrimaryTo("setHighest", "openPartition")
    <3>1. CASE Return
      BY <1>3, <3>1 DEF Return
    <3>2. CASE Goto("openPartition", arg) /\ primary' = arg
      <4>1. pc = "setHighest" /\ set' = set /\ seen' = seen /\ pc' = "openPartition"
        BY <2>4, <3>2 DEF SetPrimaryTo, Goto
      <4>2. primary' = Start.size - 1 /\ Replaced(Start.size - 1)
        BY <1>2, <3>2, <4>1 DEF PrepareInv, CopyInv
      <4>3. Replaced(primary)'
        BY <1>1, <2>1, <4>2 DEF Replaced
      <4> QED
        BY <1>1, <1>2, <4>1, <4>3 DEF PrepareInv, Scaling
    <3> QED
      BY <2>4, <3>1, <3>2 DEF SetPrimaryTo
  <2>5. CASE PatchTemplate \/ ResetSSPartition \/ SyncProxyPVCRetentionPolicy \/ Resize \/ Fail
    BY <1>3, <2>5 DEF PatchTemplate, ResetSSPartition, SyncProxyPVCRetentionPolicy, Resize,
                      Fail, Return
  <2>6. CASE PrepareProxyScaleDown
    <3>1. CASE Return
      BY <1>3, <3>1 DEF Return
    <3>2. CASE /\ pc' \in {"choose", "decommission"} /\ (pc' = "decommission" => primary < mem.size)
               /\ UNCHANGED <<mem, seen>>
      <4>1. pc = "readMap" /\ UNCHANGED <<primary, elected>> /\ mem = Goal
        BY <1>2, <2>6 DEF PrepareProxyScaleDown, ais
      <4> QED
        BY <1>1, <1>2, <3>2, <4>1 DEF PrepareInv, Scaling
    <3> QED
      BY <2>6, <3>1, <3>2 DEF PrepareProxyScaleDown
  <2>7. CASE SetLowestEligiblePodAsPrimary
    <3>1. CASE Return
      BY <1>3, <3>1 DEF Return
    <3>2. CASE /\ primary' = arg /\ arg # mem.size /\ Goto("decommission", seen.replicas - 1)
      <4>1. pc = "choose" /\ mem = Goal
        BY <1>2, <2>7 DEF SetLowestEligiblePodAsPrimary
      <4>2. arg \in 0..Goal.size /\ Goal.size \in Nat
        BY <1>2, <4>1, GoalType DEF TypeInv, ArgInv
      <4>3. primary' < Goal.size
        BY <3>2, <4>1, <4>2
      <4> QED
        BY <1>1, <1>2, <3>2, <4>1, <4>3 DEF PrepareInv, Scaling, Goto
    <3>3. CASE Goto("choose", arg + 1)
      <4>1. pc = "choose"
        BY <2>7 DEF SetLowestEligiblePodAsPrimary
      <4> QED
        BY <1>1, <1>2, <3>3, <4>1 DEF PrepareInv, Scaling, Goto
    <3> QED
      BY <2>7, <3>1, <3>2, <3>3 DEF SetLowestEligiblePodAsPrimary
  <2>8. CASE DecommissionProxies
    <3>1. /\ pc = "decommission" /\ pc' \in {"decommission", "resize"}
          /\ seen' = seen /\ primary' = primary /\ elected' = elected
      BY <2>8 DEF DecommissionProxies, Goto
    <3> QED
      BY <1>1, <1>2, <3>1 DEF PrepareInv, Scaling
  <2> QED
    BY <1>4, <2>2, <2>3, <2>4, <2>5, <2>6, <2>7, <2>8
       DEF OperatorStep, SyncProxyPodSpec, HandleProxyRollout, HandleProxyScale
<1>5. CASE Environment
  <2>1. pc' = pc /\ seen' = seen /\ arg' = arg
    BY <1>5, EnvironmentFrame DEF operator
  <2>2. elected' \/ (elected' = elected /\ primary' = primary)
    BY <1>5 DEF Environment, UserEdits, SyncSet, UpdateStatus, Pods, CreatePod, DeletePod,
                PodGone, PodSettles, ProxyLeaves, KeepaliveDrops, Elect, Disrupt, ais
  <2>3. set'.rev = set.rev /\ set'.partition = set.partition /\ set'.replicas = set.replicas
    <3>1. CASE UpdateStatus
      BY <3>1, StatusFacts
    <3> QED
      BY <1>5, <3>1, EnvironmentFrame
  <2>4. Phase(set)' = Phase(set)
    BY <1>1, <2>3 DEF Phase
  <2>5. ASSUME pc = "openPartition", ~elected'
        PROVE  Replaced(primary)'
    <3>1. ~elected /\ primary' = primary
      BY <1>2, <2>2, <2>5
    <3>2. Replaced(primary) /\ seen.partition = 1
      BY <1>2, <2>5, <3>1 DEF PrepareInv
    <3>3. Upgrades /\ Phase(seen) = 1
      BY <1>2, <3>2 DEF CopyInv, Phase, Upgrades
    <3>4. Phase(set) >= 1
      BY <3>3, PhaseType DEF PrimaryParts, OrderInv
    <3>5. set.rev = Goal.rev
      BY <1>2, <3>4 DEF Phase, CopyInv
    <3>6. \A j \in Ordinals : j = primary => ~(IsActive(pods'[j]) /\ pods'[j].rev = Start'.rev)
      BY <1>2, <3>2, <3>3, <3>5, ReplacedStays DEF Replaced
    <3> QED
      BY <1>2, <3>1, <3>6 DEF Replaced
  <2> QED
    BY <1>1, <1>2, <2>1, <2>2, <2>3, <2>4, <2>5 DEF PrepareInv
<1> QED
  BY <1>4, <1>5, NextSplit

(***************************************************************************)
(* The primary.                                                            *)
(***************************************************************************)
LEMMA PrimaryStep ==
    ASSUME TypeInv, PrimaryParts, Next
    PROVE  PrimaryInv'
<1>1. /\ scenario' = scenario /\ Start' = Start /\ Goal' = Goal /\ (Upgrades' <=> Upgrades)
  BY StepFrame, ScenarioFrame
<1>2. /\ PrepareInv /\ PrimaryInv /\ (pc # "idle" => mem = Goal) /\ CopyInv(seen)
      /\ CopyInv(set) /\ RolledInv /\ SingleEdit /\ elected \in BOOLEAN /\ primary \in Ordinals
      /\ set.replicas \in 1..MaxSize /\ set.partition \in {0, 1}
  BY TypeParts, FieldTypes DEF PrimaryParts, OrderInv, EditInv, TypeInv, TypeOK, MapPart
<1>3. /\ Goal.size \in 1..MaxSize /\ Start.size \in 1..MaxSize /\ MaxSize \in Nat
      /\ \A i \in Ordinals : i \in Nat
  BY <1>2, GoalType, ProxySizeAssumption DEF Ordinals
<1>4. CASE elected'
  BY <1>4 DEF PrimaryInv
<1>5. ASSUME ~elected', primary' = primary, elected' = elected,
             set'.rev = set.rev, set'.partition = set.partition, set'.replicas = set.replicas
      PROVE  PrimaryInv'
  <2>1. primary' < set'.replicas
    BY <1>2, <1>5 DEF PrimaryInv
  <2>2. ASSUME Upgrades, set.rev = Goal.rev, Replaced(primary)
        PROVE  Replaced(primary)'
    <3>1. \A j \in Ordinals : j = primary => ~(IsActive(pods'[j]) /\ pods'[j].rev = Start'.rev)
      BY <1>2, <2>2, ReplacedStays DEF Replaced
    <3> QED
      BY <1>2, <1>5, <3>1 DEF Replaced
  <2> QED
    BY <1>1, <1>2, <1>5, <2>1, <2>2 DEF PrimaryInv
<1>6. CASE OperatorStep \/ Fail
  <2>1. pods' = pods
    BY <1>6, OperatorFrame
  <2>2. CASE set' = set /\ primary' = primary /\ elected' = elected
    BY <1>4, <1>5, <2>2
  <2>3. CASE SetPrimaryTo("setFirst", "patchTemplate")
    <3>1. CASE primary' = arg
      <4>1. primary' = 0 /\ set' = set /\ Upgrades /\ Phase(set) <= 1
        BY <1>2, <2>3, <3>1 DEF SetPrimaryTo, PrepareInv
      <4>2. set.rev = Goal.rev => set.partition = 1
        BY <4>1 DEF Phase, Upgrades
      <4> QED
        BY <1>1, <1>2, <1>3, <4>1, <4>2 DEF PrimaryInv
    <3> QED
      BY <2>2, <2>3, <3>1 DEF SetPrimaryTo
  <2>4. CASE SetPrimaryTo("setHighest", "openPartition")
    <3>1. CASE primary' = arg
      <4>1. /\ primary' = Start.size - 1 /\ set' = set /\ set.replicas = Start.size
            /\ Replaced(Start.size - 1)
        BY <1>2, <2>4, <3>1 DEF SetPrimaryTo, PrepareInv, CopyInv
      <4>2. Replaced(primary)'
        BY <1>1, <2>1, <4>1 DEF Replaced
      <4> QED
        BY <1>1, <1>3, <4>1, <4>2 DEF PrimaryInv
    <3> QED
      BY <2>2, <2>4, <3>1 DEF SetPrimaryTo
  <2>5. CASE SetLowestEligiblePodAsPrimary
    <3>1. CASE IsIndexValidNewPrimary(arg) /\ arg # mem.size /\ primary' = arg
      <4>1. pc = "choose" /\ mem = Goal /\ set' = set /\ Goal.size < Start.size
        BY <1>2, <2>5 DEF SetLowestEligiblePodAsPrimary, PrepareInv, Scaling
      <4>2. arg \in 0..Goal.size
        BY <4>1 DEF TypeInv, ArgInv
      <4>3. primary' < set'.replicas
        BY <1>2, <1>3, <3>1, <4>1, <4>2 DEF CopyInv
      <4>4. Upgrades => Replaced(primary)'
        <5>1. Upgrades => seen.updateRev = Goal.rev
          BY <1>2, <4>1 DEF PrepareInv, Scaling
        <5>2. Upgrades => pods'[primary'].rev = Goal.rev
          BY <2>1, <3>1, <5>1 DEF IsIndexValidNewPrimary
        <5> QED
          BY <1>1, <5>2 DEF Replaced, Upgrades
      <4> QED
        BY <1>1, <4>3, <4>4 DEF PrimaryInv
    <3> QED
      BY <2>2, <2>5, <3>1 DEF SetLowestEligiblePodAsPrimary
  <2>6. CASE UNCHANGED ais
    <3>1. primary' = primary /\ elected' = elected
      BY <2>6 DEF ais
    <3>2. Replaced(primary)' <=> Replaced(primary)
      BY <1>1, <2>1, <3>1 DEF Replaced
    <3>3. CASE set' = set
      BY <2>2, <3>1, <3>3
    <3>4. CASE /\ pc = "patchTemplate" /\ set'.rev = mem.rev /\ set'.replicas = set.replicas
               /\ set'.partition = IF seen.ready > 0 /\ seen.partition # 1 THEN 1 ELSE set.partition
      <4>1. Upgrades /\ seen.rev = Start.rev /\ (~elected => primary = 0)
        BY <1>2, <3>4 DEF PrepareInv
      <4>2. set'.partition = 1
        BY <1>2, <3>4, <4>1 DEF CopyInv
      <4> QED
        BY <1>1, <1>2, <1>3, <3>1, <3>4, <4>1, <4>2 DEF PrimaryInv
    <3>5. CASE /\ pc = "patchPolicy" /\ set'.rev = set.rev
               /\ set'.replicas = set.replicas /\ set'.partition = set.partition
      BY <1>4, <1>5, <3>1, <3>5
    <3>6. CASE /\ pc = "openPartition" /\ set'.rev = set.rev
               /\ set'.replicas = set.replicas /\ set'.partition = 0
      BY <1>1, <1>2, <3>1, <3>2, <3>6 DEF PrimaryInv, PrepareInv
    <3>7. CASE /\ pc = "resize" /\ set'.rev = set.rev
               /\ set'.replicas = mem.size /\ set'.partition = set.partition
      <4>1. mem = Goal /\ (Goal.size < Start.size /\ ~elected => primary < Goal.size)
        BY <1>2, <3>7 DEF PrepareInv
      <4>2. ~elected => primary < Goal.size
        BY <1>2, <1>3, <4>1 DEF PrimaryInv, CopyInv
      <4> QED
        BY <1>1, <1>2, <3>1, <3>2, <3>7, <4>1, <4>2 DEF PrimaryInv
    <3> QED
      BY <1>6, <3>3, <3>4, <3>5, <3>6, <3>7, OperatorWrites
  <2>7. CASE DecommissionProxies
    BY <2>2, <2>7 DEF DecommissionProxies
  <2> QED
    BY <1>6, <2>3, <2>4, <2>5, <2>6, <2>7
       DEF OperatorStep, Fail, HandleProxyState, SyncProxyPodSpec, PatchTemplate,
           SyncProxyPVCRetentionPolicy, HandleProxyRollout, ResetSSPartition,
           HandleProxyScale, PrepareProxyScaleDown, Resize
<1>7. CASE Environment
  <2>1. elected' \/ (elected' = elected /\ primary' = primary)
    BY <1>7 DEF Environment, UserEdits, SyncSet, UpdateStatus, Pods, CreatePod, DeletePod,
                PodGone, PodSettles, ProxyLeaves, KeepaliveDrops, Elect, Disrupt, ais
  <2>2. set'.rev = set.rev /\ set'.partition = set.partition /\ set'.replicas = set.replicas
    <3>1. CASE UpdateStatus
      BY <3>1, StatusFacts
    <3> QED
      BY <1>7, <3>1, EnvironmentFrame
  <2> QED
    BY <1>4, <1>5, <2>1, <2>2
<1> QED
  BY <1>6, <1>7, NextSplit

LEMMA PrimaryInit == Init /\ SingleEdit => PrimaryParts
<1> SUFFICES ASSUME Init, SingleEdit PROVE PrimaryParts
  OBVIOUS
<1>1. TypeInv
  BY TypeInit
<1>2. /\ set = StartSet /\ setCached = StartSet /\ seen = StartSet /\ cr = Start /\ edits = 0
      /\ pc = "idle" /\ primary \in 0..(Start.size - 1) /\ disruptions = 0
  BY DEF Init
<1>3. CopyInv(StartSet) /\ Phase(StartSet) = 0 /\ StartSet.partition = 0
      /\ StartSet.rev = Start.rev /\ StartSet.replicas = Start.size /\ StartSet.keep = Start.keep
  BY <1>1, CopyOfStart DEF StartSet
<1>4. OrderInv
  BY <1>2, <1>3 DEF OrderInv
<1>5. EditInv
  BY <1>2, <1>3 DEF EditInv
<1>6. Start.size \in 1..MaxSize /\ MaxSize \in Nat
  BY <1>1, GoalType
<1>7. RolledInv
  <2>1. \A i \in Ordinals :
            pods[i] = IF i < Start.size THEN [phase |-> "ready", rev |-> Start.rev]
                      ELSE [phase |-> "none", rev |-> Start.rev]
    BY DEF Init, NoPod
  <2>2. \A i \in Ordinals : i \in Nat
    BY ProxySizeAssumption DEF Ordinals
  <2>3. \A i \in Ordinals : pods[i].rev = Start.rev
    BY <2>1
  <2>4. \A i \in Ordinals : i < Start.size => pods[i].phase = "ready"
    BY <2>1
  <2>5. \A i \in Ordinals : i >= Start.size => pods[i].phase = "none"
    BY <1>6, <2>1, <2>2
  <2>6. \A i \in Ordinals : pmap[i] # "decommission"
    BY DEF Init
  <2>7. Unready = {}
    BY <1>6, <2>4 DEF Unready, Ordinals
  <2>8. Cardinality(Unready) <= disruptions
    BY <1>2, <2>7, FS_EmptySet
  <2> QED
    BY <1>2, <1>3, <2>3, <2>4, <2>5, <2>6, <2>8 DEF RolledInv, IsActive
<1>8. PrepareInv
  BY <1>2 DEF PrepareInv, Scaling
<1>9. PrimaryInv
  BY <1>2, <1>3, <1>6 DEF PrimaryInv, Upgrades
<1> QED
  BY <1>4, <1>5, <1>7, <1>8, <1>9 DEF PrimaryParts

(* A pod that is being deleted is not the primary of the operator.         *)
LEMMA DeletedIsNotPrimary ==
    ASSUME TypeInv, PrimaryParts, NEW i \in Ordinals, DeletePod(i), primary = i
    PROVE  elected
<1> SUFFICES ASSUME ~elected PROVE FALSE
  OBVIOUS
<1>1. /\ CopyInv(set) /\ RolledInv /\ PrimaryInv /\ set.replicas \in Nat
      /\ set.partition \in {0, 1} /\ i \in Nat /\ Start.size \in Nat
  BY FieldTypes, GoalType, ProxySizeAssumption
     DEF PrimaryParts, OrderInv, EditInv, TypeInv, TypeOK, Ordinals
<1>2. i < set.replicas
  BY <1>1 DEF PrimaryInv
<1>3. IsActive(pods[i]) /\ set.partition <= i /\ pods[i].rev # set.rev
  BY <1>1, <1>2 DEF DeletePod
<1>4. CASE set.rev = Start.rev
  BY <1>1, <1>2, <1>3, <1>4 DEF CopyInv, RolledInv, Upgrades
<1>5. CASE set.rev # Start.rev
  <2>1. set.rev = Goal.rev /\ Upgrades /\ pods[i].rev = Start.rev
    BY <1>1, <1>3, <1>5 DEF CopyInv, RolledInv, Upgrades
  <2>2. ~Replaced(primary) /\ ~(set.partition = 1 /\ primary = 0)
    BY <1>1, <1>3, <2>1 DEF Replaced
  <2> QED
    BY <1>1, <2>1, <2>2 DEF PrimaryInv
<1> QED
  BY <1>4, <1>5

(* Of an edit of size, template and policy at once, of any number of       *)
(* proxies, no step of the rollout or of the scaling deletes the pod of a  *)
(* primary that AIStore did not elect itself, whatever the lag of the      *)
(* cache, the failed calls, the crashes, the elections and the proxies     *)
(* that restart meanwhile (syncProxyPodSpec, setHighestPodAsPrimary,       *)
(* ensurePrimarySurvivesScaleDown).                                        *)
THEOREM PrimaryFirst == Spec /\ SingleEdit => PrimaryMovedFirst
<1> DEFINE Inv == TypeInv /\ PrimaryParts
<1>1. Init /\ SingleEdit => Inv
  BY TypeInit, PrimaryInit
<1>2. Inv /\ [Next]_vars => Inv'
  <2> SUFFICES ASSUME Inv, [Next]_vars PROVE Inv'
    OBVIOUS
  <2>1. TypeInv'
    BY TypeStep
  <2>2. PrimaryParts'
    <3>1. CASE Next
      BY <3>1, OrderStep, EditStep, RolledStep, PrepareStep, PrimaryStep DEF PrimaryParts
    <3>2. CASE UNCHANGED vars
      <4>1. UNCHANGED <<scenario, cr, mem, pc, set, setCached, seen, arg, pods, pmap, primary,
                        elected, disruptions, edits>>
        BY <3>2 DEF vars, operator, ais, counters
      <4>2. Start' = Start /\ Goal' = Goal /\ (Upgrades' <=> Upgrades)
            /\ (SingleEdit' <=> SingleEdit) /\ Unready' = Unready
        BY <4>1, ScenarioFrame DEF Unready, Start
      <4>3. \A i : (IsActive(pods'[i]) /\ pods'[i].rev = Start'.rev)
                       <=> (IsActive(pods[i]) /\ pods[i].rev = Start.rev)
        BY <4>1, <4>2
      <4>4. OrderInv' /\ EditInv'
        BY <4>1, <4>2 DEF PrimaryParts, OrderInv, EditInv, CopyInv, Phase, Replaced
      <4>5. RolledInv'
        BY <4>1, <4>2 DEF PrimaryParts, RolledInv
      <4>6. PrepareInv' /\ PrimaryInv'
        BY <4>1, <4>2 DEF PrimaryParts, PrepareInv, PrimaryInv, Phase, Replaced
      <4> QED
        BY <4>4, <4>5, <4>6 DEF PrimaryParts
    <3> QED
      BY <3>1, <3>2
  <2> QED
    BY <2>1, <2>2
<1>3. Inv /\ [Next]_vars =>
          [\A i \in Ordinals :
              pods[i].phase = "ready" /\ pods'[i].phase = "terminating" /\ primary = i
                  => elected]_pods
  <2> SUFFICES ASSUME Inv, Next, NEW i \in Ordinals, pods[i].phase = "ready",
                      pods'[i].phase = "terminating", primary = i
               PROVE  elected
    BY DEF vars
  <2>1. pods \in [Ordinals -> [phase : Phases, rev : Revs]]
    BY DEF TypeInv, TypeOK
  <2>2. DeletePod(i)
    BY <2>1, PodChange DEF CreatePod, PodGone, IsActive
  <2> QED
    BY <2>2, DeletedIsNotPrimary
<1> HIDE DEF Inv
<1> QED
  BY <1>1, <1>2, <1>3, PTL DEF Spec, PrimaryMovedFirst
=============================================================================
