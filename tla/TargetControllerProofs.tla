------------------------ MODULE TargetControllerProofs ------------------------
(***************************************************************************)
(* Proofs about TargetController, for any number of targets and revisions, *)
(* whatever becomes of the pods of a revision, any lag of the caches and   *)
(* any number of faults: the types, for every sequence of edits, and the   *)
(* safety of a rollout and of a scale-down that one edit asks for.         *)
(***************************************************************************)
EXTENDS TargetController, TLAPS, FiniteSetTheorems

(***************************************************************************)
(* The parts of the type invariant.                                        *)
(***************************************************************************)
RolloutSteps == {"rolloutDisable", "rolloutConfig", "patchTemplate"}

GrowSteps == {"growDisable", "growConfig", "resize"}

(* The number at hand: a revision, a size or an ordinal.                   *)
ArgInv ==
    /\ pc \in RolloutSteps => arg \in Revs
    /\ pc \in GrowSteps => arg \in 1..MaxSize
    /\ pc \in {"drain", "deletePod"} => arg \in Ordinals

TypeInv == TypeOK /\ ArgInv

CRPart ==
    /\ scenario \in Scenarios /\ cr \in CR /\ cached \in CR /\ mem \in CR
    /\ edits \in 0..Len(scenario.wishes)

SetPart == set \in StatefulSet /\ setCached \in StatefulSet /\ seen \in StatefulSet

PodTypes == [phase : Phases, rev : Revs]

PodPart ==
    /\ pods \in [Ordinals -> PodTypes] /\ smap \in [Ordinals -> Membership]
    /\ rebalance \in BOOLEAN

RunPart == pc \in Steps /\ arg \in Sizes \cup Revs /\ faults \in 0..MaxFaults

LEMMA TypeParts == TypeOK <=> CRPart /\ SetPart /\ PodPart /\ RunPart
  BY DEF TypeOK, CRPart, SetPart, PodPart, RunPart, PodTypes

(***************************************************************************)
(* The operators of the model.                                             *)
(***************************************************************************)
LEMMA StartType ==
    ASSUME scenario \in Scenarios
    PROVE  /\ Start.size \in 1..MaxSize /\ Start.rev \in Revs
           /\ \A r \in Revs : Fate[r] \in {"ready", "crash", "unschedulable"}
           /\ scenario.wishes \in Seq(Wish) /\ Len(scenario.wishes) \in Nat
           /\ StartCR \in CR /\ StartSet \in StatefulSet /\ NoPod \in PodTypes
<1>1. Start \in Wish /\ Fate \in [Revs -> {"ready", "crash", "unschedulable"}]
      /\ scenario.wishes \in Seq(Wish)
  BY ScenarioAssumption DEF Scenario, Start, Fate
<1>2. Start.size \in 1..MaxSize /\ Start.rev \in Revs
  BY <1>1 DEF Wish
<1>3. Start.size \in Sizes /\ 0 \in Sizes
  BY <1>2, SizeAssumption DEF Sizes
<1>4. StartSet \in StatefulSet
  <2>1. (IF Serving(Start.rev) THEN Start.size ELSE 0) \in Sizes
    BY <1>3
  <2> QED
    BY <1>2, <1>3, <2>1 DEF StartSet, StatefulSet
<1>5. StartCR \in CR
  <2>1. Serving(Start.rev) \in BOOLEAN
    BY DEF Serving
  <2> QED
    BY <1>2, <2>1 DEF StartCR, CR
<1>6. NoPod \in PodTypes
  BY <1>2 DEF NoPod, PodTypes, Phases
<1> QED
  BY <1>1, <1>2, <1>4, <1>5, <1>6

(* No more pods are counted than there are ordinals.                       *)
LEMMA OrdinalsFinite ==
    /\ IsFiniteSet(Ordinals) /\ Cardinality(Ordinals) = MaxSize
    /\ \A S \in SUBSET Ordinals : IsFiniteSet(S) /\ Cardinality(S) \in Sizes
<1>1. MaxSize \in Nat \ {0} /\ Ordinals = 0..(MaxSize - 1)
  BY SizeAssumption DEF Ordinals
<1>2. /\ IsFiniteSet(0..(MaxSize - 1))
      /\ Cardinality(0..(MaxSize - 1)) = IF 0 > MaxSize - 1 THEN 0 ELSE (MaxSize - 1) - 0 + 1
  BY <1>1, FS_Interval
<1>3. IsFiniteSet(Ordinals) /\ Cardinality(Ordinals) = MaxSize
  BY <1>1, <1>2
<1>4. ASSUME NEW S \in SUBSET Ordinals
      PROVE  IsFiniteSet(S) /\ Cardinality(S) \in Sizes
  <2>1. IsFiniteSet(S) /\ Cardinality(S) <= Cardinality(Ordinals)
    BY <1>3, FS_Subset
  <2>2. Cardinality(S) \in Nat
    BY <2>1, FS_CardinalityType
  <2> QED
    BY <1>1, <1>3, <2>1, <2>2 DEF Sizes
<1> QED
  BY <1>3, <1>4

LEMMA TypeInit == Init => TypeInv
<1> SUFFICES ASSUME Init PROVE TypeInv
  OBVIOUS
<1>1. scenario \in Scenarios
  BY DEF Init
<1>2. CRPart
  <2>1. cr = StartCR /\ cached = StartCR /\ mem = StartCR /\ edits = 0
    BY DEF Init
  <2> QED
    BY <1>1, <2>1, StartType DEF CRPart
<1>3. SetPart
  BY <1>1, StartType DEF Init, SetPart
<1>4. PodPart
  <2>1. [phase |-> Fate[Start.rev], rev |-> Start.rev] \in PodTypes /\ NoPod \in PodTypes
    BY <1>1, StartType DEF PodTypes, Phases
  <2>2. pods \in [Ordinals -> PodTypes]
    BY <2>1 DEF Init
  <2>3. smap \in [Ordinals -> Membership]
    BY DEF Init, Membership
  <2>4. rebalance \in BOOLEAN
    BY DEF Init, StartCR, Serving
  <2> QED
    BY <2>2, <2>3, <2>4 DEF PodPart
<1>5. RunPart
  BY SizeAssumption, FaultAssumption DEF Init, RunPart, Steps, Sizes
<1>6. ArgInv
  BY DEF Init, ArgInv, RolloutSteps, GrowSteps
<1> QED
  BY <1>2, <1>3, <1>4, <1>5, <1>6, TypeParts DEF TypeInv

(***************************************************************************)
(* What the steps leave alone.                                             *)
(***************************************************************************)
Condition ==
    \/ SetRebalanceCondition("rolloutDisable", "rolloutConfig", FALSE)
    \/ SetRebalanceCondition("shrinkEnable", "shrinkConfig", TRUE)
    \/ SetRebalanceCondition("growDisable", "growConfig", FALSE)
    \/ SetRebalanceCondition("finalEnable", "finalConfig", TRUE)

Config ==
    \/ HandleConfigState("rolloutConfig", "patchTemplate", TRUE)
    \/ HandleConfigState("shrinkConfig", "prepare", TRUE)
    \/ HandleConfigState("growConfig", "resize", TRUE)
    \/ HandleConfigState("finalConfig", "idle", FALSE)

(* The steps of the operator that write none of the StatefulSet, the pods, *)
(* the cluster map and the CR.                                             *)
Decision ==
    \/ HandleTargetState \/ ResolveStatefulSetScaling \/ FindPodNeedingUpdate
    \/ CheckAISClusterReady \/ Fail

Writing ==
    \/ PatchTemplate \/ PrepareTargetsForScaleDown \/ Resize
    \/ PrepareTargetForRollout \/ DeletePod

Environment ==
    \/ UserEdits \/ SyncCR \/ SyncSet \/ UpdateStatus
    \/ \E i \in Ordinals : Pods(i)

LEMMA NextSplit == Next <=> Condition \/ Config \/ Decision \/ Writing \/ Environment
  BY DEF Next, OperatorStep, SyncTargetPodSpec, HandleTargetScaling, StartTargetScaling,
         HandleTargetRollout, HandleReady, Condition, Config, Decision, Writing, Environment

(* Where a reconcile goes on.                                              *)
LEMMA ConditionMoves ==
    ASSUME Condition
    PROVE  /\ UNCHANGED <<scenario, cached, set, setCached, seen, arg, world, faults, edits>>
           /\ \/ cr' = cr /\ mem' = mem /\ mem.allowed
              \/ \E b \in BOOLEAN : cr' = [cr EXCEPT !.allowed = b] /\ mem' = cr'
           /\ \/ pc = "rolloutDisable" /\ pc' = "rolloutConfig"
              \/ pc = "shrinkEnable" /\ pc' = "shrinkConfig"
              \/ pc = "growDisable" /\ pc' = "growConfig"
              \/ pc = "finalEnable" /\ pc' = "finalConfig"
  BY DEF Condition, SetRebalanceCondition, Goto

LEMMA ConfigMoves ==
    ASSUME Config
    PROVE  /\ UNCHANGED <<scenario, cached, set, setCached, pods, smap, edits>>
           /\ rebalance' = mem.allowed \/ (rebalance' = rebalance /\ pc = "finalConfig")
           /\ cr' = cr \/ cr' = [cr EXCEPT !.applied = mem.allowed]
           /\ faults' = faults \/ (faults < MaxFaults /\ faults' = faults + 1)
           /\ \/ Return
              \/ /\ \/ pc = "rolloutConfig" /\ pc' = "patchTemplate"
                    \/ pc = "shrinkConfig" /\ pc' = "prepare"
                    \/ pc = "growConfig" /\ pc' = "resize"
                 /\ arg' = arg /\ seen' = seen
                 /\ mem' = mem \/ mem' = cr'
<1>1. CASE HandleConfigState("finalConfig", "idle", FALSE)
  BY <1>1 DEF HandleConfigState, Goto
<1>2. CASE HandleConfigState("rolloutConfig", "patchTemplate", TRUE)
  BY <1>2 DEF HandleConfigState, Goto
<1>3. CASE HandleConfigState("shrinkConfig", "prepare", TRUE)
  BY <1>3 DEF HandleConfigState, Goto
<1>4. CASE HandleConfigState("growConfig", "resize", TRUE)
  BY <1>4 DEF HandleConfigState, Goto
<1> QED
  BY <1>1, <1>2, <1>3, <1>4 DEF Config

LEMMA DecisionMoves ==
    ASSUME Decision
    PROVE  /\ UNCHANGED <<scenario, cr, cached, set, setCached, world, edits>>
           /\ faults' = faults \/ (faults < MaxFaults /\ faults' = faults + 1)
           /\ \/ Return
              \/ HandleTargetState
              \/ seen' = seen /\ mem' = mem
<1>1. CASE HandleTargetState \/ Fail
  BY <1>1 DEF HandleTargetState, Fail, world
<1>2. CASE ResolveStatefulSetScaling
  BY <1>2 DEF ResolveStatefulSetScaling, Goto
<1>3. CASE FindPodNeedingUpdate
  BY <1>3 DEF FindPodNeedingUpdate, Goto
<1>4. CASE CheckAISClusterReady
  BY <1>4 DEF CheckAISClusterReady, Goto
<1> QED
  BY <1>1, <1>2, <1>3, <1>4 DEF Decision

LEMMA WritingMoves ==
    ASSUME Writing
    PROVE  /\ UNCHANGED <<scenario, cr, cached, setCached, rebalance, edits>>
           /\ faults' = faults \/ (faults < MaxFaults /\ faults' = faults + 1)
           /\ set' = set \/ PatchTemplate \/ Resize
           /\ pods' = pods \/ DeletePod
           /\ smap' = smap \/ PrepareTargetsForScaleDown \/ PrepareTargetForRollout
           /\ \/ Return
              \/ pc = "prepare" /\ pc' = "resolve" /\ mem' = mem /\ seen' = seen /\ arg' = 0
              \/ pc = "drain" /\ pc' = "deletePod" /\ mem' = mem /\ seen' = seen /\ arg' = arg
<1>1. CASE PatchTemplate \/ Resize \/ DeletePod
  BY <1>1 DEF PatchTemplate, Resize, DeletePod, world
<1>2. CASE PrepareTargetsForScaleDown
  BY <1>2 DEF PrepareTargetsForScaleDown, Goto
<1>3. CASE PrepareTargetForRollout
  BY <1>3 DEF PrepareTargetForRollout, Goto
<1> QED
  BY <1>1, <1>2, <1>3 DEF Writing

LEMMA EnvironmentMoves ==
    ASSUME Environment
    PROVE  /\ UNCHANGED <<scenario, operator, rebalance, faults>>
           /\ UserEdits \/ (cr' = cr /\ edits' = edits)
           /\ cached' = cached \/ cached' = cr
           /\ setCached' = setCached \/ setCached' = set
           /\ set' = set \/ UpdateStatus
           /\ UNCHANGED <<pods, smap>> \/ \E i \in Ordinals : Pods(i)
<1>1. CASE UserEdits \/ SyncCR \/ SyncSet
  BY <1>1 DEF UserEdits, SyncCR, SyncSet, world
<1>2. CASE UpdateStatus
  BY <1>2 DEF UpdateStatus, world
<1>3. CASE \E i \in Ordinals : Pods(i)
  BY <1>3 DEF Pods, CreatePod, RemovePod, PodGone, PodSettles, DecommissionDone, DaemonExits,
              operator
<1> QED
  BY <1>1, <1>2, <1>3 DEF Environment

(***************************************************************************)
(* Every step keeps the types.                                             *)
(***************************************************************************)
(* What is written to a CR.                                                *)
LEMMA CRWrites ==
    ASSUME NEW c \in CR, NEW b \in BOOLEAN, NEW w \in Wish
    PROVE  /\ [c EXCEPT !.allowed = b] \in CR /\ [c EXCEPT !.applied = b] \in CR
           /\ [c EXCEPT !.size = w.size, !.rev = w.rev] \in CR
<1>1. w.size \in 1..MaxSize /\ w.rev \in Revs
  BY DEF Wish
<1> QED
  BY <1>1 DEF CR

LEMMA CRStep ==
    ASSUME TypeInv, Next
    PROVE  CRPart' /\ scenario' = scenario
<1>1. CRPart /\ StartCR \in CR
  BY TypeParts, StartType DEF TypeInv, CRPart
<1>2. cr \in CR /\ cached \in CR /\ mem \in CR /\ mem.allowed \in BOOLEAN
  BY <1>1 DEF CRPart, CR
<1>3. CASE Condition
  <2>1. UNCHANGED <<scenario, cached, edits>>
    BY <1>3, ConditionMoves
  <2>2. cr' \in CR /\ mem' \in CR
    BY <1>2, <1>3, ConditionMoves DEF CR
  <2> QED
    BY <1>1, <2>1, <2>2 DEF CRPart
<1>4. CASE Config
  <2>1. UNCHANGED <<scenario, cached, edits>>
    BY <1>4, ConfigMoves
  <2>2. cr' \in CR
    BY <1>2, <1>4, ConfigMoves DEF CR
  <2>3. mem' = StartCR \/ mem' = mem \/ mem' = cr'
    BY <1>4, ConfigMoves DEF Return
  <2> QED
    BY <1>1, <1>2, <2>1, <2>2, <2>3 DEF CRPart
<1>5. CASE Decision
  <2>1. UNCHANGED <<scenario, cr, cached, edits>>
    BY <1>5, DecisionMoves
  <2>2. mem' = StartCR \/ mem' = mem \/ mem' = cached
    BY <1>5, DecisionMoves DEF Return, HandleTargetState
  <2> QED
    BY <1>1, <1>2, <2>1, <2>2 DEF CRPart
<1>6. CASE Writing
  <2>1. UNCHANGED <<scenario, cr, cached, edits>>
    BY <1>6, WritingMoves
  <2>2. mem' = StartCR \/ mem' = mem
    BY <1>6, WritingMoves DEF Return
  <2> QED
    BY <1>1, <1>2, <2>1, <2>2 DEF CRPart
<1>7. CASE Environment
  <2>1. scenario' = scenario /\ mem' = mem /\ (cached' = cached \/ cached' = cr)
    BY <1>7, EnvironmentMoves DEF operator
  <2>2. CASE UserEdits
    <3>1. /\ edits < Len(scenario.wishes) /\ edits' = edits + 1
          /\ cr' = [cr EXCEPT !.size = scenario.wishes[edits'].size,
                              !.rev = scenario.wishes[edits'].rev]
      BY <2>2 DEF UserEdits
    <3>2. scenario.wishes \in Seq(Wish) /\ Len(scenario.wishes) \in Nat
      BY <1>1, StartType DEF CRPart
    <3>3. edits' \in 1..Len(scenario.wishes)
      BY <1>1, <3>1, <3>2 DEF CRPart
    <3>4. scenario.wishes[edits'] \in Wish
      BY <3>2, <3>3
    <3>5. cr' \in CR
      BY <1>2, <3>1, <3>4, CRWrites
    <3> QED
      BY <1>1, <1>2, <2>1, <3>3, <3>5 DEF CRPart
  <2>3. CASE cr' = cr /\ edits' = edits
    BY <1>1, <1>2, <2>1, <2>3 DEF CRPart
  <2> QED
    BY <1>7, <2>2, <2>3, EnvironmentMoves
<1> QED
  BY <1>3, <1>4, <1>5, <1>6, <1>7, NextSplit

(* The pods that the StatefulSet controller counts.                        *)
Existing == {i \in Ordinals : pods[i].phase # "none"}
ReadyPods == {i \in Ordinals : pods[i].phase = "ready"}
UpdatedPods == {i \in Ordinals : IsActive(pods[i]) /\ pods[i].rev = set.rev}

LEMMA StatusWrites ==
    ASSUME UpdateStatus
    PROVE  set' = [set EXCEPT !.observed = TRUE, !.updateRev = set.rev,
                              !.pods = Cardinality(Existing),
                              !.ready = Cardinality(ReadyPods),
                              !.updated = Cardinality(UpdatedPods)]
  BY DEF UpdateStatus, Count, Existing, ReadyPods, UpdatedPods

LEMMA SetStep ==
    ASSUME TypeInv, Next
    PROVE  SetPart'
<1>1. SetPart /\ ArgInv /\ StartSet \in StatefulSet
  BY TypeParts, StartType DEF TypeInv, CRPart
<1>2. set \in StatefulSet /\ set.observed \in BOOLEAN /\ set.rev \in Revs
  BY <1>1 DEF SetPart, StatefulSet
<1>3. CASE PatchTemplate
  <2> DEFINE o == set.observed /\ set.rev = arg
  <2>1. set' = [set EXCEPT !.rev = arg, !.observed = o]
    BY <1>3 DEF PatchTemplate
  <2>2. o \in BOOLEAN /\ arg \in Revs
    BY <1>1, <1>2, <1>3 DEF PatchTemplate, ArgInv, RolloutSteps
  <2> HIDE DEF o
  <2>3. set' \in StatefulSet
    BY <1>2, <2>1, <2>2 DEF StatefulSet
  <2> QED
    BY <1>1, <1>3, <2>3 DEF SetPart, PatchTemplate, Return
<1>4. CASE Resize
  <2> DEFINE o == set.observed /\ set.replicas = arg
  <2>1. set' = set \/ set' = [set EXCEPT !.replicas = arg, !.observed = o]
    BY <1>4 DEF Resize
  <2>2. o \in BOOLEAN /\ arg \in 1..MaxSize
    BY <1>1, <1>2, <1>4 DEF Resize, ArgInv, GrowSteps
  <2> HIDE DEF o
  <2>3. set' \in StatefulSet
    BY <1>2, <2>1, <2>2 DEF StatefulSet
  <2> QED
    BY <1>1, <1>4, <2>3 DEF SetPart, Resize, Return
<1>5. CASE UpdateStatus
  <2>1. /\ Cardinality(Existing) \in Sizes /\ Cardinality(ReadyPods) \in Sizes
        /\ Cardinality(UpdatedPods) \in Sizes
    BY OrdinalsFinite DEF Existing, ReadyPods, UpdatedPods
  <2>2. set' \in StatefulSet
    BY <1>2, <1>5, <2>1, StatusWrites DEF StatefulSet
  <2> QED
    BY <1>1, <1>5, <2>2 DEF SetPart, UpdateStatus, operator
<1>6. CASE set' = set /\ (Condition \/ Config \/ Decision \/ Writing)
  <2>1. setCached' = setCached
    BY <1>6, ConditionMoves, ConfigMoves, DecisionMoves, WritingMoves
  <2>2. seen' = seen \/ seen' = StartSet \/ seen' = setCached
    BY <1>6, ConditionMoves, ConfigMoves, DecisionMoves, WritingMoves
       DEF Return, HandleTargetState
  <2> QED
    BY <1>1, <1>6, <2>1, <2>2 DEF SetPart
<1>7. CASE set' = set /\ Environment
  <2>1. seen' = seen /\ (setCached' = setCached \/ setCached' = set)
    BY <1>7, EnvironmentMoves DEF operator
  <2> QED
    BY <1>1, <1>7, <2>1 DEF SetPart
<1>8. set' = set \/ PatchTemplate \/ Resize \/ UpdateStatus
  BY NextSplit, ConditionMoves, ConfigMoves, DecisionMoves, WritingMoves, EnvironmentMoves
<1> QED
  BY <1>3, <1>4, <1>5, <1>6, <1>7, <1>8, NextSplit

(* What is written to a pod.                                               *)
LEMMA PodWrites ==
    ASSUME PodPart, NEW i \in Ordinals
    PROVE  /\ \A x \in PodTypes : [pods EXCEPT ![i] = x] \in [Ordinals -> PodTypes]
           /\ \A f \in Phases : [pods EXCEPT ![i].phase = f] \in [Ordinals -> PodTypes]
           /\ [pods EXCEPT ![i] = Terminated(@)] \in [Ordinals -> PodTypes]
           /\ \A m \in Membership : [smap EXCEPT ![i] = m] \in [Ordinals -> Membership]
<1>1. pods[i] \in PodTypes
  BY DEF PodPart
<1>2. \A f \in Phases : [pods[i] EXCEPT !.phase = f] \in PodTypes
  BY <1>1 DEF PodTypes
<1>3. Terminated(pods[i]) \in PodTypes
  BY <1>1 DEF Terminated, PodTypes, Phases
<1>4. \A x \in PodTypes : [pods EXCEPT ![i] = x] \in [Ordinals -> PodTypes]
  BY DEF PodPart
<1>5. \A m \in Membership : [smap EXCEPT ![i] = m] \in [Ordinals -> Membership]
  BY DEF PodPart
<1> QED
  BY <1>2, <1>3, <1>4, <1>5

LEMMA PodStep ==
    ASSUME TypeInv, Next
    PROVE  PodPart'
<1>1. /\ PodPart /\ ArgInv /\ NoPod \in PodTypes /\ set \in StatefulSet /\ mem \in CR
      /\ scenario \in Scenarios
  BY TypeParts, StartType DEF TypeInv, CRPart, SetPart
<1>2. mem.allowed \in BOOLEAN /\ set.rev \in Revs
  BY <1>1 DEF CR, StatefulSet
<1>3. CASE Condition \/ Config \/ Decision
  <2>1. UNCHANGED <<pods, smap>> /\ rebalance' \in BOOLEAN
    BY <1>1, <1>2, <1>3, ConditionMoves, ConfigMoves, DecisionMoves DEF world, PodPart
  <2> QED
    BY <1>1, <2>1 DEF PodPart
<1>4. CASE Writing
  <2>1. rebalance' = rebalance
    BY <1>4, WritingMoves
  <2>2. pods' \in [Ordinals -> PodTypes]
    <3>1. CASE DeletePod
      BY <1>1, <3>1, PodWrites DEF DeletePod, ArgInv
    <3>2. CASE pods' = pods
      BY <1>1, <3>2 DEF PodPart
    <3> QED
      BY <1>4, <3>1, <3>2, WritingMoves
  <2>3. smap' \in [Ordinals -> Membership]
    <3>1. CASE PrepareTargetsForScaleDown
      BY <1>1, <3>1 DEF PrepareTargetsForScaleDown, Prepared, PodPart, Membership
    <3>2. CASE PrepareTargetForRollout
      <4>1. arg \in Ordinals
        BY <1>1, <3>2 DEF PrepareTargetForRollout, ArgInv
      <4>2. smap' = smap \/ smap' = [smap EXCEPT ![arg] = "maintenance"]
        BY <3>2 DEF PrepareTargetForRollout
      <4> QED
        BY <1>1, <4>1, <4>2, PodWrites DEF PodPart, Membership
    <3>3. CASE smap' = smap
      BY <1>1, <3>3 DEF PodPart
    <3> QED
      BY <1>4, <3>1, <3>2, <3>3, WritingMoves
  <2> QED
    BY <1>1, <2>1, <2>2, <2>3 DEF PodPart
<1>5. CASE Environment
  <2>1. rebalance' = rebalance
    BY <1>5, EnvironmentMoves
  <2>2. ASSUME NEW i \in Ordinals, Pods(i)
        PROVE  pods' \in [Ordinals -> PodTypes] /\ smap' \in [Ordinals -> Membership]
    <3>1. pods[i] \in PodTypes /\ smap[i] \in Membership /\ pods[i].rev \in Revs
      BY <1>1 DEF PodPart, PodTypes
    <3>2. pods \in [Ordinals -> PodTypes] /\ smap \in [Ordinals -> Membership]
      BY <1>1 DEF PodPart
    <3>3. CASE CreatePod(i)
      <4>1. [phase |-> "starting", rev |-> set.rev] \in PodTypes
        BY <1>2 DEF PodTypes, Phases
      <4> QED
        BY <1>1, <3>2, <3>3, <4>1, PodWrites DEF CreatePod
    <3>4. CASE RemovePod(i)
      BY <1>1, <3>2, <3>4, PodWrites DEF RemovePod
    <3>5. CASE PodGone(i)
      <4>1. (IF smap[i] = "active" THEN "absent" ELSE smap[i]) \in Membership
        BY <3>1 DEF Membership
      <4> QED
        BY <1>1, <3>5, <4>1, PodWrites DEF PodGone
    <3>6. CASE PodSettles(i)
      <4>1. (IF Serving(pods[i].rev) THEN "active" ELSE smap[i]) \in Membership
        BY <3>1 DEF Membership
      <4>2. Fate[pods[i].rev] \in Phases
        BY <1>1, <3>1, StartType DEF Phases
      <4> QED
        BY <1>1, <3>6, <4>1, <4>2, PodWrites DEF PodSettles
    <3>7. CASE DecommissionDone(i)
      BY <1>1, <3>2, <3>7, PodWrites DEF DecommissionDone, Membership
    <3>8. CASE DaemonExits(i)
      BY <1>1, <3>2, <3>8, PodWrites DEF DaemonExits, Phases
    <3> QED
      BY <2>2, <3>3, <3>4, <3>5, <3>6, <3>7, <3>8 DEF Pods
  <2> QED
    BY <1>1, <1>5, <2>1, <2>2, EnvironmentMoves DEF PodPart
<1> QED
  BY <1>3, <1>4, <1>5, NextSplit

LEMMA RunStep ==
    ASSUME TypeInv, Next
    PROVE  RunPart' /\ ArgInv'
<1>1. RunPart /\ ArgInv /\ mem \in CR /\ cached \in CR
  BY TypeParts DEF TypeInv, CRPart
<1>2. /\ mem.size \in 1..MaxSize /\ cached.rev \in Revs /\ MaxSize \in Nat \ {0}
      /\ MaxFaults \in Nat
  BY <1>1, SizeAssumption, FaultAssumption DEF CR
<1>3. 1..MaxSize \subseteq Sizes /\ Ordinals \subseteq Sizes /\ 0 \in Sizes
  BY <1>2 DEF Sizes, Ordinals
<1>4. Return => pc' \in Steps /\ arg' \in Sizes \cup Revs /\ ArgInv'
  BY <1>3 DEF Return, Steps, ArgInv, RolloutSteps, GrowSteps
<1>5. faults' \in 0..MaxFaults
  <2>1. faults' = faults \/ (faults < MaxFaults /\ faults' = faults + 1)
    BY NextSplit, ConditionMoves, ConfigMoves, DecisionMoves, WritingMoves, EnvironmentMoves
  <2> QED
    BY <1>1, <1>2, <2>1 DEF RunPart
<1>6. CASE Return
  BY <1>4, <1>5, <1>6 DEF RunPart
<1>7. CASE Condition
  BY <1>1, <1>5, <1>7, ConditionMoves DEF RunPart, ArgInv, Steps, RolloutSteps, GrowSteps
<1>8. CASE Config
  BY <1>1, <1>5, <1>6, <1>8, ConfigMoves DEF RunPart, ArgInv, Steps, RolloutSteps, GrowSteps
<1>9. CASE Decision
  <2>1. CASE HandleTargetState
    <3>1. /\ pc' \in Steps \ (GrowSteps \cup {"drain", "deletePod"})
          /\ arg' = cached.rev
      BY <2>1 DEF HandleTargetState, Choice, Steps, GrowSteps
    <3> QED
      BY <1>2, <1>5, <3>1 DEF RunPart, ArgInv, GrowSteps, RolloutSteps
  <2>2. CASE ResolveStatefulSetScaling
    <3>1. Return \/ (pc' \in {"growDisable", "resize"} /\ arg' = mem.size)
      BY <2>2 DEF ResolveStatefulSetScaling, Goto
    <3> QED
      BY <1>2, <1>3, <1>5, <1>6, <3>1 DEF RunPart, ArgInv, GrowSteps, RolloutSteps, Steps
  <2>3. CASE FindPodNeedingUpdate
    <3>1. Return \/ (pc' = "drain" /\ arg' \in Ordinals)
      BY <2>3 DEF FindPodNeedingUpdate, Goto
    <3> QED
      BY <1>3, <1>5, <1>6, <3>1 DEF RunPart, ArgInv, GrowSteps, RolloutSteps, Steps
  <2>4. CASE CheckAISClusterReady
    <3>1. Return \/ (pc' = "finalEnable" /\ arg' = 0)
      BY <2>4 DEF CheckAISClusterReady, Goto
    <3> QED
      BY <1>3, <1>5, <1>6, <3>1 DEF RunPart, ArgInv, GrowSteps, RolloutSteps, Steps
  <2>5. CASE Fail
    BY <1>6, <2>5 DEF Fail
  <2> QED
    BY <1>9, <2>1, <2>2, <2>3, <2>4, <2>5 DEF Decision
<1>10. CASE Writing
  BY <1>1, <1>3, <1>5, <1>6, <1>10, WritingMoves
     DEF RunPart, ArgInv, GrowSteps, RolloutSteps, Steps
<1>11. CASE Environment
  BY <1>1, <1>5, <1>11, EnvironmentMoves DEF RunPart, ArgInv, operator
<1> QED
  BY <1>7, <1>8, <1>9, <1>10, <1>11, NextSplit

LEMMA TypeStep == TypeInv /\ [Next]_vars => TypeInv'
<1> SUFFICES ASSUME TypeInv, [Next]_vars PROVE TypeInv'
  OBVIOUS
<1>1. CASE Next
  <2>1. CRPart' /\ SetPart' /\ PodPart' /\ RunPart' /\ ArgInv'
    BY <1>1, CRStep, SetStep, PodStep, RunStep
  <2>2. TypeOK'
    BY <2>1, TypeParts, PTL
  <2> QED
    BY <2>1, <2>2 DEF TypeInv
<1>2. CASE UNCHANGED vars
  BY <1>2 DEF vars, TypeInv, TypeOK, ArgInv
<1> QED
  BY <1>1, <1>2

(* Whatever the scenario, the state has its types: no StatefulSet is       *)
(* scaled to nothing or beyond the sizes that users ask for, though the    *)
(* size comes from memory and the StatefulSet from the cache               *)
(* (resolveStatefulSetScaling, UpdateStatefulSetReplicas).                 *)
THEOREM TargetTypes == Spec => []TypeOK
<1>1. Init => TypeInv
  BY TypeInit
<1>2. TypeInv /\ [Next]_vars => TypeInv'
  BY TypeStep
<1>3. TypeInv => TypeOK
  BY DEF TypeInv
<1> QED
  BY <1>1, <1>2, <1>3, PTL DEF Spec

-----------------------------------------------------------------------------
(***************************************************************************)
(* The change that one edit asks for.                                      *)
(***************************************************************************)
(* The user edits the CR at most once: size, revision or both.             *)
OneEdit == Len(scenario.wishes) <= 1

(* What the user asks for in the end.                                      *)
Goal == IF Len(scenario.wishes) = 0 THEN Start ELSE scenario.wishes[1]

Upgrade == Goal.rev # Start.rev

Same(c, w) == c.size = w.size /\ c.rev = w.rev

(* A copy of the CR shows what it asked for at first, or what it asks for. *)
CopyOK(c) == Same(c, Start) \/ (Same(c, Goal) /\ Same(cr, Goal))

CopyInv ==
    /\ OneEdit
    /\ edits = 0 => Same(cr, Start)
    /\ edits = 1 => Same(cr, Goal)
    /\ CopyOK(cached) /\ CopyOK(mem)

(* The revisions of a StatefulSet, live, cached or in memory.              *)
RevOK(s) ==
    /\ s.currentRev = Start.rev
    /\ s.rev \in {Start.rev, Goal.rev} /\ s.updateRev \in {Start.rev, s.rev}
    /\ s.replicas \in {Start.size, Goal.size}
    /\ s.observed => s.updateRev = s.rev

ScalingSteps ==
    {"shrinkEnable", "shrinkConfig", "prepare", "resolve", "growDisable", "growConfig",
     "resize"}

(* A new template reaches the StatefulSet, then its copies, for good, and  *)
(* only after the edit has reached the cache; the operator scales only     *)
(* when it has seen both.                                                  *)
LagInv ==
    /\ setCached.rev # Start.rev => set.rev # Start.rev
    /\ seen.rev # Start.rev => set.rev # Start.rev
    /\ set.rev # Start.rev => Same(cached, Goal)
    /\ set.replicas # Start.size \/ setCached.replicas # Start.size
           => Same(cached, Goal) /\ setCached.rev = Goal.rev
    /\ pc \in RolloutSteps => Same(cached, Goal) /\ arg = Goal.rev /\ Upgrade
    /\ pc \in ScalingSteps => Same(cached, Goal) /\ Same(mem, Goal) /\ setCached.rev = Goal.rev
    /\ pc \in GrowSteps => arg = Goal.size
    /\ pc \in {"rollout", "drain", "deletePod"} => seen.updateRev # Start.rev

(* The pods that the cluster had before the edit.                          *)
First == [phase |-> Fate[Start.rev], rev |-> Start.rev]

(* There still is a pod of the old revision.                               *)
Waiting == \E i \in Ordinals : pods[i].rev = Start.rev /\ pods[i].phase # "none"

Done(i) == pods[i].rev = Goal.rev /\ IsPodRolloutCompleted(pods[i])

(* A status that shows no rollout in progress is right about it, also when *)
(* it is old.                                                              *)
StatusOK(s) ==
    /\ s.rev = Start.rev => s.pods = Start.size /\ s.replicas = Start.size
    /\ Waiting => s.replicas = Start.size
    /\ s.updateRev = Goal.rev /\ (s.updated >= s.replicas \/ s.updated >= s.pods)
           => ~Waiting

(* Where an upgrade stands: nothing changes before the template does; then *)
(* the pods are replaced in order, and while one is left the operator does *)
(* not scale and no daemon is sent away.                                   *)
UpgradeInv ==
    /\ set.rev = Start.rev =>
          \A i \in Ordinals : pods[i] = IF i < Start.size THEN First ELSE NoPod
    /\ StatusOK(set) /\ StatusOK(setCached) /\ StatusOK(seen)
    /\ Waiting =>
        /\ pc \notin ScalingSteps
        /\ \A i \in Ordinals : /\ i >= Start.size => pods[i].phase = "none"
                               /\ smap[i] # "decommission"
                               /\ pods[i].phase = "ready" => smap[i] # "absent"
                               /\ pods[i].rev = Start.rev /\ IsActive(pods[i])
                                    => pods[i] = First
        /\ \A i, j \in Ordinals : j < i /\ i < Start.size /\ pods[i] # First => Done(j)
    /\ pc \in {"drain", "deletePod"} =>
        /\ arg < Start.size /\ pods[arg] = First
        /\ \A j \in Ordinals : j < arg => Done(j)

PodInv ==
    \A i \in Ordinals :
        /\ pods[i].rev \in {Start.rev, Goal.rev}
        /\ pods[i].phase = "unschedulable" => Fate[pods[i].rev] = "unschedulable"

EditInv ==
    /\ CopyInv
    /\ RevOK(set) /\ RevOK(setCached) /\ RevOK(seen)
    /\ LagInv
    /\ PodInv
    /\ Upgrade => UpgradeInv

(***************************************************************************)
(* It holds at first.                                                      *)
(***************************************************************************)
LEMMA GoalType ==
    ASSUME scenario \in Scenarios, OneEdit
    PROVE  Goal.size \in 1..MaxSize /\ Goal.rev \in Revs
<1>1. /\ scenario.wishes \in Seq(Wish) /\ Len(scenario.wishes) \in Nat
      /\ Start.size \in 1..MaxSize /\ Start.rev \in Revs
  BY StartType
<1>2. CASE Len(scenario.wishes) = 0
  BY <1>1, <1>2 DEF Goal
<1>3. CASE Len(scenario.wishes) # 0
  <2>1. 1 \in 1..Len(scenario.wishes)
    BY <1>1, <1>3
  <2>2. scenario.wishes[1] \in Wish
    BY <1>1, <2>1
  <2> QED
    BY <1>3, <2>2 DEF Goal, Wish
<1> QED
  BY <1>2, <1>3

LEMMA EditInit == Init /\ OneEdit => EditInv
<1> SUFFICES ASSUME Init, OneEdit PROVE EditInv
  OBVIOUS
<1>1. /\ scenario \in Scenarios /\ cr = StartCR /\ cached = StartCR /\ mem = StartCR
      /\ pc = "idle" /\ arg = 0 /\ edits = 0
      /\ set = StartSet /\ setCached = StartSet /\ seen = StartSet
  BY DEF Init
<1>2. /\ pods = [i \in Ordinals |-> IF i < Start.size THEN First ELSE NoPod]
      /\ smap = [i \in Ordinals |->
                   IF i < Start.size /\ Serving(Start.rev) THEN "active" ELSE "absent"]
  BY DEF Init, First
<1>3. /\ Start.size \in 1..MaxSize /\ Start.rev \in Revs /\ MaxSize \in Nat
      /\ Goal.size \in 1..MaxSize
      /\ Fate[Start.rev] \in {"ready", "crash", "unschedulable"}
  BY <1>1, StartType, GoalType, SizeAssumption
<1>4. CopyInv
  BY <1>1 DEF CopyInv, CopyOK, Same, StartCR
<1>5. RevOK(StartSet)
  BY DEF RevOK, StartSet
<1>6. LagInv
  BY <1>1 DEF LagInv, StartSet, RolloutSteps, ScalingSteps, GrowSteps
<1>7. PodInv
  BY <1>2, <1>3 DEF PodInv, First, NoPod
<1>8. Upgrade => UpgradeInv
  <2>1. /\ StartSet.rev = Start.rev /\ StartSet.pods = Start.size
        /\ StartSet.replicas = Start.size /\ StartSet.updateRev = Start.rev
    BY DEF StartSet
  <2>2. Upgrade => StatusOK(StartSet)
    BY <2>1 DEF StatusOK, Upgrade
  <2>3. \A i \in Ordinals : pods[i] = IF i < Start.size THEN First ELSE NoPod
    BY <1>2
  <2>4. \A i \in Ordinals : /\ i >= Start.size => pods[i].phase = "none"
                            /\ smap[i] # "decommission"
                            /\ pods[i].phase = "ready" => smap[i] # "absent"
                            /\ pods[i].rev = Start.rev /\ IsActive(pods[i])
                                 => pods[i] = First
    <3> TAKE i \in Ordinals
    <3>1. i \in Nat
      BY <1>3 DEF Ordinals
    <3>2. CASE i < Start.size
      BY <1>2, <1>3, <3>1, <3>2 DEF First, Serving
    <3>3. CASE ~(i < Start.size)
      BY <1>2, <1>3, <3>1, <3>3 DEF NoPod, IsActive
    <3> QED
      BY <3>2, <3>3
  <2>5. \A i \in Ordinals : i < Start.size => pods[i] = First
    BY <2>3
  <2> QED
    BY <1>1, <2>2, <2>3, <2>4, <2>5 DEF UpgradeInv, ScalingSteps
<1> QED
  BY <1>1, <1>4, <1>5, <1>6, <1>7, <1>8 DEF EditInv

(***************************************************************************)
(* Copies of the CR.                                                       *)
(***************************************************************************)
LEMMA ScenarioStays ==
    ASSUME TypeInv, Next
    PROVE  /\ scenario' = scenario /\ Start' = Start /\ Fate' = Fate /\ Retain' = Retain
           /\ Goal' = Goal /\ (Upgrade' <=> Upgrade) /\ First' = First /\ NoPod' = NoPod
           /\ (OneEdit' <=> OneEdit)
<1>1. scenario' = scenario
  BY CRStep
<1> QED
  BY <1>1 DEF Start, Fate, Retain, Goal, Upgrade, First, NoPod, OneEdit

(* The steps other than the user's edit leave what the CR asks for.        *)
LEMMA CRMoves ==
    ASSUME TypeInv, Next
    PROVE  \/ UserEdits
           \/ cr'.size = cr.size /\ cr'.rev = cr.rev /\ edits' = edits
<1>1. cr \in CR
  BY DEF TypeInv, TypeOK
<1>2. CASE Condition
  BY <1>1, <1>2, ConditionMoves DEF CR
<1>3. CASE Config
  BY <1>1, <1>3, ConfigMoves DEF CR
<1>4. CASE Decision \/ Writing \/ Environment
  BY <1>4, DecisionMoves, WritingMoves, EnvironmentMoves
<1> QED
  BY <1>2, <1>3, <1>4, NextSplit

LEMMA MemMoves ==
    ASSUME Next
    PROVE  /\ mem' = StartCR \/ mem' = mem \/ mem' = cached \/ mem' = cr'
           /\ cached' = cached \/ cached' = cr
           /\ seen' = StartSet \/ seen' = seen \/ seen' = setCached
           /\ setCached' = setCached \/ setCached' = set
<1>1. CASE Condition
  BY <1>1, ConditionMoves
<1>2. CASE Config
  BY <1>2, ConfigMoves DEF Return
<1>3. CASE Decision
  BY <1>3, DecisionMoves DEF Return, HandleTargetState
<1>4. CASE Writing
  BY <1>4, WritingMoves DEF Return
<1>5. CASE Environment
  BY <1>5, EnvironmentMoves DEF operator
<1> QED
  BY <1>1, <1>2, <1>3, <1>4, <1>5, NextSplit

LEMMA CopyStep ==
    ASSUME TypeInv, CopyInv, Next
    PROVE  CopyInv'
<1>1. /\ edits \in 0..Len(scenario.wishes) /\ Len(scenario.wishes) \in Nat /\ cr \in CR
      /\ Len(scenario.wishes) <= 1
  BY StartType DEF TypeInv, TypeOK, CopyInv, OneEdit
<1>2. Start' = Start /\ Goal' = Goal /\ OneEdit'
  BY ScenarioStays DEF CopyInv
<1>3. Same(StartCR, Start)
  BY DEF Same, StartCR
<1>4. CASE UserEdits
  <2>1. edits = 0 /\ edits' = 1
    BY <1>1, <1>4 DEF UserEdits
  <2>2. cr' = [cr EXCEPT !.size = scenario.wishes[1].size, !.rev = scenario.wishes[1].rev]
    BY <1>4, <2>1 DEF UserEdits
  <2>3. Goal = scenario.wishes[1]
    BY <1>1, <1>4 DEF UserEdits, Goal
  <2>4. Same(cr', Goal)
    BY <1>1, <2>2, <2>3 DEF Same, CR
  <2>5. mem' = mem /\ cached' = cached
    BY <1>4 DEF UserEdits, operator
  <2> QED
    BY <1>2, <2>1, <2>4, <2>5 DEF CopyInv, CopyOK, Same
<1>5. CASE cr'.size = cr.size /\ cr'.rev = cr.rev /\ edits' = edits
  <2>1. edits = 0 \/ edits = 1
    BY <1>1
  <2>2. CopyOK(cr)
    BY <2>1 DEF CopyInv, CopyOK
  <2>3. \A c, d : CopyOK(c) /\ d.size = c.size /\ d.rev = c.rev
                     => Same(d, Start') \/ (Same(d, Goal') /\ Same(cr', Goal'))
    BY <1>2, <1>5 DEF CopyOK, Same
  <2>4. CopyOK(StartCR)
    BY <1>3 DEF CopyOK
  <2>5. CopyOK(mem)' /\ CopyOK(cached)'
    BY <1>5, <2>2, <2>3, <2>4, MemMoves DEF CopyInv, CopyOK
  <2> QED
    BY <1>2, <1>5, <2>5 DEF CopyInv, Same
<1> QED
  BY <1>4, <1>5, CRMoves

(***************************************************************************)
(* Copies of the StatefulSet.                                              *)
(***************************************************************************)
LEMMA SetMoves ==
    ASSUME Next
    PROVE  set' = set \/ PatchTemplate \/ Resize \/ UpdateStatus
  BY NextSplit, ConditionMoves, ConfigMoves, DecisionMoves, WritingMoves, EnvironmentMoves

LEMMA PatchFields ==
    ASSUME TypeInv, PatchTemplate
    PROVE  /\ set'.rev = arg /\ (set'.observed => set.observed /\ set.rev = arg)
           /\ set'.replicas = set.replicas /\ set'.pods = set.pods
           /\ set'.updated = set.updated /\ set'.ready = set.ready
           /\ set'.updateRev = set.updateRev /\ set'.currentRev = set.currentRev
<1>1. set \in StatefulSet
  BY DEF TypeInv, TypeOK
<1>2. set' = [set EXCEPT !.rev = arg, !.observed = set.observed /\ set.rev = arg]
  BY DEF PatchTemplate
<1> QED
  BY <1>1, <1>2 DEF StatefulSet

LEMMA ResizeFields ==
    ASSUME TypeInv, Resize
    PROVE  \/ set' = set
           \/ /\ set'.replicas = arg /\ (set'.observed => set.observed)
              /\ set'.rev = set.rev /\ set'.pods = set.pods
              /\ set'.updated = set.updated /\ set'.ready = set.ready
              /\ set'.updateRev = set.updateRev /\ set'.currentRev = set.currentRev
<1>1. set \in StatefulSet
  BY DEF TypeInv, TypeOK
<1>2. \/ set' = set
      \/ set' = [set EXCEPT !.replicas = arg, !.observed = set.observed /\ set.replicas = arg]
  BY DEF Resize
<1> QED
  BY <1>1, <1>2 DEF StatefulSet

LEMMA StatusFields ==
    ASSUME TypeInv, UpdateStatus
    PROVE  /\ set'.rev = set.rev /\ set'.replicas = set.replicas
           /\ set'.updateRev = set.rev /\ set'.currentRev = set.currentRev
           /\ set'.pods = Cardinality(Existing) /\ set'.ready = Cardinality(ReadyPods)
           /\ set'.updated = Cardinality(UpdatedPods)
<1>1. set \in StatefulSet
  BY DEF TypeInv, TypeOK
<1> QED
  BY <1>1, StatusWrites DEF StatefulSet

(* Once the cache shows the edit it goes on to show it.                    *)
LEMMA GoalStays ==
    ASSUME TypeInv, EditInv, Next, Same(cached, Goal)
    PROVE  Same(cr, Goal) /\ Same(cr', Goal) /\ Same(cached', Goal)
<1>1. edits \in 0..Len(scenario.wishes) /\ Len(scenario.wishes) \in Nat
      /\ Len(scenario.wishes) <= 1
  BY StartType DEF TypeInv, TypeOK, EditInv, CopyInv, OneEdit
<1>2. edits = 0 \/ edits = 1
  BY <1>1
<1>3. Same(cr, Goal)
  BY <1>2 DEF EditInv, CopyInv, CopyOK, Same
<1>4. CopyInv'
  BY CopyStep DEF EditInv
<1>5. Same(cached', Goal)
  BY <1>3, MemMoves
<1>6. Same(cr', Goal)
  <2>1. CASE UserEdits
    <3>1. edits' = 1
      BY <1>1, <2>1 DEF UserEdits
    <3> QED
      BY <1>4, <3>1, ScenarioStays DEF CopyInv, Same
  <2>2. CASE cr'.size = cr.size /\ cr'.rev = cr.rev
    BY <1>3, <2>2 DEF Same
  <2> QED
    BY <2>1, <2>2, CRMoves
<1> QED
  BY <1>3, <1>5, <1>6

LEMMA RevStep ==
    ASSUME TypeInv, EditInv, Next
    PROVE  RevOK(set)' /\ RevOK(setCached)' /\ RevOK(seen)'
<1>1. Start' = Start /\ Goal' = Goal
  BY ScenarioStays
<1>2. RevOK(set) /\ RevOK(setCached) /\ RevOK(seen) /\ LagInv
  BY DEF EditInv
<1>3. RevOK(StartSet)
  BY DEF RevOK, StartSet
<1>4. \A s : RevOK(s) =>
        /\ s.currentRev = Start'.rev
        /\ s.rev \in {Start'.rev, Goal'.rev} /\ s.updateRev \in {Start'.rev, s.rev}
        /\ s.replicas \in {Start'.size, Goal'.size}
        /\ s.observed => s.updateRev = s.rev
  BY <1>1 DEF RevOK
<1>5. RevOK(setCached)' /\ RevOK(seen)'
  BY <1>2, <1>3, <1>4, MemMoves DEF RevOK
<1>6. RevOK(set)'
  <2>1. CASE set' = set
    BY <1>2, <1>4, <2>1 DEF RevOK
  <2>2. CASE PatchTemplate
    <3>1. arg = Goal.rev
      BY <1>2, <2>2 DEF LagInv, PatchTemplate, RolloutSteps
    <3> QED
      BY <1>1, <1>2, <2>2, <3>1, PatchFields DEF RevOK
  <2>3. CASE Resize
    <3>1. arg = Goal.size
      BY <1>2, <2>3 DEF LagInv, Resize, GrowSteps
    <3>2. CASE set' = set
      BY <2>1, <3>2
    <3>3. CASE set' # set
      BY <1>1, <1>2, <2>3, <3>1, <3>3, ResizeFields DEF RevOK
    <3> QED
      BY <3>2, <3>3
  <2>4. CASE UpdateStatus
    BY <1>1, <1>2, <2>4, StatusFields DEF RevOK
  <2> QED
    BY <2>1, <2>2, <2>3, <2>4, SetMoves
<1> QED
  BY <1>5, <1>6

(***************************************************************************)
(* What a reconcile decides on.                                            *)
(***************************************************************************)
Rolling(s) == s.currentRev # s.updateRev /\ s.updated < s.replicas /\ s.updated < s.pods

LEMMA ChoiceCases ==
    ASSUME HandleTargetState
    PROVE  /\ setCached.observed
           /\ \/ pc' = "rolloutDisable" /\ cached.rev # setCached.rev
              \/ /\ pc' \in {"prepare", "shrinkEnable", "resolve"}
                 /\ pc' = "prepare" <=> (Retain /\ pc' # "resolve")
                 /\ pc' = "resolve" <=> setCached.replicas < cached.size
                 /\ cached.size # setCached.replicas /\ ~Rolling(setCached)
                 /\ \/ cached.rev = setCached.rev
                    \/ setCached.pods # setCached.replicas
              \/ pc' = "rollout" /\ Rolling(setCached)
              \/ /\ pc' = "checkReady" /\ ~Rolling(setCached)
                 /\ setCached.pods = setCached.replicas
                 /\ cached.rev = setCached.rev
                 /\ setCached.replicas = cached.size
                 /\ setCached.updated = setCached.replicas
                 /\ setCached.ready = setCached.replicas
  BY DEF HandleTargetState, Choice, IsStatusCurrent, IsRolloutInProgress, IsScalingInProgress,
         StatefulSetScalingNeeded, IsStatefulSetFullyReady, Rolling

LEMMA ChoiceFacts ==
    ASSUME TypeInv, EditInv, HandleTargetState
    PROVE  /\ pc' \in RolloutSteps => Same(cached, Goal) /\ Upgrade
           /\ pc' \in ScalingSteps =>
                /\ Same(cached, Goal) /\ setCached.rev = Goal.rev
                /\ setCached.replicas = Start.size
                /\ Upgrade => ~Waiting
           /\ pc' = "rollout" => setCached.updateRev # Start.rev
           /\ pc' = "checkReady" /\ Upgrade /\ set.rev # Start.rev =>
                /\ setCached.updateRev = Goal.rev
                /\ setCached.updated = Goal.size /\ setCached.pods = Goal.size
                /\ setCached.ready = Goal.size
                /\ ~Waiting
<1>1. RevOK(setCached) /\ LagInv /\ CopyOK(cached) /\ (Upgrade => StatusOK(setCached))
  BY DEF EditInv, CopyInv, UpgradeInv
<1>2. /\ setCached.updated \in Nat /\ setCached.replicas \in Nat /\ setCached.pods \in Nat
      /\ cached.size \in Nat
  <2>1. setCached \in StatefulSet /\ cached \in CR /\ MaxSize \in Nat
    BY SizeAssumption DEF TypeInv, TypeOK
  <2> QED
    BY <2>1 DEF StatefulSet, CR, Sizes
<1>3. setCached.observed /\ setCached.updateRev = setCached.rev
  BY <1>1, ChoiceCases DEF RevOK
<1>4. CASE pc' = "rolloutDisable"
  <2>1. cached.rev # setCached.rev
    BY <1>4, ChoiceCases
  <2>2. setCached.rev = Start.rev
    BY <1>1, <2>1 DEF RevOK, LagInv, Same
  <2>3. Same(cached, Goal) /\ Upgrade
    BY <1>1, <2>1, <2>2 DEF CopyOK, Same, Upgrade
  <2> QED
    BY <1>4, <2>3 DEF ScalingSteps
<1>5. CASE pc' \in {"prepare", "shrinkEnable", "resolve"}
  <2>1. /\ cached.size # setCached.replicas /\ ~Rolling(setCached)
        /\ cached.rev = setCached.rev \/ setCached.pods # setCached.replicas
    BY <1>5, ChoiceCases
  <2>2. CASE Upgrade
    <3>1. setCached.rev # Start.rev
      BY <1>1, <2>1, <2>2 DEF StatusOK, CopyOK, Same, Upgrade
    <3>2. setCached.rev = Goal.rev /\ Same(cached, Goal)
      BY <1>1, <3>1 DEF RevOK, LagInv
    <3>3. ~Waiting
      BY <1>1, <1>2, <1>3, <2>1, <2>2, <3>1, <3>2 DEF RevOK, StatusOK, Rolling
    <3> QED
      BY <1>1, <1>5, <2>1, <3>2, <3>3 DEF RevOK, Same, RolloutSteps
  <2>3. CASE ~Upgrade
    <3>1. setCached.rev = Goal.rev
      BY <1>1, <2>3 DEF RevOK, Upgrade
    <3>2. Same(cached, Goal) /\ setCached.replicas = Start.size
      BY <1>1, <2>1 DEF RevOK, LagInv, CopyOK, Same
    <3> QED
      BY <1>5, <2>3, <3>1, <3>2 DEF RolloutSteps
  <2> QED
    BY <2>2, <2>3
<1>6. CASE pc' = "rollout"
  <2>1. Rolling(setCached)
    BY <1>6, ChoiceCases
  <2> QED
    BY <1>1, <1>6, <2>1 DEF Rolling, RevOK, RolloutSteps, ScalingSteps
<1>7. CASE pc' = "checkReady"
  <2>1. /\ ~Rolling(setCached) /\ setCached.pods = setCached.replicas
        /\ cached.rev = setCached.rev /\ setCached.replicas = cached.size
        /\ setCached.updated = setCached.replicas /\ setCached.ready = setCached.replicas
    BY <1>7, ChoiceCases
  <2>2. ASSUME Upgrade, set.rev # Start.rev
        PROVE  /\ setCached.updateRev = Goal.rev
               /\ setCached.updated = Goal.size /\ setCached.pods = Goal.size
               /\ setCached.ready = Goal.size
               /\ ~Waiting
    <3>1. Same(cached, Goal)
      BY <1>1, <2>2 DEF LagInv
    <3> QED
      BY <1>1, <1>2, <1>3, <2>1, <2>2, <3>1 DEF Same, StatusOK
  <2> QED
    BY <1>7, <2>2 DEF RolloutSteps, ScalingSteps
<1> QED
  BY <1>4, <1>5, <1>6, <1>7, ChoiceCases

(***************************************************************************)
(* How a reconcile goes on, and what it carries along.                     *)
(***************************************************************************)
LEMMA PcMoves ==
    ASSUME Next
    PROVE  \/ Return
           \/ HandleTargetState
           \/ pc' = pc /\ arg' = arg /\ mem' = mem /\ seen' = seen /\ Environment
           \/ /\ seen' = seen /\ (mem' = mem \/ mem' = cr')
              /\ \/ /\ arg' = arg
                    /\ \/ pc = "rolloutDisable" /\ pc' = "rolloutConfig"
                       \/ pc = "rolloutConfig" /\ pc' = "patchTemplate"
                       \/ pc = "shrinkEnable" /\ pc' = "shrinkConfig"
                       \/ pc = "shrinkConfig" /\ pc' = "prepare"
                       \/ pc = "growDisable" /\ pc' = "growConfig"
                       \/ pc = "growConfig" /\ pc' = "resize"
                       \/ pc = "finalEnable" /\ pc' = "finalConfig"
                       \/ pc = "drain" /\ pc' = "deletePod"
                 \/ pc = "prepare" /\ pc' = "resolve"
                 \/ pc = "resolve" /\ pc' \in {"growDisable", "resize"} /\ arg' = mem.size
                 \/ pc = "rollout" /\ pc' = "drain"
                 \/ pc = "checkReady" /\ pc' = "finalEnable"
<1>1. CASE Condition
  BY <1>1, ConditionMoves
<1>2. CASE Config
  BY <1>2, ConfigMoves
<1>3. CASE Decision
  <2>1. CASE HandleTargetState \/ Fail
    BY <2>1 DEF Fail
  <2>2. CASE ResolveStatefulSetScaling
    BY <2>2 DEF ResolveStatefulSetScaling, Goto
  <2>3. CASE FindPodNeedingUpdate
    BY <2>3 DEF FindPodNeedingUpdate, Goto
  <2>4. CASE CheckAISClusterReady
    BY <2>4 DEF CheckAISClusterReady, Goto
  <2> QED
    BY <1>3, <2>1, <2>2, <2>3, <2>4 DEF Decision
<1>4. CASE Writing
  BY <1>4, WritingMoves
<1>5. CASE Environment
  BY <1>5, EnvironmentMoves DEF operator
<1> QED
  BY <1>1, <1>2, <1>3, <1>4, <1>5, NextSplit

(* A new template stays, at the API server and in the cache.               *)
LEMMA RevForGood ==
    ASSUME TypeInv, EditInv, Next
    PROVE  /\ set.rev # Start.rev => set'.rev # Start.rev
           /\ setCached.rev = Goal.rev => set.rev = Goal.rev /\ setCached'.rev = Goal.rev
           /\ set'.rev # set.rev => PatchTemplate /\ arg = Goal.rev
           /\ set'.replicas # set.replicas => Resize /\ arg = Goal.size
<1>1. LagInv /\ RevOK(set) /\ RevOK(setCached)
  BY DEF EditInv
<1>2. PatchTemplate => set'.rev = Goal.rev /\ arg = Goal.rev /\ set'.replicas = set.replicas
                       /\ Goal.rev # Start.rev
  BY <1>1, PatchFields DEF LagInv, PatchTemplate, RolloutSteps, Upgrade
<1>3. Resize => set'.rev = set.rev /\ arg = Goal.size
  <2>1. Resize => arg = Goal.size
    BY <1>1 DEF LagInv, Resize, GrowSteps
  <2> QED
    BY <2>1, ResizeFields
<1>4. UpdateStatus => set'.rev = set.rev /\ set'.replicas = set.replicas
  BY StatusFields
<1>5. setCached.rev = Goal.rev => set.rev = Goal.rev
  BY <1>1 DEF LagInv, RevOK
<1> QED
  BY <1>2, <1>3, <1>4, <1>5, SetMoves, MemMoves

LEMMA LagStep ==
    ASSUME TypeInv, EditInv, Next
    PROVE  LagInv'
<1>1. /\ Start' = Start /\ Goal' = Goal /\ (Upgrade' <=> Upgrade)
  BY ScenarioStays
<1>2. LagInv /\ RevOK(set) /\ RevOK(setCached) /\ StartSet.rev = Start.rev
  BY DEF EditInv, StartSet
<1>3. setCached'.rev # Start.rev => set'.rev # Start.rev
  BY <1>2, RevForGood, MemMoves DEF LagInv
<1>4. seen'.rev # Start.rev => set'.rev # Start.rev
  BY <1>2, RevForGood, MemMoves DEF LagInv
<1>5. set'.rev # Start.rev => Same(cached', Goal)
  <2>1. CASE set.rev # Start.rev
    BY <1>2, <2>1, GoalStays DEF LagInv
  <2>2. CASE PatchTemplate
    BY <1>2, <2>2, GoalStays DEF LagInv, PatchTemplate, RolloutSteps
  <2> QED
    BY <2>1, <2>2, RevForGood
<1>6. set'.replicas # Start.size \/ setCached'.replicas # Start.size
         => Same(cached', Goal) /\ setCached'.rev = Goal.rev
  <2>1. CASE set.replicas # Start.size \/ setCached.replicas # Start.size
    BY <1>2, <2>1, GoalStays, RevForGood DEF LagInv
  <2>2. CASE Resize
    BY <1>2, <2>2, GoalStays, RevForGood DEF LagInv, Resize, ScalingSteps
  <2> QED
    BY <2>1, <2>2, RevForGood, MemMoves
<1>7. pc' \in RolloutSteps => Same(cached', Goal) /\ arg' = Goal.rev /\ Upgrade
  <2>1. CASE HandleTargetState
    <3>1. arg' = cached.rev
      BY <2>1 DEF HandleTargetState
    <3> QED
      BY <2>1, <3>1, ChoiceFacts, GoalStays DEF Same
  <2>2. CASE pc \in RolloutSteps /\ arg' = arg
    BY <1>2, <2>2, GoalStays DEF LagInv
  <2>3. CASE pc' \notin RolloutSteps
    BY <2>3
  <2> QED
    BY <2>1, <2>2, <2>3, PcMoves DEF RolloutSteps, Return
<1>8. pc' \in ScalingSteps =>
        Same(cached', Goal) /\ Same(mem', Goal) /\ setCached'.rev = Goal.rev
  <2>1. CASE HandleTargetState
    <3>1. mem' = cached
      BY <2>1 DEF HandleTargetState
    <3> QED
      BY <2>1, <3>1, ChoiceFacts, GoalStays, RevForGood DEF Same
  <2>2. CASE pc \in ScalingSteps /\ (mem' = mem \/ mem' = cr')
    BY <1>2, <2>2, GoalStays, RevForGood DEF LagInv
  <2>3. CASE pc' \notin ScalingSteps
    BY <2>3
  <2> QED
    BY <2>1, <2>2, <2>3, PcMoves DEF ScalingSteps, Return
<1>9. pc' \in GrowSteps => arg' = Goal.size
  <2>1. CASE HandleTargetState
    <3>1. pc' \notin GrowSteps
      BY <2>1 DEF HandleTargetState, Choice, GrowSteps
    <3> QED
      BY <3>1
  <2>2. CASE pc \in GrowSteps /\ arg' = arg
    BY <1>2, <2>2 DEF LagInv
  <2>3. CASE pc = "resolve" /\ arg' = mem.size
    BY <1>2, <2>3 DEF LagInv, ScalingSteps, Same
  <2>4. CASE pc' \notin GrowSteps
    BY <2>4
  <2> QED
    BY <2>1, <2>2, <2>3, <2>4, PcMoves DEF GrowSteps, Return
<1>10. pc' \in {"rollout", "drain", "deletePod"} => seen'.updateRev # Start.rev
  <2>1. CASE HandleTargetState
    <3>1. seen' = setCached /\ pc' \notin {"drain", "deletePod"}
      BY <2>1 DEF HandleTargetState, Choice
    <3> QED
      BY <2>1, <3>1, ChoiceFacts
  <2>2. CASE pc \in {"rollout", "drain", "deletePod"} /\ seen' = seen
    BY <1>2, <2>2 DEF LagInv
  <2>3. CASE pc' \notin {"rollout", "drain", "deletePod"}
    BY <2>3
  <2> QED
    BY <2>1, <2>2, <2>3, PcMoves DEF Return
<1> QED
  BY <1>1, <1>3, <1>4, <1>5, <1>6, <1>7, <1>8, <1>9, <1>10 DEF LagInv, Same

(***************************************************************************)
(* Pods and members.                                                       *)
(***************************************************************************)
Created(i) ==
    /\ pods[i].phase = "none" /\ i < set.replicas
    /\ pods'[i] = [phase |-> "starting", rev |-> set.rev] /\ smap' = smap

Deleted(i) ==
    /\ \/ i >= set.replicas /\ IsActive(pods[i])
       \/ DeletePod /\ i = arg /\ pods[i].phase # "none"
    /\ pods'[i].phase = "terminating" /\ pods'[i].rev = pods[i].rev /\ smap' = smap

Gone(i) == pods[i].phase = "terminating" /\ pods'[i] = NoPod

Settled(i) ==
    /\ pods[i].phase = "starting"
    /\ pods'[i].phase = Fate[pods[i].rev] /\ pods'[i].rev = pods[i].rev
    /\ Serving(pods[i].rev) => smap'[i] = "active"

Exited(i) ==
    /\ pods[i].phase = "ready" /\ smap[i] = "absent"
    /\ pods'[i].phase = "crash" /\ pods'[i].rev = pods[i].rev /\ smap' = smap

LEMMA PodMoves ==
    ASSUME TypeInv, Next, NEW i \in Ordinals
    PROVE  \/ pods'[i] = pods[i]
           \/ /\ Created(i) \/ Deleted(i) \/ Gone(i) \/ Settled(i) \/ Exited(i)
              /\ set' = set /\ rebalance' = rebalance
<1>1. pods \in [Ordinals -> PodTypes] /\ smap \in [Ordinals -> Membership]
      /\ pods[i] \in PodTypes
  BY TypeParts DEF TypeInv, PodPart
<1>2. CASE DeletePod
  <2>1. arg \in Ordinals
    BY <1>2 DEF TypeInv, ArgInv, DeletePod
  <2>2. /\ pods' = [pods EXCEPT ![arg] = Terminated(@)]
        /\ smap' = smap /\ set' = set /\ rebalance' = rebalance
    BY <1>2 DEF DeletePod
  <2> QED
    BY <1>1, <1>2, <2>1, <2>2 DEF Terminated, PodTypes, Deleted
<1>3. ASSUME NEW j \in Ordinals, Pods(j)
      PROVE  \/ pods'[i] = pods[i]
             \/ /\ Created(i) \/ Deleted(i) \/ Gone(i) \/ Settled(i) \/ Exited(i)
                /\ set' = set /\ rebalance' = rebalance
  <2>1. CASE CreatePod(j)
    BY <1>1, <2>1 DEF CreatePod, Created
  <2>2. CASE RemovePod(j)
    BY <1>1, <2>2 DEF RemovePod, Deleted, Terminated, IsActive, PodTypes
  <2>3. CASE PodGone(j)
    BY <1>1, <2>3 DEF PodGone, Gone
  <2>4. CASE PodSettles(j)
    BY <1>1, <2>4 DEF PodSettles, Settled, PodTypes
  <2>5. CASE DecommissionDone(j)
    BY <1>1, <2>5 DEF DecommissionDone
  <2>6. CASE DaemonExits(j)
    BY <1>1, <2>6 DEF DaemonExits, Exited, PodTypes
  <2> QED
    BY <1>3, <2>1, <2>2, <2>3, <2>4, <2>5, <2>6 DEF Pods
<1>4. pods' = pods \/ DeletePod \/ \E j \in Ordinals : Pods(j)
  BY NextSplit, ConditionMoves, ConfigMoves, DecisionMoves, WritingMoves, EnvironmentMoves
     DEF world
<1> QED
  BY <1>2, <1>3, <1>4

(* How the cluster map changes.                                            *)
Leaves(i) ==
    \/ pods[i].phase = "terminating" /\ smap[i] = "active" /\ pods'[i] = NoPod
    \/ smap[i] = "decommission" /\ pods' = pods

LEMMA MemberMoves ==
    ASSUME TypeInv, Next, NEW i \in Ordinals
    PROVE  \/ smap'[i] = smap[i]
           \/ /\ PrepareTargetsForScaleDown /\ smap[i] = "active"
              /\ i \in Removed(seen.replicas, mem.size)
              /\ smap'[i] = IF Retain THEN "maintenance" ELSE "decommission"
           \/ /\ PrepareTargetForRollout /\ i = arg /\ pods[i].phase # "unschedulable"
              /\ smap[i] = "active" /\ smap'[i] = "maintenance"
           \/ Leaves(i) /\ smap'[i] = "absent" /\ Environment
           \/ pods'[i].phase = "ready" /\ pods[i].phase = "starting" /\ Settled(i)
              /\ smap'[i] = "active" /\ Environment
<1>1. pods \in [Ordinals -> PodTypes] /\ smap \in [Ordinals -> Membership]
      /\ pods[i] \in PodTypes
  BY TypeParts DEF TypeInv, PodPart
<1>2. CASE PrepareTargetsForScaleDown
  BY <1>1, <1>2 DEF PrepareTargetsForScaleDown, Prepared
<1>3. CASE PrepareTargetForRollout
  <2>1. arg \in Ordinals
    BY <1>3 DEF TypeInv, ArgInv, PrepareTargetForRollout
  <2>2. \/ smap' = smap
        \/ /\ smap[arg] = "active" /\ smap' = [smap EXCEPT ![arg] = "maintenance"]
           /\ pods[arg].phase # "unschedulable"
    BY <1>3 DEF PrepareTargetForRollout
  <2> QED
    BY <1>1, <1>3, <2>1, <2>2
<1>4. ASSUME NEW j \in Ordinals, Pods(j)
      PROVE  \/ smap'[i] = smap[i]
             \/ Leaves(i) /\ smap'[i] = "absent"
             \/ pods'[i].phase = "ready" /\ pods[i].phase = "starting" /\ Settled(i)
                /\ smap'[i] = "active"
  <2>1. CASE CreatePod(j) \/ RemovePod(j) \/ DaemonExits(j)
    BY <2>1 DEF CreatePod, RemovePod, DaemonExits
  <2>2. CASE PodGone(j)
    BY <1>1, <2>2 DEF PodGone, Leaves
  <2>3. CASE PodSettles(j)
    BY <1>1, <2>3 DEF PodSettles, Settled, PodTypes, Serving
  <2>4. CASE DecommissionDone(j)
    BY <1>1, <2>4 DEF DecommissionDone, Leaves
  <2> QED
    BY <1>4, <2>1, <2>2, <2>3, <2>4 DEF Pods
<1>5. \/ smap' = smap \/ PrepareTargetsForScaleDown \/ PrepareTargetForRollout
      \/ Environment /\ \E j \in Ordinals : Pods(j)
  BY NextSplit, ConditionMoves, ConfigMoves, DecisionMoves, WritingMoves, EnvironmentMoves
     DEF world
<1> QED
  BY <1>2, <1>3, <1>4, <1>5

LEMMA PodInvStep ==
    ASSUME TypeInv, EditInv, Next
    PROVE  PodInv'
<1>1. Start' = Start /\ Goal' = Goal /\ Fate' = Fate
  BY ScenarioStays
<1>2. PodInv /\ set.rev \in {Start.rev, Goal.rev}
  BY DEF EditInv, RevOK
<1>3. ASSUME NEW i \in Ordinals
      PROVE  /\ pods'[i].rev \in {Start.rev, Goal.rev}
             /\ pods'[i].phase = "unschedulable" => Fate[pods'[i].rev] = "unschedulable"
  BY <1>2, PodMoves DEF PodInv, Created, Deleted, Gone, Settled, Exited, NoPod
<1> QED
  BY <1>1, <1>3 DEF PodInv

(***************************************************************************)
(* An upgrade.                                                             *)
(***************************************************************************)
LEMMA UpgradeFacts ==
    ASSUME TypeInv, EditInv, Upgrade
    PROVE  /\ UpgradeInv /\ LagInv /\ PodInv /\ Goal.rev # Start.rev
           /\ RevOK(set) /\ RevOK(setCached) /\ RevOK(seen)
           /\ Ordinals \subseteq Nat /\ Start.size \in 1..MaxSize /\ MaxSize \in Nat
           /\ set.replicas \in Nat
           /\ First.rev = Start.rev /\ NoPod.phase = "none" /\ NoPod.rev = Start.rev
           /\ First.phase \in {"ready", "crash", "unschedulable"}
           /\ \A i \in Ordinals : /\ i < Start.size /\ set.rev = Start.rev => pods[i] = First
                                  /\ pods[i] = First => Waiting
           /\ pc \in {"drain", "deletePod"} => Waiting /\ set.rev # Start.rev
<1>1. scenario \in Scenarios /\ set \in StatefulSet /\ ArgInv
  BY DEF TypeInv, TypeOK
<1>2. Start.size \in 1..MaxSize /\ Start.rev \in Revs /\ MaxSize \in Nat
      /\ Fate[Start.rev] \in {"ready", "crash", "unschedulable"}
  BY <1>1, StartType, SizeAssumption
<1>3. Ordinals \subseteq Nat /\ set.replicas \in Nat
  BY <1>1, <1>2 DEF Ordinals, StatefulSet
<1>4. UpgradeInv /\ LagInv /\ PodInv /\ RevOK(set) /\ RevOK(setCached) /\ RevOK(seen)
  BY DEF EditInv
<1>5. /\ First.rev = Start.rev /\ NoPod.phase = "none" /\ NoPod.rev = Start.rev
      /\ First.phase \in {"ready", "crash", "unschedulable"}
  BY <1>2 DEF First, NoPod
<1>6. \A i \in Ordinals : /\ i < Start.size /\ set.rev = Start.rev => pods[i] = First
                          /\ pods[i] = First => Waiting
  BY <1>4, <1>5 DEF UpgradeInv, Waiting
<1>7. pc \in {"drain", "deletePod"} => Waiting /\ set.rev # Start.rev
  <2> SUFFICES ASSUME pc \in {"drain", "deletePod"} PROVE Waiting /\ set.rev # Start.rev
    OBVIOUS
  <2>1. arg \in Ordinals /\ pods[arg] = First
    BY <1>1, <1>4 DEF ArgInv, UpgradeInv
  <2>2. seen.updateRev # Start.rev
    BY <1>4 DEF LagInv
  <2> QED
    BY <1>4, <1>6, <2>1, <2>2 DEF LagInv, RevOK
<1> QED
  BY <1>2, <1>3, <1>4, <1>5, <1>6, <1>7 DEF Upgrade

(* Before the template changes, no pod does.                               *)
LEMMA FirstStays ==
    ASSUME TypeInv, EditInv, Next, Upgrade, set.rev = Start.rev
    PROVE  \A i \in Ordinals : pods'[i] = pods[i]
<1> SUFFICES ASSUME NEW i \in Ordinals PROVE pods'[i] = pods[i]
  OBVIOUS
<1>1. UpgradeInv /\ i \in Nat /\ Start.size \in Nat
  BY UpgradeFacts
<1>2. pods[i] = IF i < Start.size THEN First ELSE NoPod
  BY <1>1 DEF UpgradeInv
<1>3. set.replicas = Start.size
  BY <1>1 DEF UpgradeInv, StatusOK
<1>4. pods[i] = First => Waiting /\ (pods[i].phase = "ready" => smap[i] # "absent")
  BY <1>1, UpgradeFacts DEF UpgradeInv
<1>5. ~DeletePod
  BY UpgradeFacts DEF DeletePod
<1>6. ~Created(i)
  BY <1>1, <1>2, <1>3, UpgradeFacts DEF Created
<1>7. ~Deleted(i)
  BY <1>1, <1>2, <1>3, <1>5, UpgradeFacts DEF Deleted, IsActive
<1>8. ~Gone(i) /\ ~Settled(i)
  BY <1>2, UpgradeFacts DEF Gone, Settled
<1>9. ~Exited(i)
  BY <1>2, <1>4, UpgradeFacts DEF Exited
<1> QED
  BY <1>6, <1>7, <1>8, <1>9, PodMoves

(* No pod of the old revision comes back.                                  *)
LEMMA WaitingStays ==
    ASSUME TypeInv, EditInv, Next, Upgrade, Waiting'
    PROVE  Waiting
<1>1. Start' = Start
  BY ScenarioStays
<1>2. PICK i \in Ordinals : pods'[i].rev = Start.rev /\ pods'[i].phase # "none"
  BY <1>1 DEF Waiting
<1>3. CASE set.rev = Start.rev
  BY <1>2, <1>3, FirstStays DEF Waiting
<1>4. CASE set.rev # Start.rev
  <2>1. ~Created(i) /\ ~Gone(i)
    BY <1>2, <1>4, UpgradeFacts DEF Created, Gone
  <2>2. pods[i].rev = Start.rev /\ pods[i].phase # "none"
    BY <1>2, <2>1, PodMoves DEF Deleted, Settled, Exited, IsActive
  <2> QED
    BY <2>2 DEF Waiting
<1> QED
  BY <1>3, <1>4

(* While pods are replaced: which pods move, and how.                      *)
LEMMA WaitingMoves ==
    ASSUME TypeInv, EditInv, Next, Upgrade, Waiting, NEW i \in Ordinals
    PROVE  \/ pods'[i] = pods[i]
           \/ Created(i) /\ i < Start.size /\ set.rev = Goal.rev
           \/ /\ DeletePod /\ i = arg /\ pods[i] = First
              /\ pods'[i].phase = "terminating" /\ pods'[i].rev = Start.rev
           \/ Gone(i) \/ Settled(i)
<1>1. UpgradeInv /\ i \in Nat /\ Start.size \in Nat /\ set.replicas = Start.size
  BY UpgradeFacts DEF UpgradeInv, StatusOK
<1>2. /\ i >= Start.size => pods[i].phase = "none"
      /\ pods[i].phase = "ready" => smap[i] # "absent"
  BY <1>1 DEF UpgradeInv
<1>3. Created(i) => i < Start.size /\ set.rev = Goal.rev
  <2>1. Created(i) => i < Start.size /\ set.rev # Start.rev
    BY <1>1, UpgradeFacts DEF Created
  <2> QED
    BY <2>1, UpgradeFacts DEF RevOK
<1>4. Deleted(i) => /\ DeletePod /\ i = arg /\ pods[i] = First
                    /\ pods'[i].phase = "terminating" /\ pods'[i].rev = Start.rev
  <2>1. Deleted(i) => DeletePod /\ i = arg
    BY <1>1, <1>2 DEF Deleted, IsActive
  <2>2. DeletePod => pods[arg] = First
    BY <1>1 DEF UpgradeInv, DeletePod
  <2> QED
    BY <2>1, <2>2, UpgradeFacts DEF Deleted
<1>5. ~Exited(i)
  BY <1>2 DEF Exited
<1> QED
  BY <1>3, <1>4, <1>5, PodMoves

LEMMA DoneStays ==
    ASSUME TypeInv, EditInv, Next, Upgrade, Waiting, NEW i \in Ordinals, Done(i)
    PROVE  Done(i)'
<1>1. Goal' = Goal /\ Goal.rev # Start.rev /\ First.rev = Start.rev
  BY ScenarioStays, UpgradeFacts
<1>2. pods[i].rev = Goal.rev /\ pods[i].phase \in {"ready", "unschedulable"}
  BY DEF Done, IsPodRolloutCompleted
<1>3. pods'[i] = pods[i]
  BY <1>1, <1>2, WaitingMoves DEF Created, Gone, Settled
<1> QED
  BY <1>1, <1>2, <1>3 DEF Done, IsPodRolloutCompleted

(* A subset that is not smaller is the whole set.                          *)
LEMMA Whole ==
    ASSUME NEW T \in SUBSET Ordinals, NEW S \in SUBSET T,
           Cardinality(S) >= Cardinality(T)
    PROVE  S = T
<1>1. IsFiniteSet(T)
  BY OrdinalsFinite
<1>2. Cardinality(S) <= Cardinality(T)
      /\ (Cardinality(S) = Cardinality(T) => S = T)
  BY <1>1, FS_Subset
<1>3. Cardinality(S) \in Nat /\ Cardinality(T) \in Nat
  BY <1>1, FS_Subset, FS_CardinalityType
<1> QED
  BY <1>2, <1>3

LEMMA BelowCount ==
    ASSUME NEW n \in 1..MaxSize
    PROVE  /\ {i \in Ordinals : i < n} \in SUBSET Ordinals
           /\ Cardinality({i \in Ordinals : i < n}) = n
<1>1. MaxSize \in Nat /\ n \in Nat \ {0}
  BY SizeAssumption
<1>2. {i \in Ordinals : i < n} = 0..(n - 1)
  BY <1>1 DEF Ordinals
<1>3. Cardinality(0..(n - 1)) = IF 0 > n - 1 THEN 0 ELSE (n - 1) - 0 + 1
  BY <1>1, FS_Interval
<1>4. (IF 0 > n - 1 THEN 0 ELSE (n - 1) - 0 + 1) = n
  BY <1>1
<1>5. {i \in Ordinals : i < n} \in SUBSET Ordinals
  OBVIOUS
<1> QED
  BY <1>2, <1>3, <1>4, <1>5, Zenon

(* The status that the StatefulSet controller writes is right about a      *)
(* rollout.                                                                *)
LEMMA CountsOK ==
    ASSUME TypeInv, EditInv, Upgrade
    PROVE  /\ set.rev = Start.rev => Cardinality(Existing) = Start.size
           /\ /\ set.rev = Goal.rev
              /\ \/ Cardinality(UpdatedPods) >= set.replicas
                 \/ Cardinality(UpdatedPods) >= Cardinality(Existing)
              => ~Waiting
<1> DEFINE Below == {i \in Ordinals : i < Start.size}
<1>1. Below \in SUBSET Ordinals /\ Cardinality(Below) = Start.size
  BY UpgradeFacts, BelowCount
<1>2. set.rev = Start.rev => Existing = Below
  <2> SUFFICES ASSUME set.rev = Start.rev PROVE Existing = Below
    OBVIOUS
  <2>1. \A i \in Ordinals : pods[i] = IF i < Start.size THEN First ELSE NoPod
    BY UpgradeFacts DEF UpgradeInv
  <2>2. \A i \in Ordinals : pods[i].phase # "none" <=> i < Start.size
    BY <2>1, UpgradeFacts
  <2> QED
    BY <2>2 DEF Existing
<1>3. ASSUME Waiting, set.rev = Goal.rev,
             \/ Cardinality(UpdatedPods) >= set.replicas
             \/ Cardinality(UpdatedPods) >= Cardinality(Existing)
      PROVE  FALSE
  <2>1. PICK i \in Ordinals : pods[i].rev = Start.rev /\ pods[i].phase # "none"
    BY <1>3 DEF Waiting
  <2>2. i \in Existing /\ i \notin UpdatedPods
    BY <1>3, <2>1, UpgradeFacts DEF Existing, UpdatedPods
  <2>3. UpgradeInv /\ set.replicas = Start.size
    BY <1>3, UpgradeFacts DEF UpgradeInv, StatusOK
  <2>4. \A j \in Ordinals : pods[j].phase # "none" => j < Start.size
    BY <1>3, <2>3, UpgradeFacts DEF UpgradeInv
  <2>5. UpdatedPods \in SUBSET Existing /\ Existing \in SUBSET Below
        /\ Existing \in SUBSET Ordinals /\ UpdatedPods \in SUBSET Below
    BY <2>4 DEF Existing, UpdatedPods, IsActive
  <2>6. Cardinality(UpdatedPods) >= Cardinality(Below)
        \/ Cardinality(UpdatedPods) >= Cardinality(Existing)
    BY <1>1, <1>3, <2>3
  <2>7. UpdatedPods = Below \/ UpdatedPods = Existing
    BY <1>1, <2>5, <2>6, Whole
  <2> QED
    BY <2>2, <2>5, <2>7
<1> QED
  BY <1>1, <1>2, <1>3

LEMMA StatusStep ==
    ASSUME TypeInv, EditInv, Next, Upgrade
    PROVE  StatusOK(set)' /\ StatusOK(setCached)' /\ StatusOK(seen)'
<1>1. Start' = Start /\ Goal' = Goal
  BY ScenarioStays
<1>2. StatusOK(set) /\ StatusOK(setCached) /\ StatusOK(seen)
  BY UpgradeFacts DEF UpgradeInv
<1>3. StatusOK(StartSet)
  BY UpgradeFacts DEF StatusOK, StartSet
<1>4. Waiting' => Waiting
  BY WaitingStays
<1>5. \A s : StatusOK(s) =>
        /\ s.rev = Start'.rev => s.pods = Start'.size /\ s.replicas = Start'.size
        /\ Waiting' => s.replicas = Start'.size
        /\ s.updateRev = Goal'.rev /\ (s.updated >= s.replicas \/ s.updated >= s.pods)
              => ~Waiting'
  BY <1>1, <1>4 DEF StatusOK
<1>6. StatusOK(setCached)' /\ StatusOK(seen)'
  BY <1>2, <1>3, <1>5, MemMoves DEF StatusOK
<1>7. StatusOK(set)'
  <2>1. CASE set' = set
    BY <1>2, <1>5, <2>1 DEF StatusOK
  <2>2. CASE PatchTemplate
    <3>1. arg = Goal.rev /\ Goal.rev # Start.rev
      BY <2>2, UpgradeFacts DEF LagInv, PatchTemplate, RolloutSteps
    <3> QED
      BY <1>1, <1>2, <1>4, <2>2, <3>1, PatchFields DEF StatusOK
  <2>3. CASE Resize
    <3>1. ~Waiting /\ setCached.rev = Goal.rev
      BY <2>3, UpgradeFacts DEF UpgradeInv, LagInv, Resize, ScalingSteps
    <3>2. set'.rev = Goal.rev
      BY <2>3, <3>1, RevForGood, ResizeFields
    <3> QED
      BY <1>1, <1>4, <3>1, <3>2, UpgradeFacts DEF StatusOK
  <2>4. CASE UpdateStatus
    <3>1. /\ set.rev = Start.rev => set.replicas = Start.size
          /\ Waiting => set.replicas = Start.size
      BY <1>2 DEF StatusOK
    <3> QED
      BY <1>1, <1>4, <2>4, <3>1, CountsOK, StatusFields DEF StatusOK
  <2> QED
    BY <2>1, <2>2, <2>3, <2>4, SetMoves
<1> QED
  BY <1>6, <1>7

LEMMA OrderStep ==
    ASSUME TypeInv, EditInv, Next, Upgrade, Waiting'
    PROVE  /\ pc' \notin ScalingSteps
           /\ \A i \in Ordinals : /\ i >= Start.size => pods'[i].phase = "none"
                                  /\ smap'[i] # "decommission"
                                  /\ pods'[i].phase = "ready" => smap'[i] # "absent"
                                  /\ pods'[i].rev = Start.rev /\ IsActive(pods'[i])
                                       => pods'[i] = First
           /\ \A i, j \in Ordinals :
                 j < i /\ i < Start.size /\ pods'[i] # First => Done(j)'
<1>1. Waiting /\ UpgradeInv
  BY WaitingStays, UpgradeFacts
<1>2. pc' \notin ScalingSteps
  <2>1. CASE HandleTargetState
    BY <1>1, <2>1, ChoiceFacts
  <2>2. CASE pc \in ScalingSteps
    BY <1>1, <2>2 DEF UpgradeInv
  <2> QED
    BY <2>1, <2>2, PcMoves DEF ScalingSteps, Return
<1>3. ASSUME NEW i \in Ordinals
      PROVE  /\ i >= Start.size => pods'[i].phase = "none"
             /\ smap'[i] # "decommission"
             /\ pods'[i].phase = "ready" => smap'[i] # "absent"
             /\ pods'[i].rev = Start.rev /\ IsActive(pods'[i]) => pods'[i] = First
  <2>1. /\ i >= Start.size => pods[i].phase = "none"
        /\ smap[i] # "decommission"
        /\ pods[i].phase = "ready" => smap[i] # "absent"
        /\ pods[i].rev = Start.rev /\ IsActive(pods[i]) => pods[i] = First
        /\ i \in Nat /\ Start.size \in Nat
    BY <1>1, UpgradeFacts DEF UpgradeInv
  <2>2. i >= Start.size => pods'[i].phase = "none"
    BY <1>1, <2>1, WaitingMoves, UpgradeFacts DEF Created, Gone, Settled
  <2>3. ~PrepareTargetsForScaleDown
    BY <1>1 DEF UpgradeInv, PrepareTargetsForScaleDown, ScalingSteps
  <2>4. smap'[i] # "decommission"
    BY <2>1, <2>3, MemberMoves
  <2>5. pods'[i].phase = "ready" => smap'[i] # "absent"
    <3>1. CASE pods'[i] = pods[i]
      BY <2>1, <2>3, <3>1, MemberMoves, UpgradeFacts DEF Leaves
    <3>2. CASE Settled(i)
      BY <3>2 DEF Settled, Serving
    <3> QED
      BY <1>1, <3>1, <3>2, WaitingMoves, UpgradeFacts DEF Created, Gone
  <2>6. pods'[i].rev = Start.rev /\ IsActive(pods'[i]) => pods'[i] = First
    <3>1. CASE Settled(i)
      BY <2>1, <3>1, UpgradeFacts DEF Settled, IsActive
    <3> QED
      BY <1>1, <2>1, <3>1, WaitingMoves, UpgradeFacts DEF Created, Gone, IsActive
  <2> QED
    BY <2>2, <2>4, <2>5, <2>6
<1>4. ASSUME NEW i \in Ordinals, NEW j \in Ordinals, j < i, i < Start.size, pods'[i] # First
      PROVE  Done(j)'
  <2>1. CASE pods[i] # First
    <3>1. Done(j)
      BY <1>1, <1>4, <2>1 DEF UpgradeInv
    <3> QED
      BY <1>1, <3>1, DoneStays
  <2>2. CASE pods[i] = First
    <3>1. DeletePod /\ i = arg
      BY <1>1, <1>4, <2>2, WaitingMoves, UpgradeFacts DEF Created, Gone, Settled
    <3>2. Done(j)
      BY <1>1, <1>4, <3>1 DEF UpgradeInv, DeletePod
    <3> QED
      BY <1>1, <3>2, DoneStays
  <2> QED
    BY <2>1, <2>2
<1> QED
  BY <1>2, <1>3, <1>4

LEMMA UpgradeStep ==
    ASSUME TypeInv, EditInv, Next, Upgrade
    PROVE  UpgradeInv'
<1>1. /\ Start' = Start /\ Goal' = Goal /\ First' = First /\ NoPod' = NoPod
  BY ScenarioStays
<1>2. set'.rev = Start.rev =>
        \A i \in Ordinals : pods'[i] = IF i < Start.size THEN First ELSE NoPod
  <2>1. set'.rev = Start.rev => set.rev = Start.rev
    BY RevForGood
  <2> QED
    BY <2>1, FirstStays, UpgradeFacts DEF UpgradeInv
<1>3. pc' \in {"drain", "deletePod"} =>
        /\ arg' < Start.size /\ pods'[arg'] = First
        /\ \A j \in Ordinals : j < arg' => Done(j)'
  <2> SUFFICES ASSUME pc' \in {"drain", "deletePod"}
               PROVE  /\ arg' < Start.size /\ pods'[arg'] = First
                      /\ \A j \in Ordinals : j < arg' => Done(j)'
    OBVIOUS
  <2>1. CASE pc = "rollout"
    <3>1. FindPodNeedingUpdate
      <4>1. ~Environment
        BY <2>1, EnvironmentMoves DEF operator
      <4>2. ~Condition /\ ~Config /\ ~Writing
        BY <2>1, ConditionMoves, ConfigMoves, WritingMoves DEF Return
      <4>3. ~HandleTargetState /\ ~ResolveStatefulSetScaling /\ ~CheckAISClusterReady
        BY <2>1 DEF HandleTargetState, ResolveStatefulSetScaling, CheckAISClusterReady
      <4>4. ~Fail
        BY DEF Fail, Return
      <4> QED
        BY <4>1, <4>2, <4>3, <4>4, NextSplit DEF Decision
    <3>2. PICK i \in Ordinals : NeedsUpdate(i) /\ arg' = i /\ pods' = pods
      BY <3>1 DEF FindPodNeedingUpdate, Goto, Return, world
    <3>3. seen.updateRev = Goal.rev
      BY <2>1, UpgradeFacts DEF LagInv, RevOK
    <3>4. pods[i].rev = Start.rev /\ IsActive(pods[i])
      BY <3>2, <3>3, UpgradeFacts DEF NeedsUpdate, PodInv
    <3>5. Waiting
      BY <3>4 DEF Waiting, IsActive
    <3>6. pods[i] = First /\ i < Start.size
      <4>1. i >= Start.size => pods[i].phase = "none"
        BY <3>5, UpgradeFacts DEF UpgradeInv
      <4>2. i < Start.size
        BY <3>4, <4>1, UpgradeFacts DEF IsActive
      <4> QED
        BY <3>4, <3>5, <4>2, UpgradeFacts DEF UpgradeInv
    <3>7. \A j \in Ordinals : j < i => Done(j)
      <4>1. \A j \in Ordinals : j < i => j \in 0..(i - 1)
        BY SizeAssumption DEF Ordinals
      <4> QED
        BY <3>2, <3>3, <4>1 DEF NeedsUpdate, Done
    <3>8. \A j \in Ordinals : j < i => Done(j)'
      BY <1>1, <3>2, <3>7 DEF Done
    <3> QED
      BY <3>2, <3>6, <3>8
  <2>2. CASE pc \in {"drain", "deletePod"} /\ arg' = arg
    <3>1. /\ arg < Start.size /\ pods[arg] = First
          /\ \A j \in Ordinals : j < arg => Done(j)
          /\ Waiting
      BY <2>2, UpgradeFacts DEF UpgradeInv
    <3>2. arg \in Ordinals
      BY <2>2 DEF TypeInv, ArgInv
    <3>3. \A j \in Ordinals : j < arg => Done(j)'
      BY <3>1, DoneStays
    <3>4. ~DeletePod
      BY DEF DeletePod, Return
    <3>5. pods'[arg] = First
      BY <3>1, <3>2, <3>4, WaitingMoves, UpgradeFacts DEF Created, Gone, Settled
    <3> QED
      BY <2>2, <3>1, <3>3, <3>5
  <2>3. pc = "rollout" \/ (pc \in {"drain", "deletePod"} /\ arg' = arg)
    <3>1. ~Return /\ ~HandleTargetState
      BY DEF Return, HandleTargetState, Choice
    <3> QED
      BY <3>1, PcMoves
  <2> QED
    BY <2>1, <2>2, <2>3
<1>4. StatusOK(set)' /\ StatusOK(setCached)' /\ StatusOK(seen)'
  BY StatusStep
<1> QED
  BY <1>1, <1>2, <1>3, <1>4, OrderStep DEF UpgradeInv

(***************************************************************************)
(* The invariant of one edit.                                              *)
(***************************************************************************)
LEMMA EditStep == TypeInv /\ EditInv /\ [Next]_vars => EditInv'
<1> SUFFICES ASSUME TypeInv, EditInv, [Next]_vars PROVE EditInv'
  OBVIOUS
<1>1. CASE Next
  <2>1. CopyInv'
    BY <1>1, CopyStep DEF EditInv
  <2>2. RevOK(set)' /\ RevOK(setCached)' /\ RevOK(seen)' /\ LagInv' /\ PodInv'
    BY <1>1, RevStep, LagStep, PodInvStep
  <2>3. Upgrade' => UpgradeInv'
    BY <1>1, ScenarioStays, UpgradeStep
  <2> QED
    BY <2>1, <2>2, <2>3 DEF EditInv
<1>2. CASE UNCHANGED vars
  <2>1. /\ UNCHANGED <<scenario, cr, cached, mem, pc, set, setCached, seen, arg, pods, smap,
                       edits>>
    BY <1>2 DEF vars
  <2>2. /\ Start' = Start /\ Fate' = Fate /\ Goal' = Goal /\ First' = First
        /\ NoPod' = NoPod /\ (Upgrade' <=> Upgrade) /\ (OneEdit' <=> OneEdit)
    BY <2>1 DEF Start, Fate, Goal, First, NoPod, Upgrade, OneEdit
  <2>3. CopyInv' /\ LagInv' /\ PodInv'
    BY <2>1, <2>2 DEF EditInv, CopyInv, CopyOK, Same, LagInv, PodInv
  <2>4. RevOK(set)' /\ RevOK(setCached)' /\ RevOK(seen)'
    BY <2>1, <2>2 DEF EditInv, RevOK
  <2>5. (Waiting' <=> Waiting) /\ \A i : Done(i)' <=> Done(i)
    BY <2>1, <2>2 DEF Waiting, Done
  <2>6. Upgrade => StatusOK(set)' /\ StatusOK(setCached)' /\ StatusOK(seen)'
    BY <2>1, <2>2, <2>5 DEF EditInv, UpgradeInv, StatusOK
  <2>7. Upgrade => UpgradeInv'
    BY <2>1, <2>2, <2>5, <2>6 DEF EditInv, UpgradeInv
  <2> QED
    BY <2>2, <2>3, <2>4, <2>7 DEF EditInv
<1> QED
  BY <1>1, <1>2

LEMMA EditInvariant == Spec /\ OneEdit => [](TypeInv /\ EditInv)
<1>1. Init /\ OneEdit => TypeInv /\ EditInv
  BY TypeInit, EditInit
<1>2. TypeInv /\ EditInv /\ [Next]_vars => (TypeInv /\ EditInv)'
  BY TypeStep, EditStep
<1> QED
  BY <1>1, <1>2, PTL DEF Spec

(***************************************************************************)
(* A rollout takes one target at a time.                                   *)
(***************************************************************************)
(* The pods of the revision asked for find a node.                         *)
Schedulable == Fate[Goal.rev] # "unschedulable"

LEMMA EvictionAlone ==
    ASSUME TypeInv, EditInv, Schedulable, Next, NEW i \in Ordinals, Evicts(i),
           i < set.replicas
    PROVE  Down = {}
<1>1. set.replicas \in Nat /\ i \in Nat
  BY SizeAssumption DEF TypeInv, TypeOK, StatefulSet, Ordinals
<1>2. Fate[Start.rev] \in {"ready", "crash", "unschedulable"}
  BY StartType DEF TypeInv, TypeOK
<1>3. DeletePod /\ i = arg
  <2>1. pods[i].phase = "ready" /\ pods'[i].phase = "terminating"
    BY DEF Evicts
  <2>2. Deleted(i)
    BY <1>2, <2>1, PodMoves DEF Created, Gone, Settled, Exited, NoPod
  <2> QED
    BY <1>1, <2>2 DEF Deleted
<1>4. Upgrade
  BY <1>3 DEF EditInv, LagInv, RevOK, Upgrade, DeletePod
<1>5. /\ pods[i] = First /\ \A j \in Ordinals : j < i => Done(j)
      /\ Waiting /\ UpgradeInv /\ PodInv /\ set.replicas = Start.size
  BY <1>3, <1>4, UpgradeFacts DEF UpgradeInv, DeletePod, StatusOK
<1>6. ASSUME NEW j \in Ordinals, j < set.replicas
      PROVE  pods[j].phase = "ready"
  <2>1. j \in Nat
    BY SizeAssumption DEF Ordinals
  <2>2. CASE j < i
    <3>1. Done(j)
      BY <1>5, <2>2
    <3> QED
      BY <1>5, <3>1 DEF Done, IsPodRolloutCompleted, PodInv, Schedulable
  <2>3. CASE j > i
    <3>1. ~Done(i)
      BY <1>4, <1>5, UpgradeFacts DEF Done
    <3>2. pods[j] = First
      BY <1>5, <1>6, <2>3, <3>1 DEF UpgradeInv
    <3> QED
      BY <1>5, <3>2 DEF Evicts
  <2>4. CASE j = i
    BY <2>4 DEF Evicts
  <2> QED
    BY <1>1, <2>1, <2>2, <2>3, <2>4
<1> QED
  BY <1>6 DEF Down

(* For one edit of size, revision or both, to a revision that finds nodes, *)
(* whatever the old revision does: the operator takes a serving target     *)
(* away for a rollout only while every other one serves                    *)
(* (findPodNeedingUpdate), though the StatefulSet in its memory is an old  *)
(* copy and it may crash between any two steps.                            *)
THEOREM OneAtATime == Spec /\ OneEdit /\ Schedulable => OneTargetAtATime
<1>1. Spec /\ OneEdit => [](TypeInv /\ EditInv)
  BY EditInvariant
<1>2. TypeInv /\ Schedulable /\ [Next]_vars => Schedulable'
  <2> SUFFICES ASSUME TypeInv, Schedulable, [Next]_vars PROVE Schedulable'
    OBVIOUS
  <2>1. scenario' = scenario
    BY CRStep DEF vars
  <2> QED
    BY <2>1 DEF Schedulable, Fate, Goal, Start
<1>3. TypeInv /\ EditInv /\ Schedulable /\ [Next]_vars
        => [\A i \in Ordinals : Evicts(i) /\ i < set.replicas => Down = {}]_pods
  BY EvictionAlone DEF vars
<1> QED
  BY <1>1, <1>2, <1>3, PTL DEF Spec, OneTargetAtATime

-----------------------------------------------------------------------------
(***************************************************************************)
(* A scale-down that decommissions.                                        *)
(***************************************************************************)
Leaving == \E i \in Ordinals : smap[i] = "decommission"

(* Targets are decommissioned only for an edit that asks for fewer of      *)
(* them, after rebalance was allowed; by then a new template is known, so  *)
(* nothing disallows rebalance again, neither a rollout nor a scale-up.    *)
MigrateInv ==
    /\ pc \in {"growDisable", "growConfig"} => Goal.size > Start.size
    /\ pc \in {"shrinkEnable", "shrinkConfig", "prepare"} => Goal.size < Start.size
    /\ pc \in {"shrinkConfig", "finalConfig"} => mem.allowed
    /\ pc = "prepare" /\ ~Retain => rebalance
    /\ Leaving =>
        /\ Same(cached, Goal) /\ setCached.rev = Goal.rev
        /\ Goal.size < Start.size
        /\ rebalance
        /\ pc \notin RolloutSteps

LEMMA SizesOfEdit ==
    ASSUME TypeInv, EditInv
    PROVE  /\ Start.size \in Nat /\ Goal.size \in Nat
           /\ setCached.replicas \in Nat /\ setCached.replicas \in {Start.size, Goal.size}
           /\ mem.size \in Nat /\ cached.size \in Nat
<1>1. /\ scenario \in Scenarios /\ setCached \in StatefulSet /\ mem \in CR /\ cached \in CR
      /\ MaxSize \in Nat /\ OneEdit /\ RevOK(setCached)
  BY SizeAssumption DEF TypeInv, TypeOK, EditInv, CopyInv
<1>2. Start.size \in 1..MaxSize /\ Goal.size \in 1..MaxSize
  BY <1>1, StartType, GoalType
<1>3. setCached.replicas \in 1..MaxSize /\ mem.size \in 1..MaxSize
      /\ cached.size \in 1..MaxSize
  BY <1>1 DEF StatefulSet, CR
<1> QED
  BY <1>1, <1>2, <1>3 DEF RevOK

LEMMA MigrateInit == Init => MigrateInv
<1> SUFFICES ASSUME Init PROVE MigrateInv
  OBVIOUS
<1>1. pc = "idle"
  BY DEF Init
<1>2. ~Leaving
  BY DEF Init, Leaving
<1> QED
  BY <1>1, <1>2 DEF MigrateInv

(* What a step that sends the config, or allows rebalance, does.           *)
LEMMA AllowedMoves ==
    ASSUME TypeInv, Next, pc' \in {"shrinkConfig", "finalConfig"}
    PROVE  mem'.allowed \/ (pc' = pc /\ mem' = mem)
<1>1. cr \in CR
  BY DEF TypeInv, TypeOK
<1>2. CASE Condition
  <2>1. \/ SetRebalanceCondition("shrinkEnable", "shrinkConfig", TRUE)
        \/ SetRebalanceCondition("finalEnable", "finalConfig", TRUE)
    BY <1>2 DEF Condition, SetRebalanceCondition, Goto, Return
  <2>2. (mem.allowed /\ mem' = mem) \/ mem' = [cr EXCEPT !.allowed = TRUE]
    BY <2>1 DEF SetRebalanceCondition, Goto
  <2> QED
    BY <1>1, <2>2 DEF CR
<1>3. CASE ~Condition
  <2>1. ~HandleTargetState /\ ~Return
    BY DEF HandleTargetState, Choice, Return
  <2>2. CASE Environment
    BY <2>2, EnvironmentMoves DEF operator
  <2>3. ~Config /\ ~Writing
    BY <2>1, ConfigMoves, WritingMoves
  <2>4. ~Decision
    BY <2>1 DEF Decision, ResolveStatefulSetScaling, FindPodNeedingUpdate,
                CheckAISClusterReady, Fail, Goto, Return
  <2> QED
    BY <1>3, <2>2, <2>3, <2>4, NextSplit
<1> QED
  BY <1>2, <1>3

LEMMA RebalanceMoves ==
    ASSUME Next
    PROVE  \/ rebalance' = rebalance
           \/ /\ rebalance' = mem.allowed
              /\ pc \in {"rolloutConfig", "shrinkConfig", "growConfig", "finalConfig"}
<1>1. CASE Config
  BY <1>1 DEF Config, HandleConfigState
<1> QED
  BY <1>1, NextSplit, ConditionMoves, DecisionMoves, WritingMoves, EnvironmentMoves
     DEF world

LEMMA MigrateStep ==
    ASSUME TypeInv, EditInv, MigrateInv, Next
    PROVE  MigrateInv'
<1>1. /\ Start' = Start /\ Goal' = Goal /\ Retain' = Retain
  BY ScenarioStays
<1>2. LagInv
  BY DEF EditInv
<1>3. pc' \in {"growDisable", "growConfig"} => Goal.size > Start.size
  <2>1. CASE ResolveStatefulSetScaling
    <3>1. pc' = "growDisable" => mem.size > setCached.replicas + 1
      BY <2>1 DEF ResolveStatefulSetScaling, Goto, Return
    <3>2. mem.size = Goal.size
      BY <1>2, <2>1 DEF LagInv, ResolveStatefulSetScaling, ScalingSteps, Same
    <3>3. pc' # "growConfig"
      BY <2>1 DEF ResolveStatefulSetScaling, Goto, Return
    <3> QED
      BY <3>1, <3>2, <3>3, SizesOfEdit
  <2>2. CASE pc \in {"growDisable", "growConfig"}
    BY <2>2 DEF MigrateInv
  <2>3. CASE HandleTargetState
    BY <2>3 DEF HandleTargetState, Choice
  <2>4. CASE pc = "resolve" /\ ~ResolveStatefulSetScaling
    <3>1. Return \/ Environment
      BY <2>4, NextSplit, ConditionMoves, ConfigMoves, WritingMoves
         DEF Decision, HandleTargetState, FindPodNeedingUpdate, CheckAISClusterReady, Fail
    <3> QED
      BY <2>4, <3>1, EnvironmentMoves DEF Return, operator
  <2> QED
    BY <2>1, <2>2, <2>3, <2>4, PcMoves DEF Return
<1>4. pc' \in {"shrinkEnable", "shrinkConfig", "prepare"} => Goal.size < Start.size
  <2>1. CASE HandleTargetState
    <3>1. pc' # "shrinkConfig"
      BY <2>1 DEF HandleTargetState, Choice
    <3>2. pc' \in {"shrinkEnable", "prepare"} =>
            /\ cached.size # setCached.replicas /\ ~(setCached.replicas < cached.size)
            /\ Same(cached, Goal) /\ setCached.replicas = Start.size
      BY <2>1, ChoiceCases, ChoiceFacts DEF ScalingSteps
    <3> QED
      BY <3>1, <3>2, SizesOfEdit DEF Same
  <2>2. CASE pc \in {"shrinkEnable", "shrinkConfig", "prepare"}
    BY <2>2 DEF MigrateInv
  <2> QED
    BY <2>1, <2>2, PcMoves DEF Return
<1>5. pc' \in {"shrinkConfig", "finalConfig"} => mem'.allowed
  BY AllowedMoves DEF MigrateInv
<1>6. pc' = "prepare" /\ ~Retain => rebalance'
  <2>1. CASE HandleTargetState
    BY <2>1, ChoiceCases
  <2>2. CASE pc = "shrinkConfig"
    <3>1. pc' = "prepare" => Config
      BY <2>2, NextSplit, ConditionMoves, DecisionMoves, WritingMoves, EnvironmentMoves
         DEF HandleTargetState, Decision, ResolveStatefulSetScaling, FindPodNeedingUpdate,
             CheckAISClusterReady, Fail, Return, operator
    <3> QED
      BY <2>2, <3>1, ConfigMoves DEF MigrateInv
  <2>3. CASE pc = "prepare"
    BY <2>3, RebalanceMoves DEF MigrateInv
  <2> QED
    BY <2>1, <2>2, <2>3, PcMoves DEF Return
<1>7. Leaving' => /\ Same(cached', Goal) /\ setCached'.rev = Goal.rev
                  /\ Goal.size < Start.size
                  /\ rebalance'
                  /\ pc' \notin RolloutSteps
  <2>1. CASE Leaving
    <3>1. /\ Same(cached, Goal) /\ setCached.rev = Goal.rev /\ Goal.size < Start.size
          /\ rebalance /\ pc \notin RolloutSteps
      BY <2>1 DEF MigrateInv
    <3>2. Same(cached', Goal) /\ setCached'.rev = Goal.rev
      BY <3>1, GoalStays, RevForGood
    <3>3. pc # "growConfig" /\ pc # "rolloutConfig"
      BY <3>1, SizesOfEdit DEF MigrateInv, RolloutSteps
    <3>4. rebalance'
      BY <3>1, <3>3, RebalanceMoves DEF MigrateInv
    <3>5. pc' \notin RolloutSteps
      <4>1. CASE HandleTargetState
        <5>1. pc' # "rolloutDisable"
          BY <3>1, <4>1, ChoiceCases DEF Same
        <5> QED
          BY <4>1, <5>1 DEF HandleTargetState, Choice, RolloutSteps
      <4> QED
        BY <3>1, <4>1, PcMoves DEF Return, RolloutSteps
    <3> QED
      BY <3>1, <3>2, <3>4, <3>5
  <2>2. CASE ~Leaving /\ Leaving'
    <3>1. PICK i \in Ordinals : smap'[i] = "decommission" /\ smap[i] # "decommission"
      BY <2>2 DEF Leaving
    <3>2. PrepareTargetsForScaleDown /\ ~Retain
      BY <3>1, MemberMoves
    <3>3. /\ Same(cached, Goal) /\ setCached.rev = Goal.rev /\ Goal.size < Start.size
          /\ rebalance
      BY <1>2, <3>2 DEF LagInv, MigrateInv, PrepareTargetsForScaleDown, ScalingSteps
    <3>4. rebalance' = rebalance /\ pc' \notin RolloutSteps
      BY <3>2 DEF PrepareTargetsForScaleDown, Goto, Return, RolloutSteps
    <3> QED
      BY <3>3, <3>4, GoalStays, RevForGood
  <2> QED
    BY <2>1, <2>2
<1> QED
  BY <1>1, <1>3, <1>4, <1>5, <1>6, <1>7 DEF MigrateInv, Same

(* For one edit of size, revision or both: while a target is               *)
(* decommissioned the live config lets its data migrate                    *)
(* (startTargetScaling), though the rebalance setting is what the last     *)
(* completed reconcile left, whichever that was.                           *)
THEOREM DecommissionMovesData == Spec /\ OneEdit => []DecommissionMigrates
<1>1. Init /\ OneEdit => TypeInv /\ EditInv /\ MigrateInv
  BY TypeInit, EditInit, MigrateInit
<1>2. TypeInv /\ EditInv /\ MigrateInv /\ [Next]_vars => (TypeInv /\ EditInv /\ MigrateInv)'
  <2> SUFFICES ASSUME TypeInv, EditInv, MigrateInv, [Next]_vars
               PROVE  (TypeInv /\ EditInv /\ MigrateInv)'
    OBVIOUS
  <2>1. TypeInv' /\ EditInv'
    BY TypeStep, EditStep
  <2>2. CASE Next
    BY <2>1, <2>2, MigrateStep
  <2>3. CASE UNCHANGED vars
    <3>1. MigrateInv'
      BY <2>3 DEF MigrateInv, vars, Leaving, Same, Goal, Start, Retain
    <3> QED
      BY <2>1, <3>1
  <2> QED
    BY <2>2, <2>3
<1>3. MigrateInv => DecommissionMigrates
  BY DEF MigrateInv, DecommissionMigrates, Leaving
<1> QED
  BY <1>1, <1>2, <1>3, PTL DEF Spec

-----------------------------------------------------------------------------
(***************************************************************************)
(* Rebalance during a rollout.                                             *)
(***************************************************************************)
FinalSteps == {"checkReady", "finalEnable", "finalConfig"}

(* A target that stays and that a rollout keeps in maintenance.            *)
Maintained(i) == i < Goal.size /\ smap[i] = "maintenance"

AllReady(s) ==
    s.updateRev = Goal.rev /\ s.updated = Goal.size /\ s.pods = Goal.size /\ s.ready = Goal.size

(* Rebalance is off before the template changes and as long as a pod is on *)
(* the old revision; after that only the last target can be in             *)
(* maintenance, and it is until its new pod is ready, which a status that  *)
(* shows all targets ready must have counted.                              *)
QuietInv ==
    /\ \A i \in Ordinals : smap[i] = "maintenance" => Same(cached, Goal)
    /\ \A i \in Ordinals : pods[i].phase # "none" => i < Start.size \/ i < Goal.size
    /\ pc \in {"rolloutConfig", "growConfig"} => ~mem.allowed
    /\ pc = "patchTemplate" => ~rebalance
    /\ Upgrade /\ Waiting /\ set.rev # Start.rev => ~rebalance /\ pc \notin FinalSteps
    /\ \A i \in Ordinals : Maintained(i) =>
        /\ Upgrade /\ set.rev # Start.rev /\ i < Start.size
        /\ pods[i].phase = "ready" => pods[i].rev # Goal.rev
        /\ ~Waiting => i = Start.size - 1
        /\ ~rebalance /\ pc \notin FinalSteps
        /\ ~AllReady(set) /\ ~AllReady(setCached)

LEMMA QuietInit == Init /\ OneEdit => QuietInv
<1> SUFFICES ASSUME Init, OneEdit PROVE QuietInv
  OBVIOUS
<1>1. pc = "idle" /\ set.rev = Start.rev
  BY DEF Init, StartSet
<1>2. \A i \in Ordinals : smap[i] # "maintenance"
  BY DEF Init
<1>3. \A i \in Ordinals : pods[i].phase # "none" => i < Start.size
  BY DEF Init, NoPod
<1> QED
  BY <1>1, <1>2, <1>3 DEF QuietInv, Maintained

LEMMA DisallowedMoves ==
    ASSUME TypeInv, Next, pc' \in {"rolloutConfig", "growConfig"}
    PROVE  ~mem'.allowed \/ (pc' = pc /\ mem' = mem)
<1>1. cr \in CR
  BY DEF TypeInv, TypeOK
<1>2. CASE Condition
  <2>1. \/ SetRebalanceCondition("rolloutDisable", "rolloutConfig", FALSE)
        \/ SetRebalanceCondition("growDisable", "growConfig", FALSE)
    BY <1>2 DEF Condition, SetRebalanceCondition, Goto, Return
  <2>2. mem' = [cr EXCEPT !.allowed = FALSE]
    BY <2>1 DEF SetRebalanceCondition, Goto
  <2> QED
    BY <1>1, <2>2 DEF CR
<1>3. CASE ~Condition
  <2>1. ~HandleTargetState /\ ~Return
    BY DEF HandleTargetState, Choice, Return
  <2>2. CASE Environment
    BY <2>2, EnvironmentMoves DEF operator
  <2>3. ~Config /\ ~Writing
    BY <2>1, ConfigMoves, WritingMoves
  <2>4. ~Decision
    BY <2>1 DEF Decision, ResolveStatefulSetScaling, FindPodNeedingUpdate,
                CheckAISClusterReady, Fail, Goto, Return
  <2> QED
    BY <1>3, <2>2, <2>3, <2>4, NextSplit
<1> QED
  BY <1>2, <1>3

(* A target comes into maintenance for a rollout, or on its way out.       *)
LEMMA MaintenanceMoves ==
    ASSUME TypeInv, EditInv, Next, NEW i \in Ordinals,
           smap'[i] = "maintenance", smap[i] # "maintenance"
    PROVE  /\ Same(cached, Goal) /\ pods' = pods /\ set' = set /\ rebalance' = rebalance
           /\ setCached' = setCached
           /\ \/ i >= Goal.size
              \/ /\ pc = "drain" /\ pc' = "idle" /\ i = arg
                 /\ Upgrade /\ Waiting /\ set.rev # Start.rev
                 /\ pods[i] = First /\ i < Start.size
<1>1. PrepareTargetsForScaleDown \/ (PrepareTargetForRollout /\ i = arg /\ smap[i] = "active")
  BY MemberMoves
<1>2. /\ pods' = pods /\ set' = set /\ rebalance' = rebalance /\ setCached' = setCached
  BY <1>1 DEF PrepareTargetsForScaleDown, PrepareTargetForRollout
<1>3. CASE PrepareTargetsForScaleDown
  <2>1. Same(cached, Goal) /\ Same(mem, Goal)
    BY <1>3 DEF EditInv, LagInv, PrepareTargetsForScaleDown, ScalingSteps
  <2>2. i \in Removed(seen.replicas, mem.size)
    BY <1>3, MemberMoves DEF PrepareTargetForRollout, PrepareTargetsForScaleDown
  <2>3. i >= Goal.size
    BY <2>1, <2>2, SizesOfEdit DEF Removed, Same, Ordinals
  <2> QED
    BY <1>2, <2>1, <2>3
<1>4. CASE PrepareTargetForRollout /\ i = arg /\ smap[i] = "active"
  <2>1. pc = "drain"
    BY <1>4 DEF PrepareTargetForRollout
  <2>2. pc' = "idle"
    BY <1>4 DEF PrepareTargetForRollout, Goto, Return
  <2>3. Upgrade
    BY <2>1 DEF EditInv, LagInv, RevOK, Upgrade
  <2>4. Waiting /\ set.rev # Start.rev /\ pods[i] = First /\ i < Start.size
    BY <1>4, <2>1, <2>3, UpgradeFacts DEF UpgradeInv
  <2>5. Same(cached, Goal)
    BY <2>4 DEF EditInv, LagInv
  <2> QED
    BY <1>2, <1>4, <2>1, <2>2, <2>3, <2>4, <2>5
<1> QED
  BY <1>1, <1>3, <1>4

(* While rebalance has to stay off, nothing allows it.                     *)
LEMMA QuietStays ==
    ASSUME TypeInv, EditInv, MigrateInv, QuietInv, Next, ~rebalance,
           pc \notin FinalSteps, pc # "shrinkConfig"
    PROVE  ~rebalance'
<1>1. rebalance' = rebalance \/ (rebalance' = mem.allowed /\ ~mem.allowed)
  BY RebalanceMoves DEF QuietInv, FinalSteps
<1> QED
  BY <1>1

(* The pods that a status counts, when all are ready.                      *)
LEMMA ReadyCounts ==
    ASSUME TypeInv, EditInv, QuietInv, Upgrade, set.rev = Goal.rev,
           Cardinality(Existing) = Goal.size, Cardinality(ReadyPods) = Goal.size,
           Cardinality(UpdatedPods) = Goal.size, NEW i \in Ordinals
    PROVE  ~Maintained(i)
<1> SUFFICES ASSUME Maintained(i) PROVE FALSE
  OBVIOUS
<1>1. i < Goal.size /\ i \in Nat /\ Goal.size \in Nat /\ Start.size \in Nat
      /\ Goal.size \in 1..MaxSize
  BY SizesOfEdit, UpgradeFacts, GoalType
     DEF Maintained, TypeInv, TypeOK, EditInv, CopyInv
<1>2. ReadyPods \in SUBSET Existing /\ UpdatedPods \in SUBSET Existing
      /\ Existing \in SUBSET Ordinals
  BY DEF ReadyPods, UpdatedPods, Existing, IsActive
<1>3. ReadyPods = Existing /\ UpdatedPods = Existing
  BY <1>1, <1>2, Whole
<1>4. ~Waiting
  BY <1>1, CountsOK
<1>5. i = Start.size - 1 /\ (pods[i].phase = "ready" => pods[i].rev # Goal.rev)
  BY <1>4 DEF QuietInv
<1>6. i \notin Existing
  BY <1>3, <1>5 DEF ReadyPods, UpdatedPods
<1> DEFINE Below == {j \in Ordinals : j < Goal.size}
<1>7. Below \in SUBSET Ordinals /\ Cardinality(Below) = Goal.size
  BY <1>1, BelowCount
<1>8. Existing \in SUBSET Below
  <2>1. \A j \in Ordinals : j \in Nat
    BY UpgradeFacts
  <2>2. Start.size <= Goal.size
    BY <1>1, <1>5
  <2>3. \A j \in Existing : j \in Ordinals /\ (j < Start.size \/ j < Goal.size)
    BY DEF Existing, QuietInv
  <2>4. \A j \in Existing : j < Goal.size
    <3> TAKE j \in Existing
    <3>1. j \in Ordinals /\ j \in Nat /\ (j < Start.size \/ j < Goal.size)
      BY <2>1, <2>3
    <3>2. Start.size \in Nat /\ Goal.size \in Nat
      BY <1>1
    <3> HIDE DEF Below
    <3> QED
      BY <2>2, <3>1, <3>2
  <2> QED
    BY <2>3, <2>4
<1>9. Existing = Below
  BY <1>1, <1>7, <1>8, Whole
<1> QED
  BY <1>1, <1>6, <1>9

LEMMA QuietStep ==
    ASSUME TypeInv, EditInv, MigrateInv, QuietInv, Schedulable, Next
    PROVE  QuietInv'
<1>1. Start' = Start /\ Goal' = Goal /\ (Upgrade' <=> Upgrade) /\ Fate' = Fate
  BY ScenarioStays
<1>2. /\ Ordinals \subseteq Nat /\ Start.size \in Nat /\ Goal.size \in Nat
  BY SizesOfEdit, SizeAssumption DEF Ordinals
<1>3. ASSUME NEW i \in Ordinals, smap'[i] = "maintenance"
      PROVE  Same(cached', Goal)
  <2>1. Same(cached, Goal)
    BY <1>3, MaintenanceMoves DEF QuietInv
  <2> QED
    BY <2>1, GoalStays
<1>4. ASSUME NEW i \in Ordinals, pods'[i].phase # "none"
      PROVE  i < Start.size \/ i < Goal.size
  <2>1. CASE Created(i)
    BY <2>1 DEF Created, EditInv, RevOK
  <2>2. CASE pods[i].phase # "none"
    BY <2>2 DEF QuietInv
  <2> QED
    BY <1>4, <2>1, <2>2, PodMoves DEF Deleted, Gone, Settled, Exited, NoPod, IsActive
<1>5. pc' \in {"rolloutConfig", "growConfig"} => ~mem'.allowed
  BY DisallowedMoves DEF QuietInv
<1>6. pc' = "patchTemplate" => ~rebalance'
  <2>1. CASE pc = "patchTemplate"
    BY <2>1, RebalanceMoves DEF QuietInv
  <2>2. CASE pc = "rolloutConfig" /\ pc' = "patchTemplate"
    <3>1. Config
      BY <2>2, NextSplit, ConditionMoves, DecisionMoves, WritingMoves, EnvironmentMoves
         DEF HandleTargetState, Decision, ResolveStatefulSetScaling, FindPodNeedingUpdate,
             CheckAISClusterReady, Fail, Return, operator
    <3> QED
      BY <2>2, <3>1, ConfigMoves DEF QuietInv
  <2>3. CASE HandleTargetState
    BY <2>3 DEF HandleTargetState, Choice
  <2> QED
    BY <2>1, <2>2, <2>3, PcMoves DEF Return
<1>7. ASSUME Upgrade, Waiting', set'.rev # Start.rev
      PROVE  ~rebalance' /\ pc' \notin FinalSteps
  <2>1. Waiting /\ pc \notin ScalingSteps
    BY <1>7, WaitingStays, UpgradeFacts DEF UpgradeInv
  <2>2. CASE set.rev # Start.rev
    <3>1. ~rebalance /\ pc \notin FinalSteps
      BY <1>7, <2>1, <2>2 DEF QuietInv
    <3>2. ~rebalance'
      BY <2>1, <3>1, QuietStays DEF ScalingSteps
    <3>3. CASE HandleTargetState
      <4>1. pc' # "checkReady"
        BY <1>7, <2>1, <2>2, <3>3, ChoiceFacts
      <4> QED
        BY <3>2, <3>3, <4>1 DEF HandleTargetState, Choice, FinalSteps
    <3> QED
      BY <3>1, <3>2, <3>3, PcMoves DEF Return, FinalSteps
  <2>3. CASE set.rev = Start.rev
    <3>1. PatchTemplate
      BY <1>7, <2>3, RevForGood
    <3> QED
      BY <3>1 DEF PatchTemplate, QuietInv, Return, FinalSteps, world
  <2> QED
    BY <2>2, <2>3
<1>8. ASSUME NEW i \in Ordinals, Maintained(i)'
      PROVE  /\ Upgrade /\ set'.rev # Start.rev /\ i < Start.size
             /\ pods'[i].phase = "ready" => pods'[i].rev # Goal.rev
             /\ ~Waiting' => i = Start.size - 1
             /\ ~rebalance' /\ pc' \notin FinalSteps
             /\ ~AllReady(set)' /\ ~AllReady(setCached)'
  <2>1. i < Goal.size /\ smap'[i] = "maintenance"
    BY <1>1, <1>8 DEF Maintained
  <2>2. CASE ~Maintained(i)
    <3>1. /\ pods' = pods /\ set' = set /\ setCached' = setCached /\ rebalance' = rebalance
          /\ pc = "drain" /\ pc' = "idle" /\ Upgrade /\ Waiting /\ set.rev # Start.rev
          /\ pods[i] = First /\ i < Start.size
      BY <1>2, <2>1, <2>2, MaintenanceMoves DEF Maintained
    <3>2. Waiting'
      BY <1>1, <3>1 DEF Waiting
    <3>3. pods[i].rev # Goal.rev
      BY <3>1, UpgradeFacts
    <3>4. ~rebalance
      BY <3>1 DEF QuietInv
    <3>5. ~AllReady(set) /\ ~AllReady(setCached)
      BY <1>2, <3>1, UpgradeFacts DEF UpgradeInv, StatusOK, AllReady
    <3>6. ~AllReady(set)' /\ ~AllReady(setCached)'
      BY <1>1, <3>1, <3>5 DEF AllReady
    <3> QED
      BY <3>1, <3>2, <3>3, <3>4, <3>6 DEF FinalSteps
  <2>3. CASE Maintained(i)
    <3>1. /\ Upgrade /\ set.rev # Start.rev /\ i < Start.size
          /\ pods[i].phase = "ready" => pods[i].rev # Goal.rev
          /\ ~Waiting => i = Start.size - 1
          /\ ~rebalance /\ pc \notin FinalSteps
          /\ ~AllReady(set) /\ ~AllReady(setCached)
      BY <2>3 DEF QuietInv
    <3>2. set'.rev # Start.rev
      BY <3>1, RevForGood
    <3>3. pods'[i].phase = "ready" => pods'[i].rev # Goal.rev
      <4>1. ~(Settled(i) /\ pods'[i].phase = "ready")
        BY <2>1 DEF Settled, Serving
      <4> QED
        BY <3>1, <4>1, PodMoves DEF Created, Deleted, Gone, Exited, NoPod
    <3>4. ~Waiting' => i = Start.size - 1
      <4> SUFFICES ASSUME Waiting, ~Waiting', i # Start.size - 1 PROVE FALSE
        BY <3>1
      <4> DEFINE k == Start.size - 1
      <4>1. k \in Ordinals /\ i < k /\ k < Start.size
        BY <1>2, <3>1, UpgradeFacts DEF Ordinals
      <4> HIDE DEF k
      <4>2. ~Done(i)
        BY <3>1 DEF Done, IsPodRolloutCompleted, EditInv, PodInv, Schedulable
      <4>3. pods[k] = First
        BY <3>1, <4>1, <4>2, UpgradeFacts DEF UpgradeInv
      <4>4. pods'[k].rev = Start.rev /\ pods'[k].phase # "none"
        BY <3>1, <4>1, <4>3, WaitingMoves, UpgradeFacts DEF Created, Gone, Settled
      <4> QED
        BY <1>1, <4>1, <4>4 DEF Waiting
    <3>5. ~rebalance'
      <4>1. pc # "shrinkConfig"
        <5>1. CASE Waiting
          BY <3>1, <5>1, UpgradeFacts DEF UpgradeInv, ScalingSteps
        <5>2. CASE ~Waiting
          BY <1>2, <2>1, <3>1, <5>2 DEF MigrateInv
        <5> QED
          BY <5>1, <5>2
      <4> QED
        BY <3>1, <4>1, QuietStays
    <3>6. pc' \notin FinalSteps
      <4>1. CASE HandleTargetState
        <5>1. pc' # "checkReady"
          BY <3>1, <4>1, ChoiceFacts DEF AllReady
        <5> QED
          BY <4>1, <5>1 DEF HandleTargetState, Choice, FinalSteps
      <4> QED
        BY <3>1, <4>1, PcMoves DEF Return, FinalSteps
    <3>7. ~AllReady(setCached)'
      BY <1>1, <3>1, MemMoves DEF AllReady
    <3>8. ~AllReady(set)'
      <4>1. CASE UpdateStatus
        <5>1. set.rev = Goal.rev
          BY <3>1 DEF EditInv, RevOK
        <5> QED
          BY <1>1, <2>3, <3>1, <4>1, <5>1, StatusFields, ReadyCounts DEF AllReady
      <4>2. CASE ~UpdateStatus
        <5>1. /\ set'.pods = set.pods /\ set'.updated = set.updated
              /\ set'.ready = set.ready /\ set'.updateRev = set.updateRev
          BY <4>2, SetMoves, PatchFields, ResizeFields
        <5> QED
          BY <1>1, <3>1, <5>1 DEF AllReady
      <4> QED
        BY <4>1, <4>2
    <3> QED
      BY <3>1, <3>2, <3>3, <3>4, <3>5, <3>6, <3>7, <3>8
  <2> QED
    BY <2>2, <2>3
<1> QED
  BY <1>1, <1>3, <1>4, <1>5, <1>6, <1>7, <1>8 DEF QuietInv, Same

(* For one edit to a revision that finds nodes: while a target that stays  *)
(* is in maintenance for a rollout, the live config keeps rebalance off    *)
(* (syncTargetPodSpec), although the steps after a rollout and a           *)
(* scale-down turn it on and work from cached statuses.                    *)
THEOREM RolloutStaysQuiet == Spec /\ OneEdit /\ Schedulable => []NoRebalanceInRollout
<1> DEFINE Inv == TypeInv /\ EditInv /\ MigrateInv /\ QuietInv /\ Schedulable
<1>1. Init /\ OneEdit /\ Schedulable => Inv
  BY TypeInit, EditInit, MigrateInit, QuietInit
<1>2. Inv /\ [Next]_vars => Inv'
  <2> SUFFICES ASSUME Inv, [Next]_vars PROVE Inv'
    OBVIOUS
  <2>1. TypeInv' /\ EditInv'
    BY TypeStep, EditStep
  <2>2. Schedulable'
    <3>1. scenario' = scenario
      BY CRStep DEF vars
    <3> QED
      BY <3>1 DEF Schedulable, Fate, Goal, Start
  <2>3. CASE Next
    BY <2>1, <2>2, <2>3, MigrateStep, QuietStep
  <2>4. CASE UNCHANGED vars
    <3>1. MigrateInv'
      BY <2>4 DEF MigrateInv, vars, Leaving, Same, Goal, Start, Retain
    <3>2. QuietInv'
      BY <2>4 DEF QuietInv, vars, Maintained, AllReady, Waiting, Upgrade, Same, Goal, Start
    <3> QED
      BY <2>1, <2>2, <3>1, <3>2
  <2> QED
    BY <2>3, <2>4
<1>3. Inv => NoRebalanceInRollout
  <2> SUFFICES ASSUME Inv, NEW i \in Ordinals, i < cr.size, smap[i] = "maintenance"
               PROVE  ~rebalance
    BY DEF NoRebalanceInRollout
  <2>1. edits \in 0..Len(scenario.wishes) /\ Len(scenario.wishes) \in Nat
        /\ Len(scenario.wishes) <= 1
    BY StartType DEF TypeInv, TypeOK, EditInv, CopyInv, OneEdit
  <2>2. edits = 0 \/ edits = 1
    BY <2>1
  <2>3. Same(cached, Goal)
    BY DEF QuietInv
  <2>4. Same(cr, Goal)
    BY <2>2, <2>3 DEF EditInv, CopyInv, CopyOK, Same
  <2>5. Maintained(i)
    BY <2>4 DEF Maintained, Same
  <2> QED
    BY <2>5 DEF QuietInv
<1> HIDE DEF Inv
<1> QED
  BY <1>1, <1>2, <1>3, PTL DEF Spec

-----------------------------------------------------------------------------
(***************************************************************************)
(* Targets are drained before they go.                                     *)
(***************************************************************************)
(* The edit does not change the revision and shrink the cluster at once.   *)
Separate == Goal.rev = Start.rev \/ Goal.size >= Start.size

Outgoing(i) == Goal.size <= i /\ i < Start.size

(* A scale-down without an upgrade: no target starts, those on their way   *)
(* out have all been sent away before the replicas are lowered, and none   *)
(* comes back.                                                             *)
ShrinkInv ==
    /\ \A i \in Ordinals :
        /\ pods[i].phase # "starting"
        /\ i < set.replicas => pods[i].phase \notin {"none", "terminating"}
        /\ i >= Start.size => pods[i].phase = "none"
    /\ pc \in {"shrinkEnable", "shrinkConfig", "prepare"} => seen.replicas = Start.size
    /\ pc \in {"resolve", "resize"} =>
          \A i \in Ordinals : Outgoing(i) => smap[i] # "active"
    /\ pc = "resize" \/ set.replicas # Start.size =>
          \A i \in Ordinals : Outgoing(i) => smap[i] \in {"absent", "maintenance"}
    /\ setCached.replicas # Start.size => set.replicas # Start.size

(* Otherwise no pod is beyond the replicas.                                *)
GrowInv == \A i \in Ordinals : pods[i].phase # "none" => i < set.replicas

(* The pod that a rollout is about to delete is in maintenance.            *)
DrainInv ==
    /\ pc = "deletePod" => smap[arg] = "maintenance" \/ pods[arg].phase # "ready"
    /\ Goal.size >= Start.size => GrowInv
    /\ Goal.size < Start.size => ShrinkInv

LEMMA DrainInit == Init /\ OneEdit => DrainInv
<1> SUFFICES ASSUME Init, OneEdit PROVE DrainInv
  OBVIOUS
<1>1. /\ pc = "idle" /\ set = StartSet /\ setCached = StartSet
      /\ StartSet.replicas = Start.size
  BY DEF Init, StartSet
<1>2. /\ Fate[Start.rev] \in {"ready", "crash", "unschedulable"} /\ Start.size \in 1..MaxSize
      /\ MaxSize \in Nat /\ Ordinals \subseteq Nat
  <2>1. scenario \in Scenarios
    BY DEF Init
  <2>2. MaxSize \in Nat /\ Ordinals \subseteq Nat
    BY SizeAssumption DEF Ordinals
  <2> QED
    BY <2>1, <2>2, StartType
<1>3. ASSUME NEW i \in Ordinals
      PROVE  /\ i < Start.size => pods[i].phase \in {"ready", "crash", "unschedulable"}
             /\ i >= Start.size => pods[i].phase = "none"
  BY <1>2 DEF Init, NoPod
<1>4. ASSUME NEW i \in Ordinals
      PROVE  i < Start.size \/ i >= Start.size
  BY <1>2
<1>5. GrowInv
  BY <1>1, <1>3, <1>4 DEF GrowInv
<1>6. ShrinkInv
  BY <1>1, <1>3, <1>4 DEF ShrinkInv
<1> QED
  BY <1>1, <1>5, <1>6 DEF DrainInv

(* The replicas change at most once.                                       *)
LEMMA ReplicasForGood ==
    ASSUME TypeInv, EditInv, Next
    PROVE  /\ set.replicas \in {Start.size, Goal.size} /\ set.replicas \in Nat
           /\ \/ set'.replicas = set.replicas
              \/ Resize /\ set'.replicas = Goal.size /\ pods' = pods /\ smap' = smap
<1>1. set.replicas \in {Start.size, Goal.size}
  BY DEF EditInv, RevOK
<1>2. Resize => (set' = set \/ set'.replicas = Goal.size) /\ pods' = pods /\ smap' = smap
  <2>1. Resize => arg = Goal.size
    BY DEF EditInv, LagInv, Resize, GrowSteps
  <2> QED
    BY <2>1, ResizeFields DEF Resize, world
<1>3. set'.replicas # set.replicas => Resize
  BY RevForGood
<1> QED
  BY <1>1, <1>2, <1>3, SizesOfEdit

LEMMA GrowStep ==
    ASSUME TypeInv, EditInv, Next, Goal.size >= Start.size, GrowInv
    PROVE  GrowInv'
<1> SUFFICES ASSUME NEW i \in Ordinals, pods'[i].phase # "none"
             PROVE  i < set'.replicas
  BY DEF GrowInv
<1>1. i \in Nat /\ Start.size \in Nat /\ Goal.size \in Nat
  BY SizesOfEdit, SizeAssumption DEF Ordinals
<1>2. pods[i].phase # "none" => i < set.replicas
  BY DEF GrowInv
<1>3. CASE set'.replicas = set.replicas
  BY <1>2, <1>3, PodMoves DEF Created, Deleted, Gone, Settled, Exited, NoPod, IsActive
<1>4. CASE set'.replicas = Goal.size /\ pods' = pods
  <2>1. i < set.replicas
    BY <1>2, <1>4
  <2> QED
    BY <1>1, <1>4, <2>1, ReplicasForGood
<1> QED
  BY <1>3, <1>4, ReplicasForGood

LEMMA ShrinkStep ==
    ASSUME TypeInv, EditInv, MigrateInv, Next, ~Upgrade, Goal.size < Start.size, ShrinkInv
    PROVE  ShrinkInv'
<1>1. /\ Start' = Start /\ Goal' = Goal /\ Retain' = Retain
  BY ScenarioStays
<1>2. /\ Ordinals \subseteq Nat /\ Start.size \in Nat /\ Goal.size \in Nat
  BY SizesOfEdit, SizeAssumption DEF Ordinals
<1>3. ~DeletePod /\ ~PrepareTargetForRollout
  BY DEF EditInv, LagInv, RevOK, Upgrade, DeletePod, PrepareTargetForRollout
<1>4. \A r : r \in Revs => Fate[r] # "starting"
  BY StartType DEF TypeInv, TypeOK
<1>5. ASSUME NEW i \in Ordinals
      PROVE  /\ pods'[i].phase # "starting"
             /\ i < set'.replicas => pods'[i].phase \notin {"none", "terminating"}
             /\ i >= Start.size => pods'[i].phase = "none"
             /\ smap'[i] = "active" => smap[i] = "active"
             /\ smap[i] = "maintenance" => smap'[i] = "maintenance"
             /\ smap[i] = "absent" => smap'[i] = "absent"
             /\ smap'[i] = "decommission" => smap[i] = "decommission" \/ pc = "prepare"
  <2>1. /\ pods[i].phase # "starting"
        /\ i < set.replicas => pods[i].phase \notin {"none", "terminating"}
        /\ i >= Start.size => pods[i].phase = "none"
    BY DEF ShrinkInv
  <2>2. i < set'.replicas => i < set.replicas
    BY <1>2, ReplicasForGood
  <2>3. ~Created(i) /\ ~Settled(i)
    BY <2>1 DEF Created, Settled
  <2>4. /\ pods'[i].phase # "starting"
        /\ i < set'.replicas => pods'[i].phase \notin {"none", "terminating"}
        /\ i >= Start.size => pods'[i].phase = "none"
    <3>1. CASE pods'[i] = pods[i]
      BY <2>1, <2>2, <3>1
    <3>2. CASE Deleted(i)
      BY <1>2, <1>3, <2>1, <2>2, <3>2, ReplicasForGood DEF Deleted, IsActive
    <3>3. CASE Gone(i) \/ Exited(i)
      BY <2>1, <2>2, <3>3 DEF Gone, Exited, NoPod
    <3> QED
      BY <2>3, <3>1, <3>2, <3>3, PodMoves
  <2>5. /\ smap'[i] = "active" => smap[i] = "active"
        /\ smap[i] = "maintenance" => smap'[i] = "maintenance"
        /\ smap[i] = "absent" => smap'[i] = "absent"
        /\ smap'[i] = "decommission" => smap[i] = "decommission" \/ pc = "prepare"
    BY <1>3, <2>1, <2>3, MemberMoves DEF Leaves, PrepareTargetsForScaleDown
  <2> QED
    BY <2>4, <2>5
<1>6. pc' \in {"shrinkEnable", "shrinkConfig", "prepare"} => seen'.replicas = Start.size
  <2>1. CASE HandleTargetState
    <3>1. seen' = setCached
      BY <2>1 DEF HandleTargetState
    <3> QED
      BY <2>1, <3>1, ChoiceFacts DEF ScalingSteps
  <2>2. CASE pc \in {"shrinkEnable", "shrinkConfig", "prepare"} /\ seen' = seen
    BY <2>2 DEF ShrinkInv
  <2> QED
    BY <2>1, <2>2, PcMoves DEF Return
<1>7. ASSUME NEW i \in Ordinals, Outgoing(i), pc' \in {"resolve", "resize"}
      PROVE  smap'[i] # "active"
  <2>1. CASE pc \in {"resolve", "resize"}
    BY <1>5, <1>7, <2>1 DEF ShrinkInv
  <2>2. CASE pc = "prepare" /\ pc' = "resolve"
    <3>1. PrepareTargetsForScaleDown
      BY <2>2, NextSplit, ConditionMoves, ConfigMoves, EnvironmentMoves
         DEF Decision, HandleTargetState, ResolveStatefulSetScaling, FindPodNeedingUpdate,
             CheckAISClusterReady, Fail, Return, operator, Writing, PatchTemplate, Resize,
             PrepareTargetForRollout, DeletePod
    <3>2. /\ seen.replicas = Start.size /\ mem.size = Goal.size
      BY <2>2 DEF ShrinkInv, EditInv, LagInv, ScalingSteps, Same
    <3>3. PICK low \in 0..seen.replicas :
            /\ low >= mem.size \/ low = seen.replicas
            /\ low <= mem.size /\ smap' = Prepared(low)
      BY <2>2, <3>1 DEF PrepareTargetsForScaleDown, Return
    <3>4. low = Goal.size
      BY <1>2, <3>2, <3>3
    <3>5. i \in Removed(seen.replicas, mem.size) /\ i >= low
      BY <1>2, <1>7, <3>2, <3>4 DEF Removed, Outgoing
    <3> QED
      BY <3>3, <3>5 DEF Prepared
  <2>3. ~(HandleTargetState /\ pc' = "resolve")
    <3>1. HandleTargetState /\ pc' = "resolve" =>
            /\ setCached.replicas < cached.size /\ Same(cached, Goal)
            /\ setCached.replicas = Start.size
      BY ChoiceCases, ChoiceFacts DEF ScalingSteps
    <3> QED
      BY <1>2, <3>1 DEF Same
  <2>4. pc # "growConfig"
    BY <1>2 DEF MigrateInv
  <2>5. ~(HandleTargetState /\ pc' = "resize")
    BY DEF HandleTargetState, Choice
  <2> QED
    BY <1>7, <2>1, <2>2, <2>3, <2>4, <2>5, PcMoves DEF Return
<1>8. ASSUME pc' = "resize" \/ set'.replicas # Start.size,
             NEW i \in Ordinals, Outgoing(i)
      PROVE  smap'[i] \in {"absent", "maintenance"}
  <2>1. CASE pc = "resize" \/ set.replicas # Start.size
    BY <1>5, <1>8, <2>1 DEF ShrinkInv
  <2>2. CASE pc = "resolve" /\ pc' = "resize" /\ set.replicas = Start.size
    <3>1. ResolveStatefulSetScaling
      BY <2>2, NextSplit, ConditionMoves, ConfigMoves, WritingMoves, EnvironmentMoves
         DEF Decision, HandleTargetState, FindPodNeedingUpdate, CheckAISClusterReady, Fail,
             Return, operator
    <3>2. setCached.replicas = Start.size /\ mem.size = Goal.size
      BY <2>2 DEF ShrinkInv, EditInv, LagInv, ScalingSteps, Same
    <3>3. IsReadyToScaleDown(mem.size) /\ smap' = smap
      BY <1>2, <2>2, <3>1, <3>2 DEF ResolveStatefulSetScaling, Return, world
    <3>4. smap[i] # "active" /\ smap[i] \in Membership
      BY <1>8, <2>2 DEF ShrinkInv, TypeInv, TypeOK
    <3>5. i \in Removed(setCached.replicas, mem.size)
      BY <1>8, <3>2 DEF Removed, Outgoing
    <3> QED
      BY <3>3, <3>4, <3>5 DEF IsReadyToScaleDown, IsReadyToScaleDownRetain,
                              IsReadyToScaleDownDecommission, Membership
  <2>3. CASE set'.replicas # set.replicas
    <3>1. pc = "resize"
      BY <2>3, ReplicasForGood DEF Resize
    <3> QED
      BY <2>1, <3>1
  <2>4. pc # "growConfig"
    BY <1>2 DEF MigrateInv
  <2>5. ~(HandleTargetState /\ pc' = "resize")
    BY DEF HandleTargetState, Choice
  <2> QED
    BY <1>8, <2>1, <2>2, <2>3, <2>4, <2>5, PcMoves DEF Return
<1>9. setCached'.replicas # Start.size => set'.replicas # Start.size
  <2>1. set.replicas # Start.size => set'.replicas # Start.size
    BY <1>2, ReplicasForGood
  <2> QED
    BY <2>1, MemMoves DEF ShrinkInv
<1> QED
  BY <1>1, <1>5, <1>6, <1>7, <1>8, <1>9 DEF ShrinkInv, Outgoing

LEMMA DrainStep ==
    ASSUME TypeInv, EditInv, MigrateInv, Separate, DrainInv, Next
    PROVE  DrainInv'
<1>1. Start' = Start /\ Goal' = Goal
  BY ScenarioStays
<1>2. Start.size \in Nat /\ Goal.size \in Nat
  BY SizesOfEdit
<1>3. Goal.size >= Start.size => GrowInv'
  BY GrowStep DEF DrainInv
<1>4. Goal.size < Start.size => ShrinkInv'
  BY <1>2, ShrinkStep DEF DrainInv, Separate, Upgrade
<1>5. pc' = "deletePod" => smap'[arg'] = "maintenance" \/ pods'[arg'].phase # "ready"
  <2> SUFFICES ASSUME pc' = "deletePod"
               PROVE  smap'[arg'] = "maintenance" \/ pods'[arg'].phase # "ready"
    OBVIOUS
  <2>1. (pc = "drain" \/ pc = "deletePod") /\ arg' = arg
    <3>1. ~Return /\ ~HandleTargetState
      BY DEF Return, HandleTargetState, Choice
    <3> QED
      BY <3>1, PcMoves
  <2>2. Upgrade /\ arg \in Ordinals
    BY <2>1 DEF EditInv, LagInv, RevOK, Upgrade, TypeInv, ArgInv
  <2>3. pods'[arg] = First /\ pods[arg] = First
    <3>1. UpgradeInv' /\ First' = First
      BY <2>2, UpgradeStep, ScenarioStays
    <3> QED
      BY <2>1, <2>2, <3>1, UpgradeFacts DEF UpgradeInv
  <2>4. CASE pc = "drain"
    <3>1. PrepareTargetForRollout
      BY <2>4, NextSplit, ConditionMoves, ConfigMoves, EnvironmentMoves
         DEF Decision, HandleTargetState, ResolveStatefulSetScaling, FindPodNeedingUpdate,
             CheckAISClusterReady, Fail, Return, operator, Writing, PatchTemplate, Resize,
             PrepareTargetsForScaleDown, DeletePod
    <3> QED
      BY <2>1, <3>1 DEF PrepareTargetForRollout, Return
  <2>5. CASE pc = "deletePod"
    <3>1. smap[arg] = "maintenance" \/ pods[arg].phase # "ready"
      BY <2>5 DEF DrainInv
    <3>2. smap[arg] = "maintenance" => smap'[arg] = "maintenance"
      BY <2>2, <2>3, MemberMoves, UpgradeFacts DEF Leaves
    <3> QED
      BY <2>1, <2>3, <3>1, <3>2
  <2> QED
    BY <2>1, <2>4, <2>5
<1> QED
  BY <1>1, <1>3, <1>4, <1>5 DEF DrainInv

LEMMA EvictionDrained ==
    ASSUME TypeInv, EditInv, Separate, DrainInv, Next, NEW i \in Ordinals, Evicts(i)
    PROVE  smap[i] \in {"absent", "maintenance"}
<1>1. /\ i \in Nat /\ Start.size \in Nat /\ Goal.size \in Nat /\ set.replicas \in Nat
      /\ set.replicas \in {Start.size, Goal.size}
  BY SizesOfEdit, SizeAssumption, ReplicasForGood DEF Ordinals
<1>2. pods[i].phase = "ready" /\ pods'[i].phase = "terminating"
  BY DEF Evicts
<1>3. Deleted(i)
  BY <1>2, PodMoves DEF Created, Gone, Settled, Exited, NoPod
<1>4. CASE DeletePod /\ i = arg
  BY <1>2, <1>4 DEF DrainInv, DeletePod
<1>5. CASE i >= set.replicas
  <2>1. Goal.size < Start.size /\ ShrinkInv
    BY <1>1, <1>2, <1>5 DEF DrainInv, GrowInv
  <2>2. i < Start.size
    BY <1>1, <1>2, <2>1 DEF ShrinkInv
  <2>3. Outgoing(i) /\ set.replicas # Start.size
    BY <1>1, <1>5, <2>1, <2>2 DEF Outgoing
  <2> QED
    BY <2>1, <2>3 DEF ShrinkInv
<1> QED
  BY <1>3, <1>4, <1>5 DEF Deleted

(* For one edit that changes the revision or shrinks the cluster, but not  *)
(* both at once: a serving target is taken away only in maintenance or     *)
(* after it was decommissioned and left (prepareTargetForRollout,          *)
(* prepareTargetsForScaleDown, isReadyToScaleDown), though the check of    *)
(* the cluster map and the lowering of the replicas are separate steps.    *)
THEOREM DrainedFirst == Spec /\ OneEdit /\ Separate => DrainedBeforeEviction
<1> DEFINE Inv == TypeInv /\ EditInv /\ MigrateInv /\ DrainInv /\ Separate
<1>1. Init /\ OneEdit /\ Separate => Inv
  BY TypeInit, EditInit, MigrateInit, DrainInit
<1>2. Inv /\ [Next]_vars => Inv'
  <2> SUFFICES ASSUME Inv, [Next]_vars PROVE Inv'
    OBVIOUS
  <2>1. TypeInv' /\ EditInv'
    BY TypeStep, EditStep
  <2>2. Separate'
    <3>1. scenario' = scenario
      BY CRStep DEF vars
    <3> QED
      BY <3>1 DEF Separate, Goal, Start
  <2>3. CASE Next
    BY <2>1, <2>2, <2>3, MigrateStep, DrainStep
  <2>4. CASE UNCHANGED vars
    <3>1. MigrateInv'
      BY <2>4 DEF MigrateInv, vars, Leaving, Same, Goal, Start, Retain
    <3>2. DrainInv'
      BY <2>4 DEF DrainInv, vars, ShrinkInv, GrowInv, Outgoing, Goal, Start
    <3> QED
      BY <2>1, <2>2, <3>1, <3>2
  <2> QED
    BY <2>3, <2>4
<1>3. Inv /\ [Next]_vars
        => [\A i \in Ordinals : Evicts(i) => smap[i] \in {"absent", "maintenance"}]_pods
  BY EvictionDrained DEF vars
<1> HIDE DEF Inv
<1> QED
  BY <1>1, <1>2, <1>3, PTL DEF Spec, DrainedBeforeEviction
==============================================================================
