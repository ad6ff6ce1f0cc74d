------------------------ MODULE ClusterReconcileProofs ------------------------
(***************************************************************************)
(* Theorems about ClusterReconcile, for every number of replicas,          *)
(* revisions, edits and faults.                                            *)
(***************************************************************************)
EXTENDS ClusterReconcile, FiniteSetTheorems, TLAPS

-----------------------------------------------------------------------------
(* The operators *)

\* The counts of WorkloadStatus.
LEMMA CountType ==
  ASSUME NEW c \in Comp, NEW S \in SUBSET Pods(c)
  PROVE  /\ Cardinality(S) \in Nat
         /\ Cardinality(S) = Replicas[c] => S = Pods(c)
         /\ Cardinality(S) > 0 => S # {}
<1>1. Replicas[c] \in Nat
  BY ConstantsAssumption
<1>2. IsFiniteSet(Pods(c)) /\ Cardinality(Pods(c)) = Replicas[c]
  BY <1>1, FS_Interval DEF Pods
<1>3. IsFiniteSet(S) /\ (Cardinality(S) = Cardinality(Pods(c)) => S = Pods(c))
  BY <1>2, FS_Subset
<1> QED BY <1>2, <1>3, FS_CardinalityType, FS_EmptySet

LEMMA SpecsFacts ==
  /\ NoSpec \in Specs
  /\ \A s \in Specs : s["fe"] \in Revs /\ \A c \in Comp : s[c] \in 0 .. MaxRev
BY ConstantsAssumption DEF Specs, NoSpec, Comp, Revs

LEMMA RecordFacts ==
  /\ NoLoad \in LoadType
  /\ NoPod \in PodType
  /\ NewStatus \in StatusType
  /\ NoSrc \in [spec : Specs, status : StatusType]
<1>1. NoLoad \in LoadType /\ NoPod \in PodType
  BY ConstantsAssumption DEF NoLoad, LoadType, NoPod, PodType
<1>2. NewStatus \in StatusType
  BY DEF NewStatus, StatusType, PhaseType
<1> QED BY <1>1, <1>2, SpecsFacts DEF NoSrc

\* What the steps of the operator write into the copy of the status.
LEMMA StatusFacts ==
  ASSUME NEW st \in StatusType, NEW c \in Comp, NEW p \in PhaseType
  PROVE  /\ Failed(c, st) \in StatusType
         /\ [st EXCEPT !.comp[c] = p] \in StatusType
         /\ ReconcileStatus(st) \in StatusType
<1>1. Failed(c, st) \in StatusType
  BY DEF Failed, StatusType, PhaseType
<1>2. [st EXCEPT !.comp[c] = p] \in StatusType
  BY DEF StatusType
<1>3. ReconcileStatus(st) \in StatusType
  BY DEF ReconcileStatus, StatusType, PhaseType, Comp
<1> QED BY <1>1, <1>2, <1>3

LEMMA PhaseFacts ==
  ASSUME TypeOK, NEW c \in Comp
  PROVE  StartPhase(c) \in PhaseType /\ ComponentPhase(c) \in PhaseType
<1>1. src.status.comp[c] \in PhaseType
  BY DEF TypeOK, StatusType
<1> QED BY <1>1 DEF StartPhase, ComponentPhase, UpdateStatus, PhaseType

LEMMA SubFact == TypeOK => Sub \in Comp
BY DEF TypeOK, Sub, Scs, Comp

-----------------------------------------------------------------------------
(* Type correctness *)

\* The pods of one workload, or one of them, are replaced.
LEMMA PodsType ==
  ASSUME TypeOK, NEW c \in Comp
  PROVE  /\ pods' = [pods EXCEPT ![c] = [i \in Pods(c) |-> NoPod]] =>
              DOMAIN pods' = Comp /\ \A d \in Comp : pods'[d] \in [Pods(d) -> PodType]
         /\ \A i \in Pods(c), pod \in PodType : pods' = [pods EXCEPT ![c][i] = pod] =>
              DOMAIN pods' = Comp /\ \A d \in Comp : pods'[d] \in [Pods(d) -> PodType]
<1>1. [i \in Pods(c) |-> NoPod] \in [Pods(c) -> PodType]
  BY RecordFacts
<1>2. ASSUME NEW q \in [Pods(c) -> PodType], pods' = [pods EXCEPT ![c] = q]
      PROVE  DOMAIN pods' = Comp /\ \A d \in Comp : pods'[d] \in [Pods(d) -> PodType]
  BY <1>2 DEF TypeOK
<1>3. ASSUME NEW i \in Pods(c), NEW pod \in PodType, pods' = [pods EXCEPT ![c][i] = pod]
      PROVE  DOMAIN pods' = Comp /\ \A d \in Comp : pods'[d] \in [Pods(d) -> PodType]
  <2>1. [pods[c] EXCEPT ![i] = pod] \in [Pods(c) -> PodType]
    BY DEF TypeOK
  <2>2. pods' = [pods EXCEPT ![c] = [pods[c] EXCEPT ![i] = pod]]
    BY <1>3
  <2> QED BY <2>1, <2>2, <1>2
<1> QED BY <1>1, <1>2, <1>3

LEMMA SyncEffectType ==
  ASSUME TypeOK, NEW c \in Comp, SyncEffect(c)
  PROVE  /\ load' \in [Comp -> LoadType]
         /\ DOMAIN pods' = Comp /\ \A d \in Comp : pods'[d] \in [Pods(d) -> PodType]
         /\ endpoints' = endpoints /\ feWasReady' = feWasReady
<1>1. src.spec[c] \in 0 .. MaxRev
  BY SpecsFacts DEF TypeOK
<1>2. CASE ClearCluster(c)
  <2>1. load' \in [Comp -> LoadType]
    BY <1>2, RecordFacts DEF ClearCluster, TypeOK
  <2>2. DOMAIN pods' = Comp /\ \A d \in Comp : pods'[d] \in [Pods(d) -> PodType]
    BY <1>2, PodsType DEF ClearCluster
  <2> QED BY <1>2, <2>1, <2>2 DEF ClearCluster
<1>3. CASE Apply(c)
  <2>1. [load[c] EXCEPT !.rev = src.spec[c]] \in LoadType
    BY <1>1 DEF LoadType, TypeOK
  <2>2. NewLoad(src.spec[c]) \in LoadType
    <3> QED BY <1>1, RecordFacts DEF LoadType, NewLoad
  <2>3. [load EXCEPT ![c].rev = src.spec[c]]
          = [load EXCEPT ![c] = [load[c] EXCEPT !.rev = src.spec[c]]]
    BY DEF TypeOK
  <2>4. load' \in [Comp -> LoadType]
    BY <1>3, <2>1, <2>2, <2>3 DEF Apply, TypeOK
  <2> QED BY <1>3, <2>4 DEF Apply, TypeOK
<1>4. CASE UNCHANGED k8s
  BY <1>4 DEF k8s, TypeOK
<1> QED BY <1>2, <1>3, <1>4 DEF SyncEffect

LEMMA AdvanceType ==
  ASSUME TypeOK, NEW next \in {"status", "save"}, Advance(next)
  PROVE  at' \in 1 .. 4 /\ pc' \in {"idle", "sync", "status", "save"}
BY DEF Advance, TypeOK

\* Init establishes and every step of Next preserves the type invariant.
THEOREM TypeCorrect == Spec => []TypeOK
<1>1. Init => TypeOK
  <2> SUFFICES ASSUME Init PROVE TypeOK
    OBVIOUS
  <2>1. load \in [Comp -> LoadType]
    BY RecordFacts DEF Init
  <2>2. DOMAIN pods = Comp /\ \A c \in Comp : pods[c] \in [Pods(c) -> PodType]
    BY RecordFacts DEF Init
  <2>3. src \in [spec : Specs, status : StatusType] /\ status \in StatusType
    BY RecordFacts DEF Init
  <2>4. spec \in Specs /\ endpoints \in BOOLEAN /\ feWasReady \in BOOLEAN
    BY DEF Init
  <2>5. pc \in {"idle", "sync", "status", "save"} /\ at \in 1 .. 4
    BY DEF Init
  <2>6. edits \in 0 .. MaxEdits /\ faults \in 0 .. MaxFaults
    BY ConstantsAssumption DEF Init
  <2> QED BY <2>1, <2>2, <2>3, <2>4, <2>5, <2>6 DEF TypeOK
<1>2. TypeOK /\ [Next]_vars => TypeOK'
  <2> SUFFICES ASSUME TypeOK, [Next]_vars PROVE TypeOK'
    OBVIOUS
  <2> USE ConstantsAssumption
  <2>1. CASE ChangeSpec
    BY <2>1 DEF ChangeSpec, Edit, TypeOK, k8s, pass
  <2>2. ASSUME NEW c \in Comp, DeleteWorkload(c) PROVE TypeOK'
    <3>1. load' \in [Comp -> LoadType]
      BY <2>2, RecordFacts DEF DeleteWorkload, TypeOK
    <3>2. DOMAIN pods' = Comp /\ \A d \in Comp : pods'[d] \in [Pods(d) -> PodType]
      BY <2>2, PodsType DEF DeleteWorkload
    <3> QED BY <2>2, <3>1, <3>2 DEF DeleteWorkload, Fault, TypeOK, pass
  <2>3. ASSUME NEW c \in Comp, WorkloadStatus(c) PROVE TypeOK'
    <3> DEFINE U == {i \in Pods(c) : pods[c][i].phase # "none" /\ pods[c][i].rev = load[c].rev}
               R == {i \in Pods(c) : pods[c][i].phase = "ready"}
               all == Cardinality(U) = Replicas[c] /\ Cardinality(R) = Replicas[c]
               cur == IF load[c].current = 0 \/ (all /\ c \notin OnDelete)
                      THEN load[c].rev ELSE load[c].current
               back == ~all /\ (load[c].back \/
                         (load[c].rev = load[c].current /\ load[c].seen # load[c].current))
               new == [load[c] EXCEPT !.seen = load[c].rev, !.updated = Cardinality(U),
                         !.ready = Cardinality(R), !.current = cur, !.back = back]
    <3>1. Cardinality(U) \in Nat /\ Cardinality(R) \in Nat
      BY CountType
    <3>2. load[c] \in LoadType
      BY DEF TypeOK
    <3>3. cur \in 0 .. MaxRev
      BY <3>2 DEF LoadType
    <3>4. new \in LoadType
      <4>1. back \in BOOLEAN
        OBVIOUS
      <4> QED BY <3>1, <3>2, <3>3, <4>1 DEF LoadType
    <3>5. load' = [load EXCEPT ![c] = new]
      BY <2>3 DEF WorkloadStatus
    <3>6. load' \in [Comp -> LoadType]
      BY <3>4, <3>5 DEF TypeOK
    <3> QED BY <2>3, <3>6 DEF WorkloadStatus, TypeOK, pass
  <2>4. ASSUME NEW c \in Comp, NEW i \in Pods(c), PodProgress(c, i) \/ PodFails(c, i)
        PROVE  TypeOK'
    <3>1. pods[c][i] \in PodType /\ load[c] \in LoadType
      BY DEF TypeOK
    <3>2. PICK pod \in PodType : PodStep(c, i, pod)
      <4>1. CASE CreatePod(c, i)
        <5>1. \A v \in 0 .. MaxRev : [rev |-> v, phase |-> "creating"] \in PodType
          BY DEF PodType
        <5>2. load[c].seen \in 0 .. MaxRev /\ load[c].current \in 0 .. MaxRev
          BY <3>1 DEF LoadType
        <5> QED BY <4>1, <5>1, <5>2 DEF CreatePod
      <4>2. CASE PodReady(c, i)
        <5>1. [pods[c][i] EXCEPT !.phase = "ready"] \in PodType
          BY <3>1 DEF PodType
        <5> QED BY <4>2, <5>1 DEF PodReady
      <4>3. CASE RemovePod(c, i)
        BY <4>3, RecordFacts DEF RemovePod
      <4>4. CASE PodFails(c, i)
        <5>1. [pods[c][i] EXCEPT !.phase = "failed"] \in PodType
          BY <3>1 DEF PodType
        <5> QED BY <4>4, <5>1 DEF PodFails
      <4> QED BY <2>4, <4>1, <4>2, <4>3, <4>4 DEF PodProgress
    <3>3. DOMAIN pods' = Comp /\ \A d \in Comp : pods'[d] \in [Pods(d) -> PodType]
      BY <3>2, PodsType DEF PodStep
    <3>4. faults' \in 0 .. MaxFaults
      BY <2>4 DEF PodProgress, CreatePod, PodReady, RemovePod, PodFails, Fault, TypeOK
    <3>5. feWasReady' \in BOOLEAN
      BY <3>2 DEF PodStep
    <3> QED BY <3>2, <3>3, <3>4, <3>5 DEF PodStep, TypeOK, pass
  <2>5. CASE SyncEndpoints
    BY <2>5 DEF SyncEndpoints, TypeOK, pass
  <2>6. CASE Begin
    BY <2>6 DEF Begin, TypeOK, k8s
  <2>7. CASE SyncCluster
    BY <2>7, SubFact, SyncEffectType, AdvanceType DEF SyncCluster, TypeOK
  <2>8. CASE SyncClusterFails
    <3>1. Failed(Sub, src.status) \in StatusType
      BY SubFact, StatusFacts DEF TypeOK, PhaseType
    <3>2. /\ load' \in [Comp -> LoadType]
          /\ DOMAIN pods' = Comp /\ \A d \in Comp : pods'[d] \in [Pods(d) -> PodType]
          /\ endpoints' = endpoints /\ feWasReady' = feWasReady
      BY <2>8, SubFact, SyncEffectType DEF SyncClusterFails, k8s, TypeOK
    <3>3. src' \in [spec : Specs, status : StatusType]
      BY <2>8, <3>1 DEF SyncClusterFails, TypeOK
    <3>4. at' \in 1 .. 4 /\ pc' \in {"idle", "sync", "status", "save"}
      BY <2>8, AdvanceType DEF SyncClusterFails
    <3> QED BY <2>8, <3>2, <3>3, <3>4 DEF SyncClusterFails, Fault, TypeOK
  <2>9. CASE UpdateClusterStatus
    <3> DEFINE st == [src.status EXCEPT !.comp[Sub] = ComponentPhase(Sub)]
    <3>1. st \in StatusType
      BY SubFact, PhaseFacts, StatusFacts DEF TypeOK
    <3>2. ReconcileStatus(st) \in StatusType
      BY <3>1, SubFact, PhaseFacts, StatusFacts
    <3>3. src' \in [spec : Specs, status : StatusType]
      BY <2>9, <3>1, <3>2 DEF UpdateClusterStatus, TypeOK
    <3>4. at' \in 1 .. 4 /\ pc' \in {"idle", "sync", "status", "save"}
      BY <2>9, AdvanceType DEF UpdateClusterStatus
    <3> QED BY <2>9, <3>3, <3>4 DEF UpdateClusterStatus, TypeOK, k8s
  <2>10. CASE FeStatefulSetMissing \/ RolloutStatusFails \/ UpdateClusterStatusFails
    <3>1. PICK p \in PhaseType : StatusError(p)
      BY <2>10, SubFact, PhaseFacts
         DEF FeStatefulSetMissing, RolloutStatusFails, UpdateClusterStatusFails, PhaseType
    <3>2. Failed(Sub, [src.status EXCEPT !.comp[Sub] = p]) \in StatusType
      BY SubFact, StatusFacts DEF TypeOK
    <3>3. faults' \in 0 .. MaxFaults
      BY <2>10 DEF FeStatefulSetMissing, RolloutStatusFails, UpdateClusterStatusFails, Fault, TypeOK
    <3>4. src' \in [spec : Specs, status : StatusType]
      BY <3>1, <3>2 DEF StatusError, TypeOK
    <3> QED BY <3>1, <3>3, <3>4 DEF StatusError, TypeOK, k8s
  <2>11. CASE SaveStatus
    BY <2>11, RecordFacts DEF SaveStatus, TypeOK, k8s
  <2>12. CASE PassLost
    BY <2>12, RecordFacts DEF PassLost, Fault, TypeOK, k8s
  <2>13. CASE UNCHANGED vars
    BY <2>13 DEF vars, TypeOK
  <2> QED
    BY <2>1, <2>2, <2>3, <2>4, <2>5, <2>6, <2>7, <2>8, <2>9, <2>10, <2>11, <2>12, <2>13
       DEF Next, Operator
<1> QED BY <1>1, <1>2, PTL DEF Spec

-----------------------------------------------------------------------------
(* BE, CN and proxy after FE *)

\* Whatever FE's readiness is judged by was preceded by a ready pod.
ReadySeen ==
  /\ \A i \in Pods("fe") : pods["fe"][i].phase = "ready" => feWasReady
  /\ endpoints => feWasReady
  /\ load["fe"].ready > 0 => feWasReady
  /\ CreatedAfterFeReady

\* The frame of the steps that write no workload, pod or Endpoints object.
LEMMA ReadySeenFrame ==
  ASSUME ReadySeen, UNCHANGED k8s
  PROVE  ReadySeen'
BY DEF ReadySeen, CreatedAfterFeReady, k8s

\* A sub-controller gets through its gate only if FE has been ready.
LEMMA SyncKeepsReadySeen ==
  ASSUME TypeOK, ReadySeen, NEW c \in Comp, SyncEffect(c)
  PROVE  ReadySeen'
<1>1. CASE UNCHANGED k8s
  BY <1>1, ReadySeenFrame
<1>2. CASE ClearCluster(c)
  <2>1. UNCHANGED <<endpoints, feWasReady>>
    BY <1>2 DEF ClearCluster
  <2>2. \A d \in Comp : load'[d] = load[d] \/ load'[d] = NoLoad
    BY <1>2 DEF ClearCluster, TypeOK
  <2>3. \A i \in Pods("fe") : pods'["fe"][i] = pods["fe"][i] \/ pods'["fe"][i] = NoPod
    BY <1>2 DEF ClearCluster, TypeOK
  <2> QED BY <2>1, <2>2, <2>3 DEF ReadySeen, CreatedAfterFeReady, NoLoad, NoPod, Comp
<1>3. CASE Apply(c) /\ Gate(c)
  <2>1. UNCHANGED <<pods, endpoints, feWasReady>>
    BY <1>3 DEF Apply
  <2>2. c # "fe" => feWasReady
    <3>1. Replicas["fe"] \in Nat \ {0} /\ load["fe"].ready \in Nat
      BY ConstantsAssumption DEF TypeOK, LoadType, Comp
    <3> QED BY <1>3, <3>1 DEF Gate, CheckFEReady, CheckFEFullyRolledOut, ReadySeen
  <2>3. \A d \in Comp : d # c => load'[d] = load[d]
    BY <1>3 DEF Apply, TypeOK
  <2>4. load'[c].ready = load[c].ready \/ load'[c].ready = 0
    BY <1>3 DEF Apply, NewLoad, NoLoad, TypeOK, LoadType
  <2>5. load'["fe"].ready > 0 => feWasReady
    BY <2>3, <2>4 DEF ReadySeen, Comp
  <2>6. CreatedAfterFeReady'
    BY <2>1, <2>2, <2>3 DEF ReadySeen, CreatedAfterFeReady
  <2> QED BY <2>1, <2>5, <2>6 DEF ReadySeen
<1> QED BY <1>1, <1>2, <1>3 DEF SyncEffect

\* No component is deployed before an FE pod has been ready, with and without
\* WaitForFullRollout, however late the statuses are and whatever fails.
THEOREM AfterFeCorrect == Spec => []CreatedAfterFeReady
<1>1. Init => ReadySeen
  BY ConstantsAssumption DEF Init, ReadySeen, CreatedAfterFeReady, NoLoad, NoPod, Comp, Pods
<1>2. TypeOK /\ ReadySeen /\ [Next]_vars => ReadySeen'
  <2> SUFFICES ASSUME TypeOK, ReadySeen, [Next]_vars PROVE ReadySeen'
    OBVIOUS
  <2>1. CASE ChangeSpec
    BY <2>1, ReadySeenFrame DEF ChangeSpec
  <2>2. ASSUME NEW c \in Comp, DeleteWorkload(c) PROVE ReadySeen'
    <3>1. UNCHANGED <<endpoints, feWasReady>>
      BY <2>2 DEF DeleteWorkload
    <3>2. \A d \in Comp : load'[d] = load[d] \/ load'[d] = NoLoad
      BY <2>2 DEF DeleteWorkload, TypeOK
    <3>3. \A i \in Pods("fe") : pods'["fe"][i] = pods["fe"][i] \/ pods'["fe"][i] = NoPod
      BY <2>2 DEF DeleteWorkload, TypeOK
    <3> QED BY <3>1, <3>2, <3>3 DEF ReadySeen, CreatedAfterFeReady, NoLoad, NoPod, Comp
  <2>3. ASSUME NEW c \in Comp, WorkloadStatus(c) PROVE ReadySeen'
    <3> DEFINE R == {i \in Pods(c) : pods[c][i].phase = "ready"}
    <3>1. UNCHANGED <<pods, endpoints, feWasReady>>
      BY <2>3 DEF WorkloadStatus
    <3>2. /\ \A d \in Comp : load'[d].exists = load[d].exists
          /\ \A d \in Comp : d # c => load'[d] = load[d]
          /\ load'[c].ready = Cardinality(R)
      BY <2>3 DEF WorkloadStatus, TypeOK, LoadType
    <3>3. Cardinality(R) > 0 => R # {}
      BY CountType
    <3>4. load'["fe"].ready > 0 => feWasReady
      BY <3>2, <3>3 DEF ReadySeen, Comp
    <3> QED BY <3>1, <3>2, <3>4 DEF ReadySeen, CreatedAfterFeReady
  <2>4. ASSUME NEW c \in Comp, NEW i \in Pods(c), PodProgress(c, i) \/ PodFails(c, i)
        PROVE  ReadySeen'
    <3>1. PICK pod : PodStep(c, i, pod)
      BY <2>4 DEF PodProgress, CreatePod, PodReady, RemovePod, PodFails
    <3>2. UNCHANGED <<load, endpoints>> /\ (feWasReady => feWasReady')
      BY <3>1 DEF PodStep
    <3>3. \A j \in Pods("fe") : pods'["fe"][j].phase = "ready" => feWasReady'
      <4>1. CASE c # "fe"
        BY <3>1, <4>1 DEF PodStep, TypeOK, ReadySeen
      <4>2. CASE c = "fe"
        <5>1. \A j \in Pods("fe") : pods'["fe"][j] = IF j = i THEN pod ELSE pods["fe"][j]
          BY <3>1, <4>2 DEF PodStep, TypeOK
        <5>2. pod.phase = "ready" => feWasReady'
          BY <3>1, <4>2 DEF PodStep
        <5> QED BY <5>1, <5>2, <3>2 DEF ReadySeen
      <4> QED BY <4>1, <4>2
    <3> QED BY <3>2, <3>3 DEF ReadySeen, CreatedAfterFeReady
  <2>5. CASE SyncEndpoints
    BY <2>5 DEF SyncEndpoints, ReadySeen, CreatedAfterFeReady
  <2>6. CASE SyncCluster
    BY <2>6, SubFact, SyncKeepsReadySeen DEF SyncCluster
  <2>7. CASE SyncClusterFails
    BY <2>7, SubFact, SyncKeepsReadySeen, ReadySeenFrame DEF SyncClusterFails
  <2>8. CASE Begin \/ UpdateClusterStatus \/ FeStatefulSetMissing \/ RolloutStatusFails \/ UpdateClusterStatusFails
             \/ SaveStatus \/ PassLost
    BY <2>8, ReadySeenFrame
       DEF Begin, UpdateClusterStatus, FeStatefulSetMissing, RolloutStatusFails, UpdateClusterStatusFails,
           StatusError, SaveStatus, PassLost
  <2>9. CASE UNCHANGED vars
    BY <2>9, ReadySeenFrame DEF vars, k8s
  <2> QED BY <2>1, <2>2, <2>3, <2>4, <2>5, <2>6, <2>7, <2>8, <2>9 DEF Next, Operator
<1>3. ReadySeen => CreatedAfterFeReady
  BY DEF ReadySeen
<1> QED BY <1>1, <1>2, <1>3, TypeCorrect, PTL DEF Spec

-----------------------------------------------------------------------------
(* WaitForFullRollout *)

\* As long as FE is not on its way back to the revision it came from, its
\* update revision is its current one only while all pods are of that one, and
\* some of them are ready only if it comes up.  None of this relates the
\* revisions to the one in the StatefulSet's spec: it may be newer.
Rollout ==
  /\ load["fe"].exists => load["fe"].rev # 0
  /\ ~load["fe"].exists => load["fe"].seen = 0
  /\ load["fe"].current = 0 <=> load["fe"].seen = 0
  /\ load["fe"].seen = 0 =>
       load["fe"].ready = 0 /\ \A i \in Pods("fe") : pods["fe"][i].phase = "none"
  /\ \A i \in Pods("fe") : pods["fe"][i].phase = "ready" => pods["fe"][i].rev \notin BadRevs
  /\ ~load["fe"].back /\ load["fe"].current = load["fe"].seen =>
       /\ \A i \in Pods("fe") : pods["fe"][i].phase # "none" => pods["fe"][i].rev = load["fe"].seen
       /\ load["fe"].ready > 0 => load["fe"].seen \notin BadRevs

\* FE's revisions are numbers.
LEMMA FeTypes ==
  ASSUME TypeOK
  PROVE  /\ load["fe"] \in LoadType
         /\ load["fe"].rev \in Nat /\ load["fe"].seen \in Nat
         /\ load["fe"].current \in Nat /\ load["fe"].ready \in Nat
         /\ src.spec["fe"] \in Nat \ {0}
<1>1. load["fe"] \in LoadType
  BY DEF TypeOK, Comp
<1>2. src.spec["fe"] \in Revs
  BY SpecsFacts DEF TypeOK
<1> QED BY <1>1, <1>2, ConstantsAssumption DEF LoadType, Revs

\* The steps that write neither FE's workload nor its pods.
LEMMA RolloutFrame ==
  ASSUME Rollout, load'["fe"] = load["fe"], pods'["fe"] = pods["fe"]
  PROVE  Rollout'
BY DEF Rollout

\* FE's workload and pods are removed.
LEMMA RolloutRemoved ==
  ASSUME load'["fe"] = NoLoad, pods'["fe"] = [i \in Pods("fe") |-> NoPod]
  PROVE  Rollout'
<1>1. \A i \in Pods("fe") : pods'["fe"][i].phase = "none"
  BY DEF NoPod
<1> QED BY <1>1 DEF Rollout, NoLoad

\* A sync writes a new revision into FE's spec and none of what is reported.
LEMMA SyncKeepsRollout ==
  ASSUME TypeOK, Rollout, SyncEffect(Sub)
  PROVE  Rollout'
<1>1. src.spec["fe"] \in Nat \ {0}
  BY FeTypes
<1>2. CASE UNCHANGED k8s
  BY <1>2, RolloutFrame DEF k8s
<1>3. CASE Sub # "fe"
  <2>1. load'["fe"] = load["fe"] /\ pods'["fe"] = pods["fe"]
    BY <1>3, SubFact DEF SyncEffect, Apply, ClearCluster, k8s, TypeOK, Comp
  <2> QED BY <2>1, RolloutFrame
<1>4. CASE Sub = "fe" /\ Apply("fe")
  <2>1. pods' = pods
    BY <1>4 DEF Apply
  <2>2. CASE ~load["fe"].exists
    <3>1. load'["fe"] = NewLoad(src.spec["fe"])
      BY <1>4, <2>2 DEF Apply, TypeOK, Comp
    <3>2. \A i \in Pods("fe") : pods'["fe"][i].phase = "none"
      BY <2>1, <2>2 DEF Rollout
    <3> QED BY <1>1, <3>1, <3>2 DEF Rollout, NewLoad, NoLoad
  <2>3. CASE load["fe"].exists
    <3>1. /\ load'["fe"].rev = src.spec["fe"]
          /\ load'["fe"].seen = load["fe"].seen /\ load'["fe"].current = load["fe"].current
          /\ load'["fe"].ready = load["fe"].ready /\ load'["fe"].exists = load["fe"].exists
          /\ load'["fe"].back = load["fe"].back
      BY <1>4, <2>3, FeTypes DEF Apply, TypeOK, Comp, LoadType
    <3> QED BY <1>1, <2>1, <3>1 DEF Rollout
  <2> QED BY <2>2, <2>3
<1> QED BY <1>1, <1>2, <1>3, <1>4 DEF SyncEffect

\* The StatefulSet controller observes FE.
LEMMA StatusKeepsRollout ==
  ASSUME TypeOK, Rollout, WorkloadStatus("fe")
  PROVE  Rollout'
<1> DEFINE U == {i \in Pods("fe") : pods["fe"][i].phase # "none" /\ pods["fe"][i].rev = load["fe"].rev}
           R == {i \in Pods("fe") : pods["fe"][i].phase = "ready"}
           all == Cardinality(U) = Replicas["fe"] /\ Cardinality(R) = Replicas["fe"]
<1>1. load["fe"] \in LoadType /\ load["fe"].rev \in Nat \ {0}
  BY FeTypes DEF Rollout, WorkloadStatus
<1>2. /\ load'["fe"].rev = load["fe"].rev /\ load'["fe"].exists = load["fe"].exists
      /\ load'["fe"].seen = load["fe"].rev
      /\ load'["fe"].ready = Cardinality(R)
      /\ load'["fe"].current = IF load["fe"].current = 0 \/ (all /\ "fe" \notin OnDelete)
                               THEN load["fe"].rev ELSE load["fe"].current
      /\ load'["fe"].back = (~all /\ (load["fe"].back \/
           (load["fe"].rev = load["fe"].current /\ load["fe"].seen # load["fe"].current)))
  BY <1>1 DEF WorkloadStatus, TypeOK, LoadType, Comp
<1>3. pods' = pods /\ load["fe"].exists
  BY DEF WorkloadStatus
<1>4. /\ Cardinality(U) = Replicas["fe"] => U = Pods("fe")
      /\ Cardinality(R) > 0 => R # {}
  BY CountType DEF Comp
<1>5. /\ load'["fe"].seen # 0 /\ load'["fe"].current # 0
      /\ load'["fe"].exists /\ load'["fe"].rev # 0
  BY <1>1, <1>2, <1>3 DEF Rollout
<1>6. ASSUME ~load'["fe"].back, load'["fe"].current = load'["fe"].seen
      PROVE  \A i \in Pods("fe") : pods["fe"][i].phase # "none" => pods["fe"][i].rev = load["fe"].rev
  <2>1. CASE all
    BY <1>4, <2>1
  <2>2. CASE ~all /\ load["fe"].current = 0
    BY <2>2 DEF Rollout
  <2>3. CASE ~all /\ load["fe"].current # 0
    BY <1>2, <1>6, <2>3 DEF Rollout
  <2> QED BY <2>1, <2>2, <2>3
<1>7. ASSUME ~load'["fe"].back, load'["fe"].current = load'["fe"].seen, load'["fe"].ready > 0
      PROVE  load["fe"].rev \notin BadRevs
  <2>1. PICK i \in Pods("fe") : pods["fe"][i].phase = "ready"
    BY <1>2, <1>4, <1>7
  <2> QED BY <1>6, <1>7, <2>1 DEF Rollout
<1> QED BY <1>2, <1>3, <1>5, <1>6, <1>7 DEF Rollout

\* A pod of FE comes, goes, becomes ready or fails.
LEMMA PodsKeepRollout ==
  ASSUME TypeOK, Rollout, NEW i \in Pods("fe"), PodProgress("fe", i) \/ PodFails("fe", i)
  PROVE  Rollout'
<1>1. PICK pod : /\ PodStep("fe", i, pod)
                 /\ \/ /\ load["fe"].seen # 0
                       /\ pod.rev \in {load["fe"].seen, load["fe"].current} /\ pod.phase = "creating"
                    \/ pod = NoPod
                    \/ /\ pods["fe"][i].phase # "none" /\ pod.rev = pods["fe"][i].rev
                       /\ pod.phase = "ready" => pod.rev \notin BadRevs
  <2>1. pods["fe"][i] \in PodType
    BY DEF TypeOK, Comp
  <2>2. CASE CreatePod("fe", i)
    BY <2>2 DEF CreatePod
  <2>3. CASE PodReady("fe", i)
    BY <2>1, <2>3 DEF PodReady, PodType
  <2>4. CASE RemovePod("fe", i)
    BY <2>4 DEF RemovePod
  <2>5. CASE PodFails("fe", i)
    BY <2>1, <2>5 DEF PodFails, PodType
  <2> QED BY <2>2, <2>3, <2>4, <2>5 DEF PodProgress
<1>2. load' = load
  BY <1>1 DEF PodStep
<1>3. \A j \in Pods("fe") : pods'["fe"][j] = IF j = i THEN pod ELSE pods["fe"][j]
  BY <1>1 DEF PodStep, TypeOK, Comp
<1>4. pod.phase = "ready" => pod.rev \notin BadRevs
  BY <1>1 DEF NoPod
<1>5. load["fe"].seen = 0 => pod.phase = "none"
  BY <1>1 DEF NoPod, Rollout
<1>6. ~load["fe"].back /\ load["fe"].current = load["fe"].seen /\ pod.phase # "none" =>
        pod.rev = load["fe"].seen
  BY <1>1 DEF NoPod, Rollout
<1> QED BY <1>2, <1>3, <1>4, <1>5, <1>6 DEF Rollout

\* Init establishes and every step of Next preserves Rollout.
LEMMA RolloutInvariant == Spec => []Rollout
<1>1. Init => Rollout
  BY DEF Init, Rollout, NoLoad, NoPod, Comp
<1>2. TypeOK /\ Rollout /\ [Next]_vars => Rollout'
  <2> SUFFICES ASSUME TypeOK, Rollout, [Next]_vars PROVE Rollout'
    OBVIOUS
  <2>1. ASSUME NEW c \in Comp, DeleteWorkload(c) PROVE Rollout'
    <3>1. CASE c = "fe"
      BY <2>1, <3>1, RolloutRemoved DEF DeleteWorkload, TypeOK
    <3>2. CASE c # "fe"
      BY <2>1, <3>2, RolloutFrame DEF DeleteWorkload, TypeOK, Comp
    <3> QED BY <3>1, <3>2
  <2>2. ASSUME NEW c \in Comp, WorkloadStatus(c) PROVE Rollout'
    <3>1. CASE c # "fe"
      BY <2>2, <3>1, RolloutFrame DEF WorkloadStatus, TypeOK, Comp
    <3> QED BY <2>2, <3>1, StatusKeepsRollout
  <2>3. ASSUME NEW c \in Comp, NEW i \in Pods(c), PodProgress(c, i) \/ PodFails(c, i)
        PROVE  Rollout'
    <3>1. CASE c # "fe"
      <4>1. PICK pod : PodStep(c, i, pod)
        BY <2>3 DEF PodProgress, CreatePod, PodReady, RemovePod, PodFails
      <4> QED BY <3>1, <4>1, RolloutFrame DEF PodStep, TypeOK, Comp
    <3> QED BY <2>3, <3>1, PodsKeepRollout
  <2>4. CASE SyncCluster
    BY <2>4, SyncKeepsRollout DEF SyncCluster
  <2>5. CASE SyncClusterFails
    <3>1. CASE UNCHANGED k8s
      BY <3>1, RolloutFrame DEF k8s
    <3>2. CASE SyncEffect(Sub)
      BY <3>2, SyncKeepsRollout
    <3> QED BY <2>5, <3>1, <3>2 DEF SyncClusterFails
  <2>6. CASE ChangeSpec \/ SyncEndpoints \/ Begin \/ UpdateClusterStatus \/ FeStatefulSetMissing
             \/ RolloutStatusFails \/ UpdateClusterStatusFails \/ SaveStatus \/ PassLost
             \/ UNCHANGED vars
    <3>1. UNCHANGED <<load, pods>>
      BY <2>6 DEF ChangeSpec, SyncEndpoints, Begin, UpdateClusterStatus, FeStatefulSetMissing,
         RolloutStatusFails, UpdateClusterStatusFails, StatusError, SaveStatus, PassLost, k8s, vars
    <3> QED BY <3>1, RolloutFrame
  <2> QED BY <2>1, <2>2, <2>3, <2>4, <2>5, <2>6 DEF Next, Operator
<1> QED BY <1>1, <1>2, TypeCorrect, PTL DEF Spec

\* Only the sub-controllers write the spec of a workload, behind their gate.
LEMMA WrittenBehindGate ==
  ASSUME TypeOK, [Next]_vars, NEW c \in {"be", "cn"}, Written(c)
  PROVE  Gate(c)
<1> USE DEF Written
<1>1. CASE SyncEffect(Sub)
  <2>1. CASE UNCHANGED k8s
    BY <2>1 DEF k8s
  <2>2. CASE ClearCluster(Sub)
    BY <2>2, SubFact DEF ClearCluster, TypeOK, NoLoad, Comp
  <2>3. CASE Apply(Sub) /\ Gate(Sub)
    <3>1. Sub # c => load'[c] = load[c]
      BY <2>3, SubFact DEF Apply, TypeOK, Comp
    <3> QED BY <2>3, <3>1
  <2> QED BY <1>1, <2>1, <2>2, <2>3 DEF SyncEffect
<1>2. CASE SyncCluster \/ SyncClusterFails
  BY <1>1, <1>2 DEF SyncCluster, SyncClusterFails, k8s
<1>3. ASSUME NEW d \in Comp, DeleteWorkload(d) PROVE FALSE
  BY <1>3 DEF DeleteWorkload, TypeOK, NoLoad, Comp
<1>4. ASSUME NEW d \in Comp, WorkloadStatus(d) PROVE FALSE
  <2>1. load'[c].rev = load[c].rev
    BY <1>4 DEF WorkloadStatus, TypeOK, LoadType, Comp
  <2> QED BY <2>1
<1>5. ASSUME NEW d \in Comp, NEW i \in Pods(d), PodProgress(d, i) \/ PodFails(d, i) PROVE FALSE
  BY <1>5 DEF PodProgress, CreatePod, PodReady, RemovePod, PodFails, PodStep
<1>6. CASE ChangeSpec \/ SyncEndpoints \/ Begin \/ UpdateClusterStatus \/ FeStatefulSetMissing
           \/ RolloutStatusFails \/ UpdateClusterStatusFails \/ SaveStatus \/ PassLost \/ UNCHANGED vars
  BY <1>6 DEF ChangeSpec, SyncEndpoints, Begin, UpdateClusterStatus, FeStatefulSetMissing,
     RolloutStatusFails, UpdateClusterStatusFails, StatusError, SaveStatus, PassLost, k8s, vars
<1> QED BY <1>2, <1>3, <1>4, <1>5, <1>6 DEF Next, Operator

\* With WaitForFullRollout BE and CN are written only while the last observed
\* version of FE comes up and each FE pod is of it, unless FE is on its way
\* back to the version it came from: for all edits, however late FE's status
\* is, and whatever fails.
THEOREM GateCorrect == Spec => BehindOneGoodVersion
<1>1. TypeOK /\ Rollout /\ [Next]_vars =>
        [WaitForFullRollout /\ ~load["fe"].back /\ (Written("be") \/ Written("cn")) =>
           /\ load["fe"].seen \notin BadRevs
           /\ \A i \in Pods("fe") :
                pods["fe"][i].phase # "none" => pods["fe"][i].rev = load["fe"].seen]_vars
  <2> SUFFICES ASSUME TypeOK, Rollout, [Next]_vars, WaitForFullRollout, ~load["fe"].back,
                      NEW c \in {"be", "cn"}, Written(c)
               PROVE  /\ load["fe"].seen \notin BadRevs
                      /\ \A i \in Pods("fe") :
                           pods["fe"][i].phase # "none" => pods["fe"][i].rev = load["fe"].seen
    OBVIOUS
  <2>1. CheckFEFullyRolledOut
    BY WrittenBehindGate DEF Gate
  <2>2. load["fe"].ready > 0
    BY <2>1, FeTypes, ConstantsAssumption DEF CheckFEFullyRolledOut, Comp
  <2> QED BY <2>1, <2>2 DEF CheckFEFullyRolledOut, Rollout
<1> QED BY <1>1, TypeCorrect, RolloutInvariant, PTL DEF Spec, BehindOneGoodVersion
=============================================================================
