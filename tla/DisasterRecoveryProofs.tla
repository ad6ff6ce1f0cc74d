----------------------- MODULE DisasterRecoveryProofs -----------------------
(***************************************************************************)
(* Theorems about DisasterRecovery for every set of generations, number of *)
(* replicas and bound.                                                     *)
(***************************************************************************)
EXTENDS DisasterRecovery, TLAPS

Working == {"fe", "be", "cn", "save"}

\* The reconcile has a copy of the resource whenever it works.
CopyOK == pc \in Working => src \in ResourceType

TypeInv == TypeOK /\ CopyOK

LEMMA NoCopyNoStatus ==
  /\ NoCopy \notin ResourceType
  /\ NoStatus \in StatusType
  /\ Absent \in PodType
BY DEF NoCopy, ResourceType, NoStatus, StatusType, Absent, PodType, SpecType

\* What SyncCluster of the FE computes is well typed.
LEMMA EnterTypes ==
  ASSUME NEW r \in ResourceType, NEW view
  PROVE  /\ OpenedStatus(r) \in StatusType \ {NoStatus}
         /\ ShouldEnterDisasterRecoveryMode(r) \in BOOLEAN
         /\ EnterDisasterRecoveryMode(r, view) \in StatusType \ {NoStatus}
         /\ StatusAfterEnter(r, view) \in StatusType
         /\ ExpectedStatefulSet(r) \in StsType
  <1> USE ConstantsAssumption DEF ResourceType, SpecType, StatusType, NoStatus, NoGen
  <1>1. OpenedStatus(r) \in StatusType \ {NoStatus}
    BY DEF OpenedStatus, NewDisasterRecoveryStatus
  <1>2. ShouldEnterDisasterRecoveryMode(r) \in BOOLEAN
    BY DEF ShouldEnterDisasterRecoveryMode
  <1>3. EnterDisasterRecoveryMode(r, view) \in StatusType \ {NoStatus}
    BY <1>1 DEF EnterDisasterRecoveryMode, NextPhase
  <1>4. StatusAfterEnter(r, view) \in StatusType
    BY <1>3 DEF StatusAfterEnter
  <1>5. ExpectedStatefulSet(r) \in StsType
    BY DEF ExpectedStatefulSet, rewriteStatefulSetForDisasterRecovery,
           NormalStatefulSet, StsType
  <1> QED BY <1>1, <1>2, <1>3, <1>4, <1>5

\* A status is told by its generation and phase.
LEMMA StatusOg ==
  ASSUME NEW s \in StatusType
  PROVE  s.og \in Int /\ s.phase \in {"none", "todo", "doing", "done"}
         /\ (s.phase = "none" <=> s.og = NoGen) /\ (s.phase = "none" => s = NoStatus)
         /\ \A t \in StatusType : s.og = t.og /\ s.phase = t.phase => s = t
  <1>1. CASE s = NoStatus
    BY <1>1, ConstantsAssumption DEF NoStatus, NoGen, StatusType
  <1>2. CASE s \in [phase : {"todo", "doing", "done"}, og : Generations]
    <2>1. s.og \in Nat /\ s.phase \in {"todo", "doing", "done"}
      BY <1>2, ConstantsAssumption
    <2>2. \A t \in StatusType : s.og = t.og /\ s.phase = t.phase => s = t
      BY <1>2, <2>1 DEF StatusType, NoStatus, NoGen
    <2> QED BY <2>1, <2>2 DEF NoGen
  <1> QED BY <1>1, <1>2 DEF StatusType

LEMMA InitType == Init => TypeInv
  <1> SUFFICES ASSUME Init PROVE TypeInv
    OBVIOUS
  <1>1. api \in ResourceType /\ cache \in ResourceType
    BY NoCopyNoStatus DEF Init, ResourceType
  <1>2. sts \in StsType
    BY ConstantsAssumption DEF Init, StsType
  <1>3. pods \in [Ordinals -> PodType] /\ podCache \in [Ordinals -> PodType]
    BY NoCopyNoStatus DEF Init
  <1>4. edits \in 0 .. MaxEdits /\ faults \in 0 .. MaxFaults
    BY ConstantsAssumption DEF Init
  <1> QED BY <1>1, <1>2, <1>3, <1>4 DEF Init, TypeInv, TypeOK, CopyOK, Working

LEMMA NextType == TypeInv /\ [Next]_vars => TypeInv'
  <1> SUFFICES ASSUME TypeInv, [Next]_vars PROVE TypeInv'
    OBVIOUS
  <1> USE ConstantsAssumption DEF TypeInv, TypeOK, CopyOK, Working, k8s, history
  <1>1. CASE UserEdit
    <2>1. api.spec.enabled \in BOOLEAN /\ api.spec.snapshot \in BOOLEAN
      BY DEF ResourceType, SpecType
    <2>2. api' \in ResourceType
      <3>1. CASE api' = [api EXCEPT !.spec.enabled = ~@]
        BY <2>1, <3>1 DEF ResourceType, SpecType
      <3>2. CASE api' = [api EXCEPT !.spec.snapshot = ~@]
        BY <2>1, <3>2 DEF ResourceType, SpecType
      <3>3. CASE \E g \in Generations : api' = [api EXCEPT !.spec.generation = g]
        BY <3>3 DEF ResourceType, SpecType
      <3>4. CASE \E n \in 1 .. MaxReplicas : api' = [api EXCEPT !.spec.replicas = n]
        BY <3>4 DEF ResourceType, SpecType
      <3> QED BY <1>1, <3>1, <3>2, <3>3, <3>4 DEF UserEdit
    <2>3. edits' \in 0 .. MaxEdits
      BY <1>1 DEF UserEdit
    <2> QED BY <1>1, <2>2, <2>3 DEF UserEdit
  <1>2. CASE CacheSync
    BY <1>2 DEF CacheSync
  <1>3. CASE PodCacheSync
    BY <1>3 DEF PodCacheSync
  <1>4. CASE BeginReconcile
    BY <1>4 DEF BeginReconcile
  <1>5. CASE FeConfigFails
    BY <1>5 DEF FeConfigFails, Fault
  <1>6. CASE FeSnapshotMissing
    <2>1. src \in ResourceType
      BY <1>6 DEF FeSnapshotMissing
    <2>2. src' \in ResourceType
      BY <1>6, <2>1, EnterTypes DEF FeSnapshotMissing, ResourceType
    <2> QED BY <1>6, <2>2 DEF FeSnapshotMissing
  <1>7. CASE FeApply
    <2>1. src \in ResourceType
      BY <1>7 DEF FeApply
    <2>2. src' \in ResourceType
      BY <1>7, <2>1, EnterTypes DEF FeApply, ResourceType
    <2>3. sts' \in StsType
      BY <1>7, <2>1, EnterTypes DEF FeApply
    <2>4. finished' \subseteq Generations
      BY <1>7, <2>1 DEF FeApply, ResourceType, StatusType, NoStatus
    <2>5. faults' \in 0 .. MaxFaults /\ pc' \in Working
      BY <1>7 DEF FeApply, Fault
    <2> QED BY <1>7, <2>2, <2>3, <2>4, <2>5 DEF FeApply
  <1>8. CASE FeApplyFails
    <2>1. src \in ResourceType
      BY <1>8 DEF FeApplyFails
    <2>2. src' \in ResourceType
      BY <1>8, <2>1, EnterTypes DEF FeApplyFails, ResourceType
    <2> QED BY <1>8, <2>2 DEF FeApplyFails, Fault
  <1>9. CASE SyncBe
    <2>1. released' \subseteq {"be", "cn", "unread"}
      BY <1>9 DEF SyncBe
    <2>2. faults' \in 0 .. MaxFaults
      BY <1>9 DEF SyncBe, Fault
    <2> QED BY <1>9, <2>1, <2>2 DEF SyncBe
  <1>10. CASE SyncCn
    BY <1>10 DEF SyncCn
  <1>11. CASE SaveStatus
    <2>1. api' \in ResourceType
      BY <1>11 DEF SaveStatus, ResourceType
    <2>2. regressed' \in BOOLEAN
      BY <1>11 DEF SaveStatus
    <2> QED BY <1>11, <2>1, <2>2 DEF SaveStatus, EndReconcile
  <1>12. CASE SaveStatusFails
    BY <1>12 DEF SaveStatusFails, EndReconcile, Fault
  <1>13. CASE Crash
    BY <1>13 DEF Crash, EndReconcile, Fault
  <1>14. ASSUME NEW o \in Ordinals,
                CreatePod(o) \/ DeletePod(o) \/ PodReady(o) \/ PodUnready(o)
         PROVE  TypeInv'
    <2>1. pods[o] \in PodType
      OBVIOUS
    <2>2. CASE CreatePod(o)
      <3>1. [exists |-> TRUE, ready |-> FALSE, generation |-> sts.generation] \in PodType
        BY DEF PodType, StsType
      <3> QED BY <2>2, <3>1 DEF CreatePod
    <2>3. CASE DeletePod(o)
      BY <2>3, NoCopyNoStatus DEF DeletePod
    <2>4. CASE PodReady(o)
      <3>1. [pods[o] EXCEPT !.ready = TRUE] \in PodType
        BY <2>1, <2>4 DEF PodReady, PodType, Absent
      <3>2. restored' \subseteq Generations
        BY <2>1, <2>4 DEF PodReady, PodType, Absent
      <3>3. pods' \in [Ordinals -> PodType]
        BY <2>4, <3>1 DEF PodReady
      <3> QED BY <2>4, <3>2, <3>3 DEF PodReady
    <2>5. CASE PodUnready(o)
      <3>1. [pods[o] EXCEPT !.ready = FALSE] \in PodType
        BY <2>1, <2>5 DEF PodUnready, PodType, Absent
      <3>2. pods' \in [Ordinals -> PodType]
        BY <2>5, <3>1 DEF PodUnready
      <3> QED BY <2>5, <3>2 DEF PodUnready, Fault
    <2> QED BY <1>14, <2>2, <2>3, <2>4, <2>5
  <1>15. CASE UNCHANGED vars
    BY <1>15 DEF vars
  <1> QED
    BY <1>1, <1>2, <1>3, <1>4, <1>5, <1>6, <1>7, <1>8, <1>9, <1>10, <1>11,
       <1>12, <1>13, <1>14, <1>15 DEF Next, Reconcile, Kubernetes

LEMMA TypeInvariant == Spec => []TypeInv
  <1>1. Init => TypeInv
    BY InitType
  <1>2. TypeInv /\ [Next]_vars => TypeInv'
    BY NextType
  <1> QED BY <1>1, <1>2, PTL DEF Spec

\* Every reachable state of the recovery is well typed, for any generations,
\* replicas and bounds.
THEOREM TypeCorrect == Spec => []TypeOK
  <1>1. TypeInv => TypeOK
    BY DEF TypeInv
  <1> QED BY <1>1, TypeInvariant, PTL

-----------------------------------------------------------------------------
(***************************************************************************)
(* One FE pod restores: the StatefulSet has one replica whenever its       *)
(* template holds the restore environment.                                 *)
(***************************************************************************)
OneRestoringInv ==
  /\ sts.generation # NoGen => sts.replicas = 1
  /\ OneRestoringFe

\* No interleaving of user edits, reconciles, crashes and pod schedules gives
\* the restore environment to a second FE pod.
THEOREM OneRestoringCorrect == Spec => []OneRestoringFe
  <1>1. Init => OneRestoringInv
    BY ConstantsAssumption DEF Init, OneRestoringInv, OneRestoringFe, Absent
  <1>2. TypeInv /\ OneRestoringInv /\ [Next]_vars => OneRestoringInv'
    <2> SUFFICES ASSUME TypeInv, OneRestoringInv, [Next]_vars
                 PROVE  OneRestoringInv'
      OBVIOUS
    <2> USE ConstantsAssumption DEF OneRestoringInv, OneRestoringFe, k8s, history
    <2>1. CASE FeApply
      <3>1. sts'.generation # NoGen => sts'.replicas = 1
        BY <2>1 DEF FeApply, ExpectedStatefulSet, NormalStatefulSet,
                    rewriteStatefulSetForDisasterRecovery
      <3> QED BY <2>1, <3>1 DEF FeApply
    <2>2. ASSUME NEW o \in Ordinals, CreatePod(o)
          PROVE  OneRestoringInv'
      <3>1. sts.generation # NoGen => o = 0
        BY <2>2 DEF CreatePod, Ordinals
      <3>2. pods \in [Ordinals -> PodType]
        BY DEF TypeInv, TypeOK
      <3> QED BY <2>2, <3>1, <3>2 DEF CreatePod
    <2>3. ASSUME NEW o \in Ordinals, DeletePod(o)
          PROVE  OneRestoringInv'
      BY <2>3 DEF DeletePod, TypeInv, TypeOK, Absent
    <2>4. ASSUME NEW o \in Ordinals, PodReady(o) \/ PodUnready(o)
          PROVE  OneRestoringInv'
      BY <2>4 DEF PodReady, PodUnready, TypeInv, TypeOK, PodType
    <2>5. CASE UNCHANGED <<sts, pods>>
      BY <2>5
    <2>6. \/ FeApply
          \/ \E o \in Ordinals : CreatePod(o)
          \/ \E o \in Ordinals : DeletePod(o)
          \/ \E o \in Ordinals : PodReady(o) \/ PodUnready(o)
          \/ UNCHANGED <<sts, pods>>
      BY DEF Next, Reconcile, Kubernetes, vars, UserEdit, CacheSync, PodCacheSync,
             BeginReconcile, FeConfigFails, FeSnapshotMissing, FeApplyFails, SyncBe,
             SyncCn, SaveStatus, SaveStatusFails, Crash
    <2> QED BY <2>1, <2>2, <2>3, <2>4, <2>5, <2>6
  <1>3. OneRestoringInv => OneRestoringFe
    BY DEF OneRestoringInv
  <1> QED BY <1>1, <1>2, <1>3, TypeInvariant, PTL DEF Spec

\* ApplyStatefulSet takes an FE from several replicas to one only together
\* with the restore environment.
THEOREM ScaleGuardCorrect == Spec => ScaledTo1OnlyForRecovery
  <1>1. TypeInv /\ [Next]_vars
          => [sts.replicas > 1 /\ sts'.replicas = 1 => sts'.generation # NoGen]_sts
    <2> SUFFICES ASSUME TypeInv, [Next]_vars, sts' # sts,
                        sts.replicas > 1, sts'.replicas = 1
                 PROVE  sts'.generation # NoGen
      OBVIOUS
    <2>1. FeApply
      BY DEF Next, Reconcile, Kubernetes, vars, k8s, history, UserEdit, CacheSync,
             PodCacheSync, BeginReconcile, FeConfigFails, FeSnapshotMissing,
             FeApplyFails, SyncBe, SyncCn, SaveStatus, SaveStatusFails, Crash,
             CreatePod, DeletePod, PodReady, PodUnready
    <2>2. src.spec.generation \in Nat
      BY <2>1, ConstantsAssumption
         DEF FeApply, TypeInv, TypeOK, CopyOK, Working, ResourceType, SpecType
    <2> QED
      BY <2>1, <2>2 DEF FeApply, ScaleTo1Refused, ExpectedStatefulSet, NormalStatefulSet,
                        rewriteStatefulSetForDisasterRecovery, NoGen
  <1> QED BY <1>1, TypeInvariant, PTL DEF Spec, ScaledTo1OnlyForRecovery

-----------------------------------------------------------------------------
(***************************************************************************)
(* Done means restored.  The invariant carries the fact through every copy *)
(* of the status (API server, cache, reconcile) and of the pods.           *)
(***************************************************************************)
NoCollision == UserEnvValues \cap Generations = {}

DoneOK(status) == status.phase = "done" => status.og \in restored

ViewOK(view) ==
  \A o \in Ordinals :
    view[o].ready /\ view[o].generation # NoGen => view[o].generation \in restored

RestoreInv ==
  /\ DoneOK(api.status)
  /\ DoneOK(cache.status)
  /\ pc \in Working => DoneOK(src.status)
  /\ ViewOK(pods)
  /\ ViewOK(podCache)

\* A sync that sets phase done has seen a pod of this very generation ready.
LEMMA EnterDone ==
  ASSUME NoCollision, NEW r \in ResourceType, NEW view \in [Ordinals -> PodType],
         ViewOK(view), DoneOK(r.status)
  PROVE  DoneOK(StatusAfterEnter(r, view))
  <1> DEFINE g == r.spec.generation
             opened == OpenedStatus(r)
             ready == CheckFEReadyInDisasterRecovery(view, g)
  <1> USE DEF DoneOK
  <1>1. SUFFICES ASSUME ShouldEnterDisasterRecoveryMode(r),
                        EnterDisasterRecoveryMode(r, view).phase = "done"
                 PROVE  EnterDisasterRecoveryMode(r, view).og \in restored
    BY DEF StatusAfterEnter
  <1>2. opened \in StatusType \ {NoStatus} /\ g \in Generations
    BY EnterTypes DEF ResourceType, SpecType
  <1>3. EnterDisasterRecoveryMode(r, view).og = opened.og
    BY <1>2 DEF EnterDisasterRecoveryMode, StatusType, NoStatus
  <1>4. NextPhase(opened.phase, ready) = "done"
    BY <1>1, <1>2 DEF EnterDisasterRecoveryMode, StatusType, NoStatus
  <1>5. CASE opened.phase = "doing" /\ ready
    <2>1. opened.og = g
      BY <1>1, <1>5, ConstantsAssumption
         DEF OpenedStatus, NewDisasterRecoveryStatus, ShouldEnterDisasterRecoveryMode,
             ResourceType, SpecType, StatusType, NoStatus, NoGen
    <2>2. PICK o \in Ordinals : view[o].exists
      BY <1>5 DEF CheckFEReadyInDisasterRecovery
    <2>3. HasExpectedGeneration(view[o], g) /\ view[o].ready
      BY <1>5, <2>2 DEF CheckFEReadyInDisasterRecovery
    <2>4. view[o].generation = g
      BY <1>2, <2>3 DEF HasExpectedGeneration, NoCollision
    <2>5. g # NoGen
      BY <1>2, ConstantsAssumption DEF NoGen
    <2>6. g \in restored
      BY <2>3, <2>4, <2>5 DEF ViewOK
    <2> QED BY <1>3, <2>1, <2>6
  <1>6. CASE opened.phase = "done"
    <2>1. opened = r.status
      BY <1>6 DEF OpenedStatus, NewDisasterRecoveryStatus
    <2> QED BY <1>3, <1>6, <2>1
  <1>7. (opened.phase = "doing" /\ ready) \/ opened.phase = "done"
    BY <1>2, <1>4 DEF NextPhase, StatusType, NoStatus
  <1> QED BY <1>5, <1>6, <1>7

LEMMA RestoreInvInit == Init => RestoreInv
  BY DEF Init, RestoreInv, DoneOK, ViewOK, Working, NoStatus, Absent

LEMMA RestoreInvNext ==
  ASSUME NoCollision, TypeInv, RestoreInv, [Next]_vars
  PROVE  RestoreInv'
  <1> USE DEF RestoreInv, DoneOK, Working, k8s, history
  <1>1. CASE UserEdit
    <2>1. api'.status = api.status
      BY <1>1 DEF UserEdit, TypeInv, TypeOK, ResourceType
    <2> QED BY <1>1, <2>1 DEF UserEdit, ViewOK
  <1>2. CASE CacheSync
    BY <1>2 DEF CacheSync, ViewOK
  <1>3. CASE PodCacheSync
    BY <1>3 DEF PodCacheSync, ViewOK
  <1>4. CASE BeginReconcile
    BY <1>4 DEF BeginReconcile, ViewOK
  <1>5. CASE FeConfigFails
    BY <1>5 DEF FeConfigFails, ViewOK
  <1>6. CASE FeSnapshotMissing
    <2>1. src \in ResourceType
      BY <1>6 DEF FeSnapshotMissing, TypeInv, CopyOK
    <2>2. src'.status.phase = "todo"
      BY <1>6, <2>1 DEF FeSnapshotMissing, SnapshotConfMissing, ResourceType
    <2> QED BY <1>6, <2>2 DEF FeSnapshotMissing, ViewOK
  <1>7. CASE FeApply \/ FeApplyFails
    <2>1. src \in ResourceType /\ pc \in Working /\ podCache \in [Ordinals -> PodType]
      BY <1>7 DEF FeApply, FeApplyFails, TypeInv, TypeOK, CopyOK
    <2>2. src'.status = StatusAfterEnter(src, podCache)
      BY <1>7, <2>1 DEF FeApply, FeApplyFails, ResourceType
    <2>3. DoneOK(StatusAfterEnter(src, podCache))
      BY <2>1, EnterDone
    <2> QED BY <1>7, <2>2, <2>3 DEF FeApply, FeApplyFails, ViewOK
  <1>8. CASE SyncBe \/ SyncCn
    BY <1>8 DEF SyncBe, SyncCn, ViewOK
  <1>9. CASE SaveStatus
    <2>1. api'.status = src.status /\ pc \in Working
      BY <1>9 DEF SaveStatus, TypeInv, TypeOK, ResourceType
    <2> QED BY <1>9, <2>1 DEF SaveStatus, EndReconcile, ViewOK
  <1>10. CASE SaveStatusFails \/ Crash
    BY <1>10 DEF SaveStatusFails, Crash, EndReconcile, ViewOK
  <1>11. ASSUME NEW o \in Ordinals, CreatePod(o) \/ DeletePod(o) \/ PodUnready(o)
         PROVE  RestoreInv'
    <2>1. pods \in [Ordinals -> PodType]
      BY DEF TypeInv, TypeOK
    <2>2. \A p \in Ordinals : pods'[p].ready => pods'[p] = pods[p]
      BY <1>11, <2>1 DEF CreatePod, DeletePod, PodUnready, Absent, PodType
    <2>3. UNCHANGED <<api, cache, pc, src, podCache, restored>>
      BY <1>11 DEF CreatePod, DeletePod, PodUnready
    <2> QED BY <2>2, <2>3 DEF ViewOK
  <1>12. ASSUME NEW o \in Ordinals, PodReady(o)
         PROVE  RestoreInv'
    <2>1. pods \in [Ordinals -> PodType]
      BY DEF TypeInv, TypeOK
    <2>2. /\ restored \subseteq restored'
          /\ pods[o].generation # NoGen => pods[o].generation \in restored'
      BY <1>12 DEF PodReady
    <2>3. /\ \A p \in Ordinals \ {o} : pods'[p] = pods[p]
          /\ pods'[o].generation = pods[o].generation
      BY <1>12, <2>1 DEF PodReady, PodType
    <2>4. UNCHANGED <<api, cache, pc, src, podCache>>
      BY <1>12 DEF PodReady
    <2> QED BY <2>2, <2>3, <2>4 DEF ViewOK
  <1>13. CASE UNCHANGED vars
    BY <1>13 DEF vars, ViewOK
  <1> QED
    BY <1>1, <1>2, <1>3, <1>4, <1>5, <1>6, <1>7, <1>8, <1>9, <1>10, <1>11, <1>12,
       <1>13 DEF Next, Reconcile, Kubernetes

\* If no environment value of the user's FE specification is a numeral the
\* user also gives to generation, phase done is recorded only for a generation
\* that an FE pod restored: with stale caches, lost status updates, failed
\* calls, edits during the recovery and crashes at any step.
THEOREM DoneMeansRestoredCorrect ==
  ASSUME NoCollision
  PROVE  Spec => []DoneMeansRestored
  <1>1. Init => RestoreInv
    BY RestoreInvInit
  <1>2. TypeInv /\ RestoreInv /\ [Next]_vars => RestoreInv'
    BY RestoreInvNext
  <1>3. RestoreInv => DoneMeansRestored
    BY DEF RestoreInv, DoneOK, DoneMeansRestored
  <1> QED BY <1>1, <1>2, <1>3, TypeInvariant, PTL DEF Spec

-----------------------------------------------------------------------------
\* A resource that does not ask for the recovery mode, although recovery is
\* enabled, is one whose generation was restored or is behind.
LEMMA NotEnteredMeansRestored ==
  ASSUME NEW r \in ResourceType, DoneOK(r.status),
         ~ShouldEnterDisasterRecoveryMode(r), r.spec.sharedData, r.spec.enabled
  PROVE  \/ r.spec.generation < r.status.og
         \/ r.spec.generation = r.status.og /\ r.spec.generation \in restored
  <1>1. /\ r.status # NoStatus
        /\ ~(r.spec.generation > r.status.og)
        /\ ~(r.spec.generation = r.status.og /\ r.status.phase # "done")
    BY Zenon DEF ShouldEnterDisasterRecoveryMode
  <1>2. r.spec.generation \in Nat /\ r.status.og \in Nat
    BY <1>1, ConstantsAssumption DEF ResourceType, SpecType, StatusType, NoStatus
  <1> QED BY <1>1, <1>2 DEF DoneOK

LEMMA NotBelowItself ==
  ASSUME NEW r \in ResourceType, r.status.og = r.spec.generation
  PROVE  ~(r.spec.generation < r.status.og)
  <1>1. r.spec.generation \in Nat
    BY ConstantsAssumption DEF ResourceType, SpecType
  <1> QED BY <1>1

(* The sync of FE leaves its template and the status in step: the restore    *)
(* environment is that of the generation asked for, which is observed by     *)
(* then.  BE and CN judge this status, and nothing changes it before the     *)
(* reconcile ends.                                                           *)
InStep ==
  pc \in {"be", "cn"} =>
    \/ sts.generation = NoGen
    \/ /\ sts.generation = src.spec.generation
       /\ src.status.og = src.spec.generation
       /\ src.spec.sharedData /\ src.spec.enabled

PausedInv ==
  /\ InStep
  /\ "be" \in released => pc \in {"cn", "save"}
  /\ "cn" \in released => pc = "save"
  /\ CnPausedDuringRecovery
  /\ BePausedDuringRecovery

\* What SyncBe and SyncCn let through is in order.
LEMMA NotEnteredMeansPaused ==
  ASSUME TypeInv, RestoreInv, InStep, pc \in {"be", "cn"},
         ~ShouldEnterDisasterRecoveryMode(src)
  PROVE  /\ sts.generation \in restored \cup {NoGen}
         /\ src.spec.sharedData /\ src.spec.enabled =>
              \/ src.spec.generation \in restored
              \/ src.spec.generation < src.status.og /\ sts.generation = NoGen
  <1>1. src \in ResourceType /\ DoneOK(src.status)
    BY DEF TypeInv, CopyOK, RestoreInv, Working
  <1>2. CASE sts.generation = NoGen
    <2>1. SUFFICES ASSUME src.spec.sharedData, src.spec.enabled
                   PROVE  src.spec.generation \in restored \/ src.spec.generation < src.status.og
      BY <1>2
    <2> QED BY <1>1, <2>1, NotEnteredMeansRestored
  <1>3. CASE sts.generation # NoGen
    <2>1. /\ sts.generation = src.spec.generation /\ src.status.og = src.spec.generation
          /\ src.spec.sharedData /\ src.spec.enabled
      BY <1>3 DEF InStep
    <2>2. ~(src.spec.generation < src.status.og)
      BY <1>1, <2>1, NotBelowItself
    <2>3. src.spec.generation \in restored
      BY <1>1, <2>1, <2>2, NotEnteredMeansRestored
    <2> QED BY <2>1, <2>3
  <1> QED BY <1>2, <1>3

\* The sync of FE puts template and status in step.
LEMMA EnterInStep ==
  ASSUME NEW r \in ResourceType, NEW view
  PROVE  \/ ExpectedStatefulSet(r).generation = NoGen
         \/ /\ ExpectedStatefulSet(r).generation = r.spec.generation
            /\ StatusAfterEnter(r, view).og = r.spec.generation
            /\ r.spec.sharedData /\ r.spec.enabled
  <1>1. CASE ShouldEnterDisasterRecoveryMode(r)
    <2>1. OpenedStatus(r).og = r.spec.generation /\ r.spec.sharedData /\ r.spec.enabled
      BY <1>1, ConstantsAssumption
         DEF OpenedStatus, NewDisasterRecoveryStatus, ShouldEnterDisasterRecoveryMode,
             ResourceType, SpecType, StatusType, NoStatus, NoGen
    <2>2. OpenedStatus(r) \in StatusType \ {NoStatus}
      BY EnterTypes
    <2>3. EnterDisasterRecoveryMode(r, view).og = OpenedStatus(r).og
      BY <2>2 DEF EnterDisasterRecoveryMode, StatusType, NoStatus
    <2> QED
      BY <1>1, <2>1, <2>3 DEF StatusAfterEnter, ExpectedStatefulSet,
                              rewriteStatefulSetForDisasterRecovery
  <1>2. CASE ~ShouldEnterDisasterRecoveryMode(r)
    BY <1>2 DEF ExpectedStatefulSet, NormalStatefulSet
  <1> QED BY <1>1, <1>2

LEMMA PausedInvNext ==
  ASSUME TypeInv, RestoreInv, PausedInv, [Next]_vars
  PROVE  PausedInv'
  <1> USE DEF PausedInv, InStep, CnPausedDuringRecovery, BePausedDuringRecovery,
              PausedDuringRecovery, k8s, history
  <1>1. CASE FeApply
    <2>1. src \in ResourceType /\ {"be", "cn"} \cap released = {}
      BY <1>1 DEF FeApply, TypeInv, CopyOK, Working
    <2>2. /\ src'.spec = src.spec
          /\ src'.status = StatusAfterEnter(src, podCache)
          /\ sts' = ExpectedStatefulSet(src)
          /\ released' = released
      BY <1>1, <2>1 DEF FeApply, ResourceType
    <2> QED BY <2>1, <2>2, EnterInStep
  <1>2. CASE SyncBe
    <2>1. pc = "be" /\ "cn" \notin released /\ "be" \notin released
      BY <1>2 DEF SyncBe
    <2>2. "be" \in released' => ~ShouldEnterDisasterRecoveryMode(src)
      BY <1>2, <2>1 DEF SyncBe
    <2>3. "cn" \notin released' /\ pc' = "cn" /\ UNCHANGED <<src, sts, restored>>
      BY <1>2, <2>1 DEF SyncBe
    <2> QED BY <2>1, <2>2, <2>3, NotEnteredMeansPaused
  <1>3. CASE SyncCn
    <2>1. pc = "cn" /\ "cn" \notin released
      BY <1>3 DEF SyncCn
    <2>2. "cn" \in released' => ~ShouldEnterDisasterRecoveryMode(src)
      BY <1>3, <2>1 DEF SyncCn
    <2>3. /\ "be" \in released' => "be" \in released
          /\ pc' = "save" /\ UNCHANGED <<src, sts, restored>>
      BY <1>3 DEF SyncCn
    <2> QED BY <2>1, <2>2, <2>3, NotEnteredMeansPaused
  <1>4. CASE BeginReconcile \/ FeConfigFails \/ FeSnapshotMissing \/ FeApplyFails
    <2>1. {"be", "cn"} \cap released' = {} /\ pc' \in {"fe", "save"}
      BY <1>4 DEF BeginReconcile, FeConfigFails, FeSnapshotMissing, FeApplyFails
    <2> QED BY <2>1
  <1>5. CASE SaveStatus \/ SaveStatusFails \/ Crash
    BY <1>5 DEF SaveStatus, SaveStatusFails, Crash, EndReconcile
  <1>6. CASE UserEdit \/ CacheSync \/ PodCacheSync \/ Kubernetes \/ UNCHANGED vars
    <2>1. UNCHANGED <<pc, src, sts, released>> /\ restored \subseteq restored'
      BY <1>6 DEF UserEdit, CacheSync, PodCacheSync, Kubernetes, CreatePod, DeletePod,
                  PodReady, PodUnready, vars
    <2> QED BY <2>1
  <1> QED BY <1>1, <1>2, <1>3, <1>4, <1>5, <1>6 DEF Next, Reconcile

LEMMA PausedInvariant ==
  ASSUME NoCollision
  PROVE  Spec => []PausedInv
  <1>1. Init => RestoreInv /\ PausedInv
    BY RestoreInvInit DEF Init, PausedInv, InStep, CnPausedDuringRecovery,
                          BePausedDuringRecovery, PausedDuringRecovery
  <1>2. TypeInv /\ RestoreInv /\ PausedInv /\ [Next]_vars => RestoreInv' /\ PausedInv'
    BY RestoreInvNext, PausedInvNext
  <1> QED BY <1>1, <1>2, TypeInvariant, PTL DEF Spec

\* While CN is deployed FE is not restarted for a snapshot still to be restored,
\* and the recovery asked for is either restored or given up with FE back to its
\* normal template: whatever is edited, stale, lost or crashes.
THEOREM CnPausedCorrect ==
  ASSUME NoCollision
  PROVE  Spec => []CnPausedDuringRecovery
  <1>1. PausedInv => CnPausedDuringRecovery
    BY DEF PausedInv
  <1> QED BY <1>1, PausedInvariant, PTL

\* The same of BE, in every sync that got to read FE's configuration.
THEOREM BePausedCorrect ==
  ASSUME NoCollision
  PROVE  Spec => []BePausedDuringRecovery
  <1>1. PausedInv => BePausedDuringRecovery
    BY DEF PausedInv
  <1> QED BY <1>1, PausedInvariant, PTL

-----------------------------------------------------------------------------
(***************************************************************************)
(* A finished recovery is not repeated before an old copy overwrites the   *)
(* recorded status: until then the copies are ordered by their age, from   *)
(* the one a reconcile has read over the cache to the API server, and each *)
(* of them covers what is finished.                                        *)
(***************************************************************************)
Covers(status, g) ==
  status.og > g \/ (status.og = g /\ status.phase = "done")

CopiesOrdered ==
  /\ ~Older(api.status, cache.status)
  /\ pc = "fe" => ~Older(cache.status, src.status)

FinishedCovered ==
  \A g \in finished :
    /\ Covers(api.status, g)
    /\ Covers(cache.status, g)
    /\ pc \in Working => Covers(src.status, g)

FinishedInv == ~regressed => CopiesOrdered /\ FinishedCovered /\ RecoveryNotRepeated

\* The age of statuses is a total order, and a later one covers what an earlier
\* one covers.
LEMMA OlderOrder ==
  ASSUME NEW s \in StatusType, NEW t \in StatusType, NEW u \in StatusType
  PROVE  /\ ~Older(s, s)
         /\ ~Older(s, t) /\ ~Older(t, u) => ~Older(s, u)
         /\ Older(s, t) \/ Older(t, s) \/ s = t
         /\ \A g \in Int : Covers(t, g) /\ ~Older(s, t) => Covers(s, g)
  <1> USE StatusOg DEF Older
  <1>1. ~Older(s, s)
    OBVIOUS
  <1>2. ~Older(s, t) /\ ~Older(t, u) => ~Older(s, u)
    OBVIOUS
  <1>3. Older(s, t) \/ Older(t, s) \/ s = t
    BY DEF NoGen
  <1>4. \A g \in Int : Covers(t, g) /\ ~Older(s, t) => Covers(s, g)
    BY DEF Covers, NoGen
  <1> QED BY <1>1, <1>2, <1>3, <1>4

\* The recovery part of the FE sync never takes the status behind a finished
\* generation, and never asks for the template of one.
LEMMA EnterCovers ==
  ASSUME NEW r \in ResourceType, NEW view, NEW g \in Generations, Covers(r.status, g)
  PROVE  /\ Covers(OpenedStatus(r), g)
         /\ Covers(StatusAfterEnter(r, view), g)
         /\ ExpectedStatefulSet(r).generation # g
  <1> DEFINE opened == OpenedStatus(r)
  <1>0. r.status \in StatusType \ {NoStatus} /\ r.status.og \in Nat
        /\ r.spec.generation \in Nat /\ g \in Nat
    <2>1. r.spec.generation \in Nat /\ g \in Nat /\ r.status \in StatusType
      BY ConstantsAssumption DEF ResourceType, SpecType
    <2>2. r.status # NoStatus
      BY <2>1 DEF Covers, NoStatus, NoGen
    <2>3. r.status.og \in Nat
      BY <2>1, <2>2, ConstantsAssumption DEF StatusType
    <2> QED BY <2>1, <2>2, <2>3
  <1> USE <1>0 DEF Covers
  <1>1. Covers(opened, g)
    BY DEF OpenedStatus, NewDisasterRecoveryStatus
  <1>2. opened \in StatusType \ {NoStatus}
    BY EnterTypes
  <1>3. /\ EnterDisasterRecoveryMode(r, view).og = opened.og
        /\ opened.phase = "done" => EnterDisasterRecoveryMode(r, view).phase = "done"
    BY <1>2 DEF EnterDisasterRecoveryMode, NextPhase, StatusType, NoStatus
  <1>4. Covers(EnterDisasterRecoveryMode(r, view), g)
    BY <1>1, <1>2, <1>3
  <1>5. Covers(StatusAfterEnter(r, view), g)
    BY <1>4 DEF StatusAfterEnter
  <1>6. ExpectedStatefulSet(r).generation # g
    BY DEF ExpectedStatefulSet, rewriteStatefulSetForDisasterRecovery, NormalStatefulSet,
           ShouldEnterDisasterRecoveryMode, NoGen
  <1> QED BY <1>1, <1>5, <1>6

LEMMA FinishedInvInit == Init => FinishedInv
  <1> SUFFICES ASSUME Init PROVE FinishedInv
    OBVIOUS
  <1>1. cache = api /\ pc = "idle" /\ finished = {} /\ api.status = NoStatus
    BY DEF Init
  <1>2. ~Older(NoStatus, NoStatus)
    BY DEF Older, NoStatus, NoGen
  <1> QED BY <1>1, <1>2 DEF FinishedInv, CopiesOrdered, FinishedCovered, RecoveryNotRepeated

LEMMA FinishedInvNext ==
  ASSUME TypeInv, FinishedInv, [Next]_vars
  PROVE  FinishedInv'
  <1> SUFFICES ASSUME ~regressed' PROVE (CopiesOrdered /\ FinishedCovered /\ RecoveryNotRepeated)'
    BY DEF FinishedInv
  <1> USE DEF CopiesOrdered, FinishedCovered, Working, RecoveryNotRepeated, k8s, history
  <1>0. /\ ~regressed /\ CopiesOrdered /\ FinishedCovered /\ RecoveryNotRepeated
        /\ finished \subseteq Generations /\ Generations \subseteq Int
        /\ api.status \in StatusType /\ cache.status \in StatusType
        /\ pc \in Working => src \in ResourceType /\ src.status \in StatusType
    <2>1. ~regressed
      BY DEF Next, Reconcile, Kubernetes, vars, UserEdit, CacheSync, PodCacheSync,
             BeginReconcile, FeConfigFails, FeSnapshotMissing, FeApply, FeApplyFails, SyncBe,
             SyncCn, SaveStatus, SaveStatusFails, Crash, CreatePod, DeletePod, PodReady,
             PodUnready
    <2> QED BY <2>1, ConstantsAssumption DEF FinishedInv, TypeInv, TypeOK, CopyOK, ResourceType
  <1>1. CASE UserEdit
    <2>1. api'.status = api.status
      BY <1>1 DEF UserEdit, TypeInv, TypeOK, ResourceType
    <2> QED BY <1>0, <1>1, <2>1 DEF UserEdit, Covers, Older
  <1>2. CASE CacheSync
    <2>1. ~Older(api.status, api.status)
      BY <1>0, OlderOrder
    <2>2. pc = "fe" => ~Older(api.status, src.status)
      BY <1>0, OlderOrder
    <2> QED BY <1>0, <1>2, <2>1, <2>2 DEF CacheSync, Covers
  <1>3. CASE PodCacheSync \/ FeConfigFails \/ SyncBe \/ SyncCn
    BY <1>0, <1>3 DEF PodCacheSync, FeConfigFails, SyncBe, SyncCn, Covers, Older
  <1>4. CASE BeginReconcile
    BY <1>0, <1>4, OlderOrder DEF BeginReconcile, Covers
  <1>5. CASE FeSnapshotMissing
    <2>1. src'.status = OpenedStatus(src) /\ src \in ResourceType
      BY <1>0, <1>5 DEF FeSnapshotMissing, ResourceType
    <2>2. \A g \in finished : Covers(OpenedStatus(src), g)
      BY <1>0, <1>5, <2>1, EnterCovers DEF FeSnapshotMissing
    <2> QED BY <1>0, <1>5, <2>1, <2>2 DEF FeSnapshotMissing, Covers
  <1>6. CASE FeApply
    <2>1. /\ src \in ResourceType /\ src.status \in StatusType
          /\ ~Older(cache.status, src.status) /\ ~Older(api.status, src.status)
      BY <1>0, <1>6, OlderOrder DEF FeApply
    <2>2. src'.status = StatusAfterEnter(src, podCache)
      BY <1>6, <2>1 DEF FeApply, ResourceType
    <2>3. ASSUME NEW g \in finished'
          PROVE  g \in Generations /\ Covers(src.status, g)
      <3>1. CASE g \in finished
        BY <1>0, <1>6, <3>1 DEF FeApply
      <3>2. CASE g = src.status.og /\ src.status.phase = "done"
        BY <2>1, <3>2 DEF Covers, StatusType, NoStatus
      <3> QED BY <1>6, <2>3, <3>1, <3>2 DEF FeApply
    <2>4. ASSUME NEW g \in finished'
          PROVE  /\ Covers(src'.status, g)
                 /\ Covers(api.status, g) /\ Covers(cache.status, g)
                 /\ sts'.generation # g
      <3>1. g \in Generations /\ g \in Int /\ Covers(src.status, g)
        BY <1>0, <2>3
      <3>2. Covers(api.status, g) /\ Covers(cache.status, g)
        BY <1>0, <2>1, <3>1, OlderOrder
      <3>3. Covers(src'.status, g) /\ sts'.generation # g
        BY <1>6, <2>1, <2>2, <3>1, EnterCovers DEF FeApply
      <3> QED BY <3>2, <3>3
    <2>5. UNCHANGED <<api, cache>> /\ pc' # "fe"
      BY <1>6 DEF FeApply
    <2> QED BY <1>0, <2>4, <2>5 DEF Covers, Older
  <1>7. CASE FeApplyFails
    <2>1. src \in ResourceType
      BY <1>0, <1>7 DEF FeApplyFails
    <2>2. src'.status = StatusAfterEnter(src, podCache)
      BY <1>7, <2>1 DEF FeApplyFails, ResourceType
    <2>3. \A g \in finished : Covers(StatusAfterEnter(src, podCache), g)
      BY <1>0, <1>7, <2>1, EnterCovers DEF FeApplyFails
    <2> QED BY <1>0, <1>7, <2>2, <2>3 DEF FeApplyFails, Covers, Older
  <1>8. CASE SaveStatus
    <2>1. api'.status = src.status /\ ~Older(src.status, api.status) /\ cache = api
          /\ UNCHANGED <<cache, sts, finished>> /\ pc = "save" /\ pc' = "idle"
      BY <1>8 DEF SaveStatus, EndReconcile, TypeInv, TypeOK, ResourceType
    <2> QED BY <1>0, <2>1 DEF Covers
  <1>9. CASE SaveStatusFails
    BY <1>0, <1>9 DEF SaveStatusFails, EndReconcile, Covers
  <1>10. CASE Crash
    BY <1>0, <1>10, OlderOrder DEF Crash, EndReconcile, Covers
  <1>11. CASE Kubernetes \/ UNCHANGED vars
    <2>1. UNCHANGED <<api, cache, pc, src, sts, finished>>
      BY <1>11 DEF Kubernetes, CreatePod, DeletePod, PodReady, PodUnready, vars
    <2> QED BY <1>0, <2>1 DEF Covers, Older
  <1> QED BY <1>1, <1>2, <1>3, <1>4, <1>5, <1>6, <1>7, <1>8, <1>9, <1>10, <1>11
          DEF Next, Reconcile

\* A generation whose recovery is done and whose FE is back to normal is never
\* restored again, whatever the user sets afterwards, however stale the copies
\* are that reconciles begin with and whatever fails, as long as no reconcile
\* has overwritten a recorded status by an older one.
THEOREM RepeatedOnlyAfterRegressCorrect == Spec => []RepeatedOnlyAfterRegress
  <1>1. Init => FinishedInv
    BY FinishedInvInit
  <1>2. TypeInv /\ FinishedInv /\ [Next]_vars => FinishedInv'
    BY FinishedInvNext
  <1>3. FinishedInv => RepeatedOnlyAfterRegress
    BY DEF FinishedInv, RepeatedOnlyAfterRegress
  <1> QED BY <1>1, <1>2, <1>3, TypeInvariant, PTL DEF Spec

-----------------------------------------------------------------------------
(***************************************************************************)
(* The protocol.  What a reconcile is about to save is older than the      *)
(* recorded status, or the same, or one step of the protocol ahead of it.  *)
(***************************************************************************)
Ahead(old, new) ==
  \/ new = old
  \/ /\ new \in [phase : {"todo", "doing"}, og : Generations]
     /\ new.og > old.og \/ (new.og = old.og /\ old.phase = "todo")
  \/ old.phase = "doing" /\ new = [old EXCEPT !.phase = "done"]

ProtocolInv ==
  ~regressed /\ pc \in Working =>
     Older(src.status, api.status) \/ Ahead(api.status, src.status)

\* The FE sync takes the status at most one step further.
LEMMA EnterAhead ==
  ASSUME NEW r \in ResourceType, NEW view
  PROVE  Ahead(r.status, OpenedStatus(r)) /\ Ahead(r.status, StatusAfterEnter(r, view))
  <1> DEFINE g == r.spec.generation
             opened == OpenedStatus(r)
             entered == EnterDisasterRecoveryMode(r, view)
  <1>1. g \in Generations /\ g \in Nat /\ r.status \in StatusType /\ r.status.og \in Int
    <2>1. g \in Generations /\ g \in Nat /\ r.status \in StatusType
      BY ConstantsAssumption DEF ResourceType, SpecType
    <2>2. r.status.og \in Generations \cup {NoGen}
      BY <2>1 DEF StatusType, NoStatus
    <2>3. NoGen \in Int /\ Generations \subseteq Int
      BY ConstantsAssumption DEF NoGen
    <2>4. r.status.og \in Int
      BY <2>2, <2>3
    <2> QED BY <2>1, <2>4
  <1>2. CASE r.status = NoStatus \/ g > r.status.og
    <2>1. opened = [phase |-> "todo", og |-> g] /\ g > r.status.og
      BY <1>1, <1>2 DEF OpenedStatus, NewDisasterRecoveryStatus, NoStatus, NoGen
    <2>2. entered = [phase |-> "doing", og |-> g]
      BY <2>1 DEF EnterDisasterRecoveryMode, NextPhase
    <2>3. Ahead(r.status, opened) /\ Ahead(r.status, entered)
      BY <1>1, <2>1, <2>2 DEF Ahead
    <2> QED BY <2>3 DEF StatusAfterEnter, Ahead
  <1>3. CASE ~(r.status = NoStatus \/ g > r.status.og)
    <2>1. opened = r.status /\ r.status \in [phase : {"todo", "doing", "done"}, og : Generations]
      BY <1>1, <1>3 DEF OpenedStatus, StatusType
    <2>2. \/ entered = r.status
          \/ r.status.phase = "todo" /\ entered = [r.status EXCEPT !.phase = "doing"]
          \/ r.status.phase = "doing" /\ entered = [r.status EXCEPT !.phase = "done"]
      BY <2>1 DEF EnterDisasterRecoveryMode, NextPhase
    <2>3. Ahead(r.status, opened) /\ Ahead(r.status, entered)
      BY <2>1, <2>2 DEF Ahead
    <2> QED BY <2>3 DEF StatusAfterEnter, Ahead
  <1> QED BY <1>2, <1>3

\* A step ahead of an old copy is old still, or the newest, or a step ahead of it.
LEMMA AheadOfOlder ==
  ASSUME NEW old \in StatusType, NEW new \in StatusType, NEW recorded \in StatusType,
         Ahead(old, new), ~Older(recorded, old)
  PROVE  Older(new, recorded) \/ Ahead(recorded, new)
  <1> USE StatusOg DEF Older, Ahead
  <1>1. CASE new = old
    BY <1>1, OlderOrder
  <1>2. CASE /\ new \in [phase : {"todo", "doing"}, og : Generations]
             /\ new.og > old.og \/ (new.og = old.og /\ old.phase = "todo")
    <2>1. CASE new.og > recorded.og
      BY <1>2, <2>1
    <2>2. CASE new.og < recorded.og
      BY <2>2
    <2>3. CASE new.og = recorded.og
      <3>1. recorded.phase \in {"todo", "doing", "done"} /\ new.phase \in {"todo", "doing"}
        BY <1>2, <2>3, ConstantsAssumption DEF NoGen
      <3>2. recorded.phase = new.phase => new = recorded
        BY <2>3
      <3> QED BY <1>2, <2>3, <3>1, <3>2
    <2> QED BY <2>1, <2>2, <2>3
  <1>3. CASE old.phase = "doing" /\ new = [old EXCEPT !.phase = "done"]
    <2>1. new.og = old.og /\ new.phase = "done"
      BY <1>3 DEF StatusType, NoStatus
    <2>2. CASE recorded.og = old.og
      <3>1. recorded.phase \in {"doing", "done"}
        BY <1>3, <2>2 DEF NoGen
      <3>2. recorded.phase = "doing" => recorded = old
        BY <1>3, <2>2
      <3>3. recorded.phase = "done" => recorded = new
        BY <2>1, <2>2
      <3> QED BY <1>3, <3>1, <3>2, <3>3
    <2> QED BY <2>1, <2>2
  <1> QED BY <1>1, <1>2, <1>3

LEMMA ProtocolInvNext ==
  ASSUME TypeInv, TypeInv', FinishedInv, ProtocolInv, [Next]_vars
  PROVE  ProtocolInv'
  <1> USE DEF ProtocolInv, Working, k8s, history
  <1>0. /\ api.status \in StatusType
        /\ pc \in Working => src \in ResourceType /\ src.status \in StatusType
        /\ pc' \in Working => src'.status \in StatusType
        /\ cache.status \in StatusType
    BY DEF TypeInv, TypeOK, CopyOK, ResourceType
  <1>1. CASE UserEdit
    <2>1. api'.status = api.status
      BY <1>1 DEF UserEdit, TypeInv, TypeOK, ResourceType
    <2> QED BY <1>1, <2>1 DEF UserEdit, Ahead, Older
  <1>2. CASE BeginReconcile
    <2>1. ~regressed => ~Older(api.status, cache.status)
      BY DEF FinishedInv, CopiesOrdered
    <2>2. src'.status = cache.status /\ UNCHANGED <<api, regressed>>
      BY <1>2 DEF BeginReconcile
    <2>3. ~regressed => Older(cache.status, api.status) \/ cache.status = api.status
      BY <1>0, <2>1, OlderOrder
    <2> QED BY <2>2, <2>3 DEF Ahead, Older
  <1>3. CASE CacheSync \/ PodCacheSync \/ FeConfigFails \/ SyncBe \/ SyncCn
    BY <1>3 DEF CacheSync, PodCacheSync, FeConfigFails, SyncBe, SyncCn, Ahead, Older
  <1>4. CASE FeSnapshotMissing \/ FeApply \/ FeApplyFails
    <2>1. src \in ResourceType /\ src.status \in StatusType /\ src'.status \in StatusType
          /\ pc = "fe" /\ UNCHANGED <<api, regressed>>
      BY <1>0, <1>4 DEF FeSnapshotMissing, FeApply, FeApplyFails
    <2>2. src'.status \in {OpenedStatus(src), StatusAfterEnter(src, podCache)}
      BY <1>4, <2>1 DEF FeSnapshotMissing, FeApply, FeApplyFails, ResourceType
    <2>3. Ahead(src.status, src'.status)
      BY <2>1, <2>2, EnterAhead
    <2>4. ~regressed => ~Older(api.status, src.status)
      BY <1>0, <2>1, OlderOrder DEF FinishedInv, CopiesOrdered
    <2>5. ~regressed => Older(src'.status, api.status) \/ Ahead(api.status, src'.status)
      BY <1>0, <2>1, <2>3, <2>4, AheadOfOlder
    <2> QED BY <2>1, <2>5 DEF Ahead, Older
  <1>5. CASE SaveStatus \/ SaveStatusFails \/ Crash
    BY <1>5 DEF SaveStatus, SaveStatusFails, Crash, EndReconcile
  <1>6. CASE Kubernetes \/ UNCHANGED vars
    <2>1. UNCHANGED <<api, pc, src, regressed>>
      BY <1>6 DEF Kubernetes, CreatePod, DeletePod, PodReady, PodUnready, vars
    <2> QED BY <2>1 DEF Ahead, Older
  <1> QED BY <1>1, <1>2, <1>3, <1>4, <1>5, <1>6 DEF Next, Reconcile

\* One step of the operator or of Kubernetes is at most one step of the protocol.
LEMMA ProtocolStep ==
  ASSUME TypeInv, TypeInv', RestoreInv, FinishedInv, ProtocolInv, [Next]_vars
  PROVE  [Protocol!Next]_Protocol!vars
  <1> SUFFICES Protocol!Next \/ UNCHANGED <<api.status, sts, restored, finished, regressed>>
    BY DEF Protocol!vars
  <1> USE DEF k8s, history
  <1>1. CASE FeApply
    <2>1. /\ src \in ResourceType /\ DoneOK(src.status)
          /\ UNCHANGED <<api, restored, regressed>>
      BY <1>1 DEF FeApply, TypeInv, CopyOK, Working, RestoreInv
    <2> DEFINE g == src.spec.generation
               n == src.spec.replicas
    <2>2. g \in Generations /\ n \in 1 .. MaxReplicas
      BY <2>1 DEF ResourceType, SpecType
    <2>3. CASE ShouldEnterDisasterRecoveryMode(src)
      <3>1. sts' = [replicas |-> 1, generation |-> g] /\ ExpectedStatefulSet(src).generation = g
        BY <1>1, <2>3 DEF FeApply, ExpectedStatefulSet, rewriteStatefulSetForDisasterRecovery
      <3>2. finished' = finished
        BY <1>1, <2>2, <3>1, ConstantsAssumption DEF FeApply, NoGen
      <3>3. g \notin finished \/ regressed
        BY <1>1, <2>1, <2>2, <3>1, EnterCovers
           DEF FeApply, FinishedInv, FinishedCovered, Working
      <3>4. Protocol!Restart(g)
        BY <2>1, <3>1, <3>2, <3>3 DEF Protocol!Restart
      <3> QED BY <2>2, <3>4 DEF Protocol!Next
    <2>4. CASE ~ShouldEnterDisasterRecoveryMode(src)
      <3>1. sts' = [replicas |-> n, generation |-> NoGen] /\ ~(sts.replicas > 1 /\ n = 1)
        BY <1>1, <2>4 DEF FeApply, ExpectedStatefulSet, NormalStatefulSet, ScaleTo1Refused
      <3>2. finished' \in {finished} \cup {finished \cup {d} : d \in restored}
        BY <1>1, <2>1 DEF FeApply, DoneOK
      <3>3. Protocol!Return(n)
        BY <2>1, <3>1, <3>2 DEF Protocol!Return, Protocol!NoGen, NoGen
      <3> QED BY <2>2, <3>3 DEF Protocol!Next
    <2> QED BY <2>3, <2>4
  <1>2. CASE SaveStatus
    <2>1. /\ api'.status = src.status /\ UNCHANGED <<sts, restored, finished>>
          /\ DoneOK(src.status)
          /\ regressed' = (regressed \/ Older(src.status, api.status))
          /\ ~regressed => Older(src.status, api.status) \/ Ahead(api.status, src.status)
      BY <1>2 DEF SaveStatus, TypeInv, TypeOK, ResourceType, ProtocolInv, RestoreInv, Working
    <2>2. api.status \in StatusType /\ src.status \in StatusType /\ regressed \in BOOLEAN
      BY <1>2 DEF SaveStatus, TypeInv, TypeOK, CopyOK, Working, ResourceType
    <2>3. CASE regressed \/ Older(src.status, api.status)
      <3>1. src.status \in Protocol!Statuses
        BY <2>2 DEF StatusType, NoStatus, NoGen, Protocol!Statuses, Protocol!NoGen
      <3>2. regressed \/ Protocol!Before(src.status, api.status)
        BY <2>3 DEF Older, Protocol!Before
      <3>3. Protocol!Overwrite(src.status)
        BY <2>1, <2>3, <3>2 DEF Protocol!Overwrite, DoneOK
      <3> QED BY <3>1, <3>3 DEF Protocol!Next
    <2>4. CASE ~regressed /\ ~Older(src.status, api.status)
      <3>0. UNCHANGED <<sts, restored, finished, regressed>> /\ Ahead(api.status, src.status)
        BY <2>1, <2>2, <2>4
      <3>1. CASE src.status \in [phase : {"todo", "doing"}, og : Generations] /\ src.status.og > api.status.og
        <4>1. src.status.og \in Generations /\ src.status \in [phase : {"todo", "doing"}, og : {src.status.og}]
          BY <3>1
        <4>2. Protocol!Observe(src.status.og)
          BY <2>1, <3>0, <3>1, <4>1 DEF Protocol!Observe
        <4> QED BY <4>1, <4>2 DEF Protocol!Next
      <3>2. CASE /\ src.status \in [phase : {"todo", "doing"}, og : Generations]
                 /\ src.status.og = api.status.og /\ api.status.phase = "todo"
        <4>1. src.status = api.status \/ src.status = [api.status EXCEPT !.phase = "doing"]
          BY <2>2, <3>2 DEF StatusType, NoStatus
        <4>2. src.status = api.status \/ Protocol!Begin
          BY <2>1, <3>0, <3>2, <4>1 DEF Protocol!Begin
        <4> QED BY <2>1, <3>0, <4>2 DEF Protocol!Next
      <3>3. CASE api.status.phase = "doing" /\ src.status = [api.status EXCEPT !.phase = "done"]
        <4>1. api.status.og \in restored
          BY <2>1, <2>2, <3>3 DEF DoneOK, StatusType, NoStatus
        <4>2. Protocol!Finish
          BY <2>1, <3>0, <3>3, <4>1 DEF Protocol!Finish
        <4> QED BY <4>2 DEF Protocol!Next
      <3> QED BY <2>1, <3>0, <3>1, <3>2, <3>3 DEF Ahead
    <2> QED BY <2>3, <2>4
  <1>3. ASSUME NEW o \in Ordinals, PodReady(o)
        PROVE  Protocol!Next \/ UNCHANGED <<api.status, sts, restored, finished, regressed>>
    <2>1. /\ UNCHANGED <<api, sts, finished, regressed>>
          /\ restored' = restored \cup ({pods[o].generation} \ {NoGen})
      BY <1>3 DEF PodReady
    <2>2. pods[o].generation \in Generations \cup {NoGen}
      BY DEF TypeInv, TypeOK, PodType
    <2>3. CASE pods[o].generation = NoGen
      BY <2>1, <2>3
    <2>4. CASE pods[o].generation # NoGen
      <3>1. Protocol!Restore(pods[o].generation)
        BY <2>1, <2>4 DEF Protocol!Restore
      <3> QED BY <2>2, <2>4, <3>1 DEF Protocol!Next
    <2> QED BY <2>3, <2>4
  <1>4. CASE UserEdit
    BY <1>4 DEF UserEdit, TypeInv, TypeOK, ResourceType
  <1>5. CASE \/ CacheSync \/ PodCacheSync \/ BeginReconcile \/ FeConfigFails \/ FeSnapshotMissing
             \/ FeApplyFails \/ SyncBe \/ SyncCn \/ SaveStatusFails \/ Crash
             \/ \E o \in Ordinals : CreatePod(o) \/ DeletePod(o) \/ PodUnready(o)
             \/ UNCHANGED vars
    BY <1>5 DEF CacheSync, PodCacheSync, BeginReconcile, FeConfigFails, FeSnapshotMissing,
                FeApplyFails, SyncBe, SyncCn, SaveStatusFails, Crash, CreatePod, DeletePod,
                PodUnready, vars
  <1> QED BY <1>1, <1>2, <1>3, <1>4, <1>5 DEF Next, Reconcile, Kubernetes

\* When no value of the user's is taken for a generation the operator follows the
\* protocol of recoveries: with stale copies, edits, failed calls, lost and
\* overwritten statuses and crashes at any step.
THEOREM ProtocolCorrect ==
  ASSUME NoCollision
  PROVE  Spec => FollowsProtocol
  <1> DEFINE Inv == TypeInv /\ RestoreInv /\ FinishedInv /\ ProtocolInv
  <1>1. Init => Inv /\ Protocol!Init
    <2>1. Init => TypeInv /\ RestoreInv /\ FinishedInv
      BY InitType, RestoreInvInit, FinishedInvInit
    <2>2. Init => ProtocolInv
      BY DEF Init, ProtocolInv, Working
    <2>3. Init => Protocol!Init
      BY DEF Init, NoStatus, NoGen, Protocol!Init, Protocol!NoGen
    <2> QED BY <2>1, <2>2, <2>3
  <1>2. Inv /\ [Next]_vars => Inv'
    BY NextType, RestoreInvNext, FinishedInvNext, ProtocolInvNext
  <1>3. Inv /\ Inv' /\ [Next]_vars => [Protocol!Next]_Protocol!vars
    BY ProtocolStep
  <1> QED BY <1>1, <1>2, <1>3, PTL DEF Spec, FollowsProtocol, Protocol!Spec
=============================================================================
