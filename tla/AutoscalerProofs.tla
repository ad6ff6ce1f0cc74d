--------------------------- MODULE AutoscalerProofs ---------------------------
(***************************************************************************)
(* Theorems about Autoscaler, for every set of policies, every sequence of *)
(* Kubernetes versions and any number of edits and faults.                 *)
(***************************************************************************)
EXTENDS Autoscaler, TLAPS

-----------------------------------------------------------------------------
(* Types of what the actions write *)

LEMMA ConstantTypes ==
  /\ Policies \cup {NoPolicy} \subseteq PolicyType
  /\ NoPolicy \in PolicyType
  /\ NoCn \in CrType
  /\ NoSrc \in [cr : CrType, status : Versions \cup {NotGiven}]
  /\ NoHash \in PolicyType
  /\ NoHpa \in HpaType
  <1>1. NoPolicy \in PolicyType /\ NoHash \in PolicyType
    BY DEF NoPolicy, NoHash, PolicyType, NotGiven
  <1>2. Policies \cup {NoPolicy} \subseteq PolicyType
    BY <1>1, ConstantsAssumption
  <1>3. NoCn \in CrType
    BY DEF NoCn, CrType
  <1>4. NoSrc \in [cr : CrType, status : Versions \cup {NotGiven}]
    BY <1>3 DEF NoSrc
  <1>5. NoHpa \in HpaType
    BY <1>1 DEF NoHpa, HpaType, BoundsType
  <1> QED BY <1>1, <1>2, <1>3, <1>4, <1>5

LEMMA CrsTypes == Crs \subseteq CrType
  <1> SUFFICES ASSUME NEW k \in Crs PROVE k \in CrType
    OBVIOUS
  <1>1. CASE k = NoCn
    BY <1>1, ConstantTypes
  <1>2. ASSUME NEW p \in Policies \cup {NoPolicy}, NEW r \in 0 .. MaxReplicas, k = Cn(p, r)
        PROVE  k \in CrType
    BY <1>2, ConstantsAssumption DEF Cn, CrType
  <1> QED BY <1>1, <1>2 DEF Crs

LEMMA CompleteTypes ==
  ASSUME NEW v \in Versions \cup {NotGiven}
  PROVE  Complete(v) \in Versions
  BY DEF Complete, Versions, NotGiven

LEMMA BuildHPATypes ==
  ASSUME NEW p \in PolicyType
  PROVE  BuildHPA(p) \in PolicyType /\ BuildHPA(p) # NoHash
  <1>1. Complete(p.version) \in Versions
    BY CompleteTypes DEF PolicyType
  <1>2. BuildHPA(p) \in PolicyType
    BY <1>1 DEF BuildHPA, PolicyType
  <1>3. BuildHPA(p).version # NotGiven
    BY <1>1 DEF BuildHPA, Versions, NotGiven
  <1> QED BY <1>2, <1>3 DEF NoHash

\* What a pass, successful or not, does to the autoscaler: nothing, removal, or
\* the bounds of the policy, with or without the annotation.
HpaStep ==
  \/ UNCHANGED hpa
  \/ hpa' = NoHpa
  \/ \E h \in {NoHash, BuildHPA(src.cr.policy)} :
       /\ pc = "deploy" /\ src.cr.policy # NoPolicy
       /\ hpa' = [exists |-> TRUE, spec |-> Bounds(src.cr.policy), hash |-> h]

LEMMA DeployStep ==
  ASSUME TypeOK, pc = "deploy",
         IF src.cr.policy = NoPolicy THEN DeleteAutoscaler(src.status)
         ELSE deployAutoScaler(BuildHPA(src.cr.policy))
  PROVE  /\ HpaStep
         /\ called' \in {"none", "create", "update", "skip", "delete"}
  <1>0. Bounds(BuildHPA(src.cr.policy)) = Bounds(src.cr.policy)
    BY DEF Bounds, BuildHPA
  <1>1. CASE src.cr.policy = NoPolicy
    BY <1>1 DEF DeleteAutoscaler, HpaStep
  <1>2. CASE src.cr.policy # NoPolicy
    <2>1. CASE Create(BuildHPA(src.cr.policy))
      BY <1>0, <1>2, <2>1 DEF Create, HpaStep
    <2>2. CASE Update(BuildHPA(src.cr.policy))
      <3>1. hpa.exists = TRUE
        BY <2>2, Zenon DEF Update, TypeOK, HpaType
      <3>2. hpa' = [exists |-> TRUE, spec |-> Bounds(BuildHPA(src.cr.policy)),
                    hash |-> BuildHPA(src.cr.policy)]
        BY <2>2, <3>1 DEF Update, TypeOK, HpaType
      <3> QED BY <1>0, <1>2, <2>2, <3>2 DEF Update, HpaStep
    <2>3. CASE UNCHANGED hpa /\ called' = "skip"
      BY <2>3 DEF HpaStep
    <2> QED BY <1>2, <2>1, <2>2, <2>3 DEF deployAutoScaler
  <1> QED BY <1>1, <1>2

LEMMA DeleteStep ==
  ASSUME NEW v, DeleteAutoscaler(v)
  PROVE  HpaStep /\ called' \in {"none", "create", "update", "skip", "delete"}
  BY DEF DeleteAutoscaler, HpaStep

LEMMA HpaStepTypes ==
  ASSUME TypeOK, HpaStep
  PROVE  hpa' \in HpaType
  <1>1. CASE UNCHANGED hpa
    BY <1>1 DEF TypeOK
  <1>2. CASE hpa' = NoHpa
    BY <1>2, ConstantTypes
  <1>3. ASSUME NEW h \in {NoHash, BuildHPA(src.cr.policy)},
               hpa' = [exists |-> TRUE, spec |-> Bounds(src.cr.policy), hash |-> h]
        PROVE  hpa' \in HpaType
    <2>1. src.cr.policy \in PolicyType
      BY ConstantTypes DEF TypeOK, CrType
    <2>2. h \in PolicyType
      BY <2>1, ConstantTypes, BuildHPATypes
    <2>3. Bounds(src.cr.policy) \in BoundsType
      BY <2>1 DEF Bounds, BoundsType, PolicyType
    <2> QED BY <1>3, <2>2, <2>3 DEF HpaType
  <1> QED BY <1>1, <1>2, <1>3 DEF HpaStep

\* Every step leaves the autoscaler in one of the three ways.
LEMMA NextHpa ==
  ASSUME TypeOK, [Next]_vars
  PROVE  HpaStep
  <1>1. CASE SyncAutoscaler
    BY <1>1, DeployStep DEF SyncAutoscaler
  <1>2. CASE SyncFails
    BY <1>2, DeployStep DEF SyncFails, ApplyObject, HpaStep
  <1>3. CASE ClearAutoscaler
    BY <1>3, DeleteStep DEF ClearAutoscaler, HpaStep
  <1>4. CASE DeleteHpaByHand
    BY <1>4 DEF DeleteHpaByHand, HpaStep
  <1>5. CASE UNCHANGED hpa
    BY <1>5 DEF HpaStep
  <1>6. ChangeSpec \/ ScaleIntoBounds \/ ScaleWithLoad \/ CacheSync \/ FeDown \/ FeUp
          \/ UpgradeKubernetes \/ Crash \/ RestartAfterUpgrade \/ Begin \/ SyncCluster
          \/ SyncObject \/ SyncAutoscalerFails \/ ClearCluster \/ UpdateStatus \/ SaveStatus
          \/ ClearFails \/ PassLost \/ UNCHANGED vars
        => UNCHANGED hpa
    BY DEF ChangeSpec, ScaleIntoBounds, ScaleWithLoad, Scale, CacheSync, FeDown, FeUp,
           UpgradeKubernetes, Crash, RestartAfterUpgrade, StartProcess, Begin, SyncCluster,
           SyncObject, ApplyObject, SyncAutoscalerFails, ClearCluster, UpdateStatus, SaveStatus,
           ClearFails, PassLost, vars
  <1> QED BY <1>1, <1>2, <1>3, <1>4, <1>5, <1>6 DEF Next, Pass

-----------------------------------------------------------------------------
(* Type correctness *)

LEMMA TypeNext ==
  ASSUME TypeOK, [Next]_vars
  PROVE  TypeOK'
  <1> USE DEF TypeOK, env, pass
  <1>0. hpa' \in HpaType
    BY NextHpa, HpaStepTypes
  <1>a. faults \in Nat /\ edits \in Nat /\ MaxFaults \in Nat /\ MaxEdits \in Nat
    BY ConstantsAssumption
  <1>b. /\ Fault => faults' \in 0 .. MaxFaults
        /\ Edit => edits' \in 0 .. MaxEdits
    BY <1>a DEF Fault, Edit
  <1>c. src.cr \in CrType /\ src.status \in Versions \cup {NotGiven}
    OBVIOUS
  <1>1. CASE ChangeSpec
    BY <1>0, <1>1, <1>b, CrsTypes DEF ChangeSpec
  <1>2. CASE DeleteHpaByHand
    BY <1>0, <1>2, <1>b DEF DeleteHpaByHand
  <1>3. ASSUME NEW r \in Int, Scale(r)
        PROVE  TypeOK'
    <2>1. cr' \in CrType
      BY <1>3 DEF Scale, CrType
    <2> QED BY <1>0, <1>3, <2>1 DEF Scale
  <1>4. CASE ScaleIntoBounds \/ ScaleWithLoad
    BY <1>3, <1>4 DEF ScaleIntoBounds, ScaleWithLoad
  <1>5. CASE CacheSync
    BY <1>0, <1>5 DEF CacheSync
  <1>6. CASE FeDown \/ FeUp
    BY <1>0, <1>6, <1>b DEF FeDown, FeUp
  <1>7. CASE UpgradeKubernetes
    BY <1>0, <1>7 DEF UpgradeKubernetes
  <1>8. CASE Crash \/ RestartAfterUpgrade
    <2>1. known' \in Minors \cup {Unknown} /\ faults' \in 0 .. MaxFaults
      BY <1>8, <1>b DEF Crash, RestartAfterUpgrade, StartProcess
    <2>2. /\ pc' = "idle" /\ at' = 1 /\ src' = NoSrc /\ seen' = hpa
          /\ UNCHANGED <<cr, status, kube, feReady, upgraded, objs, sts, hpa, called, edits>>
      BY <1>8 DEF Crash, RestartAfterUpgrade, StartProcess
    <2> QED BY <1>0, <2>1, <2>2, ConstantTypes
  <1>9. CASE Begin
    BY <1>0, <1>9 DEF Begin
  <1>10. CASE SyncCluster
    BY <1>0, <1>10 DEF SyncCluster, Abort
  <1>11. CASE SyncObject
    <2>1. at' \in 1 .. 4 /\ at \in 1 .. 3
      BY <1>11 DEF SyncObject
    <2>2. DeployOrder[at] \in {"sts", "external", "search"}
      BY <2>1 DEF DeployOrder
    <2>3. sts' \in Int
      BY <1>11, <1>c DEF SyncObject, ApplyObject, CrType
    <2> QED BY <1>0, <1>11, <2>1, <2>2, <2>3 DEF SyncObject, ApplyObject
  <1>12. CASE SyncAutoscaler
    <2>1. called' \in {"none", "create", "update", "skip", "delete"}
      BY <1>12, DeployStep DEF SyncAutoscaler
    <2> QED BY <1>0, <1>12, <2>1 DEF SyncAutoscaler
  <1>13. CASE SyncAutoscalerFails
    BY <1>0, <1>13 DEF SyncAutoscalerFails, Abort
  <1>14. CASE SyncFails
    <2>1. objs' \in SUBSET {"sts", "external", "search"} /\ sts' \in Int
      <3>1. CASE UNCHANGED <<objs, sts>>
        BY <3>1
      <3>2. CASE at < 4 /\ ApplyObject
        <4>1. DeployOrder[at] \in {"sts", "external", "search"}
          BY <3>2 DEF DeployOrder
        <4> QED BY <3>2, <4>1, <1>c DEF ApplyObject, CrType
      <3> QED BY <1>14, <3>1, <3>2 DEF SyncFails
    <2>2. called' \in {"none", "create", "update", "skip", "delete"}
      BY <1>14, DeployStep DEF SyncFails, ApplyObject
    <2> QED BY <1>0, <1>14, <1>b, <2>1, <2>2 DEF SyncFails, Abort
  <1>15. CASE ClearCluster
    <2>1. objs' \in SUBSET {"sts", "external", "search"}
      <3>1. objs' \subseteq objs
        BY <1>15 DEF ClearCluster
      <3> QED BY <3>1
    <2>2. at' \in 1 .. 4
      BY <1>15 DEF ClearCluster
    <2> QED BY <1>0, <1>15, <2>1, <2>2 DEF ClearCluster
  <1>16. CASE ClearAutoscaler
    <2>1. called' \in {"none", "create", "update", "skip", "delete"}
      BY <1>16, DeleteStep DEF ClearAutoscaler
    <2> QED BY <1>0, <1>16, <2>1 DEF ClearAutoscaler
  <1>17. CASE ClearFails
    <2>1. objs' \in SUBSET {"sts", "external", "search"}
      BY <1>17 DEF ClearFails
    <2> QED BY <1>0, <1>17, <1>b, <2>1 DEF ClearFails
  <1>18. CASE UpdateStatus
    <2>1. Complete(src.cr.policy.version) \in Versions
      <3>1. src.cr.policy \in PolicyType
        BY <1>c, ConstantTypes DEF CrType
      <3> QED BY <3>1, CompleteTypes DEF PolicyType
    <2>2. src' \in [cr : CrType, status : Versions \cup {NotGiven}]
      BY <1>18, <1>c, <2>1 DEF UpdateStatus
    <2> QED BY <1>0, <1>18, <2>2 DEF UpdateStatus
  <1>19. CASE SaveStatus
    BY <1>0, <1>19, <1>c, ConstantTypes DEF SaveStatus
  <1>20. CASE PassLost
    BY <1>0, <1>20, <1>b, ConstantTypes DEF PassLost
  <1>21. CASE UNCHANGED vars
    BY <1>21 DEF vars
  <1> QED
    BY <1>1, <1>2, <1>4, <1>5, <1>6, <1>7, <1>8, <1>9, <1>10, <1>11, <1>12, <1>13, <1>14,
       <1>15, <1>16, <1>17, <1>18, <1>19, <1>20, <1>21 DEF Next, Pass

\* Every state of the autoscaler model is well typed: in particular passes never
\* leave the four steps of deploying and clearing, and the autoscaler, its cached
\* copy and the recorded version are always ones that the code can write.
THEOREM TypeCorrect == Spec => []TypeOK
  <1>1. Init => TypeOK
    <2> SUFFICES ASSUME Init PROVE TypeOK
      OBVIOUS
    <2>1. cr \in CrType /\ src = NoSrc /\ hpa = NoHpa /\ seen = NoHpa
      BY CrsTypes DEF Init
    <2>2. edits \in 0 .. MaxEdits /\ faults \in 0 .. MaxFaults
      BY ConstantsAssumption DEF Init
    <2>3. /\ kube \in Minors /\ known \in Minors \cup {Unknown}
          /\ status \in Versions \cup {NotGiven}
          /\ objs = {} /\ sts = 0
          /\ pc = "idle" /\ at = 1 /\ called = "none"
      BY DEF Init
    <2>4. feReady \in BOOLEAN /\ upgraded \in BOOLEAN
      BY Zenon DEF Init
    <2> QED BY <2>1, <2>2, <2>3, <2>4, ConstantTypes DEF TypeOK
  <1>2. TypeOK /\ [Next]_vars => TypeOK'
    BY TypeNext
  <1> QED BY <1>1, <1>2, PTL DEF Spec

-----------------------------------------------------------------------------
(* The annotation *)

\* However far the cache is behind and whatever is created, deleted or lost in
\* between, an annotation tells the bounds of the autoscaler that carries it.
THEOREM HashCorrect == Spec => []HashTellsBounds
  <1>1. Init => HashTellsBounds
    BY DEF Init, HashTellsBounds, NoHpa
  <1>2. TypeOK /\ HashTellsBounds /\ [Next]_vars => HashTellsBounds'
    <2> SUFFICES ASSUME TypeOK, HashTellsBounds, [Next]_vars
                 PROVE  HashTellsBounds'
      OBVIOUS
    <2>1. hpa'.hash # NoHash => hpa'.exists /\ hpa'.spec = Bounds(hpa'.hash)
      <3>1. CASE UNCHANGED hpa
        BY <3>1 DEF HashTellsBounds
      <3>2. CASE hpa' = NoHpa
        BY <3>2 DEF NoHpa
      <3>3. ASSUME NEW h \in {NoHash, BuildHPA(src.cr.policy)},
                   hpa' = [exists |-> TRUE, spec |-> Bounds(src.cr.policy), hash |-> h],
                   h # NoHash
            PROVE  hpa'.exists /\ hpa'.spec = Bounds(hpa'.hash)
        BY <3>3 DEF Bounds, BuildHPA
      <3> QED BY <3>1, <3>2, <3>3, NextHpa DEF HpaStep
    <2>2. seen' \in {seen, hpa}
      BY DEF Next, Pass, ChangeSpec, DeleteHpaByHand, ScaleIntoBounds, ScaleWithLoad, Scale,
             CacheSync, FeDown, FeUp, UpgradeKubernetes, Crash, RestartAfterUpgrade,
             StartProcess, Begin, SyncCluster, SyncObject, SyncAutoscaler,
             SyncAutoscalerFails, SyncFails, ClearCluster, ClearAutoscaler, ClearFails,
             UpdateStatus, SaveStatus, PassLost, vars
    <2> QED BY <2>1, <2>2 DEF HashTellsBounds
  <1> QED BY <1>1, <1>2, TypeCorrect, PTL DEF Spec

-----------------------------------------------------------------------------
(***************************************************************************)
(* Bounds.  A pass checks the policy once, before its first write, and     *)
(* keeps its copy: what it writes later is what it has checked, whatever   *)
(* the user makes of the policy meanwhile.                                 *)
(***************************************************************************)
Checked == pc = "deploy" => validating(src.cr.policy)

BoundsInv == Checked /\ BoundsAreValid

\* No autoscaler is ever written with bounds that validating refuses.
THEOREM BoundsCorrect == Spec => []BoundsAreValid
  <1>1. Init => BoundsInv
    BY DEF Init, BoundsInv, Checked, BoundsAreValid, NoHpa
  <1>2. TypeOK /\ BoundsInv /\ [Next]_vars => BoundsInv'
    <2> SUFFICES ASSUME TypeOK, BoundsInv, [Next]_vars
                 PROVE  BoundsInv'
      OBVIOUS
    <2>1. Checked'
      <3>1. CASE SyncCluster
        BY <3>1 DEF SyncCluster, Abort, Checked, validating, MinReplicas, Unset, NoPolicy
      <3>2. CASE UNCHANGED <<pc, src>>
        BY <3>2 DEF BoundsInv, Checked, validating, MinReplicas, Unset, NoPolicy
      <3>3. CASE pc' # "deploy"
        BY <3>3 DEF Checked
      <3>4. Next \/ UNCHANGED vars => SyncCluster \/ UNCHANGED <<pc, src>> \/ pc' # "deploy"
        BY DEF Next, Pass, ChangeSpec, DeleteHpaByHand, ScaleIntoBounds, ScaleWithLoad, Scale,
               CacheSync, FeDown, FeUp, UpgradeKubernetes, Crash, RestartAfterUpgrade,
               StartProcess, Begin, SyncObject, SyncAutoscaler, SyncAutoscalerFails,
               SyncFails, ClearCluster, ClearAutoscaler, ClearFails, UpdateStatus,
               SaveStatus, PassLost, Abort, pass, vars
      <3> QED BY <3>1, <3>2, <3>3, <3>4
    <2>2. BoundsAreValid'
      <3>1. CASE UNCHANGED hpa
        BY <3>1 DEF BoundsInv, BoundsAreValid, MinReplicas
      <3>2. CASE hpa' = NoHpa
        BY <3>2 DEF NoHpa, BoundsAreValid
      <3>3. ASSUME NEW h, pc = "deploy", src.cr.policy # NoPolicy,
                   hpa' = [exists |-> TRUE, spec |-> Bounds(src.cr.policy), hash |-> h]
            PROVE  BoundsAreValid'
        <4>1. src.cr.policy \in PolicyType
          BY ConstantTypes DEF TypeOK, CrType
        <4>2. /\ src.cr.policy.min = Unset \/ src.cr.policy.min >= 1
              /\ src.cr.policy.max >= MinReplicas(src.cr.policy)
          BY <3>3 DEF BoundsInv, Checked, validating
        <4>3. hpa'.spec = [min |-> src.cr.policy.min, max |-> src.cr.policy.max]
          BY <3>3 DEF Bounds
        <4> QED BY <4>1, <4>2, <4>3 DEF BoundsAreValid, MinReplicas, PolicyType, Unset
      <3> QED BY <3>1, <3>2, <3>3, NextHpa DEF HpaStep
    <2> QED BY <2>1, <2>2 DEF BoundsInv
  <1>3. BoundsInv => BoundsAreValid
    BY DEF BoundsInv
  <1> QED BY <1>1, <1>2, <1>3, TypeCorrect, PTL DEF Spec

-----------------------------------------------------------------------------
(***************************************************************************)
(* The recorded version.  Until Kubernetes is upgraded the operator knows  *)
(* its version or knows nothing, and then goes by v2, which every version  *)
(* from 1.23 on serves.                                                    *)
(***************************************************************************)
VersionInv ==
  /\ ~upgraded => known \in {kube, Unknown}
  /\ RecordedVersionServed

LEMMA CompleteServed ==
  ASSUME TypeOK, known \in {kube, Unknown}, NEW p \in Policies
  PROVE  Complete(p.version) \in Served(kube)
  <1>1. kube \in Nat /\ kube >= 23
    BY ConstantsAssumption DEF TypeOK
  <1>2. CASE p.version # NotGiven
    <2>1. p.version \in Served(kube) \cup {NotGiven}
      BY ServedAssumption DEF TypeOK
    <2> QED BY <1>2, <2>1 DEF Complete
  <1>3. CASE p.version = NotGiven
    BY <1>1, <1>3 DEF Complete, Served, Unknown
  <1> QED BY <1>2, <1>3

\* As long as Kubernetes is not upgraded, the version recorded for the deletion
\* of the autoscaler is one the API server serves, although the operator may be
\* restarted any number of times without learning the version of Kubernetes.
THEOREM VersionCorrect == Spec => []RecordedVersionServed
  <1>1. Init => VersionInv
    BY DEF Init, VersionInv, RecordedVersionServed, NoSrc
  <1>2. TypeOK /\ VersionInv /\ [Next]_vars => VersionInv'
    <2> SUFFICES ASSUME TypeOK, VersionInv, [Next]_vars, ~upgraded'
                 PROVE  known' \in {kube', Unknown}
                        /\ {status', src'.status} \subseteq Served(kube') \cup {NotGiven}
      BY DEF VersionInv, RecordedVersionServed
    <2> USE DEF VersionInv, RecordedVersionServed, env, pass
    <2>1. CASE UpdateStatus
      <3>1. UNCHANGED <<status, kube, known, upgraded>>
        BY <2>1 DEF UpdateStatus
      <3>2. src.cr.policy # NoPolicy
              => Complete(src.cr.policy.version) \in Served(kube)
        BY <3>1, CompleteServed DEF TypeOK, CrType
      <3>3. src'.status \in {NotGiven, src.status} \/
            (src.cr.policy # NoPolicy /\ src'.status = Complete(src.cr.policy.version))
        BY <2>1 DEF UpdateStatus, TypeOK
      <3> QED BY <3>1, <3>2, <3>3
    <2>2. CASE SaveStatus
      BY <2>2 DEF SaveStatus, NoSrc
    <2>3. CASE Begin
      BY <2>3 DEF Begin
    <2>4. CASE Crash \/ RestartAfterUpgrade
      BY <2>4 DEF Crash, RestartAfterUpgrade, StartProcess, NoSrc
    <2>5. CASE PassLost
      BY <2>5 DEF PassLost, NoSrc
    <2>6. CASE UNCHANGED <<status, kube, known, upgraded, src>>
      BY <2>6
    <2>7. ChangeSpec \/ DeleteHpaByHand \/ ScaleIntoBounds \/ ScaleWithLoad \/ CacheSync
            \/ FeDown \/ FeUp \/ SyncCluster \/ SyncObject \/ SyncAutoscaler
            \/ SyncAutoscalerFails \/ SyncFails \/ ClearCluster \/ ClearAutoscaler
            \/ ClearFails \/ UNCHANGED vars
          => UNCHANGED <<status, kube, known, upgraded, src>>
      BY DEF ChangeSpec, DeleteHpaByHand, ScaleIntoBounds, ScaleWithLoad, Scale, CacheSync,
             FeDown, FeUp, SyncCluster, SyncObject, SyncAutoscaler, SyncAutoscalerFails,
             SyncFails, ClearCluster, ClearAutoscaler, ClearFails, vars
    <2>8. ~UpgradeKubernetes
      BY DEF UpgradeKubernetes
    <2> QED BY <2>1, <2>2, <2>3, <2>4, <2>5, <2>6, <2>7, <2>8 DEF Next, Pass
  <1>3. VersionInv => RecordedVersionServed
    BY DEF VersionInv
  <1> QED BY <1>1, <1>2, <1>3, TypeCorrect, PTL DEF Spec
===============================================================================
