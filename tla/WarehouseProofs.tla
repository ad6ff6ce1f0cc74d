--------------------------- MODULE WarehouseProofs ---------------------------
(***************************************************************************)
(* Theorems about Warehouse, for every set of owners, every number of      *)
(* replicas, edits and faults.                                             *)
(***************************************************************************)
EXTENDS Warehouse, FiniteSetTheorems, TLAPS

-----------------------------------------------------------------------------
(* Type correctness *)

LEMMA NoStsType == NoSts \in StsType
BY ConstantsAssumption DEF NoSts, StsType

\* The three variables of a pass after its end.
LEMMA EndPassType ==
  ASSUME TypeOK, NEW o \in Owners, EndPass(o)
  PROVE  /\ pc' \in [Owners -> {"idle", "apply", "pods", "show", "drop", "clear"}]
         /\ expect' \in [Owners -> 0 .. MaxReplicas]
         /\ listed' \in [Owners -> SUBSET Nodes]
BY ConstantsAssumption DEF TypeOK, EndPass

\* Init establishes and every step of Next preserves the type invariant.
THEOREM TypeCorrect == Spec => []TypeOK
<1>1. Init => TypeOK
  BY ConstantsAssumption, NoStsType DEF Init, TypeOK, PodType, Names, Clusters
<1>2. TypeOK /\ [Next]_vars => TypeOK'
  <2> SUFFICES ASSUME TypeOK, [Next]_vars PROVE TypeOK'
    OBVIOUS
  <2> USE ConstantsAssumption DEF TypeOK, pass, fe, Edit, Fault
  <2>1. CASE LoseFE
    <3>1. feUp' \in BOOLEAN /\ UNCHANGED <<cr, sts, pods, nodes, inFE, dangling, pc, expect, listed, edits>>
      BY <2>1, Zenon DEF LoseFE
    <3>2. faults' \in 0 .. MaxFaults
      BY <2>1 DEF LoseFE
    <3> QED BY <3>1, <3>2
  <2>2. ASSUME NEW o \in Owners, Scale(o) \/ DeleteWarehouse(o) PROVE TypeOK'
    BY <2>2 DEF Scale, DeleteWarehouse
  <2>3. ASSUME NEW o \in Owners, GarbageCollect(o) PROVE TypeOK'
    <3>1. sts' \in [Owners -> StsType]
      BY <2>3, NoStsType DEF GarbageCollect, StsType
    <3> QED BY <2>3, <3>1 DEF GarbageCollect
  <2>4. ASSUME NEW o \in Owners, NEW i \in Ordinals,
               CreatePod(o, i) \/ RemovePod(o, i) \/ EvictPod(o, i) \/ Register(o, i)
        PROVE  TypeOK'
    <3>1. pods' \in [Owners -> [Ordinals -> PodType]]
      BY <2>4 DEF CreatePod, RemovePod, EvictPod, Register, SetPod, PodType
    <3>2. nodes' \subseteq Nodes /\ inFE' \subseteq Names
      BY <2>4 DEF CreatePod, RemovePod, EvictPod, Register, Nodes, Names
    <3> QED BY <2>4, <3>1, <3>2 DEF CreatePod, RemovePod, EvictPod, Register
  <2>5. ASSUME NEW o \in Owners, FeIsNotReady(o) PROVE TypeOK'
    BY <2>5 DEF FeIsNotReady, vars
  <2>6. ASSUME NEW o \in Owners, SyncWarehouse(o) PROVE TypeOK'
    BY <2>6 DEF SyncWarehouse
  <2>7. ASSUME NEW o \in Owners, ApplyStatefulSet(o) PROVE TypeOK'
    <3>1. sts' \in [Owners -> StsType]
      <4> DEFINE fin == IF Exists(o) THEN sts[o].finalizer ELSE o \in Warehouses
                 new == [replicas |-> expect[o], deleting |-> FALSE, finalizer |-> fin]
      <4>1. sts' = [sts EXCEPT ![o] = new]
        BY <2>7 DEF ApplyStatefulSet
      <4>2. sts[o].finalizer \in BOOLEAN /\ expect[o] \in 0 .. MaxReplicas
        BY DEF StsType
      <4>3. fin \in BOOLEAN
        <5>1. (o \in Warehouses) = TRUE \/ (o \in Warehouses) = FALSE
          OBVIOUS
        <5>2. CASE Exists(o)
          BY <4>2, <5>2, Zenon
        <5>3. CASE ~Exists(o)
          BY <5>1, <5>3, Zenon
        <5> QED BY <5>2, <5>3
      <4> HIDE DEF fin
      <4>4. new \in StsType
        BY <4>2, <4>3 DEF StsType
      <4> QED BY <4>1, <4>4
    <3> QED BY <2>7, <3>1 DEF ApplyStatefulSet
  <2>8. ASSUME NEW o \in Owners, ReleaseDeleted(o) PROVE TypeOK'
    <3>1. sts' \in [Owners -> StsType]
      BY <2>8, NoStsType DEF ReleaseDeleted
    <3> QED BY <2>8, <3>1, EndPassType DEF ReleaseDeleted
  <2>9. ASSUME NEW o \in Owners, CheckPods(o) \/ SyncDone(o) \/ PassFails(o) PROVE TypeOK'
    <3>1. CASE EndPass(o)
      BY <2>9, <3>1, EndPassType DEF CheckPods, SyncDone, PassFails
    <3>2. CASE ~EndPass(o)
      BY <2>9, <3>2 DEF CheckPods, SyncDone, PassFails
    <3> QED BY <3>1, <3>2
  <2>10. ASSUME NEW o \in Owners, QueryShowComputeNodes(o) PROVE TypeOK'
    <3>1. CASE EndPass(o)
      BY <2>10, <3>1, EndPassType DEF QueryShowComputeNodes
    <3>2. CASE ~EndPass(o)
      <4>1. ComputeNodes(o) \in SUBSET Nodes
        BY DEF ComputeNodes
      <4>2. /\ pc' = [pc EXCEPT ![o] = "drop"]
            /\ listed' = [listed EXCEPT ![o] = ComputeNodes(o)]
            /\ UNCHANGED <<cr, sts, pods, fe, expect, edits, faults>>
        BY <2>10, <3>2 DEF QueryShowComputeNodes
      <4> QED BY <4>1, <4>2
    <3> QED BY <3>1, <3>2
  <2>11. ASSUME NEW o \in Owners, ExecuteDropComputeNode(o) PROVE TypeOK'
    <3>1. CASE EndPass(o)
      BY <2>11, <3>1, EndPassType DEF ExecuteDropComputeNode
    <3>2. CASE ~EndPass(o)
      BY <2>11, <3>2 DEF ExecuteDropComputeNode
    <3> QED BY <3>1, <3>2
  <2>12. ASSUME NEW o \in Owners, ExecuteDropWarehouse(o) PROVE TypeOK'
    BY <2>12 DEF ExecuteDropWarehouse, Dropped
  <2>13. ASSUME NEW o \in Owners, RemoveFinalizer(o) PROVE TypeOK'
    <3>1. sts' \in [Owners -> StsType]
      BY <2>13, NoStsType DEF RemoveFinalizer, StsType
    <3> QED BY <2>13, <3>1, EndPassType DEF RemoveFinalizer
  <2>14. ASSUME NEW o \in Owners, BreakReference(o) \/ RestoreReference(o) PROVE TypeOK'
    BY <2>14 DEF BreakReference, RestoreReference
  <2>15. ASSUME NEW o \in Owners, ExecutorFails(o) PROVE TypeOK'
    BY <2>15 DEF ExecutorFails, vars
  <2>16. CASE UNCHANGED vars
    BY <2>16 DEF vars
  <2> QED
    BY <2>1, <2>2, <2>3, <2>4, <2>5, <2>6, <2>7, <2>8, <2>9, <2>10, <2>11, <2>12, <2>13, <2>14,
       <2>15, <2>16
    DEF Next, Operator, PodProgress
<1> QED BY <1>1, <1>2, PTL DEF Spec

-----------------------------------------------------------------------------
(* The nodes of an owner are told apart from those of the others *)

\* No two owners use the same warehouse of FE.
NamesDiffer == \A o, w \in Owners : FeName[o] = FeName[w] => o = w

\* What a pass knows of its StatefulSet once it has applied it: nobody but the
\* pass itself changes the replicas, and the garbage collector takes all of it.
\* What it has listed are nodes of its own warehouse.
PassOf(o) ==
  /\ pc[o] \in {"pods", "show", "drop"} => sts[o].replicas \in {expect[o], 0}
  /\ \A n \in listed[o] : FeName[n.owner] = FeName[o]

PassInv == \A o \in Owners : PassOf(o)

\* Nodes of one owner with an index of at most i are at most i + 1.
LEMMA NodesUpTo ==
  ASSUME NEW o, NEW i \in Nat, NEW S,
         \A n \in S : \E k \in 0 .. i : n = [owner |-> o, index |-> k]
  PROVE  IsFiniteSet(S) /\ Cardinality(S) \in Nat /\ Cardinality(S) <= i + 1
<1> DEFINE T == {k \in 0 .. i : [owner |-> o, index |-> k] \in S}
           f == [k \in T |-> [owner |-> o, index |-> k]]
<1>1. IsFiniteSet(0 .. i) /\ Cardinality(0 .. i) = i + 1
  BY FS_Interval
<1>2. T \in SUBSET (0 .. i)
  OBVIOUS
<1>3. IsFiniteSet(T) /\ Cardinality(T) <= i + 1
  BY <1>1, <1>2, FS_Subset
<1>4. f \in Surjection(T, S)
  BY DEF Surjection
<1>5. IsFiniteSet(S) /\ Cardinality(S) <= Cardinality(T)
  BY <1>3, <1>4, FS_Surjection
<1>6. Cardinality(S) \in Nat /\ Cardinality(T) \in Nat
  BY <1>3, <1>5, FS_CardinalityType
<1> QED BY <1>3, <1>5, <1>6

\* The last node of a surplus has an index beyond the replicas.
LEMMA LastIsSurplus ==
  ASSUME TypeOK, PassInv, NamesDiffer, NEW o \in Owners, Surplus(o), NEW n \in Last(listed[o])
  PROVE  n \in Nodes /\ n.owner = o /\ n.index >= expect[o]
<1>1. listed[o] \subseteq Nodes /\ expect[o] \in Nat /\ n \in listed[o]
  BY ConstantsAssumption DEF TypeOK, Last
<1>2. \A m \in listed[o] : m.owner = o
  BY <1>1 DEF PassInv, PassOf, NamesDiffer, Nodes
<1>3. n.index \in Nat /\ \A m \in listed[o] : m.index \in Nat /\ m.index <= n.index
  BY <1>1, ConstantsAssumption DEF Last, Nodes, Ordinals
<1>4. \A m \in listed[o] : \E k \in 0 .. n.index : m = [owner |-> o, index |-> k]
  <2> TAKE m \in listed[o]
  <2>1. m = [owner |-> m.owner, index |-> m.index]
    BY <1>1 DEF Nodes
  <2> QED BY <2>1, <1>2, <1>3
<1>5. Cardinality(listed[o]) \in Nat /\ Cardinality(listed[o]) <= n.index + 1
  BY <1>3, <1>4, NodesUpTo
<1> QED BY <1>1, <1>2, <1>3, <1>5 DEF Surplus

\* A pass that ends knows nothing.
LEMMA EndPassOf ==
  ASSUME TypeOK, NEW o \in Owners, EndPass(o)
  PROVE  /\ PassOf(o)'
         /\ \A w \in Owners \ {o} : pc'[w] = pc[w] /\ expect'[w] = expect[w] /\ listed'[w] = listed[w]
BY DEF TypeOK, EndPass, PassOf

\* A pass is not disturbed by what leaves its variables and its StatefulSet
\* alone, or removes the StatefulSet.
LEMMA PassOfKept ==
  ASSUME TypeOK, NEW o \in Owners, PassOf(o),
         pc'[o] = pc[o], expect'[o] = expect[o], listed'[o] \subseteq listed[o],
         sts'[o].replicas \in {sts[o].replicas, 0}
  PROVE  PassOf(o)'
BY DEF PassOf

LEMMA PassInductive == Spec => []PassInv
<1>1. Init => PassInv
  BY DEF Init, PassInv, PassOf
<1>2. TypeOK /\ PassInv /\ [Next]_vars => PassInv'
  <2> SUFFICES ASSUME TypeOK, PassInv, [Next]_vars, NEW w \in Owners PROVE PassOf(w)'
    BY DEF PassInv
  <2> USE DEF pass, fe
  <2>0. PassOf(w)
    BY DEF PassInv
  <2>1. ASSUME UNCHANGED <<pass, sts>> PROVE PassOf(w)'
    BY <2>0, <2>1, PassOfKept
  <2>2. ASSUME NEW o \in Owners, GarbageCollect(o) PROVE PassOf(w)'
    <3>1. sts'[w].replicas \in {sts[w].replicas, 0}
      BY <2>2 DEF GarbageCollect, TypeOK, StsType, NoSts
    <3> QED BY <2>0, <2>2, <3>1, PassOfKept DEF GarbageCollect
  <2>3. ASSUME NEW o \in Owners, SyncWarehouse(o) PROVE PassOf(w)'
    BY <2>0, <2>3 DEF SyncWarehouse, TypeOK, PassOf
  <2>4. ASSUME NEW o \in Owners, ApplyStatefulSet(o) PROVE PassOf(w)'
    BY <2>0, <2>4 DEF ApplyStatefulSet, TypeOK, PassOf
  <2>5. ASSUME NEW o \in Owners, EndPass(o), sts'[w] = sts[w] \/ w = o PROVE PassOf(w)'
    BY <2>0, <2>5, EndPassOf, PassOfKept
  <2>6. ASSUME NEW o \in Owners, ReleaseDeleted(o) \/ RemoveFinalizer(o) PROVE PassOf(w)'
    BY <2>5, <2>6 DEF ReleaseDeleted, RemoveFinalizer, TypeOK
  <2>7. ASSUME NEW o \in Owners, SyncDone(o) \/ PassFails(o) PROVE PassOf(w)'
    BY <2>5, <2>7 DEF SyncDone, PassFails
  <2>8. ASSUME NEW o \in Owners, CheckPods(o) PROVE PassOf(w)'
    <3>1. CASE EndPass(o)
      BY <2>5, <2>8, <3>1 DEF CheckPods
    <3>2. CASE ~EndPass(o)
      BY <2>0, <2>8, <3>2 DEF CheckPods, TypeOK, PassOf
    <3> QED BY <3>1, <3>2
  <2>9. ASSUME NEW o \in Owners, QueryShowComputeNodes(o) PROVE PassOf(w)'
    <3>1. CASE EndPass(o)
      BY <2>5, <2>9, <3>1 DEF QueryShowComputeNodes
    <3>2. CASE ~EndPass(o)
      BY <2>0, <2>9, <3>2 DEF QueryShowComputeNodes, ComputeNodes, TypeOK, PassOf
    <3> QED BY <3>1, <3>2
  <2>10. ASSUME NEW o \in Owners, ExecuteDropComputeNode(o) PROVE PassOf(w)'
    <3>1. CASE EndPass(o)
      BY <2>5, <2>10, <3>1 DEF ExecuteDropComputeNode
    <3>2. CASE ~EndPass(o)
      <4>1. UNCHANGED <<pc, expect, sts>> /\ listed'[w] \subseteq listed[w]
        BY <2>10, <3>2 DEF ExecuteDropComputeNode, TypeOK
      <4> QED BY <2>0, <4>1, PassOfKept
    <3> QED BY <3>1, <3>2
  <2>11. ASSUME NEW o \in Owners, ExecuteDropWarehouse(o) PROVE PassOf(w)'
    BY <2>0, <2>11 DEF ExecuteDropWarehouse, TypeOK, PassOf
  <2>12. CASE LoseFE \/ \E o \in Owners : \/ Scale(o) \/ DeleteWarehouse(o) \/ FeIsNotReady(o)
                                          \/ BreakReference(o) \/ RestoreReference(o)
                                          \/ ExecutorFails(o)
                                          \/ \E i \in Ordinals : PodProgress(o, i) \/ EvictPod(o, i)
    BY <2>1, <2>12
    DEF LoseFE, Scale, DeleteWarehouse, FeIsNotReady, BreakReference, RestoreReference,
        ExecutorFails, vars, PodProgress, CreatePod, RemovePod, Register, EvictPod
  <2>13. CASE UNCHANGED vars
    BY <2>1, <2>13 DEF vars
  <2> QED
    BY <2>2, <2>3, <2>4, <2>6, <2>7, <2>8, <2>9, <2>10, <2>11, <2>12, <2>13 DEF Next, Operator
<1> QED BY <1>1, <1>2, TypeCorrect, PTL DEF Spec

\* The surplus of an owner is never taken out of the nodes of another, nor out
\* of the nodes its StatefulSet asks for, whatever is edited, fails or is
\* deleted between the calls of SyncComputeNodesInFE: as long as no two owners
\* use the same warehouse of FE.
THEOREM NoWantedNodeDroppedCorrect ==
  ASSUME NamesDiffer
  PROVE  Spec => NoWantedNodeDropped
<1>1. TypeOK /\ PassInv /\ [Next]_vars =>
        [\A n \in nodes \ nodes' :
           \/ n.index >= sts[n.owner].replicas
           \/ FeName[n.owner] \notin inFE']_vars
  <2> SUFFICES ASSUME TypeOK, PassInv, Next, NEW n \in nodes \ nodes'
               PROVE  n.index >= sts[n.owner].replicas \/ FeName[n.owner] \notin inFE'
    BY DEF vars
  <2> USE DEF pass, fe
  <2>1. ASSUME nodes \subseteq nodes' PROVE FALSE
    BY <2>1
  <2>2. ASSUME NEW o \in Owners, ExecuteDropComputeNode(o)
        PROVE  n.index >= sts[n.owner].replicas
    <3>1. n \in Last(listed[o]) /\ pc[o] = "drop" /\ Surplus(o)
      BY <2>2 DEF ExecuteDropComputeNode
    <3>2. n \in Nodes /\ n.owner = o /\ n.index >= expect[o]
      BY <3>1, LastIsSurplus
    <3>3. sts[o].replicas \in {expect[o], 0}
      BY <3>1 DEF PassInv, PassOf
    <3>4. n.index \in Nat
      BY <3>2, ConstantsAssumption DEF Nodes, Ordinals
    <3> QED BY <3>2, <3>3, <3>4
  <2>3. ASSUME NEW o \in Owners, ExecuteDropWarehouse(o)
        PROVE  FeName[n.owner] \notin inFE'
    BY <2>3 DEF ExecuteDropWarehouse, Dropped, ComputeNodes
  <2>4. CASE LoseFE
    BY <2>1, <2>4 DEF LoseFE
  <2>5. ASSUME NEW o \in Owners, NEW i \in Ordinals, PodProgress(o, i) \/ EvictPod(o, i)
        PROVE  FALSE
    BY <2>1, <2>5 DEF PodProgress, CreatePod, RemovePod, Register, EvictPod
  <2>6. ASSUME NEW o \in Owners, Scale(o) \/ DeleteWarehouse(o) \/ GarbageCollect(o)
                 \/ FeIsNotReady(o) \/ SyncWarehouse(o) \/ ApplyStatefulSet(o)
                 \/ ReleaseDeleted(o) \/ CheckPods(o) \/ QueryShowComputeNodes(o)
                 \/ SyncDone(o) \/ RemoveFinalizer(o) \/ PassFails(o) \/ ExecutorFails(o)
                 \/ BreakReference(o) \/ RestoreReference(o)
        PROVE  FALSE
    BY <2>1, <2>6
    DEF Scale, DeleteWarehouse, GarbageCollect, FeIsNotReady, vars, SyncWarehouse, ApplyStatefulSet,
        ReleaseDeleted, CheckPods, QueryShowComputeNodes, SyncDone, RemoveFinalizer, PassFails,
        ExecutorFails, BreakReference, RestoreReference
  <2> QED BY <2>2, <2>3, <2>4, <2>5, <2>6 DEF Next, Operator
<1> QED BY <1>1, TypeCorrect, PassInductive, PTL DEF Spec, NoWantedNodeDropped

-----------------------------------------------------------------------------
(* What FE knows follows the catalog *)

\* Only a warehouse is ever deleted, for good, and a StatefulSet is deleted or
\* cleared only after its owner.  A pass applies replicas it has read.
DeletedOf(o) ==
  /\ cr[o] = 0 => o \in Warehouses
  /\ sts[o].deleting => cr[o] = 0
  /\ pc[o] = "clear" => cr[o] = 0
  /\ pc[o] = "apply" => expect[o] # 0

DeletedInv == \A o \in Owners : DeletedOf(o)

LEMMA DeletedOfKept ==
  ASSUME NEW o \in Owners, DeletedOf(o), cr'[o] = cr[o],
         sts'[o].deleting => sts[o].deleting,
         pc'[o] = pc[o] \/ pc'[o] \notin {"clear", "apply"}, expect'[o] = expect[o] \/ pc'[o] = "idle"
  PROVE  DeletedOf(o)'
BY DEF DeletedOf

LEMMA DeletedInductive == Spec => []DeletedInv
<1>1. Init => DeletedInv
  BY ConstantsAssumption DEF Init, DeletedInv, DeletedOf, NoSts
<1>2. TypeOK /\ DeletedInv /\ [Next]_vars => DeletedInv'
  <2> SUFFICES ASSUME TypeOK, DeletedInv, [Next]_vars, NEW w \in Owners PROVE DeletedOf(w)'
    BY DEF DeletedInv
  <2> USE DEF pass, fe
  <2>0. DeletedOf(w)
    BY DEF DeletedInv
  <2>1. ASSUME UNCHANGED <<cr, sts, pass>> PROVE DeletedOf(w)'
    BY <2>0, <2>1, DeletedOfKept
  <2>2. ASSUME NEW o \in Owners, EndPass(o), UNCHANGED cr, sts'[w].deleting => sts[w].deleting
        PROVE  DeletedOf(w)'
    <3>1. /\ pc'[w] = pc[w] \/ pc'[w] = "idle"
          /\ expect'[w] = expect[w] \/ pc'[w] = "idle"
      BY <2>2 DEF EndPass, TypeOK
    <3> QED BY <2>0, <2>2, <3>1, DeletedOfKept
  <2>3. ASSUME NEW o \in Owners, Scale(o) \/ DeleteWarehouse(o) PROVE DeletedOf(w)'
    BY <2>0, <2>3, ConstantsAssumption DEF Scale, DeleteWarehouse, DeletedOf, TypeOK
  <2>4. ASSUME NEW o \in Owners, GarbageCollect(o) PROVE DeletedOf(w)'
    <3>1. UNCHANGED <<cr, pc, expect>> /\ (sts'[w].deleting => cr[w] = 0)
      BY <2>0, <2>4 DEF GarbageCollect, DeletedOf, TypeOK, StsType, NoSts
    <3> QED BY <2>0, <3>1 DEF DeletedOf
  <2>5. ASSUME NEW o \in Owners, SyncWarehouse(o) PROVE DeletedOf(w)'
    BY <2>0, <2>5 DEF SyncWarehouse, DeletedOf, TypeOK
  <2>6. ASSUME NEW o \in Owners, ApplyStatefulSet(o) PROVE DeletedOf(w)'
    <3>1. UNCHANGED <<cr, expect>> /\ (pc'[w] = pc[w] \/ pc'[w] = "pods")
      BY <2>6 DEF ApplyStatefulSet, TypeOK
    <3>2. sts'[w] = sts[w] \/ sts'[w].deleting = FALSE
      BY <2>6 DEF ApplyStatefulSet, TypeOK
    <3> QED BY <2>0, <3>1, <3>2, DeletedOfKept
  <2>7. ASSUME NEW o \in Owners, ReleaseDeleted(o) \/ RemoveFinalizer(o) PROVE DeletedOf(w)'
    <3>1. sts'[w].deleting => sts[w].deleting
      BY <2>7 DEF ReleaseDeleted, RemoveFinalizer, TypeOK, StsType, NoSts
    <3> QED BY <2>2, <2>7, <3>1 DEF ReleaseDeleted, RemoveFinalizer
  <2>8. ASSUME NEW o \in Owners, SyncDone(o) \/ PassFails(o) PROVE DeletedOf(w)'
    BY <2>2, <2>8 DEF SyncDone, PassFails
  <2>9. ASSUME NEW o \in Owners,
               CheckPods(o) \/ QueryShowComputeNodes(o) \/ ExecuteDropComputeNode(o)
        PROVE  DeletedOf(w)'
    <3>1. CASE EndPass(o)
      BY <2>2, <2>9, <3>1 DEF CheckPods, QueryShowComputeNodes, ExecuteDropComputeNode
    <3>2. CASE ~EndPass(o)
      <4>1. UNCHANGED <<cr, sts, expect>> /\ (pc'[w] = pc[w] \/ pc'[w] \in {"show", "drop"})
        BY <2>9, <3>2 DEF CheckPods, QueryShowComputeNodes, ExecuteDropComputeNode, TypeOK
      <4> QED BY <2>0, <4>1, DeletedOfKept
    <3> QED BY <3>1, <3>2
  <2>10. ASSUME NEW o \in Owners, ExecuteDropWarehouse(o) PROVE DeletedOf(w)'
    BY <2>0, <2>10 DEF ExecuteDropWarehouse, DeletedOf, TypeOK
  <2>11. CASE LoseFE \/ \E o \in Owners : \/ FeIsNotReady(o) \/ ExecutorFails(o)
                                          \/ BreakReference(o) \/ RestoreReference(o)
                                          \/ \E i \in Ordinals : PodProgress(o, i) \/ EvictPod(o, i)
    BY <2>1, <2>11
    DEF LoseFE, FeIsNotReady, ExecutorFails, BreakReference, RestoreReference, vars, PodProgress,
        CreatePod, RemovePod, Register, EvictPod
  <2>12. CASE UNCHANGED vars
    BY <2>1, <2>12 DEF vars
  <2> QED
    BY <2>3, <2>4, <2>5, <2>6, <2>7, <2>8, <2>9, <2>10, <2>11, <2>12 DEF Next, Operator
<1> QED BY <1>1, <1>2, TypeCorrect, PTL DEF Spec

\* What the catalog sees of the StatefulSets and of the custom resources.
Wanted  == [o \in Owners |-> sts[o].replicas]
Deleted == {o \in Owners : cr[o] = 0}

\* A StatefulSet that goes is withdrawn, once its owner is deleted.
LEMMA WithdrawStep ==
  ASSUME TypeOK, DeletedInv, NEW o \in Owners, cr[o] = 0,
         sts' = [sts EXCEPT ![o] = NoSts], UNCHANGED <<cr, nodes, inFE>>
  PROVE  o \in Warehouses /\ Catalog!Withdraw(o)
<1>1. o \in Warehouses
  BY DEF DeletedInv, DeletedOf
<1>2. Wanted' = [Wanted EXCEPT ![o] = 0]
  BY DEF Wanted, NoSts, TypeOK
<1> QED BY <1>1, <1>2 DEF Catalog!Withdraw, Wanted

\* Every step is a step of the catalog, or changes nothing that it sees.
LEMMA CatalogStep ==
  ASSUME TypeOK, PassInv, DeletedInv, NamesDiffer, [Next]_vars
  PROVE  [Catalog!Next]_Catalog!vars
<1> SUFFICES Catalog!Next \/ UNCHANGED <<Wanted, Deleted, nodes, inFE>>
  BY DEF Catalog!vars, Wanted, Deleted
<1> USE DEF pass, fe
<1>1. ASSUME UNCHANGED <<cr, sts, nodes, inFE>> PROVE UNCHANGED <<Wanted, Deleted, nodes, inFE>>
  BY <1>1 DEF Wanted, Deleted
<1>2. ASSUME NEW o \in Owners, Scale(o) PROVE UNCHANGED <<Wanted, Deleted, nodes, inFE>>
  <2>1. Deleted' = Deleted
    BY <1>2 DEF Scale, Deleted, TypeOK
  <2> QED BY <1>2, <2>1 DEF Scale, Wanted
<1>3. ASSUME NEW o \in Owners, DeleteWarehouse(o) PROVE Catalog!Next
  <2>1. Deleted' = Deleted \cup {o}
    BY <1>3 DEF DeleteWarehouse, Deleted, TypeOK
  <2>2. Catalog!Delete(o)
    BY <1>3, <2>1 DEF DeleteWarehouse, Catalog!Delete, Deleted
  <2> QED BY <1>3, <2>2 DEF DeleteWarehouse, Catalog!Next
<1>4. ASSUME NEW o \in Owners, GarbageCollect(o)
      PROVE  Catalog!Next \/ UNCHANGED <<Wanted, Deleted, nodes, inFE>>
  <2>1. CASE sts[o].finalizer
    <3>1. sts' = [sts EXCEPT ![o] = [@ EXCEPT !.deleting = TRUE]]
      BY <1>4, <2>1 DEF GarbageCollect
    <3>2. Wanted' = Wanted
      BY <3>1 DEF Wanted, TypeOK, StsType
    <3> QED BY <1>4, <3>2 DEF GarbageCollect, Deleted
  <2>2. CASE ~sts[o].finalizer
    BY <1>4, <2>2, WithdrawStep DEF GarbageCollect, Catalog!Next
  <2> QED BY <2>1, <2>2
<1>5. ASSUME NEW o \in Owners, NEW i \in Ordinals, Register(o, i) PROVE Catalog!Next
  <2>1. Catalog!Join(o, i)
    BY <1>5 DEF Register, Catalog!Join
  <2> QED BY <2>1 DEF Catalog!Next, Ordinals
<1>6. ASSUME NEW o \in Owners, ApplyStatefulSet(o) PROVE Catalog!Next
  <2>1. PICK r \in 1 .. MaxReplicas : r = expect[o]
    BY <1>6, ConstantsAssumption DEF ApplyStatefulSet, DeletedInv, DeletedOf, TypeOK
  <2>2. sts'[o].replicas = r /\ \A w \in Owners \ {o} : sts'[w] = sts[w]
    BY <1>6, <2>1 DEF ApplyStatefulSet, TypeOK
  <2>3. Wanted' = [Wanted EXCEPT ![o] = r]
    BY <2>2 DEF Wanted
  <2>4. Catalog!Deploy(o, r)
    BY <1>6, <2>3 DEF ApplyStatefulSet, Catalog!Deploy, Wanted, Deleted
  <2> QED BY <2>4 DEF Catalog!Next
<1>7. ASSUME NEW o \in Owners, ReleaseDeleted(o) PROVE Catalog!Next
  <2>1. cr[o] = 0
    BY <1>7 DEF ReleaseDeleted, DeletedInv, DeletedOf
  <2> QED BY <1>7, <2>1, WithdrawStep DEF ReleaseDeleted, Catalog!Next
<1>8. ASSUME NEW o \in Owners, RemoveFinalizer(o)
      PROVE  Catalog!Next \/ UNCHANGED <<Wanted, Deleted, nodes, inFE>>
  <2>1. CASE sts[o].deleting
    <3>1. cr[o] = 0
      BY <2>1 DEF DeletedInv, DeletedOf
    <3> QED BY <1>8, <2>1, <3>1, WithdrawStep DEF RemoveFinalizer, Catalog!Next
  <2>2. CASE ~sts[o].deleting
    <3>1. sts' = [sts EXCEPT ![o] = [@ EXCEPT !.finalizer = FALSE]]
      BY <1>8, <2>2 DEF RemoveFinalizer
    <3>2. Wanted' = Wanted
      BY <3>1 DEF Wanted, TypeOK, StsType
    <3> QED BY <1>8, <3>2 DEF RemoveFinalizer, Deleted
  <2> QED BY <2>1, <2>2
<1>9. ASSUME NEW o \in Owners, ExecuteDropComputeNode(o)
      PROVE  Catalog!Next \/ UNCHANGED <<Wanted, Deleted, nodes, inFE>>
  <2>1. PICK n \in Last(listed[o]) : nodes' = nodes \ {n}
    BY <1>9 DEF ExecuteDropComputeNode
  <2>2. CASE n \notin nodes
    BY <1>1, <1>9, <2>1, <2>2 DEF ExecuteDropComputeNode
  <2>3. CASE n \in nodes
    <3>1. n \in Nodes /\ n.owner = o /\ n.index >= expect[o]
      BY <1>9, <2>1, LastIsSurplus DEF ExecuteDropComputeNode
    <3>2. sts[o].replicas \in {expect[o], 0} /\ n.index \in Nat
      BY <1>9, <3>1, ConstantsAssumption DEF ExecuteDropComputeNode, PassInv, PassOf, Nodes, Ordinals
    <3>3. n.index >= Wanted[n.owner]
      BY <3>1, <3>2 DEF Wanted
    <3>4. Catalog!Leave(n)
      BY <1>9, <2>1, <3>3 DEF ExecuteDropComputeNode, Catalog!Leave, Wanted
    <3> QED BY <2>3, <3>4 DEF Catalog!Next
  <2> QED BY <2>2, <2>3
<1>10. ASSUME NEW o \in Owners, ExecuteDropWarehouse(o)
       PROVE  Catalog!Next \/ UNCHANGED <<Wanted, Deleted, nodes, inFE>>
  <2>1. CASE ~CanDrop(o)
    BY <1>1, <1>10, <2>1 DEF ExecuteDropWarehouse, Dropped
  <2>2. CASE CanDrop(o)
    <3>1. Wanted[o] # 0 /\ o \in Deleted /\ FeName[o] \notin Catalog!ClusterNames
      BY <1>10, <2>2
      DEF ExecuteDropWarehouse, Executor, Exists, CanDrop, Clusters, Wanted, Deleted, Catalog!ClusterNames
    <3>2. nodes' = {n \in nodes : FeName[n.owner] # FeName[o]} /\ inFE' = inFE \ {FeName[o]}
      BY <1>10, <2>2 DEF ExecuteDropWarehouse, Dropped, ComputeNodes
    <3>3. Catalog!LeaveTogether(o)
      BY <1>10, <3>1, <3>2 DEF ExecuteDropWarehouse, Catalog!LeaveTogether, Wanted, Deleted
    <3> QED BY <1>10, <3>3 DEF ExecuteDropWarehouse, Catalog!Next
  <2> QED BY <2>1, <2>2
<1>11. ASSUME NEW o \in Owners, FeIsNotReady(o) \/ SyncWarehouse(o) \/ CheckPods(o)
                \/ QueryShowComputeNodes(o) \/ SyncDone(o) \/ PassFails(o) \/ ExecutorFails(o)
                \/ BreakReference(o) \/ RestoreReference(o)
       PROVE  UNCHANGED <<Wanted, Deleted, nodes, inFE>>
  BY <1>1, <1>11
  DEF FeIsNotReady, vars, SyncWarehouse, CheckPods, QueryShowComputeNodes, SyncDone, PassFails,
      ExecutorFails, BreakReference, RestoreReference
<1>12. CASE \/ LoseFE
            \/ \E o \in Owners : \E i \in Ordinals : CreatePod(o, i) \/ RemovePod(o, i) \/ EvictPod(o, i)
            \/ UNCHANGED vars
  BY <1>1, <1>12 DEF LoseFE, CreatePod, RemovePod, EvictPod, vars
<1> QED
  BY <1>2, <1>3, <1>4, <1>5, <1>6, <1>7, <1>8, <1>9, <1>10, <1>11, <1>12 DEF Next, Operator, PodProgress

\* Whatever overlaps, fails or is deleted between the calls, FE and Kubernetes
\* see nothing that NodeCatalog does not allow: a compute node leaves FE only
\* when its StatefulSet does not ask for it or with its whole, deleted
\* warehouse, and the StatefulSet that the operator needs for the drop is not
\* taken away from an owner that is still there.
THEOREM CatalogCorrect ==
  ASSUME NamesDiffer
  PROVE  Spec => FollowsCatalog
<1>1. Init => Catalog!Init
  <2> SUFFICES ASSUME Init PROVE Catalog!Init
    OBVIOUS
  <2>1. \A o \in Owners : sts[o].replicas = 0 /\ cr[o] # 0
    BY ConstantsAssumption DEF Init, NoSts
  <2> QED BY <2>1 DEF Init, Catalog!Init, Catalog!ClusterNames, Clusters
<1>2. TypeOK /\ PassInv /\ DeletedInv /\ [Next]_vars => [Catalog!Next]_Catalog!vars
  BY CatalogStep
<1> QED
  BY <1>1, <1>2, TypeCorrect, PassInductive, DeletedInductive, PTL
  DEF Spec, FollowsCatalog, Catalog!Spec
=============================================================================
