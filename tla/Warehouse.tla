------------------------------ MODULE Warehouse ------------------------------
(***************************************************************************)
(* Compute nodes and warehouses.  An owner of compute nodes is the CN part *)
(* of a StarRocksCluster or a StarRocksWarehouse; each has a StatefulSet.  *)
(* A CN pod registers itself in FE, in a warehouse of FE, when it starts.  *)
(* The operator removes what is left over: SyncCnSpec drops the compute    *)
(* nodes beyond the replicas of the StatefulSet (SyncComputeNodesInFE),    *)
(* ClearWarehouse drops the warehouse of a deleted custom resource and     *)
(* then lets its StatefulSet go, which a finalizer holds until then.       *)
(*                                                                         *)
(* The cluster and the warehouse controller have one worker each, so that  *)
(* passes over a cluster and over a warehouse interleave call by call.     *)
(*                                                                         *)
(* Simplifications: the operator reads custom resources, StatefulSets and  *)
(* pods as they are when it makes the call; services, autoscaler, revision *)
(* and status are left out; a pass that changes nothing is a stutter.      *)
(***************************************************************************)
EXTENDS Naturals, FiniteSets

CONSTANTS
  Owners,        \* owners of compute nodes
  Warehouses,    \* those that are StarRocksWarehouses, the others are clusters
  FeName,        \* name in FE of the warehouse of an owner
  Referring,     \* owners whose StatefulSet takes FE's name or port for the
                 \* environment from a Secret or ConfigMap of the user
  MaxReplicas,   \* bound: replicas a user asks for
  MaxEdits,      \* bound: actions of the user
  MaxFaults      \* bound: failed calls, crashes, evicted pods, loss of FE

ASSUME ConstantsAssumption ==
  /\ Warehouses \subseteq Owners
  /\ DOMAIN FeName = Owners
  /\ Referring \subseteq Owners
  /\ MaxReplicas \in Nat \ {0}
  /\ MaxEdits \in Nat
  /\ MaxFaults \in Nat

VARIABLES
  cr,       \* replicas in the custom resource of an owner, 0 if it is deleted
  sts,      \* the StatefulSet of an owner; replicas = 0 if there is none
  pods,     \* its pods
  nodes,    \* compute nodes that FE knows
  inFE,     \* warehouses that FE has
  feUp,     \* does FE answer?
  dangling, \* those whose Secret or ConfigMap is gone
  pc,       \* the next call of the pass over an owner
  expect,   \* expectReplicas of the pass
  listed,   \* computeNodes of the pass that are still to be looked at
  edits, faults

pass  == <<pc, expect, listed>>
fe    == <<nodes, inFE, feUp, dangling>>
vars  == <<cr, sts, pods, nodes, inFE, feUp, dangling, pc, expect, listed, edits, faults>>

Ordinals == 0 .. MaxReplicas - 1
Nodes    == [owner : Owners, index : Ordinals]
Clusters == Owners \ Warehouses
Names    == {FeName[o] : o \in Owners}
StsType  == [replicas : 0 .. MaxReplicas, finalizer : BOOLEAN, deleting : BOOLEAN]
NoSts    == [replicas |-> 0, finalizer |-> FALSE, deleting |-> FALSE]
PodType  == {"none", "starting", "up"}

TypeOK ==
  /\ cr \in [Owners -> 0 .. MaxReplicas]
  /\ sts \in [Owners -> StsType]
  /\ pods \in [Owners -> [Ordinals -> PodType]]
  /\ nodes \subseteq Nodes
  /\ inFE \subseteq Names
  /\ feUp \in BOOLEAN
  /\ dangling \subseteq Referring
  /\ pc \in [Owners -> {"idle", "apply", "pods", "show", "drop", "clear"}]
  /\ expect \in [Owners -> 0 .. MaxReplicas]
  /\ listed \in [Owners -> SUBSET Nodes]
  /\ edits \in 0 .. MaxEdits
  /\ faults \in 0 .. MaxFaults

Init ==
  /\ cr \in [Owners -> 1 .. MaxReplicas]
  /\ sts = [o \in Owners |-> NoSts]
  /\ pods = [o \in Owners |-> [i \in Ordinals |-> "none"]]
  /\ nodes = {}
  /\ inFE = {FeName[o] : o \in Clusters}
  /\ feUp = TRUE
  /\ dangling = {}
  /\ pc = [o \in Owners |-> "idle"]
  /\ expect = [o \in Owners |-> 0]
  /\ listed = [o \in Owners |-> {}]
  /\ edits = 0 /\ faults = 0

Edit  == edits < MaxEdits /\ edits' = edits + 1
Fault == faults < MaxFaults /\ faults' = faults + 1

-----------------------------------------------------------------------------
(* The user *)

Scale(o) ==
  /\ Edit
  /\ cr[o] # 0
  /\ \E r \in (1 .. MaxReplicas) \ {cr[o]} : cr' = [cr EXCEPT ![o] = r]
  /\ UNCHANGED <<sts, pods, fe, pass, faults>>

DeleteWarehouse(o) ==
  /\ Edit
  /\ o \in Warehouses
  /\ cr[o] # 0
  /\ cr' = [cr EXCEPT ![o] = 0]
  /\ UNCHANGED <<sts, pods, fe, pass, faults>>

\* A Secret or ConfigMap is deleted, with the custom resource for instance.
BreakReference(o) ==
  /\ Edit
  /\ o \in Referring \ dangling
  /\ dangling' = dangling \cup {o}
  /\ UNCHANGED <<cr, sts, pods, nodes, inFE, feUp, pass, faults>>

RestoreReference(o) ==
  /\ o \in dangling
  /\ dangling' = dangling \ {o}
  /\ UNCHANGED <<cr, sts, pods, nodes, inFE, feUp, pass, edits, faults>>

-----------------------------------------------------------------------------
(* Kubernetes and FE (external) *)

Exists(o) == sts[o].replicas # 0

\* The garbage collector deletes what a deleted custom resource owned; a
\* finalizer holds the object back.
GarbageCollect(o) ==
  /\ cr[o] = 0
  /\ Exists(o)
  /\ ~sts[o].deleting
  /\ sts' = [sts EXCEPT ![o] = IF sts[o].finalizer THEN [@ EXCEPT !.deleting = TRUE] ELSE NoSts]
  /\ UNCHANGED <<cr, pods, fe, pass, edits, faults>>

SetPod(o, i, p) == pods' = [pods EXCEPT ![o][i] = p]

CreatePod(o, i) ==
  /\ ~sts[o].deleting
  /\ i < sts[o].replicas
  /\ pods[o][i] = "none"
  /\ SetPod(o, i, "starting")
  /\ UNCHANGED <<cr, sts, fe, pass, edits, faults>>

RemovePod(o, i) ==
  /\ i >= sts[o].replicas
  /\ pods[o][i] # "none"
  /\ SetPod(o, i, "none")
  /\ UNCHANGED <<cr, sts, fe, pass, edits, faults>>

EvictPod(o, i) ==
  /\ Fault
  /\ pods[o][i] # "none"
  /\ SetPod(o, i, "none")
  /\ UNCHANGED <<cr, sts, fe, pass, edits>>

\* The entrypoint of a CN container: it creates the warehouse in FE if there
\* is none and adds the compute node.  (It may have started before a reference
\* was broken.)
Register(o, i) ==
  /\ feUp
  /\ pods[o][i] = "starting"
  /\ SetPod(o, i, "up")
  /\ nodes' = nodes \cup {[owner |-> o, index |-> i]}
  /\ inFE' = inFE \cup {FeName[o]}
  /\ UNCHANGED <<cr, sts, feUp, dangling, pass, edits, faults>>

\* FE is removed, or cannot be reached any more.
LoseFE ==
  /\ Fault
  /\ feUp
  /\ feUp' = FALSE
  /\ UNCHANGED <<cr, sts, pods, nodes, inFE, dangling, pass, edits>>

-----------------------------------------------------------------------------
(* A pass with a custom resource *)

\* One worker for the clusters and one for the warehouses.
WorkerFree(o) ==
  /\ pc[o] = "idle"
  /\ o \in Warehouses => \A w \in Warehouses : pc[w] = "idle"

EndPass(o) ==
  /\ pc' = [pc EXCEPT ![o] = "idle"]
  /\ expect' = [expect EXCEPT ![o] = 0]
  /\ listed' = [listed EXCEPT ![o] = {}]

\* ErrFeIsNotReady: only the status of the custom resource changes.
FeIsNotReady(o) ==
  /\ WorkerFree(o)
  /\ cr[o] # 0
  /\ ~feUp
  /\ UNCHANGED vars

\* mutant: one replica more than the custom resource asks for
SyncWarehouseMutant(o) ==
  /\ WorkerFree(o)
  /\ cr[o] # 0
  /\ feUp
  /\ pc' = [pc EXCEPT ![o] = "apply"]
  /\ expect' = [expect EXCEPT ![o] = cr[o] + 1]
  /\ UNCHANGED <<cr, sts, pods, fe, listed, edits, faults>>

\* The checks before SyncCnSpec have passed.
SyncWarehouse(o) ==
  /\ WorkerFree(o)
  /\ cr[o] # 0
  /\ feUp
  /\ pc' = [pc EXCEPT ![o] = "apply"]
  /\ expect' = [expect EXCEPT ![o] = cr[o]]
  /\ UNCHANGED <<cr, sts, pods, fe, listed, edits, faults>>

\* The StatefulSet is created, or patched to the expected replicas.
ApplyStatefulSet(o) ==
  /\ pc[o] = "apply"
  /\ ~sts[o].deleting
  /\ sts' = [sts EXCEPT ![o] = [replicas |-> expect[o], deleting |-> FALSE,
               finalizer |-> IF Exists(o) THEN sts[o].finalizer ELSE o \in Warehouses]]
  /\ pc' = [pc EXCEPT ![o] = "pods"]
  /\ UNCHANGED <<cr, pods, fe, expect, listed, edits, faults>>

\* A StatefulSet that is being deleted loses its finalizer, and with it goes;
\* the pass then does not find it.
ReleaseDeleted(o) ==
  /\ pc[o] = "apply"
  /\ sts[o].deleting
  /\ sts' = [sts EXCEPT ![o] = NoSts]
  /\ EndPass(o)
  /\ UNCHANGED <<cr, pods, fe, edits, faults>>

PodCount(o) == Cardinality({i \in Ordinals : pods[o][i] # "none"})

\* The replicas asked for, those of the StatefulSet and the pods agree.
AllPodsCreated(o) == sts[o].replicas = expect[o] /\ PodCount(o) = expect[o]

CheckPods(o) ==
  /\ pc[o] = "pods"
  /\ IF AllPodsCreated(o)
     THEN pc' = [pc EXCEPT ![o] = "show"] /\ UNCHANGED <<expect, listed>>
     ELSE EndPass(o)
  /\ UNCHANGED <<cr, sts, pods, fe, edits, faults>>

\* mutant: the nodes of all warehouses are taken together
ComputeNodesMutant(o) == nodes

\* ComputeNodesByWarehouse[warehouseNameInFE]
ComputeNodes(o) == {n \in nodes : FeName[n.owner] = FeName[o]}

\* NewSQLExecutor: it needs the environment of the StatefulSet, and what that
\* refers to.  (A password that cannot be had counts as empty.)
Executor(o) == Exists(o) /\ o \notin dangling

\* SHOW COMPUTE NODES
QueryShowComputeNodes(o) ==
  /\ pc[o] = "show"
  /\ IF feUp /\ Executor(o)
     THEN /\ pc' = [pc EXCEPT ![o] = "drop"]
          /\ listed' = [listed EXCEPT ![o] = ComputeNodes(o)]
          /\ UNCHANGED expect
     ELSE EndPass(o)
  /\ UNCHANGED <<cr, sts, pods, fe, edits, faults>>

\* mutant: an off-by-one, one node more than the replicas is let be
SurplusMutant(o) == Cardinality(listed[o]) > expect[o] + 1

Surplus(o) == Cardinality(listed[o]) > expect[o]

\* mutant: sorted in the other direction
LastMutant(S) == {n \in S : \A m \in S : n.index <= m.index}

\* The nodes that can be last when a list is sorted by index.
Last(S) == {n \in S : \A m \in S : m.index <= n.index}

\* One statement of the loop from the end of the list down to the replicas.
\* A node that is no longer there makes it fail, which ends the pass.
ExecuteDropComputeNode(o) ==
  /\ pc[o] = "drop"
  /\ feUp
  /\ Surplus(o)
  /\ \E n \in Last(listed[o]) :
       /\ nodes' = nodes \ {n}
       /\ IF n \in nodes
          THEN listed' = [listed EXCEPT ![o] = @ \ {n}] /\ UNCHANGED <<pc, expect>>
          ELSE EndPass(o)
  /\ UNCHANGED <<cr, sts, pods, inFE, feUp, dangling, edits, faults>>

SyncDone(o) ==
  /\ pc[o] = "drop"
  /\ ~feUp \/ ~Surplus(o)
  /\ EndPass(o)
  /\ UNCHANGED <<cr, sts, pods, fe, edits, faults>>

-----------------------------------------------------------------------------
(* A pass without a custom resource *)

\* DROP WAREHOUSE is refused for the default warehouse.
CanDrop(o) == feUp /\ FeName[o] \notin {FeName[c] : c \in Clusters}

Dropped(o) ==
  IF CanDrop(o)
  THEN nodes' = nodes \ ComputeNodes(o) /\ inFE' = inFE \ {FeName[o]}
  ELSE UNCHANGED <<nodes, inFE>>

\* mutant: the StatefulSet is kept when the warehouse could not be dropped
ExecuteDropWarehouseMutant(o) ==
  /\ WorkerFree(o)
  /\ o \in Warehouses
  /\ cr[o] = 0
  /\ Executor(o)
  /\ CanDrop(o)
  /\ Dropped(o)
  /\ pc' = [pc EXCEPT ![o] = "clear"]
  /\ UNCHANGED <<cr, sts, pods, feUp, dangling, expect, listed, edits, faults>>

\* Without an executor ClearWarehouse ends.
ExecutorFails(o) ==
  /\ WorkerFree(o)
  /\ o \in Warehouses
  /\ cr[o] = 0
  /\ Exists(o) /\ ~Executor(o)
  /\ UNCHANGED vars

\* The first statement of ClearWarehouse.  That it fails is only logged.
ExecuteDropWarehouse(o) ==
  /\ WorkerFree(o)
  /\ o \in Warehouses
  /\ cr[o] = 0
  /\ Executor(o)
  /\ Dropped(o)
  /\ pc' = [pc EXCEPT ![o] = "clear"]
  /\ UNCHANGED <<cr, sts, pods, feUp, dangling, expect, listed, edits, faults>>

\* The second call removes the finalizer.
RemoveFinalizer(o) ==
  /\ pc[o] = "clear"
  /\ sts' = [sts EXCEPT ![o] = IF sts[o].deleting THEN NoSts ELSE [@ EXCEPT !.finalizer = FALSE]]
  /\ EndPass(o)
  /\ UNCHANGED <<cr, pods, fe, edits, faults>>

-----------------------------------------------------------------------------
\* A call fails, or the operator ends.
PassFails(o) ==
  /\ Fault
  /\ pc[o] # "idle"
  /\ EndPass(o)
  /\ UNCHANGED <<cr, sts, pods, fe, edits>>

Operator(o) ==
  \/ FeIsNotReady(o) \/ SyncWarehouse(o) \/ ApplyStatefulSet(o) \/ ReleaseDeleted(o) \/ CheckPods(o)
  \/ QueryShowComputeNodes(o) \/ ExecuteDropComputeNode(o) \/ SyncDone(o)
  \/ ExecutorFails(o) \/ ExecuteDropWarehouse(o) \/ RemoveFinalizer(o)

PodProgress(o, i) == CreatePod(o, i) \/ RemovePod(o, i) \/ Register(o, i)

Next ==
  \/ LoseFE
  \/ \E o \in Owners :
       \/ Scale(o) \/ DeleteWarehouse(o) \/ GarbageCollect(o)
       \/ BreakReference(o) \/ RestoreReference(o)
       \/ Operator(o) \/ PassFails(o)
       \/ \E i \in Ordinals : PodProgress(o, i) \/ EvictPod(o, i)

Spec == Init /\ [][Next]_vars

\* The periodic resync of custom resources and StatefulSets starts a pass over
\* every owner again and again, and a pass runs to its end.  The work queue is
\* fair to the warehouses that share a worker.
Fairness ==
  \A o \in Owners :
    /\ SF_vars(Operator(o))
    /\ WF_vars(GarbageCollect(o))
    /\ \A i \in Ordinals : WF_vars(PodProgress(o, i))

FairSpec == Spec /\ Fairness

-----------------------------------------------------------------------------
(* Properties *)

\* A compute node that disappears from FE belongs to no pod its StatefulSet
\* asks for, or its whole warehouse was dropped: the surplus of one owner is
\* never taken out of the nodes of another, nor out of the wanted ones.
NoWantedNodeDropped ==
  [][\A n \in nodes \ nodes' :
       \/ n.index >= sts[n.owner].replicas
       \/ FeName[n.owner] \notin inFE']_vars

\* FE and Kubernetes see what NodeCatalog promises, call by call of passes that
\* overlap with edits, failures, the garbage collector and each other.
Catalog == INSTANCE NodeCatalog WITH
  wanted  <- [o \in Owners |-> sts[o].replicas],
  deleted <- {o \in Owners : cr[o] = 0}

FollowsCatalog == Catalog!Spec

\* FE does not keep compute nodes of pods that were scaled away, as long as
\* it answers and can be found, and the owner is there.
SurplusNodesGo ==
  \A o \in Owners :
    <>[](cr[o] # 0 /\ feUp /\ o \notin dangling) => <>[](\A n \in nodes : n.owner = o => n.index < cr[o])

\* The StatefulSet of a deleted warehouse goes, finalizer or not, also when FE
\* is gone for good: unless its environment refers to what is not there.
DeletedWarehouseGoes ==
  \A o \in Warehouses : <>[](cr[o] = 0 /\ o \notin dangling) => <>[](~Exists(o))

\* cn_controller.go, on an error of DROP WAREHOUSE: "we want to delete the
\* statefulset anyway".
DeletedWarehouseGoesAnyway ==
  \A o \in Warehouses : <>[](cr[o] = 0) => <>[](~Exists(o))
=============================================================================
