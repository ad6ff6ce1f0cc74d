----------------------------- MODULE NodeCatalog -----------------------------
(***************************************************************************)
(* What the operator promises about the compute nodes and warehouses that  *)
(* FE knows: a node leaves by itself only when the StatefulSet of its      *)
(* owner does not ask for it; all nodes of a warehouse leave together, and *)
(* the warehouse with them, only when its custom resource is deleted and   *)
(* its StatefulSet still there; and nothing else takes the StatefulSet of  *)
(* an owner away than the deletion of that owner.                          *)
(***************************************************************************)
EXTENDS Naturals

CONSTANTS Owners, Warehouses, FeName, MaxReplicas

VARIABLES
  wanted,      \* the replicas of an owner's StatefulSet, 0 if there is none
  deleted,     \* the owners whose custom resource is deleted
  nodes,       \* the compute nodes that FE knows
  inFE         \* the warehouses that FE knows

vars == <<wanted, deleted, nodes, inFE>>

ClusterNames == {FeName[o] : o \in Owners \ Warehouses}

Init ==
  /\ wanted = [o \in Owners |-> 0]
  /\ deleted = {}
  /\ nodes = {}
  /\ inFE = ClusterNames

Deploy(o, r) ==
  /\ wanted' = [wanted EXCEPT ![o] = r]
  /\ UNCHANGED <<deleted, nodes, inFE>>

Delete(o) ==
  /\ deleted' = deleted \cup {o}
  /\ UNCHANGED <<wanted, nodes, inFE>>

Withdraw(o) ==
  /\ o \in deleted
  /\ wanted' = [wanted EXCEPT ![o] = 0]
  /\ UNCHANGED <<deleted, nodes, inFE>>

Join(o, i) ==
  /\ nodes' = nodes \cup {[owner |-> o, index |-> i]}
  /\ inFE' = inFE \cup {FeName[o]}
  /\ UNCHANGED <<wanted, deleted>>

Leave(n) ==
  /\ n.index >= wanted[n.owner]
  /\ nodes' = nodes \ {n}
  /\ UNCHANGED <<wanted, deleted, inFE>>

LeaveTogether(o) ==
  /\ o \in deleted /\ wanted[o] # 0 /\ FeName[o] \notin ClusterNames
  /\ nodes' = {n \in nodes : FeName[n.owner] # FeName[o]}
  /\ inFE' = inFE \ {FeName[o]}
  /\ UNCHANGED <<wanted, deleted>>

Next ==
  \/ \E o \in Owners : \E r \in 1 .. MaxReplicas : Deploy(o, r)
  \/ \E o \in Warehouses : Delete(o) \/ Withdraw(o) \/ LeaveTogether(o)
  \/ \E o \in Owners : \E i \in 0 .. MaxReplicas - 1 : Join(o, i)
  \/ \E n \in nodes : Leave(n)

Spec == Init /\ [][Next]_vars
=============================================================================
