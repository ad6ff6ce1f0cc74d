----------------------------- MODULE MCWarehouse -----------------------------
(* Instances of Warehouse for TLC: the CN of a cluster and a warehouse. *)
EXTENDS Warehouse

TwoOwners == {"cluster", "wh"}
OneWarehouse == {"wh"}
Nobody == {}

\* The warehouse has its own name in FE, or is the CR named default-warehouse.
OwnName    == [o \in TwoOwners |-> IF o = "cluster" THEN "default_warehouse" ELSE "wh"]
SharedName == [o \in TwoOwners |-> "default_warehouse"]

\* The cluster begins with one CN pod, the warehouse with as many as possible.
MCInit     == Init /\ \A o \in Owners : cr[o] = IF o = "cluster" THEN 1 ELSE MaxReplicas
MCSpec     == MCInit /\ [][Next]_vars
MCFairSpec == MCSpec /\ Fairness
=============================================================================
