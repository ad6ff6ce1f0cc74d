-------------------------- MODULE MCClusterReconcile --------------------------
(* Instances of ClusterReconcile for TLC. *)
EXTENDS ClusterReconcile

\* One pod of each component, and two of FE.
OneOfEach == [c \in Comp |-> 1]
TwoFe     == [c \in Comp |-> IF c = "fe" THEN 2 ELSE 1]

\* No partition, and one that leaves CN's pod as it is.
NoPartition == [c \in Comp |-> 0]
CnPartition == [c \in Comp |-> IF c = "cn" THEN 1 ELSE 0]

\* The optional components are declared and not edited.
OnlyFeEdited == \A c \in Optional : spec[c] = 1

\* The user starts with a good version of everything.
MCInit == Init /\ spec = [c \in Comp |-> IF c = "fe" \/ c \in Optional THEN 1 ELSE 0]
MCSpec == MCInit /\ [][Next]_vars
MCFairSpec == MCSpec /\ Fairness
=============================================================================
