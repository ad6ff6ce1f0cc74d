------------------------- MODULE MCDisasterRecovery -------------------------
(***************************************************************************)
(* Instances of DisasterRecovery for TLC.  The cluster starts with the     *)
(* largest number of replicas and with the smallest generation; the user's *)
(* edits reach the other values, to and fro.                               *)
(***************************************************************************)
EXTENDS DisasterRecovery

MCInit ==
  /\ Init
  /\ api.spec.replicas = MaxReplicas
  /\ \A g \in Generations : api.spec.generation <= g

MCFairSpec == MCInit /\ [][Next]_vars /\ Fairness

\* Bound: two edits, or one edit and one fault.
TwoDisturbances == edits + faults <= 2
=============================================================================
