-------------------------- MODULE DeclarativeObject --------------------------
(***************************************************************************)
(* What the operator promises about a Kubernetes object it manages: the    *)
(* fields it manages are those of some desired state, all of them and      *)
(* nothing else; the fields of other writers are theirs; a field that      *)
(* cannot be changed keeps its first value.                                *)
(***************************************************************************)
CONSTANTS
  OperatorFields,  \* fields the operator derives from the custom resource
  Sticky,          \* those of them that keep the value of the live object
  ForeignFields,   \* fields written by Kubernetes and by other controllers
  Values, None

VARIABLES
  desired,  \* what the custom resource asks for
  present,  \* the object exists
  managed,  \* its operator fields
  foreign   \* its other fields

vars == <<desired, present, managed, foreign>>

DesiredType == {d \in [OperatorFields -> Values \cup {None}] :
                  \A f \in Sticky : d[f] # None}
NoFields(S) == [f \in S |-> None]

Init ==
  /\ desired \in DesiredType
  /\ present = FALSE
  /\ managed = NoFields(OperatorFields)
  /\ foreign = NoFields(ForeignFields)

ChangeSpec ==
  /\ desired' \in DesiredType
  /\ UNCHANGED <<present, managed, foreign>>

Create ==
  /\ ~present
  /\ present' = TRUE
  /\ managed' = desired
  /\ UNCHANGED <<desired, foreign>>

Apply ==
  /\ present
  /\ managed' = [f \in OperatorFields |-> IF f \in Sticky THEN managed[f] ELSE desired[f]]
  /\ UNCHANGED <<desired, present, foreign>>

ForeignUpdate ==
  /\ present
  /\ \E f \in ForeignFields, v \in Values : foreign' = [foreign EXCEPT ![f] = v]
  /\ UNCHANGED <<desired, present, managed>>

Delete ==
  /\ present
  /\ present' = FALSE
  /\ managed' = NoFields(OperatorFields)
  /\ foreign' = NoFields(ForeignFields)
  /\ UNCHANGED desired

Next == ChangeSpec \/ Create \/ Apply \/ ForeignUpdate \/ Delete

Spec == Init /\ [][Next]_vars
=============================================================================
