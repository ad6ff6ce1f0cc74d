---- MODULE MCAutoscaler ----
EXTENDS Autoscaler

\* A policy in the default version, one in an explicit version, and one whose
\* minimum is above its maximum.
MCPolicies ==
  { [version |-> NotGiven, min |-> Unset, max |-> 1],
    [version |-> "v1", min |-> 1, max |-> 2],
    [version |-> NotGiven, min |-> 2, max |-> 1] }

MCMinors == {25, 26}
====
