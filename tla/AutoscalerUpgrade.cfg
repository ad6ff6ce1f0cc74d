CONSTANTS
  Policies <- MCPolicies
  MaxReplicas = 1
  Minors <- MCMinors
  MaxEdits = 1
  MaxFaults = 0
SPECIFICATION FairSpec
PROPERTIES
  AutoscalerGoes
