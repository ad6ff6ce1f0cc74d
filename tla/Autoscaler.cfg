CONSTANTS
  Policies <- MCPolicies
  MaxReplicas = 1
  Minors <- MCMinors
  MaxEdits = 2
  MaxFaults = 1
SPECIFICATION FairSpec
INVARIANTS
  TypeOK
  HashTellsBounds
  RecordedVersionServed
  BoundsAreValid
PROPERTIES
  AutoscalerGoesUnlessUpgraded
  AutoscalerFollowsPolicy
  ReplicasInBounds
  NothingLeftOfCn
  AutoscalerComesToRest
