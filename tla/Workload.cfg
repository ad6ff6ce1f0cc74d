CONSTANTS
  VolumeNameWithHash = FALSE
  Clusters <- MCClusters
  Specs <- MCSpecs
  Contents <- MCContents
  MaxEdits = 2
  MaxFaults = 1
SPECIFICATION FairSpec
INVARIANTS
  TypeOK
  RefusedOnlyAsForeseen
PROPERTIES
  Settles
  BlockIsReported
  QueryPortSettles
  PortsAnswer
