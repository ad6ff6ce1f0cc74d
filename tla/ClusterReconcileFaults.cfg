SPECIFICATION MCFairSpec
CONSTANTS
  Replicas <- OneOfEach
  Optional = {"cn"}
  MaxRev = 2
  BadRevs = {2}
  WaitForFullRollout = FALSE
  OnDelete = {}
  Partition <- CnPartition
  MaxEdits = 1
  MaxFaults = 1
INVARIANTS CreatedAfterFeReady
PROPERTIES Converges StuckFeIsReported CnGoneNotRunning
