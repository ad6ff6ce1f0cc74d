SPECIFICATION MCFairSpec
CONSTANTS
  Replicas <- OneOfEach
  Optional = {"be"}
  MaxRev = 2
  BadRevs = {}
  WaitForFullRollout = FALSE
  OnDelete = {"fe"}
  Partition <- NoPartition
  MaxEdits = 1
  MaxFaults = 0
PROPERTIES AllRunningIsReported
