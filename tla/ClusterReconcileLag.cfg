SPECIFICATION MCSpec
CONSTANTS
  Replicas <- TwoFe
  Optional = {"be"}
  MaxRev = 2
  BadRevs = {2}
  WaitForFullRollout = TRUE
  OnDelete = {}
  Partition <- NoPartition
  MaxEdits = 2
  MaxFaults = 0
PROPERTIES BadRolloutDoesNotCascade
