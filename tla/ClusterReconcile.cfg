SPECIFICATION MCSpec
CONSTANTS
  Replicas <- TwoFe
  Optional = {"be"}
  MaxRev = 2
  BadRevs = {2}
  WaitForFullRollout = TRUE
  OnDelete = {"be"}
  Partition <- NoPartition
  MaxEdits = 2
  MaxFaults = 1
INVARIANTS TypeOK
PROPERTIES BehindOneGoodVersion
CONSTRAINT OnlyFeEdited
