SPECIFICATION MCFairSpec
CONSTANTS
  Generations = {1, 2}
  MaxReplicas = 2
  UserEnvValues = {}
  MaxEdits = 2
  MaxFaults = 1
INVARIANTS TypeOK DoneMeansRestored CnPausedDuringRecovery BePausedDuringRecovery OneRestoringFe RepeatedOnlyAfterRegress
PROPERTIES FollowsProtocol RecoveryCompletes
CONSTRAINT TwoDisturbances
