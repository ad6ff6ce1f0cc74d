SPECIFICATION MCFairSpec
CONSTANTS
  Owners <- TwoOwners
  Warehouses <- OneWarehouse
  FeName <- OwnName
  Referring <- OneWarehouse
  MaxReplicas = 2
  MaxEdits = 2
  MaxFaults = 1
INVARIANTS TypeOK
PROPERTIES FollowsCatalog SurplusNodesGo DeletedWarehouseGoes
