SPECIFICATION MCSpec
CONSTANTS
  Owners <- TwoOwners
  Warehouses <- OneWarehouse
  FeName <- SharedName
  Referring <- Nobody
  MaxReplicas = 2
  MaxEdits = 0
  MaxFaults = 0
PROPERTIES NoWantedNodeDropped
