SPECIFICATION Spec
CONSTANTS
  NodeShards = {"local"}
  Remote = "remote"
  BaseInterval = 2
  MaxWrites = 3
  MaxEpoch = 2
  MaxDamage = 1
  MaxRestarts = 1
INVARIANTS
  StorageInv
  VisibleReadsBack
PROPERTIES
  GateRespected
  IsCheckpointStore
CHECK_DEADLOCK FALSE
