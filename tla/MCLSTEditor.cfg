CONSTANTS
  Slots = {"s"}
  Batch = 1
  Offsets = {0, 1}
  MaxNodes = 3
  MaxIDs = 2
  MaxRules = 2
  MaxKept = 1
  Careful = TRUE
SPECIFICATION Spec
CHECK_DEADLOCK FALSE
INVARIANTS TypeOK LinksAgree PoolIsDisjoint RollbackIsLocal NodesAreKept SpansReconciled IdsAreUnique
