CONSTANTS
  Slots = {"s"}
  Batch = 1
  Offsets = {0}
  MaxNodes = 3
  MaxIDs = 3
  MaxRules = 2
  MaxKept = 0
  Careful = FALSE
SPECIFICATION Spec
CHECK_DEADLOCK FALSE
PROPERTY FrozenIsImmutable
