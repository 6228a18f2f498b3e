CONSTANTS
  Packaged <- MCPackaged
  MaxWord = 4
SPECIFICATION Spec
CHECK_DEADLOCK FALSE
INVARIANT RecoveryCoversEnclosingNests
