CONSTANTS
  Results = {"r", "s"}
  zero = "zero"
  Tokens = {"a", "b"}
  Recoveries <- MCRecoveries
  MaxDepth = 3
  MaxSize = 2
SPECIFICATION Spec
INVARIANTS TypeOK NothingIsRetained
PROPERTIES ImplementsFrames
