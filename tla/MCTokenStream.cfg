CONSTANTS
  Roles = {"word", "space"}
  EOF = "eof"
  Bad = "bad"
  MaxInput = 3
  MaxSkips = 3
  MaxRules = 3
SPECIFICATION Spec
INVARIANTS TypeOK CacheIsExact SnapshotsAreExact
