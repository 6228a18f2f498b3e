CONSTANTS
  Pos = {0, 1}
  MaxScopes = 4
  MaxErrors = 3
SPECIFICATION Spec
INVARIANTS TypeOK FramesPartitionFlight BoundariesInsideFlight ScopesOwnStore
PROPERTIES RefinesErrorLog
