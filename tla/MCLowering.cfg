CONSTANTS
  Packaged <- MCPackaged
  MaxWord = 5
SPECIFICATION Spec
CHECK_DEADLOCK FALSE
INVARIANTS PathsAreUnique PackageIsExact DerivableIsFollowed FollowedIsDerivable NestsCanBeLeft
