SPECIFICATION Spec
CONSTANTS
  W = 6
  Low = 2
  IntWidth = 10
  Intervals = {1}
  MaxDelay = 12
  MaxSilence = 20
  MaxCheck = 3
  Jumps <- MCJumps
  Window = 1
  ifcost = 96
  INFINITY = 65535
  Unknown = Unknown
INVARIANTS
  SilentIsFlushed
  CostIsFresh
  RoutesKnowCost
PROPERTY
  Recovers
