SPECIFICATION Spec
CONSTANTS
  MaxSize = 1
  MaxPrice = 6
  Distance <- MCDistance
  FlatDistance = 1
  MaxFaults = 0
  MaxMoves = 6
INVARIANT NativeStopSpared
