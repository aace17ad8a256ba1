SPECIFICATION FairSpec
CONSTANTS
  MaxSize = 2
  MaxPrice = 6
  Distance <- MCDistance
  FlatDistance = 1
  MaxFaults = 1
  MaxMoves = 5
INVARIANTS
  TypeOK
  SweepProtects
PROPERTIES
  GuardLasts
