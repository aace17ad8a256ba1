SPECIFICATION Spec
CONSTANTS
  Node = {n1, n2, n3}
  Missing = {gone}
SYMMETRY Rows
INVARIANTS
  TypeOK
  StackIsVisiting
  ReportsAreLoops
  EveryLoopIsTouched
PROPERTIES
  SearchEnds
\* The search stops when it is finished.
CHECK_DEADLOCK FALSE
