SPECIFICATION Spec
CONSTANTS
  Fill = {f1}
  Funding = {p1}
  Order = {o1}
  NoOrder = NoOrder
  MaxLines = 4
  MaxFailures = 1
INVARIANTS
  TypeOK
  CountedOnce
  JudgedOnWholeBooks
  IntentBeforeOrder
  ChainKeepsUp
PROPERTIES
  HaltIsLasting
\* Nobody repairs a file that holds a torn line, and the lines are bounded.
CHECK_DEADLOCK FALSE
