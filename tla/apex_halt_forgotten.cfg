SPECIFICATION Spec
CONSTANTS
  Fill = {}
  Funding = {}
  Order = {o1}
  NoOrder = NoOrder
  MaxLines = 3
  MaxFailures = 2
PROPERTIES
  HaltSurvivesCrash
\* Nobody repairs a file that holds a torn line, and the lines are bounded.
CHECK_DEADLOCK FALSE
