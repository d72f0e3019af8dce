SPECIFICATION Spec
CONSTANTS
  Bridges = {b1, b2}
  Modes = {"start", "resume"}
  Events = {e1}
  None = None
  Operator = Operator
  MaxAttempts = 2
  MaxOutside = 1
CHECK_DEADLOCK FALSE
INVARIANTS
  AtMostOnce
  SafeMeansUndelivered
  CompletedProven
PROPERTIES
  ReceiptMonotone
