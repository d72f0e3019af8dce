SPECIFICATION FairSpec
CONSTANTS
  Bridges = {b1, b2}
  Modes = {"start"}
  Events = {e1}
  None = None
  Operator = Operator
  MaxAttempts = 1
  MaxOutside = 1
PROPERTIES
  InFlightSettles
CHECK_DEADLOCK FALSE
