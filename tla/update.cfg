SPECIFICATION Spec
CONSTANTS
    MaxWrites = 1
    MaxFaults = 3
\* Between updates nothing has to happen.
CHECK_DEADLOCK FALSE
INVARIANTS
  UpdateSafe
  SetupSafe
PROPERTIES
  RecoveryCloses
