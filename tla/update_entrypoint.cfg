SPECIFICATION Spec
CONSTANTS
    MaxWrites = 0
    MaxFaults = 3
CHECK_DEADLOCK FALSE
INVARIANTS
    RuntimeReachable
