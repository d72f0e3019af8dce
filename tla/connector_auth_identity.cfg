SPECIFICATION Spec
CONSTANTS
    Procs = {p1, p2}
    NoProc = NoProc
    MaxOps = 4
    MaxFaults = 0
\* Once the callers have made their calls the system rests.
CHECK_DEADLOCK FALSE
INVARIANTS
    ConfirmedIdentity
