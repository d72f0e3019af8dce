SPECIFICATION MCSpec
CONSTANTS
  Procs = {p1, p2}
  NoProc = NoProc
  MaxOps = 4
  MaxFaults = 2
  Calls = {p1, p2}
  Tokens = {t, u}
  Grants = {g}
  TTL = 1
  MaxSnapshots = 1
  MaxEntries = 1
  MaxSpent = 1
  MaxCursors = 1
  MaxClock = 1
  MaxEdits = 1
  None = None
  Sizes = {0, 1, 2}
  MaxAttempts = 8
  MaxNoProgress = 2
  MaxRestarts = 1
  People = {a}
  Parts = {p}
  MaxMeddling = 2
SYMMETRY Symmetry
INVARIANTS
  OnceConfirmed
  CustodyKept
  SentAsSaid
  AuthCustody
  ReadyVerified
PROPERTIES
  AuthSteps
\* Once the callers have made their calls the system rests.
CHECK_DEADLOCK FALSE
