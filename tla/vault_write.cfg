SPECIFICATION FairSpec
CONSTANTS
  Writers = {w1, w2}
  Records = {r1}
  NoFile = NoFile
  Free = Free
  MaxOps = 2
  MaxEdits = 2
  MaxCrashes = 1
CHECK_DEADLOCK FALSE
INVARIANTS
  OutcomeHonest
  UnauditedOnlyAfterFailure
  JournalReplays
PROPERTIES
  NoClobber
  LockReturned
