SPECIFICATION MCSpec
CONSTANTS
  MaxOdds = 2
  Plans = {p, q}
  Foreign = Foreign
  NoPlan = NoPlan
  Versions = {v, w}
  Repair = Repair
  Changed = Changed
  Nothing = Nothing
  MaxTokens = 4
  MaxRecords = 5
  Free = Free
  MaxWrites = 2
  Nobody = Nobody
  MaxBundles = 3
  Objects = {a, b}
  MaxChanges = 3
  Overlap = 1
  Absent = Absent
  Docs = {x, y}
  MaxRevision = 2
  MaxSyncs = 2
  Unset = Unset
  Exports = {e, f}
  Unloadable = Unloadable
  MaxStages = 2
  MaxSequence = 1
  MaxTime = 3
  NoVault = NoVault
  MaxProcs = 3
  MaxRoots = 2
  MaxSteps = 2
  Tabs = {t, u}
  NoReceipt = NoReceipt
  Notes = {m, n}
  Unindexed = Unindexed
  MaxPosts = 3
  MaxBindings = 2
  Unbound = Unbound
  MaxRows = 3
  MaxMoments = 4
  PageRows = 1
  Callers = {p1, p2}
  MaxEditions = 4
  NoIntent = NoIntent
CHECK_DEADLOCK FALSE
INVARIANTS
  JobAccountedFor
  CodexAccountedFor
  CopiesHonest
  AppRecoverable
  CorpusComplete
  SettledIsRead
  HandoffHonest
  BridgeHonest
  IndexTrusted
  DiscordReceipted
  ProjectionWhole
