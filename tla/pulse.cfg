SPECIFICATION Spec
CONSTANTS
  None = None
  Sources = {mail}
  MaxReports = 2
  Threads = {t1, t2}
  Results = {r1}
  Deliverers = {relevance, curation}
  WakeLimit = 2
  MaxOutstanding = 1
  MaxWakes = 2
  MaxIntegrations = 2
  MaxTurns = 2
  Items = {x}
  Batch = 2
SYMMETRY Symmetry
CHECK_DEADLOCK FALSE
INVARIANTS
  WakeOnce
  PulseHonest
