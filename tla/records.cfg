SPECIFICATION MCSpec
CONSTANTS
  Procs = {p, q}
  Events = {a, b, c}
  Decisions = {accepted, rejected}
  MaxEvents = 2
  MaxGeneration = 1
  MaxFailures = 2
  Tasks = {t, u}
  Threads = {p, q}
  Hands = {h}
  Dispatches = {d}
  Entities = {a, b, c}
  Roles = {r, s}
  LinkTasks = {k}
  LinkThreads = {p, q}
  MaxRecordEdits = 5
  MaxGraphEdits = 5
  MaxRedirects = 1
  None = None
  Nil = Nil
  NoEntity = NoEntity
SYMMETRY MCSymmetry
CHECK_DEADLOCK FALSE
INVARIANTS
  HandsHonest
  GraphHonest
  StoreReadable
  OutcomeHonest
PROPERTIES
  Implements
