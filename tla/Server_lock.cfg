\* One of two clients quits; a client and the directory change once each.
SPECIFICATION Spec
CONSTANTS
  Handlers = {h1, h2}
  c1 = c1
  c2 = c2
  c3 = c3
  Clients = {c1, c2}
  Quitters = {c1}
  Vanishers = {}
  Kinds = {"PUT", "DELETE"}
  MaxChanges = 1
  MaxDirChanges = 1
  StopBefore = 0
  NONE = NONE
INVARIANTS
  InsideBound
  LockHasOwner
  BroadcastReachesAll
PROPERTIES
  TransfersStayWhole
  ImplementsAdmission
CHECK_DEADLOCK FALSE
