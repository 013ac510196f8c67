\* Does a client read what it waits for?
SPECIFICATION Spec
CONSTANTS
  Handlers = {h1, h2}
  c1 = c1
  c2 = c2
  c3 = c3
  Clients = {c1, c2}
  Quitters = {}
  Vanishers = {}
  Kinds = {"PUT"}
  MaxChanges = 1
  MaxDirChanges = 0
  StopBefore = 0
  NONE = NONE
INVARIANTS
  ClientsInStep
CHECK_DEADLOCK FALSE
