\* Two handlers and two clients, of which one may quit or vanish and either change a
\* file; a signal may stop the server while it has one of them at most.
SPECIFICATION FairSpec
CONSTANTS
  Handlers = {h1, h2}
  c1 = c1
  c2 = c2
  c3 = c3
  Clients = {c1, c2}
  Quitters = {c1}
  Vanishers = {c1}
  Kinds = {"PUT"}
  MaxChanges = 1
  MaxDirChanges = 0
  StopBefore = 2
  NONE = NONE
INVARIANTS
  TypeOK
  LockHasOwner
  InsideBound
PROPERTIES
  ShutdownEndsUnless
  ClientsServed
CHECK_DEADLOCK FALSE
