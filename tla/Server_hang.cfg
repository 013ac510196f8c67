\* Does the server end when its clients have?
SPECIFICATION FairSpec
CONSTANTS
  Handlers = {h1}
  c1 = c1
  c2 = c2
  c3 = c3
  Clients = {c1}
  Quitters = {}
  Vanishers = {}
  Kinds = {"PUT"}
  MaxChanges = 0
  MaxDirChanges = 0
  StopBefore = 2
  NONE = NONE
PROPERTIES
  ShutdownEnds
CHECK_DEADLOCK FALSE
