\* Does a signal always close the client, with a server that stays and answers?
SPECIFICATION FairSpec
CONSTANTS
  d = d
  e = e
  f = f
  g = g
  Paths = {d, f}
  Dirs = {d}
  Above <- Tree
  MaxChanges = 0
  MayRemove = FALSE
  MaySignal = TRUE
  MayStop = FALSE
  MayCrash = FALSE
PROPERTIES
  SignalCloses
CHECK_DEADLOCK FALSE
