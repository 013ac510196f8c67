\* The user and the server make two changes between them; the user may stop the
\* client, the server may lose a file, stop or die.
SPECIFICATION FairSpec
CONSTANTS
  d = d
  e = e
  f = f
  g = g
  Paths = {d, e, g, f}
  Dirs = {d, e, g}
  Above <- Tree
  MaxChanges = 2
  MayRemove = TRUE
  MaySignal = TRUE
  MayStop = TRUE
  MayCrash = TRUE
INVARIANTS
  TypeOK
  SettledInSync
PROPERTIES
  TruncatedIsRefilled
  SignalClosesUnless
  CleanUpEnds
CHECK_DEADLOCK FALSE
