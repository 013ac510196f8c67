\* Two files in a directory; the user and the other side make, change and
\* remove them and it.  With four remote changes the other side can make again
\* what it removed together with the directory.
SPECIFICATION FairSpec
CONSTANTS
  d = d
  f = f
  g = g
  ROOT = ROOT
  Paths = {d, f, g}
  Dirs = {d}
  Above <- InOneDirectory
  MaxClock = 1
  MaxUser = 3
  MaxRemote = 4
INVARIANTS
  TypeOK
  TrackedOnce
PROPERTIES
  NoEcho
  BecomesInSync
