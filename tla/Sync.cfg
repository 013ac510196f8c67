\* A file that the users of all three sites change, three times in all.
SPECIFICATION FairSpec
CONSTANTS
  c1 = c1
  c2 = c2
  f = f
  server = server
  running <- Running
  listing <- Listing
  Writers = {c1, c2, server}
  MaxChanges = 3
  Buffer = 1
  SameHost = TRUE
INVARIANTS
  TypeOK
  TrackedOnce
  GridlockNeedsTwo
PROPERTIES
  ConvergesUnless
  FallsSilent
CHECK_DEADLOCK FALSE
