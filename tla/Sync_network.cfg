\* One client's change, with the clients on machines of their own.
SPECIFICATION FairSpec
CONSTANTS
  c1 = c1
  c2 = c2
  f = f
  server = server
  running <- Running
  listing <- Listing
  Writers = {c1}
  MaxChanges = 1
  Buffer = 4
  SameHost = FALSE
PROPERTIES
  Converges
CHECK_DEADLOCK FALSE
