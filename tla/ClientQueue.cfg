\* A pool of two handlers and a ring of two slots, four connections of which one
\* may end without QUIT and the others quit in time: the ring wraps, fills, empties
\* and closes in every state, under fair threads.
SPECIFICATION PoliteSpec
CONSTANTS
  Capacity = 2
  Handlers = {h1, h2}
  Clients = {c1, c2, c3, c4}
  NULL = NULL
  MaxDisconnects = 1
INVARIANTS
  TypeOK
  RingConsistent
  ServedClientIsOwned
  NoLostWakeup
  QueueLockReleased
  RunningBound
  RunningClientsLive
PROPERTIES
  ImplementsAdmission
  ShutdownWakesEveryone
  QueuedIsAdmitted
