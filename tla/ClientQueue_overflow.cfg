\* The same instance as ClientQueue, asked whether running_clients
\* stays inside its array.
SPECIFICATION Spec
CONSTANTS
  Capacity = 2
  Handlers = {h1, h2}
  Clients = {c1, c2, c3, c4}
  NULL = NULL
  MaxDisconnects = 1
INVARIANTS
  RunningFits
