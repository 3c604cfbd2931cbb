SPECIFICATION Spec
CONSTANTS
  Main = main
  Worker = worker
  Clients = {h1, h2}
  Ids = {i1, i2, i3}
  MaxQueued = 1
  MaxEvents = 3
  None = None
SYMMETRY Symmetry
INVARIANTS
  NobodyIsForgotten
  PendingIsInProgress
  EventsAreInOrder
PROPERTIES
  SettledOnce
  CallsAreRemote
CHECK_DEADLOCK FALSE
