SPECIFICATION Spec
CONSTANTS
  Main = main
  Worker = worker
  Clients = {h1}
  Ids = {i1, i2, i3}
  MaxQueued = 1
  MaxEvents = 0
  None = None
INVARIANTS
  OwnReplies
CHECK_DEADLOCK FALSE
