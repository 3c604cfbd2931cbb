SPECIFICATION FairSpec
CONSTANTS
  Main = main
  Worker = worker
  Clients = {h1}
  Ids = {i1, i2, i3}
  MaxQueued = 1
  MaxEvents = 1
  None = None
PROPERTIES
  CallsEnd
  EventsAreHandled
CHECK_DEADLOCK FALSE
