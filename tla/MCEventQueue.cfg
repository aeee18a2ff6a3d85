CONSTANTS
  Producers = {p1, p2}
  RefEvents = {e1}
  Records = {e2, e3}
  Capacity = 1
  Retries = 1
  MaxStops = 1
  RingSize = 1
  NoEvent = NoEvent
  NoThread = NoThread
SPECIFICATION FairSpec
CHECK_DEADLOCK FALSE
INVARIANTS
  TypeOK
  ReferencesTracked
  StopIsComplete
  Accounted
PROPERTIES
  StopReturns
  PostedIsConsumed
