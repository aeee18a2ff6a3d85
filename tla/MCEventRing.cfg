CONSTANTS
  Producers = {p1}
  RefEvents = {e0}
  Records = {e1, e2, e3, e4}
  Capacity = 2
  Retries = 0
  MaxStops = 1
  RingSize = 3
  NoEvent = NoEvent
  NoThread = NoThread
SPECIFICATION Spec
CHECK_DEADLOCK FALSE
INVARIANT FlushIsNewest
