\* Every thread keeps running: writers leave, events are settled.
CONSTANTS
  p1 = p1
  p2 = p2
  s1 = s1
  s2 = s2
  f1 = f1
  d1 = d1
  StopWake = StopWake
  Nobody = Nobody
  Producer <- OneProducer
  Stopper <- OneStop
  Waiter <- NoCalls
  Drainer <- NoCalls
  Casts <- StopOnly
  MaxEvents <- EventsOf
  MaxWriters = 3
  BufferSize = 1
  BatchSize = 1
  FailureLimit = 1
  KeepsTable = TRUE
  Sync = FALSE
  ReceiverStops = TRUE
  MaxNoThread = 0
SPECIFICATION FairSpec
CHECK_DEADLOCK FALSE
PROPERTIES
  DetachedWritersLeave
  EventsAreSettled
