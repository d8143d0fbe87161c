\* One stop() against one record().
CONSTANTS
  p1 = p1
  p2 = p2
  s1 = s1
  s2 = s2
  f1 = f1
  d1 = d1
  StopWake = StopWake
  Nobody = Nobody
  Producer <- OneProducer
  Stopper <- OneStop
  Waiter <- NoCalls
  Drainer <- NoCalls
  Casts <- StopOnly
  MaxEvents <- EventsOf
  MaxWriters = 2
  BufferSize = 2
  BatchSize = 2
  FailureLimit = 2
  KeepsTable = TRUE
  Sync = FALSE
  ReceiverStops = FALSE
  MaxNoThread = 0
SPECIFICATION Spec
CHECK_DEADLOCK FALSE
INVARIANTS
  EverythingWillBeDrained
