\* A stop(), and another one in a receiver that the first one's writer calls.
CONSTANTS
  p1 = p1
  p2 = p2
  s1 = s1
  s2 = s2
  f1 = f1
  d1 = d1
  StopWake = StopWake
  Nobody = Nobody
  Producer <- OneProducer
  Stopper <- TwoStops
  Waiter <- NoCalls
  Drainer <- NoCalls
  Casts <- TwoStopping
  MaxEvents <- EventsOf
  MaxWriters = 2
  BufferSize = 1
  BatchSize = 1
  FailureLimit = 1
  KeepsTable = TRUE
  Sync = FALSE
  ReceiverStops = TRUE
  MaxNoThread = 0
SPECIFICATION Spec
CHECK_DEADLOCK FALSE
INVARIANTS
  WritersCloseTheirConnections
