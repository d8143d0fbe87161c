\* Two threads record; stop() runs on a third or in a receiver, or flush() and
\* drain_once() run beside the writer; a writer may fail to start.
CONSTANTS
  p1 = p1
  p2 = p2
  s1 = s1
  s2 = s2
  f1 = f1
  d1 = d1
  StopWake = StopWake
  Nobody = Nobody
  Producer <- TwoProducers
  Stopper <- OneStop
  Waiter <- OneFlush
  Drainer <- OneDrain
  Casts <- StopOrFlush
  MaxEvents <- EventsOf
  MaxWriters = 2
  BufferSize = 2
  BatchSize = 2
  FailureLimit = 2
  KeepsTable = TRUE
  Sync = TRUE
  ReceiverStops = TRUE
  MaxNoThread = 1
SYMMETRY Symmetry
SPECIFICATION Spec
CHECK_DEADLOCK FALSE
INVARIANTS
  TypeOK
  EventsAccounted
  DropsAddUp
  RecordLeavesNothingBehind
  NothingStaysOpen
  FlushMeansWritten
PROPERTIES
  KeepsTheAccount
