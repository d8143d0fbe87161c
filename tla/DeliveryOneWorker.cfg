\* One worker, killed once, stopped once and hit by one Redis fault, under fairness.
CONSTANTS
  w1 = w1
  w2 = w2
  NoWorker = NoWorker
  Worker <- OneWorker
  Kinds <- AllKinds
  MaxMessages = 3
  MaxInFlight = 2
  HasLmove = TRUE
  RequireCrashSafe = TRUE
  MayDisable = FALSE
  Operator = FALSE
  MaxCrashes = 1
  MaxFaults = 1
  MaxStops = 1
SPECIFICATION FairSpec
INVARIANTS
  NothingIsLost
  PushOrderKept
  SentOnceUnlessDisturbed
  LiveSendsAreHeld
  SlotsAccounted
  WithinMaxInFlight
PROPERTIES
  EventuallySettled
