\* A server without LMOVE: at most once, and a bounded loss.
CONSTANTS
  w1 = w1
  w2 = w2
  NoWorker = NoWorker
  Worker <- TwoWorkers
  Kinds <- Readable
  MaxMessages = 3
  MaxInFlight = 1
  HasLmove = FALSE
  RequireCrashSafe = FALSE
  MayDisable = FALSE
  Operator = FALSE
  MaxCrashes = 1
  MaxFaults = 1
  MaxStops = 1
SPECIFICATION Spec
SYMMETRY Symmetry
INVARIANTS
  AtMostOnceWithoutLmove
  LossBounded
