\* Two workers, kills, faults, ENABLED switched, and an operator who reclaims a
\* worker that comes back.
CONSTANTS
  w1 = w1
  w2 = w2
  NoWorker = NoWorker
  Worker <- TwoWorkers
  Kinds <- AllKinds
  MaxMessages = 2
  MaxInFlight = 1
  HasLmove = TRUE
  RequireCrashSafe = FALSE
  MayDisable = TRUE
  Operator = TRUE
  MaxCrashes = 1
  MaxFaults = 1
  MaxStops = 0
SPECIFICATION Spec
SYMMETRY Symmetry
INVARIANTS
  TypeOK
  OneCopy
PROPERTIES
  KeepsThePromise
