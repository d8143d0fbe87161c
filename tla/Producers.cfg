\* Two threads, three coroutines or an aclose(), while the settings change once.
CONSTANTS
  t1 = t1
  t2 = t2
  a1 = a1
  a2 = a2
  a3 = a3
  z1 = z1
  l1 = l1
  l2 = l2
  None = None
  Thread <- Threads
  Coroutine <- Coroutines
  Closer <- Closers
  Loop <- Loops
  On <- LoopOf
  Casts <- Scenes
  Chunks <- TwoChunks
  MaxChanges = 1
  MaxClients = 4
SPECIFICATION Spec
CHECK_DEADLOCK FALSE
INVARIANTS
  TypeOK
  RecordsAreTrue
  OpenClientsAreKnown
  WritesFollowTheSettings
