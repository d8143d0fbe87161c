\* A request that drives the loop beside a runner.
CONSTANTS
  r1 = r1
  r2 = r2
  s1 = s1
  p1 = p1
  Main = Main
  Nobody = Nobody
  Request <- Requests
  Sender <- Senders
  Reply <- Replies
  Casts <- Crowd
  Modes <- BothModes
  MaxLoops = 2
  MaxRunners = 2
  MaxCloses = 2
  MaxLate = 1
  MayDie = TRUE
SPECIFICATION Spec
CHECK_DEADLOCK FALSE
INVARIANTS
  OkMeansItRan
