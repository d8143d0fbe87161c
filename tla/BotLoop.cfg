\* Webhook updates, sends, a runner and two close()s, the bot used again between.
CONSTANTS
  r1 = r1
  r2 = r2
  s1 = s1
  p1 = p1
  Main = Main
  Nobody = Nobody
  Request <- Requests
  Sender <- Senders
  Reply <- Replies
  Casts <- Scenes
  Modes <- BothModes
  MaxLoops = 2
  MaxRunners = 2
  MaxCloses = 2
  MaxLate = 1
  MayDie = TRUE
SPECIFICATION FairSpec
CHECK_DEADLOCK FALSE
INVARIANTS
  TypeOK
  AcceptedIsNotRefused
  ClosedOverNothing
  OkMeansHandled
  RunnersAreKnown
  TeardownIsNotBrokenOff
PROPERTIES
  RequestsAreAnswered
