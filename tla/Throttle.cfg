\* Three messages to a group and one to each of two chats; two chats are tracked.
CONSTANTS
  c1 = c1
  c2 = c2
  g1 = g1
  m1 = m1
  m2 = m2
  m3 = m3
  m4 = m4
  m5 = m5
  NoChat = NoChat
  Built = Built
  Send <- FiveSends
  Chat <- Chats
  Group <- Groups
  ChatOf <- OneTalk
  Interval <- Intervals
  Capacity <- Doubles
  MaxTracked = 2
  Candidates = 2
  MaxTime = 4
  MaxLate = 0
SYMMETRY Symmetry
SPECIFICATION Spec
CHECK_DEADLOCK FALSE
INVARIANTS
  TypeOK
  WithinEveryBudget
  NoNeedlessWait
  RateSurvivesEviction
