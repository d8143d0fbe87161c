\* Six rows, bisected above two, any of them poisoned, the connection dropped twice.
CONSTANTS
  N = 6
  RowByRow = 2
  MaxDrops = 2
SPECIFICATION Spec
INVARIANTS
  TypeOK
  LossesAreCounted
  CopiesAreExplained
  NothingElseIsLost
