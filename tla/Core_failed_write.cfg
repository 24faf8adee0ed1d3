SPECIFICATION FairSpec
CONSTANTS
  Boards = {b1}
  Commands = {c1, c2}
  None = None
  FifoDepth = 1
  MaxSeq = 2
  WriteErrors = FALSE
  LinkErrors = FALSE
  Oversize = {c1}
  Schemas <- OneSchema
PROPERTY EveryRequestAnswered
CHECK_DEADLOCK FALSE
