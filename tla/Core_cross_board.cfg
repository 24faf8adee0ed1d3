SPECIFICATION Spec
CONSTANTS
  Boards = {b1, b2}
  Commands = {c1, c2}
  None = None
  FifoDepth = 1
  MaxSeq = 2
  WriteErrors = FALSE
  LinkErrors = FALSE
  Oversize = {}
  Schemas <- OneSchema
SYMMETRY Symmetry
INVARIANT RightAnswer
CHECK_DEADLOCK FALSE
