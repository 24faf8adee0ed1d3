SPECIFICATION MirrorSpec
CONSTANTS
  Boards = {b1, b2}
  Commands = {c1, c2, c3, c4}
  None = None
  FifoDepth = 2
  MaxSeq = 3
  WriteErrors = TRUE
  LinkErrors = FALSE
  Oversize = {c3, c4}
  Schemas <- OneSchema
SYMMETRY Symmetry
CONSTRAINTS FewOversize NoShutdown FewInEstop IdleAfterReset
INVARIANT TypeOK
INVARIANT FifoBound
INVARIANT FifoOrder
INVARIANT PendingSound
INVARIANT EstopReachesAll
CHECK_DEADLOCK FALSE
