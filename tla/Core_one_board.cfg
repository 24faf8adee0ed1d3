SPECIFICATION FairMirrorSpec
CONSTANTS
  Boards = {b1}
  Commands = {c1, c2}
  None = None
  FifoDepth = 1
  MaxSeq = 2
  WriteErrors = FALSE
  LinkErrors = TRUE
  Oversize = {}
  Schemas <- MixedSchema
INVARIANT QueueSound
INVARIANT ShutdownAnswersAll
INVARIANT RightAnswer
INVARIANT TimeoutArmed
INVARIANT MirrorFresh
PROPERTY EstopBlocksDispatch
PROPERTY ImplementsService
PROPERTY EveryRequestAnswered
CHECK_DEADLOCK FALSE
