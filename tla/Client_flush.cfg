SPECIFICATION Spec
CONSTANTS
  MaxSize = 2
  MaxMsgs = 3
INVARIANT CriticalFlushed
CHECK_DEADLOCK FALSE
