SPECIFICATION FairSpec
CONSTANTS
  MaxSize = 3
  MaxMsgs = 6
INVARIANT DeliverySound
INVARIANT Served
PROPERTY CloseEnds
CHECK_DEADLOCK FALSE
