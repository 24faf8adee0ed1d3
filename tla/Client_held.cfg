SPECIFICATION FairSpec
CONSTANTS
  MaxSize = 2
  MaxMsgs = 4
PROPERTY PeerNeverHolds
CHECK_DEADLOCK FALSE
