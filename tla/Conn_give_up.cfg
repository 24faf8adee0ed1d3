SPECIFICATION Spec
CONSTANTS
  HeartbeatOn = TRUE
  LivenessOn = FALSE
  Base = 1
  Factor = 2
  Cap = 2
  HandlerErrors = FALSE
  OSErrors = TRUE
  MaxWaits = 1
  SuspectAfter = 2
  MaxBeats = 1
INVARIANT NoGiveUp
CHECK_DEADLOCK FALSE
