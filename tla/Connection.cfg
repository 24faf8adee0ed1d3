SPECIFICATION FairSpec
CONSTANTS
  HeartbeatOn = TRUE
  LivenessOn = TRUE
  Base = 1
  Factor = 2
  Cap = 5
  HandlerErrors = TRUE
  OSErrors = TRUE
  MaxWaits = 3
  SuspectAfter = 2
  MaxBeats = 4
INVARIANT BoardDownOnce
INVARIANT NoLeftovers
INVARIANT BackoffExact
INVARIANT BeatsExact
PROPERTY OutcomeFinal
PROPERTY StopEnds
PROPERTY Reconnects
CHECK_DEADLOCK FALSE
