SPECIFICATION Spec
CONSTANTS
  Keys = {board}
  ObsSize = 1
  MaxRecords = 3
  Procs = {me, rival}
  Inodes = {1, 2, 3}
  Me = me
INVARIANTS RecordsExact ShutdownClean PathSafe
PROPERTIES ReplicaForward SignalEnds
CHECK_DEADLOCK FALSE
