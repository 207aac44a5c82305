SPECIFICATION Spec
CONSTANTS
  Callers = {a, b}
  Serialised = TRUE
  MaxAt = 3
INVARIANTS
  NoLostWakeup
  ClosedAfterTheWorker
PROPERTIES
  ShutdownEnds
  HistorySpec
CHECK_DEADLOCK FALSE
