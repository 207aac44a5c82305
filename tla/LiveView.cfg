SPECIFICATION Spec
CONSTANTS
  Subscribers = {s1, s2}
  Cap = 1
  MaxSeq = 2
INVARIANTS
  NoSendOnClosed
  NoStaleWait
  NoStreamSlipsBy
  NothingLeaks
PROPERTIES
  DrainEnds
CHECK_DEADLOCK FALSE
