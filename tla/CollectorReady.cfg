SPECIFICATION Spec
CONSTANTS
  Writers = {w}
  Watched = {kube}
  TTL = 1
  MaxVersion = 1
PROPERTIES
  ReadyOnceListed
CHECK_DEADLOCK FALSE
