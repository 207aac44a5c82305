SPECIFICATION Spec
CONSTANTS
  Writers = {u, w}
  Watched = {kube}
  TTL = 1
  MaxVersion = 2
INVARIANTS
  ServedIsTheTruth
  ChangesAreOnTheirWay
PROPERTIES
  EveryChangeIsDelivered
  DeliveredInOrder
CHECK_DEADLOCK FALSE
