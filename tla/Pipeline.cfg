SPECIFICATION Spec
CONSTANTS
  Subscribers = {s}
  Cap = 1
  MaxFleet = 1
PROPERTIES
  EveryChangeIsShown
  ComesToRest
  StripTellsTheTruth
CHECK_DEADLOCK FALSE
