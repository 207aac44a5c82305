SPECIFICATION Spec
CONSTANTS
  Listeners = {1, 2}
  SetNames = {1, 2}
  SetOf <- OwnSets
  MaxScrapes = 1
  MaxTicks = 3
  Namespaces = {a, b}
  MaxPolls = 3
  Errors = {"refused", "timeout"}
  MaxNamed = 1
INVARIANTS
  NothingStaleIsGreen
  NewsIsLoud
PROPERTIES
  NobodyIsFramed
  TicksEnd
CHECK_DEADLOCK FALSE
