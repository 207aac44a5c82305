SPECIFICATION PagesSpec
CONSTANTS
  Jobs = {j, k}
  Window = 1
  SampleWindow = 2
  Bucket = 2
  MaxRuntime = 2
  MaxAt = 4
  RunOf <- OneRun
  Asked <- Windows
  Names = {"a", "ab"}
  LabelOf <- CutShort
  MaxSets = 2
  Ersets = {1, 2}
  MaxStamp = 1
  FleetRunners = {11}
  Viewers = {v}
  MaxPods = 2
  MaxEvents = 3
  Keep = 1
  PageSize = 1
  PageBudget = 2
  CacheSize = 1
  FailingRunners = {1, 2}
  Shown = 1
  Back = 2
  Remembered = 2
  MaxInstant = 4
INVARIANTS
  NoOrphans
  NothingIsImmortal
  WhoeverRanIsListed
  HistoryAgrees
  FleetAddsUp
  PanelIsThePods
  LaneCountsEachFailure
PROPERTIES
  OnlyHistoryIsSwept
SYMMETRY Alike
CHECK_DEADLOCK FALSE
