SPECIFICATION Spec
CONSTANTS
  Last = 2
  Width <- Chain
  Retentions <- Ordered
  MaxLag = 1
  MaxPause = 2
  MaxAt = 9
  Asked <- Pages
INVARIANTS
  OldAveragesAreExact
  NothingIsLost
  ChartsShowWhatIsKept
PROPERTIES
  NoDrift
