SPECIFICATION Spec
CONSTANTS
  Runners = {r}
  Jobs = {j1, j2}
  NoJob = NoJob
  MaxGap = 2
  MaxAt = 4
INVARIANTS
  OpenRowsAreHeld
  ChurnFollowsTheFleet
PROPERTIES
  FinishedOnce
  IntervalBilledOnce
  TimeHeldIsBilled
