SPECIFICATION Spec
CONSTANTS
  Runners = {r}
  Jobs = {j}
  NoJob = NoJob
  MaxGap = 2
  MaxAt = 3
PROPERTIES
  FailedJobsAreRecorded
