SPECIFICATION Spec
CONSTANTS
  Runners = {u}
  TTL = 1
  MaxAt = 3
INVARIANTS
  RestartsKeepTheAge
