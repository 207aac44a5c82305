SPECIFICATION Spec
CONSTANTS
  Runners = {u, v}
  TTL = 1
  MaxAt = 3
INVARIANTS
  StartsAreSightings
PROPERTIES
  StartsStick
  EntriesGo
