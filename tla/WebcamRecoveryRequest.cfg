SPECIFICATION Spec
CONSTANTS
  MaxAttempts = 3
  Stalls = 0
  Faults = {"first request"}
INVARIANT ThreeTriesAlways
