SPECIFICATION MCSpec
CONSTANTS
  Interval = 5
  Tolerance = 1
  Gaps = {0, 1, 2, 4, 5, 6, 13}
  Horizon = 26
  Modes = {"Automatic", "ForceCamera"}
  Targets = {"Webcam", "Screen"}
  Capacity = 2
  Burst = 1
  MaxReloads = 1
  MaxFrame = 2
  MaxImport = 1
  JobCapacity = 2
  MaxClicks = 3
  Timeouts = TRUE
  Failures = {"Load", "Persist", "Import", "Capture"}
INVARIANT DeadlinesAccounted
PROPERTIES Paced LoopIsSafe LoopGoesOn
CHECK_DEADLOCK FALSE
