SPECIFICATION Spec
CONSTANTS
  Modes = {"Automatic", "ForceCamera"}
  Targets = {"Webcam", "Screen"}
  Capacity = 2
  Burst = 2
  MaxReloads = 0
INVARIANT AtMostBurstPerCycle
