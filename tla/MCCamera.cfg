SPECIFICATION CamSpec
CONSTANTS
  Types = {"RGB32", "NV12"}
  DefaultType = "RGB32"
  Callers = {"a", "b"}
  MaxQueueFaults = 1
  MaxAllocatorFaults = 1
  MaxRun = 2
  MaxSequence = 2
  Activations = {a1, a2}
  Sources = {s1, s2}
  MaxFactories = 1
  MaxLocks = 1
  Version = {v1, v2}
  Process = {p1, p2}
  Troubles = 1
  MaxGeneration = 5
  Threshold = 3
  Listed = 2
  Lengths = {100, 576, 640, 648}
  Changes = 1
  Absent = Absent
INVARIANTS TypeOK StreamStaysStopped  UnloadIsSafe WebcamIsServed
PROPERTIES SerialCallsKeepPromises RegistrationIsSound
CHECK_DEADLOCK FALSE
