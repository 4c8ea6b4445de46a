SPECIFICATION MCSpec
CONSTANTS
  Capacity = 2
  Inputs = {webcam}
  Shots = {s1}
  Blank = Blank
  Consumers = {c1}
  MaxSize = 6
  Config = {d, c1}
  Default = d
  Picture = {i1, i2}
  Torn = Torn
  None = None
  Troubles = 1
  Crashes = 1
  Spoilings = 1
  Captures = 2
  Snapshots = 2
  Colours <- BlackAndRed
  FrameSize <- SixPixels
  ImportSizes <- TwoSizes
  Analysis <- FourColumns
  BorderColumns = 4
  BorderRows = 3
INVARIANTS HeldNeverChanges PicturesFit
PROPERTY FilesAreKept
CHECK_DEADLOCK FALSE
