SPECIFICATION MCSpec
CONSTANTS
  MaxRun = 2
  MaxSequence = 3
  MaxHeld = 1
  PipeCapacity = 3
  Restarts = 4
  Troubles = 5
  PreviewFrames = {f, g}
  Sizes = {small, large}
  NoPreview = none
  Changes = 3
  Displays = {d1, d2}
  HdrDisplays = {d2}
  Nothing = Nothing
  ScreenTroubles = 1
  Clicks = 1
  MaxAttempts = 3
  Stalls = 1
  Faults = {"late frame", "late failure", "first request"}
  Starts = 1
INVARIANTS NeverRejects ShownIsNewest
PROPERTIES LatestOnly DevicesAreSafe FollowsPublisher HostTellsFailure PreviewKeepsUp CapturesSettle
CHECK_DEADLOCK FALSE
