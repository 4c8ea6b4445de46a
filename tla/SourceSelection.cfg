SPECIFICATION FairSpec
CONSTANTS
  Pictures = {"slides", "black"}
  NearlyBlack = {"black"}
  NoPicture = "none"
  Nobody = "nobody"
  MatchesRequired = 2
  MismatchesRequired = 2
  DetectPeriod = 2
  Fade = 2
  StillDelay = 2
  Elapsed = {1}
INVARIANTS StoppedIsOff OnAirIsReady
PROPERTIES SwitchIsDebounced LayoutSteady PictureFollows
