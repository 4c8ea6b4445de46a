SPECIFICATION FairSpec
CONSTANTS
  Displays = {d1, d2}
  HdrDisplays = {d2}
  Nothing = Nothing
  Troubles = 1
  Clicks = 1
PROPERTY StoredReturns
CHECK_DEADLOCK FALSE
