CONSTANTS
  Displays = {"left", "right"}
  Levels = {0, 1}
  Settings <- OneFieldApart
  MaxChanges = 2
SPECIFICATION LiveSpec
CHECK_DEADLOCK FALSE
INVARIANT TypeOK
INVARIANT TrackerAgrees
PROPERTY WonTwice
PROPERTY OffMeansOff
PROPERTY BestIsTracked
