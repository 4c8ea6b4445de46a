CONSTANTS
  Displays = {"left"}
  Levels = {0, 1}
  Settings <- OneSetting
  MaxChanges = 0
SPECIFICATION Spec
CHECK_DEADLOCK FALSE
PROPERTY DetachedIsBusy
