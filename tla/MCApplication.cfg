SPECIFICATION MCSpec
CONSTANTS
  Installer = {i1, i2}
  App = {a1, a2}
  NoOne = NoOne
  Base = Base
  Troubles = 2
  Version = {1}
  Executables = {a, b}
  Torn = Torn
  NoFile = NoFile
  Changes = 1
  Restarts = 1
  Webcams = {w1, w2}
  Displays = {d1, d2}
  Nothing = Nothing
  NotAwaiting = NotAwaiting
  ChannelCapacity = 2
  Choices = 2
  Mishaps = 1
PROPERTIES InstallIsSafe UpdatesAndSettingsAreSafe ApplicationSettles
CHECK_DEADLOCK FALSE
