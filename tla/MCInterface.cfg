SPECIFICATION Spec
CONSTANTS
  Animations = TRUE
  QueueCapacity = 1
  Events = 3
  OwnSources = {"Reference"}
  Messages = {"m"}
  NoMessage = "none"
  AlertLimit = 1
  EntryLimit = 1
  ToastLimit = 1
  Changes = 2
  OwnChanges = 1
  Clicks = 1
  Settings = 1
  Asked = 1
  Stalls = 1
  Limit = 2
  Entries = 4
  Others = 1
  Clears = 1
PROPERTIES ShellAnswers WarningsAreTold HandoffWorks LogIsComplete
CHECK_DEADLOCK FALSE
