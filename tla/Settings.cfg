CONSTANTS
  None = None
  Bad = Bad
  Writers = {"menu", "window"}
  Menu = "menu"
  Followers = {"daemon", "shown"}
  Daemon = "daemon"
  WindowCopy = "shown"
  Kept = 2
  MaxWrites = 3
  BindLists <- ThreeLists
  MaxTouches = 2
  Values = {1, 2}
  Few = {1}
  Default = 1
  MaxSaves = 2
  MaxEdits = 1
  MaxDrafts = 1
  MaxCommits = 2
  MaxPresses = 3
  MaxFailures = 1
SPECIFICATION Spec
INVARIANTS
  ChangesKept
  ShowsFile
  DesktopIntact
  UpdateIntact
PROPERTIES
  ScreensIntact
  SettingsSettle
CHECK_DEADLOCK FALSE
