SPECIFICATION DesktopSpec
CONSTANTS
  Files = {a, b}
  FirstFile = a
  Workflows = {w}
  Empty = Empty
  MaxTasks = 2
  MaxEdits = 1
  Presets <- MCPresets
  Keyless <- MCKeyless
  MaxVersions = 2
  MaxCrashes = 1
CONSTRAINT Apart
INVARIANTS TextsKeepApart SavedTextIsKept   RequestsUseOneSave
CHECK_DEADLOCK FALSE
