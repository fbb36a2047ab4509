CONSTANTS
  ThemeCount = 3
  MaxEvents = 8
SPECIFICATION Spec
INVARIANTS TypeOK RestartShowsTheme
PROPERTIES SaveAtomic
CHECK_DEADLOCK FALSE
