CONSTANTS
  Scans = 2
  MaxEvents = 2
  AUTO_RELOCK_MAX_ATTEMPTS = 1
SPECIFICATION Spec
INVARIANT DrawerCloses
CHECK_DEADLOCK FALSE
