CONSTANTS
  Scans = 2
  MaxEvents = 2
  AUTO_RELOCK_MAX_ATTEMPTS = 1
SPECIFICATION Spec
INVARIANTS TypeOK OneWorker LaunchKept HandoverAwaited NetworkClosed
PROPERTIES RequestsServed
CHECK_DEADLOCK FALSE
