SPECIFICATION FairSpec
CONSTANTS
  RingSize = 12
  SegmentLimit = 8
  SegmentSizes = {1, 5, 8}
  HighWater = 10
  RecoveryTargets = {1, 6}
  BufferSizes = {3, 8}
  InitialSegments = 2
  RetryCount = 1
  MaxFailures = 2
  MaxBytes = 16
INVARIANTS TypeOK RingHoldsTheUnreadBytes
PROPERTIES ImplementsPipe BlockedCommitEnds HeldReaderIsReleased
\* A session that was torn down or has reached its end does nothing more.
CHECK_DEADLOCK FALSE
