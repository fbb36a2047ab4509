SPECIFICATION FairSpec
CONSTANTS
  Tuners = {worker}
  Stoppers = {worker, hid}
  NoThread = NoThread
  Room = 2
  MaxGeneration = 3
INVARIANTS TypeOK ProducerWithinItsSession RingBelongsToSession ReadsOneGeneration StopLeavesNothing
PROPERTIES CallsReturn ReadsReturnAfterStop
\* Every start may have been used and every caller be idle.
CHECK_DEADLOCK FALSE
