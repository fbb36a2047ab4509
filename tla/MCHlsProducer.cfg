SPECIFICATION Spec
CONSTANTS
  FirstSequence = 1
  MaxSequence = 4
  Window = 4
  AudioLead = 1
  Lags = {1, 2, 3}
  InitialTargets = {1, 2}
  MediaDates <- SixSeconds
  AudioDates <- OtherAudio
  Tolerance = 2
  MaxFailures = 2
INVARIANTS TypeOK VideoContiguous NoMarkerSpliced EndsWithAReason
PROPERTIES AudioContiguous NothingAfterBoundary
\* A session that stopped does nothing more.
CHECK_DEADLOCK FALSE
