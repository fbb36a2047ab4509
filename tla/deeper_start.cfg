SPECIFICATION Spec
CONSTANTS
  FirstSequence = 1
  MaxSequence = 5
  Window = 4
  AudioLead = 1
  Lags = {1, 2, 3}
  InitialTargets = {1, 2}
  MediaDates <- SixSeconds
  AudioDates <- OtherAudio
  Tolerance = 2
  MaxFailures = 2
INVARIANT DeeperStartSpansNoBoundary
CHECK_DEADLOCK FALSE
