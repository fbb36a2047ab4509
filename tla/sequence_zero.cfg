SPECIFICATION Spec
CONSTANTS
  FirstSequence = 0
  MaxSequence = 3
  Window = 4
  AudioLead = 1
  Lags = {1, 2, 3}
  InitialTargets = {1, 2}
  MediaDates <- SixSeconds
  AudioDates <- OtherAudio
  Tolerance = 2
  MaxFailures = 2
INVARIANT VideoContiguous
CHECK_DEADLOCK FALSE
