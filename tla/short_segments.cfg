SPECIFICATION Spec
CONSTANTS
  FirstSequence = 1
  MaxSequence = 5
  Window = 4
  AudioLead = 1
  Lags = {1, 2, 3}
  InitialTargets = {1, 2}
  MediaDates <- TwoSeconds
  AudioDates <- TwoSeconds
  Tolerance = 2
  MaxFailures = 2
INVARIANT NoAudioPairedTwice
CHECK_DEADLOCK FALSE
