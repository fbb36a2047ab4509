CONSTANTS
  MaxCache = 3
  MaxRaw = 3
  VIDEO_BUFFERS = 2
  MaxAudio = 1
  RestartThreshold = 48
  MaxPlays = 2
  MaxEvents = 1
SPECIFICATION Spec
INVARIANT FlushedBeforeSeeking
CHECK_DEADLOCK FALSE
