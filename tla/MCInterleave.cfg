CONSTANTS
  NumTracks = 2
  VideoPeriod = 3
  AudioPeriod = 2
  Reorder = 0
  KeyInterval = 3
  Skews <- McSkews
  MaxVideo = 9
  MaxAudio = 10
  MaxRestarts = 1
SPECIFICATION Spec
INVARIANTS Monotonic NothingLost 
CHECK_DEADLOCK FALSE
