CONSTANTS
  NumTracks = 2
  VideoPeriod = 3
  AudioPeriod = 2
  Reorder = 6
  KeyInterval = 5
  Skews <- McSkews
  MaxVideo = 9
  MaxAudio = 10
  MaxRestarts = 1
SPECIFICATION Spec
INVARIANTS Monotonic
CHECK_DEADLOCK FALSE
