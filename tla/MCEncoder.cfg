SPECIFICATION Spec
CONSTANTS
  stream = stream
  record = record
  Outputs <- McOutputs
  Connects <- McConnects
  Origins <- McOrigins
  Audio = Audio
  None = None
  SamplePeriod = 2
  BlockFrames = 2
  FrameSize = 3
  VideoPeriod = 3
  MaxStarts = 3
  MaxVideo = 7
  MaxAudio = 12
INVARIANTS AudioAligned 
CHECK_DEADLOCK FALSE
