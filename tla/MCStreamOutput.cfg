CONSTANTS
  MaxStarts = 2
  MaxStops = 2
  MaxPackets = 1
  MaxDrops = 0
  MayDisconnect = TRUE
  MayForce = TRUE
  MayHurry = TRUE
SPECIFICATION Spec
INVARIANTS CaptureBalanced OneEndThread OneStopSignal
INVARIANTS StartNeverBlocks NothingLeftOver FreedAfterThreads
PROPERTIES ImplementsOutputLife
CHECK_DEADLOCK FALSE
