CONSTANTS
  Sources = {"video"}
  MaxStarts = 1
  MaxStops = 2
  MaxPackets = 2
SPECIFICATION Spec
INVARIANTS FileIntact NothingCut Restartable
PROPERTIES StopCompletes ImplementsOutputLife
CHECK_DEADLOCK FALSE
