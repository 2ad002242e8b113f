CONSTANTS
  MaxStarts = 1
  MaxStops = 1
  MaxPackets = 1
  MaxDrops = 1
  MayDisconnect = TRUE
  MayForce = TRUE
  MayHurry = FALSE
SPECIFICATION FairSpec
PROPERTIES StartAnswered StopCompletes UserReturns
CHECK_DEADLOCK FALSE
