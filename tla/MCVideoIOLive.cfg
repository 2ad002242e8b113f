CONSTANTS
  ConfigCacheSize = 2
  Inputs = {i1}
  NoInput = NoInput
  MaxCount = 2
  MaxTicks = 4
SPECIFICATION FairSpec
PROPERTIES AllDelivered StopCompletes
CHECK_DEADLOCK FALSE
