CONSTANTS
  ConfigCacheSize = 3
  Inputs = {i1, i2}
  NoInput = NoInput
  MaxCount = 2
  MaxTicks = 7
SPECIFICATION Spec
SYMMETRY InputSymmetry
INVARIANTS NoTear WakeupsMatchSlots SkipsAccounted
INVARIANTS CalledIsConnected OfferedToAll RingWellFormed NoUseAfterClose
PROPERTIES ImplementsTickQueue
CHECK_DEADLOCK FALSE
