CONSTANTS
  MaxCount = 2
  MaxRounds = 8
  MaxFailures = 2
  MaxResets = 1
SPECIFICATION Spec
INVARIANTS StampMatchesScene StampReady
PROPERTIES StampsContiguous
CHECK_DEADLOCK FALSE
