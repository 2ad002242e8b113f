CONSTANTS
  MaxCommands = 4
SPECIFICATION Spec
INVARIANTS  TruePath
 
CHECK_DEADLOCK FALSE
