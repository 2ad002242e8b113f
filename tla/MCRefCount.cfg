CONSTANTS
  h1 = h1
  h2 = h2
  h3 = h3
  h4 = h4
  Handles <- McHandles
  First = h1
  None = None
SYMMETRY McSymmetry
SPECIFICATION Spec
INVARIANTS NoUseAfterFree NoLeak
CHECK_DEADLOCK FALSE
