CONSTANTS
  Bases = {b1, b2}
  MaxFound = 1
  MaxSlots = 2
  MayThrow = TRUE
SPECIFICATION Spec
INVARIANT OneCopyPerEvent
