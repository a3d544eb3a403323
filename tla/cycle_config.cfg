CONSTANTS
  Bases = {b1, b2}
  MaxFound = 1
  MaxSlots = 1
  MayThrow = FALSE
SPECIFICATION Spec
INVARIANT CycleUsesOneConfig
