CONSTANTS
  Bases = {b1, b2}
  MaxFound = 1
  MaxSlots = 2
  MayThrow = FALSE
SPECIFICATION FairSpec
INVARIANTS CycleInv BooksAreRight EnabledPhasesPerformed
PROPERTY PollsRecur
