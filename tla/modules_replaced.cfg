CONSTANTS
  Bases = {b1}
  Images = {i1, i2}
  None = None
  MaxChanges = 2
SPECIFICATION Spec
INVARIANT FollowerKnowsImages
SYMMETRY Symmetry
