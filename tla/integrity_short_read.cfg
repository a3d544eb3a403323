CONSTANTS
  Sections = {s1, s2}
  Pages = 2
  Bytes = {orig, patch}
  Hole = Hole
  None = None
  Algorithms = {sha256, crc32}
  Checker = sha256
  MaxChanges = 1
SPECIFICATION Spec
INVARIANT BaselineIsWhole
SYMMETRY Symmetry
