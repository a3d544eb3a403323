CONSTANTS
  Sections = {s1, s2}
  Pages = 2
  Bytes = {orig, patch}
  Hole = Hole
  None = None
  Algorithms = {sha256, crc32}
  Checker = sha256
  MaxChanges = 2
SPECIFICATION Spec
INVARIANTS IntegrityInv AlarmIsReal SteadyTamperIsFound
SYMMETRY Symmetry
