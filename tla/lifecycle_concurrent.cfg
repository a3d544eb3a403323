CONSTANTS
  Callers = {c1, c2, c3}
  Threads = {t1, t2}
  None = None
  MayOverlap = TRUE
  ListenersMayCall = TRUE
  SpawnMayFail = TRUE
SPECIFICATION Spec
INVARIANTS NoLostThread DeadIsQuiet
CHECK_DEADLOCK FALSE
SYMMETRY Symmetry
