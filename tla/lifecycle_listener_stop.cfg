CONSTANTS
  Callers = {c1}
  Threads = {t1}
  None = None
  MayOverlap = FALSE
  ListenersMayCall = TRUE
  SpawnMayFail = FALSE
SPECIFICATION Spec
INVARIANT NoFault
