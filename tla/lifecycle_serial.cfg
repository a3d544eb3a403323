CONSTANTS
  Callers = {c1, c2}
  Threads = {t1, t2}
  None = None
  MayOverlap = FALSE
  ListenersMayCall = FALSE
  SpawnMayFail = FALSE
SPECIFICATION FairSpec
INVARIANTS SerialInv OneWorker ActiveIffRunning
PROPERTIES StopReturns StartMonitors ServiceSpec
