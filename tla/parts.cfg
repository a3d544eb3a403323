SPECIFICATION MCSpec
CONSTANTS
  Emitters = {t1, t2}
  NoEmitter = NoEmitter
  MaxConnections = 2
  MaxEmissions = 2
  Writers = {w1, w2}
  NoWriter = NoWriter
  Sinks = {s1, s2}
  NoSink = NoSink
  ChattySinks = {}
  ConsoleSink = s1
  Levels = {1, 2}
  Info = 2
  MaxRecords = 2
  Variables = {g1, g2}
  Temporary = Temporary
  MaxGuardians = 3
  AssignOverRunning = FALSE
  Processes = {p1, p2, p3}
  NoProcess = NoProcess
  PageCount = 3
  Files = {f1, f2}
  OddFiles = {}
  Anonymous = Anonymous
  None = None
  MaxRemaps = 1
  CellCount = 3
  Unmapped = Unmapped
  Protections <- MCProtections
  Bytes = {1, 2}
  MaxWrites = 1
  BlockSize = 8
  LengthSize = 2
  Pad = 128
  MaxMessage = 20
  Radix = 3
  SmallWidth = 2
  WideWidth = 3
  Baselines <- MCBaselines
  AddressCount = 32
  HalfWord = 8
  ModuleBase = 1
  ModuleSize = 6
  Sections = {1, 4}
  MaxArguments = 4
  MaxPieces = 2
  MaxRuns = 2
INVARIANTS
  EmissionIsWhole
  SinkOutlivesWrite
  OneOwner
  RunningMonitorHasParts
  BaselineFitsTarget
  BytesMatchRegions
  SteadyCodeIsCovered
  QuietSectionsAreOwned
  RegionsAreDisjoint
  DiffIsSound
  DiffIsComplete
  DigestIsOfMessage
  BufferHoldsTail
  LoadedIsSaved
  OnlyWholeFilesLoad
  FindingsAreEscapes
  ExitCodeIsHonest
  NoHalfBaseline
PROPERTIES
  EveryEmitReturns
  EveryLogReturns
CHECK_DEADLOCK FALSE
