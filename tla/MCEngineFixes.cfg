SPECIFICATION MCSpec
CHECK_DEADLOCK FALSE
CONSTANTS
  Claimers = {c1, c2, c3}  Capacity = 3  CapacityMargin = 1  Requests = {0, 1, 3, 5}
  Appenders = {a1, a2, a3}  PoolSize = 3  MinFreeEntries = 2  Width = 8  MaxPops = 6
  WordSize = 8  EntrySize = 2  Tables <- MCTables
  AvThreads = {v1, v2, v3}
  JobThreads = {j1, j2, j3}  MaxNesting = 2
  SaveNames = {n1, n2}  MaxSaves = 3
  ShadowThreads = {s1, s2}  Properties = {p1, p2}  Blocks = {b1, b2}
  PassCount = 2  Descriptors = {1, 4}  MaxAccumulate = 2
  Targets = {42, 43}  SavedTarget = 1
  Schema <- MCSchema  UserFiles <- MCUserFiles  CustomFiles <- MCCustomFiles
  Games <- MCGames
  Layouts <- MCLayouts  HighBase = 10000  HighEnd = 20000  MinPointer = 64
  HeapWords = {5000}  OtherWords <- MCOtherWords
INVARIANTS
  SlotsClaimedOnce NullOnlyAfterManyPops ReadsWholeEntry NoWriteThroughFreedEntries BatchAloneInList
  BlockHasOneOwner FillsInnermostLight TargetRestored UserValuesSurvive SettledFileNotRewritten
  SkippedOnlyIfStale ResumesOnWholeInstructions
  UsesVouchedWord LiveObjectsDispatched
PROPERTY
  EverySaveHappens
