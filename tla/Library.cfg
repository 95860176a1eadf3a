SPECIFICATION LibrarySpec
CONSTANTS
  Timers = {1, 2, 3, 4, 5, 6}
  Size = 6
  MaxExpires = 3
  MaxHeapOps = 1
  Null = Null
  Ctls = {c1, c2}
  MaxStarts = 2
  MaxLoose = 1
  Threads = {w1, w2}
  RecordLens <- LibraryRecordLens
  BufSize = 3
  AtomicLens = {1, 5}
  MaxRecords = 2
  BlockLens = {0, 1, 2}
  MaxSent = 2
  MaxRequests = 3
  Cells = {1, 2, 3}
  ConfFiles <- LibraryConfFiles
  ConfStrings <- LibraryConfStrings
  Reject = 9
  MaxPools = 3
  MaxJournal = 4
  ChunkSize = 6
  Align = 2
  StateSize = 2
  Sizes = {3, 4, 7}
  MaxChunks = 3
  MaxBlocks = 3
  MaxSaved = 2
  MaxId = 6
  MaxDepth = 3
  MaxTouch = 1
INVARIANTS
  PositionsExact
  HeapOrder
  MinimumOnTop
  OneDaemon
  StaleMeansCrash
  PidIsCurrent
  StatusHonest
  TransSound
  ConfSound
  TreeSound
  AtomicSound
  MempoolSound
  SorterSorts
  ArraySorts
  BlockSound
PROPERTIES
  RollbackUndoes
  JournalUndoes
  FastbufIsFile
CHECK_DEADLOCK FALSE
