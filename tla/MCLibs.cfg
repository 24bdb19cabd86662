SPECIFICATION MCSpec
CONSTANTS
  CacheAddr = {0, 1, 2, 4}
  Configs <- MCConfigs
  HIGH_ASSOC = 1
  HASH_SHARE = 1
  CACHE_HASH <- MCHash
  MaxAccesses = 4
  Predictors <- MCPredictors
  Code <- MCCode
  Targets <- MCTargets
  EntryPC = 8
  FetchSize = 2
  WindowSize = 3
  MaxLookups = 6
  AddrXor <- MCXor
  AddrOr <- MCOr
  Options <- MCOptions
  Order <- MCOrder
  CommandLines <- MCCommandLines
  Dashed <- MCDashed
  Negative = {"-1"}
  Parses <- MCParses
  Shows <- MCShows
  Pieces <- MCPieces
  Files <- MCFiles
  MaxOpen = 3
  W = 6
  Letters <- MCLetters
  Digits = {"0", "1", "2", "4", "5", "6", "7", "8", "9"}
  HexDigits = {"a", "c", "e", "f"}
  Numerals <- MCNumerals
  Idents <- MCIdents
  Trees <- MCTrees
  Noise = {0, 1, 2, 3, 4, 5}
  Tables <- MCTables
  Tracked <- MCTracked
  Indices = {0, 1, 3, 65, 129}
  TextAddrs = {4, 18}
  Deltas = {1, 65}
  HTAB_SZ = 4
  ADDR_SHARE = 2
  MaxActs = 4
  DebugCommands <- MCDebugCommands
  LineBytes = 4
  ScreenLines = 2
  MaxCount = 12
  InstSize = 4
  ScreenInsts = 2
  Registers <- MCRegisters
  HelpWords = {"x"}
  DatabaseEntries <- MCEntries
  MaxCommands = 3
  Program <- MCProgram
  Entry = 4
  Simulators = {"fast", "safe", "profile", "eio", "ffwd"}
  MaxInsts = 5
  Checkpoints <- MCCheckpoints
  Times = {1, 2}
  MaxEvents = 3
  MD_PAGE_SIZE = 4
  MEM_PTAB_SIZE = 2
  ld_stack_base = 64
  MD_MAX_ENVIRON = 20
  PtrSize = 2
  ByteBase = 16
  NoBase = 127
  Executables <- MCExecutables
  Accesses <- MCAccesses
  MaxProgram = 3
  Calls <- MCCalls
  Stores = {8, 9, 32}
  SP = 20
  PageSize = 4
  StructSize = 2
  ld_brk_start = 8
  MmapStart = 32
  Errno = 5
  Input <- MCInput
  MaxSyscalls = 3
  BLOB_TAIL_SIZE = 2
  FastForward = 1
  Interval = 1
INVARIANTS
  CacheIsSound
  PredictorIsSound
  DumpRestores
  ExpressionsMeanWhatTheySay
  
  RunsTheProgram
  
  NoEventLost
  LoadingIsRight

  
CHECK_DEADLOCK FALSE
