SPECIFICATION MCSpec
CONSTANTS
  BitAnd <- MCAnd
  BitOr <- MCOr
  BitXor <- MCXor
  XLEN = 8
  FlagBits = 1
  Status <- MCStatus
  Segment <- MCSegment
  Programs <- MCPrograms
  Encodings <- MCEncodings
  MD_MAX_MASK = 2048
  Unit = 4
  Grid <- MCGrid
  MinNormal <- MCNormal
  Bits <- MCBits
  Operands <- MCOperands
  FloatSteps = 1
INVARIANTS
  ResultsAreRight
  OperandsAreDeclared
  RightPathIsSequential
  WrongPathReadsItsStores
  DecodingIsRight
  FloatIsRight
CHECK_DEADLOCK FALSE
