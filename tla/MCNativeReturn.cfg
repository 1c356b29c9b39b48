SPECIFICATION SpecNative
CONSTANTS
  ByteBits = 2
  FracBits = 2
  F32Prec = 6
  F64Prec = 12
  MaxIterations = 12
  PageBytes = 4
  ChunkBytes = 4
  MemoryGranule = 1
  TableGranule = 1
  PageGranules = 1
  StackRegs = 7
  FarLocals = {}
  FrameAddress = 64
  TestsOf <- NoTests
  MaxControlNesting = 3
  Suites <- ReturnSuites
  Arguments <- MCArguments
  MaxSteps = 30
  Divergent = {"stale return"}
INVARIANT
  NativeEqualsInterpreted
CHECK_DEADLOCK FALSE
