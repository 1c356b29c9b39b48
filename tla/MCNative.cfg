SPECIFICATION SpecNative
CONSTANTS
  ByteBits = 2
  FracBits = 2
  F32Prec = 6
  F64Prec = 12
  MaxIterations = 12
  PageBytes = 4
  ChunkBytes = 4
  MemoryGranule = 1
  TableGranule = 1
  PageGranules = 1
  StackRegs = 7
  FarLocals = {}
  FrameAddress = 64
  TestsOf <- MCTests
  MaxControlNesting = 3
  Suites <- MCSuites
  Arguments <- MCArguments
  MaxSteps = 30
  Divergent = {}
INVARIANTS
  NativeEqualsHandler
  
  SkipsTheSameSlots
  AcceptsExactlyValid
  InterpretedEqualsStructured
  TypesDescribeStack
  NativeEqualsInterpreted
CHECK_DEADLOCK FALSE
