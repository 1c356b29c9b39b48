SPECIFICATION MCSpec
CONSTANTS
  ByteBits = 2
  FracBits = 2
  F32Prec = 6
  F64Prec = 12
  PageBytes = 4
  ChunkBytes = 2
  MemoryGranule = 1
  TableGranule = 1
  PageGranules = 1
  MaxIterations = 12
  MaxRounds = 12
  MaxSteps = 40
  Divergent = {}
  InstructionsOf <- MCOps
  OperandsOf <- MCOperands
  ImmediatesOf <- MCImmediates
  WorldsOf <- MCWorlds
  Blocks <- MCBlocks
  Machines <- MCMachines
  Programs <- MCPrograms
  Starts <- MCStarts
INVARIANTS
  ComputesSpec
  ParsedTypesMatch
  FuelMatchesWork
  FusedEqualsPlain
  OperandsFit
  LoopsAreCharged
  EncodedEqualsLowered
CHECK_DEADLOCK FALSE
