SPECIFICATION MCSpec
CONSTANTS
  call = call
  other = other
  Tasks = {call, other}
  MaxEffects <- MCMaxEffects
  MaxOps = 3
  Threads = {a, b}
  MaxCalls = 3
INVARIANTS
  Accounted
  ReturnsComplete
  FailureReported
  ReadyIsSettled
  TrapIsOwn
  LeaseBalanced
PROPERTIES
  SuspendedResumes
  LeaseIsGranted
