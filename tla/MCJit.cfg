SPECIFICATION FairSpec
CONSTANTS
  Funcs <- TreeFuncs
  Size <- TreeSize
  MaxBytes = 2
  Broken = {"h"}
  Entries = {"main", "a"}
  Code <- TreeCode
  MaxFrames = 3
  MaxEntries = 2
INVARIANTS
  CacheConsistent
  OwnFrame
PROPERTIES
  EntersCachedCode
  ImplementsCalls
  CallEnds
