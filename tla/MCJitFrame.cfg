SPECIFICATION Spec
CONSTANTS
  Funcs = {"r"}
  Size <- LoopSize
  MaxBytes = 1
  Broken = {}
  Entries = {"r"}
  Code <- LoopCode
  MaxFrames = 4
  MaxEntries = 4
INVARIANT
  OwnFrame
