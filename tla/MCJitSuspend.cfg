SPECIFICATION Spec
CONSTANTS
  Funcs = {"m", "w"}
  Size <- WaitSize
  MaxBytes = 1
  Broken = {"w"}
  Entries = {"m"}
  Code <- WaitCode
  MaxFrames = 2
  MaxEntries = 2
INVARIANT
  SuspendsAtEffect
