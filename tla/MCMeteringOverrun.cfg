SPECIFICATION Spec
CONSTANTS
  Chunk = 3
  U64Max = 9
  Unlimited = Unlimited
  Fuels = {0, 1, 4, 9}
  Bulks = {2, 4}
  MaxDepth = 2
  MaxEpoch = 1
  MaxSpent = 6
INVARIANT
  DocumentedOverrun
