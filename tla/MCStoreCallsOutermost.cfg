SPECIFICATION CallsSpec
CONSTANTS
  Threads = {a, b}
  MaxCalls = 2
INVARIANT
  OutermostOnly
