SPECIFICATION FairSpec
CONSTANTS
  Tasks = {t1, t2, t3}
  Addrs = {a1}
  Values = {0, 1}
  Counts = {0, 1, 2}
  MaxWaits = 3
INVARIANTS
  QueuesMatchWaits
  WakeComing
PROPERTIES
  ImplementsFutex
  WaitReturns
