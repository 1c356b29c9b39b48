SPECIFICATION Spec
CONSTANTS
  Tasks = {t1, t2}
  Addrs = {a1}
  Values = {0, 1}
  Counts = {1}
  MaxWaits = 2
INVARIANT
  QueueBounded
