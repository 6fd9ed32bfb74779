SPECIFICATION CacheSpec
CONSTANTS
  n1 = n1
  e1 = e1
  e2 = e2
  t1 = t1
  t2 = t2
  Null = Null
  Names = {n1}
  Entries = {e1}
  Threads = {t1, t2}
  MaxFails = 7
  MaxTime = 0

PROPERTY OverCountHolds
