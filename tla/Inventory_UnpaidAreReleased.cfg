SPECIFICATION FairSpec
CONSTANTS
  t1 = t1
  t2 = t2
  r1 = r1
  r2 = r2
  r3 = r3
  r4 = r4
  r5 = r5
  None = None
  Types = {t1}
  Rows = {r1, r2, r3, r4}
  Buyers = {b1}
  Scanners = {s1}
  Capacity <- OneTypeCapacity
  Quantities = {1, 2}
  Seed <- OneTypeSeed
  Batch = 1
  TTL = 1
  MaxNow = 3
  MaxFaults = 1
PROPERTY UnpaidAreReleased
CHECK_DEADLOCK FALSE
