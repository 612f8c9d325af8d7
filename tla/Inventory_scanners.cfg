SPECIFICATION FairSpec
CONSTANTS
  t1 = t1
  t2 = t2
  r1 = r1
  r2 = r2
  r3 = r3
  r4 = r4
  r5 = r5
  None = None
  Types = {t1, t2}
  Rows = {r1, r2, r3, r4, r5}
  Buyers = {b1}
  Scanners = {s1, s2}
  Capacity <- MCCapacity
  Quantities = {1}
  Seed <- MCSeed
  Batch = 2
  TTL = 5
  MaxNow = 2
  MaxFaults = 1
INVARIANTS TicketsAccountedFor
PROPERTIES PoolsAreEntities ExpiryIsFinalAndDue PendingAreReleased
CHECK_DEADLOCK FALSE
