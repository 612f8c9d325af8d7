SPECIFICATION FairSpec
CONSTANTS
  r1 = r1
  r2 = r2
  r3 = r3
  Requests = {r1, r2, r3}
  Hash <- MCHash
  Lock = 1
  Timely = TRUE
  MaxNow = 6
  MaxFaults = 3
INVARIANTS TypeOK OneHolder RepeatedOnlyAfterFailure 
PROPERTIES  ClientsServed
CHECK_DEADLOCK FALSE
