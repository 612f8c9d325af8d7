SPECIFICATION FairSpec
CONSTANTS
  None = None
  s1 = s1
  s2 = s2
  Instances <- MCInstances
  Callers = {c1, c2}
  Low = {c2}
  MaxConcurrent = 2
  MaxAttempts = 2
  MaxPause = 1
  MaxUpsets = 1
  Capacity = 3
  Rate = 2
  Cost = 3
  MinTTL = 1
INVARIANTS  RetryAfterSuffices
PROPERTIES KeepsQuota TakesTurns CallsEnd
CHECK_DEADLOCK FALSE
