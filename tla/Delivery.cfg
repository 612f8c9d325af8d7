SPECIFICATION DFairSpec
CONSTANTS
  None = None
  Event = e
  Publishers = {p1}
  Slots = {1, 2}
  RetryLimit = 1
  MaxOutages = 1
  Deliveries = {d1, d2}
  Operators = {o1}
  MaxAttempts = 2
  MaxFaults = 1
INVARIANTS ReplayedWasProcessed ReturnedIsSettled
PROPERTIES KeepsPromise NotLostInSilence StartedEnd
CHECK_DEADLOCK FALSE
