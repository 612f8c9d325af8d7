SPECIFICATION FairSpec
CONSTANTS
  None = None
  Events = {e1, e2}
  Publishers = {p1}
  Slots = {1, 2}
  Batch = 2
  RetryLimit = 2
  MaxOutages = 2
  MaxFaults = 1
INVARIANTS TypeOK PublishedWasSent UnsentIsPending RepeatedOnlyAfterFailure
PROPERTY EventuallySent
