SPECIFICATION FairSpec
CONSTANTS
  None = None
  Servers = {s1, s2}
  Readers = {r1, r2}
  Editors = {e1, e2}
  Targets = {"LIVE", "CANCELLED"}
  TTL = 2
INVARIANTS TypeOK OldCopyIsExplained OneLoadAtATime
PROPERTIES CancellationSettles CacheConverges GetsAreAnswered
CHECK_DEADLOCK FALSE
