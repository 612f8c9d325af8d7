SPECIFICATION FairSpec
CONSTANTS
  None = None
  Reservations = {r1}
  Orders = {o1, o2}
  Calls = {c1, c2}
  Keys = {k1, k2}
  ExpiresAt <- MCExpiresAt
  MaxNow = 2
  Overlap = TRUE
INVARIANTS TypeOK SoldIsPaid RefundIsOwed RefundIsRecorded CancelledOwesNothing
PROPERTIES SaleIsFinal CallsFinish
CHECK_DEADLOCK FALSE
