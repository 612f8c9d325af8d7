SPECIFICATION Spec
CONSTANTS
  None = None
  Reservations = {r1}
  Orders = {o1, o2}
  Calls = {c1, c2, c3}
  Keys = {k1, k2}
  ExpiresAt <- MCExpiresAt
  MaxNow = 2
  Overlap = FALSE
INVARIANT SingleConfirmation
CHECK_DEADLOCK FALSE
