SPECIFICATION Spec
CONSTANTS
  None = None
  Deliveries = {d1, d2}
  Operators = {o1}
  MaxAttempts = 3
  MaxFaults = 0
INVARIANT HealthyIsNotDead
CHECK_DEADLOCK FALSE
