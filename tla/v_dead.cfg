CONSTANTS
  Worker = {w1, w2}
  MaxEvents = 1
  MaxAttempts = 2
  BatchSize = 1
  Poison = {}
  MaxFaults = 2
SPECIFICATION Spec
CHECK_DEADLOCK FALSE
PROPERTY DeadStays
