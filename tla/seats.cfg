CONSTANTS
  Seat = {s1}
  User = {u1}
  Rid = {r1}
  None = None
  HoldTtl = 1
  MaxClock = 1
  MaxReads = 2
  MaxChanges = 1
SPECIFICATION Spec
INVARIANTS TypeOK FreshAfterDelete NoGap
CHECK_DEADLOCK FALSE
