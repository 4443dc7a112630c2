CONSTANTS
  Seat = {s1}
  User = {u1}
  Rid = {r1}
  None = None
  HoldTtl = 1
  MaxClock = 0
  MaxReads = 2
  MaxChanges = 1
SPECIFICATION FairSpec
PROPERTIES PagesSettle
CHECK_DEADLOCK FALSE
