CONSTANTS
  Seat = {s1}
  User = {u1}
  Key = {}
  Rid = {r1}
  SeatReq = {q1}
  PayReq = {}
  Inst = {i1, i2}
  Sweepers = {i1, i2}
  None = None
  UnknownSeat = UnknownSeat
  HoldTtl = 1
  MaxClock = 2
  MaxFaults = 2
  MaxActive = 1
  PostWhenFull = TRUE
SPECIFICATION FairSpec
INVARIANTS ExpiredOnce
PROPERTIES NoEarlyExpiry StaleHoldsFreed
CHECK_DEADLOCK FALSE
