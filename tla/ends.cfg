CONSTANTS
  Seat = {s1, s2}
  User = {u1}
  Key = {}
  Rid = {r1, r2, r3}
  SeatReq = {q1, q2, q3}
  PayReq = {}
  Inst = {i1}
  Sweepers = {}
  None = None
  UnknownSeat = UnknownSeat
  HoldTtl = 1
  MaxClock = 2
  MaxFaults = 0
  MaxActive = 1
  PostWhenFull = TRUE
SPECIFICATION PostsAfterRestart
PROPERTIES RequestsEnd
CHECK_DEADLOCK FALSE
