CONSTANTS
  Seat = {s1, s2}
  User = {u1}
  Key = {k1}
  Rid = {r1}
  SeatReq = {q1, q2}
  PayReq = {p1}
  Inst = {i1}
  Sweepers = {}
  None = None
  UnknownSeat = UnknownSeat
  HoldTtl = 1
  MaxClock = 1
  MaxFaults = 0
  MaxActive = 1
  PostWhenFull = FALSE
SPECIFICATION Spec
PROPERTY ConfirmedNeverCancelled
CHECK_DEADLOCK FALSE
