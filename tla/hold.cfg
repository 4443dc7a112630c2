CONSTANTS
  Seat = {s1}
  User = {u1, u2}
  Key = {k1}
  Rid = {r1, r2}
  SeatReq = {q1, q2}
  PayReq = {}
  Inst = {i1}
  Sweepers = {}
  None = None
  UnknownSeat = UnknownSeat
  HoldTtl = 1
  MaxClock = 2
  MaxFaults = 0
  MaxActive = 1
  PostWhenFull = FALSE
SPECIFICATION Spec
VIEW Services
SYMMETRY Symmetry
INVARIANTS KeyUnique AnswersOwn FlippedAreStale
PROPERTIES NeverDisplaced
CHECK_DEADLOCK FALSE
