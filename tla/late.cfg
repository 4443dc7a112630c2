CONSTANTS
  Seat = {s1}
  User = {u1}
  Key = {}
  Rid = {r1, r2}
  SeatReq = {q1}
  PayReq = {p1}
  Inst = {i1}
  Sweepers = {}
  None = None
  UnknownSeat = UnknownSeat
  HoldTtl = 1
  MaxClock = 2
  MaxFaults = 0
  MaxActive = 1
  PostWhenFull = FALSE
SPECIFICATION Spec
ACTION_CONSTRAINT KnownIds
VIEW Unannounced
SYMMETRY Symmetry
INVARIANTS TypeOK SeatExclusive PaidIffConfirmed OneOutcome
PROPERTIES NeverReheld ImplementsLedger ConfirmedStays
CHECK_DEADLOCK FALSE
