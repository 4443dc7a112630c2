CONSTANTS
  User = {u1}
  Client = {c1}
  Tok = {t1, t2, t3}
  Call = {q1, q2}
  None = None
  Owner <- OwnerOf
  MaxFaults = 0
SPECIFICATION Spec
INVARIANT RefreshIsTransparent
