CONSTANTS
  User = {u1}
  Client = {c1, c2}
  Tok = {t1, t2, t3}
  Call = {q1, q2}
  None = None
  Owner <- OwnerOf
  MaxFaults = 1
SPECIFICATION Spec
SYMMETRY Symmetry
INVARIANTS TypeOK OneLivePerSession AccessNeedsSession OnlyOverlapSignsOut
