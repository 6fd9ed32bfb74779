SPECIFICATION Spec
CONSTANTS
  p1 = p1
  p2 = p2
  c1 = c1
  c2 = c2
  a = a
  b = b
  Null = Null
  Senders = {p1, p2}
  Receivers = {c1, c2}
  Names = {a}
  MaxSend = 2
  Prefetch = 2
  Faults = {"send","read","close"}
SYMMETRY MCSymmetry
INVARIANTS NothingLeftBehind OkMeansPublished AtMostOnce InOrder
CHECK_DEADLOCK FALSE
