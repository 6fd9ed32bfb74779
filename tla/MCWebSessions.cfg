SPECIFICATION Spec
CONSTANTS
  u1 = u1
  s1 = s1
  s2 = s2
  r1 = r1
  r2 = r2
  NoSession = NoSession
  Users = {u1}
  Sessions = {s1, s2}
  Requests = {r1, r2}
SYMMETRY MCSymmetry
INVARIANTS SteadySessionConfirmed RefusalExplained
