SPECIFICATION Spec
CONSTANTS
  c1 = c1
  c2 = c2
  n1 = n1
  n2 = n2
  Callers = {c1, c2}
  Names = {n1, n2}
  Soffice = TRUE
  Second = 2
  Minute = 1
  Hour = 2
  MaxTime = 2
  Nothing = Nothing
  Blank = Blank
  Resident = Resident
SYMMETRY MCSymmetry
INVARIANTS OwnDocument ContentExplained LeakOnlyAfterFault LostByNeighbour
CHECK_DEADLOCK FALSE
