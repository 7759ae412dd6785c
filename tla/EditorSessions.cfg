SPECIFICATION Spec
CONSTANTS
  s1 = s1
  s2 = s2
  f = f
  g = g
  old = old
  new = new
  Sessions = {s1, s2}
  Paths = {f, g}
  Texts = {old, new}
  Absent = Absent
  Nobody = Nobody
  Outsider = Outsider
  Closed = Closed
  Beneath <- OwnDirectory
  Faults <- Answered
INVARIANTS
  TypeOK
  IndexMatchesDrafts
  
  
PROPERTIES
  
  EditsKept
SYMMETRY AllSymmetry
