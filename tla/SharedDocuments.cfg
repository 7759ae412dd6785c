SPECIFICATION Spec
CONSTANTS
  Callers = {c1, c2, c3}
  Documents <- TwoDocuments
  Nobody = Nobody
  Families <- BothFamilies
INVARIANTS
  TypeOK
  
  AllOrNothing
  
PROPERTIES
  OnlyReparseDrops
SYMMETRY CallerSymmetry
