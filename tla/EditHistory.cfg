SPECIFICATION Spec
CONSTANTS
  Texts <- FourTexts
  Parsable <- WellFormed
  Noded <- WithNodes
  Export <- Unmark
  NoTree = "no tree"
  Sidecar = "sidecar"
  Kinds <- AllKinds
  MaxCommits = 6
INVARIANTS
  TypeOK
  HeadIsNewest
  ValidTreeIsTruth
  TreeTempCurrent
PROPERTIES
  PastKept
  UndoRestoresTracked
CHECK_DEADLOCK FALSE
