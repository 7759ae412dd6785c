SPECIFICATION Spec
CONSTANTS
  Texts <- TwoTexts
  Parsable <- TwoTexts
  Noded <- TwoTexts
  Export <- Unchanged
  NoTree = "no tree"
  Sidecar = "sidecar"
  Kinds <- TextKind
  MaxCommits = 5
PROPERTIES
  UndoRestores
CHECK_DEADLOCK FALSE
