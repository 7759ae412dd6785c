SPECIFICATION Spec
CONSTANTS
  Docs = {"A", "B"}
  Root <- Roots
  Pool = 7
  Born = 5
  FirstKids <- Kids
  Sequenced = {1}
  Singled = {}
  Given = {"first_child", "child_index", "after"}
  Offsets = {1}
  MaxFragment = 2
  MaxEdits = 1
PROPERTY MoveIsRendered
CHECK_DEADLOCK FALSE
