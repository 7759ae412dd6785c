SPECIFICATION Spec
CONSTANTS
  Docs = {"A", "B"}
  Root <- Roots
  Pool = 7
  Born = 5
  FirstKids <- Kids
  Sequenced = {1}
  Singled = {2}
  Given = {"first_child", "child_index", "after"}
  Offsets = {1}
  MaxFragment = 2
  MaxEdits = 2
INVARIANT TypeOK
INVARIANT TreeSound
INVARIANT IndexesFollowTree
 
INVARIANT LandsAsAsked
 
PROPERTY OthersStay
PROPERTY MovesLoseNothing
CHECK_DEADLOCK FALSE
