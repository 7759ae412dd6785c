--------------------------- MODULE MCEditHistory ---------------------------
(* Small instances of EditHistory for TLC.                                 *)
EXTENDS EditHistory

\* Two texts with nodes, one of them not as unmark would write it, one that
\* parses to no node, one that does not parse.
FourTexts    == {"plain", "styled", "empty", "broken"}
WellFormed   == {"plain", "styled", "empty"}
WithNodes    == {"plain", "styled"}
Unmark       == [t \in WellFormed |-> IF t = "styled" THEN "plain" ELSE t]
AllKinds     == {"text", "tree_temp", "python"}
TextKind     == {"text"}

\* Two texts that mark and unmark leave alone.
TwoTexts     == {"old", "new"}
Unchanged    == [t \in TwoTexts |-> t]
=============================================================================
