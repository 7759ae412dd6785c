-------------------------- MODULE MCEditorSessions --------------------------
(* Small instances of EditorSessions for TLC.                              *)
EXTENDS EditorSessions, TLC

CONSTANTS s1, s2, f, g, old, new

\* Every file in a directory of its own.
OwnDirectory == [p \in Paths |-> {p}]

\* All files in one directory.
OneDirectory == [p \in Paths |-> Paths]

\* Every fault but the exception that is no RuntimeError.
Answered == FaultKinds \ {"timeout"}

SessionSymmetry == Permutations(Sessions)
AllSymmetry     == SessionSymmetry \cup Permutations(Paths) \cup Permutations(Texts)
=============================================================================
