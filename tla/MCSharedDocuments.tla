------------------------- MODULE MCSharedDocuments -------------------------
(* Small instances of SharedDocuments for TLC.                             *)
EXTENDS SharedDocuments, TLC

TwoDocuments == 1..2
BothFamilies == {Batches, Commands}
FacadeOnly   == {Commands}

CallerSymmetry == Permutations(Callers)
=============================================================================
