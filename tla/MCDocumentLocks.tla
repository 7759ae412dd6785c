-------------------------- MODULE MCDocumentLocks --------------------------
(* A small instance of DocumentLocks for TLC.                              *)
EXTENDS DocumentLocks

ThreeDocuments == 1..3

\* Every pair: pairs overlap, so three threads can
\* stand in a circle, and a nested session can be refused at once or half way.
SomeRequests == {{1, 2}, {2, 3}, {1, 3}}
=============================================================================
