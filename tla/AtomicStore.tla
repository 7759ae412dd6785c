---------------------------- MODULE AtomicStore ----------------------------
(***************************************************************************)
(* What tree_engine.storage.file_txn promises its caller, with no file     *)
(* system in sight: a small set of files that a publication replaces all   *)
(* together or not at all.  A publication that reports success has taken   *)
(* effect; one that fails, or whose process dies, has either taken effect  *)
(* completely or left no trace.                                            *)
(***************************************************************************)
CONSTANTS Entries,   \* the files of the set (source file and tree file)
          Values,    \* what a caller may publish
          Absent     \* the content of a file that does not exist

VARIABLES store,     \* the content of every file, as a caller may rely on it
          request    \* the publication under way, or NoRequest

absVars == <<store, request>>

NoRequest == [files |-> {}, value |-> Absent, done |-> FALSE]

Requests == [files : (SUBSET Entries) \ {{}}, value : Values, done : BOOLEAN]

\* The set of files once value v has been published to the files F.
Overlay(s, F, v) == [e \in Entries |-> IF e \in F THEN v ELSE s[e]]

AbsTypeOK == /\ store \in [Entries -> Values \cup {Absent}]
             /\ request \in Requests \cup {NoRequest}

AbsInit == /\ store \in [Entries -> Values \cup {Absent}]
           /\ request = NoRequest

Begin == /\ request = NoRequest
         /\ \E F \in (SUBSET Entries) \ {{}}, v \in Values :
               request' = [files |-> F, value |-> v, done |-> FALSE]
         /\ UNCHANGED store

Commit == /\ request # NoRequest
          /\ ~request.done
          /\ store' = Overlay(store, request.files, request.value)
          /\ request' = [files |-> request.files, value |-> request.value,
                         done |-> TRUE]

\* Success is reported only of a publication that has taken effect.
Succeed == /\ request # NoRequest
           /\ request.done
           /\ request' = NoRequest
           /\ UNCHANGED store

\* An error or a crash may strike before or after the effect.
Abandon == /\ request # NoRequest
           /\ request' = NoRequest
           /\ UNCHANGED store

AbsNext == Begin \/ Commit \/ Succeed \/ Abandon

AbsSpec == AbsInit /\ [][AbsNext]_absVars
=============================================================================
