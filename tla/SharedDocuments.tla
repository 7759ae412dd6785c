-------------------------- MODULE SharedDocuments --------------------------
(***************************************************************************)
(* Documents in memory under concurrent callers: batches of                *)
(* core.transactions.TransactionCoordinator, or the single commands of     *)
(* tree_engine.facade.  Each family has one lock coordinator of its own.   *)
(*                                                                         *)
(* A document is its tree, the set of callers whose change is in it, and   *)
(* its document_version.  Locks are taken and dropped one document at a    *)
(* time through LockTable.  Between two steps of a caller lies a lock, an  *)
(* await of one, or a read or write of shared state outside a lock.        *)
(***************************************************************************)
EXTENDS Integers, FiniteSets

CONSTANTS
  Callers,    \* each issues one command
  Documents,  \* document ids, ordered as UUID.int orders them
  Nobody,
  Families    \* sets of commands that share a lock coordinator

Batches  == {"batch"}
Commands == {"operation", "apply_subtree", "move", "reparse"}
AllKinds == Batches \cup Commands

ASSUME DocumentsAssumption == Documents \subseteq Nat /\ IsFiniteSet(Documents) /\ Documents # {}
ASSUME CallersAssumption   == IsFiniteSet(Callers) /\ Nobody \notin Callers
ASSUME FamiliesAssumption  == Families \subseteq {Batches, Commands}

VARIABLES
  tree,      \* document -> the changes in its live tree
  version,   \* document -> document_version
  holder,    \* document -> the caller that has its lock, or Nobody
  pc,        \* caller -> the step it takes next
  kind,      \* caller -> its command
  docs,      \* caller -> the documents the command touches
  source,    \* caller -> the document argument, a move's source
  checked,   \* caller -> whether it passes expected_version
  saw,       \* caller -> document -> the version it expects
  copy,      \* caller -> document -> a batch's overlay, a reparse's rebuilt tree
  start,     \* caller -> document -> the version it will leave one behind
  todo,      \* caller -> documents it has still to publish
  outcome,   \* caller -> what its command answered
  seen,      \* history: caller -> document -> the tree it had read
  basis,     \* history: caller -> document -> the tree its change replaced
  applied    \* history: document -> the changes ever made to it

shared  == <<tree, version, applied>>
command == <<kind, docs, source, checked, saw, seen>>
vars    == <<tree, version, holder, pc, kind, docs, source, checked, saw, copy,
             start, todo, outcome, seen, basis, applied>>

Locks == INSTANCE LockTable WITH Threads <- Callers

Changes  == SUBSET Callers
Versions == 0..(Cardinality(Callers) + 1)

Lowest(S) == CHOOSE d \in S : \A e \in S : d <= e
Held(c)   == {d \in docs[c] : holder[d] = c}

\* A move publishes its source first, a batch goes by locked_ids.
Turn(c) == IF kind[c] = "move" /\ source[c] \in todo[c] THEN source[c] ELSE Lowest(todo[c])

PCs      == {"idle", "check", "render", "lock", "check_locked", "run", "recheck",
             "swap", "mutate", "commit", "bump", "release", "done"}
Outcomes == {"pending", "ok", "conflict", "failed"}

TypeOK ==
  /\ tree \in [Documents -> Changes]
  /\ version \in [Documents -> Versions]
  /\ holder \in [Documents -> Callers \cup {Nobody}]
  /\ pc \in [Callers -> PCs]
  /\ kind \in [Callers -> AllKinds]
  /\ docs \in [Callers -> SUBSET Documents]
  /\ source \in [Callers -> Documents]
  /\ checked \in [Callers -> BOOLEAN]
  /\ saw \in [Callers -> [Documents -> Versions]]
  /\ copy \in [Callers -> [Documents -> Changes]]
  /\ start \in [Callers -> [Documents -> Versions]]
  /\ todo \in [Callers -> SUBSET Documents]
  /\ outcome \in [Callers -> Outcomes]
  /\ seen \in [Callers -> [Documents -> Changes]]
  /\ basis \in [Callers -> [Documents -> Changes]]
  /\ applied \in [Documents -> Changes]

Init ==
  /\ tree = [d \in Documents |-> {}]
  /\ version = [d \in Documents |-> 1]
  /\ holder = [d \in Documents |-> Nobody]
  /\ pc = [c \in Callers |-> "idle"]
  /\ \E family \in Families : kind \in [Callers -> family]
  /\ docs = [c \in Callers |-> {}]
  /\ source = [c \in Callers |-> Lowest(Documents)]
  /\ checked = [c \in Callers |-> FALSE]
  /\ saw = [c \in Callers |-> version]
  /\ copy = [c \in Callers |-> tree]
  /\ start = [c \in Callers |-> version]
  /\ todo = [c \in Callers |-> {}]
  /\ outcome = [c \in Callers |-> "pending"]
  /\ seen = [c \in Callers |-> tree]
  /\ basis = [c \in Callers |-> tree]
  /\ applied = tree

-----------------------------------------------------------------------------
(* A caller reads the documents, decides on a command and issues it.       *)

\* A batch touches any set with its document_id in it, a move goes to the
\* same or another document, the rest work on their argument alone.
Touched(c, d) == CASE kind[c] = "batch" -> {D \in SUBSET Documents : d \in D}
                   [] kind[c] = "move"  -> {{d, e} : e \in Documents}
                   [] OTHER             -> {{d}}

FirstStep(c) == CASE kind[c] = "batch"   -> "lock"
                  [] kind[c] = "reparse" -> "render"
                  [] OTHER               -> "check"

\* reparse alone takes no expected_version.
Issue(c) ==
  /\ pc[c] = "idle"
  /\ \E d \in Documents :
       /\ source' = [source EXCEPT ![c] = d]
       /\ \E D \in Touched(c, d) : docs' = [docs EXCEPT ![c] = D]
  /\ \/ /\ kind[c] # "reparse"
        /\ checked' = [checked EXCEPT ![c] = TRUE]
        /\ saw' = [saw EXCEPT ![c] = version]
        /\ seen' = [seen EXCEPT ![c] = tree]
     \/ UNCHANGED <<checked, saw, seen>>
  /\ pc' = [pc EXCEPT ![c] = FirstStep(c)]
  /\ UNCHANGED <<shared, holder, kind, copy, start, todo, outcome, basis>>

Answer(c, result, next) ==
  /\ outcome' = [outcome EXCEPT ![c] = result]
  /\ pc' = [pc EXCEPT ![c] = next]

\* facade._operation and facade.move compare expected_version with no lock held.
Check(c) ==
  /\ pc[c] = "check"
  /\ IF checked[c] /\ version[source[c]] # saw[c][source[c]]
     THEN Answer(c, "conflict", "done")
     ELSE /\ pc' = [pc EXCEPT ![c] = "lock"]
          /\ UNCHANGED outcome
  /\ UNCHANGED <<shared, holder, command, copy, start, todo, basis>>

\* reparse renders and parses with no lock held either.
Render(c) ==
  /\ pc[c] = "render"
  /\ copy' = [copy EXCEPT ![c] = tree]
  /\ pc' = [pc EXCEPT ![c] = "lock"]
  /\ UNCHANGED <<shared, holder, command, start, todo, outcome, basis>>

-----------------------------------------------------------------------------
(* Locks.                                                                  *)

LockedStep(c) == IF kind[c] = "batch" THEN "check_locked" ELSE "mutate"

\* Variant: only the document the request names is locked.
LockPrimary(c) ==
  /\ pc[c] = "lock"
  /\ Locks!Take(c, source[c])
  /\ pc' = [pc EXCEPT ![c] = LockedStep(c)]
  /\ todo' = [todo EXCEPT ![c] = docs[c]]
  /\ UNCHANGED <<shared, command, copy, start, outcome, basis>>

Lock(c) ==
  /\ pc[c] = "lock"
  /\ LET d == Lowest(docs[c] \ Held(c)) IN
       /\ Locks!Take(c, d)
       /\ pc' = [pc EXCEPT ![c] = IF docs[c] = Held(c) \cup {d} THEN LockedStep(c) ELSE "lock"]
  /\ todo' = [todo EXCEPT ![c] = docs[c]]
  /\ UNCHANGED <<shared, command, copy, start, outcome, basis>>

\* The block is left.  A move still has its two documents to commit.
Release(c) ==
  /\ pc[c] = "release"
  /\ Locks!Drop(c, Lowest(Held(c)))
  /\ pc' = [pc EXCEPT ![c] =
              CASE Cardinality(Held(c)) > 1                       -> "release"
                [] Held(c) = {Lowest(Held(c))} /\ todo[c] = {}    -> "done"
                [] Held(c) = {Lowest(Held(c))} /\ todo[c] # {}    -> "commit"]
  /\ UNCHANGED <<shared, command, copy, start, todo, outcome, basis>>

-----------------------------------------------------------------------------
(* TransactionCoordinator.execute.                                         *)

\* Give up inside the block: rollback drops the overlays.
GiveUp(c, result) ==
  /\ Answer(c, result, "release")
  /\ todo' = [todo EXCEPT ![c] = {}]

\* Variant: expected_version is checked for the request's own document only.
CheckPrimary(c) ==
  /\ pc[c] = "check_locked"
  /\ IF checked[c] /\ version[source[c]] # saw[c][source[c]]
     THEN GiveUp(c, "conflict")
     ELSE /\ pc' = [pc EXCEPT ![c] = "run"]
          /\ UNCHANGED <<outcome, todo>>
  /\ UNCHANGED <<shared, holder, command, copy, start, basis>>

CheckLocked(c) ==
  /\ pc[c] = "check_locked"
  /\ IF checked[c] /\ \E d \in docs[c] : version[d] # saw[c][d]
     THEN GiveUp(c, "conflict")
     ELSE /\ pc' = [pc EXCEPT ![c] = "run"]
          /\ UNCHANGED <<outcome, todo>>
  /\ UNCHANGED <<shared, holder, command, copy, start, basis>>

\* Variant: the overlay shares the live document's nodes, so a batch that
\* fails leaves behind what it did to them.
RunInPlace(c) ==
  /\ pc[c] = "run"
  /\ start' = [start EXCEPT ![c] = version]
  /\ \/ /\ copy' = [copy EXCEPT ![c] = [d \in Documents |-> tree[d] \cup {c}]]
        /\ pc' = [pc EXCEPT ![c] = "recheck"]
        /\ UNCHANGED <<tree, outcome, todo>>
     \/ /\ GiveUp(c, "failed")
        /\ tree' = [tree EXCEPT ![source[c]] = @ \cup {c}]
        /\ UNCHANGED copy
  /\ UNCHANGED <<version, applied, holder, command, basis>>

\* One overlay per document, the operations, the closing full check.
Run(c) ==
  /\ pc[c] = "run"
  /\ start' = [start EXCEPT ![c] = version]
  /\ \/ /\ copy' = [copy EXCEPT ![c] = [d \in Documents |-> tree[d] \cup {c}]]
        /\ pc' = [pc EXCEPT ![c] = "recheck"]
        /\ UNCHANGED <<outcome, todo>>
     \/ /\ GiveUp(c, "failed")
        /\ UNCHANGED copy
  /\ UNCHANGED <<shared, holder, command, basis>>

\* commit, first pass.
Recheck(c) ==
  /\ pc[c] = "recheck"
  /\ IF \E d \in docs[c] : version[d] # start[c][d]
     THEN GiveUp(c, "conflict")
     ELSE /\ pc' = [pc EXCEPT ![c] = "swap"]
          /\ UNCHANGED <<outcome, todo>>
  /\ UNCHANGED <<shared, holder, command, copy, start, basis>>

\* c's change of document d takes the place of what was there.
Apply(c, d, content) ==
  /\ tree' = [tree EXCEPT ![d] = content]
  /\ basis' = [basis EXCEPT ![c][d] = tree[d]]
  /\ applied' = [applied EXCEPT ![d] = @ \cup {c}]

\* commit, second pass: one document's overlay ...
Swap(c) ==
  /\ pc[c] = "swap"
  /\ Apply(c, Turn(c), copy[c][Turn(c)])
  /\ pc' = [pc EXCEPT ![c] = "bump"]
  /\ UNCHANGED <<version, holder, command, copy, start, todo, outcome>>

\* Variant: the version counts operations instead of changes.
BumpPerOperation(c) ==
  /\ pc[c] = "bump"
  /\ version' = [version EXCEPT ![Turn(c)] = start[c][Turn(c)] + 2]
  /\ todo' = [todo EXCEPT ![c] = @ \ {Turn(c)}]
  /\ CASE todo'[c] # {} -> /\ pc' = [pc EXCEPT ![c] = IF kind[c] = "batch" THEN "swap" ELSE "commit"]
                           /\ UNCHANGED outcome
       [] todo'[c] = {} -> Answer(c, "ok", IF kind[c] = "move" THEN "done" ELSE "release")
  /\ UNCHANGED <<tree, applied, holder, command, copy, start, basis>>

\* ... and its version; here the single commands' `+= 1' ends as well.
Bump(c) ==
  /\ pc[c] = "bump"
  /\ version' = [version EXCEPT ![Turn(c)] = start[c][Turn(c)] + 1]
  /\ todo' = [todo EXCEPT ![c] = @ \ {Turn(c)}]
  /\ CASE todo'[c] # {} -> /\ pc' = [pc EXCEPT ![c] = IF kind[c] = "batch" THEN "swap" ELSE "commit"]
                           /\ UNCHANGED outcome
       [] todo'[c] = {} -> Answer(c, "ok", IF kind[c] = "move" THEN "done" ELSE "release")
  /\ UNCHANGED <<tree, applied, holder, command, copy, start, basis>>

-----------------------------------------------------------------------------
(* The facade's commands inside their block.                               *)

\* apply_subtree compares expected_version again.
Stale(c) == /\ kind[c] = "apply_subtree"
            /\ checked[c]
            /\ version[source[c]] # saw[c][source[c]]

\* Addresses are resolved, the fragment parsed, the change validated and
\* made; _committed reads the version it will add one to.
\* Variant: the new version is one past the version the caller expected.
OperateFromExpected(c) ==
  /\ kind[c] \in {"operation", "apply_subtree"}
  /\ pc[c] = "mutate"
  /\ \/ /\ ~Stale(c)
        /\ Apply(c, source[c], tree[source[c]] \cup {c})
        /\ start' = [start EXCEPT ![c] = IF checked[c] THEN saw[c] ELSE version]
        /\ pc' = [pc EXCEPT ![c] = "bump"]
        /\ UNCHANGED <<outcome, todo>>
     \/ /\ GiveUp(c, IF Stale(c) THEN "conflict" ELSE "failed")
        /\ UNCHANGED <<tree, applied, basis, start>>
  /\ UNCHANGED <<version, holder, command, copy>>

Operate(c) ==
  /\ kind[c] \in {"operation", "apply_subtree"}
  /\ pc[c] = "mutate"
  /\ \/ /\ ~Stale(c)
        /\ Apply(c, source[c], tree[source[c]] \cup {c})
        /\ start' = [start EXCEPT ![c] = version]
        /\ pc' = [pc EXCEPT ![c] = "bump"]
        /\ UNCHANGED <<outcome, todo>>
     \/ /\ GiveUp(c, IF Stale(c) THEN "conflict" ELSE "failed")
        /\ UNCHANGED <<tree, applied, basis, start>>
  /\ UNCHANGED <<version, holder, command, copy>>

\* move.move relocates the nodes in both documents and leaves the block.
Relocate(c) ==
  /\ kind[c] = "move"
  /\ pc[c] = "mutate"
  /\ \/ /\ tree' = [d \in Documents |-> IF d \in docs[c] THEN tree[d] \cup {c} ELSE tree[d]]
        /\ basis' = [basis EXCEPT ![c] = tree]
        /\ applied' = [d \in Documents |-> IF d \in docs[c] THEN applied[d] \cup {c} ELSE applied[d]]
        /\ pc' = [pc EXCEPT ![c] = "release"]
        /\ UNCHANGED <<outcome, todo>>
     \/ /\ GiveUp(c, "failed")
        /\ UNCHANGED <<tree, applied, basis>>
  /\ UNCHANGED <<version, holder, command, copy, start>>

\* facade.move, after the block: _committed once per document.
Commit(c) ==
  /\ pc[c] = "commit"
  /\ start' = [start EXCEPT ![c][Turn(c)] = version[Turn(c)]]
  /\ pc' = [pc EXCEPT ![c] = "bump"]
  /\ UNCHANGED <<shared, holder, command, copy, todo, outcome, basis>>

\* reparse swaps in what it rebuilt before it had the lock.
Rebuild(c) ==
  /\ kind[c] = "reparse"
  /\ pc[c] = "mutate"
  /\ Apply(c, source[c], copy[c][source[c]] \cup {c})
  /\ start' = [start EXCEPT ![c] = version]
  /\ pc' = [pc EXCEPT ![c] = "bump"]
  /\ UNCHANGED <<version, holder, command, copy, todo, outcome>>

Step(c) == \/ Issue(c) \/ Check(c) \/ Render(c) \/ Lock(c) \/ Release(c)
           \/ CheckLocked(c) \/ Run(c) \/ Recheck(c) \/ Swap(c) \/ Bump(c)
           \/ Operate(c) \/ Relocate(c) \/ Commit(c) \/ Rebuild(c)

Rest == (\A c \in Callers : pc[c] = "done") /\ UNCHANGED vars

Next == (\E c \in Callers : Step(c)) \/ Rest

Spec == Init /\ [][Next]_vars

-----------------------------------------------------------------------------
(* Properties.                                                             *)

Moved(d) == \E c \in applied[d] : kind[c] = "move"

\* Whether c's change replaced the very tree c had read, wherever a version
\* could tell: a move does not count its documents under their locks.
Fresh(c) == \A d \in docs[c] : Moved(d) \/ basis[c][d] = seen[c][d]

\* A batch or an apply_subtree that passed expected_version changed what its
\* caller had read: "a stale expected_version is refused, never merged"
\* (transactions.py:23), whatever ran between the check and the commit.
CheckedUnderLock ==
  \A c \in Callers :
    kind[c] \in {"batch", "apply_subtree"} /\ checked[c] /\ outcome[c] = "ok" => Fresh(c)

\* "Every mutating one checks expected_version against the monotonic
\* document_version under the shared lock coordinator" (facade.py:13-15): so
\* does a command the facade runs.
StaleRefused ==
  \A c \in Callers : kind[c] # "batch" /\ checked[c] /\ outcome[c] = "ok" => Fresh(c)

\* Only reparse, which rendered the document before it had the lock, puts a
\* tree in place that lacks a change made to the one before.
OnlyReparseDrops ==
  [][\A d \in Documents :
       tree[d] \subseteq tree'[d] \/ \E c \in Callers : kind[c] = "reparse" /\ Rebuild(c)]_vars

\* A batch that has left its block is in all of its documents or in none, as
\* its answer says (transactions.py:14-16).
AllOrNothing ==
  \A c \in Callers : kind[c] = "batch" /\ pc[c] = "done" =>
    {d \in Documents : c \in applied[d] \cup tree[d]} = IF outcome[c] = "ok" THEN docs[c] ELSE {}

\* The version of a document nobody is changing counts its changes, so no two
\* contents of it carry one version; a document that was moved is excepted.
VersionCounts ==
  \A d \in Documents : holder[d] = Nobody /\ ~Moved(d) => version[d] = 1 + Cardinality(applied[d])
=============================================================================
