---------------------------- MODULE EditHistory ----------------------------
(***************************************************************************)
(* The history of one open file: core.edit_session.EditSession with its    *)
(* SessionRepo (a git repository of the session's source and tree files)   *)
(* and its SessionHistory (the undo/redo timeline), driven by the edit,    *)
(* undo, redo, revert and close commands.                                  *)
(*                                                                         *)
(* A tree file of the marked format is the text it exports, for which mark *)
(* and unmark keep the meaning and lose the style.  A CST sidecar is a     *)
(* tree file of another format, from which nothing is exported.            *)
(***************************************************************************)
EXTENDS Integers, Sequences

CONSTANTS
  Texts,      \* source texts
  Parsable,   \* the ones their format's handler parses
  Noded,      \* the ones it finds nodes in
  Export,     \* what unmark makes of a marked text
  NoTree,     \* there is no tree file
  Sidecar,    \* the tree file is a CST sidecar
  Kinds,      \* the kinds of session: "text", "tree_temp", "python"
  MaxCommits  \* bound on the commits of a session

ASSUME TextsAssumption  == /\ Noded \subseteq Parsable
                           /\ Parsable \subseteq Texts
                           /\ Export \in [Parsable -> Texts]
ASSUME TreesAssumption  == NoTree # Sidecar /\ NoTree \notin Texts /\ Sidecar \notin Texts
ASSUME KindsAssumption  == Kinds \subseteq {"text", "tree_temp", "python"}
ASSUME CommitsAssumption == MaxCommits \in Nat \ {0}

VARIABLES
  kind,      \* the kind of session
  pc,        \* "opening", "idle", "batch" (a tree batch is running) or "closed"
  source,    \* the session's source file
  tree,      \* the session's tree file
  valid,     \* tree_validity
  commits,   \* the repository's commits, oldest first
  timeline,  \* SessionHistory.timeline
  cursor,    \* SessionHistory.cursor, counted from 1
  snapshot   \* source and tree a running batch restores when an operation fails

vars == <<kind, pc, source, tree, valid, commits, timeline, cursor, snapshot>>

Trees == Texts \cup {NoTree, Sidecar}

\* What a commit tracks, and whether commit_full made it.
Commits == [source : Texts, tree : Trees, full : BOOLEAN]

\* An entry names a commit; shown, a history component, is the source file as
\* it was when the entry was recorded.
Entries == [commit : 1..MaxCommits, shown : Texts]

TypeOK ==
  /\ kind \in Kinds
  /\ pc \in {"opening", "idle", "batch", "closed"}
  /\ source \in Texts
  /\ tree \in Trees
  /\ valid \in BOOLEAN
  /\ commits \in Seq(Commits)
  /\ Len(commits) \in 1..MaxCommits
  /\ timeline \in Seq(Entries)
  /\ \A i \in DOMAIN timeline : timeline[i].commit <= Len(commits)
  /\ cursor \in DOMAIN timeline
  /\ snapshot \in [source : Texts, tree : Trees]

Tip(s) == s[Len(s)]

-----------------------------------------------------------------------------
(* SessionRepo and SessionHistory.                                         *)

\* The repository commits its index, and adding a path leaves the rest of the
\* index alone: a commit tracks whatever tree the last one did.
CommitDegraded(log, text) ==
  Append(log, [source |-> text, tree |-> Tip(log).tree, full |-> FALSE])

CommitFull(log, text, t) == Append(log, [source |-> text, tree |-> t, full |-> TRUE])

\* Variant: the redo branch is kept.
RecordKeepingRedo(line, at, entry) == Append(line, entry)

\* Variant: the branch is cut one entry too early.
RecordCuttingCurrent(line, at, entry) ==
  IF at < Len(line) THEN Append(SubSeq(line, 1, at - 1), entry) ELSE Append(line, entry)

Record(line, at, entry) == Append(SubSeq(line, 1, at), entry)

\* What checkout_revision writes for a commit.
Restored(c) == IF c.tree \in Texts THEN c.tree ELSE c.source

-----------------------------------------------------------------------------
(* EditSession.open in a workspace.                                        *)

\* The edit directory holds no marked tree yet, so the session is invalid and
\* its first commit degraded.
Init ==
  /\ kind \in Kinds
  /\ pc = "opening"
  /\ source \in Texts
  /\ tree = IF kind = "python" THEN Sidecar ELSE NoTree
  /\ valid = FALSE
  /\ commits = <<[source |-> source, tree |-> NoTree, full |-> FALSE]>>
  /\ timeline = <<[commit |-> 1, shown |-> source]>>
  /\ cursor = 1
  /\ snapshot = [source |-> source, tree |-> tree]

\* Variant: the revalidated state is recorded and not committed.
RevalidateUncommitted(text, t, log, line, at) ==
  IF text \in Noded
  THEN /\ source' = Export[text]
       /\ tree' = Export[text]
       /\ valid' = TRUE
       /\ commits' = log
       /\ timeline' = Record(line, at, [commit |-> Len(log) + 1, shown |-> Export[text]])
       /\ cursor' = at + 1
  ELSE /\ source' = text
       /\ tree' = t
       /\ valid' = FALSE
       /\ commits' = log
       /\ timeline' = line
       /\ cursor' = at

\* The state after try_revalidate of an invalid session, log and line being
\* the commits and the timeline before it.
Revalidate(text, t, log, line, at) ==
  IF text \in Noded
  THEN /\ source' = Export[text]
       /\ tree' = Export[text]
       /\ valid' = TRUE
       /\ commits' = CommitFull(log, Export[text], Export[text])
       /\ timeline' = Record(line, at, [commit |-> Len(log) + 1, shown |-> Export[text]])
       /\ cursor' = at + 1
  ELSE /\ source' = text
       /\ tree' = t
       /\ valid' = FALSE
       /\ commits' = log
       /\ timeline' = line
       /\ cursor' = at

\* The source file is written, committed alone and recorded.
WriteVerbatim(text) ==
  /\ source' = text
  /\ valid' = FALSE
  /\ commits' = CommitDegraded(commits, text)
  /\ timeline' = Record(timeline, cursor, [commit |-> Len(commits) + 1, shown |-> text])
  /\ cursor' = cursor + 1
  /\ UNCHANGED tree

\* A Python session is revalidated, a tree-temp draft written once more.
Opened ==
  /\ pc = "opening"
  /\ Len(commits) < MaxCommits
  /\ pc' = "idle"
  /\ CASE kind = "python"    -> Revalidate(source, tree, commits, timeline, cursor)
       [] kind = "tree_temp" -> \E text \in Texts : WriteVerbatim(text)
       [] kind = "text"      -> UNCHANGED <<source, tree, valid, commits, timeline, cursor>>
  /\ UNCHANGED <<kind, snapshot>>

-----------------------------------------------------------------------------
(* The edit command.                                                       *)

Room(n) == Len(commits) + n <= MaxCommits

\* Variant: the files are committed before the new ones are written.
MutateTreeCommittingFirst(text) ==
  /\ valid
  /\ tree \in Texts
  /\ Room(1)
  /\ source' = Export[text]
  /\ tree' = Export[text]
  /\ commits' = CommitFull(commits, source, tree)
  /\ timeline' = Record(timeline, cursor, [commit |-> Len(commits) + 1, shown |-> Export[text]])
  /\ cursor' = cursor + 1
  /\ UNCHANGED <<kind, valid>>

\* apply_valid_tree_mutation, apply_tree_operation: the marked tree is made
\* anew, the source exported from it, both committed.
MutateTree(text) ==
  /\ valid
  /\ tree \in Texts
  /\ Room(1)
  /\ source' = Export[text]
  /\ tree' = Export[text]
  /\ commits' = CommitFull(commits, Export[text], Export[text])
  /\ timeline' = Record(timeline, cursor, [commit |-> Len(commits) + 1, shown |-> Export[text]])
  /\ cursor' = cursor + 1
  /\ UNCHANGED <<kind, valid>>

EditValidText ==
  /\ kind = "text"
  /\ pc = "idle"
  /\ \E text \in Parsable : MutateTree(text)
  /\ UNCHANGED <<pc, snapshot>>

EditPlaintext ==
  /\ kind = "text"
  /\ pc = "idle"
  /\ ~valid
  /\ Room(2)
  /\ \E text \in Texts :
       Revalidate(text, tree, CommitDegraded(commits, text),
                  Record(timeline, cursor, [commit |-> Len(commits) + 1, shown |-> text]),
                  cursor + 1)
  /\ UNCHANGED <<kind, pc, snapshot>>

EditTreeTemp ==
  /\ kind = "tree_temp"
  /\ pc = "idle"
  /\ Room(1)
  /\ \E text \in Texts : WriteVerbatim(text)
  /\ UNCHANGED <<kind, pc, snapshot>>

\* Variant: what revalidation records is taken to be enough.
EditSidecarUnrecorded ==
  /\ kind = "python"
  /\ pc = "idle"
  /\ Room(2)
  /\ \E text \in Parsable :
       Revalidate(text, Sidecar, CommitDegraded(commits, text), timeline, cursor)
  /\ UNCHANGED <<kind, pc, snapshot>>

\* apply_cst_sidecar_mutation: the edited sidecar has taken the tree file's
\* place and is not of the marked format, so the source is committed alone,
\* the session revalidated, and the commit at the head recorded.
EditSidecar ==
  /\ kind = "python"
  /\ pc = "idle"
  /\ Room(2)
  /\ \E text \in Parsable :
       LET log  == CommitDegraded(commits, text)
           done == IF text \in Noded THEN CommitFull(log, Export[text], Export[text]) ELSE log
           last == [commit |-> Len(done), shown |-> Tip(done).source]
           line == IF text \in Noded THEN Record(timeline, cursor, last) ELSE timeline
           at   == IF text \in Noded THEN cursor + 1 ELSE cursor
       IN /\ source' = Tip(done).source
          /\ tree' = IF text \in Noded THEN Export[text] ELSE Sidecar
          /\ valid' = (text \in Noded)
          /\ commits' = done
          /\ timeline' = Record(line, at, last)
          /\ cursor' = at + 1
  /\ UNCHANGED <<kind, pc, snapshot>>

\* A sidecar batch that fails writes the sidecar of the tree it began with.
FailSidecar ==
  /\ kind = "python"
  /\ pc = "idle"
  /\ tree' = Sidecar
  /\ UNCHANGED <<kind, pc, source, valid, commits, timeline, cursor, snapshot>>

\* A batch of tree operations: each one mutates, commits and records, and one
\* that fails puts the two files back as they were before the first.
BeginBatch ==
  /\ kind \in {"text", "python"}
  /\ pc = "idle"
  /\ valid
  /\ tree \in Texts
  /\ pc' = "batch"
  /\ snapshot' = [source |-> source, tree |-> tree]
  /\ UNCHANGED <<kind, source, tree, valid, commits, timeline, cursor>>

BatchOperation ==
  /\ pc = "batch"
  /\ \E text \in Parsable : MutateTree(text)
  /\ UNCHANGED <<pc, snapshot>>

EndBatch ==
  /\ pc = "batch"
  /\ pc' = "idle"
  /\ UNCHANGED <<kind, source, tree, valid, commits, timeline, cursor, snapshot>>

FailBatch ==
  /\ pc = "batch"
  /\ pc' = "idle"
  /\ source' = snapshot.source
  /\ tree' = snapshot.tree
  /\ UNCHANGED <<kind, valid, commits, timeline, cursor, snapshot>>

-----------------------------------------------------------------------------
(* The undo, redo, git revert and close commands.                          *)

\* Variant: tree_validity is left as it was.
CheckoutKeepingValidity(c) ==
  /\ source' = Restored(c)
  /\ tree' = c.tree
  /\ UNCHANGED valid

\* checkout_revision and _sync_state_after_checkout.
Checkout(c) ==
  /\ source' = Restored(c)
  /\ tree' = c.tree
  /\ valid' = (c.tree # NoTree)

MoveTo(i) ==
  /\ pc = "idle"
  /\ i \in DOMAIN timeline
  /\ Checkout(commits[timeline[i].commit])
  /\ cursor' = i
  /\ UNCHANGED <<kind, pc, commits, timeline, snapshot>>

Undo == MoveTo(cursor - 1)
Redo == MoveTo(cursor + 1)

\* Any commit, one dropped from the timeline too.  Adding a tree file that is
\* not there takes it out of the index.
Revert ==
  /\ pc = "idle"
  /\ Room(1)
  /\ \E i \in DOMAIN commits :
       /\ Checkout(commits[i])
       /\ commits' = CommitFull(commits, source', tree')
       /\ timeline' = Record(timeline, cursor, [commit |-> Len(commits) + 1, shown |-> source'])
       /\ cursor' = cursor + 1
  /\ UNCHANGED <<kind, pc, snapshot>>

Close ==
  /\ pc = "idle"
  /\ pc' = "closed"
  /\ UNCHANGED <<kind, source, tree, valid, commits, timeline, cursor, snapshot>>

Next == \/ Opened \/ EditValidText \/ EditPlaintext \/ EditTreeTemp
        \/ EditSidecar \/ FailSidecar
        \/ BeginBatch \/ BatchOperation \/ EndBatch \/ FailBatch
        \/ Undo \/ Redo \/ Revert \/ Close

Spec == Init /\ [][Next]_vars

-----------------------------------------------------------------------------
(* Properties.                                                             *)

Navigated == commits[timeline[cursor'].commit]

\* The newest entry of the timeline is the head of the repository, wherever
\* the cursor is: what the next edit records as log()[0] is its own commit.
HeadIsNewest == Tip(timeline).commit = Len(commits)

\* Edits, undo, redo and reverts change nothing at or before the cursor; an
\* edit drops only the redo branch (session_history.py:4-5).
PastKept ==
  [][\A i \in 1..cursor : i \in DOMAIN timeline' /\ timeline'[i] = timeline[i]]_vars

\* Undo and redo bring back the text that was recorded, through a full commit
\* and through a degraded one that really holds the source alone.
UndoRestoresTracked ==
  [][(Undo \/ Redo) /\ (Navigated.full \/ Navigated.tree = NoTree)
       => source' = timeline[cursor'].shown]_vars

\* "Restore working artefacts to timeline[index]" (edit_session_mutations.py:31):
\* so do they all.
UndoRestores == [][Undo \/ Redo => source' = timeline[cursor'].shown]_vars

\* A valid session's source is what its tree exports ("the in-session tree is
\* truth", edit_session_impl.py:50); a failed sidecar batch leaves no such tree.
ValidTreeIsTruth == valid /\ tree # Sidecar => source = tree

\* A tree-temp session shows what its cursor names, after any mix of edits,
\* undo, redo and reverts.
TreeTempCurrent == kind = "tree_temp" => source = timeline[cursor].shown
=============================================================================
