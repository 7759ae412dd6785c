-------------------------- MODULE EditHistoryProofs --------------------------
(***************************************************************************)
(* Proofs about EditHistory, for any texts, any export and any bound on    *)
(* the commits.                                                            *)
(***************************************************************************)
EXTENDS EditHistory, TLAPS

-----------------------------------------------------------------------------
(* A commit log and a timeline over it.                                    *)

\* An entry shows what a checkout of its commit restores, but where the commit
\* is a degraded one that dragged an older tree along.
Faithful(entry, c) == c.full \/ c.tree = NoTree => Restored(c) = entry.shown

Tracks(log, line, at) ==
  /\ log \in Seq(Commits)
  /\ Len(log) \in 1..MaxCommits
  /\ line \in Seq(Entries)
  /\ at \in DOMAIN line
  /\ \A i \in DOMAIN line : /\ line[i].commit <= Len(log)
                            /\ Faithful(line[i], log[line[i].commit])

\* Record keeps what is at or before the cursor and puts the entry behind it,
\* as the last one.
LEMMA RecordProperties ==
  ASSUME NEW line \in Seq(Entries), NEW at \in DOMAIN line, NEW entry \in Entries
  PROVE  /\ Record(line, at, entry) \in Seq(Entries)
         /\ Len(Record(line, at, entry)) = at + 1
         /\ \A i \in 1..at : Record(line, at, entry)[i] = line[i]
         /\ Record(line, at, entry)[at + 1] = entry
         /\ Tip(Record(line, at, entry)) = entry
  <1>1. at \in 1..Len(line)
    OBVIOUS
  <1>2. QED
    BY <1>1 DEF Record, Tip

\* The repository only grows: the entries go on naming their commits.
LEMMA CommitKeepsTrack ==
  ASSUME NEW log, NEW line, NEW at, Tracks(log, line, at),
         NEW c \in Commits, Len(log) < MaxCommits
  PROVE  /\ Tracks(Append(log, c), line, at)
         /\ Len(Append(log, c)) = Len(log) + 1
         /\ \A i \in 1..Len(log) : Append(log, c)[i] = log[i]
         /\ Tip(Append(log, c)) = c
  <1>1. /\ Append(log, c) \in Seq(Commits)
        /\ Len(Append(log, c)) = Len(log) + 1
        /\ \A i \in 1..Len(log) : Append(log, c)[i] = log[i]
        /\ Append(log, c)[Len(log) + 1] = c
    BY DEF Tracks
  <1>2. ASSUME NEW i \in DOMAIN line
        PROVE  line[i].commit \in 1..Len(log)
    <2>1. line[i] \in Entries
      BY DEF Tracks
    <2>2. line[i].commit \in 1..MaxCommits
      BY <2>1 DEF Entries
    <2>3. QED
      BY <2>2, CommitsAssumption DEF Tracks
  <1>3. Len(log) + 1 \in 1..MaxCommits
    BY CommitsAssumption DEF Tracks
  <1>4. QED
    BY <1>1, <1>2, <1>3 DEF Tracks, Tip

\* Recording the head keeps the timeline over the repository.
LEMMA RecordKeepsTrack ==
  ASSUME NEW log, NEW line, NEW at, Tracks(log, line, at),
         NEW shown \in Texts, NEW n, n = Len(log),
         Faithful([commit |-> n, shown |-> shown], Tip(log))
  PROVE  LET entry == [commit |-> n, shown |-> shown] IN
         /\ Tracks(log, Record(line, at, entry), at + 1)
         /\ Tip(Record(line, at, entry)).commit = Len(log)
         /\ Record(line, at, entry)[at + 1].shown = shown
  <1> DEFINE entry == [commit |-> n, shown |-> shown]
  <1>1. entry \in Entries /\ entry.commit = Len(log) /\ entry.shown = shown
    BY DEF Tracks, Entries
  <1>2. Faithful(entry, log[entry.commit])
    BY <1>1 DEF Tip
  <1> HIDE DEF entry
  <1>3. /\ Record(line, at, entry) \in Seq(Entries)
        /\ Len(Record(line, at, entry)) = at + 1
        /\ \A i \in 1..at : Record(line, at, entry)[i] = line[i]
        /\ Record(line, at, entry)[at + 1] = entry
        /\ Tip(Record(line, at, entry)) = entry
    BY <1>1, RecordProperties DEF Tracks
  <1>4. at \in 1..Len(line)
    BY DEF Tracks
  <1>5. ASSUME NEW i \in DOMAIN Record(line, at, entry)
        PROVE  /\ Record(line, at, entry)[i].commit <= Len(log)
               /\ Faithful(Record(line, at, entry)[i], log[Record(line, at, entry)[i].commit])
    <2>1. CASE i = at + 1
      BY <2>1, <1>1, <1>2, <1>3 DEF Tracks
    <2>2. CASE i \in 1..at
      BY <2>2, <1>3, <1>4 DEF Tracks
    <2>3. QED
      BY <1>3, <1>4, <2>1, <2>2
  <1>6. Tracks(log, Record(line, at, entry), at + 1)
    BY <1>3, <1>4, <1>5 DEF Tracks
  <1>7. QED
    BY <1>1, <1>3, <1>6 DEF entry

-----------------------------------------------------------------------------
(* The inductive invariant.                                                *)

FilesTyped ==
  /\ kind \in Kinds
  /\ pc \in {"opening", "idle", "batch", "closed"}
  /\ source \in Texts
  /\ tree \in Trees
  /\ valid \in BOOLEAN
  /\ snapshot \in [source : Texts, tree : Trees]

\* A running batch began with a source that was its tree's export.
BatchBegan ==
  pc = "batch" => /\ kind # "tree_temp"
                  /\ snapshot.tree \in Texts
                  /\ snapshot.source = snapshot.tree

\* A tree-temp session never gets a tree file, so its commits track none.
TreeTempBare ==
  kind = "tree_temp" => /\ tree = NoTree
                        /\ \A i \in DOMAIN commits : commits[i].tree = NoTree

IInv ==
  /\ FilesTyped /\ Tracks(commits, timeline, cursor) /\ HeadIsNewest
  /\ ValidTreeIsTruth /\ BatchBegan /\ TreeTempBare /\ TreeTempCurrent

\* The invariant holds the type invariant.
LEMMA InvTyped == IInv => TypeOK
  BY DEF IInv, FilesTyped, Tracks, TypeOK

\* A session opens with one degraded commit and its entry.
LEMMA InitInv == Init => IInv
  <1> SUFFICES ASSUME Init PROVE IInv
    OBVIOUS
  <1> DEFINE c == [source |-> source, tree |-> NoTree, full |-> FALSE]
             e == [commit |-> 1, shown |-> source]
  <1>1. c \in Commits /\ e \in Entries
    BY CommitsAssumption DEF Init, Commits, Entries, Trees
  <1>2. Faithful(e, c)
    BY TreesAssumption DEF Faithful, Restored
  <1>3. /\ c.tree = NoTree
        /\ e.commit = 1 /\ e.shown = source
    OBVIOUS
  <1>4. commits = <<c>> /\ timeline = <<e>> /\ cursor = 1
    BY DEF Init
  <1>5. FilesTyped
    BY KindsAssumption DEF Init, FilesTyped, Trees
  <1> HIDE DEF c, e
  <1>6. Tracks(commits, timeline, cursor)
    BY <1>1, <1>2, <1>3, <1>4, CommitsAssumption DEF Tracks
  <1>7. HeadIsNewest /\ TreeTempCurrent
    BY <1>3, <1>4 DEF HeadIsNewest, TreeTempCurrent, Tip
  <1>8. ValidTreeIsTruth /\ BatchBegan /\ TreeTempBare
    BY <1>3, <1>4 DEF Init, ValidTreeIsTruth, BatchBegan, TreeTempBare
  <1>9. QED
    BY <1>5, <1>6, <1>7, <1>8 DEF IInv
-----------------------------------------------------------------------------
(* What the actions share.                                                 *)

\* The cursor names an entry, the entry a commit.
LEMMA CursorNames ==
  ASSUME IInv, NEW i \in DOMAIN timeline
  PROVE  /\ timeline[i] \in Entries /\ timeline[i].shown \in Texts
         /\ timeline[i].commit \in 1..Len(commits)
         /\ commits[timeline[i].commit] \in Commits
  <1>1. timeline[i] \in Entries
    BY DEF IInv, Tracks
  <1>2. timeline[i].commit \in 1..MaxCommits /\ timeline[i].shown \in Texts
    BY <1>1 DEF Entries
  <1>3. timeline[i].commit \in 1..Len(commits)
    BY <1>2, CommitsAssumption DEF IInv, Tracks
  <1>4. QED
    BY <1>1, <1>2, <1>3 DEF IInv, Tracks

\* unmark makes source texts.
LEMMA ExportTyped ==
  ASSUME NEW text \in Parsable
  PROVE  text \in Texts /\ Export[text] \in Texts
  BY TextsAssumption

\* A full commit of an exported tree restores what its entry shows.
LEMMA FullCommit ==
  ASSUME NEW text \in Texts, NEW n
  PROVE  LET c == [source |-> text, tree |-> text, full |-> TRUE] IN
         /\ c \in Commits /\ c.source = text
         /\ Faithful([commit |-> n, shown |-> text], c)
  BY DEF Commits, Trees, Faithful, Restored

\* So does a degraded one, unless a tree is in the index.
LEMMA DegradedCommit ==
  ASSUME NEW log \in Seq(Commits), Len(log) \in 1..MaxCommits, NEW text \in Texts, NEW n
  PROVE  LET c == [source |-> text, tree |-> Tip(log).tree, full |-> FALSE] IN
         /\ c \in Commits /\ c.source = text /\ c.tree = Tip(log).tree
         /\ Faithful([commit |-> n, shown |-> text], c)
  <1>1. Tip(log) \in Commits
    BY CommitsAssumption DEF Tip
  <1>2. Tip(log).tree \in Trees
    BY <1>1 DEF Commits
  <1>3. QED
    BY <1>2, TreesAssumption DEF Commits, Faithful, Restored

\* The commit and its entry, together.
LEMMA CommitAndRecord ==
  ASSUME NEW log, NEW line, NEW at, Tracks(log, line, at), Len(log) < MaxCommits,
         NEW c \in Commits, NEW shown \in Texts,
         Faithful([commit |-> Len(log) + 1, shown |-> shown], c)
  PROVE  LET more  == Append(log, c)
             entry == [commit |-> Len(log) + 1, shown |-> shown]
             longer == Record(line, at, entry) IN
         /\ Tracks(more, longer, at + 1)
         /\ Len(more) = Len(log) + 1
         /\ Tip(more) = c
         /\ \A i \in 1..Len(log) : more[i] = log[i]
         /\ Tip(longer).commit = Len(more)
         /\ longer[at + 1].shown = shown
         /\ \A i \in 1..at : longer[i] = line[i]
  <1> DEFINE more  == Append(log, c)
             entry == [commit |-> Len(log) + 1, shown |-> shown]
  <1>1. /\ Tracks(more, line, at) /\ Len(more) = Len(log) + 1
        /\ \A i \in 1..Len(log) : more[i] = log[i]
        /\ Tip(more) = c
    BY CommitKeepsTrack
  <1> HIDE DEF more
  <1>2. /\ Tracks(more, Record(line, at, entry), at + 1)
        /\ Tip(Record(line, at, entry)).commit = Len(more)
        /\ Record(line, at, entry)[at + 1].shown = shown
    BY <1>1, RecordKeepsTrack
  <1>3. entry \in Entries
    BY <1>1 DEF Tracks, Entries
  <1>4. \A i \in 1..at : Record(line, at, entry)[i] = line[i]
    BY <1>3, RecordProperties DEF Tracks
  <1>5. QED
    BY <1>1, <1>2, <1>4 DEF more

\* try_revalidate, over any log and timeline in step.
LEMMA RevalidateSound ==
  ASSUME NEW text \in Texts, NEW t \in Trees, NEW log, NEW line, NEW at,
         Tracks(log, line, at), Tip(line).commit = Len(log), Len(log) < MaxCommits,
         Revalidate(text, t, log, line, at)
  PROVE  /\ source' \in Texts /\ tree' \in Trees /\ valid' \in BOOLEAN
         /\ Tracks(commits', timeline', cursor')
         /\ HeadIsNewest' /\ ValidTreeIsTruth'
         /\ cursor' \in {at, at + 1}
         /\ \A i \in 1..at : timeline'[i] = line[i]
  <1>1. CASE text \in Noded
    <2> DEFINE c == [source |-> Export[text], tree |-> Export[text], full |-> TRUE]
    <2>1. Export[text] \in Texts
      BY <1>1, ExportTyped, TextsAssumption
    <2>2. c \in Commits /\ Faithful([commit |-> Len(log) + 1, shown |-> Export[text]], c)
      BY <2>1, FullCommit
    <2>3. /\ commits' = Append(log, c)
          /\ timeline' = Record(line, at, [commit |-> Len(log) + 1, shown |-> Export[text]])
          /\ cursor' = at + 1
          /\ source' = Export[text] /\ tree' = Export[text] /\ valid' = TRUE
      BY <1>1 DEF Revalidate, CommitFull
    <2> HIDE DEF c
    <2>4. /\ Tracks(commits', timeline', cursor')
          /\ Tip(timeline').commit = Len(commits')
          /\ \A i \in 1..at : timeline'[i] = line[i]
      BY <2>1, <2>2, <2>3, CommitAndRecord
    <2>5. QED
      BY <2>1, <2>3, <2>4 DEF HeadIsNewest, ValidTreeIsTruth, Trees, Tip
  <1>2. CASE text \notin Noded
    BY <1>2 DEF Revalidate, HeadIsNewest, ValidTreeIsTruth, Tip
  <1>3. QED
    BY <1>1, <1>2

\* A source written verbatim is committed, recorded and shown.
LEMMA WriteVerbatimSound ==
  ASSUME IInv, NEW text \in Texts, Len(commits) < MaxCommits, WriteVerbatim(text)
  PROVE  /\ source' = text /\ tree' = tree /\ valid' = FALSE
         /\ Tracks(commits', timeline', cursor') /\ HeadIsNewest'
         /\ cursor' = cursor + 1 /\ timeline'[cursor'].shown = text
         /\ kind = "tree_temp" => \A i \in DOMAIN commits' : commits'[i].tree = NoTree
         /\ \A i \in 1..cursor : timeline'[i] = timeline[i]
  <1> DEFINE c == [source |-> text, tree |-> Tip(commits).tree, full |-> FALSE]
  <1>1. /\ c \in Commits /\ c.tree = Tip(commits).tree
        /\ Faithful([commit |-> Len(commits) + 1, shown |-> text], c)
    BY DegradedCommit DEF IInv, Tracks
  <1>2. /\ commits' = Append(commits, c)
        /\ timeline' = Record(timeline, cursor, [commit |-> Len(commits) + 1, shown |-> text])
        /\ cursor' = cursor + 1
    BY DEF WriteVerbatim, CommitDegraded
  <1> HIDE DEF c
  <1>3. /\ Tracks(commits', timeline', cursor')
        /\ Len(commits') = Len(commits) + 1 /\ Tip(commits') = c
        /\ \A i \in 1..Len(commits) : commits'[i] = commits[i]
        /\ Tip(timeline').commit = Len(commits')
        /\ timeline'[cursor'].shown = text
        /\ \A i \in 1..cursor : timeline'[i] = timeline[i]
    BY <1>1, <1>2, CommitAndRecord DEF IInv
  <1>4. ASSUME kind = "tree_temp", NEW i \in DOMAIN commits'
        PROVE  commits'[i].tree = NoTree
    <2>1. \A k \in 1..Len(commits) : commits[k].tree = NoTree
      BY <1>4 DEF IInv, TreeTempBare, Tracks
    <2>2. i \in 1..Len(commits) \/ i = Len(commits) + 1
      BY <1>3 DEF Tracks, IInv
    <2>3. Len(commits) \in 1..Len(commits)
      BY CommitsAssumption DEF IInv, Tracks
    <2>4. QED
      BY <1>1, <1>3, <2>1, <2>2, <2>3 DEF Tip
  <1>5. QED
    BY <1>2, <1>3, <1>4 DEF WriteVerbatim, HeadIsNewest, Tip

\* A mutation of the marked tree leaves a valid session in which the source is
\* the tree's export and both are the head.
LEMMA MutateTreeSound ==
  ASSUME IInv, NEW text \in Parsable, MutateTree(text)
  PROVE  /\ source' \in Texts /\ tree' = source' /\ valid' = TRUE /\ kind' = kind
         /\ Tracks(commits', timeline', cursor') /\ HeadIsNewest'
         /\ cursor' = cursor + 1
         /\ \A i \in 1..cursor : timeline'[i] = timeline[i]
  <1> DEFINE c == [source |-> Export[text], tree |-> Export[text], full |-> TRUE]
  <1>1. Export[text] \in Texts
    BY ExportTyped
  <1>2. c \in Commits /\ Faithful([commit |-> Len(commits) + 1, shown |-> Export[text]], c)
    BY <1>1, FullCommit
  <1>3. /\ commits' = Append(commits, c)
        /\ timeline' = Record(timeline, cursor, [commit |-> Len(commits) + 1, shown |-> Export[text]])
        /\ cursor' = cursor + 1
        /\ source' = Export[text] /\ tree' = Export[text]
    BY DEF MutateTree, CommitFull
  <1>4. Len(commits) < MaxCommits
    BY CommitsAssumption DEF MutateTree, Room, IInv, Tracks
  <1> HIDE DEF c
  <1>5. /\ Tracks(commits', timeline', cursor')
        /\ Tip(timeline').commit = Len(commits')
        /\ \A i \in 1..cursor : timeline'[i] = timeline[i]
    BY <1>1, <1>2, <1>3, <1>4, CommitAndRecord DEF IInv
  <1>6. valid' = TRUE /\ kind' = kind
    BY DEF MutateTree, IInv, FilesTyped
  <1>7. QED
    BY <1>1, <1>3, <1>5, <1>6 DEF HeadIsNewest, Tip

\* What a checkout writes agrees with what it restores.
LEMMA CheckoutSound ==
  ASSUME NEW c \in Commits, Checkout(c)
  PROVE  /\ source' \in Texts /\ tree' \in Trees /\ valid' \in BOOLEAN
         /\ source' = Restored(c) /\ tree' = c.tree
         /\ ValidTreeIsTruth'
  <1>1. c.source \in Texts /\ c.tree \in Trees
    BY DEF Commits
  <1>2. QED
    BY <1>1, TreesAssumption DEF Checkout, Restored, ValidTreeIsTruth, Trees
-----------------------------------------------------------------------------
(* The steps.                                                              *)

\* What every step owes the invariant once its files and its history are known.
LEMMA InvFromParts ==
  ASSUME IInv, kind' = kind, pc' \in {"opening", "idle", "batch", "closed"},
         source' \in Texts, tree' \in Trees, valid' \in BOOLEAN,
         snapshot' = snapshot, pc' = "batch" => pc = "batch",
         Tracks(commits', timeline', cursor'), HeadIsNewest', ValidTreeIsTruth',
         TreeTempBare', TreeTempCurrent'
  PROVE  IInv'
  BY DEF IInv, FilesTyped, BatchBegan

\* The end of an open, a first commit of the built tree or none, keeps it.
LEMMA OpenedKeepsInv == IInv /\ Opened => IInv'
  <1> SUFFICES ASSUME IInv, Opened PROVE IInv'
    OBVIOUS
  <1>0. /\ kind' = kind /\ pc' = "idle" /\ snapshot' = snapshot
        /\ Len(commits) < MaxCommits
    BY DEF Opened
  <1>1. CASE kind = "python"
    <2>1. Revalidate(source, tree, commits, timeline, cursor)
      BY <1>1 DEF Opened
    <2>2. /\ source' \in Texts /\ tree' \in Trees /\ valid' \in BOOLEAN
          /\ Tracks(commits', timeline', cursor')
          /\ HeadIsNewest' /\ ValidTreeIsTruth'
      BY <1>0, <2>1, RevalidateSound DEF IInv, FilesTyped, HeadIsNewest
    <2>3. TreeTempBare' /\ TreeTempCurrent'
      BY <1>0, <1>1 DEF TreeTempBare, TreeTempCurrent
    <2>4. QED
      BY <1>0, <2>2, <2>3, InvFromParts
  <1>2. CASE kind = "tree_temp"
    <2>1. PICK text \in Texts : WriteVerbatim(text)
      BY <1>2 DEF Opened
    <2>2. /\ source' = text /\ tree' = tree /\ valid' = FALSE
          /\ Tracks(commits', timeline', cursor') /\ HeadIsNewest'
          /\ timeline'[cursor'].shown = text
          /\ \A i \in DOMAIN commits' : commits'[i].tree = NoTree
      BY <1>0, <1>2, <2>1, WriteVerbatimSound
    <2>3. ValidTreeIsTruth' /\ TreeTempBare' /\ TreeTempCurrent'
      BY <1>0, <1>2, <2>2 DEF IInv, ValidTreeIsTruth, TreeTempBare, TreeTempCurrent
    <2>4. tree' \in Trees
      BY <2>2 DEF IInv, FilesTyped
    <2>5. QED
      BY <1>0, <2>2, <2>3, <2>4, InvFromParts
  <1>3. CASE kind = "text"
    <2>1. UNCHANGED <<source, tree, valid, commits, timeline, cursor>>
      BY <1>3 DEF Opened
    <2>2. QED
      BY <1>0, <1>3, <2>1 DEF IInv, FilesTyped, HeadIsNewest, ValidTreeIsTruth,
         BatchBegan, TreeTempBare, TreeTempCurrent
  <1>4. QED
    BY <1>1, <1>2, <1>3, KindsAssumption DEF IInv, FilesTyped

\* An edit of a text whose pair is valid goes through the tree's export.
LEMMA EditValidTextKeepsInv == IInv /\ EditValidText => IInv'
  <1> SUFFICES ASSUME IInv, EditValidText PROVE IInv'
    OBVIOUS
  <1>1. kind = "text" /\ pc' = pc /\ pc = "idle" /\ snapshot' = snapshot
    BY DEF EditValidText
  <1>2. PICK text \in Parsable : MutateTree(text)
    BY DEF EditValidText
  <1>3. /\ source' \in Texts /\ tree' = source' /\ valid' = TRUE /\ kind' = kind
        /\ Tracks(commits', timeline', cursor') /\ HeadIsNewest'
    BY <1>2, MutateTreeSound
  <1>4. QED
    BY <1>1, <1>3, InvFromParts
    DEF Trees, ValidTreeIsTruth, TreeTempBare, TreeTempCurrent

\* One operation of a batch does the same.
LEMMA BatchOperationKeepsInv == IInv /\ BatchOperation => IInv'
  <1> SUFFICES ASSUME IInv, BatchOperation PROVE IInv'
    OBVIOUS
  <1>1. kind # "tree_temp" /\ pc' = pc /\ pc = "batch" /\ snapshot' = snapshot
    BY DEF BatchOperation, IInv, BatchBegan
  <1>2. PICK text \in Parsable : MutateTree(text)
    BY DEF BatchOperation
  <1>3. /\ source' \in Texts /\ tree' = source' /\ valid' = TRUE /\ kind' = kind
        /\ Tracks(commits', timeline', cursor') /\ HeadIsNewest'
    BY <1>2, MutateTreeSound
  <1>4. QED
    BY <1>1, <1>3, InvFromParts
    DEF Trees, ValidTreeIsTruth, TreeTempBare, TreeTempCurrent

\* An edit of a tree-temp session records a text that has no tree.
LEMMA EditTreeTempKeepsInv == IInv /\ EditTreeTemp => IInv'
  <1> SUFFICES ASSUME IInv, EditTreeTemp PROVE IInv'
    OBVIOUS
  <1>1. /\ kind = "tree_temp" /\ kind' = kind /\ pc' = pc /\ pc = "idle"
        /\ snapshot' = snapshot /\ Room(1)
    BY DEF EditTreeTemp
  <1>2. PICK text \in Texts : WriteVerbatim(text)
    BY DEF EditTreeTemp
  <1>3. Len(commits) < MaxCommits
    BY <1>1, CommitsAssumption DEF Room, IInv, Tracks
  <1>4. /\ source' = text /\ tree' = tree /\ valid' = FALSE
        /\ Tracks(commits', timeline', cursor') /\ HeadIsNewest'
        /\ timeline'[cursor'].shown = text
        /\ \A i \in DOMAIN commits' : commits'[i].tree = NoTree
    BY <1>1, <1>2, <1>3, WriteVerbatimSound
  <1>5. ValidTreeIsTruth' /\ TreeTempBare' /\ TreeTempCurrent'
    BY <1>1, <1>4 DEF IInv, ValidTreeIsTruth, TreeTempBare, TreeTempCurrent
  <1>6. tree' \in Trees
    BY <1>4 DEF IInv, FilesTyped
  <1>7. QED
    BY <1>1, <1>4, <1>5, <1>6, InvFromParts

\* The plain text is committed and recorded before the session is revalidated.
LEMMA EditPlaintextSound ==
  ASSUME IInv, EditPlaintext
  PROVE  /\ source' \in Texts /\ tree' \in Trees /\ valid' \in BOOLEAN
         /\ Tracks(commits', timeline', cursor')
         /\ HeadIsNewest' /\ ValidTreeIsTruth'
         /\ \A i \in 1..cursor : timeline'[i] = timeline[i]
  <1>1. PICK text \in Texts :
          Revalidate(text, tree, CommitDegraded(commits, text),
                     Record(timeline, cursor, [commit |-> Len(commits) + 1, shown |-> text]),
                     cursor + 1)
    BY DEF EditPlaintext
  <1> DEFINE c    == [source |-> text, tree |-> Tip(commits).tree, full |-> FALSE]
             log  == Append(commits, c)
             line == Record(timeline, cursor, [commit |-> Len(commits) + 1, shown |-> text])
  <1>2. Len(commits) \in Nat /\ Len(commits) + 2 <= MaxCommits
    BY DEF EditPlaintext, Room, IInv, Tracks
  <1>3. c \in Commits /\ Faithful([commit |-> Len(commits) + 1, shown |-> text], c)
    BY DegradedCommit DEF IInv, Tracks
  <1>4. Revalidate(text, tree, log, line, cursor + 1)
    BY <1>1 DEF CommitDegraded
  <1> HIDE DEF c
  <1>5. /\ Tracks(log, line, cursor + 1) /\ Len(log) = Len(commits) + 1
        /\ Tip(line).commit = Len(log)
        /\ \A i \in 1..cursor : line[i] = timeline[i]
    BY <1>2, <1>3, CommitAndRecord, CommitsAssumption DEF IInv
  <1> HIDE DEF log, line
  <1>6. Len(log) < MaxCommits
    BY <1>2, <1>5, CommitsAssumption
  <1>7. /\ source' \in Texts /\ tree' \in Trees /\ valid' \in BOOLEAN
        /\ Tracks(commits', timeline', cursor')
        /\ HeadIsNewest' /\ ValidTreeIsTruth'
        /\ \A i \in 1..cursor + 1 : timeline'[i] = line[i]
    BY <1>4, <1>5, <1>6, RevalidateSound DEF IInv, FilesTyped
  <1>8. cursor \in Nat
    BY DEF IInv, Tracks
  <1>9. QED
    BY <1>5, <1>7, <1>8

\* ... and that plaintext edit keeps the invariant.
LEMMA EditPlaintextKeepsInv == IInv /\ EditPlaintext => IInv'
  <1> SUFFICES ASSUME IInv, EditPlaintext PROVE IInv'
    OBVIOUS
  <1>1. kind = "text" /\ kind' = kind /\ pc' = pc /\ pc = "idle" /\ snapshot' = snapshot
    BY DEF EditPlaintext
  <1>2. /\ source' \in Texts /\ tree' \in Trees /\ valid' \in BOOLEAN
        /\ Tracks(commits', timeline', cursor') /\ HeadIsNewest' /\ ValidTreeIsTruth'
    BY EditPlaintextSound
  <1>3. QED
    BY <1>1, <1>2, InvFromParts DEF TreeTempBare, TreeTempCurrent

\* An edited sidecar: one entry when the text has no nodes, and else one that
\* revalidation records and the same again.
LEMMA EditSidecarSound ==
  ASSUME IInv, EditSidecar
  PROVE  /\ source' \in Texts /\ tree' \in Trees /\ valid' \in BOOLEAN
         /\ Tracks(commits', timeline', cursor')
         /\ HeadIsNewest' /\ ValidTreeIsTruth'
         /\ \A i \in 1..cursor : timeline'[i] = timeline[i]
  <1>1. PICK text \in Parsable :
          LET log  == CommitDegraded(commits, text)
              done == IF text \in Noded THEN CommitFull(log, Export[text], Export[text]) ELSE log
              last == [commit |-> Len(done), shown |-> Tip(done).source]
              line == IF text \in Noded THEN Record(timeline, cursor, last) ELSE timeline
              at   == IF text \in Noded THEN cursor + 1 ELSE cursor
          IN /\ source' = Tip(done).source
             /\ tree' = IF text \in Noded THEN Export[text] ELSE Sidecar
             /\ valid' = (text \in Noded)
             /\ commits' = done
             /\ timeline' = Record(line, at, last)
             /\ cursor' = at + 1
    BY DEF EditSidecar
  <1> DEFINE c   == [source |-> text, tree |-> Tip(commits).tree, full |-> FALSE]
             log == Append(commits, c)
  <1>2. Len(commits) \in Nat /\ Len(commits) + 2 <= MaxCommits /\ cursor \in Nat
    BY DEF EditSidecar, Room, IInv, Tracks
  <1>3. text \in Texts /\ Export[text] \in Texts
    BY ExportTyped
  <1>4. /\ c \in Commits /\ c.source = text
        /\ \A n : Faithful([commit |-> n, shown |-> text], c)
    BY <1>3, DegradedCommit DEF IInv, Tracks
  <1>5. log = CommitDegraded(commits, text)
    BY DEF CommitDegraded
  <1> HIDE DEF c
  <1>6. /\ Tracks(log, timeline, cursor) /\ Len(log) = Len(commits) + 1
        /\ Tip(log) = c
    BY <1>2, <1>4, CommitKeepsTrack, CommitsAssumption DEF IInv
  <1> HIDE DEF log
  <1>7. CASE text \in Noded
    <2> DEFINE f    == [source |-> Export[text], tree |-> Export[text], full |-> TRUE]
               done == Append(log, f)
               last == [commit |-> Len(done), shown |-> Export[text]]
               line == Record(timeline, cursor, last)
    <2>1. f \in Commits /\ f.source = Export[text] /\ Faithful(last, f)
      BY <1>3, FullCommit
    <2>2. done = CommitFull(log, Export[text], Export[text])
      BY DEF CommitFull
    <2> HIDE DEF f
    <2>3. Tracks(done, timeline, cursor) /\ Tip(done) = f
      BY <1>2, <1>6, <2>1, CommitKeepsTrack, CommitsAssumption
    <2>4. /\ source' = Export[text] /\ tree' = Export[text] /\ valid' = TRUE
          /\ commits' = done /\ timeline' = Record(line, cursor + 1, last)
          /\ cursor' = cursor + 1 + 1
      BY <1>1, <1>5, <1>7, <2>1, <2>2, <2>3
    <2> HIDE DEF done
    <2>5. Tracks(done, line, cursor + 1)
      BY <1>3, <2>1, <2>3, RecordKeepsTrack
    <2>6. /\ Tracks(done, Record(line, cursor + 1, last), cursor + 1 + 1)
          /\ Tip(Record(line, cursor + 1, last)).commit = Len(done)
      BY <1>3, <2>1, <2>3, <2>5, RecordKeepsTrack
    <2>7. last \in Entries
      BY <1>3, <2>3 DEF Tracks, Entries
    <2> HIDE DEF last
    <2>8. /\ \A i \in 1..cursor : line[i] = timeline[i]
          /\ \A i \in 1..cursor + 1 : Record(line, cursor + 1, last)[i] = line[i]
      BY <2>5, <2>7, RecordProperties DEF IInv, Tracks
    <2>9. \A i \in 1..cursor : timeline'[i] = timeline[i]
      BY <1>2, <2>4, <2>8
    <2>10. QED
      BY <1>3, <2>4, <2>6, <2>9 DEF Trees, HeadIsNewest, ValidTreeIsTruth, Tip
  <1>8. CASE text \notin Noded
    <2> DEFINE last == [commit |-> Len(log), shown |-> text]
    <2>1. /\ source' = text /\ tree' = Sidecar /\ valid' = FALSE
          /\ commits' = log /\ timeline' = Record(timeline, cursor, last)
          /\ cursor' = cursor + 1
      <3>1. Tip(log).source = text
        BY <1>4, <1>6
      <3>2. valid' = FALSE
        <4>1. valid' = (text \in Noded)
          BY <1>1
        <4>2. (text \in Noded) = FALSE
          BY <1>8
        <4>3. QED
          BY <4>1, <4>2, Zenon
      <3>3. /\ source' = Tip(log).source /\ tree' = Sidecar /\ commits' = log
            /\ timeline' = Record(timeline, cursor, [commit |-> Len(log), shown |-> Tip(log).source])
            /\ cursor' = cursor + 1
        BY <1>1, <1>5, <1>8
      <3>4. QED
        BY <3>1, <3>2, <3>3
    <2>2. /\ Tracks(log, Record(timeline, cursor, last), cursor + 1)
          /\ Tip(Record(timeline, cursor, last)).commit = Len(log)
      BY <1>3, <1>4, <1>6, RecordKeepsTrack
    <2>3. last \in Entries
      BY <1>3, <1>6 DEF Tracks, Entries
    <2> HIDE DEF last
    <2>4. \A i \in 1..cursor : timeline'[i] = timeline[i]
      BY <2>1, <2>3, RecordProperties DEF IInv, Tracks
    <2>5. QED
      BY <1>3, <2>1, <2>2, <2>4 DEF Trees, HeadIsNewest, ValidTreeIsTruth, Tip
  <1>9. QED
    BY <1>7, <1>8

\* ... and that edit of a Python file keeps the invariant.
LEMMA EditSidecarKeepsInv == IInv /\ EditSidecar => IInv'
  <1> SUFFICES ASSUME IInv, EditSidecar PROVE IInv'
    OBVIOUS
  <1>1. kind = "python" /\ kind' = kind /\ pc' = pc /\ pc = "idle" /\ snapshot' = snapshot
    BY DEF EditSidecar
  <1>2. /\ source' \in Texts /\ tree' \in Trees /\ valid' \in BOOLEAN
        /\ Tracks(commits', timeline', cursor') /\ HeadIsNewest' /\ ValidTreeIsTruth'
    BY EditSidecarSound
  <1>3. QED
    BY <1>1, <1>2, InvFromParts DEF TreeTempBare, TreeTempCurrent

\* An edit that failed after it marked the tree stale leaves the rest as it was.
LEMMA FailSidecarKeepsInv == IInv /\ FailSidecar => IInv'
  BY DEF IInv, FilesTyped, Trees, HeadIsNewest, ValidTreeIsTruth, BatchBegan,
         TreeTempBare, TreeTempCurrent, FailSidecar

\* A batch remembers a pair that is its tree's export, and puts it back.
LEMMA BatchBoundsKeepInv == IInv /\ (BeginBatch \/ EndBatch \/ FailBatch) => IInv'
  <1> SUFFICES ASSUME IInv, BeginBatch \/ EndBatch \/ FailBatch PROVE IInv'
    OBVIOUS
  <1> USE DEF IInv, FilesTyped, HeadIsNewest, ValidTreeIsTruth, BatchBegan,
              TreeTempBare, TreeTempCurrent
  <1>1. CASE BeginBatch
    <2>1. source = tree /\ kind # "tree_temp"
      BY <1>1, TreesAssumption DEF BeginBatch
    <2>2. snapshot' \in [source : Texts, tree : Trees]
      BY <1>1 DEF BeginBatch
    <2>3. snapshot'.tree \in Texts /\ snapshot'.source = snapshot'.tree
      BY <1>1, <2>1 DEF BeginBatch
    <2>4. QED
      BY <1>1, <2>1, <2>2, <2>3 DEF BeginBatch
  <1>2. CASE EndBatch
    BY <1>2 DEF EndBatch
  <1>3. CASE FailBatch
    BY <1>3 DEF FailBatch, Trees
  <1>4. QED
    BY <1>1, <1>2, <1>3

\* Undo and redo show the text of the entry they go to.
LEMMA MoveToShows ==
  ASSUME IInv, NEW i, MoveTo(i)
  PROVE  /\ i \in DOMAIN timeline
         /\ commits[timeline[i].commit] \in Commits
         /\ Checkout(commits[timeline[i].commit])
         /\ Faithful(timeline[i], commits[timeline[i].commit])
         /\ kind = "tree_temp" => commits[timeline[i].commit].tree = NoTree
         /\ cursor' = i /\ timeline' = timeline
  <1>1. i \in DOMAIN timeline
    BY DEF MoveTo
  <1>2. timeline[i].commit \in 1..Len(commits) /\ commits[timeline[i].commit] \in Commits
    BY <1>1, CursorNames
  <1>3. timeline[i].commit \in DOMAIN commits
    BY <1>2 DEF IInv, Tracks
  <1>4. QED
    BY <1>1, <1>2, <1>3 DEF MoveTo, IInv, Tracks, TreeTempBare

\* Undo and redo check out what the line names, and so keep the invariant.
LEMMA MoveToKeepsInv ==
  ASSUME IInv, NEW i, MoveTo(i)
  PROVE  IInv'
  <1> DEFINE c == commits[timeline[i].commit]
  <1>1. /\ i \in DOMAIN timeline /\ c \in Commits /\ Checkout(c)
        /\ Faithful(timeline[i], c)
        /\ kind = "tree_temp" => c.tree = NoTree
        /\ cursor' = i /\ timeline' = timeline
    BY MoveToShows
  <1> HIDE DEF c
  <1>2. /\ source' \in Texts /\ tree' \in Trees /\ valid' \in BOOLEAN
        /\ source' = Restored(c) /\ tree' = c.tree /\ ValidTreeIsTruth'
    BY <1>1, CheckoutSound
  <1>3. kind' = kind /\ pc' = pc /\ commits' = commits /\ snapshot' = snapshot
    BY DEF MoveTo
  <1>4. Tracks(commits', timeline', cursor') /\ HeadIsNewest'
    BY <1>1, <1>3 DEF IInv, Tracks, HeadIsNewest, Tip
  <1>5. TreeTempBare' /\ TreeTempCurrent'
    BY <1>1, <1>2, <1>3 DEF IInv, TreeTempBare, TreeTempCurrent, Faithful
  <1>6. QED
    BY <1>2, <1>3, <1>4, <1>5, InvFromParts DEF IInv, FilesTyped

\* A revert commits what it checked out, and records it.
LEMMA RevertSound ==
  ASSUME IInv, Revert
  PROVE  /\ source' \in Texts /\ tree' \in Trees /\ valid' \in BOOLEAN
         /\ Tracks(commits', timeline', cursor')
         /\ HeadIsNewest' /\ ValidTreeIsTruth'
         /\ timeline'[cursor'].shown = source'
         /\ kind = "tree_temp" => /\ tree' = NoTree
                                  /\ \A k \in DOMAIN commits' : commits'[k].tree = NoTree
         /\ \A k \in 1..cursor : timeline'[k] = timeline[k]
  <1>1. PICK i \in DOMAIN commits :
          /\ Checkout(commits[i])
          /\ commits' = CommitFull(commits, source', tree')
          /\ timeline' = Record(timeline, cursor, [commit |-> Len(commits) + 1, shown |-> source'])
          /\ cursor' = cursor + 1
    BY DEF Revert
  <1> DEFINE c == commits[i]
             f == [source |-> source', tree |-> tree', full |-> TRUE]
  <1>2. c \in Commits /\ (kind = "tree_temp" => c.tree = NoTree)
    BY DEF IInv, Tracks, TreeTempBare
  <1>3. Checkout(c)
    BY <1>1
  <1> HIDE DEF c
  <1>4. /\ source' \in Texts /\ tree' \in Trees /\ valid' \in BOOLEAN
        /\ source' = Restored(c) /\ tree' = c.tree /\ ValidTreeIsTruth'
    BY <1>2, <1>3, CheckoutSound
  <1>5. f \in Commits /\ f.tree = tree' /\ commits' = Append(commits, f)
    BY <1>1, <1>4 DEF Commits, CommitFull
  <1>6. Faithful([commit |-> Len(commits) + 1, shown |-> source'], f)
    BY <1>4 DEF Faithful, Restored
  <1> HIDE DEF f
  <1>7. Len(commits) < MaxCommits
    BY CommitsAssumption DEF Revert, Room, IInv, Tracks
  <1> DEFINE longer == Record(timeline, cursor, [commit |-> Len(commits) + 1, shown |-> source'])
  <1>8. /\ Tracks(commits', timeline', cursor')
        /\ Len(commits') = Len(commits) + 1 /\ Tip(commits') = f
        /\ \A k \in 1..Len(commits) : commits'[k] = commits[k]
        /\ Tip(timeline').commit = Len(commits')
        /\ timeline'[cursor'].shown = source'
        /\ \A k \in 1..cursor : timeline'[k] = timeline[k]
    <2>1. /\ Tracks(Append(commits, f), longer, cursor + 1)
          /\ Len(Append(commits, f)) = Len(commits) + 1 /\ Tip(Append(commits, f)) = f
          /\ \A k \in 1..Len(commits) : Append(commits, f)[k] = commits[k]
          /\ Tip(longer).commit = Len(Append(commits, f))
          /\ longer[cursor + 1].shown = source'
          /\ \A k \in 1..cursor : longer[k] = timeline[k]
      BY <1>4, <1>5, <1>6, <1>7, CommitAndRecord DEF IInv
    <2> HIDE DEF longer
    <2>2. timeline' = longer /\ cursor' = cursor + 1
      BY <1>1 DEF longer
    <2>3. QED
      BY <1>5, <2>1, <2>2
  <1>9. ASSUME kind = "tree_temp", NEW k \in DOMAIN commits'
        PROVE  commits'[k].tree = NoTree
    <2>1. \A j \in 1..Len(commits) : commits[j].tree = NoTree
      BY <1>9 DEF IInv, TreeTempBare, Tracks
    <2>2. k \in 1..Len(commits) \/ k = Len(commits) + 1
      BY <1>8 DEF Tracks, IInv
    <2>3. QED
      BY <1>2, <1>4, <1>5, <1>8, <1>9, <2>1, <2>2 DEF Tip
  <1>10. QED
    BY <1>2, <1>4, <1>8, <1>9 DEF HeadIsNewest, Tip

\* Revert keeps it: it records the commit it went back to as a new one.
LEMMA RevertKeepsInv == IInv /\ Revert => IInv'
  <1> SUFFICES ASSUME IInv, Revert PROVE IInv'
    OBVIOUS
  <1>1. kind' = kind /\ pc' = pc /\ snapshot' = snapshot
    BY DEF Revert
  <1>2. /\ source' \in Texts /\ tree' \in Trees /\ valid' \in BOOLEAN
        /\ Tracks(commits', timeline', cursor')
        /\ HeadIsNewest' /\ ValidTreeIsTruth'
        /\ timeline'[cursor'].shown = source'
        /\ kind = "tree_temp" => /\ tree' = NoTree
                                 /\ \A k \in DOMAIN commits' : commits'[k].tree = NoTree
    BY RevertSound
  <1>3. TreeTempBare' /\ TreeTempCurrent'
    BY <1>1, <1>2 DEF TreeTempBare, TreeTempCurrent
  <1>4. QED
    BY <1>1, <1>2, <1>3, InvFromParts DEF IInv, FilesTyped

\* So do the end of a session and the steps that change nothing.
LEMMA IdleStepsKeepInv == IInv /\ (Close \/ UNCHANGED vars) => IInv'
  <1> USE DEF IInv, FilesTyped, HeadIsNewest, ValidTreeIsTruth, BatchBegan,
              TreeTempBare, TreeTempCurrent, Tip
  <1>1. IInv /\ Close => IInv'
    BY DEF Close
  <1>2. IInv /\ UNCHANGED vars => IInv'
    BY DEF vars
  <1>3. QED
    BY <1>1, <1>2

\* Every step of a session keeps the invariant, ...
LEMMA StepInv == IInv /\ [Next]_vars => IInv'
  <1>1. IInv /\ (Undo \/ Redo) => IInv'
    BY MoveToKeepsInv DEF Undo, Redo
  <1>2. QED
    BY <1>1, OpenedKeepsInv, EditValidTextKeepsInv, EditPlaintextKeepsInv,
       EditTreeTempKeepsInv, EditSidecarKeepsInv, FailSidecarKeepsInv,
       BatchBoundsKeepInv, BatchOperationKeepsInv, RevertKeepsInv, IdleStepsKeepInv
    DEF Next

\* ... which therefore holds throughout it.
LEMMA InvHolds == Spec => []IInv
  BY InitInv, StepInv, PTL DEF Spec
-----------------------------------------------------------------------------
(* The theorems.                                                           *)

\* In every session, of whatever kind and length, the two files, the commits
\* and the timeline keep their types, and the cursor stays on the timeline.
THEOREM TypeCorrect == Spec => []TypeOK
  BY InvHolds, InvTyped, PTL

\* What the next edit records as log()[0] is its own commit: the newest entry
\* names the head of the repository after any mix of edits, undo and revert.
THEOREM HeadCorrect == Spec => []HeadIsNewest
  <1>1. IInv => HeadIsNewest
    BY DEF IInv
  <1>2. QED
    BY <1>1, InvHolds, PTL

\* "The in-session tree is truth" (edit_session_impl.py:50): a valid session's
\* source is its tree's export, also after a checkout and a failed batch.
THEOREM TreeIsTruth == Spec => []ValidTreeIsTruth
  <1>1. IInv => ValidTreeIsTruth
    BY DEF IInv
  <1>2. QED
    BY <1>1, InvHolds, PTL

\* A tree-temp session shows what its cursor names.
THEOREM TreeTempCorrect == Spec => []TreeTempCurrent
  <1>1. IInv => TreeTempCurrent
    BY DEF IInv
  <1>2. QED
    BY <1>1, InvHolds, PTL

\* Every step keeps the timeline up to the cursor as it is.
LEMMA StepKeepsPast ==
  ASSUME IInv, [Next]_vars
  PROVE  [\A i \in 1..cursor : i \in DOMAIN timeline' /\ timeline'[i] = timeline[i]]_vars
  <1> DEFINE Same == \A i \in 1..cursor : timeline'[i] = timeline[i]
  <1>0. cursor \in 1..Len(timeline) /\ cursor' \in 1..Len(timeline')
        /\ Len(timeline) \in Nat /\ Len(timeline') \in Nat
        /\ DOMAIN timeline' = 1..Len(timeline')
    BY StepInv DEF IInv, Tracks
  <1>1. ASSUME Opened PROVE cursor' >= cursor /\ Same
    <2>1. CASE kind = "python"
      <3>1. Revalidate(source, tree, commits, timeline, cursor)
        BY <1>1, <2>1 DEF Opened
      <3>2. cursor' \in {cursor, cursor + 1} /\ Same
        BY <1>1, <3>1, RevalidateSound DEF Opened, IInv, FilesTyped, HeadIsNewest
      <3>3. QED
        BY <1>0, <3>2
    <2>2. CASE kind = "tree_temp"
      <3>1. PICK text \in Texts : WriteVerbatim(text)
        BY <1>1, <2>2 DEF Opened
      <3>2. cursor' = cursor + 1 /\ Same
        BY <1>1, <3>1, WriteVerbatimSound DEF Opened
      <3>3. QED
        BY <1>0, <3>2
    <2>3. CASE kind = "text"
      BY <1>0, <1>1, <2>3 DEF Opened
    <2>4. QED
      BY <2>1, <2>2, <2>3, KindsAssumption DEF IInv, FilesTyped
  <1>2. ASSUME EditValidText \/ BatchOperation PROVE cursor' >= cursor /\ Same
    <2>1. PICK text \in Parsable : MutateTree(text)
      BY <1>2 DEF EditValidText, BatchOperation
    <2>2. cursor' = cursor + 1 /\ Same
      BY <2>1, MutateTreeSound
    <2>3. QED
      BY <1>0, <2>2
  <1>3. ASSUME EditTreeTemp PROVE cursor' >= cursor /\ Same
    <2>1. Len(commits) < MaxCommits
      BY <1>3, CommitsAssumption DEF EditTreeTemp, Room, IInv, Tracks
    <2>2. PICK text \in Texts : WriteVerbatim(text)
      BY <1>3 DEF EditTreeTemp
    <2>3. cursor' = cursor + 1 /\ Same
      BY <2>1, <2>2, WriteVerbatimSound
    <2>4. QED
      BY <1>0, <2>3
  <1>4. ASSUME EditPlaintext PROVE cursor' >= cursor /\ Same
    <2>1. cursor' >= cursor
      BY <1>0, <1>4 DEF EditPlaintext, Revalidate
    <2>2. QED
      BY <1>4, <2>1, EditPlaintextSound
  <1>5. ASSUME EditSidecar PROVE cursor' >= cursor /\ Same
    <2>1. cursor' >= cursor
      BY <1>0, <1>5 DEF EditSidecar
    <2>2. QED
      BY <1>5, <2>1, EditSidecarSound
  <1>6. ASSUME Revert PROVE cursor' >= cursor /\ Same
    BY <1>0, <1>6, RevertSound DEF Revert
  <1>7. ASSUME FailSidecar \/ BeginBatch \/ EndBatch \/ FailBatch \/ Undo \/ Redo
               \/ Close \/ UNCHANGED vars
        PROVE  timeline' = timeline
    BY <1>7 DEF FailSidecar, BeginBatch, EndBatch, FailBatch, Undo, Redo, MoveTo,
                Close, vars
  <1>8. (cursor' >= cursor /\ Same) \/ timeline' = timeline
    BY <1>1, <1>2, <1>3, <1>4, <1>5, <1>6, <1>7 DEF Next
  <1>9. QED
    BY <1>0, <1>8

\* Edits drop the redo branch only: no step touches the timeline at or before
\* the cursor (session_history.py:4-5).
THEOREM PastIsKept == Spec => PastKept
  <1>1. IInv /\ [Next]_vars =>
          [\A i \in 1..cursor : i \in DOMAIN timeline' /\ timeline'[i] = timeline[i]]_vars
    BY StepKeepsPast
  <1>2. QED
    BY <1>1, InvHolds, PTL DEF Spec, PastKept

\* Undo and redo restore what the entry recorded, wherever its commit is a full
\* one or tracks no tree.
THEOREM UndoCorrect == Spec => UndoRestoresTracked
  <1> DEFINE Restores ==
        (Undo \/ Redo) /\ (Navigated.full \/ Navigated.tree = NoTree)
          => source' = timeline[cursor'].shown
  <1>1. ASSUME IInv, Undo \/ Redo, Navigated.full \/ Navigated.tree = NoTree
        PROVE  source' = timeline[cursor'].shown
    <2>1. PICK i : MoveTo(i)
      BY <1>1 DEF Undo, Redo
    <2>2. /\ commits[timeline[i].commit] \in Commits
          /\ Checkout(commits[timeline[i].commit])
          /\ Faithful(timeline[i], commits[timeline[i].commit])
          /\ cursor' = i
      BY <1>1, <2>1, MoveToShows
    <2>3. source' = Restored(commits[timeline[i].commit])
      BY <2>2 DEF Checkout
    <2>4. QED
      BY <1>1, <2>2, <2>3 DEF Faithful, Navigated
  <1>2. IInv /\ [Next]_vars => [Restores]_vars
    BY <1>1
  <1>3. QED
    BY <1>2, InvHolds, PTL DEF Spec, UndoRestoresTracked
=============================================================================
