# Formal models of the tree engine and the AI editor

This directory is the verification project kept beside the repository: TLA+
modules translated from the code, TLC configurations that check them on small
instances, and TLAPS proofs of the properties that matter most, for every value
of the constants. Paths below are relative to `src/`.

The repository has three programs that matter here:

* `src/tree_engine` - a library that holds structured documents (a *source file*
  and a *tree file* that belong together) in memory and on disk;
* `ai_editor` - an MCP server that lets agents edit files which live on a remote
  Code Analysis (CA) server, under locks of that server;
* `client/ai_editor_client` - the agents' Python client of the editor.

`adapter` exposes the tree engine over MCP and keeps no state of its own.

## 1. Inventory

Marked in the last column: **M** modelled, **p** partly, **-** not yet or not at
all (`PROJECT.json` says why for each).

### Tree engine (`src/tree_engine`)

| Component | State | Operations | Interacts with | Hard behaviour | What makes it correct | |
|---|---|---|---|---|---|---|
| file transaction `storage/file_txn.py` | target, `.tmp`, `.bak` of each file; the journal; all on disk | `publish`, `recover` | called by the lifecycle; no lock of its own | death or I/O error between any two system calls; retry over leftovers; recovery of a recovery; two threads | a set of files is replaced as a whole or not at all; recovery settles every interruption | M |
| storage lifecycle, session guard `storage/lifecycle.py`, `session_guard.py` | per session a baseline of both digests; revisions on disk | `open`, `save`, `publish_pair`, `reopen`, source- and tree-only publications | file transaction, codec, plugins | two sessions over one pair; check before act; external modification | the first publisher wins, the others are refused | p |
| document bridge, history port, codec | none that lasts | `open_file`, `write`, `checkpoint`; encode, decode | lifecycle | opening an unsettled pair; a document written in the middle of a move | what is written comes back: nodes, short ids, fields | p |
| document locks `core/locking.py` | a `threading.Lock` per document, `_held`, `_owner` | `session`, `release_locks`, `is_locked` | transactions, facade, move | overlapping sets, nested sessions, refusal half way, release after the guard | exclusion, truthful records, no leak, no circular wait | M |
| transactions `core/transactions.py` | an overlay per document, versions | `execute` | locks, operations, integrity | stale versions, failure in the middle, publication document by document | a batch is in all documents or in none; stale batches are refused | M |
| facade, move `facade.py`, `core/move.py` | open documents with versions | insert, delete, replace, set_body, apply_subtree, move, reparse (and reads) | locks, transactions' peer | work done before the lock and used under it, or done after its release | no stale command takes effect; versions count changes; a move loses no node | p |
| live trees, operations, short ids `core/live_tree.py`, `operations.py`, `updates.py`, `short_id.py` | children and back links, node and short-id indexes, node-holding fields, the short-id map | insert, delete, replace_range, set_body; reindex, sync_fields | facade, document bridge | indexes kept by splice and by rebuild; splice positions; ids that outlive their nodes; a field found by what it holds | every index is the tree's; a published short id names one node for ever; what is rendered is the tree | p |
| references, integrity `core/references.py`, `integrity.py` | reference index | resolve, check | transactions | | | - |
| plugins, queries | none | parse, render, select | facade | none (pure) | round trip | - |

### Editor server (`ai_editor`)

| Component | State | Operations | Interacts with | Hard behaviour | What makes it correct | |
|---|---|---|---|---|---|---|
| edit history of a draft `core/edit_session` | source and tree file, git repository, timeline and cursor, `tree_validity` | edit, revalidate, batch, undo, redo, revert, close | git, file handlers | two kinds of commit, failed batches, long navigation sequences | undo shows what was recorded; a valid tree is the truth about the source | M |
| copy-out `core/edit_session/edit_session_mutations.py` | backup files | `confirm_external_copy_out` | file system | crash between two replacements | both files or neither | p |
| file sessions `commands/universal_file_edit` | drafts of each CA session, the open index, workspace directories; all but the last in memory | open, edit, write, close | CA client, session guard, edit history | every remote call may fail before or after its effect; sessions die; other clients save; the editor restarts | a draft holds its lock, no commit overwrites another's save, no edit is dropped unasked | p |
| session guard, workspace cleanup `core/upstream/session_guard.py`, `core/workspace_session_cleanup.py` | none | verdict on a session, zombie cleanup | CA client, registries | a verdict that is missing is no verdict | only dead sessions are cleaned up | M |
| CA client `core/upstream/code_analysis_client.py` | none | lock, download, upload, create, unlock | CA server | unified call, legacy retry, queue polling, exceptions of two kinds | a failure is reported as one | p |
| previews, handlers, tree-temp and CST trees | one file's trees | render, parse, batch | file sessions, edit history | failure in a batch | files restored | p |
| file locks and backups, full-file save, search sessions | lock files, backups | save | local files | advisory leases | off the path of the registered commands | - |
| start-up, job queue | the event loop | registration, queueing | everything | commands block the loop, so they do not interleave | | - |

### Client (`client/ai_editor_client`)

One-call wrappers, and a local workspace with a baseline of what was downloaded
(`local_edit_workspace.py`); not modelled yet.

The behaviours that are hard to test are listed under `hazards` in
`PROJECT.json`, each at its line and with the properties that cover it; the ones
no property covers say what is missing.

## 2. Modules

| Component | Specification | Composition or abstraction | TLC instance | Proofs |
|---|---|---|---|---|
| file transaction | `FileTxn` | implements `AtomicStore`; two of them in `FileTxnConcurrent` | `MCFileTxn`, `MCFileTxnConcurrent` | `FileTxnProofs`, `RecoveryProofs` |
| document locks | `DocumentLocks` | implements `LockTable` | `MCDocumentLocks` | `DocumentLocksProofs` |
| transactions and facade | `SharedDocuments` | takes locks through `LockTable` | `MCSharedDocuments` | `SharedDocumentsProofs` |
| live trees, operations, move, short ids, tree files | `LiveTrees` | the trees `SharedDocuments` leaves out | `MCLiveTrees` | `LiveTreesProofs`, `LiveTreesOrderProofs` |
| edit history | `EditHistory` | | `MCEditHistory` | `EditHistoryProofs` |
| file sessions, CA client and server, session guard | `EditorSessions` | | `MCEditorSessions` | `EditorSessionsProofs` |

### FileTxn and AtomicStore

One caller publishes and recovers over one directory. Every system call that
changes the directory is an action, so `Crash` (the process dies) and `Fault`
(the call raises `StorageIOError`) fit between any two. `target`, `temp`,
`backup` and `journal` are the files; `pc`, `todo`, `plan` and `had` are where
the call stands, a loop over the plan being a program counter that stays while
`todo` shrinks in list order. Files are values; a file that was created and not
completely written is `Torn`. `baseline` is what the caller's `EditSession` last
saw, and `Caller` says what a caller does before it publishes: it opens the
document again after a failure (`reopen`), it compares with its baseline as
`StorageLifecycle.save` does (`guarded`), or neither, as `publish_pair` does
(`unchecked`).

`AtomicStore` says what `file_txn` promises: a publication of a set of files
takes effect in one step or never, and reports success only afterwards.
Refinement mapping: the abstract store is `Recovered`, the content that
`recover()` would leave in the targets if it ran now; the request is the call's
arguments, done once the last rename has happened.

`FileTxnConcurrent` puts a recovery beside a publication of another thread by
two instances of `FileTxn` over one disk.

### DocumentLocks and LockTable

`DocumentLockCoordinator`: each section under the private guard is one step, and
so is each `acquire()` and `release()` of a document's `threading.Lock`, which
happen outside the guard. `locked` is the locks themselves (which have no
owner), `owner` is `_owner` and `_held`. A thread may open one session inside
another when `Nesting` is set. `LockTable` is the promise: a lock goes from
nobody to a thread and back, by that thread.

### SharedDocuments

Callers run one command each over shared documents: batches of
`TransactionCoordinator.execute`, or the facade's operation, apply_subtree, move
and reparse. The two families have each a lock coordinator of their own
(`facade._LOCKS`; `TransactionCoordinator` makes one by default), so they are
never mixed in one behaviour. A tree is the set of callers whose change is in
it, which tells lost and duplicated changes apart and needs no tree structure.
Locks are taken through `LockTable`, which `DocumentLocks` implements. A step
ends where a lock, a wait for one, or a read or write of shared state outside a
lock lies in the code; `version += 1` is a read and a write.

### LiveTrees

`doc` is a `TreeDocument` for each document, as a record: `kids` and `up` are the
nodes' `children` and `parent`, `field` the node-holding entry of `fields`,
`label` a node's `short_id`; `known` and `index` are `nodes_by_id` and
`short_id_index`, `number` and `next` the `ShortIdMap`. `file` is what the tree
file of each document holds. A node stands for its UUID, and `minted` counts
them. A change is an operator from a record to a record (`Insert1`, `Deleted`,
`Replaced`, `Adopted`, `Registered` ...), so an action reads as the call it
models, and the operators are what the mutants change.

`insert`, `delete`, `replace` and `set_body` hold the document's lock from end to
end and are one action each. `move` is not: `MoveResolve` reads the source range
(before the locks), `MoveSplice` is the section under them, `MoveCommitSource`
and `MoveCommitTarget` are the facade's two `_committed` calls after they are
released, and other commands, `Write` and `Load` fall between any two. Three
kinds of parent differ in `sync_fields`: one field holds the children in
sequence (`Sequenced`), a field holds a single child, so that an edit is refused
after it was made (`Singled`), or the generator walks the children (the rest). A
node that only a field holds comes back from a file as no live node (`NoNode`),
and `sync_fields` does not find such a field again.

`unsynced` and `strayed` are history: the parents whose children a move has
changed with no commit on them since, and whether a move has cut other nodes
than the ones it named, because a command shifted the range before it had the
locks. After that nothing is promised and the behaviour is not followed further.

### EditHistory

One open file: the session's source and tree file, its git repository as a
sequence of commits (`commit_full` tracks both files, `commit_degraded` adds the
source and commits the index, in which an older tree may stand), and the
timeline with its cursor. Three kinds of session follow the three editing paths:
text drafts that revalidate against the tree, tree-temp drafts edited in
batches, and Python files with a CST sidecar. What a tree file means is the text
it exports; `Export` is `unmark` after `mark`, which loses style.

### EditorSessions

`universal_file_open`, `_edit`, `_write` and `_close` over the registries of
`session.py`, with the CA server's contents, locks and sessions as the client's
calls see them (external), and another client of that server. Commands call the
CA server synchronously on the event loop, so one command is in flight (`cmd`)
and a step is one remote call and the local work up to the next one; everything
outside the editor acts between any two. `Faults` chooses what can go wrong:
a call refused (`refused`), a call whose answer is lost and that raises
`RuntimeError` (`lost`), a call that raises anything else (`timeout`; a read
timeout is no `RuntimeError` in this client), content the server does not parse,
a draft or an origin snapshot that cannot be built. `Beneath` gives the paths
that share a workspace directory. `overtaken` and `inDoubt` are history
variables of the properties.

## 3. Runs

| Run | Instance and bounds | What it shows |
|---|---|---|
| `txn` | two files, two values, every plan the storage layer uses ({source, tree}, {tree}, {source}), crashes and faults in publications and recoveries, a `guarded` caller, fairness; `mishaps` records what went wrong between two settled states | `Atomicity`, `PublishDelivers`, an interrupted publication is recovered, rolled forward only when complete and leaves a clean pair, every interruption is settled (206 706 states) |
| `txn_recover_again` | crash during a recovery | **violated** `RecoverySucceeds`, see findings |
| `txn_concurrent_delivers` | a publication beside an opener's recovery | **violated** `PublishDeliversToReaders` |
| `locks` | three threads, three documents, all pairs, nesting, `MaxCalls` = 4, fairness | exclusion, possession, no leak, no circular wait without nesting, sessions end, `LockTable` implemented |
| `documents` | three callers, two documents, either family | staleness is caught under the lock, batches are all or nothing, versions count, only reparse drops a change (6.3 million states) |
| `trees` | two documents, a tree of four nodes and one of one, two commands with fragments of two, any number of writes and loads between | trees stay trees, indexes and short ids follow them, fields are in step, nodes land where they are addressed, commands leave the others alone, moves lose nothing (106 557 states) |
| `trees_move` | one command | **violated** `MoveIsRendered` |
| `history` | three kinds, four texts, `MaxCommits` = 6 | timeline, tree and source stay in step; undo restores what truthful commits hold (4.7 million states) |
| `history_undo` | text sessions, two texts, five commits | **violated** `UndoRestores` |
| `editor` | two sessions, two files, two texts, a directory for each file, every fault but `timeout` | registries agree, locks held, nothing overwritten, nothing dropped (770 347 states up to symmetry) |
| `editor_siblings` | two files of one directory, no fault | **violated** `EditsKept` |
| `editor_timeout` | fault `timeout` alone | **violated** `LostLockFails` |

Why the bounds are enough:

* *File transactions*: the code publishes at most two files, so two entries is
  the real size. Nothing counts, so the state space is finite without a bound
  and any number of publications, failures and recoveries follow one another. Two values tell
  "old" from "new" and, retried, "newer". The proofs remove both limits.
* *Locks*: three threads over three overlapping pairs is the smallest circle in
  which every thread holds one lock and waits for another; `MaxCalls` = 4 lets a
  thread come back while the other two are inside. The proofs have no bound.
* *Documents*: a third caller is what comes between the check and the use of a
  second while the first commits; two documents make a batch divisible. Callers
  run one command each, since a caller has no memory from one command to the
  next. The proofs have any number of callers and documents.
* *Trees*: two commands are what it takes for one to fall between two stretches
  of a move, to edit what another has put there, or to move nodes away and back;
  writes and loads are not counted, so each pair of commands meets every
  combination of them. The tree has a parent of each kind, a node with a
  grandparent, and a range of two; the second document takes and gives nodes
  under numbers that are taken on the other side.
* *History*: six commits hold a degraded and a full one on either side of an
  undo and the branch that replaces the redo entries. The four texts are a plain
  one, one that loses its style, one with no node and one that does not parse.
  The proofs have no bound.
* *Editor*: two sessions conflict over one file while each has another; two
  texts suffice to see an overwritten save. The proofs have no bound.

`CHECK_DEADLOCK FALSE` stands where the system may stop: the locks (nested
sessions of different threads can wait for each other for ever, which the code
does not rule out), the bounded history (its commits are used up, or the session
is closed), and the trees (their commands are used up, and nothing is written
once a move has strayed). Elsewhere deadlock is checked.

Symmetry is used in `documents` (callers) and `editor*` (sessions, paths,
texts): each set is interchangeable in the module, and no temporal property with
fairness is checked there. Documents are ordered, as ids are, and not symmetric.

### Fairness

* `MCFileTxn!TrackedSpec`: a call that has begun runs on, and after an interruption
  somebody opens the document again. The first is a running process; the second
  is an assumption on the users, without which a journal may lie there for ever.
  Faults and crashes are not fair: they may strike, but never have to, and
  `InterruptedIsSettled` asks nothing of a behaviour that they strike for ever.
* `DocumentLocks!LiveSpec`: each thread inside a call is scheduled, and the work
  in a block ends. No strong fairness: a `threading.Lock` favours nobody, which
  is why `EverySessionEnds` needs finitely many calls to be true.
* The other specifications have no fairness: their properties are safety
  properties, and the code makes no promise of progress against a remote server.

## 4. Proofs

The proofs are for arbitrary constants, under the named assumptions of the
specifications.

**FileTxn** (`FileTxnProofs`, `RecoveryProofs`). `TypeCorrect` holds for every
caller and every fault, short writes included. Atomicity needs `Checked`: the
caller opens again or compares with its session first, and `write(2)` is not
short. It is not inductive, since it says nothing of how the files are arranged
on disk. `IInv` adds that: the journal on disk is always in one of three
conditions - all it names is published, undoing it would change nothing
(`Neutral`), or it can be undone first entry first because the published entries
come first (`Undoable`) - together with what each loop of a publication and of a
recovery has established (`PublishState`, `RecoverState`) and what a session's
baseline says about the leftovers under it (`SessionView`). From `InvCorrect`,
`PublicationIsAtomic` shows every step to be a step of `AtomicStore` or a
stutter: `Recovered` changes with the last rename and with nothing else.
`DeliveryCorrect` follows from the same invariant.

`RecoveryProofs` is about the specification that `MCFileTxn` watches, where
`mishaps` records what went wrong before. `RInv` adds to `IInv` why a recovery
cannot be refused: unless an attempt was published over, what lies beside the
targets belongs to the journal on disk (`Leftovers`), and unless a rollback was
stopped in the middle, all that journal names is published, or it announces the
bytes the files had anyway, or each file still to be restored has its backup
(`JournalUse`). Theorems `RecoverySucceedsCorrect`, `ForwardCorrect` and
`OpensCleanCorrect`, under `Checked` again. TLC checked `RInv` for both kinds of
caller that `Checked` admits before it was proved.

**DocumentLocks** (`DocumentLocksProofs`). `TypeCorrect` contains the shape of a
session at each program counter. `IInv` adds possession and exclusion, which
imply each other's steps: a lock is free to be taken only if no session uses it
(no leak), and a release frees only what its session recorded (possession).
`DeadlockFreedom` is separate: each unnested thread holds only documents below
the one it waits for, so the highest document waited for in a circle
is held by a thread that waits for a higher one. `OrderAssumption` (every
non-empty set of documents has a lowest and a highest one) stands for finitely
many ids. `LockTableRefined` takes exclusion and possession to map each step.

**SharedDocuments** (`SharedDocumentsProofs`), for any number of callers and
documents. `IInv` says of each caller where it stands (`Shape`), which locks it
has at each program counter (`Holds`), and which documents its change is in
(`Applied`); over the callers it relates versions to the changes made. A version
counts the changes whose publication has ended, and no reader has a number above
that (`VersionBounded`). What a caller read stands for the tree as long as the
version has not moved, but in the gap between a swap of the tree and the bump of
its version (`SawTree`), and the gap closes before a lock is free. So a caller
that compares again under its locks has a basis that stays until its own swap
(`SeenUntilSwap`): `CheckedCorrect`. `BatchIsAtomic` and `VersionsCount` read
`Applied` off a finished caller. `DropsOnlyByReparse` is the action property: a
change leaves a tree only by a new parse of its own text. Documents are
natural numbers (`DocumentsAssumption`), as the UUIDs are whose integers
`locking.py` sorts by: each set of them has a lowest.

**EditHistory** (`EditHistoryProofs`). The invariant ties three sequences
together (`Tracks`): the cursor is in the timeline, each entry names a commit
there is, and a checkout of that commit restores what the entry shows, except
for a degraded commit that dragged an older tree along - the exception run
`history_undo` is about. A running batch began with a source that was its tree's
export (`BatchBegan`), so that its rollback restores a pair, and a tree-temp
session has no tree in any commit (`TreeTempBare`), so that none of its commits
falls under that exception. Theorems `HeadCorrect`, `TreeIsTruth`,
`TreeTempCorrect`, `UndoCorrect`, and the action property `PastIsKept`.

**EditorSessions** (`EditorSessionsProofs`). Three layers:

1. `Consistent`: types, what the command in flight has already found
   (`CommandFits`), that read-only drafts are clean, and that the index agrees
   with the drafts. Proved under every fault: `TypeCorrect`, `RegistriesAgree`.
2. `UnmodifiedShowsOrigin`: a draft that is not marked modified equals its
   origin. It gives `EditsAreKept` under every fault, provided each file has a
   directory of its own (`OwnDirectories`); without that, run `editor_siblings`
   refutes it.
3. `Guarded`: a draft holds its lock, a command that has taken a lock and not
   finished still has it, no draft has been overtaken, and an origin is what the
   server holds. The four are proved together, since an overwrite is excluded by
   the lock, and the lock's loss by what the calls in between may do. It needs
   `NoTimeouts`; run `editor_timeout` shows that the assumption cannot be
   dropped. Theorems `DraftsHoldLocks`, `CleanIsSaved`, `NoUpdateLost`,
   `LostLocksFail`.

**LiveTrees** (`LiveTreesProofs`, `LiveTreesOrderProofs`), for any documents, any number of nodes and
commands. `IInv` has three parts. `Typed`: the documents and files are made of
minted nodes, no number stands for two nodes and `next` is above all of them
(`Numbered`), and `short_id_index` is a dict (`Functional`); `reindex` needs both
to give out numbers that nobody has. `IndexesKept`: a document is as `reindex`
leaves it, but in the tail of a move and after a refused edit. `FieldsKept`: a
sequenced field holds the children or nothing, in documents and in files, since a
document inherits the fields of the file it is loaded from, and on dead nodes as
on live ones. Every operator of a command changes the children of one parent
only (`Edited`), and that parent is the one `sync_fields` is called for. Theorems
`TypeCorrect`, `IndexesFollow`, `RenderedCorrect`. `Walk` and `InsertEach` are
recursive functions; what is proved about them is an induction made by hand: the
least counterexample in a set of naturals (`UpTo`), and a set of functions that
satisfy the recursion, which is not empty (`Iterates`).

A second invariant is about which nodes a walk reaches. `Reach` is the least set
that holds the node and, with each of its nodes, the children (`ReachClosed`, for
which `Pool` levels are enough). A tree *hangs together* (`Hangs`) when the live
nodes have no child twice and their children point back at them; then no node is
below itself (`Rootless`), siblings have nothing in common (`SiblingsApart`) and
`walk` meets no node twice (`WalkInjective`). That is preserved by two elementary
changes: children taken away from one live node (`Prune`), and loose nodes hung on
one (`Graft`); each operator is shown to be one, or one after the other.
`TreesKept` says that every document is `Kempt`: it hangs together, `nodes_by_id`
holds the live nodes, and no entry of `short_id_index` names another, which is
what keeps `reindex` from releasing the number of a live node. It also says that
every file holds a tree, that nodes not minted yet have no children, and that a
move that was resolved names nodes which, as long as they live, hang where they
hung (`Steady`): with `StillThere` this makes the parent it cuts at live.
`Published` says that a number in the file is its node's in the document, below
`next`, and on no other node there even after a move has gone astray. TLC checked
`TreesKept` and `Published` on the instance of run `trees` before they were
proved. Theorems `TreesStayTrees`, and the action properties `NumbersStay` and
`MovesKeepNodes`. They rest on `FilesAssumption`: the files the documents come
from hold trees. A tree file is nested by its format, and `decode` refuses a node
id that is in it twice (`storage/codec.py`, `_check_identity_consistency`).

`LiveTreesOrderProofs` is about the order of children. `facade.insert` puts its
fragment in node by node, front to back or back to front. What stays true from
one node to the next is `Filled`: the children are the old ones with a part of
the fragment, in its order, at one place. An anchor is found again by its place
(`FilledPlace`), so the next node goes where the address says now (`PlaceAfter`).
A move is one splice at the place found under the locks, which a detachment
behind it does not change (`MarksBefore`). Theorem `NodesLand`, from `TreesKept`.

The second half compares the walks of a document before and after a step. Its
idea is `Keeps`: of some nodes, what the one sequence has the other has, in the
same order. Flattening layers keeps it (`FlattenKeeps`), so the walks do
(`WalkKeeps`), provided the nodes that stay hang where they hung and their
children are in order, parent by parent (`Undisturbed`, `UndisturbedPrecedes`).
What stays in place are the live nodes of both trees that the move does not take,
and what it takes has with a node its children (`Entire`). It is then left to
show for each command that its splices keep the order of all they do not cut out
(`SplicedKeeps`), that parents and numbers are those of before, and that what is
lost is one run and what hung on it (`LosesRun`); `CommitLeaves` and `MovedLeaves`
bring this together. Theorem `OthersStayPut`, from `TreesKept` and without a
further invariant: a step that leaves a move astray is excepted, as in the
property.

Only model-checked: liveness (`InterruptedIsSettled`, `EverySessionEnds`), which
is out of the prover's reach.

## 5. Findings

Each is a run that is expected to be violated; `PROJECT.json` has the lines.

* `txn_recover_again`: a crash during a rollback leaves a directory that every
  later recovery refuses, though `recover()` is documented as idempotent.
* `txn_concurrent_delivers`: an open in another thread rolls back a publication
  in flight, which then reports success.
* `trees_move`: a move between two parents of one document commits the parent
  the nodes left and not the one they went to, so they are in the tree and not
  in the rendered text: of JSON `[[1,2],[3]]`, moving the 1 to the end of the
  second array leaves `[[2], [3]]`.
* `history_undo`: undo to a degraded commit exports the source from the tree of
  an older full commit that git's index still held.
* `editor_siblings`: closing a file removes the drafts of the other files of its
  directory.
* `editor_timeout`: a read timeout during the unlock of a close leaves an open
  draft without its lock, which the next commit silently takes again.

Seen with a change of a configuration, and kept without a run of their own:

* `SharedDocuments.cfg` with `StaleRefused`: the facade compares
  `expected_version` before it takes the lock (`facade.py:365-366`), so a stale
  command takes effect, though `facade.py:13-15` has the comparison under it.
* `FileTxn.cfg` with `Caller = "unchecked"`, `PairSpec` and the invariant
  `PairTogether`: `publish_pair`, repeated over the leftovers of a failed
  attempt, can leave the source of one publication with the tree of another.
* `FileTxn.cfg` with `ShortWrites = TRUE`: a short `write(2)` is
  published as a success (`PublishDelivers`).
* `EditorSessions_timeout.cfg` with `NoLostUpdate`: the lock lost by the timeout
  ends in an overwritten save.
* `release_locks` frees whatever of its argument is held, by any session, though
  `locking.py:176` calls passing the full requested set safe; and a nested
  session over a lower document is not refused, though `locking.py:15` rules
  deadlock out.
* `LiveTrees` without `Overshoots`: a move forward in one parent lands past its
  place, since the place is counted with the moved nodes still in the list
  (`move.py:336`, used at `:371`).
* `LiveTrees` without the empty field in `Mirrored`: a field whose last node was
  deleted is not found again by `sync_fields`, and what is inserted later is not
  rendered. Without `refused` in `IndexesFollowTree`: an edit that `sync_fields`
  refuses has already been made, and the tree stays changed.
* The short id that `insert`, `replace` and `set_body` report is allocated to an
  id of no node (`facade.py:413-415`); the commit gives the node the next one
  (`Labelled`, `Reindexed`). The short id of a deleted node is never released:
  its entry has left `short_id_index` before `reindex` looks there, so it still
  resolves to a node that is gone.
* The documents under `docs/commands/file_editing` speak of a create at open (it
  happens at the first commit), of an unchanged commit without a remote call (it
  re-affirms the lock), and of a close that drops edits (it refuses).

## 6. Not modelled

* Power loss: `fsync` and the order in which a disk keeps writes. A crash is the
  death of the process, after which the file system holds what was called.
* File contents, formats, digests, parsing and rendering (values and small
  functions stand for them), logging, wording of errors.
* `DocumentLocks`: more than one level of nesting; the facade's coordinator and
  the transactions' in one process (they exclude nobody across each other).
* `SharedDocuments`: requests refused for their shape before any lock; readers
  that look between the swaps of a batch or inside a mutation; the tree
  structure, which `LiveTrees` has without the versions.
* `LiveTrees`: attributes, text bodies, byte ranges and cached source slices;
  `set_attribute`, `replace_node_id` and subtree copies; references between
  nodes (the facade passes none to the operations); fragments deeper than their
  roots; the source file beside the tree file, and with it the choice between
  the stored tree and a new parse. What follows a strayed move.
* The storage lifecycle's sessions and baselines beyond what `FileTxn`'s callers
  do, and the branches of the document bridge.
* `EditHistory`: failures of git itself; the copy-out to the host's files, which
  changes nothing the history keeps.
* `EditorSessions`: the undo and redo commands and `move_nodes` (no registration
  reaches them), several projects, two spellings of one path, a queued job that
  takes effect after the editor has stopped polling, an agent that calls
  `session_close_file` behind the editor's back, a server that stores other
  bytes than it was sent.

## 7. Plan

In order of importance:

1. `StorageSessions` over `AtomicStore`: `StorageLifecycle` with its sessions,
   baselines, acceptance branches and source- or tree-only publications, the
   document bridge, and two processes over one pair. Abstract specification:
   first publisher wins. Hazards at `lifecycle.py:292` and `:498`. Two callers,
   two values.
2. The copy-out of an edit session, with a crash between its two replacements.
3. `EditorSessions` with path spellings and queued jobs, once the registries'
   keys are a function of the path.

A run is added for a new question only; the violation runs whose code is repaired
turn into properties of the passing runs beside them.
