----------------------------- MODULE LiveTrees -----------------------------
(***************************************************************************)
(* The live documents of tree_engine.facade: their trees, the indexes and  *)
(* the short ids kept beside them, and the pair of files they are written  *)
(* to and loaded from.                                                     *)
(*                                                                         *)
(* insert, delete, replace and set_body hold the document's lock from end  *)
(* to end and are one action each.  move() is not: it reads the source     *)
(* range before it has the locks and commits after it has released them,   *)
(* so it is a step per stretch, and other callers' commands fall between.  *)
(***************************************************************************)
EXTENDS Integers, FiniteSets, SequencesExt

CONSTANTS
  Docs,        \* the documents loaded
  Root,        \* document -> its root node
  Pool,        \* the nodes are 1 .. Pool: a node stands for its UUID
  Born,        \* nodes 1 .. Born are in the files the documents come from
  FirstKids,   \* document -> (node -> its children) in those files
  Sequenced,   \* nodes rendered from the one field that holds their children
  Singled,     \* nodes that hold a child in a field of its own
  Given,       \* the positions commands are given
  Offsets,     \* the indexes they are given with child_index
  MaxFragment, \* nodes in a parsed fragment, all of them leaves
  MaxEdits     \* commands given in a behaviour

Nodes    == 1 .. Pool
NoNode   == 0
NoNumber == 0
Hows     == {"first_child", "last_child", "child_index", "before", "after"}

ASSUME SizesAssumption ==
  /\ Pool \in Nat /\ Born \in Nat /\ Born <= Pool
  /\ MaxFragment \in Nat \ {0} /\ MaxEdits \in Nat
  /\ Offsets \subseteq Nat
ASSUME PlacesAssumption == Given \subseteq Hows
ASSUME TreesAssumption ==
  /\ Root \in [Docs -> 1 .. Born]
  /\ FirstKids \in [Docs -> [Nodes -> Seq(1 .. Born)]]
  /\ Sequenced \subseteq Nodes /\ Singled \subseteq Nodes \ Sequenced
ASSUME FilesAssumption ==      \* the files hold trees
  \A d \in Docs :
    /\ \A n \in Nodes \ (1 .. Born) : FirstKids[d][n] = <<>>
    /\ \A n \in Nodes : /\ IsInjective(FirstKids[d][n])
                        /\ Root[d] \notin ToSet(FirstKids[d][n])
    /\ \A n, k \in Nodes :
         n # k => ToSet(FirstKids[d][n]) \cap ToSet(FirstKids[d][k]) = {}

VARIABLES
  doc,      \* document -> its TreeDocument, and with it `unsynced', a history:
            \* the nodes whose children a move changed, until a commit on them
  file,     \* document -> what its tree file holds, unsynced included
  minted,   \* how many UUIDs were generated so far
  edits,    \* how many commands were given
  pending,  \* the move under way, or NoMove
  refused,  \* documents changed by an edit that was then refused, and not
            \* reindexed since
  strayed   \* whether a move has detached other nodes than it named

vars == <<doc, file, minted, edits, pending, refused, strayed>>

-----------------------------------------------------------------------------
(* Reading a tree.  T is anything with `root' and `kids'.                  *)

Some(s) == s # <<>>

\* walk(): depth first, the node before its children.
Walk(kids, n) ==
  LET down[depth \in 0 .. Pool] ==
        [m \in Nodes |->
           IF depth = 0 THEN <<>>
           ELSE <<m>> \o FlattenSeq([i \in DOMAIN kids[m] |-> down[depth - 1][kids[m][i]]])]
  IN down[Pool][n]

Under(T)           == ToSet(Walk(T.kids, T.root))
Walked(T, roots)   == FlattenSeq([i \in DOMAIN roots |-> Walk(T.kids, roots[i])])
Fragment(T, roots) == ToSet(Walked(T, roots))

PlaceOf(s, n) == CHOOSE i \in DOMAIN s : s[i] = n

\* An address: a parent for the first three, a sibling for the others.
Places(hows) ==
  [how : hows \ {"child_index"}, node : Nodes, index : {0}]
    \cup [how : hows \cap {"child_index"}, node : Nodes, index : Offsets]

Beside(at) == at.how \in {"before", "after"}

ParentAt(T, at) == IF Beside(at) THEN T.up[at.node] ELSE at.node

\* Both addresses are looked up in nodes_by_id, the sibling in its parent too.
Resolves(T, at) ==
  /\ at.node \in T.known
  /\ Beside(at) => /\ T.up[at.node] # NoNode
                   /\ at.node \in ToSet(T.kids[T.up[at.node]])

\* How many children stand before the place.
Spot(T, at) ==
  LET s == T.kids[ParentAt(T, at)] IN
  CASE at.how = "first_child" -> 0
    [] at.how = "last_child"  -> Len(s)
    [] at.how = "child_index" -> Min({at.index, Len(s)})
    [] at.how = "before"      -> PlaceOf(s, at.node) - 1
    [] at.how = "after"       -> PlaceOf(s, at.node)

-----------------------------------------------------------------------------
(* Changing a tree: operators from a TreeDocument to a TreeDocument.       *)

\* children[:i] + new + children[j:], where Python's slices clamp.
Splice(s, i, j, new) ==
  SubSeq(s, 1, Min({i, Len(s)})) \o new \o SubSeq(s, j + 1, Len(s))

\* Variant: the entry an older node has under the number stays.
RegisteredBeside(T, new) ==
  [T EXCEPT !.known = @ \cup ToSet(new),
            !.index = @ \cup {<<T.label[n], n>> :
                                 n \in {k \in ToSet(new) : T.label[k] # NoNumber}}]

\* short_id_index is a dict: the last node registered under a number has it.
Registered(T, new) ==
  LET last == {i \in DOMAIN new :
                 \A k \in i + 1 .. Len(new) : T.label[new[k]] # T.label[new[i]]}
  IN [T EXCEPT !.known = @ \cup ToSet(new),
               !.index = {e \in @ : \A n \in ToSet(new) : T.label[n] # e[1]}
                      \cup {<<T.label[new[i]], new[i]>> :
                               i \in {k \in last : T.label[new[k]] # NoNumber}}]

Unregistered(T, roots) ==
  LET F == Fragment(T, roots) IN
  [T EXCEPT !.known = @ \ F,
            !.index = {e \in @ : \A n \in F : T.label[n] # e[1]},
            !.up    = [n \in Nodes |-> IF n \in ToSet(roots) THEN NoNode ELSE @[n]]]

\* The preflight plans a short id for every node that has none, and the facade
\* allocates it to a UUID of its own, not to the node: the number is spent.
Labelled(T, fresh) ==
  [T EXCEPT !.label = [n \in Nodes |-> IF n \in ToSet(fresh)
                                       THEN T.next + PlaceOf(fresh, n) - 1
                                       ELSE @[n]],
            !.next  = @ + Len(fresh)]

Adopted(T, p, roots) ==
  [T EXCEPT !.up = [n \in Nodes |-> IF n \in ToSet(roots) THEN p ELSE @[n]]]

\* operations.insert of one node that is not in the document yet.
Insert1(T, n, at) ==
  LET p == ParentAt(T, at)
      i == Spot(T, at)
      L == Adopted(Labelled(T, <<n>>), p, <<n>>)
  IN Registered([L EXCEPT !.kids[p] = Splice(@, i, i, <<n>>)], <<n>>)

\* Each node of order in turn, the index of a child_index one further each time.
InsertEach(T, order, at) ==
  LET after[k \in 0 .. Len(order)] ==
        IF k = 0 THEN T
        ELSE Insert1(after[k - 1], order[k], [at EXCEPT !.index = @ + k - 1])
  IN after[Len(order)]

\* Variant: every position takes the fragment front to back.
InsertAllForward(T, fresh, at) == InsertEach(T, fresh, at)

\* facade.insert: one splice per node against an anchor that does not move, so
\* two of the positions take the fragment back to front.
InsertAll(T, fresh, at) ==
  InsertEach(T, IF at.how \in {"first_child", "after"} THEN Reverse(fresh) ELSE fresh, at)

\* A run is a parent and the first and last of some consecutive children.
Run(T, r) == SubSeq(T.kids[r.of], r.from, r.to)

Body(T, p) == [of |-> p, from |-> 1, to |-> Len(T.kids[p])]

\* operations.delete.
Deleted(T, r) ==
  Unregistered([T EXCEPT !.kids[r.of] = Splice(@, r.from - 1, r.to, <<>>)],
               Run(T, r))

\* operations.replace_range.
Replaced(T, r, fresh) ==
  LET L == Adopted(Labelled(T, fresh), r.of, fresh)
  IN Registered(Unregistered([L EXCEPT !.kids[r.of] =
                                Splice(@, r.from - 1, r.to, fresh)],
                             Run(T, r)),
                fresh)

\* updates._replace_children: delete what there is, append what comes.
Rebodied(T, p, fresh) ==
  LET bare == IF Some(T.kids[p]) THEN Deleted(T, Body(T, p)) ELSE T
  IN InsertAll(bare, fresh, [how |-> "last_child", node |-> p, index |-> 0])

-----------------------------------------------------------------------------
(* Closing a mutation: _committed.                                         *)

\* sync_fields finds a field by the live nodes it holds, and them only.
Found(T, p) == Some(T.field[p]) /\ NoNode \notin ToSet(T.field[p])

\* sync_fields cannot express a new list of children on such a parent, and
\* raises: only then, with the children already replaced, is the edit refused.
Refuses(T, p) == p \in Singled /\ Found(T, p)

\* Variant: a field that holds one node is taken for a single child.
SyncedShort(T, p) ==
  IF p \in Sequenced /\ Found(T, p)
  THEN [T EXCEPT !.field[p] = IF Len(@) > 1 THEN T.kids[p] ELSE @,
                 !.unsynced = @ \ {p}]
  ELSE T

Synced(T, p) ==
  IF p \in Sequenced /\ Found(T, p)
  THEN [T EXCEPT !.field[p] = T.kids[p], !.unsynced = @ \ {p}]
  ELSE T

\* How many nodes of S come before n.
Rank(walk, S, n) == Cardinality({k \in S : PlaceOf(walk, k) < PlaceOf(walk, n)})

\* The live nodes that kept no number get the next ones, in the order of walk().
Renumbered(T, kept) ==
  LET walk  == Walk(T.kids, T.root)
      live  == ToSet(walk)
      fresh == {n \in live : kept[n] = NoNumber}
      now   == [n \in Nodes |-> IF n \in fresh THEN T.next + Rank(walk, fresh, n)
                                               ELSE kept[n]]
  IN [T EXCEPT !.known  = live,
               !.number = now,
               !.next   = @ + Cardinality(fresh),
               !.label  = [n \in Nodes |-> IF n \in live THEN now[n] ELSE @[n]],
               !.index  = {<<now[n], n>> : n \in live}]

\* Variant: a new node keeps the number it carries, if it carries one.
ReindexedByLabel(T) ==
  Renumbered(T, [n \in Nodes |-> IF n \in Under(T) /\ T.number[n] = NoNumber
                                 THEN T.label[n] ELSE T.number[n]])

\* Variant: every node is numbered again.
ReindexedAfresh(T) == Renumbered([T EXCEPT !.next = 1], [n \in Nodes |-> NoNumber])

\* TreeDocument.reindex: known numbers stay, those of the nodes that are gone
\* from the index are released.
Reindexed(T) ==
  LET freed == {e[2] : e \in T.index} \ Under(T)
  IN Renumbered(T, [n \in Nodes |-> IF n \in freed THEN NoNumber ELSE T.number[n]])

Closed(T, p) ==
  IF Refuses(T, p) THEN T
  ELSE [Reindexed(Synced(T, p)) EXCEPT !.version = @ + 1]

-----------------------------------------------------------------------------
(* Files.                                                                  *)

Blank(v) == [n \in Nodes |-> v]

\* to_tree_document: nodes and numbers come back, everything else is rebuilt.
\* A node that only a field holds comes back as no live node.
Loaded(d, f) ==
  Reindexed([root   |-> Root[d],
             kids   |-> f.kids,
             field  |-> [n \in Nodes |->
                           [i \in DOMAIN f.field[n] |->
                              LET k == f.field[n][i] IN
                              IF k \in ToSet(f.kids[n]) THEN k ELSE NoNode]],
             up     |-> [n \in Nodes |->
                           IF \E m \in Nodes : n \in ToSet(f.kids[m])
                           THEN CHOOSE m \in Nodes : n \in ToSet(f.kids[m])
                           ELSE NoNode],
             label  |-> Blank(NoNumber), number |-> f.number,
             known  |-> {}, index |-> {},
             next   |-> f.next, version |-> 1, unsynced |-> f.unsynced])

\* Variant: the map is derived from the nodes (short_id_map_for), counter too.
SavedDerived(T) ==
  LET here(g) == [n \in Nodes |-> IF n \in Under(T) THEN g[n] ELSE <<>>]
      used    == {T.label[n] : n \in Under(T)}
  IN [kids |-> here(T.kids), field |-> here(T.field),
      number |-> [n \in Nodes |-> IF n \in Under(T) THEN T.label[n]
                                                   ELSE NoNumber],
      next |-> Max(used) + 1, unsynced |-> T.unsynced]

\* to_frozen_document and encode: the tree, and the live map as it stands.
Saved(T) ==
  LET here(g) == [n \in Nodes |-> IF n \in Under(T) THEN g[n] ELSE <<>>]
  IN [kids |-> here(T.kids), field |-> here(T.field),
      number |-> T.number, next |-> T.next, unsynced |-> T.unsynced]

\* encode refuses a tree whose labels contradict the map.
Encodable(T) ==
  \A n \in Under(T) : T.number[n] \in {NoNumber, T.label[n]}

FirstFile(d) ==
  [kids   |-> FirstKids[d],
   field  |-> [n \in Nodes |-> IF n \in Sequenced \cup Singled THEN FirstKids[d][n]
                                                             ELSE <<>>],
   number |-> Blank(NoNumber), next |-> 1, unsynced |-> {}]

-----------------------------------------------------------------------------
(* Commands.                                                               *)

NoMove == [stage |-> "none"]

Init ==
  /\ doc  = [d \in Docs |-> Loaded(d, FirstFile(d))]
  /\ file = [d \in Docs |-> Saved(Loaded(d, FirstFile(d)))]
  /\ minted = Born /\ edits = 0
  /\ pending = NoMove
  /\ refused = {} /\ strayed = FALSE

\* A bound: so many commands, none after a move has gone astray.
MayEdit == edits < MaxEdits /\ ~strayed
Command == MayEdit /\ edits' = edits + 1

\* _fragment: leaves with UUIDs nobody has, and no short id.
Fresh(m)   == [k \in 1 .. m |-> minted + k]
MayMint(m) == minted + m <= Pool
Minted(m)  == MayMint(m) /\ minted' = minted + m

\* The document d was changed to T below p; _committed follows.
Commit(d, T, p) ==
  /\ doc' = [doc EXCEPT ![d] = Closed(T, p)]
  /\ refused' = IF Refuses(T, p) THEN refused \cup {d} ELSE refused \ {d}

Insert(d, at, m) ==
  /\ Command
  /\ Resolves(doc[d], at)
  /\ Minted(m)
  /\ Commit(d, InsertAll(doc[d], Fresh(m), at), ParentAt(doc[d], at))
  /\ UNCHANGED <<file, pending, strayed>>

\* What _nodes resolves a list of targets to: consecutive children of a node.
Runs(d) ==
  LET kids == doc[d].kids IN
  UNION {UNION {{[of |-> p, from |-> i, to |-> j] : j \in i .. Len(kids[p])}
                : i \in DOMAIN kids[p]} : p \in doc[d].known}

Delete(d, r) ==
  /\ Command
  /\ Commit(d, Deleted(doc[d], r), r.of)
  /\ UNCHANGED <<file, minted, pending, strayed>>

Replace(d, r, m) ==
  /\ Command
  /\ Minted(m)
  /\ Commit(d, Replaced(doc[d], r, Fresh(m)), r.of)
  /\ UNCHANGED <<file, pending, strayed>>

SetBody(d, p, m) ==
  /\ Command
  /\ p \in doc[d].known
  /\ Minted(m)
  /\ Commit(d, Rebodied(doc[d], p, Fresh(m)), p)
  /\ UNCHANGED <<file, pending, strayed>>

-----------------------------------------------------------------------------
(* move().                                                                 *)

\* No lock is held yet: facade.move looks up its addresses and core.move the
\* range they form and the indexes it will cut at.
MoveResolve(s, r, t, at) ==
  /\ Command
  /\ pending = NoMove
  /\ at.node \in doc[t].known
  /\ pending' = [stage |-> "resolved", src |-> s, dst |-> t, at |-> at,
                 cut |-> r, roots |-> Run(doc[s], r)]
  /\ UNCHANGED <<doc, file, minted, refused, strayed>>

\* Variant: a node may be put below itself.
AdmittedAnywhere(m) ==
  /\ Resolves(doc[m.dst], m.at)
  /\ m.src # m.dst =>
       Fragment(doc[m.src], m.roots) \cap doc[m.dst].known = {}

\* Under the locks: what the preflight lets through.
Admitted(m) ==
  LET F == Fragment(doc[m.src], m.roots) IN
  /\ Resolves(doc[m.dst], m.at)
  /\ ParentAt(doc[m.dst], m.at) \notin F
  /\ m.src # m.dst => F \cap doc[m.dst].known = {}

\* Nodes leave a document with what hangs on them.
Without(T, F) ==
  [T EXCEPT !.kids  = [n \in Nodes |-> IF n \in F THEN <<>> ELSE @[n]],
            !.field = [n \in Nodes |-> IF n \in F THEN <<>> ELSE @[n]],
            !.label = [n \in Nodes |-> IF n \in F THEN NoNumber ELSE @[n]]]

With(T, S, F) ==
  [T EXCEPT !.kids  = [n \in Nodes |-> IF n \in F THEN S.kids[n] ELSE @[n]],
            !.field = [n \in Nodes |-> IF n \in F THEN S.field[n] ELSE @[n]],
            !.label = [n \in Nodes |-> IF n \in F THEN S.label[n] ELSE @[n]],
            !.up    = [n \in Nodes |-> IF n \in F THEN S.up[n] ELSE @[n]],
            !.unsynced = @ \cup (F \cap S.unsynced)]

\* Variant: of a range, only the first node leaves its parent.
DetachedFirst(m) ==
  Unregistered([doc[m.src] EXCEPT !.kids[m.cut.of] =
                                    Splice(@, m.cut.from - 1, m.cut.from, <<>>),
                                  !.unsynced = @ \cup {m.cut.of}],
               m.roots)

\* _detach, by the indexes read before the locks.
Detached(m) ==
  Unregistered([doc[m.src] EXCEPT !.kids[m.cut.of] =
                                    Splice(@, m.cut.from - 1, m.cut.to, <<>>),
                                  !.unsynced = @ \cup {m.cut.of}],
               m.roots)

\* _attach, at the place computed before _detach.
Attached(m, T) ==
  LET p == ParentAt(doc[m.dst], m.at)
      i == Spot(doc[m.dst], m.at)
  IN Registered(Adopted([T EXCEPT !.kids[p] = Splice(@, i, i, m.roots),
                                !.unsynced = @ \cup {p}],
                        p, m.roots),
                Walked(T, m.roots))

MovedDocs(m) ==
  LET S == Detached(m)
      F == Fragment(S, m.roots)
  IN IF m.src = m.dst
     THEN [doc EXCEPT ![m.src] = Attached(m, S)]
     ELSE [doc EXCEPT ![m.src] = Without(S, F),
                      ![m.dst] = Attached(m, With(@, S, F))]

StillThere(m) ==
  /\ m.cut.to <= Len(doc[m.src].kids[m.cut.of])
  /\ Run(doc[m.src], m.cut) = m.roots
  /\ ToSet(m.roots) \subseteq doc[m.src].known

MoveSplice ==
  /\ pending.stage = "resolved"
  /\ Admitted(pending)
  /\ doc' = MovedDocs(pending)
  /\ pending' = [pending EXCEPT !.stage = "source"]
  /\ strayed' = ~StillThere(pending)
  /\ UNCHANGED <<file, minted, edits, refused>>

MoveRefused ==
  /\ pending.stage = "resolved"
  /\ ~Admitted(pending)
  /\ pending' = NoMove
  /\ UNCHANGED <<doc, file, minted, edits, refused, strayed>>

\* The locks are released; the facade commits one document, then the other.
MoveCommitSource ==
  LET m == pending IN
  /\ m.stage = "source"
  /\ doc' = [doc EXCEPT ![m.src] = Closed(@, m.cut.of)]
  /\ IF Refuses(doc[m.src], m.cut.of)
     THEN /\ pending' = NoMove
          /\ refused' = refused \cup {m.src, m.dst}
     ELSE /\ pending' = IF m.src = m.dst THEN NoMove
                                        ELSE [m EXCEPT !.stage = "target"]
          /\ refused' = refused \ {m.src}
  /\ UNCHANGED <<file, minted, edits, strayed>>

MoveCommitTarget ==
  /\ pending.stage = "target"
  /\ Commit(pending.dst, doc[pending.dst], doc[pending.dst].up[pending.roots[1]])
  /\ pending' = NoMove
  /\ UNCHANGED <<file, minted, edits, strayed>>

-----------------------------------------------------------------------------
(* Files.  No lock is taken.                                               *)

\* The splice of a move on d is done and its commit on d is not.
InTail(d) ==
  \/ pending.stage = "source" /\ d \in {pending.src, pending.dst}
  \/ pending.stage = "target" /\ d = pending.dst

Write(d) ==
  /\ ~strayed
  /\ Encodable(doc[d])
  /\ file' = [file EXCEPT ![d] = Saved(doc[d])]
  /\ UNCHANGED <<doc, minted, edits, pending, refused, strayed>>

\* The caller gives its document up for a new one: it has no move under way.
Load(d) ==
  /\ ~strayed
  /\ pending # NoMove => d \notin {pending.src, pending.dst}
  /\ doc' = [doc EXCEPT ![d] = Loaded(d, file[d])]
  /\ refused' = refused \ {d}
  /\ UNCHANGED <<file, minted, edits, pending, strayed>>

Editing ==
  \E d \in Docs :
    \/ \E at \in Places(Given), m \in 1 .. MaxFragment : Insert(d, at, m)
    \/ \E r \in Runs(d) :
         \/ Delete(d, r)
         \/ \E m \in 1 .. MaxFragment : Replace(d, r, m)
         \/ \E t \in Docs, at \in Places(Given) : MoveResolve(d, r, t, at)
    \/ \E p \in Nodes, m \in 1 .. MaxFragment : SetBody(d, p, m)

Moving == MoveSplice \/ MoveRefused \/ MoveCommitSource \/ MoveCommitTarget

Storing == \E d \in Docs : Write(d) \/ Load(d)

Next == Editing \/ Moving \/ Storing

Spec == Init /\ [][Next]_vars

-----------------------------------------------------------------------------
(* Properties.                                                             *)

TypeOK ==
  /\ \A d \in Docs :
       /\ doc[d].known \subseteq 1 .. minted /\ doc[d].unsynced \subseteq Nodes
       /\ doc[d].up \in [Nodes -> Nodes \cup {NoNode}]
       /\ \A n \in Nodes : /\ doc[d].kids[n] \in Seq(Nodes)
                           /\ doc[d].field[n] \in Seq(Nodes \cup {NoNode})
                           /\ doc[d].label[n] \in Nat
                           /\ doc[d].number[n] \in Nat
       /\ \A e, f \in doc[d].index : e[1] = f[1] => e = f
       /\ {file[d].next, doc[d].next, doc[d].version} \subseteq Nat \ {0}
  /\ minted \in Born .. Pool /\ edits \in 0 .. MaxEdits
  /\ pending.stage \in {"none", "resolved", "source", "target"}
  /\ refused \subseteq Docs
  /\ strayed \in BOOLEAN

IsTree(T) ==
  LET walk == Walk(T.kids, T.root) IN
  /\ IsInjective(walk)
  /\ T.up[T.root] = NoNode
  /\ \A n \in ToSet(walk), k \in Nodes : k \in ToSet(T.kids[n]) => T.up[k] = n

\* Whatever commands interleave with a move's three stretches, every document
\* stays a tree: no node hangs in two places, none under itself, and the back
\* links agree with the children.  Only a move whose source range was shifted
\* by another command before it got the locks can break that.
TreeSound == ~strayed => \A d \in Docs : IsTree(doc[d])

\* reindex: "a node keeps the short_id it already holds" and every index is
\* that of the tree.  It holds whenever no commit is outstanding, also after
\* foreign nodes arrived under numbers that are taken here; an edit refused
\* after its splice suspends it until the next commit.
IndexesFollowTree ==
  \A d \in Docs : ~strayed /\ ~InTail(d) /\ d \notin refused =>
    LET T == doc[d] IN
    /\ T.known = Under(T)
    /\ T.index = {<<T.number[n], n>> : n \in Under(T)}
    /\ \A n \in Under(T) : /\ T.number[n] = T.label[n]
                           /\ T.number[n] \in 1 .. T.next - 1
    /\ \A n, k \in Nodes : T.number[n] = T.number[k] /\ n # k
                            => T.number[n] = NoNumber

\* What a generator that walks the field renders is the node's children.  The
\* exception is a field that holds no node: deleting all children empties it,
\* and what is inserted later is in the tree and not in the rendered text.
Mirrored(T, n) == T.field[n] \in {T.kids[n], <<>>}

\* sync_fields: every command, and every load of what any of them wrote, leaves
\* the fields in step with the children, but under the parents whose children a
\* move has changed and no commit was made on since.
RenderedIsTree ==
  ~strayed =>
    \A d \in Docs : \A n \in (Under(doc[d]) \cap Sequenced) \ doc[d].unsynced :
      Mirrored(doc[d], n)

\* _committed, facade.py: it is to "mirror each affected parent's new children
\* back into its node-holding fields".  When a move returns, the parent it has
\* put the nodes under is rendered with them.
MoveIsRendered ==
  [][pending # NoMove /\ pending.stage # "resolved" /\ pending' = NoMove =>
       LET p == doc[pending.dst].up[pending.roots[1]] IN
       p \in Sequenced => Mirrored(doc'[pending.dst], p)]_vars

\* {p097}, over every write and load: a number in the file goes on naming its
\* node, none is given again, and memory never disagrees with the file.
PublishedNumbersStay ==
  [][\A d \in Docs, n \in Nodes :
       LET old == file[d].number[n] IN
       old # NoNumber =>
         /\ file'[d].number[n] = old
         /\ \A k \in Nodes : doc'[d].number[k] = old => k = n
         /\ doc'[d].next > old]_vars

Stands(T, roots, at) ==
  LET s == T.kids[ParentAt(T, at)]
      m == Len(roots)
      First == PlaceOf(s, roots[1])
  IN /\ ToSet(roots) \subseteq ToSet(s)
     /\ SubSeq(s, First, First + m - 1) = roots
     /\ CASE at.how = "first_child" -> First = 1
          [] at.how = "last_child"  -> First + m - 1 = Len(s)
          [] at.how = "child_index" -> First = Min({at.index, Len(s) - m}) + 1
          [] at.how = "before"      -> PlaceOf(s, at.node) = First + m
          [] at.how = "after"       -> PlaceOf(s, at.node) = First - 1

\* A move forward among the children of one parent, or beside a moved node.
Overshoots(m) ==
  /\ m.src = m.dst /\ ParentAt(doc[m.dst], m.at) = m.cut.of
  /\ m.at.node \in ToSet(m.roots) \/ Spot(doc[m.dst], m.at) >= m.cut.from

\* An insertion and a move put their nodes, together and in order, where the
\* {p107} address says, whatever commands came before.  A move forward among
\* the children of one parent does not: its place is counted with the moved
\* nodes still in the list.
LandsAsAsked ==
  ~strayed =>
    /\ \A d \in Docs, at \in Places(Hows), m \in 1 .. MaxFragment :
         MayMint(m) /\ Resolves(doc[d], at) =>
           Stands(InsertAll(doc[d], Fresh(m), at), Fresh(m), at)
    /\ LET m == pending IN
       m.stage = "resolved" /\ Admitted(m) /\ StillThere(m) /\ ~Overshoots(m) =>
         Stands(MovedDocs(m)[m.dst], m.roots, m.at)

InMotion == IF pending.stage = "resolved" /\ pending' # pending
            THEN Fragment(doc[pending.src], pending.roots) ELSE {}

Precedes(T, n, k) == LET w == Walk(T.kids, T.root)
                     IN PlaceOf(w, n) < PlaceOf(w, k)

Stay(T, U) == (Under(T) \cap Under(U)) \ InMotion
Gone(T, U) == Under(T) \ Under(U)

StayPut(T, U) ==
  \A n \in Stay(T, U) :
    /\ T.up[n] = U.up[n] /\ T.number[n] \in {NoNumber, U.number[n]}
    /\ \A k \in Stay(T, U) : Precedes(T, n, k) => Precedes(U, n, k)

LosesOneRun(T, U) ==
  Gone(T, U) = {} \/ \E p \in Under(T) : \E i, j \in DOMAIN T.kids[p] :
                      i <= j /\ Gone(T, U) = Fragment(T, SubSeq(T.kids[p], i, j))

\* A command leaves alone what it does not address: the other nodes keep their
\* parents, their numbers and their order, and what a document loses is one
\* contiguous run of siblings with their subtrees.
OthersStay ==
  [][strayed' \/ \A d \in Docs :
       \/ doc'[d] = doc[d] \/ doc'[d] = Loaded(d, file[d])
       \/ StayPut(doc[d], doc'[d]) /\ LosesOneRun(doc[d], doc'[d])]_vars

\* A move between two documents, commits outstanding or not, neither loses a
\* node nor leaves it in both.
MovesLoseNothing ==
  [][InMotion # {} /\ ~strayed' /\ doc' # doc =>
       LET s == pending.src
           t == pending.dst
       IN /\ Under(doc'[s]) \cup Under(doc'[t]) = Under(doc[s]) \cup Under(doc[t])
          /\ s # t => InMotion \subseteq Under(doc'[t]) \ Under(doc'[s])]_vars
=============================================================================
