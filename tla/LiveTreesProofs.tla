--------------------------- MODULE LiveTreesProofs ---------------------------
(***************************************************************************)
(* Proofs about LiveTrees, for any documents, any number of nodes, any     *)
(* kinds of parents and commands of any length.                            *)
(***************************************************************************)
EXTENDS LiveTrees, FiniteSetTheorems, WellFoundedInduction, TLAPS

-----------------------------------------------------------------------------
(* Recursion over 0 .. N.  The induction theorems of the library take      *)
(* operators; these two take sets and functions.                           *)

\* A set of naturals that is not empty has a least element.
LEMMA LeastExists ==
  ASSUME NEW S \in SUBSET Nat, S # {}
  PROVE  \E k \in S : \A i \in S : k <= i
  <1>1. PICK k \in S : \A i \in S : <<i, k>> \notin OpToRel(<, Nat)
    BY NatLessThanWellFounded, WFMin, Zenon
  <1>2. ASSUME NEW i \in S PROVE k <= i
    <2>1. <<i, k>> \in Nat \X Nat
      OBVIOUS
    <2>2. ~(<<i, k>>[1] < <<i, k>>[2])
      BY <1>1, <2>1 DEF OpToRel
    <2>3. QED
      BY <2>2
  <1>3. QED
    BY <1>2

\* A set that has 0, and with a number below N the next one, has them all.
LEMMA UpTo ==
  ASSUME NEW N \in Nat, NEW S, 0 \in S, \A i \in 1 .. N : i - 1 \in S => i \in S
  PROVE  0 .. N \subseteq S
  <1> DEFINE Bad == {i \in 0 .. N : i \notin S}
  <1> SUFFICES ASSUME Bad # {} PROVE FALSE
    OBVIOUS
  <1>0. Bad \in SUBSET Nat
    OBVIOUS
  <1>1. PICK k \in Bad : \A i \in Bad : k <= i
    <2> HIDE DEF Bad
    <2> QED BY <1>0, LeastExists
  <1>2. k \in 1 .. N /\ k - 1 \in 0 .. N /\ ~(k <= k - 1)
    OBVIOUS
  <1>3. k - 1 \in S
    BY <1>1, <1>2
  <1>4. QED
    BY <1>2, <1>3

\* What N steps, each a function on V, make of a value of V, one after another.
Iterations(N, V, base, step) ==
  {f \in [0 .. N -> V] : f[0] = base /\ \A i \in 1 .. N : f[i] = step[i][f[i - 1]]}

\* There is such a sequence of values.
LEMMA Iterates ==
  ASSUME NEW N \in Nat, NEW V, NEW base \in V, NEW step \in [1 .. N -> [V -> V]]
  PROVE  Iterations(N, V, base, step) # {}
  <1> DEFINE Run_(f, k) == f[0] = base /\ \A i \in 1 .. k : f[i] = step[i][f[i - 1]]
             S == {k \in 0 .. N : \E f \in [0 .. k -> V] : Run_(f, k)}
  <1>1. 0 \in S
    <2> DEFINE f == [i \in 0 .. 0 |-> base]
    <2>1. f \in [0 .. 0 -> V] /\ f[0] = base
      OBVIOUS
    <2> HIDE DEF f
    <2>2. Run_(f, 0) /\ 0 \in 0 .. N
      BY <2>1
    <2> HIDE DEF Run_
    <2>3. QED
      BY <2>1, <2>2, Zenon
  <1>2. ASSUME NEW k \in 1 .. N, k - 1 \in S PROVE k \in S
    <2>1. PICK f \in [0 .. k - 1 -> V] : Run_(f, k - 1)
      BY <1>2
    <2> DEFINE g == [i \in 0 .. k |-> IF i = k THEN step[k][f[k - 1]] ELSE f[i]]
    <2>2. step[k] \in [V -> V] /\ f[k - 1] \in V
      OBVIOUS
    <2>3. g \in [0 .. k -> V]
      BY <2>2
    <2>4. g[0] = base
      BY <2>1
    <2>5. ASSUME NEW i \in 1 .. k PROVE g[i] = step[i][g[i - 1]]
      BY <2>1
    <2> HIDE DEF g
    <2>6. Run_(g, k) /\ k \in 0 .. N
      BY <2>4, <2>5
    <2> HIDE DEF Run_
    <2>7. QED
      BY <2>3, <2>6, Zenon
  <1> HIDE DEF S
  <1>3. \A k \in 1 .. N : k - 1 \in S => k \in S
    BY <1>2
  <1>4. 0 .. N \subseteq S
    BY <1>1, <1>3, UpTo, Zenon
  <1>5. N \in S
    BY <1>4
  <1>6. PICK f \in [0 .. N -> V] : Run_(f, N)
    BY <1>5, Zenon DEF S
  <1>7. QED
    BY <1>6 DEF Iterations

-----------------------------------------------------------------------------
(* Sequences.                                                              *)

\* A function on 1 .. n is a sequence.
LEMMA FunctionIsSeq ==
  ASSUME NEW S, NEW n \in Nat, NEW s, s \in [1 .. n -> S]
  PROVE  s \in Seq(S) /\ Len(s) = n
  OBVIOUS

\* A sequence over a set is one over every larger set.
LEMMA SeqOver ==
  ASSUME NEW S, NEW T, S \subseteq T, NEW s \in Seq(S)
  PROVE  s \in Seq(T)
  OBVIOUS

\* A flattening appends one sequence after another.
LEMMA FlattenFolds ==
  ASSUME NEW S, NEW ss \in Seq(Seq(S)), Len(ss) # 0
  PROVE  \E f \in [1 .. Len(ss) -> Seq(S)] :
           /\ f[1] = ss[1] /\ \A i \in 2 .. Len(ss) : f[i] = f[i - 1] \o ss[i]
           /\ FlattenSeq(ss) = f[Len(ss)]
  <1> DEFINE N == Len(ss)
             Def_(g) == [i \in 1 .. N |-> IF i = 1 THEN ss[i] ELSE g[i - 1] \o ss[i]]
             flatten == CHOOSE g : g = Def_(g)
             step == [i \in 1 .. N |-> [v \in Seq(S) |-> v \o ss[i]]]
  <1>0. N \in Nat /\ N # 0 /\ \A i \in 1 .. N : ss[i] \in Seq(S)
    OBVIOUS
  <1>1. step \in [1 .. N -> [Seq(S) -> Seq(S)]] /\ <<>> \in Seq(S)
    BY <1>0
  <1>2. PICK f \in [0 .. N -> Seq(S)] :
          f[0] = <<>> /\ \A i \in 1 .. N : f[i] = step[i][f[i - 1]]
    <2> DEFINE V == Seq(S)
               base == <<>>
    <2>1. N \in Nat /\ base \in V /\ step \in [1 .. N -> [V -> V]]
      BY <1>0, <1>1
    <2> HIDE DEF step, N, V, base
    <2>2. PICK f \in Iterations(N, V, base, step) : TRUE
      BY <2>1, Iterates
    <2> QED BY <2>2 DEF Iterations, V, base
  <1> DEFINE h == [i \in 1 .. N |-> f[i]]
  <1>3. h = Def_(h)
    <2>1. ASSUME NEW i \in 1 .. N
          PROVE  h[i] = IF i = 1 THEN ss[i] ELSE h[i - 1] \o ss[i]
      <3>0. f[i - 1] \in Seq(S) /\ ss[i] \in Seq(S)
        <4>1. f \in [0 .. N -> Seq(S)]
          BY <1>2
        <4>2. i - 1 \in 0 .. N
          BY <1>0
        <4>3. ss[i] \in Seq(S)
          BY <1>0
        <4> HIDE DEF N, step
        <4>4. QED
          BY <4>1, <4>2, <4>3
      <3>1. f[i] = step[i][f[i - 1]]
        <4> HIDE DEF step
        <4> QED BY <1>2, Zenon
      <3>2. f[i] = f[i - 1] \o ss[i]
        BY <3>0, <3>1
      <3> HIDE DEF step
      <3>3. CASE i = 1
        <4>1. i - 1 = 0 /\ h[i] = f[i]
          BY <3>3
        <4>2. f[i] = <<>> \o ss[i]
          BY <3>2, <4>1, <1>2
        <4>3. QED
          BY <3>0, <3>3, <4>1, <4>2
      <3>4. CASE i # 1
        <4>1. i - 1 \in 1 .. N /\ i \in 1 .. N
          BY <1>0, <3>4
        <4>2. h[i] = f[i] /\ h[i - 1] = f[i - 1]
          BY <4>1
        <4>3. QED
          BY <3>2, <3>4, <4>2
      <3>5. QED
        BY <3>3, <3>4
    <2>2. QED
      BY <2>1
  <1>4. flatten = Def_(flatten)
    <2> HIDE DEF h, Def_
    <2> QED BY <1>3, Zenon
  <1>5. 0 .. N \subseteq {0} \cup {i \in 1 .. N : flatten[i] \in Seq(S)}
    <2> HIDE DEF flatten
    <2>1. ASSUME NEW i \in 1 .. N, i = 1 \/ flatten[i - 1] \in Seq(S)
          PROVE  flatten[i] \in Seq(S)
      <3>1. flatten[i] = IF i = 1 THEN ss[i] ELSE flatten[i - 1] \o ss[i]
        BY <1>4
      <3>2. QED
        BY <1>0, <2>1, <3>1
    <2> DEFINE Good == {0} \cup {i \in 1 .. N : flatten[i] \in Seq(S)}
    <2>2. 0 \in Good /\ \A i \in 1 .. N : i - 1 \in Good => i \in Good
      BY <2>1, <1>0
    <2> HIDE DEF Good
    <2>3. 0 .. N \subseteq Good
      BY <2>2, <1>0, UpTo
    <2>4. QED
      BY <2>3 DEF Good
  <1>6. FlattenSeq(ss) = flatten[N]
    BY <1>0 DEF FlattenSeq
  <1> HIDE DEF flatten
  <1>7. \A i \in 1 .. N : flatten[i] \in Seq(S)
    <2>1. \A i \in 1 .. N : i \in 0 .. N /\ i # 0
      BY <1>0
    <2>2. QED
      BY <1>5, <2>1
  <1>8. flatten \in [1 .. N -> Seq(S)]
    BY <1>4, <1>7
  <1>9. flatten[1] = ss[1] /\ \A i \in 2 .. N : flatten[i] = flatten[i - 1] \o ss[i]
    <2>1. ASSUME NEW i \in 1 .. N
          PROVE  flatten[i] = IF i = 1 THEN ss[i] ELSE flatten[i - 1] \o ss[i]
      BY <1>4
    <2>2. 1 \in 1 .. N /\ \A i \in 2 .. N : i \in 1 .. N /\ i # 1
      BY <1>0
    <2>3. QED
      BY <2>1, <2>2
  <1>10. QED
    BY <1>6, <1>8, <1>9

\* Flattening sequences over S gives a sequence over S.
LEMMA FlattenTyped ==
  ASSUME NEW S, NEW ss \in Seq(Seq(S))
  PROVE  FlattenSeq(ss) \in Seq(S)
  <1>1. CASE Len(ss) = 0
    BY <1>1 DEF FlattenSeq
  <1>2. CASE Len(ss) # 0
    <2>1. PICK f \in [1 .. Len(ss) -> Seq(S)] : FlattenSeq(ss) = f[Len(ss)]
      BY <1>2, FlattenFolds
    <2>2. Len(ss) \in 1 .. Len(ss)
      BY <1>2
    <2>3. QED
      BY <2>1, <2>2
  <1>3. QED
    BY <1>1, <1>2

\* A walk is the node and what hangs on its children, level by level.
Unfolds(kids, A, down) ==
  /\ \A m \in Nodes : down[0][m] = <<>>
  /\ \A depth \in 1 .. Pool, m \in Nodes :
       down[depth][m]
         = <<m>> \o FlattenSeq([i \in DOMAIN kids[m] |-> down[depth - 1][kids[m][i]]])
  /\ \A depth \in 0 .. Pool, m \in Nodes :
       down[depth][m] \in Seq(IF m \in A THEN A ELSE Nodes)
  /\ \A n \in Nodes : Walk(kids, n) = down[Pool][n]

\* There are such levels.
LEMMA WalkUnfolds ==
  ASSUME NEW A \in SUBSET Nodes, NEW kids \in [Nodes -> Seq(A)]
  PROVE  \E down : Unfolds(kids, A, down)
  <1> DEFINE Tree(v, m) == <<m>> \o FlattenSeq([i \in DOMAIN kids[m] |-> v[kids[m][i]]])
             Level(v) == [m \in Nodes |-> Tree(v, m)]
             Def_(g) == [depth \in 0 .. Pool |->
                           [m \in Nodes |-> IF depth = 0 THEN <<>> ELSE Tree(g[depth - 1], m)]]
             down == CHOOSE g : g = Def_(g)
             V    == [Nodes -> Seq(Nodes)]
             base == [m \in Nodes |-> <<>>]
             step == [depth \in 1 .. Pool |-> [v \in V |-> Level(v)]]
  <1>1. ASSUME NEW B \in SUBSET Nodes, A \subseteq B, NEW v \in [Nodes -> Seq(Nodes)],
               \A k \in A : v[k] \in Seq(B), NEW m \in B
        PROVE  Tree(v, m) \in Seq(B)
    <2>1. kids[m] \in Seq(A) /\ Len(kids[m]) \in Nat /\ DOMAIN kids[m] = 1 .. Len(kids[m])
      OBVIOUS
    <2>2. [i \in DOMAIN kids[m] |-> v[kids[m][i]]] \in Seq(Seq(B))
      <3> DEFINE s == [i \in DOMAIN kids[m] |-> v[kids[m][i]]]
      <3>1. \A i \in 1 .. Len(kids[m]) : kids[m][i] \in A
        BY <2>1
      <3>2. s \in [1 .. Len(kids[m]) -> Seq(B)]
        BY <1>1, <2>1, <3>1
      <3> HIDE DEF s
      <3>3. s \in Seq(Seq(B))
        BY <2>1, <3>2, FunctionIsSeq
      <3>4. QED
        BY <3>3 DEF s
    <2>3. FlattenSeq([i \in DOMAIN kids[m] |-> v[kids[m][i]]]) \in Seq(B)
      BY <2>2, FlattenTyped
    <2>4. QED
      BY <2>3
  <1>2. ASSUME NEW v \in V PROVE Level(v) \in V
    BY <1>1
  <1>3. Pool \in Nat /\ base \in V /\ step \in [1 .. Pool -> [V -> V]]
    <2> HIDE DEF Level
    <2>1. base \in V
      OBVIOUS
    <2> HIDE DEF V, base
    <2>2. QED
      BY <1>2, <2>1, SizesAssumption
  <1>4. PICK f \in Iterations(Pool, V, base, step) : TRUE
    <2> HIDE DEF V, base, step
    <2> QED BY <1>3, Iterates
  <1>5. f = Def_(f)
    <2>1. f \in [0 .. Pool -> V] /\ f[0] = base
      <3> HIDE DEF V, base, step
      <3> QED BY <1>4 DEF Iterations
    <2>2. ASSUME NEW depth \in 1 .. Pool PROVE f[depth] = Level(f[depth - 1])
      <3>1. f[depth] = step[depth][f[depth - 1]] /\ f[depth - 1] \in V
        <4> HIDE DEF V, base, step
        <4> QED BY <1>3, <1>4 DEF Iterations
      <3>2. QED
        <4> HIDE DEF V, Level, Tree
        <4> QED BY <3>1
    <2>3. ASSUME NEW depth \in 0 .. Pool PROVE f[depth] = Def_(f)[depth]
      <3>1. CASE depth = 0
        BY <2>1, <3>1
      <3>2. CASE depth # 0
        <4>1. depth \in 1 .. Pool /\ f[depth] = Level(f[depth - 1])
          <5> HIDE DEF Level
          <5> QED BY <2>2, <3>2
        <4> HIDE DEF Tree
        <4>2. QED
          BY <4>1
      <3>3. QED
        BY <3>1, <3>2
    <2>4. QED
      <3> HIDE DEF V, base, step
      <3> QED BY <2>1, <2>3
  <1>6. down = Def_(down)
    <2> HIDE DEF Def_
    <2> QED BY <1>5, Zenon
  <1> HIDE DEF down
  <1> DEFINE Good == {depth \in 0 .. Pool : \A m \in Nodes :
                        down[depth][m] \in Seq(IF m \in A THEN A ELSE Nodes)}
  <1>7. 0 \in Good
    BY <1>3, <1>6
  <1>8. ASSUME NEW depth \in 1 .. Pool, depth - 1 \in Good PROVE depth \in Good
    <2>1. ASSUME NEW m \in Nodes PROVE down[depth][m] \in Seq(IF m \in A THEN A ELSE Nodes)
      <3> DEFINE B == IF m \in A THEN A ELSE Nodes
                 v == [k \in Nodes |-> down[depth - 1][k]]
      <3>0. B \in SUBSET Nodes /\ A \subseteq B /\ m \in B
        OBVIOUS
      <3>1. v \in [Nodes -> Seq(Nodes)] /\ \A k \in A : v[k] \in Seq(B)
        <4>1. \A k \in Nodes : down[depth - 1][k] \in Seq(IF k \in A THEN A ELSE Nodes)
          BY <1>8
        <4>2. ASSUME NEW k \in Nodes PROVE down[depth - 1][k] \in Seq(Nodes)
          <5>1. down[depth - 1][k] \in Seq(A) \/ down[depth - 1][k] \in Seq(Nodes)
            BY <4>1
          <5>2. QED
            BY <5>1, SeqOver
        <4>3. ASSUME NEW k \in A PROVE v[k] \in Seq(B)
          <5>1. k \in Nodes /\ v[k] = down[depth - 1][k] /\ v[k] \in Seq(A)
            BY <4>1
          <5> HIDE DEF v, B
          <5>2. QED
            BY <3>0, <5>1
        <4>4. QED
          BY <4>2, <4>3
      <3>2. [i \in DOMAIN kids[m] |-> v[kids[m][i]]]
              = [i \in DOMAIN kids[m] |-> down[depth - 1][kids[m][i]]]
        OBVIOUS
      <3>3. Tree(v, m) \in Seq(B)
        <4> HIDE DEF B, v, Tree
        <4>2. QED
          BY <1>1, <3>0, <3>1
      <3>4. down[depth][m] = Tree(down[depth - 1], m)
        <4>1. depth \in 0 .. Pool /\ depth # 0
          OBVIOUS
        <4>2. down[depth] = Def_(down)[depth]
          <5> HIDE DEF Def_
          <5> QED BY <1>6
        <4> HIDE DEF Tree
        <4>3. QED
          BY <4>1, <4>2
      <3>5. QED
        BY <3>2, <3>3, <3>4
    <2>2. QED
      BY <2>1
  <1>9. ASSUME NEW depth \in 0 .. Pool PROVE depth \in Good
    <2>1. \A x \in 1 .. Pool : x - 1 \in Good => x \in Good
      BY <1>8
    <2> HIDE DEF Good
    <2>2. 0 .. Pool \subseteq Good
      BY <1>3, <1>7, <2>1, UpTo, Zenon
    <2>3. QED
      BY <2>2
  <1>10. \A n \in Nodes : Walk(kids, n) = down[Pool][n]
    BY DEF Walk, down
  <1>11. \A m \in Nodes : down[0][m] = <<>>
    BY <1>3, <1>6
  <1>12. ASSUME NEW depth \in 1 .. Pool, NEW m \in Nodes
         PROVE  down[depth][m] = Tree(down[depth - 1], m)
    <2>1. depth \in 0 .. Pool /\ depth # 0
      OBVIOUS
    <2>2. down[depth] = Def_(down)[depth]
      <3> HIDE DEF Def_
      <3> QED BY <1>6
    <2> HIDE DEF Tree
    <2>3. QED
      BY <2>1, <2>2
  <1>13. \A depth \in 0 .. Pool, m \in Nodes :
           down[depth][m] \in Seq(IF m \in A THEN A ELSE Nodes)
    BY <1>9
  <1>14. Unfolds(kids, A, down)
    BY <1>10, <1>11, <1>12, <1>13 DEF Unfolds
  <1>15. QED
    BY <1>14

\* A walk meets only nodes that its root and the children are among.
LEMMA WalkTyped ==
  ASSUME NEW A \in SUBSET Nodes, NEW kids \in [Nodes -> Seq(A)], NEW n \in A
  PROVE  Walk(kids, n) \in Seq(A)
  <1>1. PICK down : Unfolds(kids, A, down)
    BY WalkUnfolds
  <1>2. Pool \in 0 .. Pool /\ n \in Nodes
    BY SizesAssumption
  <1>3. QED
    BY <1>1, <1>2 DEF Unfolds

-----------------------------------------------------------------------------
(* What the inductive invariant says of one document and one file.  A is   *)
(* the set of nodes minted so far.                                         *)

\* What a TreeDocument and a tree file are made of.
TreeDocs(A) ==
  [root : A, kids : [Nodes -> Seq(A)], field : [Nodes -> Seq(Nodes \cup {NoNode})],
   up : [Nodes -> Nodes \cup {NoNode}], label : [Nodes -> Nat], number : [Nodes -> Nat],
   known : SUBSET A, index : SUBSET (Nat \X Nodes), next : Nat \ {0}, version : Nat \ {0},
   unsynced : SUBSET Nodes]

TreeFiles(A) ==
  [kids : [Nodes -> Seq(A)], field : [Nodes -> Seq(Nodes \cup {NoNode})],
   number : [Nodes -> Nat], next : Nat \ {0}, unsynced : SUBSET Nodes]

\* No number stands for two nodes, and the next one for none.
Numbered(T) ==
  /\ \A n \in Nodes : T.number[n] < T.next
  /\ \A n, k \in Nodes : T.number[n] = T.number[k] /\ n # k => T.number[n] = NoNumber

\* short_id_index is a dict.
Functional(T) == \A e, f \in T.index : e[1] = f[1] => e = f

\* A field that a generator walks holds the children or nothing, on every node
\* and not on the live ones alone: a dead node comes back with its document.
Mirrors(T) == \A n \in Sequenced \ T.unsynced : Mirrored(T, n)

Sound(T, A) == T \in TreeDocs(A) /\ Numbered(T) /\ Functional(T)

\* What reindex leaves behind.
Indexed(T) ==
  /\ T.known = Under(T)
  /\ T.index = {<<T.number[n], n>> : n \in Under(T)}
  /\ \A n \in Under(T) : T.number[n] = T.label[n] /\ T.number[n] \in 1 .. T.next - 1

\* The same nodes under the same parents, rendered from the same fields.
SameTree(T, U) ==
  U.root = T.root /\ U.kids = T.kids /\ U.field = T.field /\ U.unsynced = T.unsynced

\* Some nodes were hung under p.
Hung(T, U, p) == \A n \in Nodes : U.up[n] \in {T.up[n], p}

\* T after an edit of the children of p alone, not committed.
Edited(T, U, p, A) ==
  /\ Sound(U, A)
  /\ U.root = T.root /\ U.field = T.field /\ U.unsynced = T.unsynced
  /\ \A n \in Nodes \ {p} : U.kids[n] = T.kids[n]

-----------------------------------------------------------------------------
(* The operators.                                                          *)

\* Nodes are finitely many numbers, and NoNode is none of them.
LEMMA NodesAre == NoNode \notin Nodes /\ Nodes \subseteq Nat /\ IsFiniteSet(Nodes)
  BY SizesAssumption, FS_Interval DEF Nodes, NoNode

\* The least of two numbers.
LEMMA MinTyped ==
  ASSUME NEW i \in Nat, NEW j \in Nat
  PROVE  Min({i, j}) = IF i <= j THEN i ELSE j
  BY DEF Min

\* A splice keeps the children on either side of what it cuts out.
LEMMA SpliceTyped ==
  ASSUME NEW S, NEW s \in Seq(S), NEW i \in Nat, NEW j \in Nat, NEW new \in Seq(S)
  PROVE  /\ Splice(s, i, j, new) \in Seq(S)
         /\ i = j /\ i <= Len(s) => ToSet(s) \subseteq ToSet(Splice(s, i, j, new))
  <1> DEFINE m == Min({i, Len(s)})
             l == SubSeq(s, 1, m)
             r == SubSeq(s, j + 1, Len(s))
  <1>1. m \in 0 .. Len(s) /\ (i <= Len(s) => m = i)
    BY MinTyped
  <1>2. l \in Seq(S) /\ Len(l) = m /\ \A k \in 1 .. m : l[k] = s[k]
    <2> HIDE DEF m
    <2> QED BY <1>1
  <1>3. r \in Seq(S) /\ Len(r) = (IF j <= Len(s) THEN Len(s) - j ELSE 0)
        /\ \A k \in 1 .. Len(r) : r[k] = s[j + k]
    OBVIOUS
  <1> DEFINE u == l \o new \o r
  <1>4. u \in Seq(S)
    <2> HIDE DEF l, r
    <2> QED BY <1>2, <1>3
  <1>5. ASSUME i = j, i <= Len(s), NEW k \in 1 .. Len(s)
        PROVE  \E x \in 1 .. Len(u) : u[x] = s[k]
    <2>1. CASE k <= m
      <3> HIDE DEF l, r, m
      <3>1. u[k] = s[k] /\ k \in 1 .. Len(u)
        BY <1>1, <1>2, <1>3, <2>1
      <3>2. QED
        BY <3>1
    <2>2. CASE ~(k <= m)
      <3>1. Len(l) = j /\ Len(r) = Len(s) - j /\ r[k - j] = s[k] /\ k - j \in 1 .. Len(r)
        <4> HIDE DEF l, r, m
        <4> QED BY <1>1, <1>2, <1>3, <1>5, <2>2
      <3> HIDE DEF l, r, m
      <3>2. u[Len(new) + k] = s[k] /\ Len(new) + k \in 1 .. Len(u)
        BY <1>1, <1>2, <1>3, <1>5, <3>1
      <3>3. QED
        BY <3>2
    <2>3. QED
      BY <2>1, <2>2
  <1>6. Splice(s, i, j, new) = u
    BY DEF Splice
  <1> HIDE DEF u
  <1>7. QED
    BY <1>4, <1>5, <1>6 DEF ToSet

\* PlaceOf finds an element that is there.
LEMMA PlaceIsIn ==
  ASSUME NEW s, NEW n \in ToSet(s)
  PROVE  PlaceOf(s, n) \in DOMAIN s /\ s[PlaceOf(s, n)] = n
  BY DEF PlaceOf, ToSet

\* A tree is walked within its own nodes.
LEMMA UnderTyped ==
  ASSUME NEW A \in SUBSET Nodes, NEW T, T.root \in A, T.kids \in [Nodes -> Seq(A)]
  PROVE  /\ Walk(T.kids, T.root) \in Seq(A) /\ Under(T) \subseteq A
         /\ \A roots \in Seq(A) : Walked(T, roots) \in Seq(A) /\ Fragment(T, roots) \subseteq A
  <1>1. Walk(T.kids, T.root) \in Seq(A)
    BY WalkTyped
  <1>2. ASSUME NEW roots \in Seq(A) PROVE Walked(T, roots) \in Seq(A)
    <2> DEFINE ss == [i \in DOMAIN roots |-> Walk(T.kids, roots[i])]
    <2>1. ASSUME NEW i \in 1 .. Len(roots) PROVE Walk(T.kids, roots[i]) \in Seq(A)
      <3>1. roots[i] \in A
        OBVIOUS
      <3>2. QED
        BY <3>1, WalkTyped
    <2>2. ss \in [1 .. Len(roots) -> Seq(A)] /\ Len(roots) \in Nat
      BY <2>1
    <2> HIDE DEF ss
    <2>3. ss \in Seq(Seq(A))
      BY <2>2, FunctionIsSeq
    <2>4. FlattenSeq(ss) \in Seq(A)
      BY <2>3, FlattenTyped
    <2>5. QED
      BY <2>4 DEF ss, Walked
  <1>3. QED
    BY <1>1, <1>2 DEF Under, Fragment, ToSet

\* Registering the nodes of a fragment changes the two indexes only, and the
\* number of each of them names one of them.
LEMMA RegisteredSound ==
  ASSUME NEW A \in SUBSET Nodes, NEW T, Sound(T, A), NEW new \in Seq(A),
         NEW R, R = Registered(T, new)
  PROVE  Sound(R, A) /\ SameTree(T, R) /\ R.up = T.up
  <1> DEFINE last == {i \in DOMAIN new :
                        \A k \in i + 1 .. Len(new) : T.label[new[k]] # T.label[new[i]]}
             old == {e \in T.index : \A n \in ToSet(new) : T.label[n] # e[1]}
             come == {<<T.label[new[i]], new[i]>> :
                        i \in {k \in last : T.label[new[k]] # NoNumber}}
  <1>0. T \in TreeDocs(A) /\ Functional(T) /\ Numbered(T)
    BY DEF Sound
  <1>1. R = [T EXCEPT !.known = T.known \cup ToSet(new), !.index = old \cup come]
    BY <1>0 DEF Registered, TreeDocs
  <1>2. ToSet(new) \subseteq A
    BY DEF ToSet
  <1>3. old \subseteq Nat \X Nodes /\ come \subseteq Nat \X Nodes
    BY <1>0 DEF TreeDocs
  <1>4. R \in TreeDocs(A)
    <2>1. old \cup come \in SUBSET (Nat \X Nodes) /\ T.known \cup ToSet(new) \in SUBSET A
      BY <1>0, <1>2, <1>3 DEF TreeDocs
    <2> HIDE DEF old, come
    <2>2. QED
      BY <1>0, <1>1, <2>1 DEF TreeDocs
  <1>5. /\ R.root = T.root /\ R.kids = T.kids /\ R.field = T.field /\ R.up = T.up
        /\ R.unsynced = T.unsynced /\ R.number = T.number /\ R.next = T.next
        /\ R.label = T.label /\ R.index = old \cup come
    <2> HIDE DEF old, come
    <2> QED BY <1>0, <1>1 DEF TreeDocs
  <1>6. ASSUME NEW e \in old \cup come, NEW f \in old \cup come, e[1] = f[1]
        PROVE  e = f
    <2>1. ASSUME NEW x \in come
          PROVE  \E i \in last : x = <<T.label[new[i]], new[i]>>
      OBVIOUS
    <2>2. CASE e \in old /\ f \in old
      BY <1>0, <1>6, <2>2 DEF Functional
    <2>3. ASSUME NEW x \in old, NEW y \in come, x[1] = y[1] PROVE FALSE
      <3>1. PICK i \in DOMAIN new : y = <<T.label[new[i]], new[i]>>
        BY <2>1
      <3>2. new[i] \in ToSet(new) /\ y[1] = T.label[new[i]]
        BY <3>1 DEF ToSet
      <3>3. QED
        BY <2>3, <3>2
    <2>4. CASE e \in come /\ f \in come
      <3>1. PICK i \in last : e = <<T.label[new[i]], new[i]>>
        BY <2>1, <2>4
      <3>2. PICK k \in last : f = <<T.label[new[k]], new[k]>>
        BY <2>1, <2>4
      <3>3. i \in 1 .. Len(new) /\ k \in 1 .. Len(new) /\ T.label[new[i]] = T.label[new[k]]
        BY <1>6, <3>1, <3>2
      <3>4. ~(k \in i + 1 .. Len(new)) /\ ~(i \in k + 1 .. Len(new))
        BY <3>3
      <3>5. i = k
        BY <3>3, <3>4
      <3>6. QED
        BY <3>1, <3>2, <3>5
    <2>5. QED
      <3> HIDE DEF old, come
      <3> QED BY <1>6, <2>2, <2>3, <2>4
  <1>7. Numbered(R) /\ Functional(R)
    <2> HIDE DEF old, come
    <2> QED BY <1>0, <1>5, <1>6 DEF Numbered, Functional
  <1>8. QED
    BY <1>4, <1>5, <1>7 DEF Sound, SameTree

\* Unregistering nodes takes entries away and cuts them from their parent.
LEMMA UnregisteredSound ==
  ASSUME NEW A \in SUBSET Nodes, NEW T, Sound(T, A), NEW roots \in Seq(A),
         NEW R, R = Unregistered(T, roots)
  PROVE  Sound(R, A) /\ SameTree(T, R) /\ Hung(T, R, NoNode)
  <1> DEFINE F == Fragment(T, roots)
             I == {e \in T.index : \A n \in F : T.label[n] # e[1]}
             g == [n \in Nodes |-> IF n \in ToSet(roots) THEN NoNode ELSE T.up[n]]
  <1>0. T \in TreeDocs(A) /\ Functional(T) /\ Numbered(T)
    BY DEF Sound
  <1>1. R = [T EXCEPT !.known = T.known \ F, !.index = I, !.up = g]
    BY <1>0 DEF Unregistered, TreeDocs
  <1>2. I \in SUBSET (Nat \X Nodes) /\ T.known \ F \in SUBSET A /\ I \subseteq T.index
        /\ g \in [Nodes -> Nodes \cup {NoNode}]
    BY <1>0 DEF TreeDocs
  <1>3. \A n \in Nodes : g[n] \in {T.up[n], NoNode}
    OBVIOUS
  <1> HIDE DEF F, I, g
  <1>4. R \in TreeDocs(A)
    BY <1>0, <1>1, <1>2 DEF TreeDocs
  <1>5. /\ R.root = T.root /\ R.kids = T.kids /\ R.field = T.field /\ R.up = g
        /\ R.unsynced = T.unsynced /\ R.number = T.number /\ R.next = T.next
        /\ R.label = T.label /\ R.index = I
    BY <1>0, <1>1 DEF TreeDocs
  <1>6. Numbered(R) /\ Functional(R)
    BY <1>0, <1>2, <1>5 DEF Numbered, Functional
  <1>7. QED
    BY <1>3, <1>4, <1>5, <1>6 DEF Sound, SameTree, Hung

\* The preflight's numbers go to the labels; the map's counter runs ahead.
LEMMA LabelledSound ==
  ASSUME NEW A \in SUBSET Nodes, NEW T, Sound(T, A), NEW fresh \in Seq(A),
         NEW R, R = Labelled(T, fresh)
  PROVE  Sound(R, A) /\ SameTree(T, R) /\ R.up = T.up
  <1> DEFINE g == [n \in Nodes |-> IF n \in ToSet(fresh)
                                   THEN T.next + PlaceOf(fresh, n) - 1 ELSE T.label[n]]
  <1>0. T \in TreeDocs(A) /\ Functional(T) /\ Numbered(T)
    BY DEF Sound
  <1>1. R = [T EXCEPT !.label = g, !.next = T.next + Len(fresh)]
    BY <1>0 DEF Labelled, TreeDocs
  <1>2. g \in [Nodes -> Nat]
    <2>1. ASSUME NEW n \in Nodes PROVE g[n] \in Nat
      <3>1. CASE n \in ToSet(fresh)
        <4>1. PlaceOf(fresh, n) \in 1 .. Len(fresh) /\ T.next \in Nat
          BY <1>0, <3>1, PlaceIsIn DEF TreeDocs
        <4>2. QED
          BY <3>1, <4>1
      <3>2. CASE n \notin ToSet(fresh)
        BY <1>0, <3>2 DEF TreeDocs
      <3>3. QED
        BY <3>1, <3>2
    <2>2. QED
      BY <2>1
  <1>3. T.next + Len(fresh) \in Nat \ {0} /\ T.next <= T.next + Len(fresh) /\ T.next \in Nat
    BY <1>0 DEF TreeDocs
  <1> HIDE DEF g
  <1>4. R \in TreeDocs(A)
    BY <1>0, <1>1, <1>2, <1>3 DEF TreeDocs
  <1>5. /\ R.root = T.root /\ R.kids = T.kids /\ R.field = T.field /\ R.up = T.up
        /\ R.unsynced = T.unsynced /\ R.number = T.number /\ R.next = T.next + Len(fresh)
        /\ R.index = T.index
    BY <1>0, <1>1 DEF TreeDocs
  <1>6. Numbered(R) /\ Functional(R)
    <2>1. \A n \in Nodes : T.number[n] \in Nat
      BY <1>0 DEF TreeDocs
    <2>2. QED
      BY <1>0, <1>3, <1>5, <2>1 DEF Numbered, Functional
  <1>7. QED
    BY <1>4, <1>5, <1>6 DEF Sound, SameTree

\* Adopted nodes have p for their parent; nothing else changes.
LEMMA AdoptedSound ==
  ASSUME NEW A \in SUBSET Nodes, NEW T, Sound(T, A), NEW roots, NEW p \in Nodes,
         NEW R, R = Adopted(T, p, roots)
  PROVE  Sound(R, A) /\ SameTree(T, R) /\ Hung(T, R, p)
  <1> DEFINE g == [n \in Nodes |-> IF n \in ToSet(roots) THEN p ELSE T.up[n]]
  <1>0. T \in TreeDocs(A) /\ Functional(T) /\ Numbered(T)
    BY DEF Sound
  <1>1. R = [T EXCEPT !.up = g]
    BY <1>0 DEF Adopted, TreeDocs
  <1>2. g \in [Nodes -> Nodes \cup {NoNode}] /\ \A n \in Nodes : g[n] \in {T.up[n], p}
    BY <1>0 DEF TreeDocs
  <1> HIDE DEF g
  <1>3. R \in TreeDocs(A)
    BY <1>0, <1>1, <1>2 DEF TreeDocs
  <1>4. /\ R.root = T.root /\ R.kids = T.kids /\ R.field = T.field /\ R.up = g
        /\ R.unsynced = T.unsynced /\ R.number = T.number /\ R.next = T.next
        /\ R.index = T.index
    BY <1>0, <1>1 DEF TreeDocs
  <1>5. QED
    BY <1>0, <1>2, <1>3, <1>4 DEF Sound, SameTree, Hung, Numbered, Functional

\* New children below p are all that changes.
LEMMA RehungSound ==
  ASSUME NEW A \in SUBSET Nodes, NEW T, Sound(T, A), NEW p \in Nodes, NEW s \in Seq(A),
         NEW R, R = [T EXCEPT !.kids[p] = s]
  PROVE  Edited(T, R, p, A) /\ R.up = T.up
  <1> DEFINE k == [T.kids EXCEPT ![p] = s]
  <1>0. T \in TreeDocs(A) /\ Functional(T) /\ Numbered(T)
    BY DEF Sound
  <1>2. k \in [Nodes -> Seq(A)] /\ k[p] = s /\ \A n \in Nodes \ {p} : k[n] = T.kids[n]
    BY <1>0 DEF TreeDocs
  <1>3. R = [T EXCEPT !.kids = k]
    BY <1>0 DEF TreeDocs
  <1> HIDE DEF k
  <1>4. /\ R \in TreeDocs(A)
        /\ R.root = T.root /\ R.kids = k /\ R.field = T.field /\ R.up = T.up
        /\ R.unsynced = T.unsynced /\ R.number = T.number /\ R.next = T.next
        /\ R.index = T.index
    BY <1>0, <1>2, <1>3 DEF TreeDocs
  <1>5. QED
    BY <1>0, <1>2, <1>4 DEF Sound, Edited, Numbered, Functional

-----------------------------------------------------------------------------
(* The edits.                                                              *)

\* Every address a command may be given, an index moved on included.
Ats == [how : Hows, node : Nodes, index : Nat]

\* An address of a place among the children of p.
Addresses(T, at, p) ==
  /\ at \in Ats /\ p \in Nodes /\ ParentAt(T, at) = p
  /\ Beside(at) => at.node \in ToSet(T.kids[p])

\* A place is among the children or after the last.
LEMMA SpotTyped ==
  ASSUME NEW A \in SUBSET Nodes, NEW T \in TreeDocs(A), NEW at, NEW p, Addresses(T, at, p)
  PROVE  Spot(T, at) \in 0 .. Len(T.kids[p])
  <1> DEFINE s == T.kids[p]
  <1>1. s \in Seq(A) /\ Len(s) \in Nat /\ DOMAIN s = 1 .. Len(s)
    BY DEF TreeDocs, Addresses
  <1>2. at.how \in Hows /\ at.index \in Nat /\ ParentAt(T, at) = p
    BY DEF Addresses, Ats
  <1> HIDE DEF s
  <1>3. CASE at.how = "first_child"
    BY <1>1, <1>2, <1>3 DEF Spot, s
  <1>4. CASE at.how = "last_child"
    BY <1>1, <1>2, <1>4 DEF Spot, s
  <1>5. CASE at.how = "child_index"
    <2>1. Spot(T, at) = Min({at.index, Len(s)})
      BY <1>2, <1>5 DEF Spot, s
    <2>2. QED
      BY <1>1, <1>2, <2>1, MinTyped DEF s
  <1>6. CASE at.how \in {"before", "after"}
    <2>1. PlaceOf(s, at.node) \in 1 .. Len(s)
      BY <1>1, <1>6, PlaceIsIn DEF Addresses, Beside, s
    <2>2. Spot(T, at) \in {PlaceOf(s, at.node) - 1, PlaceOf(s, at.node)}
      BY <1>2, <1>6 DEF Spot, s
    <2>3. QED
      BY <1>1, <2>1, <2>2 DEF s
  <1>7. QED
    BY <1>2, <1>3, <1>4, <1>5, <1>6 DEF Hows

\* Some consecutive children, as they once were.
Cuts(A) == {r \in [of : A, from : Nat \ {0}, to : Nat] : r.from <= r.to}

\* Some of the children there are.
Cutting(T, r, A) == r \in Cuts(A) /\ r.to <= Len(T.kids[r.of])

\* The nodes of a run are nodes.
LEMMA RunTyped ==
  ASSUME NEW A \in SUBSET Nodes, NEW T \in TreeDocs(A), NEW r, Cutting(T, r, A)
  PROVE  Run(T, r) \in Seq(A) /\ Run(T, r) # <<>>
  <1> DEFINE s == T.kids[r.of]
  <1>1. s \in Seq(A) /\ r.from \in Nat /\ r.from >= 1 /\ r.to \in Nat
        /\ r.from <= r.to /\ r.to <= Len(s)
    BY DEF TreeDocs, Cuts, Cutting
  <1> HIDE DEF s
  <1>2. SubSeq(s, r.from, r.to) \in Seq(A) /\ SubSeq(s, r.from, r.to) # <<>>
    <2>1. PICK i, j : i = r.from /\ j = r.to
      OBVIOUS
    <2>2. SubSeq(s, i, j) \in Seq(A)
      BY <1>1, <2>1
    <2>3. Len(SubSeq(s, i, j)) # 0
      BY <1>1, <2>1
    <2>4. QED
      BY <2>1, <2>2, <2>3
  <1>3. QED
    BY <1>2 DEF Run, s

\* Two edits below one parent are one.
LEMMA EditedTwice ==
  ASSUME NEW A, NEW T, NEW U, NEW W, NEW p, Edited(T, U, p, A), Edited(U, W, p, A)
  PROVE  Edited(T, W, p, A)
  BY DEF Edited

\* operations.insert changes the children of the parent it is given alone, and
\* keeps those it has.
LEMMA Insert1Sound ==
  ASSUME NEW A \in SUBSET Nodes, NEW T, Sound(T, A), NEW n \in A, NEW at, NEW p,
         Addresses(T, at, p)
  PROVE  LET R == Insert1(T, n, at) IN
         Edited(T, R, p, A) /\ Addresses(R, at, p)
  <1>i. PICK i : i = Spot(T, at)
    OBVIOUS
  <1>w. PICK w : w = <<n>>
    OBVIOUS
  <1>b. PICK B : B = Labelled(T, w)
    OBVIOUS
  <1>l. PICK L : L = Adopted(B, p, w)
    OBVIOUS
  <1>c. PICK c : c = Splice(L.kids[p], i, i, w)
    OBVIOUS
  <1>s. PICK S : S = [L EXCEPT !.kids[p] = c]
    OBVIOUS
  <1>r. PICK W : W = Registered(S, w)
    OBVIOUS
  <1>0. T \in TreeDocs(A) /\ p \in Nodes /\ at \in Ats /\ w \in Seq(A)
    BY <1>w DEF Sound, Addresses
  <1>1. i \in 0 .. Len(T.kids[p]) /\ i \in Nat /\ T.kids[p] \in Seq(A)
    <2>1. Len(T.kids[p]) \in Nat /\ T.kids[p] \in Seq(A)
      BY <1>0 DEF TreeDocs
    <2>2. QED
      BY <1>0, <1>i, <2>1, SpotTyped
  <1>2. Insert1(T, n, at) = W
    BY <1>i, <1>w, <1>b, <1>l, <1>c, <1>s, <1>r DEF Insert1, Addresses
  <1>3. Sound(B, A) /\ SameTree(T, B) /\ B.up = T.up
    BY <1>0, <1>b, LabelledSound
  <1>4. Sound(L, A) /\ SameTree(B, L) /\ Hung(B, L, p)
    BY <1>0, <1>3, <1>l, AdoptedSound
  <1>5. Edited(L, S, p, A) /\ S.kids[p] = c /\ S.up = L.up
    <2>1. c \in Seq(A)
      BY <1>0, <1>1, <1>3, <1>4, <1>c, SpliceTyped DEF SameTree
    <2>2. Edited(L, S, p, A)
      BY <1>0, <1>4, <1>s, <2>1, RehungSound
    <2>3. S.up = L.up
      BY <1>0, <1>4, <1>s, <2>1, RehungSound
    <2>4. S.kids[p] = c
      BY <1>0, <1>4, <1>s DEF Sound, TreeDocs
    <2>5. QED
      BY <2>2, <2>3, <2>4
  <1>6. Sound(S, A)
    BY <1>5 DEF Edited
  <1>7. Sound(W, A) /\ SameTree(S, W) /\ W.up = S.up
    BY <1>0, <1>6, <1>r, RegisteredSound
  <1>8. Edited(T, W, p, A)
    BY <1>3, <1>4, <1>5, <1>7 DEF Edited, SameTree
  <1>9. ToSet(T.kids[p]) \subseteq ToSet(W.kids[p])
    <2>1. i <= Len(T.kids[p])
      BY <1>1
    <2>2. ToSet(T.kids[p]) \subseteq ToSet(Splice(T.kids[p], i, i, w))
      BY <1>0, <1>1, <2>1, SpliceTyped, Zenon
    <2>3. QED
      BY <1>3, <1>4, <1>5, <1>7, <1>c, <2>2 DEF SameTree
  <1>10. \A k \in Nodes : W.up[k] \in {T.up[k], p}
    BY <1>3, <1>4, <1>5, <1>7 DEF Hung
  <1>11. Addresses(W, at, p)
    BY <1>0, <1>9, <1>10 DEF Addresses, ParentAt, Ats
  <1>12. QED
    BY <1>2, <1>8, <1>11

\* The address that the k-th node of an insertion is given.
Onward(at, k) == [at EXCEPT !.index = @ + k - 1]

\* It is an address like the first.
LEMMA OnwardTyped ==
  ASSUME NEW at \in Ats, NEW k \in Nat \ {0}
  PROVE  Onward(at, k) \in Ats /\ Onward(at, k).how = at.how /\ Onward(at, k).node = at.node
  <1>1. at.how \in Hows /\ at.node \in Nodes /\ at.index + k - 1 \in Nat
    BY DEF Ats
  <1>2. Onward(at, k) = [how |-> at.how, node |-> at.node, index |-> at.index + k - 1]
    BY DEF Ats, Onward
  <1>3. QED
    BY <1>1, <1>2 DEF Ats

\* What a document is after each node of an insertion.
Insertions(T, order, at, p, A, after) ==
  /\ after[0] = T /\ after[Len(order)] = InsertEach(T, order, at)
  /\ \A k \in 1 .. Len(order) : after[k] = Insert1(after[k - 1], order[k], Onward(at, k))
  /\ \A k \in 0 .. Len(order) : Edited(T, after[k], p, A) /\ Addresses(after[k], at, p)

\* The nodes go in one after another.
LEMMA InsertUnfolds ==
  ASSUME NEW A \in SUBSET Nodes, NEW T, Sound(T, A), NEW order \in Seq(A), NEW at, NEW p,
         Addresses(T, at, p)
  PROVE  \E after : Insertions(T, order, at, p, A, after)
  <1> DEFINE N == Len(order)
             Next_(U, k) == Insert1(U, order[k], Onward(at, k))
             Def_(g) == [k \in 0 .. N |-> IF k = 0 THEN T ELSE Next_(g[k - 1], k)]
             after == CHOOSE g : g = Def_(g)
             V == {U \in TreeDocs(A) : Edited(T, U, p, A) /\ Addresses(U, at, p)}
             step == [k \in 1 .. N |-> [U \in V |-> Next_(U, k)]]
  <1>0. N \in Nat /\ at \in Ats
    BY DEF Addresses
  <1>1. T \in V
    BY DEF Sound, Edited
  <1>2. ASSUME NEW U \in V, NEW k \in 1 .. N PROVE Next_(U, k) \in V
    <2> DEFINE ak == Onward(at, k)
    <2>1. ak \in Ats /\ ak.how = at.how /\ ak.node = at.node
      BY <1>0, OnwardTyped
    <2> HIDE DEF ak
    <2>2. Sound(U, A) /\ order[k] \in A /\ Addresses(U, ak, p)
      BY <1>0, <2>1 DEF Edited, Addresses, ParentAt, Beside
    <2> DEFINE R == Insert1(U, order[k], ak)
    <2>3. Edited(U, R, p, A) /\ Addresses(R, ak, p)
      BY <2>2, Insert1Sound
    <2> HIDE DEF R
    <2>4. Edited(T, R, p, A) /\ Addresses(R, at, p) /\ R \in TreeDocs(A)
      BY <1>0, <2>1, <2>3 DEF Edited, Addresses, ParentAt, Beside, Sound
    <2>5. QED
      BY <2>4 DEF R, ak
  <1> HIDE DEF Next_, V
  <1>3. step \in [1 .. N -> [V -> V]]
    BY <1>2
  <1>4. PICK f \in Iterations(N, V, T, step) : TRUE
    <2> HIDE DEF step, N
    <2> QED BY <1>0, <1>1, <1>3, Iterates
  <1>5. f \in [0 .. N -> V] /\ f[0] = T /\ \A k \in 1 .. N : f[k] = step[k][f[k - 1]]
    <2> HIDE DEF step
    <2> QED BY <1>4 DEF Iterations
  <1>6. \E g : g = Def_(g)
    <2>1. ASSUME NEW k \in 1 .. N PROVE f[k] = Next_(f[k - 1], k)
      <3>1. f[k - 1] \in V
        BY <1>5
      <3>2. f[k] = step[k][f[k - 1]]
        <4> HIDE DEF step
        <4> QED BY <1>5
      <3>3. QED
        BY <3>1, <3>2
    <2>2. f = Def_(f)
      <3> HIDE DEF step
      <3> QED BY <1>5, <2>1
    <2> HIDE DEF Def_
    <2>3. QED
      BY <2>2
  <1>7. after = Def_(after)
    <2> HIDE DEF Def_
    <2> QED BY <1>6, Zenon
  <1> HIDE DEF after
  <1> DEFINE Good == {k \in 0 .. N : after[k] \in V}
  <1>8. 0 \in Good
    BY <1>0, <1>1, <1>7
  <1>9. ASSUME NEW k \in 1 .. N, k - 1 \in Good PROVE k \in Good
    <2>1. k \in 0 .. N /\ k # 0 /\ after[k] = Def_(after)[k]
      <3> HIDE DEF Def_
      <3> QED BY <1>7
    <2>2. after[k] = Next_(after[k - 1], k)
      BY <2>1
    <2>3. QED
      BY <1>2, <1>9, <2>1, <2>2
  <1>a. \A k \in 1 .. N : after[k] = Next_(after[k - 1], k)
    <2>1. ASSUME NEW k \in 1 .. N PROVE after[k] = Next_(after[k - 1], k)
      <3>1. k \in 0 .. N /\ k # 0 /\ after[k] = Def_(after)[k]
        <4> HIDE DEF Def_
        <4> QED BY <1>7
      <3>2. QED
        BY <3>1
    <2>2. QED
      BY <2>1
  <1>b. after[0] = T
    BY <1>0, <1>7
  <1>10. \A k \in 0 .. N : after[k] \in V
    <2>1. \A k \in 1 .. N : k - 1 \in Good => k \in Good
      BY <1>9
    <2> HIDE DEF Good
    <2>2. 0 .. N \subseteq Good
      BY <1>0, <1>8, <2>1, UpTo, Zenon
    <2>3. QED
      BY <1>0, <2>2 DEF Good
  <1>11. InsertEach(T, order, at) = after[N]
    BY DEF InsertEach, after, Next_, Onward
  <1>12. Insertions(T, order, at, p, A, after)
    BY <1>a, <1>b, <1>10, <1>11 DEF V, Next_, Insertions
  <1>13. QED
    BY <1>12

\* ... below one parent.
LEMMA InsertEachSound ==
  ASSUME NEW A \in SUBSET Nodes, NEW T, Sound(T, A), NEW order \in Seq(A), NEW at, NEW p,
         Addresses(T, at, p)
  PROVE  Edited(T, InsertEach(T, order, at), p, A)
  <1>1. PICK after : Insertions(T, order, at, p, A, after)
    BY InsertUnfolds
  <1>2. Len(order) \in 0 .. Len(order)
    OBVIOUS
  <1>3. QED
    BY <1>1, <1>2 DEF Insertions

\* facade.insert, in whichever order it takes the nodes.
LEMMA InsertAllSound ==
  ASSUME NEW A \in SUBSET Nodes, NEW T, Sound(T, A), NEW fresh \in Seq(A), NEW at, NEW p,
         Addresses(T, at, p)
  PROVE  Edited(T, InsertAll(T, fresh, at), p, A)
  <1>1. Reverse(fresh) \in Seq(A)
    BY DEF Reverse
  <1>2. QED
    BY <1>1, InsertEachSound DEF InsertAll

\* operations.delete changes the children of the parent of the run.
LEMMA DeletedSound ==
  ASSUME NEW A \in SUBSET Nodes, NEW T, Sound(T, A), NEW r, Cutting(T, r, A)
  PROVE  Edited(T, Deleted(T, r), r.of, A)
  <1>p. PICK p : p = r.of
    OBVIOUS
  <1>c. PICK c : c = Splice(T.kids[p], r.from - 1, r.to, <<>>)
    OBVIOUS
  <1>s. PICK S : S = [T EXCEPT !.kids[p] = c]
    OBVIOUS
  <1>o. PICK out : out = Run(T, r)
    OBVIOUS
  <1>r. PICK W : W = Unregistered(S, out)
    OBVIOUS
  <1>0. T \in TreeDocs(A) /\ p \in Nodes /\ T.kids[p] \in Seq(A)
    BY <1>p DEF Sound, Cuts, Cutting, TreeDocs
  <1>1. Deleted(T, r) = W
    BY <1>p, <1>c, <1>s, <1>o, <1>r DEF Deleted
  <1>2. c \in Seq(A)
    <2>1. r.from - 1 \in Nat /\ r.to \in Nat /\ <<>> \in Seq(A)
      BY DEF Cuts, Cutting
    <2>2. QED
      BY <1>0, <1>c, <2>1, SpliceTyped
  <1>3. Edited(T, S, p, A)
    BY <1>0, <1>2, <1>s, RehungSound
  <1>4. Sound(S, A) /\ out \in Seq(A)
    BY <1>0, <1>3, <1>o, RunTyped DEF Edited
  <1>5. Sound(W, A) /\ SameTree(S, W)
    BY <1>4, <1>r, UnregisteredSound
  <1>6. QED
    BY <1>p, <1>1, <1>3, <1>5 DEF Edited, SameTree

\* operations.replace_range does, too.
LEMMA ReplacedSound ==
  ASSUME NEW A \in SUBSET Nodes, NEW T, Sound(T, A), NEW r, Cutting(T, r, A),
         NEW fresh \in Seq(A)
  PROVE  Edited(T, Replaced(T, r, fresh), r.of, A)
  <1>p. PICK p : p = r.of
    OBVIOUS
  <1>b. PICK B : B = Labelled(T, fresh)
    OBVIOUS
  <1>l. PICK L : L = Adopted(B, p, fresh)
    OBVIOUS
  <1>c. PICK c : c = Splice(L.kids[p], r.from - 1, r.to, fresh)
    OBVIOUS
  <1>s. PICK S : S = [L EXCEPT !.kids[p] = c]
    OBVIOUS
  <1>o. PICK out : out = Run(T, r)
    OBVIOUS
  <1>u. PICK U : U = Unregistered(S, out)
    OBVIOUS
  <1>r. PICK W : W = Registered(U, fresh)
    OBVIOUS
  <1>0. T \in TreeDocs(A) /\ p \in Nodes
    BY <1>p DEF Sound, Cuts, Cutting
  <1>1. Replaced(T, r, fresh) = W
    BY <1>p, <1>b, <1>l, <1>c, <1>s, <1>o, <1>u, <1>r DEF Replaced
  <1>2. Sound(B, A) /\ SameTree(T, B)
    BY <1>b, LabelledSound
  <1>3. Sound(L, A) /\ SameTree(B, L)
    BY <1>0, <1>2, <1>l, AdoptedSound
  <1>4. c \in Seq(A)
    <2>1. r.from - 1 \in Nat /\ r.to \in Nat
      BY DEF Cuts, Cutting
    <2>2. L.kids[p] \in Seq(A)
      BY <1>0, <1>3 DEF Sound, TreeDocs
    <2>3. QED
      BY <1>c, <2>1, <2>2, SpliceTyped
  <1>5. Edited(L, S, p, A)
    BY <1>0, <1>3, <1>4, <1>s, RehungSound
  <1>6. Sound(S, A) /\ out \in Seq(A)
    BY <1>0, <1>5, <1>o, RunTyped DEF Edited
  <1>7. Sound(U, A) /\ SameTree(S, U)
    BY <1>6, <1>u, UnregisteredSound
  <1>8. Sound(W, A) /\ SameTree(U, W)
    BY <1>7, <1>r, RegisteredSound
  <1>9. QED
    BY <1>p, <1>1, <1>2, <1>3, <1>5, <1>7, <1>8 DEF Edited, SameTree

\* A body is emptied and filled below one parent.
LEMMA RebodiedSound ==
  ASSUME NEW A \in SUBSET Nodes, NEW T, Sound(T, A), NEW p \in A, NEW fresh \in Seq(A)
  PROVE  Edited(T, Rebodied(T, p, fresh), p, A)
  <1>b. PICK bare : bare = IF Some(T.kids[p]) THEN Deleted(T, Body(T, p)) ELSE T
    OBVIOUS
  <1>a. PICK at : at = [how |-> "last_child", node |-> p, index |-> 0]
    OBVIOUS
  <1>1. Edited(T, bare, p, A)
    <2>1. CASE Some(T.kids[p])
      <3>1. T.kids[p] \in Seq(A)
        BY DEF Sound, TreeDocs
      <3>2. Len(T.kids[p]) \in Nat /\ 1 <= Len(T.kids[p])
        BY <2>1, <3>1 DEF Some
      <3>3. Cutting(T, Body(T, p), A) /\ Body(T, p).of = p
        BY <3>2 DEF Body, Cuts, Cutting
      <3>4. QED
        BY <1>b, <2>1, <3>3, DeletedSound
    <2>2. CASE ~Some(T.kids[p])
      BY <1>b, <2>2 DEF Edited
    <2>3. QED
      BY <2>1, <2>2
  <1>2. Sound(bare, A) /\ Addresses(bare, at, p)
    BY <1>a, <1>1 DEF Edited, Addresses, Ats, Hows, ParentAt, Beside
  <1>3. Edited(bare, InsertAll(bare, fresh, at), p, A)
    BY <1>2, InsertAllSound
  <1>4. Rebodied(T, p, fresh) = InsertAll(bare, fresh, at)
    BY <1>a, <1>b DEF Rebodied
  <1>5. QED
    BY <1>1, <1>3, <1>4, EditedTwice

-----------------------------------------------------------------------------
(* Reindexing.                                                             *)

\* The nodes of a set have different ranks, all below its size.
LEMMA RanksDiffer ==
  ASSUME NEW walk \in Seq(Nodes), NEW S \in SUBSET ToSet(walk), IsFiniteSet(S)
  PROVE  /\ Cardinality(S) \in Nat
         /\ \A n \in S : Rank(walk, S, n) \in Nat /\ Rank(walk, S, n) < Cardinality(S)
         /\ \A n, k \in S : Rank(walk, S, n) = Rank(walk, S, k) => n = k
  <1> DEFINE Before(n) == {k \in S : PlaceOf(walk, k) < PlaceOf(walk, n)}
  <1>1. \A n \in S : PlaceOf(walk, n) \in Nat /\ walk[PlaceOf(walk, n)] = n
    <2>1. ASSUME NEW n \in S PROVE PlaceOf(walk, n) \in Nat /\ walk[PlaceOf(walk, n)] = n
      <3>1. PlaceOf(walk, n) \in DOMAIN walk /\ walk[PlaceOf(walk, n)] = n
        BY PlaceIsIn
      <3>2. QED
        BY <3>1
    <2>2. QED
      BY <2>1
  <1>2. ASSUME NEW n \in S PROVE Before(n) \in SUBSET S /\ n \notin Before(n)
    BY <1>1
  <1>3. ASSUME NEW n \in S
        PROVE  IsFiniteSet(Before(n)) /\ Cardinality(Before(n)) \in Nat
               /\ Cardinality(Before(n)) < Cardinality(S)
    <2> DEFINE B == Before(n)
    <2>1. B \in SUBSET S /\ n \notin B
      BY <1>2
    <2> HIDE DEF B, Before
    <2>2. IsFiniteSet(B) /\ Cardinality(B) <= Cardinality(S)
          /\ (Cardinality(S) = Cardinality(B) => S = B)
      BY <2>1, FS_Subset
    <2>3. Cardinality(B) \in Nat /\ Cardinality(S) \in Nat
      BY <2>2, FS_CardinalityType
    <2>4. QED
      BY <2>1, <2>2, <2>3 DEF B
  <1>4. ASSUME NEW n \in S, NEW k \in S, PlaceOf(walk, n) < PlaceOf(walk, k)
        PROVE  Cardinality(Before(n)) < Cardinality(Before(k))
    <2> DEFINE B == Before(n)
               C == Before(k)
    <2>1. B \in SUBSET C /\ n \notin B /\ n \in C
      BY <1>1, <1>4
    <2>2. IsFiniteSet(C) /\ Cardinality(C) \in Nat /\ Cardinality(B) \in Nat
      <3> HIDE DEF Before
      <3> QED BY <1>3
    <2> HIDE DEF B, C, Before
    <2>3. Cardinality(B) <= Cardinality(C) /\ (Cardinality(C) = Cardinality(B) => C = B)
      BY <2>1, <2>2, FS_Subset
    <2>4. QED
      BY <2>1, <2>2, <2>3 DEF B, C
  <1>5. ASSUME NEW n \in S, NEW k \in S, Cardinality(Before(n)) = Cardinality(Before(k))
        PROVE  n = k
    <2>1. Cardinality(Before(n)) \in Nat /\ Cardinality(Before(k)) \in Nat
      <3> HIDE DEF Before
      <3> QED BY <1>3
    <2>2. PlaceOf(walk, n) = PlaceOf(walk, k)
      <3> HIDE DEF Before
      <3> QED BY <1>1, <1>4, <1>5, <2>1
    <2>3. QED
      BY <1>1, <2>2
  <1>6. \A n \in S : Rank(walk, S, n) = Cardinality(Before(n))
    BY DEF Rank
  <1> HIDE DEF Before
  <1>7. Cardinality(S) \in Nat
    BY FS_CardinalityType
  <1>8. QED
    BY <1>3, <1>5, <1>6, <1>7

\* What a document keeps its numbers in, before they are given out.
Kept(T, kept, A) ==
  /\ T \in TreeDocs(A) /\ kept \in [Nodes -> Nat]
  /\ \A n \in Nodes : kept[n] < T.next
  /\ \A n, k \in Nodes : kept[n] = kept[k] /\ n # k => kept[n] = NoNumber

\* Every live node has a number of its own then, and everything agrees on it.
LEMMA RenumberedSound ==
  ASSUME NEW A \in SUBSET Nodes, NEW T, NEW kept, Kept(T, kept, A),
         NEW R, R = Renumbered(T, kept)
  PROVE  Sound(R, A) /\ SameTree(T, R) /\ Indexed(R)
  <1>w. PICK walk : walk = Walk(T.kids, T.root)
    OBVIOUS
  <1>l. PICK live : live = ToSet(walk)
    OBVIOUS
  <1>f. PICK fresh : fresh = {n \in live : kept[n] = NoNumber}
    OBVIOUS
  <1>m. PICK now : now = [n \in Nodes |-> IF n \in fresh THEN T.next + Rank(walk, fresh, n)
                                                         ELSE kept[n]]
    OBVIOUS
  <1>b. PICK label : label = [n \in Nodes |-> IF n \in live THEN now[n] ELSE T.label[n]]
    OBVIOUS
  <1>i. PICK index : index = {<<now[n], n>> : n \in live}
    OBVIOUS
  <1>0. /\ T \in TreeDocs(A) /\ kept \in [Nodes -> Nat]
        /\ T.next \in Nat /\ T.next # 0
    BY DEF Kept, TreeDocs
  <1>1. walk \in Seq(A) /\ live \subseteq A /\ live = Under(T)
    BY <1>0, <1>w, <1>l, UnderTyped DEF Under, TreeDocs
  <1>2. fresh \in SUBSET ToSet(walk) /\ IsFiniteSet(fresh) /\ walk \in Seq(Nodes)
    <2>1. fresh \in SUBSET Nodes
      BY <1>1, <1>f
    <2>2. IsFiniteSet(fresh)
      BY <2>1, NodesAre, FS_Subset
    <2>3. QED
      BY <1>1, <1>f, <1>l, <2>2, SeqOver
  <1>3. /\ Cardinality(fresh) \in Nat
        /\ \A n \in fresh : /\ Rank(walk, fresh, n) \in Nat
                            /\ Rank(walk, fresh, n) < Cardinality(fresh)
        /\ \A n, k \in fresh : Rank(walk, fresh, n) = Rank(walk, fresh, k) => n = k
    BY <1>2, RanksDiffer
  <1>4. ASSUME NEW n \in Nodes
        PROVE  /\ now[n] \in Nat
               /\ now[n] < T.next + Cardinality(fresh)
               /\ n \in fresh => now[n] >= T.next /\ now[n] = T.next + Rank(walk, fresh, n)
               /\ n \notin fresh => now[n] = kept[n] /\ now[n] < T.next
               /\ n \in live => now[n] # NoNumber
    <2>1. CASE n \in fresh
      <3>1. now[n] = T.next + Rank(walk, fresh, n)
        BY <1>m, <2>1
      <3>2. QED
        BY <1>0, <1>3, <2>1, <3>1 DEF NoNumber
    <2>2. CASE n \notin fresh
      <3>1. now[n] = kept[n] /\ kept[n] \in Nat /\ kept[n] < T.next
        BY <1>0, <1>m, <2>2 DEF Kept
      <3>2. n \in live => kept[n] # NoNumber
        BY <1>f, <2>2
      <3>3. QED
        BY <1>0, <1>3, <2>2, <3>1, <3>2
    <2>3. QED
      BY <2>1, <2>2
  <1>5. ASSUME NEW n \in Nodes, NEW k \in Nodes, now[n] = now[k], n # k
        PROVE  now[n] = NoNumber
    <2>1. CASE n \in fresh /\ k \in fresh
      <3>1. Rank(walk, fresh, n) = Rank(walk, fresh, k)
        BY <1>0, <1>3, <1>4, <1>5, <2>1
      <3>2. QED
        BY <1>3, <1>5, <2>1, <3>1
    <2>2. CASE n \notin fresh /\ k \notin fresh
      BY <1>4, <1>5, <2>2 DEF Kept
    <2>3. CASE (n \in fresh /\ k \notin fresh) \/ (n \notin fresh /\ k \in fresh)
      BY <1>0, <1>4, <1>5, <2>3
    <2>4. QED
      BY <2>1, <2>2, <2>3
  <1>6. now \in [Nodes -> Nat] /\ label \in [Nodes -> Nat]
    <2>1. now \in [Nodes -> Nat]
      BY <1>4, <1>m
    <2>2. QED
      BY <1>0, <1>b, <2>1 DEF TreeDocs
  <1>7. index \in SUBSET (Nat \X Nodes)
    BY <1>1, <1>4, <1>i
  <1>8. T.next + Cardinality(fresh) \in Nat \ {0}
    BY <1>0, <1>3
  <1>9. R = [T EXCEPT !.known = live, !.number = now, !.next = T.next + Cardinality(fresh),
                      !.label = label, !.index = index]
    BY <1>0, <1>w, <1>l, <1>f, <1>m, <1>b, <1>i DEF Renumbered, TreeDocs
  <1>10. R \in TreeDocs(A)
    BY <1>0, <1>1, <1>6, <1>7, <1>8, <1>9 DEF TreeDocs
  <1>11. /\ R.known = live /\ R.number = now /\ R.next = T.next + Cardinality(fresh)
         /\ R.label = label /\ R.index = index
         /\ R.root = T.root /\ R.kids = T.kids /\ R.field = T.field /\ R.unsynced = T.unsynced
    BY <1>0, <1>9 DEF TreeDocs
  <1>12. Numbered(R)
    BY <1>4, <1>5, <1>11 DEF Numbered
  <1>13. Functional(R)
    <2>1. ASSUME NEW e \in index, NEW f \in index, e[1] = f[1] PROVE e = f
      <3>1. PICK n \in live : e = <<now[n], n>>
        BY <1>i
      <3>2. PICK k \in live : f = <<now[k], k>>
        BY <1>i
      <3>3. now[n] = now[k]
        BY <2>1, <3>1, <3>2
      <3>4. n = k
        BY <1>1, <1>4, <1>5, <3>3
      <3>5. QED
        BY <3>1, <3>2, <3>4
    <2>2. QED
      BY <1>11, <2>1 DEF Functional
  <1>14. Indexed(R)
    <2>1. Under(R) = live
      BY <1>1, <1>11 DEF Under
    <2>2. ASSUME NEW n \in live
          PROVE  now[n] = label[n] /\ now[n] \in 1 .. T.next + Cardinality(fresh) - 1
      <3>1. n \in Nodes
        BY <1>1
      <3>2. now[n] \in Nat /\ now[n] # 0 /\ now[n] < T.next + Cardinality(fresh)
        BY <1>4, <3>1 DEF NoNumber
      <3>3. QED
        BY <1>0, <1>3, <1>b, <3>1, <3>2
    <2>3. R.index = {<<R.number[n], n>> : n \in Under(R)}
      BY <1>11, <1>i, <2>1, Zenon
    <2>4. ASSUME NEW n \in Under(R)
          PROVE  R.number[n] = R.label[n] /\ R.number[n] \in 1 .. R.next - 1
      <3>1. n \in live
        BY <2>1
      <3>2. now[n] = label[n]
        BY <2>2, <3>1
      <3>3. PICK v : v = now[n]
        OBVIOUS
      <3>4. R.number[n] = v /\ R.label[n] = v
        BY <1>11, <3>2, <3>3
      <3>5. v \in 1 .. R.next - 1
        <4>1. v \in 1 .. T.next + Cardinality(fresh) - 1
          BY <2>2, <3>1, <3>3
        <4>2. PICK last : last = T.next + Cardinality(fresh)
          OBVIOUS
        <4>3. last \in Nat /\ v \in 1 .. last - 1
          BY <1>0, <1>3, <4>1, <4>2
        <4>4. R.next = last
          BY <1>11, <4>2
        <4>5. QED
          BY <4>3, <4>4
      <3>6. QED
        BY <3>4, <3>5
    <2>5. QED
      BY <1>11, <2>1, <2>3, <2>4 DEF Indexed
  <1>15. QED
    BY <1>10, <1>11, <1>12, <1>13, <1>14 DEF Sound, SameTree

\* reindex frees numbers and gives out new ones.
LEMMA ReindexedSound ==
  ASSUME NEW A \in SUBSET Nodes, NEW T \in TreeDocs(A), Numbered(T),
         NEW R, R = Reindexed(T)
  PROVE  Sound(R, A) /\ SameTree(T, R) /\ Indexed(R)
  <1>f. PICK freed : freed = {e[2] : e \in T.index} \ Under(T)
    OBVIOUS
  <1>k. PICK kept : kept = [n \in Nodes |-> IF n \in freed THEN NoNumber ELSE T.number[n]]
    OBVIOUS
  <1>1. T.number \in [Nodes -> Nat] /\ T.next \in Nat /\ T.next # 0
    BY DEF TreeDocs
  <1>2. Kept(T, kept, A)
    <2>1. kept \in [Nodes -> Nat]
      BY <1>1, <1>k DEF NoNumber
    <2>2. \A n \in Nodes : kept[n] < T.next
      BY <1>1, <1>k DEF NoNumber, Numbered
    <2>3. \A n, k \in Nodes : kept[n] = kept[k] /\ n # k => kept[n] = NoNumber
      BY <1>1, <1>k DEF NoNumber, Numbered
    <2>4. QED
      BY <2>1, <2>2, <2>3 DEF Kept
  <1>3. R = Renumbered(T, kept)
    BY <1>f, <1>k DEF Reindexed
  <1>4. QED
    BY <1>2, <1>3, RenumberedSound

-----------------------------------------------------------------------------
(* The end of a mutation.                                                  *)

\* The same nodes and fields are mirrored alike.
LEMMA SameMirrors ==
  ASSUME NEW T, NEW U, SameTree(T, U), Mirrors(T)
  PROVE  Mirrors(U)
  BY DEF SameTree, Mirrors, Mirrored

\* The version is a matter of its own.
LEMMA VersionedSound ==
  ASSUME NEW A, NEW T, Sound(T, A), Indexed(T),
         NEW R, R = [T EXCEPT !.version = @ + 1]
  PROVE  Sound(R, A) /\ SameTree(T, R) /\ Indexed(R)
  <1>0. T \in TreeDocs(A) /\ T.version + 1 \in Nat \ {0}
    BY DEF Sound, TreeDocs
  <1>1. R \in TreeDocs(A)
    BY <1>0 DEF TreeDocs
  <1>2. SameTree(T, R)
    BY <1>0 DEF TreeDocs, SameTree
  <1>3. R.number = T.number /\ R.next = T.next /\ R.index = T.index
        /\ R.known = T.known /\ R.label = T.label
    BY <1>0 DEF TreeDocs
  <1>4. Numbered(R) /\ Functional(R)
    BY <1>3 DEF Sound, Numbered, Functional
  <1>5. Under(R) = Under(T)
    BY <1>2 DEF SameTree, Under
  <1>6. R.index = {<<R.number[n], n>> : n \in Under(R)} /\ R.known = Under(R)
    BY <1>3, <1>5 DEF Indexed
  <1>7. \A n \in Under(R) : R.number[n] = R.label[n] /\ R.number[n] \in 1 .. R.next - 1
    BY <1>3, <1>5 DEF Indexed
  <1>8. QED
    BY <1>1, <1>2, <1>4, <1>6, <1>7 DEF Sound, Indexed

\* sync_fields mirrors the parent whose children have changed.
LEMMA SyncedSound ==
  ASSUME NEW A \in SUBSET Nodes, NEW T, Sound(T, A), NEW U, NEW p, Edited(T, U, p, A),
         NEW R, R = Synced(U, p)
  PROVE  R \in TreeDocs(A) /\ Numbered(R) /\ (Mirrors(T) => Mirrors(R))
  <1>0. U \in TreeDocs(A) /\ Numbered(U) /\ T \in TreeDocs(A)
    BY DEF Edited, Sound
  <1>1. /\ U.field = T.field /\ U.unsynced = T.unsynced
        /\ \A n \in Nodes \ {p} : U.kids[n] = T.kids[n]
    BY DEF Edited
  <1>2. Sequenced \subseteq Nodes
    BY TreesAssumption
  <1>3. CASE p \in Sequenced /\ Found(U, p)
    <2>f. PICK field : field = [U.field EXCEPT ![p] = U.kids[p]]
      OBVIOUS
    <2>1. p \in Nodes /\ U.kids[p] \in Seq(Nodes \cup {NoNode})
      <3>1. p \in Nodes /\ U.kids[p] \in Seq(A)
        BY <1>0, <1>2, <1>3 DEF TreeDocs
      <3>2. QED
        BY <3>1, SeqOver
    <2>2. /\ field \in [Nodes -> Seq(Nodes \cup {NoNode})] /\ field[p] = U.kids[p]
          /\ \A n \in Nodes \ {p} : field[n] = U.field[n]
      BY <1>0, <2>f, <2>1 DEF TreeDocs
    <2>3. R = [U EXCEPT !.field = field, !.unsynced = U.unsynced \ {p}]
      BY <1>0, <1>3, <2>f DEF Synced, TreeDocs
    <2>4. U.unsynced \ {p} \in SUBSET Nodes
      BY <1>0 DEF TreeDocs
    <2>5. R \in TreeDocs(A)
      BY <1>0, <2>2, <2>3, <2>4 DEF TreeDocs
    <2>6. /\ R.field = field /\ R.unsynced = U.unsynced \ {p} /\ R.kids = U.kids
          /\ R.number = U.number /\ R.next = U.next
      BY <1>0, <2>3 DEF TreeDocs
    <2>7. Numbered(R)
      BY <1>0, <2>6 DEF Numbered
    <2>8. ASSUME Mirrors(T), NEW n \in Sequenced \ R.unsynced PROVE Mirrored(R, n)
      <3>1. CASE n = p
        BY <2>2, <2>6, <3>1 DEF Mirrored
      <3>2. CASE n # p
        BY <1>1, <1>2, <2>2, <2>6, <2>8, <3>2 DEF Mirrors, Mirrored
      <3>3. QED
        BY <3>1, <3>2
    <2>9. QED
      BY <2>5, <2>7, <2>8 DEF Mirrors
  <1>4. CASE ~(p \in Sequenced /\ Found(U, p))
    <2>1. R = U
      BY <1>4 DEF Synced
    <2>2. ASSUME Mirrors(T), NEW n \in Sequenced \ U.unsynced PROVE Mirrored(U, n)
      <3>1. CASE n = p
        <4>1. T.kids[p] \in Seq(A) /\ NoNode \notin A
          BY <1>0, <1>2, <3>1, NodesAre DEF TreeDocs
        <4>2. NoNode \notin ToSet(T.kids[p])
          BY <4>1 DEF ToSet
        <4>3. T.field[p] \in {T.kids[p], <<>>}
          BY <1>1, <2>2, <3>1 DEF Mirrors, Mirrored
        <4>4. U.field[p] = <<>>
          BY <1>1, <1>4, <3>1, <4>2, <4>3 DEF Found, Some
        <4>5. QED
          BY <3>1, <4>4 DEF Mirrored
      <3>2. CASE n # p
        BY <1>1, <1>2, <2>2, <3>2 DEF Mirrors, Mirrored
      <3>3. QED
        BY <3>1, <3>2
    <2>3. QED
      BY <1>0, <2>1, <2>2 DEF Mirrors
  <1>5. QED
    BY <1>3, <1>4

\* _committed: what was edited below p is in step again, or the edit is refused.
LEMMA ClosedSound ==
  ASSUME NEW A \in SUBSET Nodes, NEW T, Sound(T, A), NEW U, NEW p, Edited(T, U, p, A),
         NEW R, R = Closed(U, p)
  PROVE  Sound(R, A) /\ (Mirrors(T) => Mirrors(R)) /\ (Refuses(U, p) \/ Indexed(R))
  <1>1. CASE Refuses(U, p)
    <2>1. R = U /\ Sound(U, A)
      BY <1>1 DEF Closed, Edited
    <2>2. p \notin Sequenced /\ Sequenced \subseteq Nodes
      BY <1>1, TreesAssumption DEF Refuses
    <2>3. Mirrors(T) => Mirrors(U)
      BY <2>2 DEF Edited, Mirrors, Mirrored
    <2>4. QED
      BY <1>1, <2>1, <2>3
  <1>2. CASE ~Refuses(U, p)
    <2>y. PICK Y : Y = Synced(U, p)
      OBVIOUS
    <2>x. PICK X : X = Reindexed(Y)
      OBVIOUS
    <2>1. R = [X EXCEPT !.version = @ + 1]
      BY <1>2, <2>y, <2>x DEF Closed
    <2>2. Y \in TreeDocs(A) /\ Numbered(Y) /\ (Mirrors(T) => Mirrors(Y))
      BY <2>y, SyncedSound
    <2>3. Sound(X, A) /\ SameTree(Y, X) /\ Indexed(X)
      BY <2>2, <2>x, ReindexedSound
    <2>4. Sound(R, A) /\ SameTree(X, R) /\ Indexed(R)
      BY <2>1, <2>3, VersionedSound
    <2>5. Mirrors(T) => Mirrors(R)
      BY <2>2, <2>3, <2>4, SameMirrors
    <2>6. QED
      BY <2>4, <2>5
  <1>3. QED
    BY <1>1, <1>2

-----------------------------------------------------------------------------
(* Files.                                                                  *)

\* Minting more nodes disturbs no document ...
LEMMA Wider ==
  ASSUME NEW A, NEW B, A \subseteq B, NEW T, Sound(T, A)
  PROVE  Sound(T, B)
  <1>0. T \in TreeDocs(A) /\ Numbered(T) /\ Functional(T)
    BY DEF Sound
  <1>1. T.kids \in [Nodes -> Seq(B)]
    <2>1. T.kids \in [Nodes -> Seq(A)]
      BY <1>0 DEF TreeDocs
    <2>2. \A n \in Nodes : T.kids[n] \in Seq(B)
      BY <2>1, SeqOver
    <2>3. QED
      BY <2>1, <2>2
  <1>2. T \in TreeDocs(B)
    BY <1>0, <1>1 DEF TreeDocs
  <1>3. QED
    BY <1>0, <1>2 DEF Sound

\* ... and no file.
LEMMA WiderFile ==
  ASSUME NEW A, NEW B, A \subseteq B, NEW f \in TreeFiles(A)
  PROVE  f \in TreeFiles(B)
  <1>1. f.kids \in [Nodes -> Seq(B)]
    <2>1. f.kids \in [Nodes -> Seq(A)]
      BY DEF TreeFiles
    <2>2. \A n \in Nodes : f.kids[n] \in Seq(B)
      BY <2>1, SeqOver
    <2>3. QED
      BY <2>1, <2>2
  <1>2. QED
    BY <1>1 DEF TreeFiles

\* A field read from a file, as far as its nodes are children.
Cleared(kids, field) ==
  [i \in DOMAIN field |-> LET k == field[i] IN IF k \in ToSet(kids) THEN k ELSE NoNode]

\* What mirrors the children still does, and what is empty stays so.
LEMMA ClearedTyped ==
  ASSUME NEW kids \in Seq(Nodes), NEW field \in Seq(Nodes \cup {NoNode})
  PROVE  /\ Cleared(kids, field) \in Seq(Nodes \cup {NoNode})
         /\ field \in {kids, <<>>} => Cleared(kids, field) = field
  <1>1. ASSUME NEW i \in 1 .. Len(field)
        PROVE  Cleared(kids, field)[i] \in Nodes \cup {NoNode}
    BY DEF Cleared
  <1>2. Cleared(kids, field) \in [1 .. Len(field) -> Nodes \cup {NoNode}]
    BY <1>1 DEF Cleared
  <1>3. Cleared(kids, field) \in Seq(Nodes \cup {NoNode})
        /\ Len(Cleared(kids, field)) = Len(field)
    BY <1>2, FunctionIsSeq
  <1>4. ASSUME field \in {kids, <<>>} PROVE Cleared(kids, field) = field
    <2>1. \A i \in 1 .. Len(field) : field[i] \in ToSet(kids)
      BY <1>4 DEF ToSet
    <2>2. \A i \in 1 .. Len(field) : Cleared(kids, field)[i] = field[i]
      BY <2>1 DEF Cleared
    <2>3. QED
      BY <1>3, <2>2
  <1>5. QED
    BY <1>3, <1>4

\* A document is loaded with its nodes and numbers, and indexed.
LEMMA LoadedSound ==
  ASSUME NEW A \in SUBSET Nodes, NEW d \in Docs, Root[d] \in A,
         NEW f \in TreeFiles(A), Numbered(f), NEW R, R = Loaded(d, f)
  PROVE  Sound(R, A) /\ Indexed(R) /\ (Mirrors(f) => Mirrors(R))
  <1>f. PICK field : field = [n \in Nodes |-> Cleared(f.kids[n], f.field[n])]
    OBVIOUS
  <1>u. PICK up : up = [n \in Nodes |-> IF \E m \in Nodes : n \in ToSet(f.kids[m])
                                        THEN CHOOSE m \in Nodes : n \in ToSet(f.kids[m])
                                        ELSE NoNode]
    OBVIOUS
  <1>x. PICK X : X = [root |-> Root[d], kids |-> f.kids, field |-> field, up |-> up,
                      label |-> Blank(NoNumber), number |-> f.number,
                      known |-> {}, index |-> {},
                      next |-> f.next, version |-> 1, unsynced |-> f.unsynced]
    OBVIOUS
  <1>1. R = Reindexed(X)
    BY <1>f, <1>u, <1>x DEF Loaded, Cleared
  <1>2. /\ f.kids \in [Nodes -> Seq(A)] /\ f.field \in [Nodes -> Seq(Nodes \cup {NoNode})]
        /\ f.number \in [Nodes -> Nat] /\ f.next \in Nat \ {0} /\ f.unsynced \in SUBSET Nodes
    BY DEF TreeFiles
  <1>3. \A n \in Nodes : f.kids[n] \in Seq(Nodes)
    BY <1>2, SeqOver
  <1>4. ASSUME NEW n \in Nodes
        PROVE  /\ field[n] \in Seq(Nodes \cup {NoNode})
               /\ f.field[n] \in {f.kids[n], <<>>} => field[n] = f.field[n]
    BY <1>2, <1>3, <1>f, ClearedTyped
  <1>5. field \in [Nodes -> Seq(Nodes \cup {NoNode})]
    BY <1>4, <1>f
  <1>6. up \in [Nodes -> Nodes \cup {NoNode}]
    BY <1>u
  <1>7. Blank(NoNumber) \in [Nodes -> Nat]
    BY DEF Blank, NoNumber
  <1>8. X \in TreeDocs(A)
    BY <1>2, <1>5, <1>6, <1>7, <1>x DEF TreeDocs
  <1>9. X.number = f.number /\ X.next = f.next /\ X.kids = f.kids /\ X.field = field
        /\ X.unsynced = f.unsynced
    BY <1>x
  <1>10. Numbered(X)
    BY <1>9 DEF Numbered
  <1>11. Sound(R, A) /\ SameTree(X, R) /\ Indexed(R)
    BY <1>1, <1>8, <1>10, ReindexedSound
  <1>12. ASSUME Mirrors(f) PROVE Mirrors(X)
    <2>1. ASSUME NEW n \in Sequenced \ f.unsynced PROVE field[n] \in {f.kids[n], <<>>}
      <3>1. n \in Nodes /\ f.field[n] \in {f.kids[n], <<>>}
        BY <1>12, TreesAssumption DEF Mirrors, Mirrored
      <3>2. QED
        BY <1>4, <3>1
    <2>2. QED
      BY <1>9, <2>1 DEF Mirrors, Mirrored
  <1>13. QED
    BY <1>11, <1>12, SameMirrors

\* A document is saved with the nodes it has, and all its numbers.
LEMMA SavedSound ==
  ASSUME NEW A \in SUBSET Nodes, NEW T, Sound(T, A), NEW f, f = Saved(T)
  PROVE  f \in TreeFiles(A) /\ Numbered(f) /\ (Mirrors(T) => Mirrors(f))
  <1>k. PICK kids : kids = [n \in Nodes |-> IF n \in Under(T) THEN T.kids[n] ELSE <<>>]
    OBVIOUS
  <1>f. PICK field : field = [n \in Nodes |-> IF n \in Under(T) THEN T.field[n] ELSE <<>>]
    OBVIOUS
  <1>1. f = [kids |-> kids, field |-> field, number |-> T.number, next |-> T.next,
             unsynced |-> T.unsynced]
    BY <1>k, <1>f DEF Saved
  <1>2. /\ T.kids \in [Nodes -> Seq(A)] /\ T.field \in [Nodes -> Seq(Nodes \cup {NoNode})]
        /\ T.number \in [Nodes -> Nat] /\ T.next \in Nat \ {0} /\ T.unsynced \in SUBSET Nodes
    BY DEF Sound, TreeDocs
  <1>3. kids \in [Nodes -> Seq(A)]
    BY <1>2, <1>k
  <1>4. field \in [Nodes -> Seq(Nodes \cup {NoNode})]
    BY <1>2, <1>f
  <1>5. f \in TreeFiles(A)
    BY <1>1, <1>2, <1>3, <1>4 DEF TreeFiles
  <1>6. f.number = T.number /\ f.next = T.next /\ f.kids = kids /\ f.field = field
        /\ f.unsynced = T.unsynced
    BY <1>1
  <1>7. Numbered(f)
    BY <1>6 DEF Sound, Numbered
  <1>8. ASSUME Mirrors(T), NEW n \in Sequenced \ f.unsynced PROVE Mirrored(f, n)
    <2>1. n \in Nodes /\ T.field[n] \in {T.kids[n], <<>>}
      BY <1>6, <1>8, TreesAssumption DEF Mirrors, Mirrored
    <2>2. QED
      BY <1>6, <1>k, <1>f, <2>1 DEF Mirrored
  <1>9. QED
    BY <1>5, <1>7, <1>8 DEF Mirrors

\* The files the documents come from.
LEMMA FirstFileSound ==
  ASSUME NEW d \in Docs
  PROVE  FirstFile(d) \in TreeFiles(1 .. Born) /\ Numbered(FirstFile(d)) /\ Mirrors(FirstFile(d))
  <1>1. /\ Born \in Nat /\ 1 .. Born \subseteq Nodes /\ FirstKids[d] \in [Nodes -> Seq(1 .. Born)]
        /\ Sequenced \subseteq Nodes
    BY SizesAssumption, TreesAssumption DEF Nodes
  <1>f. PICK f : f = FirstFile(d)
    OBVIOUS
  <1>g. PICK field : field = [n \in Nodes |-> IF n \in Sequenced \cup Singled
                                              THEN FirstKids[d][n] ELSE <<>>]
    OBVIOUS
  <1>2. \A n \in Nodes : FirstKids[d][n] \in Seq(Nodes \cup {NoNode})
    BY <1>1, SeqOver
  <1>3. field \in [Nodes -> Seq(Nodes \cup {NoNode})]
    BY <1>2, <1>g
  <1>4. f = [kids |-> FirstKids[d], field |-> field, number |-> Blank(NoNumber), next |-> 1,
             unsynced |-> {}]
    BY <1>f, <1>g DEF FirstFile
  <1>5. Blank(NoNumber) \in [Nodes -> Nat] /\ \A n \in Nodes : Blank(NoNumber)[n] = 0
    BY DEF Blank, NoNumber
  <1>6. f \in TreeFiles(1 .. Born)
    BY <1>1, <1>3, <1>4, <1>5 DEF TreeFiles
  <1>7. Numbered(f)
    BY <1>4, <1>5 DEF Numbered, NoNumber
  <1>8. Mirrors(f)
    BY <1>1, <1>4, <1>g DEF Mirrors, Mirrored
  <1>9. QED
    BY <1>6, <1>7, <1>8, <1>f

-----------------------------------------------------------------------------
(* Moves.                                                                  *)

\* The moves there can be.
Moves(A) ==
  [stage : {"resolved", "source", "target"}, src : Docs, dst : Docs, at : Ats,
   cut : Cuts(A), roots : Seq(A) \ {<<>>}]

\* core.move changes the children of a parent and leaves its field behind.
Shifted(T, p, s) == [T EXCEPT !.kids[p] = s, !.unsynced = @ \cup {p}]

\* That is sound, since the parent is known to be behind.
LEMMA UnsyncedSound ==
  ASSUME NEW A \in SUBSET Nodes, NEW T, Sound(T, A), NEW p \in Nodes, NEW s \in Seq(A),
         NEW R, R = Shifted(T, p, s)
  PROVE  Sound(R, A) /\ (Mirrors(T) => Mirrors(R))
  <1>k. PICK kids : kids = [T.kids EXCEPT ![p] = s]
    OBVIOUS
  <1>u. PICK unsynced : unsynced = T.unsynced \cup {p}
    OBVIOUS
  <1>0. T \in TreeDocs(A) /\ Functional(T) /\ Numbered(T)
    BY DEF Sound
  <1>1. /\ kids \in [Nodes -> Seq(A)] /\ \A n \in Nodes \ {p} : kids[n] = T.kids[n]
        /\ unsynced \in SUBSET Nodes
    BY <1>0, <1>k, <1>u DEF TreeDocs
  <1>2. R = [T EXCEPT !.kids = kids, !.unsynced = unsynced]
    BY <1>0, <1>k, <1>u DEF Shifted, TreeDocs
  <1>3. R \in TreeDocs(A)
    BY <1>0, <1>1, <1>2 DEF TreeDocs
  <1>4. /\ R.kids = kids /\ R.unsynced = unsynced /\ R.field = T.field
        /\ R.number = T.number /\ R.next = T.next /\ R.index = T.index
    BY <1>0, <1>2 DEF TreeDocs
  <1>5. Numbered(R) /\ Functional(R)
    BY <1>0, <1>4 DEF Numbered, Functional
  <1>6. ASSUME Mirrors(T), NEW n \in Sequenced \ R.unsynced PROVE Mirrored(R, n)
    <2>1. n \in Nodes \ {p} /\ n \notin T.unsynced
      BY <1>4, <1>6, <1>u, TreesAssumption
    <2>2. QED
      BY <1>1, <1>4, <1>6, <2>1 DEF Mirrors, Mirrored
  <1>7. QED
    BY <1>3, <1>5, <1>6 DEF Sound, Mirrors

\* What stays behind when nodes leave a document.
LEMMA WithoutSound ==
  ASSUME NEW A \in SUBSET Nodes, NEW T, Sound(T, A), NEW F, NEW R, R = Without(T, F)
  PROVE  Sound(R, A) /\ (Mirrors(T) => Mirrors(R))
  <1>k. PICK kids : kids = [n \in Nodes |-> IF n \in F THEN <<>> ELSE T.kids[n]]
    OBVIOUS
  <1>f. PICK field : field = [n \in Nodes |-> IF n \in F THEN <<>> ELSE T.field[n]]
    OBVIOUS
  <1>b. PICK label : label = [n \in Nodes |-> IF n \in F THEN NoNumber ELSE T.label[n]]
    OBVIOUS
  <1>0. T \in TreeDocs(A) /\ Functional(T) /\ Numbered(T)
    BY DEF Sound
  <1>1. R = [T EXCEPT !.kids = kids, !.field = field, !.label = label]
    BY <1>0, <1>k, <1>f, <1>b DEF Without, TreeDocs
  <1>2. /\ T.kids \in [Nodes -> Seq(A)] /\ T.field \in [Nodes -> Seq(Nodes \cup {NoNode})]
        /\ T.label \in [Nodes -> Nat]
    BY <1>0 DEF TreeDocs
  <1>3. kids \in [Nodes -> Seq(A)]
    BY <1>2, <1>k
  <1>4. field \in [Nodes -> Seq(Nodes \cup {NoNode})]
    BY <1>2, <1>f
  <1>5. label \in [Nodes -> Nat]
    BY <1>2, <1>b DEF NoNumber
  <1>6. R \in TreeDocs(A)
    BY <1>0, <1>1, <1>3, <1>4, <1>5 DEF TreeDocs
  <1>7. /\ R.kids = kids /\ R.field = field /\ R.unsynced = T.unsynced
        /\ R.number = T.number /\ R.next = T.next /\ R.index = T.index
    BY <1>0, <1>1 DEF TreeDocs
  <1>8. Numbered(R) /\ Functional(R)
    BY <1>0, <1>7 DEF Numbered, Functional
  <1>9. ASSUME Mirrors(T), NEW n \in Sequenced \ R.unsynced PROVE Mirrored(R, n)
    <2>1. n \in Nodes /\ T.field[n] \in {T.kids[n], <<>>}
      BY <1>7, <1>9, TreesAssumption DEF Mirrors, Mirrored
    <2>2. QED
      BY <1>7, <1>k, <1>f, <2>1 DEF Mirrored
  <1>10. QED
    BY <1>6, <1>8, <1>9 DEF Sound, Mirrors

\* What they bring to another.
LEMMA WithSound ==
  ASSUME NEW A \in SUBSET Nodes, NEW T, Sound(T, A), NEW S, Sound(S, A), NEW F,
         NEW R, R = With(T, S, F)
  PROVE  Sound(R, A) /\ (Mirrors(T) /\ Mirrors(S) => Mirrors(R))
  <1>k. PICK kids : kids = [n \in Nodes |-> IF n \in F THEN S.kids[n] ELSE T.kids[n]]
    OBVIOUS
  <1>f. PICK field : field = [n \in Nodes |-> IF n \in F THEN S.field[n] ELSE T.field[n]]
    OBVIOUS
  <1>b. PICK label : label = [n \in Nodes |-> IF n \in F THEN S.label[n] ELSE T.label[n]]
    OBVIOUS
  <1>p. PICK up : up = [n \in Nodes |-> IF n \in F THEN S.up[n] ELSE T.up[n]]
    OBVIOUS
  <1>u. PICK unsynced : unsynced = T.unsynced \cup (F \cap S.unsynced)
    OBVIOUS
  <1>0. T \in TreeDocs(A) /\ Functional(T) /\ Numbered(T) /\ S \in TreeDocs(A)
    BY DEF Sound
  <1>1. R = [T EXCEPT !.kids = kids, !.field = field, !.label = label, !.up = up,
                      !.unsynced = unsynced]
    BY <1>0, <1>k, <1>f, <1>b, <1>p, <1>u DEF With, TreeDocs
  <1>2. /\ T.kids \in [Nodes -> Seq(A)] /\ T.field \in [Nodes -> Seq(Nodes \cup {NoNode})]
        /\ T.label \in [Nodes -> Nat] /\ T.up \in [Nodes -> Nodes \cup {NoNode}]
        /\ T.unsynced \subseteq Nodes
    BY <1>0 DEF TreeDocs
  <1>3. /\ S.kids \in [Nodes -> Seq(A)] /\ S.field \in [Nodes -> Seq(Nodes \cup {NoNode})]
        /\ S.label \in [Nodes -> Nat] /\ S.up \in [Nodes -> Nodes \cup {NoNode}]
        /\ S.unsynced \subseteq Nodes
    BY <1>0 DEF TreeDocs
  <1>4. kids \in [Nodes -> Seq(A)]
    BY <1>2, <1>3, <1>k
  <1>5. field \in [Nodes -> Seq(Nodes \cup {NoNode})]
    BY <1>2, <1>3, <1>f
  <1>6. label \in [Nodes -> Nat] /\ up \in [Nodes -> Nodes \cup {NoNode}]
        /\ unsynced \in SUBSET Nodes
    BY <1>2, <1>3, <1>b, <1>p, <1>u
  <1>7. R \in TreeDocs(A)
    BY <1>0, <1>1, <1>4, <1>5, <1>6 DEF TreeDocs
  <1>8. /\ R.kids = kids /\ R.field = field /\ R.unsynced = unsynced
        /\ R.number = T.number /\ R.next = T.next /\ R.index = T.index
    BY <1>0, <1>1 DEF TreeDocs
  <1>9. Numbered(R) /\ Functional(R)
    BY <1>0, <1>8 DEF Numbered, Functional
  <1>10. ASSUME Mirrors(T), Mirrors(S), NEW n \in Sequenced \ R.unsynced PROVE Mirrored(R, n)
    <2>1. n \in Nodes /\ n \in Sequenced \ T.unsynced
      BY <1>8, <1>10, <1>u, TreesAssumption
    <2>2. CASE n \in F
      <3>1. n \in Sequenced \ S.unsynced
        BY <1>8, <1>10, <1>u, <2>2
      <3>2. S.field[n] \in {S.kids[n], <<>>}
        BY <1>10, <3>1 DEF Mirrors, Mirrored
      <3>3. QED
        BY <1>8, <1>k, <1>f, <2>1, <2>2, <3>2 DEF Mirrored
    <2>3. CASE n \notin F
      <3>1. T.field[n] \in {T.kids[n], <<>>}
        BY <1>10, <2>1 DEF Mirrors, Mirrored
      <3>2. QED
        BY <1>8, <1>k, <1>f, <2>1, <2>3, <3>1 DEF Mirrored
    <2>4. QED
      BY <2>2, <2>3
  <1>11. QED
    BY <1>7, <1>9, <1>10 DEF Sound, Mirrors

\* _detach, whatever the children have become since it read the indexes.
LEMMA DetachedSound ==
  ASSUME NEW A \in SUBSET Nodes, NEW m \in Moves(A), NEW T, T = doc[m.src], Sound(T, A),
         NEW R, R = Detached(m)
  PROVE  Sound(R, A) /\ (Mirrors(T) => Mirrors(R))
  <1>p. PICK p : p = m.cut.of
    OBVIOUS
  <1>c. PICK c : c = Splice(T.kids[p], m.cut.from - 1, m.cut.to, <<>>)
    OBVIOUS
  <1>s. PICK S : S = Shifted(T, p, c)
    OBVIOUS
  <1>1. p \in A /\ m.cut.from - 1 \in Nat /\ m.cut.to \in Nat /\ m.roots \in Seq(A)
    BY <1>p DEF Moves, Cuts
  <1>2. R = Unregistered(S, m.roots)
    BY <1>p, <1>c, <1>s DEF Detached, Shifted
  <1>3. c \in Seq(A)
    <2>1. T.kids[p] \in Seq(A) /\ <<>> \in Seq(A)
      BY <1>1 DEF Sound, TreeDocs
    <2>2. QED
      BY <1>1, <1>c, <2>1, SpliceTyped
  <1>4. Sound(S, A) /\ (Mirrors(T) => Mirrors(S))
    BY <1>1, <1>3, <1>s, UnsyncedSound
  <1>5. Sound(R, A) /\ SameTree(S, R)
    BY <1>1, <1>2, <1>4, UnregisteredSound
  <1>6. QED
    BY <1>4, <1>5, SameMirrors

\* An address that resolves is a place in the tree.
LEMMA ResolvesAddresses ==
  ASSUME NEW A \in SUBSET Nodes, NEW T \in TreeDocs(A), NEW at \in Ats, Resolves(T, at)
  PROVE  Addresses(T, at, ParentAt(T, at))
  <1>1. at.node \in Nodes /\ T.up[at.node] \in Nodes \cup {NoNode}
    BY DEF Ats, TreeDocs
  <1>2. QED
    BY <1>1 DEF Resolves, Addresses, ParentAt

\* _attach, at a place among the children there were.
LEMMA AttachedSound ==
  ASSUME NEW A \in SUBSET Nodes, NEW m \in Moves(A), NEW O, O = doc[m.dst], Sound(O, A),
         Resolves(O, m.at), NEW T, Sound(T, A), NEW R, R = Attached(m, T)
  PROVE  Sound(R, A) /\ (Mirrors(T) => Mirrors(R))
  <1>p. PICK p : p = ParentAt(O, m.at)
    OBVIOUS
  <1>i. PICK i : i = Spot(O, m.at)
    OBVIOUS
  <1>c. PICK c : c = Splice(T.kids[p], i, i, m.roots)
    OBVIOUS
  <1>s. PICK S : S = Shifted(T, p, c)
    OBVIOUS
  <1>l. PICK L : L = Adopted(S, p, m.roots)
    OBVIOUS
  <1>w. PICK new : new = Walked(T, m.roots)
    OBVIOUS
  <1>0. T \in TreeDocs(A) /\ O \in TreeDocs(A) /\ m.at \in Ats /\ m.roots \in Seq(A)
    BY DEF Moves, Sound
  <1>1. R = Registered(L, new)
    BY <1>p, <1>i, <1>c, <1>s, <1>l, <1>w DEF Attached, Shifted
  <1>2. Addresses(O, m.at, p)
    BY <1>0, <1>p, ResolvesAddresses
  <1>3. p \in Nodes /\ i \in Nat
    <2>1. i \in 0 .. Len(O.kids[p])
      BY <1>0, <1>2, <1>i, SpotTyped
    <2>2. QED
      BY <1>2, <2>1 DEF Addresses
  <1>4. c \in Seq(A)
    <2>1. T.kids[p] \in Seq(A)
      BY <1>0, <1>3 DEF TreeDocs
    <2>2. QED
      BY <1>0, <1>3, <1>c, <2>1, SpliceTyped
  <1>5. Sound(S, A) /\ (Mirrors(T) => Mirrors(S))
    BY <1>3, <1>4, <1>s, UnsyncedSound
  <1>6. Sound(L, A) /\ SameTree(S, L)
    BY <1>3, <1>5, <1>l, AdoptedSound
  <1>7. new \in Seq(A)
    BY <1>0, <1>w, UnderTyped DEF TreeDocs
  <1>8. Sound(R, A) /\ SameTree(L, R)
    BY <1>1, <1>6, <1>7, RegisteredSound
  <1>9. QED
    BY <1>5, <1>6, <1>8, SameMirrors

\* core.move leaves both documents sound, and no other document changed.
LEMMA MovedSound ==
  ASSUME NEW A \in SUBSET Nodes, NEW m \in Moves(A), DOMAIN doc = Docs,
         \A d \in Docs : Sound(doc[d], A) /\ Mirrors(doc[d]), Admitted(m),
         NEW D, D = MovedDocs(m)
  PROVE  /\ DOMAIN D = Docs
         /\ \A d \in Docs : Sound(D[d], A) /\ Mirrors(D[d])
         /\ \A d \in Docs \ {m.src, m.dst} : D[d] = doc[d]
  <1>s. PICK S : S = Detached(m)
    OBVIOUS
  <1>f. PICK F : F = Fragment(S, m.roots)
    OBVIOUS
  <1>0. m.src \in Docs /\ m.dst \in Docs
    BY DEF Moves
  <1>1. Resolves(doc[m.dst], m.at)
    BY DEF Admitted
  <1>2. Sound(S, A) /\ Mirrors(S)
    BY <1>0, <1>s, DetachedSound
  <1>3. ASSUME NEW T, Sound(T, A), Mirrors(T)
        PROVE  Sound(Attached(m, T), A) /\ Mirrors(Attached(m, T))
    BY <1>0, <1>1, <1>3, AttachedSound
  <1>4. CASE m.src = m.dst
    <2>1. D = [doc EXCEPT ![m.src] = Attached(m, S)]
      BY <1>4, <1>s DEF MovedDocs
    <2>2. Sound(Attached(m, S), A) /\ Mirrors(Attached(m, S))
      BY <1>2, <1>3
    <2>3. QED
      BY <1>0, <1>4, <2>1, <2>2
  <1>5. CASE m.src # m.dst
    <2>w. PICK W : W = Without(S, F)
      OBVIOUS
    <2>j. PICK J : J = With(doc[m.dst], S, F)
      OBVIOUS
    <2>t. PICK T : T = Attached(m, J)
      OBVIOUS
    <2>1. D = [doc EXCEPT ![m.src] = W, ![m.dst] = T]
      BY <1>0, <1>5, <1>s, <1>f, <2>w, <2>j, <2>t DEF MovedDocs
    <2>2. Sound(W, A) /\ Mirrors(W)
      BY <1>2, <2>w, WithoutSound
    <2>3. Sound(J, A) /\ Mirrors(J)
      BY <1>0, <1>2, <2>j, WithSound
    <2>4. Sound(T, A) /\ Mirrors(T)
      BY <1>3, <2>3, <2>t
    <2>5. QED
      BY <1>0, <1>5, <2>1, <2>2, <2>4
  <1>6. QED
    BY <1>4, <1>5

-----------------------------------------------------------------------------
(* The inductive invariant.                                                *)

\* The types, with everything minted so far in place of all nodes.
Typed ==
  /\ DOMAIN doc = Docs /\ \A d \in Docs : Sound(doc[d], 1 .. minted)
  /\ DOMAIN file = Docs
  /\ \A d \in Docs : file[d] \in TreeFiles(1 .. minted) /\ Numbered(file[d])
  /\ minted \in Born .. Pool /\ edits \in 0 .. MaxEdits
  /\ pending \in {NoMove} \cup Moves(1 .. minted)
  /\ refused \subseteq Docs /\ strayed \in BOOLEAN

\* Every document is indexed, but between the splice of a move and its commit,
\* and after an edit that was refused.
IndexesKept == \A d \in Docs : InTail(d) \/ d \in refused \/ Indexed(doc[d])

\* What a file mirrors, the document loaded from it does, and the reverse.
FieldsKept == \A d \in Docs : Mirrors(doc[d]) /\ Mirrors(file[d])

IInv == Typed /\ IndexesKept /\ FieldsKept

\* The nodes minted so far are nodes.
LEMMA MintedNodes ==
  ASSUME Typed
  PROVE  minted \in Nat /\ Born \in Nat /\ Born <= minted /\ minted <= Pool
         /\ Pool \in Nat /\ 1 .. minted \in SUBSET Nodes
  BY SizesAssumption DEF Typed, Nodes

\* A move stays one when nodes are minted.
LEMMA WiderMoves ==
  ASSUME NEW A, NEW B, A \subseteq B, NEW m \in Moves(A)
  PROVE  m \in Moves(B)
  <1>1. m.roots \in Seq(B) \ {<<>>}
    <2>1. m.roots \in Seq(A) /\ m.roots # <<>>
      BY DEF Moves
    <2>2. QED
      BY <2>1, SeqOver
  <1>2. m.cut \in Cuts(B)
    BY DEF Moves, Cuts
  <1>3. QED
    BY <1>1, <1>2 DEF Moves

\* The documents start as their files load.
LEMMA InitInv == Init => IInv
  <1> SUFFICES ASSUME Init PROVE IInv
    OBVIOUS
  <1>0. /\ Born \in Nat /\ Pool \in Nat /\ Born <= Pool /\ MaxEdits \in Nat
        /\ 1 .. Born \in SUBSET Nodes
    BY SizesAssumption DEF Nodes
  <1>1. ASSUME NEW d \in Docs
        PROVE  /\ Sound(doc[d], 1 .. Born) /\ Indexed(doc[d]) /\ Mirrors(doc[d])
               /\ file[d] \in TreeFiles(1 .. Born) /\ Numbered(file[d]) /\ Mirrors(file[d])
    <2>f. PICK f : f = FirstFile(d)
      OBVIOUS
    <2>t. PICK T : T = Loaded(d, f)
      OBVIOUS
    <2>g. PICK g : g = Saved(T)
      OBVIOUS
    <2>1. f \in TreeFiles(1 .. Born) /\ Numbered(f) /\ Mirrors(f)
      BY <2>f, FirstFileSound
    <2>2. Root[d] \in 1 .. Born
      BY TreesAssumption
    <2>3. Sound(T, 1 .. Born) /\ Indexed(T) /\ Mirrors(T)
      BY <1>0, <2>1, <2>2, <2>t, LoadedSound
    <2>4. g \in TreeFiles(1 .. Born) /\ Numbered(g) /\ Mirrors(g)
      BY <1>0, <2>3, <2>g, SavedSound
    <2>5. doc[d] = T /\ file[d] = g
      BY <2>f, <2>t, <2>g DEF Init
    <2>6. QED
      BY <2>3, <2>4, <2>5
  <1>2. Typed
    <2>1. DOMAIN doc = Docs /\ DOMAIN file = Docs
      BY DEF Init
    <2>2. minted = Born /\ edits = 0 /\ pending = NoMove /\ refused = {} /\ strayed = FALSE
      BY DEF Init
    <2>3. \A d \in Docs : Sound(doc[d], 1 .. minted)
      BY <1>1, <2>2
    <2>4. \A d \in Docs : file[d] \in TreeFiles(1 .. minted) /\ Numbered(file[d])
      BY <1>1, <2>2
    <2>5. minted \in Born .. Pool /\ edits \in 0 .. MaxEdits
      BY <1>0, <2>2
    <2>6. QED
      BY <2>1, <2>2, <2>3, <2>4, <2>5 DEF Typed
  <1>3. QED
    BY <1>1, <1>2 DEF IInv, IndexesKept, FieldsKept

\* A document edited below one parent and committed: what the commands and the
\* end of a move have in common.
LEMMA CommitKeeps ==
  ASSUME IInv, NEW d \in Docs, NEW U, NEW p, Edited(doc[d], U, p, 1 .. minted'),
         Commit(d, U, p), minted' \in minted .. Pool, edits' \in 0 .. MaxEdits,
         pending' \in {NoMove} \cup Moves(1 .. minted'),
         \A e \in Docs \ {d} : InTail(e) => InTail(e)',
         file' = file, strayed' = strayed
  PROVE  IInv'
  <1>a. PICK A : A = 1 .. minted
    OBVIOUS
  <1>b. PICK B : B = 1 .. minted'
    OBVIOUS
  <1>r. PICK R : R = Closed(U, p)
    OBVIOUS
  <1>0. /\ Typed /\ IndexesKept /\ FieldsKept
    BY DEF IInv
  <1>1. minted' \in Born .. Pool /\ A \subseteq B /\ B \in SUBSET Nodes
    BY <1>0, <1>a, <1>b, MintedNodes DEF Nodes
  <1>2. \A e \in Docs : Sound(doc[e], B)
    <2>1. \A e \in Docs : Sound(doc[e], A)
      BY <1>0, <1>a DEF Typed
    <2>2. QED
      BY <1>1, <2>1, Wider
  <1>3. \A e \in Docs : file[e] \in TreeFiles(B) /\ Numbered(file[e])
    <2>1. \A e \in Docs : file[e] \in TreeFiles(A) /\ Numbered(file[e])
      BY <1>0, <1>a DEF Typed
    <2>2. QED
      BY <1>1, <2>1, WiderFile
  <1>4. Sound(R, B) /\ Mirrors(R) /\ (Refuses(U, p) \/ Indexed(R))
    <2>1. Sound(doc[d], B) /\ Mirrors(doc[d]) /\ Edited(doc[d], U, p, B)
      BY <1>0, <1>2, <1>b DEF FieldsKept
    <2>2. QED
      BY <1>1, <1>r, <2>1, ClosedSound
  <1>5. DOMAIN doc' = Docs /\ doc'[d] = R /\ \A e \in Docs \ {d} : doc'[e] = doc[e]
    BY <1>0, <1>r DEF Commit, Typed
  <1>6. /\ refused' \subseteq Docs /\ (Refuses(U, p) => d \in refused')
        /\ \A e \in Docs \ {d} : e \in refused => e \in refused'
    BY <1>0 DEF Commit, Typed
  <1>7. Typed'
    <2>1. \A e \in Docs : Sound(doc'[e], 1 .. minted')
      BY <1>2, <1>4, <1>5, <1>b
    <2>2. \A e \in Docs : file'[e] \in TreeFiles(1 .. minted') /\ Numbered(file'[e])
      BY <1>3, <1>b
    <2>3. DOMAIN file' = Docs /\ strayed' \in BOOLEAN
      BY <1>0 DEF Typed
    <2>4. QED
      BY <1>1, <1>5, <1>6, <2>1, <2>2, <2>3 DEF Typed
  <1>8. IndexesKept'
    <2>1. ASSUME NEW e \in Docs PROVE InTail(e)' \/ e \in refused' \/ Indexed(doc'[e])
      <3>1. CASE e = d
        BY <1>4, <1>5, <1>6, <3>1
      <3>2. CASE e # d
        BY <1>0, <1>5, <1>6, <3>2 DEF IndexesKept
      <3>3. QED
        BY <3>1, <3>2
    <2>2. QED
      BY <2>1 DEF IndexesKept
  <1>9. FieldsKept'
    BY <1>0, <1>4, <1>5 DEF FieldsKept
  <1>10. QED
    BY <1>7, <1>8, <1>9 DEF IInv

\* What the commands that mint nodes and edit below one parent share.
LEMMA EditKeeps ==
  ASSUME IInv, Command, UNCHANGED <<file, pending, strayed>>,
         NEW d \in Docs, NEW U, NEW p, NEW m \in Nat, MayMint(m), minted' = minted + m,
         Sound(doc[d], 1 .. minted + m) => Edited(doc[d], U, p, 1 .. minted + m),
         Commit(d, U, p)
  PROVE  IInv'
  <1>0. Typed
    BY DEF IInv
  <1>1. minted \in Nat /\ 1 .. minted \subseteq 1 .. minted + m /\ minted' \in minted .. Pool
    BY <1>0, MintedNodes DEF MayMint
  <1>2. Edited(doc[d], U, p, 1 .. minted')
    <2>1. Sound(doc[d], 1 .. minted)
      BY <1>0 DEF Typed
    <2>2. Sound(doc[d], 1 .. minted + m)
      BY <1>1, <2>1, Wider
    <2>3. QED
      BY <2>2
  <1>3. edits' \in 0 .. MaxEdits
    BY <1>0, SizesAssumption DEF Command, MayEdit, Typed
  <1>4. pending' \in {NoMove} \cup Moves(1 .. minted')
    <2>1. pending' = pending /\ pending \in {NoMove} \cup Moves(1 .. minted)
      BY <1>0 DEF Typed
    <2>2. CASE pending = NoMove
      BY <2>1, <2>2
    <2>3. CASE pending \in Moves(1 .. minted)
      BY <1>1, <2>1, <2>3, WiderMoves
    <2>4. QED
      BY <2>1, <2>2, <2>3
  <1>5. \A e \in Docs \ {d} : InTail(e) => InTail(e)'
    BY DEF InTail
  <1>6. QED
    BY <1>1, <1>2, <1>3, <1>4, <1>5, CommitKeeps

\* A fragment is a sequence of the nodes minted for it.
LEMMA FreshTyped ==
  ASSUME minted \in Nat, NEW m \in Nat
  PROVE  Fresh(m) \in Seq(1 .. minted + m)
  <1>1. Fresh(m) \in [1 .. m -> 1 .. minted + m]
    BY DEF Fresh
  <1>2. QED
    BY <1>1, FunctionIsSeq

\* The addresses commands are given are addresses.
LEMMA PlacesAreAts ==
  ASSUME NEW at \in Places(Given)
  PROVE  at \in Ats
  <1>1. Given \subseteq Hows /\ Offsets \subseteq Nat
    BY PlacesAssumption, SizesAssumption
  <1>2. CASE at \in [how : Given \ {"child_index"}, node : Nodes, index : {0}]
    BY <1>1, <1>2 DEF Ats
  <1>3. CASE at \in [how : Given \cap {"child_index"}, node : Nodes, index : Offsets]
    BY <1>1, <1>3 DEF Ats
  <1>4. QED
    BY <1>2, <1>3 DEF Places

\* insert.
LEMMA InsertKeeps ==
  ASSUME IInv, NEW d \in Docs, NEW at \in Places(Given), NEW m \in 1 .. MaxFragment,
         Insert(d, at, m)
  PROVE  IInv'
  <1>u. PICK U : U = InsertAll(doc[d], Fresh(m), at)
    OBVIOUS
  <1>p. PICK p : p = ParentAt(doc[d], at)
    OBVIOUS
  <1>1. /\ Command /\ Resolves(doc[d], at) /\ MayMint(m) /\ minted' = minted + m
        /\ Commit(d, U, p) /\ UNCHANGED <<file, pending, strayed>>
    BY <1>u, <1>p DEF Insert, Minted
  <1>2. m \in Nat /\ minted \in Nat /\ 1 .. minted + m \in SUBSET Nodes
    BY <1>1, SizesAssumption, MintedNodes DEF IInv, MayMint, Nodes
  <1>3. ASSUME Sound(doc[d], 1 .. minted + m)
        PROVE  Edited(doc[d], U, p, 1 .. minted + m)
    <2>1. at \in Ats /\ Fresh(m) \in Seq(1 .. minted + m)
      BY <1>2, PlacesAreAts, FreshTyped
    <2>2. Addresses(doc[d], at, p)
      BY <1>1, <1>2, <1>3, <1>p, <2>1, ResolvesAddresses DEF Sound
    <2>3. QED
      BY <1>2, <1>3, <1>u, <2>1, <2>2, InsertAllSound
  <1>4. QED
    BY <1>1, <1>2, <1>3, EditKeeps

\* What _nodes returns cuts the children there are.
LEMMA RunsCut ==
  ASSUME NEW A, NEW d \in Docs, Sound(doc[d], A), A \subseteq Nodes, NEW r \in Runs(d)
  PROVE  Cutting(doc[d], r, A)
  <1>0. PICK p \in doc[d].known : \E i \in DOMAIN doc[d].kids[p] :
          \E j \in i .. Len(doc[d].kids[p]) : r = [of |-> p, from |-> i, to |-> j]
    BY DEF Runs
  <1>1. PICK i \in DOMAIN doc[d].kids[p] :
          \E j \in i .. Len(doc[d].kids[p]) : r = [of |-> p, from |-> i, to |-> j]
    BY <1>0
  <1>2. PICK j \in i .. Len(doc[d].kids[p]) : r = [of |-> p, from |-> i, to |-> j]
    BY <1>1
  <1>3. p \in A /\ doc[d].kids[p] \in Seq(A)
    BY DEF Sound, TreeDocs
  <1>4. i \in Nat \ {0} /\ j \in Nat /\ i <= j /\ j <= Len(doc[d].kids[p])
    BY <1>2, <1>3
  <1>5. QED
    BY <1>2, <1>3, <1>4 DEF Cutting, Cuts

\* delete.
LEMMA DeleteKeeps ==
  ASSUME IInv, NEW d \in Docs, NEW r \in Runs(d), Delete(d, r)
  PROVE  IInv'
  <1>u. PICK U : U = Deleted(doc[d], r)
    OBVIOUS
  <1>0. Typed
    BY DEF IInv
  <1>1. minted \in Nat /\ minted <= Pool /\ 1 .. minted \in SUBSET Nodes /\ minted + 0 = minted
    BY <1>0, MintedNodes
  <1>2. /\ Command /\ MayMint(0) /\ minted' = minted + 0
        /\ Commit(d, U, r.of) /\ UNCHANGED <<file, pending, strayed>>
    BY <1>1, <1>u DEF Delete, MayMint
  <1>3. ASSUME Sound(doc[d], 1 .. minted + 0)
        PROVE  Edited(doc[d], U, r.of, 1 .. minted + 0)
    BY <1>1, <1>3, <1>u, RunsCut, DeletedSound
  <1>4. QED
    BY <1>2, <1>3, EditKeeps

\* replace.
LEMMA ReplaceKeeps ==
  ASSUME IInv, NEW d \in Docs, NEW r \in Runs(d), NEW m \in 1 .. MaxFragment, Replace(d, r, m)
  PROVE  IInv'
  <1>u. PICK U : U = Replaced(doc[d], r, Fresh(m))
    OBVIOUS
  <1>1. /\ Command /\ MayMint(m) /\ minted' = minted + m
        /\ Commit(d, U, r.of) /\ UNCHANGED <<file, pending, strayed>>
    BY <1>u DEF Replace, Minted
  <1>2. m \in Nat /\ minted \in Nat /\ 1 .. minted + m \in SUBSET Nodes
    BY <1>1, SizesAssumption, MintedNodes DEF IInv, MayMint, Nodes
  <1>3. ASSUME Sound(doc[d], 1 .. minted + m)
        PROVE  Edited(doc[d], U, r.of, 1 .. minted + m)
    <2>1. Fresh(m) \in Seq(1 .. minted + m)
      BY <1>2, FreshTyped
    <2>2. Cutting(doc[d], r, 1 .. minted + m)
      BY <1>2, <1>3, RunsCut
    <2>3. QED
      BY <1>2, <1>3, <1>u, <2>1, <2>2, ReplacedSound
  <1>4. QED
    BY <1>1, <1>2, <1>3, EditKeeps

\* set_body.
LEMMA SetBodyKeeps ==
  ASSUME IInv, NEW d \in Docs, NEW p \in Nodes, NEW m \in 1 .. MaxFragment, SetBody(d, p, m)
  PROVE  IInv'
  <1>u. PICK U : U = Rebodied(doc[d], p, Fresh(m))
    OBVIOUS
  <1>1. /\ Command /\ MayMint(m) /\ minted' = minted + m /\ p \in doc[d].known
        /\ Commit(d, U, p) /\ UNCHANGED <<file, pending, strayed>>
    BY <1>u DEF SetBody, Minted
  <1>2. m \in Nat /\ minted \in Nat /\ 1 .. minted + m \in SUBSET Nodes
    BY <1>1, SizesAssumption, MintedNodes DEF IInv, MayMint, Nodes
  <1>3. ASSUME Sound(doc[d], 1 .. minted + m)
        PROVE  Edited(doc[d], U, p, 1 .. minted + m)
    <2>1. Fresh(m) \in Seq(1 .. minted + m)
      BY <1>2, FreshTyped
    <2>2. p \in 1 .. minted + m
      BY <1>1, <1>3 DEF Sound, TreeDocs
    <2>3. QED
      BY <1>2, <1>3, <1>u, <2>1, <2>2, RebodiedSound
  <1>4. QED
    BY <1>1, <1>2, <1>3, EditKeeps

\* What the steps that mint nothing, and change what they change soundly, share.
LEMMA StepKeeps ==
  ASSUME IInv, minted' = minted, edits' \in 0 .. MaxEdits,
         pending' \in {NoMove} \cup Moves(1 .. minted),
         refused' \subseteq Docs, strayed' \in BOOLEAN,
         DOMAIN doc' = Docs, DOMAIN file' = Docs,
         \A d \in Docs : Sound(doc'[d], 1 .. minted) /\ Mirrors(doc'[d]),
         \A d \in Docs : /\ file'[d] \in TreeFiles(1 .. minted)
                         /\ Numbered(file'[d]) /\ Mirrors(file'[d]),
         \A d \in Docs : InTail(d)' \/ d \in refused' \/ Indexed(doc'[d])
  PROVE  IInv'
  <1>1. minted' \in Born .. Pool
    BY DEF IInv, Typed
  <1>2. Typed'
    BY <1>1 DEF Typed
  <1>3. QED
    BY <1>2 DEF IInv, IndexesKept, FieldsKept

\* What the invariant says, for a step that leaves a part alone.
LEMMA InvParts ==
  ASSUME IInv
  PROVE  /\ edits \in 0 .. MaxEdits /\ pending \in {NoMove} \cup Moves(1 .. minted)
         /\ refused \subseteq Docs /\ strayed \in BOOLEAN
         /\ DOMAIN doc = Docs /\ DOMAIN file = Docs
         /\ 1 .. minted \in SUBSET Nodes
         /\ \A d \in Docs : Sound(doc[d], 1 .. minted) /\ Mirrors(doc[d])
         /\ \A d \in Docs : /\ file[d] \in TreeFiles(1 .. minted)
                            /\ Numbered(file[d]) /\ Mirrors(file[d])
         /\ \A d \in Docs : InTail(d) \/ d \in refused \/ Indexed(doc[d])
  BY MintedNodes DEF IInv, Typed, IndexesKept, FieldsKept

\* facade.move looks up its addresses and its range.
LEMMA MoveResolveKeeps ==
  ASSUME IInv, NEW s \in Docs, NEW r \in Runs(s), NEW t \in Docs, NEW at \in Places(Given),
         MoveResolve(s, r, t, at)
  PROVE  IInv'
  <1>a. PICK A : A = 1 .. minted
    OBVIOUS
  <1>1. /\ UNCHANGED <<doc, file, minted, refused, strayed>> /\ Command /\ pending = NoMove
        /\ pending' = [stage |-> "resolved", src |-> s, dst |-> t, at |-> at,
                       cut |-> r, roots |-> Run(doc[s], r)]
    BY DEF MoveResolve
  <1>2. edits' \in 0 .. MaxEdits
    BY <1>1, InvParts, SizesAssumption DEF Command, MayEdit
  <1>3. Cutting(doc[s], r, A) /\ A \in SUBSET Nodes /\ doc[s] \in TreeDocs(A)
    BY <1>a, InvParts, RunsCut DEF Sound
  <1>4. Run(doc[s], r) \in Seq(A) \ {<<>>} /\ r \in Cuts(A) /\ at \in Ats
    BY <1>3, RunTyped, PlacesAreAts DEF Cutting
  <1>5. pending' \in Moves(A)
    BY <1>1, <1>4 DEF Moves
  <1>6. \A d \in Docs : ~InTail(d)
    BY <1>1 DEF InTail, NoMove
  <1>7. \A d \in Docs : d \in refused' \/ Indexed(doc'[d])
    BY <1>1, <1>6, InvParts
  <1>8. pending' \in {NoMove} \cup Moves(1 .. minted)
    BY <1>5, <1>a
  <1>9. /\ minted' = minted /\ refused' = refused /\ strayed' = strayed
        /\ doc' = doc /\ file' = file
    BY <1>1
  <1>10. QED
    BY <1>2, <1>7, <1>8, <1>9, InvParts, StepKeeps

\* core.move, under the locks.
LEMMA MoveSpliceKeeps ==
  ASSUME IInv, MoveSplice
  PROVE  IInv'
  <1>m. PICK m : m = pending
    OBVIOUS
  <1>d. PICK D : D = MovedDocs(m)
    OBVIOUS
  <1>1. /\ m.stage = "resolved" /\ Admitted(m) /\ doc' = D
        /\ pending' = [m EXCEPT !.stage = "source"] /\ strayed' \in BOOLEAN
        /\ file' = file /\ minted' = minted /\ edits' = edits /\ refused' = refused
    BY <1>m, <1>d DEF MoveSplice
  <1>2. m \in Moves(1 .. minted)
    <2>1. m # NoMove
      BY <1>1 DEF NoMove
    <2>2. QED
      BY <1>m, <2>1, InvParts
  <1>3. /\ pending' \in Moves(1 .. minted)
        /\ pending'.stage = "source" /\ pending'.src = m.src /\ pending'.dst = m.dst
    BY <1>1, <1>2 DEF Moves
  <1>4. /\ DOMAIN D = Docs
        /\ \A d \in Docs : Sound(D[d], 1 .. minted) /\ Mirrors(D[d])
        /\ \A d \in Docs \ {m.src, m.dst} : D[d] = doc[d]
    <2>a. PICK A : A = 1 .. minted
      OBVIOUS
    <2>1. /\ A \in SUBSET Nodes /\ m \in Moves(A) /\ DOMAIN doc = Docs
          /\ \A d \in Docs : Sound(doc[d], A) /\ Mirrors(doc[d])
      BY <1>2, <2>a, InvParts
    <2>2. /\ DOMAIN D = Docs
          /\ \A d \in Docs : Sound(D[d], A) /\ Mirrors(D[d])
          /\ \A d \in Docs \ {m.src, m.dst} : D[d] = doc[d]
      BY <1>1, <1>d, <2>1, MovedSound
    <2>3. QED
      BY <2>a, <2>2
  <1>5. ASSUME NEW d \in Docs PROVE InTail(d)' \/ d \in refused' \/ Indexed(doc'[d])
    <2>1. CASE d \in {m.src, m.dst}
      BY <1>3, <2>1 DEF InTail
    <2>2. CASE d \notin {m.src, m.dst}
      <3>1. doc'[d] = doc[d]
        BY <1>1, <1>4, <2>2
      <3>2. ~InTail(d)
        BY <1>1, <1>m DEF InTail
      <3>3. QED
        BY <1>1, <3>1, <3>2, InvParts
    <2>3. QED
      BY <2>1, <2>2
  <1>6. DOMAIN doc' = Docs /\ \A d \in Docs : Sound(doc'[d], 1 .. minted) /\ Mirrors(doc'[d])
    BY <1>1, <1>4
  <1>7. QED
    BY <1>1, <1>3, <1>5, <1>6, InvParts, StepKeeps

\* A move that the preflight refuses is forgotten.
LEMMA MoveRefusedKeeps ==
  ASSUME IInv, MoveRefused
  PROVE  IInv'
  <1>1. /\ pending.stage = "resolved" /\ pending' = NoMove
        /\ doc' = doc /\ file' = file /\ minted' = minted /\ edits' = edits
        /\ refused' = refused /\ strayed' = strayed
    BY DEF MoveRefused
  <1>2. \A d \in Docs : ~InTail(d)
    BY <1>1 DEF InTail
  <1>3. \A d \in Docs : d \in refused' \/ Indexed(doc'[d])
    BY <1>1, <1>2, InvParts
  <1>4. QED
    BY <1>1, <1>3, InvParts, StepKeeps

\* The first commit of a move.
LEMMA MoveCommitSourceKeeps ==
  ASSUME IInv, MoveCommitSource
  PROVE  IInv'
  <1>m. PICK m : m = pending
    OBVIOUS
  <1>p. PICK p : p = m.cut.of
    OBVIOUS
  <1>r. PICK R : R = Closed(doc[m.src], p)
    OBVIOUS
  <1>1. /\ m.stage = "source" /\ doc' = [doc EXCEPT ![m.src] = R]
        /\ file' = file /\ minted' = minted /\ edits' = edits /\ strayed' = strayed
    BY <1>m, <1>p, <1>r DEF MoveCommitSource
  <1>2. m \in Moves(1 .. minted)
    <2>1. m # NoMove
      BY <1>1 DEF NoMove
    <2>2. QED
      BY <1>m, <2>1, InvParts
  <1>3. \/ /\ Refuses(doc[m.src], p)
           /\ pending' = NoMove /\ refused' = refused \cup {m.src, m.dst}
        \/ /\ ~Refuses(doc[m.src], p)
           /\ refused' = refused \ {m.src}
           /\ pending' = IF m.src = m.dst THEN NoMove ELSE [m EXCEPT !.stage = "target"]
    BY <1>m, <1>p DEF MoveCommitSource
  <1>4. Sound(R, 1 .. minted) /\ Mirrors(R) /\ (Refuses(doc[m.src], p) \/ Indexed(R))
    <2>a. PICK A : A = 1 .. minted
      OBVIOUS
    <2>t. PICK T : T = doc[m.src]
      OBVIOUS
    <2>1. A \in SUBSET Nodes /\ Sound(T, A) /\ Mirrors(T)
      BY <1>2, <2>a, <2>t, InvParts DEF Moves
    <2>2. Edited(T, T, p, A)
      BY <2>1 DEF Edited
    <2>3. Sound(R, A) /\ Mirrors(R) /\ (Refuses(T, p) \/ Indexed(R))
      BY <1>r, <2>t, <2>1, <2>2, ClosedSound
    <2>4. QED
      BY <2>a, <2>t, <2>3
  <1>5. /\ m.src \in Docs /\ m.dst \in Docs /\ DOMAIN doc' = Docs /\ doc'[m.src] = R
        /\ \A d \in Docs \ {m.src} : doc'[d] = doc[d]
    BY <1>1, <1>2, InvParts DEF Moves
  <1>6. \A d \in Docs : Sound(doc'[d], 1 .. minted) /\ Mirrors(doc'[d])
    BY <1>4, <1>5, InvParts
  <1>7. pending' \in {NoMove} \cup Moves(1 .. minted) /\ refused' \subseteq Docs
    <2>1. [m EXCEPT !.stage = "target"] \in Moves(1 .. minted)
      BY <1>2 DEF Moves
    <2>2. QED
      BY <1>3, <1>5, <2>1, InvParts
  <1>8. ASSUME NEW d \in Docs PROVE InTail(d)' \/ d \in refused' \/ Indexed(doc'[d])
    <2>1. CASE Refuses(doc[m.src], p)
      <3>1. CASE d \in {m.src, m.dst}
        BY <1>3, <2>1, <3>1
      <3>2. CASE d \notin {m.src, m.dst}
        <4>1. ~InTail(d) /\ doc'[d] = doc[d]
          BY <1>1, <1>5, <1>m, <3>2 DEF InTail
        <4>2. QED
          BY <1>3, <2>1, <4>1, InvParts
      <3>3. QED
        BY <3>1, <3>2
    <2>2. CASE ~Refuses(doc[m.src], p)
      <3>1. CASE d = m.src
        BY <1>4, <1>5, <2>2, <3>1
      <3>2. CASE d # m.src /\ d = m.dst
        <4>1. pending' = [m EXCEPT !.stage = "target"]
          BY <1>3, <2>2, <3>2
        <4>2. pending'.stage = "target" /\ pending'.dst = m.dst
          BY <1>2, <4>1 DEF Moves
        <4>3. QED
          BY <3>2, <4>2 DEF InTail
      <3>3. CASE d \notin {m.src, m.dst}
        <4>1. ~InTail(d) /\ doc'[d] = doc[d]
          BY <1>1, <1>5, <1>m, <3>3 DEF InTail
        <4>2. QED
          BY <1>3, <2>2, <3>3, <4>1, InvParts
      <3>4. QED
        BY <3>1, <3>2, <3>3
    <2>3. QED
      BY <2>1, <2>2
  <1>9. QED
    BY <1>1, <1>5, <1>6, <1>7, <1>8, InvParts, StepKeeps

\* The second.
LEMMA MoveCommitTargetKeeps ==
  ASSUME IInv, MoveCommitTarget
  PROVE  IInv'
  <1>d. PICK d : d = pending.dst
    OBVIOUS
  <1>p. PICK p : p = doc[d].up[pending.roots[1]]
    OBVIOUS
  <1>1. /\ pending.stage = "target" /\ Commit(d, doc[d], p) /\ pending' = NoMove
        /\ file' = file /\ minted' = minted /\ edits' = edits /\ strayed' = strayed
    BY <1>d, <1>p DEF MoveCommitTarget
  <1>2. d \in Docs
    <2>1. pending # NoMove
      BY <1>1 DEF NoMove
    <2>2. QED
      BY <1>d, <2>1, InvParts DEF Moves
  <1>3. Edited(doc[d], doc[d], p, 1 .. minted')
    BY <1>1, <1>2, InvParts DEF Edited
  <1>4. \A e \in Docs \ {d} : InTail(e) => InTail(e)'
    BY <1>1, <1>d DEF InTail
  <1>5. minted' \in minted .. Pool
    BY <1>1, MintedNodes DEF IInv
  <1>6. QED
    BY <1>1, <1>2, <1>3, <1>4, <1>5, InvParts, CommitKeeps

\* A write leaves the documents alone.
LEMMA WriteKeeps ==
  ASSUME IInv, NEW d \in Docs, Write(d)
  PROVE  IInv'
  <1>a. PICK A : A = 1 .. minted
    OBVIOUS
  <1>f. PICK f : f = Saved(doc[d])
    OBVIOUS
  <1>1. /\ file' = [file EXCEPT ![d] = f]
        /\ doc' = doc /\ minted' = minted /\ edits' = edits /\ pending' = pending
        /\ refused' = refused /\ strayed' = strayed
    BY <1>f DEF Write
  <1>2. f \in TreeFiles(A) /\ Numbered(f) /\ Mirrors(f)
    <2>1. A \in SUBSET Nodes /\ Sound(doc[d], A) /\ Mirrors(doc[d])
      BY <1>a, InvParts
    <2>2. QED
      BY <1>f, <2>1, SavedSound
  <1>3. /\ DOMAIN file' = Docs
        /\ \A e \in Docs : file'[e] \in TreeFiles(A) /\ Numbered(file'[e]) /\ Mirrors(file'[e])
    BY <1>1, <1>2, <1>a, InvParts
  <1>4. \A e \in Docs : InTail(e)' \/ e \in refused' \/ Indexed(doc'[e])
    BY <1>1, InvParts DEF InTail
  <1>5. \A e \in Docs : Sound(doc'[e], 1 .. minted) /\ Mirrors(doc'[e])
    BY <1>1, InvParts
  <1>6. \A e \in Docs : file'[e] \in TreeFiles(1 .. minted) /\ Numbered(file'[e])
                        /\ Mirrors(file'[e])
    BY <1>3, <1>a
  <1>7. DOMAIN doc' = Docs /\ refused' \subseteq Docs /\ strayed' \in BOOLEAN
        /\ edits' \in 0 .. MaxEdits /\ pending' \in {NoMove} \cup Moves(1 .. minted)
    BY <1>1, InvParts
  <1>8. QED
    BY <1>1, <1>3, <1>4, <1>5, <1>6, <1>7, StepKeeps

\* A load takes a document from its file.
LEMMA LoadKeeps ==
  ASSUME IInv, NEW d \in Docs, Load(d)
  PROVE  IInv'
  <1>a. PICK A : A = 1 .. minted
    OBVIOUS
  <1>r. PICK R : R = Loaded(d, file[d])
    OBVIOUS
  <1>1. /\ doc' = [doc EXCEPT ![d] = R] /\ refused' = refused \ {d}
        /\ file' = file /\ minted' = minted /\ edits' = edits /\ pending' = pending
        /\ strayed' = strayed
    BY <1>r DEF Load
  <1>2. Sound(R, A) /\ Indexed(R) /\ Mirrors(R)
    <2>1. A \in SUBSET Nodes /\ file[d] \in TreeFiles(A) /\ Numbered(file[d]) /\ Mirrors(file[d])
      BY <1>a, InvParts
    <2>2. Root[d] \in A
      BY <1>a, MintedNodes, TreesAssumption DEF IInv
    <2>3. QED
      BY <1>r, <2>1, <2>2, LoadedSound
  <1>3. /\ DOMAIN doc' = Docs /\ doc'[d] = R
        /\ \A e \in Docs \ {d} : doc'[e] = doc[e]
    BY <1>1, InvParts
  <1>4. \A e \in Docs : Sound(doc'[e], 1 .. minted) /\ Mirrors(doc'[e])
    BY <1>2, <1>3, <1>a, InvParts
  <1>5. ASSUME NEW e \in Docs PROVE InTail(e)' \/ e \in refused' \/ Indexed(doc'[e])
    <2>1. CASE e = d
      BY <1>2, <1>3, <2>1
    <2>2. CASE e # d
      BY <1>1, <1>3, <2>2, InvParts DEF InTail
    <2>3. QED
      BY <2>1, <2>2
  <1>6. DOMAIN file' = Docs /\ refused' \subseteq Docs /\ strayed' \in BOOLEAN
        /\ edits' \in 0 .. MaxEdits /\ pending' \in {NoMove} \cup Moves(1 .. minted)
    BY <1>1, InvParts
  <1>7. \A e \in Docs : file'[e] \in TreeFiles(1 .. minted) /\ Numbered(file'[e])
                        /\ Mirrors(file'[e])
    BY <1>1, InvParts
  <1>8. QED
    BY <1>1, <1>3, <1>4, <1>5, <1>6, <1>7, StepKeeps

\* Every step keeps the invariant.
LEMMA NextInv == IInv /\ [Next]_vars => IInv'
  <1> SUFFICES ASSUME IInv, [Next]_vars PROVE IInv'
    OBVIOUS
  <1>1. CASE Editing
    <2>1. PICK d \in Docs :
            \/ \E at \in Places(Given), m \in 1 .. MaxFragment : Insert(d, at, m)
            \/ \E r \in Runs(d) :
                 \/ Delete(d, r)
                 \/ \E m \in 1 .. MaxFragment : Replace(d, r, m)
                 \/ \E t \in Docs, at \in Places(Given) : MoveResolve(d, r, t, at)
            \/ \E p \in Nodes, m \in 1 .. MaxFragment : SetBody(d, p, m)
      BY <1>1 DEF Editing
    <2>2. CASE \E at \in Places(Given), m \in 1 .. MaxFragment : Insert(d, at, m)
      BY <2>2, InsertKeeps
    <2>3. CASE \E r \in Runs(d) : Delete(d, r)
      BY <2>3, DeleteKeeps
    <2>4. CASE \E r \in Runs(d) : \E m \in 1 .. MaxFragment : Replace(d, r, m)
      BY <2>4, ReplaceKeeps
    <2>5. CASE \E r \in Runs(d) : \E t \in Docs, at \in Places(Given) : MoveResolve(d, r, t, at)
      BY <2>5, MoveResolveKeeps
    <2>6. CASE \E p \in Nodes, m \in 1 .. MaxFragment : SetBody(d, p, m)
      BY <2>6, SetBodyKeeps
    <2>7. QED
      BY <2>1, <2>2, <2>3, <2>4, <2>5, <2>6
  <1>2. CASE Moving
    BY <1>2, MoveSpliceKeeps, MoveRefusedKeeps, MoveCommitSourceKeeps, MoveCommitTargetKeeps
       DEF Moving
  <1>3. CASE Storing
    BY <1>3, WriteKeeps, LoadKeeps DEF Storing
  <1>4. CASE UNCHANGED vars
    <2>1. /\ doc' = doc /\ file' = file /\ minted' = minted /\ edits' = edits
          /\ pending' = pending /\ refused' = refused /\ strayed' = strayed
      BY <1>4 DEF vars
    <2>2. \A d \in Docs : InTail(d)' \/ d \in refused' \/ Indexed(doc'[d])
      BY <2>1, InvParts DEF InTail
    <2>3. QED
      BY <2>1, <2>2, InvParts, StepKeeps
  <1>5. QED
    BY <1>1, <1>2, <1>3, <1>4 DEF Next

\* The invariant holds of the specification.
LEMMA InvCorrect == Spec => []IInv
  BY InitInv, NextInv, PTL DEF Spec

-----------------------------------------------------------------------------
(* What follows from it.                                                   *)

\* The invariant holds the type invariant.
LEMMA InvTyped == IInv => TypeOK
  <1> SUFFICES ASSUME IInv PROVE TypeOK
    OBVIOUS
  <1>1. ASSUME NEW d \in Docs
        PROVE  /\ doc[d].known \subseteq 1 .. minted /\ doc[d].unsynced \subseteq Nodes
               /\ doc[d].up \in [Nodes -> Nodes \cup {NoNode}]
               /\ \A n \in Nodes : /\ doc[d].kids[n] \in Seq(Nodes)
                                   /\ doc[d].field[n] \in Seq(Nodes \cup {NoNode})
                                   /\ doc[d].label[n] \in Nat
                                   /\ doc[d].number[n] \in Nat
               /\ \A e, f \in doc[d].index : e[1] = f[1] => e = f
               /\ {file[d].next, doc[d].next, doc[d].version} \subseteq Nat \ {0}
    <2>t. PICK T, A : T = doc[d] /\ A = 1 .. minted
      OBVIOUS
    <2>1. T \in TreeDocs(A) /\ Functional(T) /\ A \subseteq Nodes
          /\ file[d] \in TreeFiles(A)
      BY <2>t, InvParts DEF Sound
    <2>2. \A n \in Nodes : T.kids[n] \in Seq(Nodes)
      <3>1. \A n \in Nodes : T.kids[n] \in Seq(A)
        BY <2>1 DEF TreeDocs
      <3>2. QED
        BY <2>1, <3>1, SeqOver
    <2>3. /\ T.known \subseteq A /\ T.unsynced \subseteq Nodes
          /\ T.up \in [Nodes -> Nodes \cup {NoNode}]
          /\ \A n \in Nodes : /\ T.field[n] \in Seq(Nodes \cup {NoNode})
                              /\ T.label[n] \in Nat /\ T.number[n] \in Nat
          /\ T.next \in Nat \ {0} /\ T.version \in Nat \ {0}
      BY <2>1 DEF TreeDocs
    <2>4. file[d].next \in Nat \ {0}
      BY <2>1 DEF TreeFiles
    <2>5. QED
      BY <2>t, <2>1, <2>2, <2>3, <2>4 DEF Functional
  <1>2. pending.stage \in {"none", "resolved", "source", "target"}
    BY InvParts DEF NoMove, Moves
  <1>3. minted \in Born .. Pool
    BY DEF IInv, Typed
  <1>4. QED
    BY <1>1, <1>2, <1>3, InvParts DEF TypeOK

\* The documents, files and moves keep their types.
THEOREM TypeCorrect == Spec => []TypeOK
  BY InvCorrect, InvTyped, PTL

\* After every mutation that was not refused the indexes are those of the tree.
THEOREM IndexesFollow == Spec => []IndexesFollowTree
  <1>1. IInv => IndexesFollowTree
    <2> SUFFICES ASSUME IInv, NEW d \in Docs, ~InTail(d), d \notin refused
                 PROVE  /\ Indexed(doc[d])
                        /\ \A n, k \in Nodes :
                             doc[d].number[n] = doc[d].number[k] /\ n # k
                               => doc[d].number[n] = NoNumber
      BY DEF IndexesFollowTree, Indexed
    <2>1. Indexed(doc[d]) /\ Sound(doc[d], 1 .. minted)
      BY InvParts
    <2>2. QED
      BY <2>1 DEF Sound, Numbered
  <1>2. QED
    BY <1>1, InvCorrect, PTL

\* What a generator renders of a field is the children of the node, but under
\* the parents a move left unsynced.
THEOREM RenderedCorrect == Spec => []RenderedIsTree
  <1>1. IInv => RenderedIsTree
    BY InvParts DEF RenderedIsTree, Mirrors
  <1>2. QED
    BY <1>1, InvCorrect, PTL

-----------------------------------------------------------------------------
(* What sequences hold.                                                    *)

\* What two sequences hold, one after the other.
LEMMA ConcatSet ==
  ASSUME NEW S, NEW s \in Seq(S), NEW t \in Seq(S)
  PROVE  /\ ToSet(s \o t) = ToSet(s) \cup ToSet(t)
         /\ IsInjective(s) /\ IsInjective(t) /\ ToSet(s) \cap ToSet(t) = {}
              => IsInjective(s \o t)
         /\ IsInjective(s \o t) => IsInjective(s) /\ IsInjective(t) /\ ToSet(s) \cap ToSet(t) = {}
  <1> DEFINE u == s \o t
             n == Len(s)
             k == Len(t)
  <1>1. n \in Nat /\ k \in Nat /\ DOMAIN s = 1 .. n /\ DOMAIN t = 1 .. k /\ DOMAIN u = 1 .. n + k
    OBVIOUS
  <1>2. (\A i \in 1 .. n : u[i] = s[i]) /\ \A i \in 1 .. k : u[n + i] = t[i]
    OBVIOUS
  <1>3. \A i \in n + 1 .. n + k : i - n \in 1 .. k /\ u[i] = t[i - n]
    OBVIOUS
  <1> HIDE DEF u, n, k
  <1>4. \A i \in 1 .. n : i \in 1 .. n + k
    BY <1>1
  <1>5. \A i \in 1 .. k : n + i \in 1 .. n + k
    BY <1>1
  <1>6. \A i \in 1 .. n + k : i \in 1 .. n \/ i \in n + 1 .. n + k
    BY <1>1
  <1>7. ToSet(u) = ToSet(s) \cup ToSet(t)
    <2>1. ASSUME NEW i \in 1 .. n + k PROVE u[i] \in ToSet(s) \cup ToSet(t)
      BY <1>1, <1>2, <1>3, <1>6 DEF ToSet
    <2>2. \A i \in 1 .. n : s[i] \in ToSet(u)
      BY <1>1, <1>2, <1>4 DEF ToSet
    <2>3. \A i \in 1 .. k : t[i] \in ToSet(u)
      BY <1>1, <1>2, <1>5 DEF ToSet
    <2>4. QED
      BY <1>1, <2>1, <2>2, <2>3 DEF ToSet
  <1>8. ASSUME IsInjective(s), IsInjective(t), ToSet(s) \cap ToSet(t) = {} PROVE IsInjective(u)
    <2>1. ASSUME NEW i \in 1 .. n + k, NEW j \in 1 .. n + k, u[i] = u[j] PROVE i = j
      <3>1. CASE i \in 1 .. n /\ j \in 1 .. n
        BY <1>1, <1>2, <1>8, <2>1, <3>1 DEF IsInjective
      <3>2. CASE i \notin 1 .. n /\ j \notin 1 .. n
        <4>1. i - n \in 1 .. k /\ j - n \in 1 .. k /\ t[i - n] = t[j - n]
          BY <1>3, <1>6, <2>1, <3>2
        <4>2. i - n = j - n
          BY <1>1, <1>8, <4>1 DEF IsInjective
        <4>3. QED
          BY <1>1, <4>2
      <3>a. ASSUME NEW x \in 1 .. n, NEW y \in 1 .. n + k, y \notin 1 .. n PROVE u[x] # u[y]
        <4>1. u[x] \in ToSet(s)
          BY <1>1, <1>2 DEF ToSet
        <4>2. y - n \in 1 .. k /\ u[y] = t[y - n]
          BY <1>3, <1>6, <3>a
        <4>3. u[y] \in ToSet(t)
          BY <1>1, <4>2 DEF ToSet
        <4>4. QED
          BY <1>8, <4>1, <4>3
      <3>3. CASE i \in 1 .. n /\ j \notin 1 .. n
        BY <2>1, <3>a, <3>3
      <3>4. CASE i \notin 1 .. n /\ j \in 1 .. n
        BY <2>1, <3>a, <3>4
      <3>5. QED
        BY <3>1, <3>2, <3>3, <3>4
    <2>2. QED
      BY <1>1, <2>1 DEF IsInjective
  <1>9. ASSUME IsInjective(u)
        PROVE  IsInjective(s) /\ IsInjective(t) /\ ToSet(s) \cap ToSet(t) = {}
    <2>1. IsInjective(s)
      BY <1>1, <1>2, <1>4, <1>9 DEF IsInjective
    <2>2. IsInjective(t)
      <3>1. ASSUME NEW i \in 1 .. k, NEW j \in 1 .. k, t[i] = t[j] PROVE i = j
        <4>1. u[n + i] = u[n + j]
          BY <1>2, <3>1
        <4>2. n + i = n + j
          BY <1>1, <1>5, <1>9, <4>1 DEF IsInjective
        <4>3. QED
          BY <1>1, <4>2
      <3>2. QED
        BY <1>1, <3>1 DEF IsInjective
    <2>3. ASSUME NEW i \in 1 .. n, NEW j \in 1 .. k PROVE s[i] # t[j]
      <3>1. i # n + j
        BY <1>1
      <3>2. u[i] # u[n + j]
        BY <1>1, <1>4, <1>5, <1>9, <3>1 DEF IsInjective
      <3>3. QED
        BY <1>2, <3>2
    <2>4. QED
      BY <1>1, <2>1, <2>2, <2>3 DEF ToSet
  <1>10. QED
    BY <1>7, <1>8, <1>9 DEF u

\* A flattening holds what the sequences hold, ...
LEMMA FlattenHolds ==
  ASSUME NEW S, NEW ss \in Seq(Seq(S))
  PROVE  ToSet(FlattenSeq(ss)) = UNION {ToSet(ss[k]) : k \in 1 .. Len(ss)}
  <1>1. CASE Len(ss) = 0
    <2>1. ss = <<>> /\ FlattenSeq(ss) = <<>> /\ 1 .. Len(ss) = {}
      BY <1>1 DEF FlattenSeq
    <2>2. ToSet(<<>>) = {}
      BY DEF ToSet
    <2>3. QED
      BY <2>1, <2>2
  <1>2. CASE Len(ss) # 0
    <2> DEFINE N == Len(ss)
    <2>0. N \in Nat /\ N # 0 /\ \A i \in 1 .. N : ss[i] \in Seq(S)
      BY <1>2
    <2>1. PICK f \in [1 .. N -> Seq(S)] :
            /\ f[1] = ss[1] /\ \A i \in 2 .. N : f[i] = f[i - 1] \o ss[i]
            /\ FlattenSeq(ss) = f[N]
      BY <1>2, FlattenFolds
    <2>b. Len(ss) = N
      OBVIOUS
    <2> HIDE DEF N
    <2> DEFINE Good == {0} \cup {i \in 1 .. N : ToSet(f[i]) = UNION {ToSet(ss[j]) : j \in 1 .. i}}
    <2>2. ASSUME NEW i \in 1 .. N, i - 1 \in Good PROVE i \in Good
      <3>1. CASE i = 1
        <4>1. 1 .. i = {1}
          BY <3>1
        <4>2. QED
          BY <2>1, <3>1, <4>1
      <3>2. CASE i # 1
        <4>1. i - 1 \in 1 .. N /\ i \in 2 .. N /\ 1 .. i = 1 .. i - 1 \cup {i}
          BY <2>0, <3>2
        <4>2. ToSet(f[i - 1]) = UNION {ToSet(ss[j]) : j \in 1 .. i - 1}
          BY <2>2, <4>1
        <4>c. f[i - 1] \in Seq(S) /\ ss[i] \in Seq(S) /\ f[i] = f[i - 1] \o ss[i]
          BY <2>0, <2>1, <4>1
        <4>3. ToSet(f[i]) = ToSet(f[i - 1]) \cup ToSet(ss[i])
          BY <4>c, ConcatSet
        <4>4. QED
          BY <4>1, <4>2, <4>3
      <3>3. QED
        BY <3>1, <3>2
    <2>3. 0 \in Good
      OBVIOUS
    <2> HIDE DEF Good
    <2>4. 0 .. N \subseteq Good
      BY <2>0, <2>2, <2>3, UpTo
    <2>5. N \in Good
      BY <2>0, <2>4
    <2>6. QED
      BY <2>0, <2>1, <2>5, <2>b DEF Good
  <1>3. QED
    BY <1>1, <1>2

\* ... each once, if no two of them share anything.
LEMMA FlattenInjective ==
  ASSUME NEW S, NEW ss \in Seq(Seq(S)), \A i \in 1 .. Len(ss) : IsInjective(ss[i]),
         \A i, j \in 1 .. Len(ss) : i # j => ToSet(ss[i]) \cap ToSet(ss[j]) = {}
  PROVE  IsInjective(FlattenSeq(ss))
  <1>1. CASE Len(ss) = 0
    BY <1>1 DEF FlattenSeq, IsInjective
  <1>2. CASE Len(ss) # 0
    <2> DEFINE N == Len(ss)
    <2>0. N \in Nat /\ N # 0 /\ \A i \in 1 .. N : ss[i] \in Seq(S)
      BY <1>2
    <2>1. PICK f \in [1 .. N -> Seq(S)] :
            /\ f[1] = ss[1] /\ \A i \in 2 .. N : f[i] = f[i - 1] \o ss[i]
            /\ FlattenSeq(ss) = f[N]
      BY <1>2, FlattenFolds
    <2>a. /\ \A i \in 1 .. N : IsInjective(ss[i])
          /\ \A i, j \in 1 .. N : i # j => ToSet(ss[i]) \cap ToSet(ss[j]) = {}
      OBVIOUS
    <2>b. Len(ss) = N
      OBVIOUS
    <2> HIDE DEF N
    <2> DEFINE Good == {0} \cup {i \in 1 .. N : /\ IsInjective(f[i])
                                               /\ ToSet(f[i]) = UNION {ToSet(ss[j]) : j \in 1 .. i}}
    <2>2. ASSUME NEW i \in 1 .. N, i - 1 \in Good PROVE i \in Good
      <3>1. CASE i = 1
        <4>1. 1 .. i = {1}
          BY <3>1
        <4>2. QED
          BY <2>1, <2>a, <3>1, <4>1
      <3>2. CASE i # 1
        <4>1. i - 1 \in 1 .. N /\ i \in 2 .. N /\ 1 .. i = 1 .. i - 1 \cup {i}
              /\ \A j \in 1 .. i - 1 : j \in 1 .. N /\ j # i
          BY <2>0, <3>2
        <4>2. IsInjective(f[i - 1]) /\ ToSet(f[i - 1]) = UNION {ToSet(ss[j]) : j \in 1 .. i - 1}
          BY <2>2, <4>1
        <4>3. ToSet(f[i - 1]) \cap ToSet(ss[i]) = {}
          <5>1. \A j \in 1 .. i - 1 : ToSet(ss[j]) \cap ToSet(ss[i]) = {}
            BY <2>a, <4>1
          <5>2. QED
            BY <4>2, <5>1
        <4>c. f[i - 1] \in Seq(S) /\ ss[i] \in Seq(S) /\ f[i] = f[i - 1] \o ss[i]
          BY <2>0, <2>1, <4>1
        <4>4. ToSet(f[i]) = ToSet(f[i - 1]) \cup ToSet(ss[i]) /\ IsInjective(f[i])
          BY <2>a, <4>c, <4>2, <4>3, ConcatSet
        <4>6. UNION {ToSet(ss[j]) : j \in 1 .. i}
                = (UNION {ToSet(ss[j]) : j \in 1 .. i - 1}) \cup ToSet(ss[i])
          BY <4>1
        <4>5. QED
          BY <4>2, <4>4, <4>6
      <3>3. QED
        BY <3>1, <3>2
    <2>3. 0 \in Good
      OBVIOUS
    <2> HIDE DEF Good
    <2>4. 0 .. N \subseteq Good
      BY <2>0, <2>2, <2>3, UpTo
    <2>5. N \in Good
      BY <2>0, <2>4
    <2>6. QED
      BY <2>0, <2>1, <2>5 DEF Good
  <1>3. QED
    BY <1>1, <1>2

-----------------------------------------------------------------------------
(* What a walk reaches.                                                    *)

\* The nodes a walk from n lists.
Reach(kids, n) == ToSet(Walk(kids, n))

\* With a node its children.
Entire(kids, S) == \A m \in S : ToSet(kids[m]) \subseteq S

\* The sets of nodes a walk of some depth lists.
LEMMA WalkLayers ==
  ASSUME NEW kids \in [Nodes -> Seq(Nodes)]
  PROVE  \E r :
           /\ \A m \in Nodes : r[0][m] = {}
           /\ \A depth \in 1 .. Pool, m \in Nodes :
                r[depth][m] = {m} \cup UNION {r[depth - 1][k] : k \in ToSet(kids[m])}
           /\ \A depth \in 0 .. Pool, m \in Nodes : r[depth][m] \subseteq Nodes
           /\ \A n \in Nodes : Reach(kids, n) = r[Pool][n]
  <1>1. PICK down :
          /\ \A m \in Nodes : down[0][m] = <<>>
          /\ \A depth \in 1 .. Pool, m \in Nodes :
               down[depth][m]
                 = <<m>> \o FlattenSeq([i \in DOMAIN kids[m] |-> down[depth - 1][kids[m][i]]])
          /\ \A depth \in 0 .. Pool, m \in Nodes : down[depth][m] \in Seq(Nodes)
          /\ \A n \in Nodes : Walk(kids, n) = down[Pool][n]
    <2>a. PICK A : A = Nodes
      OBVIOUS
    <2>0. A \in SUBSET Nodes /\ kids \in [Nodes -> Seq(A)]
      BY <2>a
    <2>1. PICK down : Unfolds(kids, A, down)
      BY <2>0, WalkUnfolds
    <2>2. \A depth \in 0 .. Pool, m \in Nodes : down[depth][m] \in Seq(Nodes)
      BY <2>1, <2>a DEF Unfolds
    <2>3. QED
      BY <2>1, <2>2 DEF Unfolds
  <1> DEFINE r == [depth \in 0 .. Pool |-> [m \in Nodes |-> ToSet(down[depth][m])]]
  <1>0. Pool \in Nat /\ \A m \in Nodes : kids[m] \in Seq(Nodes)
    BY SizesAssumption
  <1>2. ASSUME NEW m \in Nodes PROVE r[0][m] = {}
    <2>1. ToSet(<<>>) = {}
      BY DEF ToSet
    <2>2. 0 \in 0 .. Pool
      BY <1>0
    <2>3. QED
      BY <1>1, <2>1, <2>2
  <1>3. ASSUME NEW depth \in 0 .. Pool, NEW m \in Nodes PROVE r[depth][m] \subseteq Nodes
    <2>1. down[depth][m] \in Seq(Nodes)
      BY <1>1
    <2>2. ToSet(down[depth][m]) \subseteq Nodes
      BY <2>1 DEF ToSet
    <2>3. QED
      BY <2>2
  <1>4. ASSUME NEW depth \in 1 .. Pool, NEW m \in Nodes
        PROVE  r[depth][m] = {m} \cup UNION {r[depth - 1][k] : k \in ToSet(kids[m])}
    <2> DEFINE s == kids[m]
               ss == [i \in DOMAIN s |-> down[depth - 1][s[i]]]
    <2>0. depth \in 0 .. Pool /\ depth - 1 \in 0 .. Pool /\ s \in Seq(Nodes)
          /\ DOMAIN s = 1 .. Len(s) /\ Len(s) \in Nat
      BY <1>0
    <2>1. \A i \in 1 .. Len(s) : s[i] \in Nodes
      BY <2>0
    <2>2. ss \in [1 .. Len(s) -> Seq(Nodes)]
      BY <1>1, <2>0, <2>1
    <2>3. ss \in Seq(Seq(Nodes)) /\ Len(ss) = Len(s)
      <3> HIDE DEF ss, s
      <3> QED BY <2>0, <2>2, FunctionIsSeq
    <2>4. \A i \in 1 .. Len(s) : ToSet(ss[i]) = r[depth - 1][s[i]]
      BY <2>0, <2>1
    <2>5. down[depth][m] = <<m>> \o FlattenSeq(ss)
      BY <1>1
    <2>6. FlattenSeq(ss) \in Seq(Nodes)
          /\ ToSet(FlattenSeq(ss)) = UNION {ToSet(ss[k]) : k \in 1 .. Len(ss)}
      <3> HIDE DEF ss
      <3> QED BY <2>3, FlattenTyped, FlattenHolds
    <2>7. ToSet(down[depth][m]) = {m} \cup ToSet(FlattenSeq(ss))
      <3> HIDE DEF ss
      <3>1. <<m>> \in Seq(Nodes) /\ ToSet(<<m>>) = {m}
        BY DEF ToSet
      <3>2. QED
        BY <2>5, <2>6, <3>1, ConcatSet
    <2>8. r[depth][m] = ToSet(down[depth][m])
      BY <2>0
    <2>9. UNION {ToSet(ss[k]) : k \in 1 .. Len(s)} = UNION {r[depth - 1][k] : k \in ToSet(s)}
      <3> HIDE DEF ss, r, s
      <3>1. ToSet(s) = {s[i] : i \in 1 .. Len(s)}
        BY <2>0 DEF ToSet
      <3>2. ASSUME NEW x
            PROVE  (\E i \in 1 .. Len(s) : x \in ToSet(ss[i]))
                     <=> \E k \in ToSet(s) : x \in r[depth - 1][k]
        BY <2>4, <3>1
      <3>3. QED
        BY <3>2
    <2>10. QED
      <3> HIDE DEF ss, r
      <3> QED BY <2>3, <2>6, <2>7, <2>8, <2>9
  <1>5. \A n \in Nodes : Reach(kids, n) = r[Pool][n]
    BY <1>0, <1>1 DEF Reach
  <1> HIDE DEF r
  <1>6. QED
    BY <1>2, <1>3, <1>4, <1>5

\* A walk from n reaches n and the children of what it reaches, and nothing
\* that these do not demand.
LEMMA ReachClosed ==
  ASSUME NEW kids \in [Nodes -> Seq(Nodes)], NEW n \in Nodes
  PROVE  /\ Reach(kids, n) \subseteq Nodes /\ n \in Reach(kids, n)
         /\ Entire(kids, Reach(kids, n))
         /\ \A S \in SUBSET Nodes : n \in S /\ Entire(kids, S) => Reach(kids, n) \subseteq S
  <1>1. PICK r :
          /\ \A m \in Nodes : r[0][m] = {}
          /\ \A depth \in 1 .. Pool, m \in Nodes :
               r[depth][m] = {m} \cup UNION {r[depth - 1][k] : k \in ToSet(kids[m])}
          /\ \A depth \in 0 .. Pool, m \in Nodes : r[depth][m] \subseteq Nodes
          /\ \A m \in Nodes : Reach(kids, m) = r[Pool][m]
    BY WalkLayers
  <1>0. Pool \in Nat /\ Pool # 0 /\ Nodes = 1 .. Pool
    BY SizesAssumption DEF Nodes
  <1>k. \A m \in Nodes : ToSet(kids[m]) \subseteq Nodes
    BY DEF ToSet
  <1>2. ASSUME NEW S \in SUBSET Nodes, Entire(kids, S), NEW depth \in 0 .. Pool, NEW m \in S
        PROVE  r[depth][m] \subseteq S
    <2> DEFINE Good == {x \in 0 .. Pool : \A k \in S : r[x][k] \subseteq S}
    <2>1. 0 \in Good
      BY <1>0, <1>1
    <2>2. ASSUME NEW x \in 1 .. Pool, x - 1 \in Good PROVE x \in Good
      <3>1. \A k \in S : ToSet(kids[k]) \subseteq S
        BY <1>2 DEF Entire
      <3>2. ASSUME NEW k \in S PROVE r[x][k] \subseteq S
        <4>1. r[x][k] = {k} \cup UNION {r[x - 1][j] : j \in ToSet(kids[k])}
          BY <1>1
        <4>2. \A j \in ToSet(kids[k]) : r[x - 1][j] \subseteq S
          BY <2>2, <3>1
        <4>3. QED
          BY <4>1, <4>2
      <3>3. QED
        BY <1>0, <3>2
    <2>3. \A x \in 1 .. Pool : x - 1 \in Good => x \in Good
      BY <2>2
    <2> HIDE DEF Good
    <2>4. 0 .. Pool \subseteq Good
      BY <1>0, <2>1, <2>3, UpTo
    <2>5. QED
      BY <2>4 DEF Good
  <1>3. ASSUME NEW depth \in 1 .. Pool, NEW m \in Nodes PROVE m \in r[depth][m]
    BY <1>1
  <1>4. ASSUME NEW depth \in 1 .. Pool PROVE \A m \in Nodes : r[depth - 1][m] \subseteq r[depth][m]
    <2> DEFINE Good == {0} \cup {x \in 1 .. Pool : \A m \in Nodes : r[x - 1][m] \subseteq r[x][m]}
    <2>1. ASSUME NEW x \in 1 .. Pool, x - 1 \in Good, NEW m \in Nodes
          PROVE  r[x - 1][m] \subseteq r[x][m]
      <3>1. CASE x = 1
        <4>1. x - 1 = 0
          BY <3>1
        <4>2. QED
          BY <1>1, <4>1
      <3>2. CASE x # 1
        <4>1. x - 1 \in 1 .. Pool /\ x - 1 # 0
          BY <1>0, <3>2
        <4>2. \A k \in ToSet(kids[m]) : r[x - 1 - 1][k] \subseteq r[x - 1][k]
          BY <1>k, <2>1, <4>1
        <4>3. r[x - 1][m] = {m} \cup UNION {r[x - 1 - 1][k] : k \in ToSet(kids[m])}
          BY <1>1, <4>1
        <4>4. r[x][m] = {m} \cup UNION {r[x - 1][k] : k \in ToSet(kids[m])}
          BY <1>1
        <4>5. QED
          BY <4>2, <4>3, <4>4
      <3>3. QED
        BY <3>1, <3>2
    <2>2. \A x \in 1 .. Pool : x - 1 \in Good => x \in Good
      BY <2>1
    <2>3. 0 \in Good
      OBVIOUS
    <2> HIDE DEF Good
    <2>4. 0 .. Pool \subseteq Good
      BY <1>0, <2>2, <2>3, UpTo
    <2>5. depth \in Good /\ depth # 0
      BY <1>0, <2>4
    <2>6. QED
      BY <2>5 DEF Good
  <1>5. ASSUME NEW depth \in 1 .. Pool
        PROVE  \A m \in Nodes : \A x \in r[depth - 1][m] : ToSet(kids[x]) \subseteq r[depth][m]
    <2> DEFINE Good == {0} \cup {d \in 1 .. Pool :
                         \A m \in Nodes : \A x \in r[d - 1][m] : ToSet(kids[x]) \subseteq r[d][m]}
    <2>1. ASSUME NEW d \in 1 .. Pool, d - 1 \in Good, NEW m \in Nodes, NEW x \in r[d - 1][m],
                 NEW y \in ToSet(kids[x])
          PROVE  y \in r[d][m]
      <3>1. CASE d = 1
        <4>1. d - 1 = 0
          BY <3>1
        <4>2. QED
          BY <1>1, <2>1, <4>1
      <3>2. CASE d # 1
        <4>1. d - 1 \in 1 .. Pool /\ d - 1 # 0
          BY <1>0, <3>2
        <4>2. r[d][m] = {m} \cup UNION {r[d - 1][k] : k \in ToSet(kids[m])}
          BY <1>1
        <4>3. x \in {m} \cup UNION {r[d - 1 - 1][k] : k \in ToSet(kids[m])}
          BY <1>1, <4>1
        <4>4. CASE x = m
          <5>1. y \in Nodes /\ y \in r[d - 1][y]
            BY <1>3, <1>k, <4>1, <4>4
          <5>2. QED
            BY <4>2, <4>4, <5>1
        <4>5. ASSUME NEW k \in ToSet(kids[m]), x \in r[d - 1 - 1][k] PROVE y \in r[d][m]
          <5>1. k \in Nodes
            BY <1>k
          <5>2. y \in r[d - 1][k]
            BY <2>1, <4>1, <4>5, <5>1
          <5>3. QED
            BY <4>2, <5>2
        <4>6. QED
          BY <4>3, <4>4, <4>5
      <3>3. QED
        BY <3>1, <3>2
    <2>2. \A d \in 1 .. Pool : d - 1 \in Good => d \in Good
      BY <2>1
    <2>3. 0 \in Good
      OBVIOUS
    <2> HIDE DEF Good
    <2>4. 0 .. Pool \subseteq Good
      BY <1>0, <2>2, <2>3, UpTo
    <2>5. depth \in Good /\ depth # 0
      BY <1>0, <2>4
    <2>6. QED
      BY <2>5 DEF Good
  <1> DEFINE R(depth) == r[depth][n]
             Whole(depth) == n \in R(depth) /\ Entire(kids, R(depth))
             Good == {x \in 0 .. Pool : x <= Cardinality(R(x)) \/ Whole(x)}
  <1>6. ASSUME NEW x \in 0 .. Pool
        PROVE  R(x) \subseteq Nodes /\ IsFiniteSet(R(x)) /\ Cardinality(R(x)) \in Nat
    <2>1. R(x) \subseteq Nodes
      BY <1>1
    <2> HIDE DEF R
    <2>2. IsFiniteSet(R(x))
      BY <2>1, NodesAre, FS_Subset
    <2>3. QED
      BY <2>1, <2>2, FS_CardinalityType
  <1>7. 0 \in Good
    <2>1. 0 \in 0 .. Pool
      BY <1>0
    <2> HIDE DEF R, Whole
    <2>2. Cardinality(R(0)) \in Nat
      BY <1>6, <2>1
    <2>3. QED
      BY <2>1, <2>2
  <1>8. ASSUME NEW x \in 1 .. Pool, x - 1 \in Good PROVE x \in Good
    <2>0. x \in 0 .. Pool /\ x - 1 \in 0 .. Pool /\ x \in Nat
      BY <1>0
    <2>1. R(x - 1) \subseteq R(x) /\ n \in R(x)
      BY <1>3, <1>4
    <2>2. \A y \in R(x - 1) : ToSet(kids[y]) \subseteq R(x)
      BY <1>5
    <2>3. CASE R(x) = R(x - 1)
      <3>1. Whole(x)
        <4> HIDE DEF R
        <4> QED BY <2>1, <2>2, <2>3 DEF Entire
      <3>2. QED
        BY <2>0, <3>1
    <2>4. CASE R(x) # R(x - 1) /\ x - 1 <= Cardinality(R(x - 1))
      <3> HIDE DEF R
      <3>1. Cardinality(R(x - 1)) < Cardinality(R(x))
        BY <1>6, <2>0, <2>1, <2>4, FS_Subset
      <3>2. Cardinality(R(x - 1)) \in Nat /\ Cardinality(R(x)) \in Nat
        BY <1>6, <2>0
      <3>3. x <= Cardinality(R(x))
        BY <2>0, <2>4, <3>1, <3>2
      <3>4. QED
        BY <2>0, <3>3
    <2>5. CASE Whole(x - 1)
      <3>1. R(x) \subseteq R(x - 1)
        BY <1>2, <1>6, <2>0, <2>5
      <3>2. QED
        BY <2>1, <2>3, <3>1
    <2>6. QED
      BY <1>8, <2>3, <2>4, <2>5
  <1>9. Pool \in Good
    <2>1. \A x \in 1 .. Pool : x - 1 \in Good => x \in Good
      BY <1>8
    <2> HIDE DEF Good
    <2>2. 0 .. Pool \subseteq Good
      BY <1>0, <1>7, <2>1, UpTo
    <2>3. QED
      BY <1>0, <2>2
  <1>10. Entire(kids, R(Pool))
    <2>1. CASE Whole(Pool)
      BY <2>1
    <2>2. CASE Pool <= Cardinality(R(Pool))
      <3>1. R(Pool) \subseteq Nodes /\ Cardinality(R(Pool)) \in Nat /\ Pool \in 0 .. Pool
        BY <1>0, <1>6
      <3> HIDE DEF R
      <3>2. IsFiniteSet(Nodes) /\ Cardinality(Nodes) = Pool
        BY <1>0, FS_Interval
      <3>3. R(Pool) = Nodes
        <4>1. R(Pool) # Nodes => Cardinality(R(Pool)) < Cardinality(Nodes)
          BY <3>1, <3>2, FS_Subset
        <4>2. QED
          BY <1>0, <2>2, <3>1, <3>2, <4>1
      <3>4. QED
        BY <1>k, <3>3 DEF Entire
    <2>3. QED
      BY <1>9, <2>1, <2>2
  <1>11. Reach(kids, n) = R(Pool) /\ R(Pool) \subseteq Nodes
    BY <1>0, <1>1
  <1>12. n \in R(Pool)
    BY <1>0, <1>3
  <1>13. ASSUME NEW S \in SUBSET Nodes, n \in S, Entire(kids, S) PROVE R(Pool) \subseteq S
    <2>1. Pool \in 0 .. Pool
      BY <1>0
    <2>2. QED
      BY <1>2, <1>13, <2>1
  <1>14. QED
    BY <1>10, <1>11, <1>12, <1>13

-----------------------------------------------------------------------------
(* Trees.                                                                  *)

\* What hangs under root: every node once, below the parent it names.
Hangs(kids, root, up) ==
  /\ up[root] = NoNode
  /\ \A p \in Reach(kids, root) :
       IsInjective(kids[p]) /\ \A k \in ToSet(kids[p]) : up[k] = p

\* What a walk reaches is the node it starts at, or a child of what it reaches.
LEMMA ReachedFrom ==
  ASSUME NEW kids \in [Nodes -> Seq(Nodes)], NEW n \in Nodes, NEW x \in Reach(kids, n), x # n
  PROVE  \E p \in Reach(kids, n) : x \in ToSet(kids[p])
  <1> SUFFICES ASSUME \A p \in Reach(kids, n) : x \notin ToSet(kids[p]) PROVE FALSE
    OBVIOUS
  <1> DEFINE S == Reach(kids, n) \ {x}
  <1>1. S \in SUBSET Nodes /\ n \in S /\ Entire(kids, Reach(kids, n))
    BY ReachClosed
  <1>2. Entire(kids, S)
    BY <1>1 DEF Entire
  <1>3. Reach(kids, n) \subseteq S
    <2> HIDE DEF S
    <2> QED BY <1>1, <1>2, ReachClosed
  <1>4. QED
    BY <1>3

\* From a node one reaches what can be reached from its children.
LEMMA ReachBelow ==
  ASSUME NEW kids \in [Nodes -> Seq(Nodes)], NEW n \in Nodes, NEW k \in Reach(kids, n)
  PROVE  Reach(kids, k) \subseteq Reach(kids, n)
  <1>1. Reach(kids, n) \in SUBSET Nodes /\ Entire(kids, Reach(kids, n)) /\ k \in Nodes
    BY ReachClosed
  <1>2. QED
    BY <1>1, ReachClosed

\* In a tree no set of nodes has all its parents in itself.
LEMMA Rootless ==
  ASSUME NEW kids \in [Nodes -> Seq(Nodes)], NEW root \in Nodes, NEW up,
         Hangs(kids, root, up),
         NEW X \in SUBSET Reach(kids, root), \A x \in X : up[x] \in X
  PROVE  X = {}
  <1> DEFINE U == Reach(kids, root)
             S == U \ X
  <1>1. U \subseteq Nodes /\ root \in U /\ Entire(kids, U)
    BY ReachClosed
  <1>2. root \in S
    BY <1>1, NodesAre DEF Hangs
  <1>3. Entire(kids, S)
    BY <1>1 DEF Hangs, Entire
  <1>4. U \subseteq S
    <2>1. S \in SUBSET Nodes
      BY <1>1
    <2> HIDE DEF S
    <2> QED BY <1>2, <1>3, <2>1, ReachClosed
  <1>5. QED
    BY <1>4

\* Below a child of a tree every node names its parent there, the root is not
\* there, and the child's parent is not.
LEMMA ChildBelow ==
  ASSUME NEW kids \in [Nodes -> Seq(Nodes)], NEW root \in Nodes, NEW up,
         Hangs(kids, root, up),
         NEW p \in Reach(kids, root), NEW k \in ToSet(kids[p])
  PROVE  /\ k \in Reach(kids, root) /\ Reach(kids, k) \subseteq Reach(kids, root)
         /\ up[k] = p /\ p \notin Reach(kids, k) /\ root \notin Reach(kids, k)
         /\ \A x \in Reach(kids, k) \ {k} : up[x] \in Reach(kids, k)
  <1> DEFINE U == Reach(kids, root)
             R == Reach(kids, k)
  <1>1. U \subseteq Nodes /\ Entire(kids, U)
    BY ReachClosed
  <1>2. k \in U /\ k \in Nodes /\ up[k] = p
    BY <1>1 DEF Entire, Hangs
  <1>3. R \subseteq U /\ k \in R
    BY <1>2, ReachBelow, ReachClosed
  <1>4. ASSUME NEW x \in R, x # k PROVE up[x] \in R
    <2>1. PICK q \in R : x \in ToSet(kids[q])
      BY <1>2, <1>4, ReachedFrom
    <2>2. up[x] = q
      BY <1>3, <2>1 DEF Hangs
    <2>3. QED
      BY <2>1, <2>2
  <1>5. p \notin R
    <2>1. SUFFICES ASSUME p \in R PROVE FALSE
      OBVIOUS
    <2>2. \A x \in R : up[x] \in R
      BY <1>2, <1>4, <2>1
    <2>3. R = {}
      BY <1>3, <2>2, Rootless
    <2>4. QED
      BY <1>3, <2>3
  <1>6. root \notin R
    <2>1. SUFFICES ASSUME root \in R PROVE FALSE
      OBVIOUS
    <2>2. up[root] = NoNode /\ NoNode \notin R
      BY <1>1, <1>3, NodesAre DEF Hangs
    <2>3. CASE root = k
      <3>1. p \in Nodes
        BY <1>1
      <3>2. QED
        BY <1>2, <2>2, <2>3, <3>1, NodesAre
    <2>4. CASE root # k
      BY <1>4, <2>1, <2>2, <2>4
    <2>5. QED
      BY <2>3, <2>4
  <1>7. QED
    BY <1>2, <1>3, <1>4, <1>5, <1>6

\* Below two children of one node there is no node twice.
LEMMA SiblingsApart ==
  ASSUME NEW kids \in [Nodes -> Seq(Nodes)], NEW root \in Nodes, NEW up,
         Hangs(kids, root, up),
         NEW p \in Reach(kids, root), NEW k \in ToSet(kids[p]), NEW j \in ToSet(kids[p]), j # k
  PROVE  Reach(kids, k) \cap Reach(kids, j) = {}
  <1> DEFINE X == Reach(kids, k) \cap Reach(kids, j)
  <1>1. /\ up[k] = p /\ p \notin Reach(kids, k) /\ Reach(kids, k) \subseteq Reach(kids, root)
        /\ \A x \in Reach(kids, k) \ {k} : up[x] \in Reach(kids, k)
    BY ChildBelow
  <1>2. /\ up[j] = p /\ p \notin Reach(kids, j)
        /\ \A x \in Reach(kids, j) \ {j} : up[x] \in Reach(kids, j)
    BY ChildBelow
  <1>3. \A x \in X : up[x] \in X
    BY <1>1, <1>2
  <1>4. X \in SUBSET Reach(kids, root)
    BY <1>1
  <1>5. X = {}
    <2> HIDE DEF X
    <2> QED BY <1>3, <1>4, Rootless
  <1>6. QED
    BY <1>5

\* A walk lists each node of a tree once.
LEMMA WalkInjective ==
  ASSUME NEW kids \in [Nodes -> Seq(Nodes)], NEW root \in Nodes, NEW up,
         Hangs(kids, root, up)
  PROVE  IsInjective(Walk(kids, root))
  <1>a. PICK A : A = Nodes
    OBVIOUS
  <1>0. A \in SUBSET Nodes /\ kids \in [Nodes -> Seq(A)] /\ Pool \in Nat
    BY <1>a, SizesAssumption
  <1>1. PICK down : Unfolds(kids, A, down)
    BY <1>0, WalkUnfolds
  <1>2. /\ \A m \in Nodes : down[0][m] = <<>>
        /\ \A depth \in 1 .. Pool, m \in Nodes :
             down[depth][m]
               = <<m>> \o FlattenSeq([i \in DOMAIN kids[m] |-> down[depth - 1][kids[m][i]]])
        /\ \A depth \in 0 .. Pool, m \in Nodes : down[depth][m] \in Seq(Nodes)
        /\ \A n \in Nodes : Walk(kids, n) = down[Pool][n]
    BY <1>1, <1>a DEF Unfolds
  <1> DEFINE U == Reach(kids, root)
             Fine(depth) == \A m \in U : /\ IsInjective(down[depth][m])
                                         /\ ToSet(down[depth][m]) \subseteq Reach(kids, m)
             Good == {depth \in 0 .. Pool : Fine(depth)}
  <1>3. 0 \in Good
    <2>1. IsInjective(<<>>) /\ ToSet(<<>>) = {}
      BY DEF IsInjective, ToSet
    <2>2. U \subseteq Nodes
      BY ReachClosed
    <2>3. QED
      BY <1>0, <1>2, <2>1, <2>2
  <1>4. ASSUME NEW depth \in 1 .. Pool, Fine(depth - 1), NEW m \in U
        PROVE  IsInjective(down[depth][m]) /\ ToSet(down[depth][m]) \subseteq Reach(kids, m)
    <2> DEFINE s == kids[m]
               ss == [i \in DOMAIN s |-> down[depth - 1][s[i]]]
    <2>0. /\ depth - 1 \in 0 .. Pool /\ m \in Nodes /\ s \in Seq(Nodes)
          /\ DOMAIN s = 1 .. Len(s) /\ Len(s) \in Nat
      BY <1>0, ReachClosed
    <2>1. \A i \in 1 .. Len(s) : s[i] \in Nodes /\ s[i] \in ToSet(s)
      <3> HIDE DEF s, ss
      <3>1. \A i \in 1 .. Len(s) : s[i] \in Nodes
        BY <2>0
      <3>2. \A i \in 1 .. Len(s) : s[i] \in ToSet(s)
        BY <2>0 DEF ToSet
      <3>3. QED
        BY <3>1, <3>2
    <2>2. ss \in [1 .. Len(s) -> Seq(Nodes)]
      BY <1>2, <2>0, <2>1
    <2>3. ss \in Seq(Seq(Nodes)) /\ Len(ss) = Len(s)
      <3> HIDE DEF ss, s
      <3> QED BY <2>0, <2>2, FunctionIsSeq
    <2>4. IsInjective(s) /\ \A k \in ToSet(s) : k \in U
      BY ReachClosed DEF Hangs, Entire
    <2>5. ASSUME NEW i \in 1 .. Len(ss)
          PROVE  IsInjective(ss[i]) /\ ToSet(ss[i]) \subseteq Reach(kids, s[i])
      <3>1. ss[i] = down[depth - 1][s[i]] /\ s[i] \in U
        BY <2>0, <2>1, <2>3, <2>4
      <3>2. QED
        BY <1>4, <3>1
    <2>6. ASSUME NEW i \in 1 .. Len(ss), NEW j \in 1 .. Len(ss), i # j
          PROVE  ToSet(ss[i]) \cap ToSet(ss[j]) = {}
      <3>1. s[i] # s[j] /\ s[i] \in ToSet(s) /\ s[j] \in ToSet(s)
        BY <2>0, <2>1, <2>3, <2>4, <2>6 DEF IsInjective
      <3>2. Reach(kids, s[i]) \cap Reach(kids, s[j]) = {}
        BY <3>1, SiblingsApart
      <3> HIDE DEF ss
      <3>3. QED
        BY <2>5, <2>6, <3>2
    <2>7. FlattenSeq(ss) \in Seq(Nodes) /\ IsInjective(FlattenSeq(ss))
      <3> HIDE DEF ss, s
      <3> QED BY <2>3, <2>5, <2>6, FlattenTyped, FlattenInjective
    <2>8. ToSet(FlattenSeq(ss)) \subseteq UNION {Reach(kids, k) : k \in ToSet(s)}
      <3>1. ToSet(FlattenSeq(ss)) = UNION {ToSet(ss[k]) : k \in 1 .. Len(ss)}
        <4> HIDE DEF ss
        <4> QED BY <2>3, FlattenHolds
      <3> HIDE DEF ss, s
      <3>2. \A i \in 1 .. Len(ss) : s[i] \in ToSet(s)
        BY <2>1, <2>3
      <3>3. QED
        BY <2>5, <3>1, <3>2
    <2>9. \A k \in ToSet(s) : m \notin Reach(kids, k) /\ Reach(kids, k) \subseteq Reach(kids, m)
      <3>1. ASSUME NEW k \in ToSet(s) PROVE Reach(kids, k) \subseteq Reach(kids, m)
        <4>1. m \in Reach(kids, m) /\ Entire(kids, Reach(kids, m))
          BY <2>0, ReachClosed
        <4>2. k \in Reach(kids, m)
          BY <4>1 DEF Entire
        <4>3. QED
          BY <2>0, <4>2, ReachBelow
      <3>2. QED
        BY <3>1, ChildBelow
    <2>10. <<m>> \in Seq(Nodes) /\ ToSet(<<m>>) = {m} /\ IsInjective(<<m>>)
           /\ m \in Reach(kids, m)
      BY <2>0, ReachClosed DEF ToSet, IsInjective
    <2>11. down[depth][m] = <<m>> \o FlattenSeq(ss)
      BY <1>2, <2>0
    <2>12. ToSet(<<m>>) \cap ToSet(FlattenSeq(ss)) = {}
      <3> HIDE DEF ss, s
      <3> QED BY <2>8, <2>9, <2>10
    <2>13. /\ ToSet(down[depth][m]) = ToSet(<<m>>) \cup ToSet(FlattenSeq(ss))
           /\ IsInjective(down[depth][m])
      <3> HIDE DEF ss
      <3> QED BY <2>7, <2>10, <2>11, <2>12, ConcatSet
    <2>14. ToSet(FlattenSeq(ss)) \subseteq Reach(kids, m)
      <3> HIDE DEF ss, s
      <3> QED BY <2>8, <2>9
    <2>15. QED
      <3> HIDE DEF ss
      <3> QED BY <2>10, <2>13, <2>14
  <1>5. \A depth \in 1 .. Pool : depth - 1 \in Good => depth \in Good
    <2>1. ASSUME NEW depth \in 1 .. Pool, depth - 1 \in Good PROVE depth \in Good
      <3>1. Fine(depth - 1) /\ depth \in 0 .. Pool
        BY <1>0, <2>1
      <3>2. Fine(depth)
        BY <1>4, <3>1
      <3>3. QED
        BY <3>1, <3>2
    <2>2. QED
      BY <2>1
  <1>6. Pool \in Good
    <2> HIDE DEF Good
    <2>1. 0 .. Pool \subseteq Good
      BY <1>0, <1>3, <1>5, UpTo
    <2>2. QED
      BY <1>0, <2>1
  <1>7. root \in U
    BY ReachClosed
  <1>8. QED
    BY <1>2, <1>6, <1>7

\* What walks from some nodes reach.
Below(kids, roots) == UNION {Reach(kids, k) : k \in roots}

\* What is closed under the children is so under fewer of them.
LEMMA FewerKids ==
  ASSUME NEW kids, NEW kids1, NEW S, Entire(kids, S),
         \A q \in S : ToSet(kids1[q]) \subseteq ToSet(kids[q])
  PROVE  Entire(kids1, S)
  BY DEF Entire

\* Children of a live node are taken from it, and nothing else changes that
\* touches the others.
Prunes(kids, kids1, root, up, up1, p, Out) ==
  /\ kids \in [Nodes -> Seq(Nodes)] /\ kids1 \in [Nodes -> Seq(Nodes)] /\ root \in Nodes
  /\ Hangs(kids, root, up) /\ p \in Reach(kids, root) /\ Out \subseteq ToSet(kids[p])
  /\ \A q \in Nodes \ {p} : kids1[q] = kids[q]
  /\ IsInjective(kids1[p]) /\ ToSet(kids1[p]) = ToSet(kids[p]) \ Out
  /\ \A n \in Nodes \ Out : up1[n] = up[n]

\* They leave with all that hangs on them, and the rest is a tree.  What left
\* hangs as it did.
LEMMA Prune ==
  ASSUME NEW kids, NEW kids1, NEW root, NEW up, NEW up1, NEW p, NEW Out,
         Prunes(kids, kids1, root, up, up1, p, Out)
  PROVE  /\ Hangs(kids1, root, up1)
         /\ Reach(kids1, root) = Reach(kids, root) \ Below(kids, Out)
         /\ \A k \in Out : Reach(kids1, k) = Reach(kids, k)
         /\ p \in Reach(kids1, root) /\ Out \subseteq Nodes /\ Out \subseteq Below(kids, Out)
         /\ Below(kids, Out) \subseteq Reach(kids, root)
         /\ \A q \in Below(kids, Out) :
              /\ q \in Reach(kids, root) /\ IsInjective(kids1[q])
              /\ \A k \in ToSet(kids1[q]) : k \notin Out /\ up1[k] = q
  <1>a. /\ kids \in [Nodes -> Seq(Nodes)] /\ kids1 \in [Nodes -> Seq(Nodes)] /\ root \in Nodes
        /\ Hangs(kids, root, up) /\ p \in Reach(kids, root) /\ Out \subseteq ToSet(kids[p])
        /\ \A q \in Nodes \ {p} : kids1[q] = kids[q]
        /\ IsInjective(kids1[p]) /\ ToSet(kids1[p]) = ToSet(kids[p]) \ Out
        /\ \A n \in Nodes \ Out : up1[n] = up[n]
    BY DEF Prunes
  <1> DEFINE U == Reach(kids, root)
             V == Reach(kids1, root)
             H == Below(kids, Out)
  <1>0. /\ U \subseteq Nodes /\ root \in U /\ Entire(kids, U)
        /\ V \subseteq Nodes /\ root \in V /\ Entire(kids1, V)
        /\ p \in Nodes
    BY <1>a, ReachClosed
  <1>1. ASSUME NEW k \in Out
        PROVE  /\ k \in U /\ Reach(kids, k) \subseteq U /\ up[k] = p
               /\ p \notin Reach(kids, k) /\ root \notin Reach(kids, k)
               /\ k \in Reach(kids, k) /\ Entire(kids, Reach(kids, k))
               /\ \A x \in Reach(kids, k) \ {k} : up[x] \in Reach(kids, k)
    <2>0. /\ kids \in [Nodes -> Seq(Nodes)] /\ root \in Nodes /\ Hangs(kids, root, up)
          /\ p \in Reach(kids, root) /\ k \in ToSet(kids[p])
      BY <1>a
    <2>1. /\ k \in U /\ Reach(kids, k) \subseteq U /\ up[k] = p
          /\ p \notin Reach(kids, k) /\ root \notin Reach(kids, k)
          /\ \A x \in Reach(kids, k) \ {k} : up[x] \in Reach(kids, k)
      BY <2>0, ChildBelow
    <2>2. k \in Nodes
      BY <1>0, <2>1
    <2>3. k \in Reach(kids, k) /\ Entire(kids, Reach(kids, k))
      BY <1>a, <2>2, ReachClosed
    <2>4. QED
      BY <2>1, <2>3
  <1>2. \A q \in Nodes : ToSet(kids1[q]) \subseteq ToSet(kids[q])
    BY <1>a
  <1>3. /\ H \subseteq U /\ p \notin H /\ root \notin H /\ Out \subseteq H /\ Entire(kids, H)
        /\ \A x \in H \ Out : up[x] \in H
    BY <1>a, <1>1 DEF Below, Entire
  <1>4. ASSUME NEW k \in Out PROVE Reach(kids1, k) = Reach(kids, k)
    <2>0. k \in Nodes
      BY <1>a, <1>0, <1>1
    <2>1. Reach(kids1, k) \subseteq Reach(kids, k)
      <3>1. Entire(kids1, Reach(kids, k)) /\ Reach(kids, k) \in SUBSET Nodes
        BY <1>a, <1>0, <1>1, <1>2, FewerKids
      <3>2. QED
        BY <1>a, <1>1, <2>0, <3>1, ReachClosed
    <2>2. Reach(kids, k) \subseteq Reach(kids1, k)
      <3>1. /\ Reach(kids1, k) \in SUBSET Nodes /\ k \in Reach(kids1, k)
            /\ Entire(kids1, Reach(kids1, k))
        BY <1>a, <2>0, ReachClosed
      <3>2. \A q \in Reach(kids1, k) : kids1[q] = kids[q]
        BY <1>a, <1>1, <2>1, <3>1
      <3>3. Entire(kids, Reach(kids1, k))
        BY <1>a, <3>1, <3>2 DEF Entire
      <3>4. QED
        BY <1>a, <2>0, <3>1, <3>3, ReachClosed
    <2>3. QED
      BY <1>a, <2>1, <2>2
  <1>5. V \subseteq U
    <2>1. Entire(kids1, U)
      BY <1>a, <1>0, <1>2, FewerKids
    <2>2. QED
      BY <1>a, <1>0, <2>1, ReachClosed
  <1>6. U \subseteq V \cup H
    <2> DEFINE S == V \cup H
    <2>1. S \in SUBSET Nodes /\ root \in S
      BY <1>a, <1>0, <1>3
    <2>2. ASSUME NEW q \in V, NEW y \in ToSet(kids[q]) PROVE y \in S
      <3>1. CASE q = p /\ y \in Out
        BY <1>a, <1>3, <3>1
      <3>2. CASE ~(q = p /\ y \in Out)
        <4>1. y \in ToSet(kids1[q])
          BY <1>a, <1>0, <2>2, <3>2
        <4>2. QED
          BY <1>a, <1>0, <4>1 DEF Entire
      <3>3. QED
        BY <1>a, <3>1, <3>2
    <2>3. Entire(kids, S)
      BY <1>a, <1>3, <2>2 DEF Entire
    <2>4. U \subseteq S
      <3> HIDE DEF S
      <3> QED BY <1>a, <2>1, <2>3, ReachClosed
    <2>5. QED
      BY <1>a, <2>4
  <1>7. V \cap H = {}
    <2> DEFINE X == V \cap H
    <2>1. ASSUME NEW x \in X PROVE up[x] \in X
      <3>1. x # root
        BY <1>a, <1>3
      <3>2. PICK q \in V : x \in ToSet(kids1[q])
        BY <1>a, <3>1, ReachedFrom
      <3>3. q \in U /\ q \in Nodes /\ up[x] = q
        BY <1>a, <1>0, <1>2, <1>5, <3>2 DEF Hangs
      <3>4. x \notin Out
        BY <1>a, <1>1, <3>2, <3>3
      <3>5. QED
        BY <1>a, <1>3, <3>2, <3>3, <3>4
    <2>2. X \in SUBSET Reach(kids, root)
      BY <1>a, <1>3
    <2>3. X = {}
      <3> HIDE DEF X
      <3> QED BY <1>a, <2>1, <2>2, Rootless
    <2>4. QED
      BY <1>a, <2>3
  <1>8. V = U \ H
    BY <1>a, <1>5, <1>6, <1>7
  <1>9. Hangs(kids1, root, up1)
    <2>1. up1[root] = NoNode
      BY <1>a, <1>0, <1>3 DEF Hangs
    <2>2. ASSUME NEW q \in V PROVE IsInjective(kids1[q])
      BY <1>a, <1>0, <1>5, <2>2 DEF Hangs
    <2>3. ASSUME NEW q \in V, NEW k \in ToSet(kids1[q]) PROVE up1[k] = q
      <3>1. k \in V /\ k \in Nodes
        BY <1>a, <1>0, <2>3 DEF Entire
      <3>2. k \notin Out
        BY <1>a, <1>3, <1>7, <3>1
      <3>3. up[k] = q
        BY <1>a, <1>0, <1>2, <1>5, <2>3 DEF Hangs
      <3>4. QED
        BY <1>a, <3>1, <3>2, <3>3
    <2>4. QED
      BY <1>a, <2>1, <2>2, <2>3 DEF Hangs
  <1>10. ASSUME NEW q \in H
         PROVE  /\ q \in U /\ IsInjective(kids1[q])
                /\ \A k \in ToSet(kids1[q]) : k \notin Out /\ up1[k] = q
    <2>1. q \in U /\ q \in Nodes /\ q # p /\ kids1[q] = kids[q]
      BY <1>a, <1>0, <1>3
    <2>2. IsInjective(kids[q]) /\ \A k \in ToSet(kids[q]) : up[k] = q /\ k \in Nodes
      BY <1>a, <1>0, <2>1 DEF Hangs, Entire
    <2>3. \A k \in ToSet(kids[q]) : k \notin Out
      BY <1>a, <1>1, <2>1, <2>2
    <2>4. QED
      BY <1>a, <2>1, <2>2, <2>3
  <1>11. QED
    BY <1>a, <1>1, <1>3, <1>4, <1>8, <1>9, <1>10, <1>0

\* Nodes are put below a live node, with what hangs on them: nothing of that is
\* live yet, and all of it hangs.
Grafts(kids, kids1, root, up, up1, p, In) ==
  /\ kids \in [Nodes -> Seq(Nodes)] /\ kids1 \in [Nodes -> Seq(Nodes)] /\ root \in Nodes
  /\ Hangs(kids, root, up) /\ p \in Reach(kids, root) /\ In \subseteq Nodes
  /\ Below(kids, In) \cap Reach(kids, root) = {}
  /\ \A q \in Below(kids, In) :
       IsInjective(kids[q]) /\ \A k \in ToSet(kids[q]) : k \notin In /\ up[k] = q
  /\ \A q \in Nodes \ {p} : kids1[q] = kids[q]
  /\ IsInjective(kids1[p]) /\ ToSet(kids1[p]) = ToSet(kids[p]) \cup In
  /\ \A n \in Nodes \cap In : up1[n] = p
  /\ \A n \in Nodes \ In : up1[n] = up[n]

\* That makes a tree with it.
LEMMA Graft ==
  ASSUME NEW kids, NEW kids1, NEW root, NEW up, NEW up1, NEW p, NEW In,
         Grafts(kids, kids1, root, up, up1, p, In)
  PROVE  /\ Hangs(kids1, root, up1)
         /\ Reach(kids1, root) = Reach(kids, root) \cup Below(kids, In)
  <1>a. /\ kids \in [Nodes -> Seq(Nodes)] /\ kids1 \in [Nodes -> Seq(Nodes)] /\ root \in Nodes
        /\ Hangs(kids, root, up) /\ p \in Reach(kids, root) /\ In \subseteq Nodes
        /\ Below(kids, In) \cap Reach(kids, root) = {}
        /\ \A q \in Below(kids, In) :
             IsInjective(kids[q]) /\ \A k \in ToSet(kids[q]) : k \notin In /\ up[k] = q
        /\ \A q \in Nodes \ {p} : kids1[q] = kids[q]
        /\ IsInjective(kids1[p]) /\ ToSet(kids1[p]) = ToSet(kids[p]) \cup In
        /\ \A n \in Nodes \cap In : up1[n] = p
        /\ \A n \in Nodes \ In : up1[n] = up[n]
    BY DEF Grafts
  <1> DEFINE U == Reach(kids, root)
             V == Reach(kids1, root)
             G == Below(kids, In)
  <1>0. /\ U \subseteq Nodes /\ root \in U /\ Entire(kids, U)
        /\ V \subseteq Nodes /\ root \in V /\ Entire(kids1, V)
        /\ p \in Nodes
    BY <1>a, ReachClosed
  <1>1. \A k \in In : /\ Reach(kids, k) \in SUBSET Nodes /\ k \in Reach(kids, k)
                      /\ Entire(kids, Reach(kids, k))
    BY <1>a, ReachClosed
  <1>2. G \subseteq Nodes /\ In \subseteq G /\ Entire(kids, G) /\ p \notin G /\ root \notin G
    BY <1>a, <1>0, <1>1 DEF Below, Entire
  <1>3. \A q \in Nodes : ToSet(kids[q]) \subseteq ToSet(kids1[q])
    BY <1>a
  <1>4. V \subseteq U \cup G
    <2> DEFINE S == U \cup G
    <2>1. S \in SUBSET Nodes /\ root \in S
      BY <1>a, <1>0, <1>2
    <2>2. ASSUME NEW q \in S, NEW y \in ToSet(kids1[q]) PROVE y \in S
      <3>1. CASE q = p
        <4>1. y \in In \/ y \in ToSet(kids[q])
          BY <1>a, <2>2, <3>1
        <4>2. QED
          BY <1>a, <1>0, <1>2, <3>1, <4>1 DEF Entire
      <3>2. CASE q # p
        <4>1. y \in ToSet(kids[q])
          BY <1>a, <2>1, <2>2, <3>2
        <4>2. QED
          BY <1>a, <1>0, <1>2, <4>1 DEF Entire
      <3>3. QED
        BY <1>a, <3>1, <3>2
    <2>3. Entire(kids1, S)
      BY <1>a, <2>2 DEF Entire
    <2>4. V \subseteq S
      <3> HIDE DEF S
      <3> QED BY <1>a, <2>1, <2>3, ReachClosed
    <2>5. QED
      BY <1>a, <2>4
  <1>5. Entire(kids, V)
    BY <1>a, <1>0, <1>3, FewerKids
  <1>6. U \subseteq V
    BY <1>a, <1>0, <1>5, ReachClosed
  <1>7. G \subseteq V
    <2>1. In \subseteq V
      BY <1>a, <1>0, <1>6 DEF Entire
    <2>2. \A k \in In : Reach(kids, k) \subseteq V
      BY <1>a, <1>0, <1>5, <2>1, ReachClosed
    <2>3. QED
      BY <1>a, <2>2 DEF Below
  <1>8. Hangs(kids1, root, up1)
    <2>1. up1[root] = NoNode
      BY <1>a, <1>0, <1>2 DEF Hangs
    <2>2. ASSUME NEW q \in V PROVE IsInjective(kids1[q])
      <3>1. CASE q = p
        BY <1>a, <3>1
      <3>2. CASE q # p
        BY <1>a, <1>0, <1>4, <2>2, <3>2 DEF Hangs
      <3>3. QED
        BY <1>a, <3>1, <3>2
    <2>3. ASSUME NEW q \in V, NEW k \in ToSet(kids1[q]) PROVE up1[k] = q
      <3>0. k \in Nodes /\ q \in Nodes
        BY <1>a, <1>0, <2>3 DEF Entire
      <3>1. CASE q = p /\ k \in In
        BY <1>a, <3>0, <3>1
      <3>2. CASE ~(q = p /\ k \in In)
        <4>1. k \in ToSet(kids[q])
          BY <1>a, <2>3, <3>0, <3>2
        <4>2. CASE q \in U
          <5>1. k \in U /\ up[k] = q
            BY <1>a, <1>0, <4>1, <4>2 DEF Entire, Hangs
          <5>2. k \notin In
            BY <1>a, <1>2, <5>1
          <5>3. QED
            BY <1>a, <3>0, <5>1, <5>2
        <4>3. CASE q \in G
          BY <1>a, <3>0, <4>1, <4>3
        <4>4. QED
          BY <1>a, <1>4, <2>3, <4>2, <4>3
      <3>3. QED
        BY <1>a, <3>1, <3>2
    <2>4. QED
      BY <1>a, <2>1, <2>2, <2>3 DEF Hangs
  <1>9. QED
    BY <1>a, <1>4, <1>6, <1>7, <1>8

-----------------------------------------------------------------------------
(* What the operators do to the places of nodes and to their numbers.      *)

\* A fragment is what hangs on its roots, them included.
LEMMA FragmentBelow ==
  ASSUME NEW T, T.kids \in [Nodes -> Seq(Nodes)], NEW roots \in Seq(Nodes)
  PROVE  Fragment(T, roots) = Below(T.kids, ToSet(roots))
  <1> DEFINE ss == [i \in DOMAIN roots |-> Walk(T.kids, roots[i])]
  <1>1. \A i \in 1 .. Len(roots) : roots[i] \in Nodes
    OBVIOUS
  <1>2. \A i \in 1 .. Len(roots) : Walk(T.kids, roots[i]) \in Seq(Nodes)
    BY <1>1, WalkTyped
  <1>3. ss \in [1 .. Len(roots) -> Seq(Nodes)] /\ Len(roots) \in Nat
        /\ DOMAIN roots = 1 .. Len(roots)
    BY <1>2
  <1>4. \A i \in 1 .. Len(roots) : ToSet(ss[i]) = Reach(T.kids, roots[i])
    BY <1>3 DEF Reach
  <1> HIDE DEF ss
  <1>5. ss \in Seq(Seq(Nodes)) /\ Len(ss) = Len(roots)
    BY <1>3, FunctionIsSeq
  <1>6. ToSet(FlattenSeq(ss)) = UNION {ToSet(ss[k]) : k \in 1 .. Len(ss)}
    BY <1>5, FlattenHolds
  <1>7. ToSet(FlattenSeq(ss)) = UNION {Reach(T.kids, roots[i]) : i \in DOMAIN roots}
    BY <1>3, <1>4, <1>5, <1>6
  <1>8. ToSet(roots) = {roots[i] : i \in DOMAIN roots}
    BY DEF ToSet
  <1>9. UNION {Reach(T.kids, roots[i]) : i \in DOMAIN roots} = Below(T.kids, ToSet(roots))
    BY <1>8 DEF Below
  <1>10. QED
    BY <1>7, <1>9 DEF Fragment, Walked, ss

\* The same short ids, in the labels and in the map.
SameIds(T, R) == R.label = T.label /\ R.number = T.number /\ R.next = T.next

\* The nodes ns hang on p now; they only have new labels; p has new children.
Rehung(T, R, ns, p)     == \A n \in Nodes : R.up[n] = IF n \in ns THEN p ELSE T.up[n]
Relabelled(T, R, ns)    == \A n \in Nodes \ ns : R.label[n] = T.label[n]
Rechilded(T, R, p, s)   == R.kids[p] = s /\ \A q \in Nodes \ {p} : R.kids[q] = T.kids[q]

\* The index has got entries of the nodes ns, or lost all under their labels.
Entered(T, R, ns) == \A e \in R.index : e \in T.index \/ (e[2] \in ns /\ e[1] = T.label[e[2]])
Struck(T, R, ns)  == \A e \in R.index : e \in T.index /\ \A n \in ns : T.label[n] # e[1]

\* Registering adds nodes to the indexes.
LEMMA RegisteredShape ==
  ASSUME NEW A \in SUBSET Nodes, NEW T, Sound(T, A), NEW new \in Seq(A),
         NEW R, R = Registered(T, new)
  PROVE  /\ SameIds(T, R) /\ R.known = T.known \cup ToSet(new)
         /\ Entered(T, R, ToSet(new))
  <1> DEFINE last == {i \in DOMAIN new :
                        \A k \in i + 1 .. Len(new) : T.label[new[k]] # T.label[new[i]]}
             old == {e \in T.index : \A n \in ToSet(new) : T.label[n] # e[1]}
             come == {<<T.label[new[i]], new[i]>> :
                        i \in {k \in last : T.label[new[k]] # NoNumber}}
  <1>0. T \in TreeDocs(A)
    BY DEF Sound
  <1>1. R = [T EXCEPT !.known = T.known \cup ToSet(new), !.index = old \cup come]
    BY <1>0 DEF Registered, TreeDocs
  <1>2. ASSUME NEW e \in old \cup come
        PROVE  e \in T.index \/ (e[2] \in ToSet(new) /\ e[1] = T.label[e[2]])
    <2>1. CASE e \in come
      <3>1. PICK i \in DOMAIN new : e = <<T.label[new[i]], new[i]>>
        BY <2>1
      <3>2. new[i] \in ToSet(new)
        BY DEF ToSet
      <3>3. QED
        BY <3>1, <3>2
    <2>2. QED
      BY <2>1
  <1> HIDE DEF old, come
  <1>3. SameIds(T, R) /\ R.known = T.known \cup ToSet(new) /\ R.index = old \cup come
    BY <1>0, <1>1 DEF TreeDocs, SameIds
  <1>4. QED
    BY <1>2, <1>3 DEF Entered

\* Unregistering takes a fragment out of them, and cuts its roots off.
LEMMA UnregisteredShape ==
  ASSUME NEW A \in SUBSET Nodes, NEW T, Sound(T, A), NEW roots,
         NEW R, R = Unregistered(T, roots)
  PROVE  /\ SameIds(T, R) /\ R.known = T.known \ Fragment(T, roots)
         /\ Struck(T, R, Fragment(T, roots)) /\ Rehung(T, R, ToSet(roots), NoNode)
  <1> DEFINE F == Fragment(T, roots)
             I == {e \in T.index : \A n \in F : T.label[n] # e[1]}
             g == [n \in Nodes |-> IF n \in ToSet(roots) THEN NoNode ELSE T.up[n]]
  <1>0. T \in TreeDocs(A)
    BY DEF Sound
  <1>1. R = [T EXCEPT !.known = T.known \ F, !.index = I, !.up = g]
    BY <1>0 DEF Unregistered, TreeDocs
  <1>2. \A e \in I : e \in T.index /\ \A n \in F : T.label[n] # e[1]
    OBVIOUS
  <1>3. \A n \in Nodes : g[n] = IF n \in ToSet(roots) THEN NoNode ELSE T.up[n]
    OBVIOUS
  <1> HIDE DEF F, I, g
  <1>4. SameIds(T, R) /\ R.known = T.known \ F /\ R.index = I /\ R.up = g
    BY <1>0, <1>1 DEF TreeDocs, SameIds
  <1>5. QED
    BY <1>2, <1>3, <1>4 DEF F, Struck, Rehung

\* Labelling spends numbers, and labels the fresh nodes alone.
LEMMA LabelledShape ==
  ASSUME NEW A \in SUBSET Nodes, NEW T, Sound(T, A), NEW fresh \in Seq(A),
         NEW R, R = Labelled(T, fresh)
  PROVE  /\ R.number = T.number /\ T.next <= R.next
         /\ R.known = T.known /\ R.index = T.index
         /\ Relabelled(T, R, ToSet(fresh))
  <1> DEFINE g == [n \in Nodes |-> IF n \in ToSet(fresh)
                                   THEN T.next + PlaceOf(fresh, n) - 1 ELSE T.label[n]]
  <1>0. T \in TreeDocs(A)
    BY DEF Sound
  <1>1. R = [T EXCEPT !.label = g, !.next = T.next + Len(fresh)]
    BY <1>0 DEF Labelled, TreeDocs
  <1>2. T.next <= T.next + Len(fresh)
    BY <1>0 DEF TreeDocs
  <1>3. \A n \in Nodes \ ToSet(fresh) : g[n] = T.label[n]
    OBVIOUS
  <1> HIDE DEF g
  <1>4. /\ R.number = T.number /\ R.next = T.next + Len(fresh)
        /\ R.known = T.known /\ R.index = T.index /\ R.label = g
    BY <1>0, <1>1 DEF TreeDocs
  <1>5. QED
    BY <1>2, <1>3, <1>4 DEF Relabelled

\* Adopting changes the links to the parent alone.
LEMMA AdoptedShape ==
  ASSUME NEW A \in SUBSET Nodes, NEW T, Sound(T, A), NEW roots, NEW p \in Nodes,
         NEW R, R = Adopted(T, p, roots)
  PROVE  /\ SameIds(T, R) /\ R.known = T.known /\ R.index = T.index
         /\ Rehung(T, R, ToSet(roots), p)
  <1> DEFINE g == [n \in Nodes |-> IF n \in ToSet(roots) THEN p ELSE T.up[n]]
  <1>0. T \in TreeDocs(A)
    BY DEF Sound
  <1>1. R = [T EXCEPT !.up = g]
    BY <1>0 DEF Adopted, TreeDocs
  <1>2. \A n \in Nodes : g[n] = IF n \in ToSet(roots) THEN p ELSE T.up[n]
    OBVIOUS
  <1> HIDE DEF g
  <1>3. SameIds(T, R) /\ R.known = T.known /\ R.index = T.index /\ R.up = g
    BY <1>0, <1>1 DEF TreeDocs, SameIds
  <1>4. QED
    BY <1>2, <1>3 DEF Rehung

\* New children change the children alone, ...
LEMMA RehungShape ==
  ASSUME NEW A \in SUBSET Nodes, NEW T, Sound(T, A), NEW p \in Nodes, NEW s \in Seq(A),
         NEW R, R = [T EXCEPT !.kids[p] = s]
  PROVE  /\ SameIds(T, R) /\ R.known = T.known /\ R.index = T.index /\ R.up = T.up
         /\ R.root = T.root /\ Rechilded(T, R, p, s)
  <1>0. T \in TreeDocs(A)
    BY DEF Sound
  <1>1. QED
    BY <1>0 DEF TreeDocs, SameIds, Rechilded

\* ... in a move with the mark that no commit was made on them.
LEMMA ShiftedShape ==
  ASSUME NEW A \in SUBSET Nodes, NEW T, Sound(T, A), NEW p \in Nodes, NEW s \in Seq(A),
         NEW R, R = Shifted(T, p, s)
  PROVE  /\ SameIds(T, R) /\ R.known = T.known /\ R.index = T.index /\ R.up = T.up
         /\ R.root = T.root /\ Rechilded(T, R, p, s)
  <1>0. T \in TreeDocs(A)
    BY DEF Sound
  <1>1. QED
    BY <1>0 DEF TreeDocs, SameIds, Rechilded, Shifted

-----------------------------------------------------------------------------
(* Splices.                                                                *)

\* One sequence after another, place by place.
LEMMA ConcatAt ==
  ASSUME NEW S, NEW s \in Seq(S), NEW t \in Seq(S)
  PROVE  /\ s \o t \in Seq(S) /\ Len(s \o t) = Len(s) + Len(t)
         /\ \A k \in 1 .. Len(s) : (s \o t)[k] = s[k]
         /\ \A k \in 1 .. Len(t) : (s \o t)[Len(s) + k] = t[k]
  OBVIOUS

\* Sequences of one length with the same elements are one.
LEMMA SeqSame ==
  ASSUME NEW S, NEW s \in Seq(S), NEW t \in Seq(S), Len(s) = Len(t),
         \A k \in 1 .. Len(s) : s[k] = t[k]
  PROVE  s = t
  OBVIOUS

\* A part of a sequence, place by place.
LEMMA SubSeqAt ==
  ASSUME NEW S, NEW s \in Seq(S), NEW i \in 0 .. Len(s), NEW j \in i .. Len(s)
  PROVE  /\ SubSeq(s, i + 1, j) \in Seq(S) /\ Len(SubSeq(s, i + 1, j)) = j - i
         /\ \A k \in 1 .. j - i : SubSeq(s, i + 1, j)[k] = s[i + k]
  <1>0. i \in Nat /\ j \in Nat /\ i <= j /\ j <= Len(s) /\ Len(s) \in Nat
    OBVIOUS
  <1>1. QED
    BY <1>0

\* A sequence is what comes before a place, the run from there, and the rest.
LEMMA SplitSeq ==
  ASSUME NEW S, NEW s \in Seq(S), NEW i \in 0 .. Len(s), NEW j \in i .. Len(s)
  PROVE  /\ SubSeq(s, 1, i) \in Seq(S) /\ SubSeq(s, i + 1, j) \in Seq(S)
         /\ SubSeq(s, j + 1, Len(s)) \in Seq(S)
         /\ s = (SubSeq(s, 1, i) \o SubSeq(s, i + 1, j)) \o SubSeq(s, j + 1, Len(s))
  <1>l. PICK l : l = SubSeq(s, 1, i)
    OBVIOUS
  <1>m. PICK m : m = SubSeq(s, i + 1, j)
    OBVIOUS
  <1>r. PICK r : r = SubSeq(s, j + 1, Len(s))
    OBVIOUS
  <1>n. PICK n : n = Len(s)
    OBVIOUS
  <1>0. i \in Nat /\ j \in Nat /\ i <= j /\ j <= n /\ n \in Nat
    BY <1>n
  <1>1. l \in Seq(S) /\ Len(l) = i /\ \A k \in 1 .. i : l[k] = s[k]
    <2>1. 0 \in 0 .. Len(s) /\ i \in 0 .. Len(s)
      BY <1>0, <1>n
    <2>2. SubSeq(s, 0 + 1, i) \in Seq(S) /\ Len(SubSeq(s, 0 + 1, i)) = i - 0
          /\ \A k \in 1 .. i - 0 : SubSeq(s, 0 + 1, i)[k] = s[0 + k]
      BY <2>1, SubSeqAt
    <2>3. 0 + 1 = 1 /\ i - 0 = i /\ \A k \in 1 .. i : 0 + k = k
      BY <1>0
    <2>4. QED
      BY <1>l, <2>2, <2>3
  <1>2. m \in Seq(S) /\ Len(m) = j - i /\ \A k \in 1 .. j - i : m[k] = s[i + k]
    BY <1>m, SubSeqAt
  <1>3. r \in Seq(S) /\ Len(r) = n - j /\ \A k \in 1 .. n - j : r[k] = s[j + k]
    <2>1. j \in 0 .. Len(s) /\ Len(s) \in j .. Len(s)
      BY <1>0, <1>n
    <2>2. QED
      BY <1>r, <1>n, <2>1, SubSeqAt
  <1>4. /\ l \o m \in Seq(S) /\ Len(l \o m) = j
        /\ \A k \in 1 .. i : (l \o m)[k] = s[k]
        /\ \A k \in 1 .. j - i : (l \o m)[i + k] = s[i + k]
    <2>0. l \in Seq(S) /\ m \in Seq(S)
      BY <1>1, <1>2
    <2>1. /\ l \o m \in Seq(S) /\ Len(l \o m) = Len(l) + Len(m)
          /\ \A k \in 1 .. Len(l) : (l \o m)[k] = l[k]
          /\ \A k \in 1 .. Len(m) : (l \o m)[Len(l) + k] = m[k]
      BY <2>0, ConcatAt
    <2>2. i + (j - i) = j
      BY <1>0
    <2>3. QED
      BY <1>1, <1>2, <2>1, <2>2
  <1>5. \A k \in 1 .. j : (l \o m)[k] = s[k]
    <2>1. ASSUME NEW k \in 1 .. j PROVE (l \o m)[k] = s[k]
      <3>1. CASE k \in 1 .. i
        BY <1>4, <3>1
      <3>2. CASE k \notin 1 .. i
        <4>1. k - i \in 1 .. j - i /\ i + (k - i) = k
          BY <1>0, <3>2
        <4>2. (l \o m)[i + (k - i)] = s[i + (k - i)]
          BY <1>4, <4>1
        <4>3. QED
          BY <4>1, <4>2
      <3>3. QED
        BY <3>1, <3>2
    <2>2. QED
      BY <2>1
  <1>u. PICK u : u = (l \o m) \o r
    OBVIOUS
  <1>6. /\ u \in Seq(S) /\ Len(u) = n
        /\ \A k \in 1 .. j : u[k] = s[k]
        /\ \A k \in 1 .. n - j : u[j + k] = s[j + k]
    <2>a. PICK v : v = l \o m
      OBVIOUS
    <2>0. v \in Seq(S) /\ r \in Seq(S) /\ u = v \o r /\ Len(v) = j
      BY <1>3, <1>4, <1>u, <2>a
    <2>b. /\ u \in Seq(S) /\ Len(u) = Len(v) + Len(r)
          /\ \A k \in 1 .. Len(v) : u[k] = v[k]
          /\ \A k \in 1 .. Len(r) : u[Len(v) + k] = r[k]
      <3>1. v \in Seq(S) /\ r \in Seq(S) /\ u = v \o r
        BY <2>0
      <3>2. QED
        BY <3>1, ConcatAt
    <2>1. /\ u \in Seq(S) /\ Len(u) = j + (n - j)
          /\ \A k \in 1 .. j : u[k] = (l \o m)[k]
          /\ \A k \in 1 .. n - j : u[j + k] = r[k]
      BY <1>3, <2>0, <2>a, <2>b
    <2>2. j + (n - j) = n
      BY <1>0
    <2>3. QED
      BY <1>3, <1>5, <2>1, <2>2
  <1>7. \A k \in 1 .. n : u[k] = s[k]
    <2>1. ASSUME NEW k \in 1 .. n PROVE u[k] = s[k]
      <3>1. CASE k \in 1 .. j
        BY <1>6, <3>1
      <3>2. CASE k \notin 1 .. j
        <4>1. k - j \in 1 .. n - j /\ j + (k - j) = k
          BY <1>0, <3>2
        <4>2. u[j + (k - j)] = s[j + (k - j)]
          BY <1>6, <4>1
        <4>3. QED
          BY <4>1, <4>2
      <3>3. QED
        BY <3>1, <3>2
    <2>2. QED
      BY <2>1
  <1>8. s = u
    BY <1>6, <1>7, <1>n, SeqSame
  <1>9. QED
    BY <1>1, <1>2, <1>3, <1>8, <1>l, <1>m, <1>r, <1>u

\* The children between two places are to give way to nodes that are not among
\* the children.
Exchanges(S, s, i, j, new) ==
  /\ s \in Seq(S) /\ IsInjective(s) /\ i \in 0 .. Len(s) /\ j \in i .. Len(s)
  /\ new \in Seq(S) /\ IsInjective(new) /\ ToSet(new) \cap ToSet(s) = {}

\* The splice then takes out those, puts in these, and keeps the others.
LEMMA SpliceHolds ==
  ASSUME NEW S, NEW s, NEW i, NEW j, NEW new, Exchanges(S, s, i, j, new)
  PROVE  LET u   == Splice(s, i, j, new)
             cut == SubSeq(s, i + 1, j)
         IN /\ u \in Seq(S) /\ IsInjective(u) /\ IsInjective(cut)
            /\ ToSet(u) = (ToSet(s) \ ToSet(cut)) \cup ToSet(new)
            /\ ToSet(cut) \subseteq ToSet(s) /\ (i = j => ToSet(cut) = {})
  <1>a. PICK u, cut : u = Splice(s, i, j, new) /\ cut = SubSeq(s, i + 1, j)
    OBVIOUS
  <1>0. /\ s \in Seq(S) /\ IsInjective(s) /\ i \in 0 .. Len(s) /\ j \in i .. Len(s)
        /\ new \in Seq(S) /\ IsInjective(new) /\ ToSet(new) \cap ToSet(s) = {}
    BY DEF Exchanges
  <1>l. PICK l : l = SubSeq(s, 1, i)
    OBVIOUS
  <1>r. PICK r : r = SubSeq(s, j + 1, Len(s))
    OBVIOUS
  <1>1. /\ l \in Seq(S) /\ cut \in Seq(S) /\ r \in Seq(S) /\ l \o cut \in Seq(S)
        /\ s = (l \o cut) \o r
    <2>1. /\ l \in Seq(S) /\ cut \in Seq(S) /\ r \in Seq(S)
          /\ s = (l \o cut) \o r
      BY <1>0, <1>a, <1>l, <1>r, SplitSeq
    <2>2. QED
      BY <2>1, ConcatAt
  <1>2. u = (l \o new) \o r
    <2>1. Min({i, Len(s)}) = i
      BY <1>0, MinTyped
    <2>2. QED
      BY <1>a, <1>l, <1>r, <2>1 DEF Splice
  <1>v. PICK v : v = l \o cut
    OBVIOUS
  <1>w. PICK w : w = l \o new
    OBVIOUS
  <1>3. /\ ToSet(s) = ToSet(v) \cup ToSet(r) /\ ToSet(v) = ToSet(l) \cup ToSet(cut)
        /\ IsInjective(v) /\ IsInjective(r) /\ ToSet(v) \cap ToSet(r) = {}
    <2>0. l \in Seq(S) /\ cut \in Seq(S) /\ v = l \o cut
      BY <1>1, <1>v
    <2>1. ToSet(v) = ToSet(l) \cup ToSet(cut)
      BY <2>0, ConcatSet
    <2>2. v \in Seq(S) /\ r \in Seq(S) /\ s = v \o r
      BY <1>1, <1>v
    <2>3. ToSet(s) = ToSet(v) \cup ToSet(r)
          /\ (IsInjective(s) => IsInjective(v) /\ IsInjective(r) /\ ToSet(v) \cap ToSet(r) = {})
      BY <2>2, ConcatSet
    <2>4. QED
      BY <1>0, <2>1, <2>3
  <1>4. IsInjective(l) /\ IsInjective(cut) /\ ToSet(l) \cap ToSet(cut) = {}
    <2>0. l \in Seq(S) /\ cut \in Seq(S) /\ v = l \o cut /\ IsInjective(v)
      BY <1>1, <1>3, <1>v
    <2>1. QED
      BY <2>0, ConcatSet
  <1>5. w \in Seq(S) /\ ToSet(w) = ToSet(l) \cup ToSet(new) /\ IsInjective(w)
    <2>1. ToSet(l) \cap ToSet(new) = {}
      BY <1>0, <1>3
    <2>2. l \in Seq(S) /\ new \in Seq(S) /\ w = l \o new
      BY <1>0, <1>1, <1>w
    <2>3. w \in Seq(S)
      BY <2>2, ConcatAt
    <2>4. ToSet(w) = ToSet(l) \cup ToSet(new)
      BY <2>2, ConcatSet
    <2>5. IsInjective(w)
      BY <1>0, <1>4, <2>1, <2>2, ConcatSet
    <2>6. QED
      BY <2>3, <2>4, <2>5
  <1>6. ToSet(w) \cap ToSet(r) = {}
    BY <1>0, <1>3, <1>5
  <1>7. ToSet(u) = ToSet(w) \cup ToSet(r) /\ IsInjective(u) /\ u \in Seq(S)
    <2>1. u = w \o r /\ w \in Seq(S) /\ r \in Seq(S)
      BY <1>1, <1>2, <1>5, <1>w
    <2>2. ToSet(u) = ToSet(w) \cup ToSet(r)
      BY <2>1, ConcatSet
    <2>3. IsInjective(u)
      BY <1>3, <1>5, <1>6, <2>1, ConcatSet
    <2>4. u \in Seq(S)
      BY <2>1, ConcatAt
    <2>5. QED
      BY <2>2, <2>3, <2>4
  <1>8. i = j => ToSet(cut) = {}
    <2>1. cut \in Seq(S) /\ Len(cut) = j - i
      BY <1>0, <1>a, SubSeqAt
    <2>2. i = j => cut = <<>>
      BY <1>0, <2>1
    <2>3. QED
      BY <2>2 DEF ToSet
  <1>9. QED
    BY <1>0, <1>3, <1>4, <1>5, <1>7, <1>8, <1>a

-----------------------------------------------------------------------------
(* The edits keep trees.                                                   *)

\* A document whose nodes hang in a tree, with indexes of live nodes.
Kempt(T) ==
  /\ Hangs(T.kids, T.root, T.up)
  /\ T.known = Under(T)
  /\ \A e \in T.index : e[2] \in Under(T) /\ e[1] = T.label[e[2]]

\* T after an edit that put no other nodes than N into it.
Grown(T, U, N) ==
  /\ Kempt(U) /\ U.number = T.number /\ T.next <= U.next
  /\ Under(U) \subseteq Under(T) \cup N
  /\ \A n \in Under(T) \cap Under(U) : U.up[n] = T.up[n]

\* T after more nodes ns were put into it; everything else hangs where it did.
Planted(T, U, ns) ==
  /\ Kempt(U) /\ Under(U) = Under(T) \cup ns
  /\ \A k \in Nodes \ ns : U.up[k] = T.up[k]
  /\ U.number = T.number /\ T.next <= U.next

\* Where the children are the same, the same nodes are reached.
LEMMA SameReach ==
  ASSUME NEW kids \in [Nodes -> Seq(Nodes)], NEW kids1 \in [Nodes -> Seq(Nodes)],
         NEW k \in Nodes, \A q \in Reach(kids, k) : kids1[q] = kids[q]
  PROVE  Reach(kids1, k) = Reach(kids, k)
  <1>1. /\ Reach(kids, k) \in SUBSET Nodes /\ k \in Reach(kids, k)
        /\ Entire(kids, Reach(kids, k))
    BY ReachClosed
  <1>2. Entire(kids1, Reach(kids, k))
    BY <1>1 DEF Entire
  <1>3. Reach(kids1, k) \subseteq Reach(kids, k)
    BY <1>1, <1>2, ReachClosed
  <1>4. /\ Reach(kids1, k) \in SUBSET Nodes /\ k \in Reach(kids1, k)
        /\ Entire(kids1, Reach(kids1, k))
    BY ReachClosed
  <1>5. Entire(kids, Reach(kids1, k))
    BY <1>3, <1>4 DEF Entire
  <1>6. QED
    BY <1>3, <1>4, <1>5, ReachClosed

\* A node without children is all that hangs on it.
LEMMA LeafReach ==
  ASSUME NEW kids \in [Nodes -> Seq(Nodes)], NEW N \in SUBSET Nodes,
         \A n \in N : kids[n] = <<>>
  PROVE  Below(kids, N) = N
  <1>1. ASSUME NEW n \in N PROVE Reach(kids, n) = {n}
    <2>1. Entire(kids, {n})
      BY DEF Entire, ToSet
    <2>2. {n} \in SUBSET Nodes
      OBVIOUS
    <2>3. Reach(kids, n) \subseteq {n}
      BY <2>1, <2>2, ReachClosed
    <2>4. n \in Reach(kids, n)
      BY ReachClosed
    <2>5. QED
      BY <2>3, <2>4
  <1>2. QED
    BY <1>1 DEF Below

\* The children of a document that is sound are nodes.
LEMMA SoundKids ==
  ASSUME NEW A \in SUBSET Nodes, NEW T, Sound(T, A)
  PROVE  /\ T.kids \in [Nodes -> Seq(Nodes)] /\ T.root \in Nodes /\ T.root \in A
         /\ \A n \in Nodes : T.kids[n] \in Seq(A) /\ T.kids[n] \in Seq(Nodes)
         /\ Under(T) = Reach(T.kids, T.root) /\ Under(T) \subseteq A
  <1>1. T.kids \in [Nodes -> Seq(A)] /\ T.root \in A
    BY DEF Sound, TreeDocs
  <1>2. \A n \in Nodes : T.kids[n] \in Seq(A) /\ T.kids[n] \in Seq(Nodes)
    BY <1>1, SeqOver
  <1>3. T.kids \in [Nodes -> Seq(Nodes)]
    BY <1>1, <1>2
  <1>4. Under(T) = Reach(T.kids, T.root) /\ Under(T) \subseteq A
    BY <1>1, UnderTyped DEF Under, Reach
  <1>5. QED
    BY <1>1, <1>2, <1>3, <1>4

\* Children of live nodes are live.
LEMMA LiveKids ==
  ASSUME NEW A \in SUBSET Nodes, NEW T, Sound(T, A), NEW p \in Under(T)
  PROVE  p \in Nodes /\ ToSet(T.kids[p]) \subseteq Under(T)
  <1>1. /\ T.kids \in [Nodes -> Seq(Nodes)] /\ T.root \in Nodes
        /\ Under(T) = Reach(T.kids, T.root)
    BY SoundKids
  <1>2. Under(T) \subseteq Nodes /\ Entire(T.kids, Under(T))
    BY <1>1, ReachClosed
  <1>3. QED
    BY <1>2 DEF Entire

\* operations.insert of a leaf that is nowhere yet makes one more live node.
LEMMA Insert1Kept ==
  ASSUME NEW A \in SUBSET Nodes, NEW T, Sound(T, A), Kempt(T),
         NEW n \in A \ Under(T), T.kids[n] = <<>>, NEW at, NEW p \in Under(T),
         Addresses(T, at, p), NEW R, R = Insert1(T, n, at)
  PROVE  Planted(T, R, {n})
  <1>i. PICK i : i = Spot(T, at)
    OBVIOUS
  <1>w. PICK w : w = <<n>>
    OBVIOUS
  <1>b. PICK B : B = Labelled(T, w)
    OBVIOUS
  <1>l. PICK L : L = Adopted(B, p, w)
    OBVIOUS
  <1>c. PICK c : c = Splice(L.kids[p], i, i, w)
    OBVIOUS
  <1>s. PICK S : S = [L EXCEPT !.kids[p] = c]
    OBVIOUS
  <1>k. PICK s : s = T.kids[p]
    OBVIOUS
  <1>0. /\ T \in TreeDocs(A) /\ p \in Nodes /\ w \in Seq(A) /\ ToSet(w) = {n}
        /\ IsInjective(w) /\ n \in Nodes
    BY <1>w DEF Sound, Addresses, ToSet, IsInjective
  <1>1. /\ i \in 0 .. Len(s) /\ i \in i .. Len(s) /\ i \in Nat /\ s \in Seq(A)
        /\ IsInjective(s) /\ ToSet(s) \subseteq Under(T)
    <2>1. s \in Seq(A) /\ ToSet(s) \subseteq Under(T) /\ Len(s) \in Nat
      BY <1>0, <1>k, SoundKids, LiveKids
    <2>2. i \in 0 .. Len(s)
      BY <1>0, <1>i, <1>k, SpotTyped
    <2>3. IsInjective(s)
      BY <1>k, SoundKids DEF Kempt, Hangs
    <2>4. QED
      BY <2>1, <2>2, <2>3
  <1>2. R = Registered(S, w)
    BY <1>i, <1>w, <1>b, <1>l, <1>c, <1>s DEF Insert1, Addresses
  <1>3. /\ Sound(B, A) /\ B.kids = T.kids /\ B.root = T.root /\ B.up = T.up
        /\ B.number = T.number /\ T.next <= B.next
        /\ B.known = T.known /\ B.index = T.index
        /\ \A k \in Nodes \ {n} : B.label[k] = T.label[k]
    BY <1>0, <1>b, LabelledSound, LabelledShape DEF SameTree, Relabelled
  <1>4. /\ Sound(L, A) /\ L.kids = T.kids /\ L.root = T.root
        /\ SameIds(B, L) /\ L.known = T.known /\ L.index = T.index
        /\ L.up[n] = p /\ \A k \in Nodes \ {n} : L.up[k] = T.up[k]
    <2>1. Sound(L, A) /\ SameTree(B, L)
      BY <1>0, <1>3, <1>l, AdoptedSound
    <2>2. /\ SameIds(B, L) /\ L.known = B.known /\ L.index = B.index
          /\ Rehung(B, L, ToSet(w), p)
      <3>1. Sound(B, A) /\ p \in Nodes /\ L = Adopted(B, p, w)
        BY <1>0, <1>3, <1>l
      <3>2. QED
        BY <3>1, AdoptedShape
    <2>3. QED
      BY <1>0, <1>3, <2>1, <2>2 DEF SameTree, Rehung
  <1>5. c \in Seq(A) /\ IsInjective(c) /\ ToSet(c) = ToSet(s) \cup {n}
    <2>1. c = Splice(s, i, i, w)
      BY <1>4, <1>c, <1>k
    <2>2. Exchanges(A, s, i, i, w)
      BY <1>0, <1>1 DEF Exchanges
    <2>3. QED
      BY <1>0, <2>1, <2>2, SpliceHolds
  <1>6. /\ Sound(S, A) /\ S.kids[p] = c /\ S.root = T.root
        /\ \A q \in Nodes \ {p} : S.kids[q] = T.kids[q]
        /\ S.up = L.up /\ SameIds(L, S) /\ S.known = T.known /\ S.index = T.index
    <2>1. Edited(L, S, p, A)
      BY <1>0, <1>4, <1>5, <1>s, RehungSound
    <2>2. /\ SameIds(L, S) /\ S.known = L.known /\ S.index = L.index /\ S.up = L.up
          /\ S.root = L.root /\ Rechilded(L, S, p, c)
      BY <1>0, <1>4, <1>5, <1>s, RehungShape
    <2>3. QED
      BY <1>4, <2>1, <2>2 DEF Edited, Rechilded
  <1>7. /\ R.kids = S.kids /\ R.root = T.root /\ R.up = L.up /\ SameIds(S, R)
        /\ Sound(R, A) /\ R.known = T.known \cup {n}
        /\ \A e \in R.index : e \in T.index \/ (e[2] = n /\ e[1] = S.label[e[2]])
    <2>1. Sound(R, A) /\ SameTree(S, R) /\ R.up = S.up
      BY <1>0, <1>2, <1>6, RegisteredSound
    <2>2. /\ SameIds(S, R) /\ R.known = S.known \cup ToSet(w)
          /\ Entered(S, R, ToSet(w))
      BY <1>0, <1>2, <1>6, RegisteredShape
    <2>3. QED
      BY <1>0, <1>6, <2>1, <2>2 DEF SameTree, Entered
  <1>8. Hangs(R.kids, R.root, R.up) /\ Reach(R.kids, R.root) = Under(T) \cup {n}
    <2>1. /\ T.kids \in [Nodes -> Seq(Nodes)] /\ R.kids \in [Nodes -> Seq(Nodes)]
          /\ T.root \in Nodes /\ Under(T) = Reach(T.kids, T.root)
          /\ Hangs(T.kids, T.root, T.up)
      BY <1>7, SoundKids DEF Kempt
    <2>2. Below(T.kids, {n}) = {n}
      BY <1>0, <2>1, LeafReach
    <2>3. \A q \in Below(T.kids, {n}) :
            IsInjective(T.kids[q]) /\ \A k \in ToSet(T.kids[q]) : k \notin {n} /\ T.up[k] = q
      BY <2>2 DEF IsInjective, ToSet
    <2>4. /\ \A q \in Nodes \ {p} : R.kids[q] = T.kids[q]
          /\ IsInjective(R.kids[p]) /\ ToSet(R.kids[p]) = ToSet(T.kids[p]) \cup {n}
      BY <1>0, <1>5, <1>6, <1>7, <1>k, <2>1
    <2>5. R.up[n] = p /\ \A k \in Nodes \ {n} : R.up[k] = T.up[k]
      BY <1>4, <1>7
    <2>6. {n} \subseteq Nodes /\ Below(T.kids, {n}) \cap Reach(T.kids, T.root) = {}
      BY <1>0, <2>1, <2>2
    <2>7. Grafts(T.kids, R.kids, T.root, T.up, R.up, p, {n})
      BY <2>1, <2>3, <2>4, <2>5, <2>6 DEF Grafts
    <2>8. QED
      BY <1>7, <2>1, <2>2, <2>7, Graft
  <1>9. Under(R) = Under(T) \cup {n} /\ R.known = Under(R)
    BY <1>7, <1>8 DEF Kempt, Under, Reach
  <1>10. ASSUME NEW e \in R.index PROVE e[2] \in Under(R) /\ e[1] = R.label[e[2]]
    <2>1. CASE e \in T.index
      <3>1. e[2] \in Under(T) /\ e[1] = T.label[e[2]] /\ e[2] # n /\ e[2] \in Nodes
        BY <2>1, SoundKids DEF Kempt
      <3>2. R.label[e[2]] = T.label[e[2]]
        BY <1>3, <1>4, <1>6, <1>7, <3>1 DEF SameIds
      <3>3. QED
        BY <1>9, <3>1, <3>2
    <2>2. CASE e[2] = n /\ e[1] = S.label[e[2]]
      BY <1>7, <1>9, <2>2 DEF SameIds
    <2>3. QED
      BY <1>7, <2>1, <2>2
  <1>11. R.number = T.number /\ T.next <= R.next
    BY <1>3, <1>4, <1>6, <1>7 DEF SameIds
  <1>12. QED
    BY <1>4, <1>7, <1>8, <1>9, <1>10, <1>11 DEF Kempt, Planted

\* Leaves that are nowhere in a document yet.
Leaves(T, A, ns) ==
  /\ ns \subseteq A /\ ns \cap Under(T) = {}
  /\ \A n \in ns : T.kids[n] = <<>>

\* The next number is one.
LEMMA NextTyped ==
  ASSUME NEW A, NEW T, Sound(T, A)
  PROVE  T.next \in Nat
  BY DEF Sound, TreeDocs

\* Leaves and more leaves are leaves.
LEMMA PlantedTwice ==
  ASSUME NEW A, NEW T, NEW U, NEW W, Sound(T, A), Sound(U, A), Sound(W, A),
         NEW M, NEW N, Planted(T, U, M), Planted(U, W, N)
  PROVE  Planted(T, W, M \cup N)
  <1>1. T.next \in Nat /\ U.next \in Nat /\ W.next \in Nat
    BY NextTyped
  <1>2. /\ Kempt(W) /\ Under(W) = Under(T) \cup (M \cup N)
        /\ \A k \in Nodes \ (M \cup N) : W.up[k] = T.up[k]
        /\ W.number = T.number
    BY DEF Planted
  <1>3. T.next <= W.next
    BY <1>1 DEF Planted
  <1>4. QED
    BY <1>2, <1>3 DEF Planted

\* InsertEach plants its nodes, if they are leaves and differ.
LEMMA InsertEachKept ==
  ASSUME NEW A \in SUBSET Nodes, NEW T, Sound(T, A), Kempt(T),
         NEW order \in Seq(A), IsInjective(order), Leaves(T, A, ToSet(order)),
         NEW at, NEW p \in Under(T), Addresses(T, at, p)
  PROVE  Planted(T, InsertEach(T, order, at), ToSet(order))
  <1>n. PICK N : N = Len(order)
    OBVIOUS
  <1>0. N \in Nat /\ p \in Nodes /\ at \in Ats /\ DOMAIN order = 1 .. N
        /\ \A k \in 1 .. N : order[k] \in A /\ order[k] \in ToSet(order)
    BY <1>n DEF Addresses, ToSet
  <1>1. PICK after : Insertions(T, order, at, p, A, after)
    BY InsertUnfolds
  <1>2. /\ after[0] = T /\ after[N] = InsertEach(T, order, at)
        /\ \A k \in 1 .. N : after[k] = Insert1(after[k - 1], order[k], Onward(at, k))
        /\ \A k \in 0 .. N : Edited(T, after[k], p, A) /\ Addresses(after[k], at, p)
    BY <1>1, <1>n DEF Insertions
  <1> DEFINE First_(k) == {order[j] : j \in 1 .. k}
             Good == {k \in 0 .. N : Planted(T, after[k], First_(k))}
  <1>3. 0 \in Good
    <2>1. First_(0) = {} /\ T.next \in Nat /\ 0 \in 0 .. N
      BY <1>0, NextTyped
    <2>2. Planted(T, T, {})
      BY <2>1 DEF Planted
    <2>3. QED
      BY <1>2, <2>1, <2>2
  <1>4. ASSUME NEW k \in 1 .. N, k - 1 \in Good PROVE k \in Good
    <2>u. PICK U, R, n, ak : /\ U = after[k - 1] /\ R = after[k] /\ n = order[k]
                             /\ ak = Onward(at, k)
      OBVIOUS
    <2>0. k - 1 \in 0 .. N /\ k \in 0 .. N /\ k \in Nat \ {0} /\ 1 .. k = 1 .. k - 1 \cup {k}
      BY <1>0
    <2>1. Planted(T, U, First_(k - 1)) /\ Edited(T, U, p, A) /\ Addresses(U, at, p)
          /\ Edited(T, R, p, A) /\ R = Insert1(U, n, ak)
      BY <1>2, <1>4, <2>0, <2>u
    <2>2. Sound(U, A) /\ Sound(R, A) /\ Kempt(U) /\ p \in Under(U)
      BY <2>1 DEF Edited, Planted
    <2>3. n \in A /\ n \in Nodes /\ n \notin Under(T) /\ n \notin First_(k - 1) /\ T.kids[n] = <<>>
      <3>1. n \in A /\ n \in ToSet(order)
        BY <1>0, <2>u
      <3>2. n \notin Under(T) /\ T.kids[n] = <<>>
        BY <3>1 DEF Leaves
      <3>3. \A j \in 1 .. k - 1 : j \in 1 .. N /\ j # k
        BY <1>0, <2>0
      <3>4. \A j \in 1 .. k - 1 : order[j] # n
        BY <1>0, <2>u, <3>3 DEF IsInjective
      <3>5. QED
        BY <3>1, <3>2, <3>4
    <2>4. n \in A \ Under(U) /\ U.kids[n] = <<>>
      <3>1. n # p
        BY <2>3
      <3>2. n \notin Under(U)
        BY <2>1, <2>3 DEF Planted
      <3>3. QED
        BY <2>1, <2>3, <3>1, <3>2 DEF Edited
    <2>5. Addresses(U, ak, p)
      <3>1. ak \in Ats /\ ak.how = at.how /\ ak.node = at.node
        BY <1>0, <2>0, <2>u, OnwardTyped
      <3>2. QED
        BY <2>1, <3>1 DEF Addresses, ParentAt, Beside
    <2>6. Planted(U, R, {n})
      <3>1. /\ Sound(U, A) /\ Kempt(U) /\ n \in A \ Under(U) /\ U.kids[n] = <<>>
            /\ p \in Under(U) /\ Addresses(U, ak, p) /\ R = Insert1(U, n, ak)
        BY <2>1, <2>2, <2>4, <2>5
      <3>2. QED
        BY <3>1, Insert1Kept
    <2>7. Planted(T, R, First_(k - 1) \cup {n})
      <3> HIDE DEF First_
      <3> QED BY <2>1, <2>2, <2>6, PlantedTwice
    <2>8. First_(k) = First_(k - 1) \cup {n}
      BY <2>0, <2>u
    <2>9. QED
      BY <2>0, <2>7, <2>8, <2>u
  <1>5. \A k \in 1 .. N : k - 1 \in Good => k \in Good
    BY <1>4
  <1>6. N \in Good
    <2> HIDE DEF Good
    <2>1. 0 .. N \subseteq Good
      BY <1>0, <1>3, <1>5, UpTo
    <2>2. QED
      BY <1>0, <2>1
  <1>7. First_(N) = ToSet(order)
    BY <1>0 DEF ToSet
  <1>8. QED
    BY <1>2, <1>6, <1>7

\* Back to front, a sequence holds the same.
LEMMA ReverseHolds ==
  ASSUME NEW S, NEW s \in Seq(S)
  PROVE  /\ Reverse(s) \in Seq(S) /\ ToSet(Reverse(s)) = ToSet(s)
         /\ IsInjective(s) => IsInjective(Reverse(s))
  <1>n. PICK n, r : n = Len(s) /\ r = Reverse(s)
    OBVIOUS
  <1>1. n \in Nat /\ DOMAIN s = 1 .. n /\ r \in Seq(S) /\ DOMAIN r = 1 .. n
        /\ \A i \in 1 .. n : r[i] = s[n - i + 1]
    BY <1>n DEF Reverse
  <1>2. \A i \in 1 .. n : n - i + 1 \in 1 .. n /\ n - (n - i + 1) + 1 = i
    BY <1>1
  <1>3. \A i \in 1 .. n : s[i] = r[n - i + 1]
    BY <1>1, <1>2
  <1>4. ToSet(r) = ToSet(s)
    BY <1>1, <1>2, <1>3 DEF ToSet
  <1>5. ASSUME IsInjective(s), NEW i \in 1 .. n, NEW j \in 1 .. n, r[i] = r[j] PROVE i = j
    <2>1. n - i + 1 = n - j + 1
      BY <1>1, <1>2, <1>5 DEF IsInjective
    <2>2. QED
      BY <1>1, <2>1
  <1>6. IsInjective(s) => IsInjective(r)
    BY <1>1, <1>5 DEF IsInjective
  <1>7. QED
    BY <1>1, <1>4, <1>6, <1>n

\* So does facade.insert, whichever way it goes.
LEMMA InsertAllKept ==
  ASSUME NEW A \in SUBSET Nodes, NEW T, Sound(T, A), Kempt(T),
         NEW fresh \in Seq(A), IsInjective(fresh), Leaves(T, A, ToSet(fresh)),
         NEW at, NEW p \in Under(T), Addresses(T, at, p)
  PROVE  Planted(T, InsertAll(T, fresh, at), ToSet(fresh))
  <1>o. PICK order : order = IF at.how \in {"first_child", "after"} THEN Reverse(fresh) ELSE fresh
    OBVIOUS
  <1>1. order \in Seq(A) /\ IsInjective(order) /\ ToSet(order) = ToSet(fresh)
    BY <1>o, ReverseHolds
  <1>2. Planted(T, InsertEach(T, order, at), ToSet(order))
    BY <1>1, InsertEachKept
  <1>3. InsertAll(T, fresh, at) = InsertEach(T, order, at)
    BY <1>o DEF InsertAll
  <1>4. QED
    BY <1>1, <1>2, <1>3

\* T after the nodes ns, children of p, were taken out with what hangs on them.
Pruned(T, R, p, ns) ==
  /\ Kempt(R) /\ p \in Under(R)
  /\ Under(R) = Under(T) \ Below(T.kids, ns) /\ ns \cap Under(R) = {}
  /\ Rehung(T, R, ns, NoNode) /\ SameIds(T, R)

\* The nodes of the sequence `out' still hang together, but on nothing else.
Severed(T, R, ns) ==
  /\ ns \subseteq Nodes /\ ns \subseteq Below(T.kids, ns)
  /\ Below(R.kids, ns) = Below(T.kids, ns) /\ Below(T.kids, ns) \subseteq Under(T)
  /\ \A q \in Below(T.kids, ns) :
       IsInjective(R.kids[q]) /\ \A k \in ToSet(R.kids[q]) : k \notin ns /\ R.up[k] = q

\* S is the sound and kempt T, with the children `out' of p missing in kids[p].
Uproots(T, S, p, out, A) ==
  /\ Sound(T, A) /\ Kempt(T) /\ Sound(S, A)
  /\ S.root = T.root /\ S.up = T.up /\ SameIds(T, S)
  /\ S.known = T.known /\ S.index = T.index
  /\ \A q \in Nodes \ {p} : S.kids[q] = T.kids[q]
  /\ p \in Under(T) /\ out \in Seq(A) /\ ToSet(out) \subseteq ToSet(T.kids[p])
  /\ IsInjective(S.kids[p]) /\ ToSet(S.kids[p]) = ToSet(T.kids[p]) \ ToSet(out)

\* Unregistering them then leaves a tree, and what was taken out whole.
LEMMA UprootKept ==
  ASSUME NEW A \in SUBSET Nodes, NEW T, NEW S, NEW p, NEW out, Uproots(T, S, p, out, A),
         NEW R, R = Unregistered(S, out)
  PROVE  /\ Pruned(T, R, p, ToSet(out)) /\ Severed(T, R, ToSet(out))
         /\ Sound(R, A) /\ R.kids = S.kids /\ R.root = T.root
  <1>o. PICK ns : ns = ToSet(out)
    OBVIOUS
  <1>0. /\ Sound(T, A) /\ Kempt(T) /\ Sound(S, A)
        /\ S.root = T.root /\ S.up = T.up /\ SameIds(T, S)
        /\ S.known = T.known /\ S.index = T.index
        /\ \A q \in Nodes \ {p} : S.kids[q] = T.kids[q]
        /\ p \in Under(T) /\ out \in Seq(A) /\ ns \subseteq ToSet(T.kids[p])
        /\ IsInjective(S.kids[p]) /\ ToSet(S.kids[p]) = ToSet(T.kids[p]) \ ns
    BY <1>o DEF Uproots
  <1>1. Sound(R, A) /\ R.kids = S.kids /\ R.root = T.root
    <2>1. Sound(S, A) /\ out \in Seq(A)
      BY <1>0
    <2>2. Sound(R, A) /\ SameTree(S, R)
      BY <2>1, UnregisteredSound
    <2>3. QED
      BY <1>0, <2>2 DEF SameTree
  <1>2. /\ SameIds(S, R) /\ R.known = S.known \ Fragment(S, out)
        /\ Struck(S, R, Fragment(S, out)) /\ Rehung(S, R, ns, NoNode)
    <2>1. Sound(S, A)
      BY <1>0
    <2>2. QED
      BY <1>o, <2>1, UnregisteredShape
  <1>3. /\ T.kids \in [Nodes -> Seq(Nodes)] /\ R.kids \in [Nodes -> Seq(Nodes)]
        /\ S.kids \in [Nodes -> Seq(Nodes)] /\ out \in Seq(Nodes)
        /\ T.root \in Nodes /\ Under(T) = Reach(T.kids, T.root) /\ Under(T) \subseteq Nodes
        /\ Under(R) = Reach(R.kids, R.root)
    BY <1>0, <1>1, SoundKids, SeqOver
  <1>4. Prunes(T.kids, R.kids, T.root, T.up, R.up, p, ns)
    <2>1. Hangs(T.kids, T.root, T.up) /\ p \in Reach(T.kids, T.root)
      BY <1>0, <1>3 DEF Kempt
    <2>2. \A n \in Nodes \ ns : R.up[n] = T.up[n]
      BY <1>0, <1>2 DEF Rehung
    <2>3. QED
      BY <1>0, <1>1, <1>3, <2>1, <2>2 DEF Prunes
  <1>5. /\ Hangs(R.kids, T.root, R.up)
        /\ Reach(R.kids, T.root) = Reach(T.kids, T.root) \ Below(T.kids, ns)
        /\ \A k \in ns : Reach(R.kids, k) = Reach(T.kids, k)
        /\ p \in Reach(R.kids, T.root) /\ ns \subseteq Nodes /\ ns \subseteq Below(T.kids, ns)
        /\ Below(T.kids, ns) \subseteq Reach(T.kids, T.root)
        /\ \A q \in Below(T.kids, ns) :
             /\ q \in Reach(T.kids, T.root) /\ IsInjective(R.kids[q])
             /\ \A k \in ToSet(R.kids[q]) : k \notin ns /\ R.up[k] = q
    BY <1>4, Prune
  <1>6. Below(R.kids, ns) = Below(T.kids, ns)
    BY <1>5 DEF Below
  <1>7. Fragment(S, out) = Below(T.kids, ns)
    <2>1. Fragment(S, out) = Below(S.kids, ToSet(out))
      BY <1>3, FragmentBelow
    <2>2. QED
      BY <1>1, <1>6, <1>o, <2>1
  <1>8. Severed(T, R, ns)
    BY <1>3, <1>5, <1>6 DEF Severed
  <1>9. Under(R) = Under(T) \ Below(T.kids, ns) /\ R.known = Under(R) /\ p \in Under(R)
    BY <1>0, <1>1, <1>2, <1>3, <1>5, <1>7 DEF Kempt
  <1>10. ASSUME NEW e \in R.index PROVE e[2] \in Under(R) /\ e[1] = R.label[e[2]]
    <2>1. e \in T.index /\ \A n \in Fragment(S, out) : T.label[n] # e[1]
      BY <1>0, <1>2 DEF Struck, SameIds
    <2>2. e[2] \in Under(T) /\ e[1] = T.label[e[2]]
      BY <1>0, <2>1 DEF Kempt
    <2>3. e[2] \notin Fragment(S, out)
      BY <2>1, <2>2
    <2>4. R.label = T.label
      BY <1>0, <1>2 DEF SameIds
    <2>5. QED
      BY <1>7, <1>9, <2>2, <2>3, <2>4
  <1>11. Kempt(R)
    BY <1>1, <1>5, <1>9, <1>10 DEF Kempt
  <1>12. Pruned(T, R, p, ns)
    <2>1. Rehung(T, R, ns, NoNode)
      BY <1>0, <1>2 DEF Rehung
    <2>2. SameIds(T, R)
      BY <1>0, <1>2 DEF SameIds
    <2>3. ns \cap Under(R) = {}
      BY <1>5, <1>9
    <2>4. QED
      BY <1>9, <1>11, <2>1, <2>2, <2>3 DEF Pruned
  <1>13. QED
    BY <1>1, <1>8, <1>12, <1>o

\* What a run of children is, as a part of a sequence.
LEMMA RunHolds ==
  ASSUME NEW A \in SUBSET Nodes, NEW T, Sound(T, A), Kempt(T), NEW r, Cutting(T, r, A),
         r.of \in Under(T), NEW new \in Seq(A), IsInjective(new), ToSet(new) \cap Under(T) = {}
  PROVE  /\ Exchanges(A, T.kids[r.of], r.from - 1, r.to, new)
         /\ Run(T, r) = SubSeq(T.kids[r.of], (r.from - 1) + 1, r.to)
         /\ r.of \in Nodes /\ Run(T, r) \in Seq(A) /\ Run(T, r) # <<>>
  <1>0. T \in TreeDocs(A) /\ r.of \in Nodes
    BY DEF Sound, Cutting, Cuts
  <1>s. PICK s : s = T.kids[r.of]
    OBVIOUS
  <1>1. s \in Seq(A) /\ ToSet(s) \subseteq Under(T) /\ Len(s) \in Nat
    <2>1. s \in Seq(A)
      BY <1>0, <1>s, SoundKids
    <2>2. ToSet(s) \subseteq Under(T)
      BY <1>s, LiveKids
    <2>3. QED
      BY <2>1, <2>2
  <1>2. IsInjective(s)
    BY <1>s, SoundKids DEF Kempt, Hangs
  <1>3. r.from - 1 \in 0 .. Len(s) /\ r.to \in r.from - 1 .. Len(s) /\ (r.from - 1) + 1 = r.from
    BY <1>1, <1>s DEF Cutting, Cuts
  <1>4. Exchanges(A, s, r.from - 1, r.to, new)
    BY <1>1, <1>2, <1>3 DEF Exchanges
  <1>5. QED
    BY <1>0, <1>3, <1>4, <1>s, RunTyped DEF Run

\* operations.delete takes the run out, and nothing else.
LEMMA DeletedKept ==
  ASSUME NEW A \in SUBSET Nodes, NEW T, Sound(T, A), Kempt(T), NEW r, Cutting(T, r, A),
         r.of \in Under(T), NEW R, R = Deleted(T, r)
  PROVE  /\ Pruned(T, R, r.of, ToSet(Run(T, r))) /\ Sound(R, A)
         /\ ToSet(R.kids[r.of]) = ToSet(T.kids[r.of]) \ ToSet(Run(T, r))
  <1>p. PICK p, s, i, j, out, e0 : /\ p = r.of /\ s = T.kids[p] /\ i = r.from - 1 /\ j = r.to
                                   /\ out = Run(T, r) /\ e0 = <<>>
    OBVIOUS
  <1>c. PICK c : c = Splice(s, i, j, e0)
    OBVIOUS
  <1>s. PICK S : S = [T EXCEPT !.kids[p] = c]
    OBVIOUS
  <1>0. e0 \in Seq(A) /\ IsInjective(e0) /\ ToSet(e0) = {}
    BY <1>p DEF IsInjective, ToSet
  <1>1. /\ Exchanges(A, s, i, j, e0) /\ out = SubSeq(s, i + 1, j)
        /\ p \in Nodes /\ out \in Seq(A)
    BY <1>0, <1>p, RunHolds
  <1>2. /\ c \in Seq(A) /\ IsInjective(c) /\ ToSet(c) = ToSet(s) \ ToSet(out)
        /\ ToSet(out) \subseteq ToSet(s)
    <2>1. /\ c \in Seq(A) /\ IsInjective(c) /\ ToSet(c) = (ToSet(s) \ ToSet(out)) \cup ToSet(e0)
          /\ ToSet(out) \subseteq ToSet(s)
      BY <1>1, <1>c, SpliceHolds
    <2>2. QED
      BY <1>0, <2>1
  <1>3. R = Unregistered(S, out)
    <2>1. T \in TreeDocs(A)
      BY DEF Sound
    <2>2. QED
      BY <1>p, <1>c, <1>s, <2>1 DEF Deleted, TreeDocs
  <1>4. Edited(T, S, p, A)
    BY <1>1, <1>2, <1>s, RehungSound
  <1>5. /\ SameIds(T, S) /\ S.known = T.known /\ S.index = T.index /\ S.up = T.up
        /\ S.root = T.root /\ Rechilded(T, S, p, c)
    BY <1>1, <1>2, <1>s, RehungShape
  <1>6. Uproots(T, S, p, out, A)
    <2>1. Sound(S, A)
      BY <1>4 DEF Edited
    <2>2. S.kids[p] = c /\ \A q \in Nodes \ {p} : S.kids[q] = T.kids[q]
      BY <1>5 DEF Rechilded
    <2>3. QED
      BY <1>1, <1>2, <1>5, <1>p, <2>1, <2>2 DEF Uproots
  <1>7. Pruned(T, R, p, ToSet(out)) /\ Sound(R, A) /\ R.kids = S.kids
    BY <1>3, <1>6, UprootKept
  <1>8. ToSet(R.kids[p]) = ToSet(T.kids[p]) \ ToSet(out)
    BY <1>2, <1>5, <1>7, <1>p DEF Rechilded
  <1>9. QED
    BY <1>7, <1>8, <1>p

\* R is the sound and kempt V with the leaves N put in below p.
PutsIn(V, R, p, N, A) ==
  /\ Sound(V, A) /\ Kempt(V) /\ Sound(R, A) /\ p \in Under(V) /\ Leaves(V, A, N)
  /\ R.root = V.root /\ R.known = V.known \cup N
  /\ \A q \in Nodes \ {p} : R.kids[q] = V.kids[q]
  /\ IsInjective(R.kids[p]) /\ ToSet(R.kids[p]) = ToSet(V.kids[p]) \cup N
  /\ \A n \in N : R.up[n] = p
  /\ \A n \in Nodes \ N : R.up[n] = V.up[n] /\ R.label[n] = V.label[n]
  /\ R.number = V.number /\ V.next <= R.next
  /\ \A e \in R.index : \/ e[2] \in Under(V) /\ e[1] = V.label[e[2]]
                        \/ e[2] \in N /\ e[1] = R.label[e[2]]

\* That is a tree again.
LEMMA PutInKept ==
  ASSUME NEW A \in SUBSET Nodes, NEW V, NEW R, NEW p, NEW N, PutsIn(V, R, p, N, A)
  PROVE  Planted(V, R, N)
  <1>0. /\ Sound(V, A) /\ Kempt(V) /\ Sound(R, A) /\ p \in Under(V) /\ Leaves(V, A, N)
        /\ R.root = V.root /\ R.known = V.known \cup N
        /\ \A q \in Nodes \ {p} : R.kids[q] = V.kids[q]
        /\ IsInjective(R.kids[p]) /\ ToSet(R.kids[p]) = ToSet(V.kids[p]) \cup N
        /\ \A n \in N : R.up[n] = p
        /\ \A n \in Nodes \ N : R.up[n] = V.up[n] /\ R.label[n] = V.label[n]
        /\ R.number = V.number /\ V.next <= R.next
        /\ \A e \in R.index : \/ e[2] \in Under(V) /\ e[1] = V.label[e[2]]
                              \/ e[2] \in N /\ e[1] = R.label[e[2]]
    BY DEF PutsIn
  <1>1. /\ V.kids \in [Nodes -> Seq(Nodes)] /\ R.kids \in [Nodes -> Seq(Nodes)]
        /\ V.root \in Nodes /\ Under(V) = Reach(V.kids, V.root) /\ Under(V) \subseteq Nodes
        /\ Under(R) = Reach(R.kids, R.root)
    BY <1>0, SoundKids
  <1>2. N \subseteq Nodes /\ N \cap Under(V) = {} /\ \A n \in N : V.kids[n] = <<>>
    BY <1>0 DEF Leaves
  <1>3. Below(V.kids, N) = N
    BY <1>1, <1>2, LeafReach
  <1>4. \A q \in Below(V.kids, N) :
          IsInjective(V.kids[q]) /\ \A k \in ToSet(V.kids[q]) : k \notin N /\ V.up[k] = q
    BY <1>2, <1>3 DEF IsInjective, ToSet
  <1>5. Hangs(V.kids, V.root, V.up) /\ V.known = Under(V)
    BY <1>0 DEF Kempt
  <1>6. Grafts(V.kids, R.kids, V.root, V.up, R.up, p, N)
    BY <1>0, <1>1, <1>2, <1>3, <1>4, <1>5 DEF Grafts
  <1>7. Hangs(R.kids, V.root, R.up) /\ Reach(R.kids, V.root) = Reach(V.kids, V.root) \cup Below(V.kids, N)
    BY <1>6, Graft
  <1>8. Under(R) = Under(V) \cup N
    BY <1>0, <1>1, <1>3, <1>7
  <1>9. ASSUME NEW e \in R.index PROVE e[2] \in Under(R) /\ e[1] = R.label[e[2]]
    <2>1. CASE e[2] \in Under(V) /\ e[1] = V.label[e[2]]
      <3>1. e[2] \in Nodes \ N
        BY <1>1, <1>2, <2>1
      <3>2. QED
        BY <1>0, <1>8, <2>1, <3>1
    <2>2. CASE e[2] \in N /\ e[1] = R.label[e[2]]
      BY <1>8, <2>2
    <2>3. QED
      BY <1>0, <2>1, <2>2
  <1>10. Kempt(R)
    BY <1>0, <1>5, <1>7, <1>8, <1>9 DEF Kempt
  <1>11. \A k \in Nodes \ N : R.up[k] = V.up[k]
    BY <1>0
  <1>12. QED
    BY <1>0, <1>8, <1>10, <1>11 DEF Planted

\* operations.replace_range takes the run out and puts the new nodes in.
LEMMA ReplacedKept ==
  ASSUME NEW A \in SUBSET Nodes, NEW T, Sound(T, A), Kempt(T), NEW r, Cutting(T, r, A),
         r.of \in Under(T), NEW fresh \in Seq(A), IsInjective(fresh),
         Leaves(T, A, ToSet(fresh)), NEW V, V = Deleted(T, r), NEW R, R = Replaced(T, r, fresh)
  PROVE  Planted(V, R, ToSet(fresh))
  <1>p. PICK p, s, i, j, out, N : /\ p = r.of /\ s = T.kids[p] /\ i = r.from - 1 /\ j = r.to
                                  /\ out = Run(T, r) /\ N = ToSet(fresh)
    OBVIOUS
  <1>b. PICK B : B = Labelled(T, fresh)
    OBVIOUS
  <1>l. PICK L : L = Adopted(B, p, fresh)
    OBVIOUS
  <1>c. PICK c : c = Splice(s, i, j, fresh)
    OBVIOUS
  <1>s. PICK S : S = [L EXCEPT !.kids[p] = c]
    OBVIOUS
  <1>u. PICK U : U = Unregistered(S, out)
    OBVIOUS
  <1>n. N \subseteq A /\ N \subseteq Nodes /\ N \cap Under(T) = {} /\ \A n \in N : T.kids[n] = <<>>
    BY <1>p DEF Leaves
  <1>1. /\ Exchanges(A, s, i, j, fresh) /\ out = SubSeq(s, i + 1, j)
        /\ p \in Nodes /\ out \in Seq(A)
    BY <1>n, <1>p, RunHolds
  <1>2. /\ c \in Seq(A) /\ IsInjective(c) /\ ToSet(c) = (ToSet(s) \ ToSet(out)) \cup N
        /\ ToSet(out) \subseteq ToSet(s)
    BY <1>1, <1>c, <1>p, SpliceHolds
  <1>3. /\ Pruned(T, V, p, ToSet(out)) /\ Sound(V, A)
        /\ ToSet(V.kids[p]) = ToSet(s) \ ToSet(out)
    BY <1>p, DeletedKept
  <1>4. V.root = T.root /\ \A q \in Nodes \ {p} : V.kids[q] = T.kids[q]
    <2>1. Edited(T, V, p, A)
      BY <1>p, DeletedSound
    <2>2. QED
      BY <2>1 DEF Edited
  <1>5. /\ Kempt(V) /\ p \in Under(V) /\ Under(V) = Under(T) \ Below(T.kids, ToSet(out))
        /\ Rehung(T, V, ToSet(out), NoNode) /\ SameIds(T, V)
    BY <1>3 DEF Pruned
  <1>6. /\ Sound(B, A) /\ B.kids = T.kids /\ B.root = T.root /\ B.up = T.up
        /\ B.number = T.number /\ T.next <= B.next /\ B.known = T.known /\ B.index = T.index
        /\ Relabelled(T, B, N)
    BY <1>b, <1>p, LabelledSound, LabelledShape DEF SameTree
  <1>7. /\ Sound(L, A) /\ L.kids = T.kids /\ L.root = T.root
        /\ SameIds(B, L) /\ L.known = T.known /\ L.index = T.index /\ Rehung(T, L, N, p)
    <2>0. Sound(B, A) /\ p \in Nodes
      BY <1>1, <1>6
    <2>1. Sound(L, A) /\ SameTree(B, L)
      BY <1>l, <2>0, AdoptedSound
    <2>2. SameIds(B, L) /\ L.known = B.known /\ L.index = B.index /\ Rehung(B, L, N, p)
      BY <1>l, <1>p, <2>0, AdoptedShape
    <2>3. QED
      BY <1>6, <2>1, <2>2 DEF SameTree, Rehung
  <1>8. /\ Sound(S, A) /\ S.root = T.root /\ S.kids[p] = c
        /\ \A q \in Nodes \ {p} : S.kids[q] = T.kids[q]
        /\ S.up = L.up /\ SameIds(B, S) /\ S.known = T.known /\ S.index = T.index
    <2>0. Sound(L, A) /\ p \in Nodes /\ c \in Seq(A) /\ S = [L EXCEPT !.kids[p] = c]
      BY <1>1, <1>2, <1>7, <1>s
    <2>1. Edited(L, S, p, A)
      BY <2>0, RehungSound
    <2>2. /\ SameIds(L, S) /\ S.known = L.known /\ S.index = L.index /\ S.up = L.up
          /\ S.root = L.root /\ Rechilded(L, S, p, c)
      BY <2>0, RehungShape
    <2>3. QED
      BY <1>7, <2>1, <2>2 DEF Edited, Rechilded, SameIds
  <1>9. Fragment(S, out) = Below(T.kids, ToSet(out))
    <2>1. /\ T.kids \in [Nodes -> Seq(Nodes)] /\ S.kids \in [Nodes -> Seq(Nodes)]
          /\ out \in Seq(Nodes)
      BY <1>1, <1>8, SoundKids, SeqOver
    <2>2. ToSet(out) \subseteq Nodes
      BY <2>1 DEF ToSet
    <2>3. ASSUME NEW k \in ToSet(out) PROVE Reach(S.kids, k) = Reach(T.kids, k)
      <3>1. p \notin Reach(T.kids, k) /\ Reach(T.kids, k) \subseteq Nodes
        BY <1>5, <2>1, <2>2, ReachClosed DEF Below
      <3>2. \A q \in Reach(T.kids, k) : S.kids[q] = T.kids[q]
        BY <1>8, <3>1
      <3>3. QED
        BY <2>1, <2>2, <3>2, SameReach
    <2>4. Below(S.kids, ToSet(out)) = Below(T.kids, ToSet(out))
      BY <2>3 DEF Below
    <2>5. QED
      BY <2>1, <2>4, FragmentBelow
  <1>10. /\ Sound(U, A) /\ U.kids = S.kids /\ U.root = T.root /\ SameIds(S, U)
         /\ U.known = Under(V)
         /\ Struck(S, U, Below(T.kids, ToSet(out))) /\ Rehung(S, U, ToSet(out), NoNode)
    <2>0. Sound(S, A) /\ out \in Seq(A)
      BY <1>1, <1>8
    <2>1. Sound(U, A) /\ SameTree(S, U)
      BY <1>u, <2>0, UnregisteredSound
    <2>2. /\ SameIds(S, U) /\ U.known = S.known \ Fragment(S, out)
          /\ Struck(S, U, Fragment(S, out)) /\ Rehung(S, U, ToSet(out), NoNode)
      BY <1>u, <2>0, UnregisteredShape
    <2>3. S.known = Under(T)
      BY <1>8 DEF Kempt
    <2>4. QED
      BY <1>5, <1>8, <1>9, <2>1, <2>2, <2>3 DEF SameTree
  <1>11. R = Registered(U, fresh)
    BY <1>p, <1>b, <1>l, <1>c, <1>s, <1>u, <1>7 DEF Replaced
  <1>12. /\ Sound(R, A) /\ R.kids = S.kids /\ R.root = T.root /\ R.up = U.up
         /\ SameIds(U, R) /\ R.known = Under(V) \cup N /\ Entered(U, R, N)
    <2>0. Sound(U, A)
      BY <1>10
    <2>1. Sound(R, A) /\ SameTree(U, R) /\ R.up = U.up
      BY <1>11, <2>0, RegisteredSound
    <2>2. SameIds(U, R) /\ R.known = U.known \cup ToSet(fresh) /\ Entered(U, R, ToSet(fresh))
      BY <1>11, <2>0, RegisteredShape
    <2>3. QED
      BY <1>10, <1>p, <2>1, <2>2 DEF SameTree
  <1>13. R.label = B.label /\ R.number = V.number /\ V.next <= R.next
    BY <1>5, <1>6, <1>8, <1>10, <1>12 DEF SameIds
  <1>14. \A n \in Nodes \ N : R.label[n] = V.label[n]
    BY <1>5, <1>6, <1>13 DEF Relabelled, SameIds
  <1>15. /\ \A n \in N : R.up[n] = p
         /\ \A n \in Nodes \ N : R.up[n] = V.up[n]
    <2>1. N \cap ToSet(out) = {}
      <3>1. ToSet(s) \subseteq Under(T)
        BY <1>p, LiveKids
      <3>2. QED
        BY <1>2, <1>n, <3>1
    <2>2. QED
      BY <1>5, <1>7, <1>8, <1>10, <1>12, <1>n, <2>1 DEF Rehung
  <1>16. ASSUME NEW e \in R.index
         PROVE  (e[2] \in Under(V) /\ e[1] = V.label[e[2]]) \/ (e[2] \in N /\ e[1] = R.label[e[2]])
    <2>1. CASE e[2] \in N /\ e[1] = U.label[e[2]]
      BY <1>12, <2>1 DEF SameIds
    <2>2. CASE e \in U.index
      <3>1. e \in T.index /\ \A n \in Below(T.kids, ToSet(out)) : S.label[n] # e[1]
        BY <1>8, <1>10, <2>2 DEF Struck
      <3>2. e[2] \in Under(T) /\ e[1] = T.label[e[2]] /\ e[2] \in Nodes \ N
        BY <1>n, <3>1, SoundKids DEF Kempt
      <3>3. S.label[e[2]] = e[1]
        BY <1>6, <1>8, <3>2 DEF SameIds, Relabelled
      <3>4. e[2] \in Under(V)
        BY <1>5, <3>1, <3>2, <3>3
      <3>5. QED
        BY <1>5, <3>2, <3>4 DEF SameIds
    <2>3. QED
      BY <1>12, <2>1, <2>2 DEF Entered
  <1>17. Leaves(V, A, N)
    <2>1. p \notin N
      BY <1>n, <1>p
    <2>2. QED
      BY <1>4, <1>5, <1>n, <2>1 DEF Leaves
  <1>18. PutsIn(V, R, p, N, A)
    <2>1. R.known = V.known \cup N
      BY <1>5, <1>12 DEF Kempt
    <2>2. \A q \in Nodes \ {p} : R.kids[q] = V.kids[q]
      BY <1>4, <1>8, <1>12
    <2>3. IsInjective(R.kids[p]) /\ ToSet(R.kids[p]) = ToSet(V.kids[p]) \cup N
      BY <1>2, <1>3, <1>8, <1>12
    <2>4. \A n \in Nodes \ N : R.up[n] = V.up[n] /\ R.label[n] = V.label[n]
      BY <1>14, <1>15
    <2>5. R.root = V.root
      BY <1>4, <1>12
    <2>6. \A n \in N : R.up[n] = p
      BY <1>15
    <2>7. QED
      BY <1>3, <1>5, <1>12, <1>13, <1>16, <1>17, <2>1, <2>2, <2>3, <2>4, <2>5, <2>6 DEF PutsIn
  <1>19. QED
    BY <1>18, <1>p, PutInKept

\* What was only put in, or taken out and put in, leaves the rest where it was.
LEMMA PlantedGrows ==
  ASSUME NEW A \in SUBSET Nodes, NEW T, Sound(T, A), NEW N, N \cap Under(T) = {}, NEW V, NEW R,
         V = T \/ (\E p, ns : Pruned(T, V, p, ns)), Planted(V, R, N)
  PROVE  Grown(T, R, N)
  <1>0. T.next \in Nat /\ Under(T) \subseteq Nodes
    BY NextTyped, SoundKids
  <1>1. /\ Under(V) \subseteq Under(T) /\ V.number = T.number /\ V.next = T.next
        /\ \A n \in Under(T) \cap Under(V) : V.up[n] = T.up[n]
    <2>1. CASE V = T
      BY <2>1
    <2>2. CASE \E p, ns : Pruned(T, V, p, ns)
      <3>1. PICK p, ns : Pruned(T, V, p, ns)
        BY <2>2
      <3>2. /\ Under(V) = Under(T) \ Below(T.kids, ns) /\ ns \cap Under(V) = {}
            /\ Rehung(T, V, ns, NoNode) /\ SameIds(T, V)
        BY <3>1 DEF Pruned
      <3>3. QED
        BY <1>0, <3>2 DEF Rehung, SameIds
    <2>3. QED
      BY <2>1, <2>2
  <1>2. /\ Kempt(R) /\ Under(R) = Under(V) \cup N /\ R.number = V.number /\ V.next <= R.next
        /\ \A k \in Nodes \ N : R.up[k] = V.up[k]
    BY DEF Planted
  <1>3. \A n \in Under(T) \cap Under(R) : R.up[n] = T.up[n]
    BY <1>0, <1>1, <1>2
  <1>4. QED
    BY <1>1, <1>2, <1>3 DEF Grown

\* A place below a live node.
LEMMA PlaceBelow ==
  ASSUME NEW T, NEW p \in Nodes
  PROVE  Addresses(T, [how |-> "last_child", node |-> p, index |-> 0], p)
  BY DEF Addresses, Ats, Hows, ParentAt, Beside

\* updates._replace_children takes all children out and puts the new ones in.
LEMMA RebodiedKept ==
  ASSUME NEW A \in SUBSET Nodes, NEW T, Sound(T, A), Kempt(T), NEW p \in Under(T),
         NEW fresh \in Seq(A), IsInjective(fresh), Leaves(T, A, ToSet(fresh))
  PROVE  Grown(T, Rebodied(T, p, fresh), ToSet(fresh))
  <1>v. PICK V, at : /\ V = IF Some(T.kids[p]) THEN Deleted(T, Body(T, p)) ELSE T
                     /\ at = [how |-> "last_child", node |-> p, index |-> 0]
    OBVIOUS
  <1>0. p \in Nodes /\ p \in A /\ T.kids[p] \in Seq(A) /\ Addresses(V, at, p)
        /\ ToSet(fresh) \cap Under(T) = {}
    BY <1>v, SoundKids, PlaceBelow DEF Leaves
  <1>1. /\ V = T \/ (\E q, ns : Pruned(T, V, q, ns))
        /\ Sound(V, A) /\ Kempt(V) /\ p \in Under(V) /\ Leaves(V, A, ToSet(fresh))
    <2>1. CASE T.kids[p] = <<>>
      BY <1>v, <2>1 DEF Some
    <2>2. CASE T.kids[p] # <<>>
      <3>r. PICK r : r = Body(T, p)
        OBVIOUS
      <3>1. Cutting(T, r, A) /\ r.of = p /\ V = Deleted(T, r)
        BY <1>0, <1>v, <2>2, <3>r DEF Some, Body, Cutting, Cuts
      <3>2. Pruned(T, V, p, ToSet(Run(T, r))) /\ Sound(V, A)
        BY <3>1, DeletedKept
      <3>3. Kempt(V) /\ p \in Under(V) /\ Under(V) \subseteq Under(T)
        BY <3>2 DEF Pruned
      <3>4. \A q \in Nodes \ {p} : V.kids[q] = T.kids[q]
        <4>1. Edited(T, V, p, A)
          BY <3>1, DeletedSound
        <4>2. QED
          BY <4>1 DEF Edited
      <3>5. Leaves(V, A, ToSet(fresh))
        BY <3>3, <3>4 DEF Leaves
      <3>6. QED
        BY <3>2, <3>3, <3>5
    <2>3. QED
      BY <2>1, <2>2
  <1>2. Planted(V, InsertAll(V, fresh, at), ToSet(fresh))
    BY <1>0, <1>1, InsertAllKept
  <1>3. Rebodied(T, p, fresh) = InsertAll(V, fresh, at)
    BY <1>v DEF Rebodied
  <1>4. QED
    BY <1>0, <1>1, <1>2, <1>3, PlantedGrows

-----------------------------------------------------------------------------
(* The end of a mutation keeps trees, and the numbers given before.        *)

\* The numbers of T stay and new ones are new; the weaker form also lets nodes
\* lose theirs.
Numbering(T, U) ==
  /\ T.next <= U.next
  /\ \A n \in Nodes : \/ U.number[n] = T.number[n]
                      \/ T.number[n] = NoNumber /\ U.number[n] >= T.next

\* Even where an index had strayed, no number moved to another node.
Renumbering(T, U) ==
  /\ T.next <= U.next
  /\ \A n \in Nodes : U.number[n] \in {T.number[n], NoNumber} \/ U.number[n] >= T.next

\* A tree whose indexes are in step is kempt.
LEMMA IndexedKempt ==
  ASSUME NEW A \in SUBSET Nodes, NEW T, Sound(T, A), Indexed(T),
         Hangs(T.kids, T.root, T.up)
  PROVE  Kempt(T)
  <1>1. T.known = Under(T) /\ T.index = {<<T.number[n], n>> : n \in Under(T)}
        /\ \A n \in Under(T) : T.number[n] = T.label[n]
    BY DEF Indexed
  <1>2. ASSUME NEW e \in T.index PROVE e[2] \in Under(T) /\ e[1] = T.label[e[2]]
    <2>1. PICK n \in Under(T) : e = <<T.number[n], n>>
      BY <1>1
    <2>2. e[1] = T.number[n] /\ e[2] = n
      BY <2>1
    <2>3. QED
      BY <1>1, <2>2
  <1>3. QED
    BY <1>1, <1>2 DEF Kempt

\* Renumbering gives new numbers to nodes that kept none, and to no others.
LEMMA RenumberedShape ==
  ASSUME NEW A \in SUBSET Nodes, NEW T, NEW kept, Kept(T, kept, A),
         NEW R, R = Renumbered(T, kept)
  PROVE  /\ R.up = T.up /\ T.next <= R.next
         /\ \A n \in Nodes : R.number[n] = kept[n] \/ (kept[n] = NoNumber /\ R.number[n] >= T.next)
  <1>w. PICK walk : walk = Walk(T.kids, T.root)
    OBVIOUS
  <1>l. PICK live : live = ToSet(walk)
    OBVIOUS
  <1>f. PICK fresh : fresh = {n \in live : kept[n] = NoNumber}
    OBVIOUS
  <1>m. PICK now : now = [n \in Nodes |-> IF n \in fresh THEN T.next + Rank(walk, fresh, n)
                                                         ELSE kept[n]]
    OBVIOUS
  <1>b. PICK label : label = [n \in Nodes |-> IF n \in live THEN now[n] ELSE T.label[n]]
    OBVIOUS
  <1>i. PICK index : index = {<<now[n], n>> : n \in live}
    OBVIOUS
  <1>0. T \in TreeDocs(A) /\ T.next \in Nat
    BY DEF Kept, TreeDocs
  <1>1. walk \in Seq(Nodes) /\ live \subseteq Nodes
    <2>1. walk \in Seq(A) /\ live \subseteq A
      BY <1>0, <1>w, <1>l, UnderTyped DEF Under, TreeDocs
    <2>2. QED
      BY <2>1, SeqOver
  <1>2. fresh \in SUBSET ToSet(walk) /\ IsFiniteSet(fresh)
    <2>1. fresh \in SUBSET Nodes
      BY <1>1, <1>f
    <2>2. QED
      BY <1>f, <1>l, <2>1, NodesAre, FS_Subset
  <1>3. Cardinality(fresh) \in Nat /\ \A n \in fresh : Rank(walk, fresh, n) \in Nat
    BY <1>1, <1>2, RanksDiffer
  <1>4. ASSUME NEW n \in Nodes
        PROVE  now[n] = kept[n] \/ (kept[n] = NoNumber /\ now[n] >= T.next)
    <2>1. CASE n \in fresh
      <3>1. now[n] = T.next + Rank(walk, fresh, n) /\ kept[n] = NoNumber
        BY <1>f, <1>m, <2>1
      <3>2. QED
        BY <1>0, <1>3, <2>1, <3>1
    <2>2. CASE n \notin fresh
      BY <1>m, <2>2
    <2>3. QED
      BY <2>1, <2>2
  <1>9. R = [T EXCEPT !.known = live, !.number = now, !.next = T.next + Cardinality(fresh),
                      !.label = label, !.index = index]
    BY <1>0, <1>w, <1>l, <1>f, <1>m, <1>b, <1>i DEF Renumbered, TreeDocs
  <1>11. R.number = now /\ R.next = T.next + Cardinality(fresh) /\ R.up = T.up
    BY <1>0, <1>9 DEF TreeDocs
  <1>12. T.next <= R.next
    BY <1>0, <1>3, <1>11
  <1>13. QED
    BY <1>4, <1>11, <1>12

\* reindex: only nodes that are gone from the tree and not from the index lose
\* their numbers.
LEMMA ReindexedShape ==
  ASSUME NEW A \in SUBSET Nodes, NEW T \in TreeDocs(A), Numbered(T),
         NEW R, R = Reindexed(T)
  PROVE  /\ R.up = T.up /\ Renumbering(T, R)
         /\ (\A e \in T.index : e[2] \in Under(T)) => Numbering(T, R)
  <1>f. PICK freed : freed = {e[2] : e \in T.index} \ Under(T)
    OBVIOUS
  <1>k. PICK kept : kept = [n \in Nodes |-> IF n \in freed THEN NoNumber ELSE T.number[n]]
    OBVIOUS
  <1>1. T.number \in [Nodes -> Nat] /\ T.next \in Nat /\ T.next # 0
    BY DEF TreeDocs
  <1>2. Kept(T, kept, A)
    <2>1. kept \in [Nodes -> Nat]
      BY <1>1, <1>k DEF NoNumber
    <2>2. \A n \in Nodes : kept[n] < T.next
      BY <1>1, <1>k DEF NoNumber, Numbered
    <2>3. \A n, k \in Nodes : kept[n] = kept[k] /\ n # k => kept[n] = NoNumber
      BY <1>1, <1>k DEF NoNumber, Numbered
    <2>4. QED
      BY <2>1, <2>2, <2>3 DEF Kept
  <1>3. R = Renumbered(T, kept)
    BY <1>f, <1>k DEF Reindexed
  <1>4. /\ R.up = T.up /\ T.next <= R.next
        /\ \A n \in Nodes : R.number[n] = kept[n] \/ (kept[n] = NoNumber /\ R.number[n] >= T.next)
    BY <1>2, <1>3, RenumberedShape
  <1>5. \A n \in Nodes : kept[n] \in {T.number[n], NoNumber}
    BY <1>k
  <1>6. Renumbering(T, R)
    BY <1>4, <1>5 DEF Renumbering
  <1>7. ASSUME \A e \in T.index : e[2] \in Under(T) PROVE Numbering(T, R)
    <2>1. freed = {}
      BY <1>7, <1>f
    <2>2. \A n \in Nodes : kept[n] = T.number[n]
      BY <2>1, <1>k
    <2>3. QED
      BY <1>4, <2>2 DEF Numbering
  <1>8. QED
    BY <1>4, <1>6, <1>7

\* sync_fields has to do with fields alone.
LEMMA SyncedShape ==
  ASSUME NEW A \in SUBSET Nodes, NEW U, Sound(U, A), NEW p, NEW R, R = Synced(U, p)
  PROVE  /\ R \in TreeDocs(A) /\ Numbered(R)
         /\ R.root = U.root /\ R.kids = U.kids /\ R.up = U.up /\ SameIds(U, R)
         /\ R.index = U.index
  <1>1. Edited(U, U, p, A)
    BY DEF Edited
  <1>2. R \in TreeDocs(A) /\ Numbered(R)
    BY <1>1, SyncedSound
  <1>3. U \in TreeDocs(A)
    BY DEF Sound
  <1>4. QED
    BY <1>2, <1>3 DEF Synced, SameIds, TreeDocs

\* _committed: a tree stays a tree and its nodes keep their numbers.
LEMMA ClosedKept ==
  ASSUME NEW A \in SUBSET Nodes, NEW U, Sound(U, A), NEW p, NEW R, R = Closed(U, p)
  PROVE  /\ R.root = U.root /\ R.kids = U.kids /\ R.up = U.up /\ Renumbering(U, R)
         /\ Kempt(U) => Kempt(R) /\ Numbering(U, R)
  <1>0. U.next \in Nat
    BY NextTyped
  <1>1. CASE Refuses(U, p)
    <2>1. R = U
      BY <1>1 DEF Closed
    <2>2. Renumbering(U, U) /\ Numbering(U, U)
      BY <1>0 DEF Renumbering, Numbering
    <2>3. QED
      BY <2>1, <2>2
  <1>2. CASE ~Refuses(U, p)
    <2>y. PICK Y : Y = Synced(U, p)
      OBVIOUS
    <2>x. PICK X : X = Reindexed(Y)
      OBVIOUS
    <2>1. R = [X EXCEPT !.version = @ + 1]
      BY <1>2, <2>y, <2>x DEF Closed
    <2>2. /\ Y \in TreeDocs(A) /\ Numbered(Y)
          /\ Y.root = U.root /\ Y.kids = U.kids /\ Y.up = U.up /\ SameIds(U, Y)
          /\ Y.index = U.index
      BY <2>y, SyncedShape
    <2>3. Sound(X, A) /\ SameTree(Y, X) /\ Indexed(X)
      BY <2>2, <2>x, ReindexedSound
    <2>4. /\ X.up = Y.up /\ Renumbering(Y, X)
          /\ (\A e \in Y.index : e[2] \in Under(Y)) => Numbering(Y, X)
      BY <2>2, <2>x, ReindexedShape
    <2>5. Sound(R, A) /\ SameTree(X, R) /\ Indexed(R)
      BY <2>1, <2>3, VersionedSound
    <2>6. R.up = X.up /\ R.number = X.number /\ R.next = X.next
      BY <2>1, <2>3 DEF Sound, TreeDocs
    <2>7. R.root = U.root /\ R.kids = U.kids /\ R.up = U.up
      BY <2>2, <2>3, <2>4, <2>5, <2>6 DEF SameTree
    <2>8. Renumbering(U, R)
      BY <2>2, <2>4, <2>6 DEF Renumbering, SameIds
    <2>9. ASSUME Kempt(U) PROVE Kempt(R) /\ Numbering(U, R)
      <3>1. \A e \in Y.index : e[2] \in Under(Y)
        BY <2>2, <2>9 DEF Kempt, Under
      <3>2. Numbering(U, R)
        BY <2>2, <2>4, <2>6, <3>1 DEF Numbering, SameIds
      <3>3. Hangs(R.kids, R.root, R.up)
        BY <2>7, <2>9 DEF Kempt
      <3>4. QED
        BY <2>5, <3>2, <3>3, IndexedKempt
    <2>10. QED
      BY <2>7, <2>8, <2>9
  <1>3. QED
    BY <1>1, <1>2

-----------------------------------------------------------------------------
(* The second invariant: the documents are trees, and the files too.       *)

\* What is not minted yet has no children.
Barren(kids, A) == \A n \in Nodes \ A : kids[n] = <<>>

\* In a file every node hangs once, and the root on nothing; nodes that were
\* once under a node taken out do not hang on it any more.
FileTree(kids, root) ==
  /\ \A n \in Nodes : IsInjective(kids[n]) /\ root \notin ToSet(kids[n])
  /\ \A n, k \in Nodes : n # k => ToSet(kids[n]) \cap ToSet(kids[k]) = {}

\* A document as it stands in memory, and what its file holds.
Standing(d, T, A) == T.root = Root[d] /\ Barren(T.kids, A) /\ Kempt(T)
Stored(d, f, A)   == Barren(f.kids, A) /\ FileTree(f.kids, Root[d])

\* The move m of nodes of T: as long as they live, they hang where they hung.
Aimed(m, T) ==
  /\ IsInjective(m.roots)
  /\ \A k \in ToSet(m.roots) \cap Under(T) : T.up[k] = m.cut.of

\* No move has gone astray, and m still aims at its nodes.
Steady(m) == ~strayed /\ Aimed(m, doc[m.src])

\* Until a move strays every document is a tree, one with a commit outstanding
\* or refused too.
TreesKept ==
  /\ ~strayed => \A d \in Docs : Standing(d, doc[d], 1 .. minted) /\ Stored(d, file[d], 1 .. minted)
  /\ pending.stage = "resolved" => Steady(pending)

\* A number in the file is its node's in the document, and is spent there.
Published ==
  \A d \in Docs, n \in Nodes : LET old == file[d].number[n] IN
    old # NoNumber =>
      /\ doc[d].next > old
      /\ \A k \in Nodes \ {n} : doc[d].number[k] # old
      /\ ~strayed => doc[d].number[n] = old

\* Documents that keep their numbers and spend more keep the files' ones.
LEMMA NumbersCarry ==
  ASSUME Typed, Published, file' = file, strayed' \in BOOLEAN, strayed => strayed',
         \A d \in Docs : doc'[d].next \in Nat /\ doc'[d].number \in [Nodes -> Nat]
                         /\ Renumbering(doc[d], doc'[d]),
         ~strayed' => \A d \in Docs : Numbering(doc[d], doc'[d])
  PROVE  Published'
  <1> SUFFICES ASSUME NEW d \in Docs, NEW n \in Nodes, NEW old, old = file[d].number[n],
                      old # NoNumber
               PROVE  /\ doc'[d].next > old
                      /\ \A k \in Nodes \ {n} : doc'[d].number[k] # old
                      /\ ~strayed' => doc'[d].number[n] = old
    BY DEF Published
  <1>t. PICK T, U : T = doc[d] /\ U = doc'[d]
    OBVIOUS
  <1>0. /\ T.next \in Nat /\ U.next \in Nat /\ old \in Nat /\ strayed \in BOOLEAN
        /\ T.number \in [Nodes -> Nat] /\ U.number \in [Nodes -> Nat]
    <2>1. T.next \in Nat /\ T.number \in [Nodes -> Nat]
      BY <1>t DEF Typed, Sound, TreeDocs
    <2>2. file[d].number \in [Nodes -> Nat]
      BY DEF Typed, TreeFiles
    <2>3. QED
      BY <1>t, <2>1, <2>2 DEF Typed
  <1>1. /\ T.next > old /\ \A k \in Nodes \ {n} : T.number[k] # old
        /\ ~strayed => T.number[n] = old
    BY <1>t DEF Published
  <1>2. /\ T.next <= U.next
        /\ \A k \in Nodes : U.number[k] \in {T.number[k], NoNumber} \/ U.number[k] >= T.next
    BY <1>t DEF Renumbering
  <1>3. U.next > old
    BY <1>0, <1>1, <1>2
  <1>4. ASSUME NEW k \in Nodes \ {n} PROVE U.number[k] # old
    BY <1>0, <1>1, <1>2
  <1>5. ASSUME ~strayed' PROVE U.number[n] = old
    <2>1. ~strayed /\ Numbering(T, U)
      BY <1>0, <1>5, <1>t
    <2>2. T.number[n] = old
      BY <1>1, <2>1
    <2>3. QED
      BY <2>1, <2>2 DEF Numbering
  <1>6. QED
    BY <1>3, <1>4, <1>5, <1>t

\* What an edit mints hangs nowhere yet.
LEMMA FreshKept ==
  ASSUME Typed, NEW d \in Docs, Barren(doc[d].kids, 1 .. minted), NEW m \in Nat, MayMint(m)
  PROVE  /\ Sound(doc[d], 1 .. minted + m) /\ 1 .. minted + m \in SUBSET Nodes
         /\ Fresh(m) \in Seq(1 .. minted + m) /\ IsInjective(Fresh(m))
         /\ Leaves(doc[d], 1 .. minted + m, ToSet(Fresh(m)))
         /\ ToSet(Fresh(m)) \cap 1 .. minted = {}
  <1>0. minted \in Nat /\ Pool \in Nat /\ minted + m <= Pool /\ 1 .. minted \in SUBSET Nodes
    BY MintedNodes DEF MayMint
  <1>1. 1 .. minted \subseteq 1 .. minted + m /\ 1 .. minted + m \in SUBSET Nodes
    BY <1>0 DEF Nodes
  <1>2. Sound(doc[d], 1 .. minted)
    BY DEF Typed
  <1>3. Sound(doc[d], 1 .. minted + m)
    BY <1>1, <1>2, Wider
  <1>4. Fresh(m) \in Seq(1 .. minted + m)
    BY <1>0, FreshTyped
  <1>5. IsInjective(Fresh(m))
    BY <1>0 DEF IsInjective, Fresh
  <1>6. ToSet(Fresh(m)) = {minted + k : k \in 1 .. m}
    BY DEF ToSet, Fresh
  <1>7. ToSet(Fresh(m)) \subseteq 1 .. minted + m /\ ToSet(Fresh(m)) \cap 1 .. minted = {}
    BY <1>0, <1>6
  <1>8. Under(doc[d]) \subseteq 1 .. minted
    BY <1>0, <1>2, SoundKids
  <1>9. \A n \in ToSet(Fresh(m)) : doc[d].kids[n] = <<>>
    <2>1. ToSet(Fresh(m)) \subseteq Nodes \ (1 .. minted)
      BY <1>1, <1>7
    <2>2. QED
      BY <2>1 DEF Barren
  <1>10. Leaves(doc[d], 1 .. minted + m, ToSet(Fresh(m)))
    BY <1>7, <1>8, <1>9 DEF Leaves
  <1>11. QED
    BY <1>1, <1>3, <1>4, <1>5, <1>7, <1>10

\* What an edit of one document below one parent leaves: trees, and numbers.
LEMMA EditKept ==
  ASSUME IInv, TreesKept, Published, Command, UNCHANGED <<file, pending, strayed>>,
         NEW d \in Docs, NEW U, NEW p \in 1 .. minted, NEW m \in Nat, MayMint(m),
         minted' = minted + m,
         Edited(doc[d], U, p, 1 .. minted + m), Grown(doc[d], U, ToSet(Fresh(m))),
         Commit(d, U, p)
  PROVE  TreesKept' /\ Published'
  <1>n. PICK A, B, R, N : A = 1 .. minted /\ B = 1 .. minted + m /\ R = Closed(U, p)
                          /\ N = ToSet(Fresh(m))
    OBVIOUS
  <1>0. Typed /\ ~strayed /\ ~strayed' /\ minted \in Nat /\ B \in SUBSET Nodes /\ A \subseteq B
    BY <1>n, MintedNodes DEF IInv, Command, MayEdit, MayMint, Nodes
  <1>1. /\ DOMAIN doc = Docs /\ \A e \in Docs : Sound(doc[e], A)
        /\ \A e \in Docs : Standing(e, doc[e], A) /\ Stored(e, file[e], A)
    BY <1>0, <1>n DEF Typed, TreesKept
  <1>2. DOMAIN doc' = Docs /\ doc'[d] = R /\ \A e \in Docs \ {d} : doc'[e] = doc[e]
    BY <1>1, <1>n DEF Commit
  <1>3. /\ doc[d].root = Root[d] /\ Barren(doc[d].kids, A) /\ Kempt(doc[d])
        /\ N \cap A = {} /\ Sound(doc[d], B)
    <2>1. doc[d].root = Root[d] /\ Barren(doc[d].kids, A) /\ Kempt(doc[d])
      BY <1>1 DEF Standing
    <2>2. QED
      BY <1>0, <1>n, <2>1, FreshKept
  <1>4. /\ Sound(U, B) /\ U.root = doc[d].root /\ \A q \in Nodes \ {p} : U.kids[q] = doc[d].kids[q]
    BY <1>n DEF Edited
  <1>5. /\ Kempt(U) /\ U.number = doc[d].number /\ doc[d].next <= U.next
        /\ Under(U) \subseteq Under(doc[d]) \cup N
        /\ \A k \in Under(doc[d]) \cap Under(U) : U.up[k] = doc[d].up[k]
    BY <1>n DEF Grown
  <1>6. /\ R.root = U.root /\ R.kids = U.kids /\ R.up = U.up
        /\ Kempt(R) /\ Renumbering(U, R) /\ Numbering(U, R)
    BY <1>0, <1>4, <1>5, <1>n, ClosedKept
  <1>7. Standing(d, R, B)
    <2>1. ASSUME NEW k \in Nodes \ B PROVE R.kids[k] = <<>>
      <3>1. k \in Nodes \ A /\ k # p
        BY <1>0, <1>n
      <3>2. doc[d].kids[k] = <<>>
        BY <1>3, <3>1 DEF Barren
      <3>3. QED
        BY <1>4, <1>6, <3>1, <3>2
    <2>2. QED
      BY <1>3, <1>4, <1>6, <2>1 DEF Standing, Barren
  <1>8. \A e \in Docs : Standing(e, doc'[e], B) /\ Stored(e, file'[e], B)
    <2>1. ASSUME NEW e \in Docs PROVE Stored(e, file'[e], B) /\ Standing(e, doc[e], B)
      BY <1>0, <1>1 DEF Stored, Standing, Barren
    <2>2. QED
      BY <1>2, <1>7, <2>1
  <1>9. ASSUME pending.stage = "resolved" PROVE Steady(pending)'
    <2>m. PICK s, T : s = pending.src /\ T = doc[s]
      OBVIOUS
    <2>0. pending \in Moves(A) /\ Aimed(pending, T)
      BY <1>0, <1>9, <1>n, <2>m DEF Typed, NoMove, TreesKept, Steady
    <2>1. s \in Docs /\ ToSet(pending.roots) \subseteq A
      BY <2>0, <2>m DEF Moves, ToSet
    <2>2. Aimed(pending, doc'[s])
      <3>1. CASE s = d
        <4>1. Under(R) = Under(U)
          BY <1>6 DEF Under
        <4>2. ASSUME NEW k \in ToSet(pending.roots) \cap Under(R) PROVE R.up[k] = pending.cut.of
          <5>1. k \in Under(U) /\ k \in Under(doc[d]) /\ k \in ToSet(pending.roots)
            BY <1>3, <1>5, <2>1, <4>1
          <5>2. T.up[k] = pending.cut.of
            BY <2>0, <2>m, <3>1, <5>1 DEF Aimed
          <5>3. QED
            BY <1>5, <1>6, <2>m, <3>1, <5>1, <5>2
        <4>3. QED
          BY <1>2, <2>0, <3>1, <4>2 DEF Aimed
      <3>2. CASE s # d
        BY <1>2, <2>0, <2>1, <2>m, <3>2
      <3>3. QED
        BY <3>1, <3>2
    <2>3. QED
      BY <1>0, <2>2, <2>m DEF Steady
  <1>10. TreesKept'
    BY <1>8, <1>9, <1>n DEF TreesKept
  <1>11. Published'
    <2>1. doc[d].next \in Nat /\ U.next \in Nat /\ R.next \in Nat
          /\ \A e \in Docs : doc[e].next \in Nat /\ doc[e].number \in [Nodes -> Nat]
      <3>1. \A e \in Docs : doc[e].next \in Nat /\ doc[e].number \in [Nodes -> Nat]
        BY <1>1 DEF Sound, TreeDocs
      <3>2. U.next \in Nat
        BY <1>4, NextTyped
      <3>3. Sound(R, B)
        BY <1>0, <1>3, <1>n, ClosedSound
      <3>4. QED
        BY <3>1, <3>2, <3>3, NextTyped
    <2>2. Renumbering(doc[d], R) /\ Numbering(doc[d], R) /\ R.number \in [Nodes -> Nat]
      <3>1. Sound(R, B)
        BY <1>0, <1>3, <1>n, ClosedSound
      <3>2. R.number \in [Nodes -> Nat]
        BY <3>1 DEF Sound, TreeDocs
      <3>3. QED
        BY <1>5, <1>6, <2>1, <3>2 DEF Renumbering, Numbering
    <2>3. \A e \in Docs : Renumbering(doc[e], doc[e]) /\ Numbering(doc[e], doc[e])
      BY <2>1 DEF Renumbering, Numbering
    <2>4. \A e \in Docs : doc'[e].next \in Nat /\ doc'[e].number \in [Nodes -> Nat]
                          /\ Renumbering(doc[e], doc'[e]) /\ Numbering(doc[e], doc'[e])
      BY <1>2, <2>1, <2>2, <2>3
    <2>5. file' = file /\ strayed' \in BOOLEAN /\ (strayed => strayed')
      BY <1>0 DEF Typed
    <2>6. /\ \A e \in Docs : doc'[e].next \in Nat /\ doc'[e].number \in [Nodes -> Nat]
                             /\ Renumbering(doc[e], doc'[e])
          /\ ~strayed' => \A e \in Docs : Numbering(doc[e], doc'[e])
      BY <2>4
    <2>7. QED
      BY <1>0, <2>5, <2>6, NumbersCarry
  <1>12. QED
    BY <1>10, <1>11

\* The parent that an address resolves to is live.
LEMMA ResolvesBelow ==
  ASSUME NEW A \in SUBSET Nodes, NEW T, Sound(T, A), Kempt(T), NEW at \in Ats, Resolves(T, at)
  PROVE  ParentAt(T, at) \in Under(T) /\ Addresses(T, at, ParentAt(T, at))
  <1>0. T \in TreeDocs(A) /\ at.node \in Under(T) /\ Hangs(T.kids, T.root, T.up)
    BY DEF Sound, Resolves, Kempt
  <1>1. Addresses(T, at, ParentAt(T, at))
    BY <1>0, ResolvesAddresses
  <1>2. CASE Beside(at)
    <2>1. /\ T.kids \in [Nodes -> Seq(Nodes)] /\ T.root \in Nodes
          /\ Under(T) = Reach(T.kids, T.root)
      BY SoundKids
    <2>2. T.up[at.node] # NoNode
      BY <1>2 DEF Resolves
    <2>3. at.node # T.root
      BY <1>0, <2>2 DEF Hangs
    <2>4. PICK q \in Reach(T.kids, T.root) : at.node \in ToSet(T.kids[q])
      BY <1>0, <2>1, <2>3, ReachedFrom
    <2>5. T.up[at.node] = q
      BY <1>0, <2>4 DEF Hangs
    <2>6. QED
      BY <1>1, <1>2, <2>1, <2>4, <2>5 DEF ParentAt
  <1>3. CASE ~Beside(at)
    BY <1>0, <1>1, <1>3 DEF ParentAt
  <1>4. QED
    BY <1>2, <1>3

\* The document of an edit, as the lemmas above want it.
LEMMA EditedDoc ==
  ASSUME IInv, TreesKept, ~strayed, NEW d \in Docs
  PROVE  /\ Typed /\ Kempt(doc[d]) /\ Barren(doc[d].kids, 1 .. minted) /\ doc[d].root = Root[d]
         /\ Sound(doc[d], 1 .. minted) /\ 1 .. minted \in SUBSET Nodes /\ minted \in Nat
         /\ Under(doc[d]) \subseteq 1 .. minted /\ doc[d].known = Under(doc[d])
  <1>1. Typed /\ Standing(d, doc[d], 1 .. minted)
    BY DEF IInv, TreesKept
  <1>2. Kempt(doc[d]) /\ Barren(doc[d].kids, 1 .. minted) /\ doc[d].root = Root[d]
    BY <1>1 DEF Standing
  <1>3. Sound(doc[d], 1 .. minted) /\ 1 .. minted \in SUBSET Nodes /\ minted \in Nat
    BY <1>1, MintedNodes DEF Typed
  <1>4. Under(doc[d]) \subseteq 1 .. minted
    BY <1>3, SoundKids
  <1>5. QED
    BY <1>1, <1>2, <1>3, <1>4 DEF Kempt

\* insert.
LEMMA InsertKept ==
  ASSUME IInv, TreesKept, Published, NEW d \in Docs, NEW at \in Places(Given),
         NEW m \in 1 .. MaxFragment, Insert(d, at, m)
  PROVE  TreesKept' /\ Published'
  <1>u. PICK T, U, p, B, fresh : /\ T = doc[d] /\ U = InsertAll(T, fresh, at)
                                 /\ p = ParentAt(T, at) /\ B = 1 .. minted + m /\ fresh = Fresh(m)
    OBVIOUS
  <1>1. /\ Command /\ Resolves(T, at) /\ MayMint(m) /\ minted' = minted + m /\ ~strayed
        /\ Commit(d, U, p) /\ UNCHANGED <<file, pending, strayed>>
    BY <1>u DEF Insert, Minted, Command, MayEdit
  <1>2. /\ Typed /\ Kempt(T) /\ Barren(doc[d].kids, 1 .. minted) /\ Under(T) \subseteq 1 .. minted
        /\ m \in Nat
    BY <1>1, <1>u, EditedDoc, SizesAssumption
  <1>3. /\ Sound(T, B) /\ B \in SUBSET Nodes /\ fresh \in Seq(B) /\ IsInjective(fresh)
        /\ Leaves(T, B, ToSet(fresh))
    BY <1>1, <1>2, <1>u, FreshKept
  <1>4. at \in Ats
    BY PlacesAreAts
  <1>5. p \in Under(T) /\ Addresses(T, at, p)
    BY <1>1, <1>2, <1>3, <1>4, <1>u, ResolvesBelow
  <1>6. Edited(T, U, p, B)
    BY <1>3, <1>5, <1>u, InsertAllSound
  <1>7. Planted(T, U, ToSet(fresh))
    BY <1>2, <1>3, <1>5, <1>u, InsertAllKept
  <1>8. Grown(T, U, ToSet(fresh))
    <2>1. ToSet(fresh) \cap Under(T) = {}
      BY <1>3 DEF Leaves
    <2>2. QED
      BY <1>3, <1>7, <2>1, PlantedGrows
  <1>9. p \in 1 .. minted
    BY <1>2, <1>5
  <1>10. QED
    BY <1>1, <1>2, <1>6, <1>8, <1>9, <1>u, EditKept

\* The parent of a run is live.
LEMMA RunsBelow ==
  ASSUME IInv, TreesKept, ~strayed, NEW d \in Docs, NEW r \in Runs(d)
  PROVE  Cutting(doc[d], r, 1 .. minted) /\ r.of \in Under(doc[d])
  <1>1. PICK p \in doc[d].known : r.of = p
    BY DEF Runs
  <1>2. QED
    BY <1>1, EditedDoc, RunsCut

\* Cuts stay cuts when nodes are minted.
LEMMA WiderCut ==
  ASSUME NEW A, NEW B, A \subseteq B, NEW T, NEW r, Cutting(T, r, A)
  PROVE  Cutting(T, r, B)
  BY DEF Cutting, Cuts

\* delete.
LEMMA DeleteKept ==
  ASSUME IInv, TreesKept, Published, NEW d \in Docs, NEW r \in Runs(d), Delete(d, r)
  PROVE  TreesKept' /\ Published'
  <1>u. PICK T, U, p, A : T = doc[d] /\ U = Deleted(T, r) /\ p = r.of /\ A = 1 .. minted
    OBVIOUS
  <1>1. Command /\ ~strayed /\ Commit(d, U, p) /\ UNCHANGED <<file, pending, strayed>>
        /\ minted' = minted
    BY <1>u DEF Delete, Command, MayEdit
  <1>2. /\ Typed /\ Kempt(T) /\ Sound(T, A) /\ A \in SUBSET Nodes /\ minted \in Nat
        /\ Under(T) \subseteq A
    BY <1>1, <1>u, EditedDoc
  <1>3. /\ Cutting(T, r, A) /\ p \in Under(T) /\ p \in A
    BY <1>1, <1>2, <1>u, RunsBelow
  <1>4. Edited(T, U, p, A)
    BY <1>2, <1>3, <1>u, DeletedSound
  <1>5. Pruned(T, U, p, ToSet(Run(T, r)))
    BY <1>2, <1>3, <1>u, DeletedKept
  <1>6. Grown(T, U, {})
    <2>1. Kempt(U) /\ U.next \in Nat
      BY <1>4, <1>5, NextTyped DEF Pruned, Edited
    <2>2. Planted(U, U, {})
      BY <2>1 DEF Planted
    <2>3. QED
      BY <1>2, <1>5, <2>2, PlantedGrows
  <1>7. ToSet(Fresh(0)) = {} /\ MayMint(0) /\ minted + 0 = minted /\ 0 \in Nat
    BY <1>2, MintedNodes DEF ToSet, Fresh, MayMint
  <1>8. minted' = minted + 0 /\ Edited(T, U, p, 1 .. minted + 0) /\ Grown(T, U, ToSet(Fresh(0)))
    BY <1>1, <1>4, <1>6, <1>7, <1>u
  <1>9. QED
    BY <1>1, <1>3, <1>7, <1>8, <1>u, EditKept

\* replace.
LEMMA ReplaceKept ==
  ASSUME IInv, TreesKept, Published, NEW d \in Docs, NEW r \in Runs(d),
         NEW m \in 1 .. MaxFragment, Replace(d, r, m)
  PROVE  TreesKept' /\ Published'
  <1>u. PICK T, U, V, p, B, fresh : /\ T = doc[d] /\ U = Replaced(T, r, fresh) /\ V = Deleted(T, r)
                                    /\ p = r.of /\ B = 1 .. minted + m /\ fresh = Fresh(m)
    OBVIOUS
  <1>1. /\ Command /\ MayMint(m) /\ minted' = minted + m /\ ~strayed
        /\ Commit(d, U, p) /\ UNCHANGED <<file, pending, strayed>>
    BY <1>u DEF Replace, Minted, Command, MayEdit
  <1>2. /\ Typed /\ Kempt(T) /\ Barren(doc[d].kids, 1 .. minted) /\ Under(T) \subseteq 1 .. minted
        /\ m \in Nat /\ minted \in Nat
    BY <1>1, <1>u, EditedDoc, SizesAssumption
  <1>3. /\ Sound(T, B) /\ B \in SUBSET Nodes /\ fresh \in Seq(B) /\ IsInjective(fresh)
        /\ Leaves(T, B, ToSet(fresh))
    BY <1>1, <1>2, <1>u, FreshKept
  <1>4. Cutting(T, r, B) /\ p \in Under(T) /\ p \in 1 .. minted
    <2>1. Cutting(T, r, 1 .. minted) /\ p \in Under(T)
      BY <1>1, <1>u, RunsBelow
    <2>2. 1 .. minted \subseteq B
      BY <1>2, <1>u
    <2>3. QED
      BY <1>2, <2>1, <2>2, WiderCut
  <1>5. Edited(T, U, p, B)
    BY <1>3, <1>4, <1>u, ReplacedSound
  <1>6. Planted(V, U, ToSet(fresh))
    BY <1>2, <1>3, <1>4, <1>u, ReplacedKept
  <1>7. Pruned(T, V, p, ToSet(Run(T, r)))
    BY <1>2, <1>3, <1>4, <1>u, DeletedKept
  <1>8. Grown(T, U, ToSet(fresh))
    <2>1. ToSet(fresh) \cap Under(T) = {}
      BY <1>3 DEF Leaves
    <2>2. QED
      BY <1>3, <1>6, <1>7, <2>1, PlantedGrows
  <1>9. QED
    BY <1>1, <1>2, <1>4, <1>5, <1>8, <1>u, EditKept

\* set_body.
LEMMA SetBodyKept ==
  ASSUME IInv, TreesKept, Published, NEW d \in Docs, NEW p \in Nodes,
         NEW m \in 1 .. MaxFragment, SetBody(d, p, m)
  PROVE  TreesKept' /\ Published'
  <1>u. PICK T, U, B, fresh : /\ T = doc[d] /\ U = Rebodied(T, p, fresh)
                              /\ B = 1 .. minted + m /\ fresh = Fresh(m)
    OBVIOUS
  <1>1. /\ Command /\ MayMint(m) /\ minted' = minted + m /\ ~strayed /\ p \in T.known
        /\ Commit(d, U, p) /\ UNCHANGED <<file, pending, strayed>>
    BY <1>u DEF SetBody, Minted, Command, MayEdit
  <1>2. /\ Typed /\ Kempt(T) /\ Barren(doc[d].kids, 1 .. minted) /\ Under(T) \subseteq 1 .. minted
        /\ m \in Nat /\ minted \in Nat /\ T.known = Under(T)
    BY <1>1, <1>u, EditedDoc, SizesAssumption
  <1>3. /\ Sound(T, B) /\ B \in SUBSET Nodes /\ fresh \in Seq(B) /\ IsInjective(fresh)
        /\ Leaves(T, B, ToSet(fresh))
    BY <1>1, <1>2, <1>u, FreshKept
  <1>4. p \in Under(T) /\ p \in 1 .. minted /\ p \in B
    BY <1>1, <1>2, <1>3, SoundKids
  <1>5. Edited(T, U, p, B)
    BY <1>3, <1>4, <1>u, RebodiedSound
  <1>6. Grown(T, U, ToSet(fresh))
    BY <1>2, <1>3, <1>4, <1>u, RebodiedKept
  <1>7. QED
    BY <1>1, <1>2, <1>4, <1>5, <1>6, <1>u, EditKept

\* Of a tree a file with a tree is written.
LEMMA SavedKept ==
  ASSUME NEW A \in SUBSET Nodes, NEW d, NEW T, Sound(T, A), Standing(d, T, A),
         NEW f, f = Saved(T)
  PROVE  Stored(d, f, A)
  <1>k. PICK kids : kids = [n \in Nodes |-> IF n \in Under(T) THEN T.kids[n] ELSE <<>>]
    OBVIOUS
  <1>1. f.kids = kids
    BY <1>k DEF Saved
  <1>2. T.root = Root[d] /\ Barren(T.kids, A) /\ Hangs(T.kids, T.root, T.up)
    BY DEF Standing, Kempt
  <1>3. /\ Under(T) = Reach(T.kids, T.root) /\ T.root \in Nodes /\ NoNode \notin Nodes
    BY SoundKids, NodesAre
  <1>4. Barren(kids, A)
    BY <1>2, <1>k DEF Barren
  <1>5. ASSUME NEW n \in Nodes
        PROVE  /\ IsInjective(kids[n])
               /\ \A k \in ToSet(kids[n]) : T.up[k] = n
    <2>1. CASE n \in Under(T)
      BY <1>2, <1>3, <1>k, <2>1 DEF Hangs
    <2>2. CASE n \notin Under(T)
      BY <1>k, <2>2 DEF IsInjective, ToSet
    <2>3. QED
      BY <2>1, <2>2
  <1>6. \A n \in Nodes : T.root \notin ToSet(kids[n])
    BY <1>2, <1>3, <1>5 DEF Hangs
  <1>7. \A n, k \in Nodes : n # k => ToSet(kids[n]) \cap ToSet(kids[k]) = {}
    BY <1>5
  <1>8. FileTree(kids, T.root)
    BY <1>5, <1>6, <1>7 DEF FileTree
  <1>9. QED
    BY <1>1, <1>2, <1>4, <1>8 DEF Stored

\* From a file with a tree a tree is loaded, with its numbers.
LEMMA LoadedKept ==
  ASSUME NEW A \in SUBSET Nodes, NEW d \in Docs, Root[d] \in A,
         NEW f \in TreeFiles(A), Numbered(f), Stored(d, f, A), NEW R, R = Loaded(d, f)
  PROVE  Standing(d, R, A) /\ Numbering(f, R)
  <1>f. PICK field : field = [n \in Nodes |-> Cleared(f.kids[n], f.field[n])]
    OBVIOUS
  <1>u. PICK up : up = [n \in Nodes |-> IF \E m \in Nodes : n \in ToSet(f.kids[m])
                                        THEN CHOOSE m \in Nodes : n \in ToSet(f.kids[m])
                                        ELSE NoNode]
    OBVIOUS
  <1>x. PICK X : X = [root |-> Root[d], kids |-> f.kids, field |-> field, up |-> up,
                      label |-> Blank(NoNumber), number |-> f.number,
                      known |-> {}, index |-> {},
                      next |-> f.next, version |-> 1, unsynced |-> f.unsynced]
    OBVIOUS
  <1>1. R = Reindexed(X)
    BY <1>f, <1>u, <1>x DEF Loaded, Cleared
  <1>2. /\ f.kids \in [Nodes -> Seq(A)] /\ f.field \in [Nodes -> Seq(Nodes \cup {NoNode})]
        /\ f.number \in [Nodes -> Nat] /\ f.next \in Nat \ {0} /\ f.unsynced \in SUBSET Nodes
    BY DEF TreeFiles
  <1>3. \A n \in Nodes : f.kids[n] \in Seq(Nodes)
    BY <1>2, SeqOver
  <1>4. field \in [Nodes -> Seq(Nodes \cup {NoNode})]
    <2>1. \A n \in Nodes : field[n] \in Seq(Nodes \cup {NoNode})
      BY <1>2, <1>3, <1>f, ClearedTyped
    <2>2. QED
      BY <1>f, <2>1
  <1>5. up \in [Nodes -> Nodes \cup {NoNode}]
    BY <1>u
  <1>6. Blank(NoNumber) \in [Nodes -> Nat]
    BY DEF Blank, NoNumber
  <1>7. X \in TreeDocs(A)
    BY <1>2, <1>4, <1>5, <1>6, <1>x DEF TreeDocs
  <1>8. X.number = f.number /\ X.next = f.next /\ X.kids = f.kids /\ X.up = up
        /\ X.root = Root[d] /\ X.index = {}
    BY <1>x
  <1>9. Numbered(X)
    BY <1>8 DEF Numbered
  <1>10. Sound(R, A) /\ SameTree(X, R) /\ Indexed(R)
    BY <1>1, <1>7, <1>9, ReindexedSound
  <1>11. R.up = X.up /\ Numbering(X, R)
    BY <1>1, <1>7, <1>8, <1>9, ReindexedShape
  <1>12. Numbering(f, R)
    BY <1>8, <1>11 DEF Numbering
  <1>13. /\ R.kids = f.kids /\ R.up = up /\ R.root = Root[d] /\ Root[d] \in Nodes
    BY <1>8, <1>10, <1>11 DEF SameTree
  <1>14. Barren(f.kids, A) /\ FileTree(f.kids, Root[d])
    BY DEF Stored
  <1>15. up[Root[d]] = NoNode
    BY <1>13, <1>14, <1>u DEF FileTree
  <1>16. ASSUME NEW p \in Nodes, NEW k \in ToSet(f.kids[p]) PROVE up[k] = p
    <2>1. k \in Nodes
      BY <1>3 DEF ToSet
    <2>2. \A m \in Nodes : k \in ToSet(f.kids[m]) => m = p
      BY <1>14 DEF FileTree
    <2>3. QED
      BY <1>u, <2>1, <2>2
  <1>17. Hangs(R.kids, R.root, R.up)
    <2>1. Reach(f.kids, Root[d]) \subseteq Nodes
      <3>1. f.kids \in [Nodes -> Seq(Nodes)]
        BY <1>2, <1>3
      <3>2. QED
        BY <1>13, <3>1, ReachClosed
    <2>2. QED
      BY <1>13, <1>14, <1>15, <1>16, <2>1 DEF Hangs, FileTree
  <1>18. Kempt(R)
    BY <1>10, <1>17, IndexedKempt
  <1>19. QED
    BY <1>12, <1>13, <1>14, <1>18 DEF Standing

\* A file and a document with its numbers: nothing else is published in either.
LEMMA NumbersOf ==
  ASSUME NEW g \in [Nodes -> Nat], NEW f, NEW R, f.number = g, f.next \in Nat,
         R.number \in [Nodes -> Nat], R.next \in Nat, Numbered(f), Numbering(f, R)
  PROVE  \A n \in Nodes : g[n] # NoNumber =>
           /\ R.next > g[n] /\ R.number[n] = g[n]
           /\ \A k \in Nodes \ {n} : R.number[k] # g[n]
  <1> SUFFICES ASSUME NEW n \in Nodes, g[n] # NoNumber
               PROVE  /\ R.next > g[n] /\ R.number[n] = g[n]
                      /\ \A k \in Nodes \ {n} : R.number[k] # g[n]
    OBVIOUS
  <1>1. /\ f.next <= R.next /\ g[n] < f.next
        /\ \A k \in Nodes : R.number[k] = g[k] \/ R.number[k] >= f.next
        /\ \A k \in Nodes \ {n} : g[k] # g[n]
    BY DEF Numbering, Numbered
  <1>2. R.next > g[n]
    BY <1>1
  <1>3. R.number[n] = g[n]
    BY DEF Numbering
  <1>4. ASSUME NEW k \in Nodes \ {n} PROVE R.number[k] # g[n]
    BY <1>1
  <1>5. QED
    BY <1>2, <1>3, <1>4

\* The documents start as trees.
LEMMA InitTrees == Init => TreesKept /\ Published
  <1> SUFFICES ASSUME Init PROVE TreesKept /\ Published
    OBVIOUS
  <1>0. Born \in Nat /\ 1 .. Born \in SUBSET Nodes /\ minted = Born /\ pending.stage = "none"
    BY SizesAssumption DEF Nodes, Init, NoMove
  <1>1. ASSUME NEW d \in Docs
        PROVE  /\ Standing(d, doc[d], 1 .. Born) /\ Stored(d, file[d], 1 .. Born)
               /\ \A n \in Nodes : LET old == file[d].number[n] IN
                    old # NoNumber =>
                      /\ doc[d].next > old /\ doc[d].number[n] = old
                      /\ \A k \in Nodes \ {n} : doc[d].number[k] # old
    <2>f. PICK f : f = FirstFile(d)
      OBVIOUS
    <2>t. PICK T : T = Loaded(d, f)
      OBVIOUS
    <2>g. PICK g : g = Saved(T)
      OBVIOUS
    <2>1. f \in TreeFiles(1 .. Born) /\ Numbered(f) /\ f.kids = FirstKids[d]
      BY <2>f, FirstFileSound DEF FirstFile
    <2>2. Root[d] \in 1 .. Born
      BY TreesAssumption
    <2>3. Stored(d, f, 1 .. Born)
      BY <1>0, <2>1, FilesAssumption DEF Stored, Barren, FileTree
    <2>4. Sound(T, 1 .. Born)
      BY <1>0, <2>1, <2>2, <2>t, LoadedSound
    <2>5. Standing(d, T, 1 .. Born)
      BY <1>0, <2>1, <2>2, <2>3, <2>t, LoadedKept
    <2>6. Stored(d, g, 1 .. Born)
      BY <1>0, <2>4, <2>5, <2>g, SavedKept
    <2>7. g.number = T.number /\ g.next = T.next
      BY <2>g DEF Saved
    <2>8. T.number \in [Nodes -> Nat] /\ T.next \in Nat
      BY <2>4 DEF Sound, TreeDocs
    <2>9. Numbering(g, T) /\ Numbered(g)
      BY <2>4, <2>7, <2>8 DEF Numbering, Sound, Numbered
    <2>10. \A n \in Nodes : T.number[n] # NoNumber =>
             /\ T.next > T.number[n] /\ T.number[n] = T.number[n]
             /\ \A k \in Nodes \ {n} : T.number[k] # T.number[n]
      BY <2>7, <2>8, <2>9, NumbersOf
    <2>11. doc[d] = T /\ file[d] = g
      BY <2>f, <2>t, <2>g DEF Init
    <2>12. QED
      BY <2>5, <2>6, <2>7, <2>10, <2>11
  <1>2. TreesKept
    BY <1>0, <1>1 DEF TreesKept
  <1>3. Published
    BY <1>1 DEF Published
  <1>4. QED
    BY <1>2, <1>3

\* A write leaves a file with a tree.
LEMMA WriteKept ==
  ASSUME IInv, TreesKept, Published, NEW d \in Docs, Write(d)
  PROVE  TreesKept' /\ Published'
  <1>n. PICK A, f : A = 1 .. minted /\ f = Saved(doc[d])
    OBVIOUS
  <1>1. /\ ~strayed /\ file' = [file EXCEPT ![d] = f]
        /\ doc' = doc /\ minted' = minted /\ pending' = pending /\ strayed' = strayed
    BY <1>n DEF Write
  <1>2. /\ A \in SUBSET Nodes /\ Sound(doc[d], A) /\ DOMAIN file = Docs
        /\ \A e \in Docs : Standing(e, doc[e], A) /\ Stored(e, file[e], A)
    BY <1>1, <1>n, MintedNodes DEF IInv, Typed, TreesKept
  <1>3. Stored(d, f, A)
    BY <1>2, <1>n, SavedKept
  <1>4. file'[d] = f /\ \A e \in Docs \ {d} : file'[e] = file[e]
    BY <1>1, <1>2
  <1>5. \A e \in Docs : Standing(e, doc'[e], A) /\ Stored(e, file'[e], A)
    BY <1>1, <1>2, <1>3, <1>4
  <1>6. pending'.stage = "resolved" => Steady(pending)'
    BY <1>1 DEF TreesKept, Steady
  <1>7. TreesKept'
    BY <1>1, <1>5, <1>6, <1>n DEF TreesKept
  <1>8. f.number = doc[d].number /\ f.next = doc[d].next
    BY <1>n DEF Saved
  <1>9. /\ doc[d].number \in [Nodes -> Nat] /\ doc[d].next \in Nat
    BY <1>2 DEF Sound, TreeDocs
  <1>10. Numbering(f, doc[d]) /\ Numbered(f)
    BY <1>2, <1>8, <1>9 DEF Numbering, Sound, Numbered
  <1>11. \A n \in Nodes : f.number[n] # NoNumber =>
           /\ doc[d].next > f.number[n] /\ doc[d].number[n] = f.number[n]
           /\ \A k \in Nodes \ {n} : doc[d].number[k] # f.number[n]
    BY <1>8, <1>9, <1>10, NumbersOf
  <1>12. Published'
    BY <1>1, <1>4, <1>11 DEF Published
  <1>13. QED
    BY <1>7, <1>12

\* A load takes a tree from one.
LEMMA LoadKept ==
  ASSUME IInv, TreesKept, Published, NEW d \in Docs, Load(d)
  PROVE  TreesKept' /\ Published'
  <1>n. PICK A, f, R : A = 1 .. minted /\ f = file[d] /\ R = Loaded(d, f)
    OBVIOUS
  <1>1. /\ ~strayed /\ doc' = [doc EXCEPT ![d] = R] /\ file' = file
        /\ minted' = minted /\ pending' = pending /\ strayed' = strayed
        /\ pending # NoMove => d \notin {pending.src, pending.dst}
    BY <1>n DEF Load
  <1>2. /\ A \in SUBSET Nodes /\ DOMAIN doc = Docs /\ f \in TreeFiles(A) /\ Numbered(f)
        /\ \A e \in Docs : Standing(e, doc[e], A) /\ Stored(e, file[e], A)
    BY <1>1, <1>n, MintedNodes DEF IInv, Typed, TreesKept
  <1>3. Root[d] \in A
    BY <1>n, MintedNodes, TreesAssumption DEF IInv
  <1>4. Standing(d, R, A) /\ Numbering(f, R)
    <2>1. Stored(d, f, A)
      BY <1>2, <1>n
    <2>2. QED
      BY <1>2, <1>3, <1>n, <2>1, LoadedKept
  <1>5. Sound(R, A)
    BY <1>2, <1>3, <1>n, LoadedSound
  <1>6. doc'[d] = R /\ \A e \in Docs \ {d} : doc'[e] = doc[e]
    BY <1>1, <1>2
  <1>7. \A e \in Docs : Standing(e, doc'[e], A) /\ Stored(e, file'[e], A)
    BY <1>1, <1>2, <1>4, <1>6
  <1>8. pending'.stage = "resolved" => Steady(pending)'
    <2> SUFFICES ASSUME pending.stage = "resolved" PROVE Steady(pending)'
      BY <1>1
    <2>1. pending # NoMove /\ pending \in Moves(A)
      BY <1>n DEF NoMove, IInv, Typed
    <2>2. pending.src \in Docs \ {d}
      BY <1>1, <2>1 DEF Moves
    <2>3. Steady(pending)
      BY DEF TreesKept
    <2>4. QED
      BY <1>1, <1>6, <2>2, <2>3 DEF Steady
  <1>9. TreesKept'
    BY <1>1, <1>7, <1>8, <1>n DEF TreesKept
  <1>10. /\ f.number \in [Nodes -> Nat] /\ f.next \in Nat
         /\ R.number \in [Nodes -> Nat] /\ R.next \in Nat
    BY <1>2, <1>5 DEF TreeFiles, Sound, TreeDocs
  <1>11. \A n \in Nodes : f.number[n] # NoNumber =>
           /\ R.next > f.number[n] /\ R.number[n] = f.number[n]
           /\ \A k \in Nodes \ {n} : R.number[k] # f.number[n]
    BY <1>2, <1>4, <1>10, NumbersOf
  <1>12. Published'
    BY <1>1, <1>6, <1>11, <1>n DEF Published
  <1>13. QED
    BY <1>9, <1>12

\* A move that was resolved aims at nodes where they hang.
LEMMA MoveResolveKept ==
  ASSUME IInv, TreesKept, Published, NEW s \in Docs, NEW r \in Runs(s), NEW t \in Docs,
         NEW at \in Places(Given), MoveResolve(s, r, t, at)
  PROVE  TreesKept' /\ Published'
  <1>n. PICK A, T, out, e0 : A = 1 .. minted /\ T = doc[s] /\ out = Run(T, r) /\ e0 = <<>>
    OBVIOUS
  <1>1. /\ UNCHANGED <<doc, file, minted, refused, strayed>> /\ ~strayed
        /\ pending' = [stage |-> "resolved", src |-> s, dst |-> t, at |-> at,
                       cut |-> r, roots |-> out]
    BY <1>n DEF MoveResolve, Command, MayEdit
  <1>2. /\ Typed /\ Kempt(T) /\ Sound(T, A) /\ A \in SUBSET Nodes
    BY <1>1, <1>n, EditedDoc
  <1>3. Cutting(T, r, A) /\ r.of \in Under(T)
    BY <1>1, <1>n, RunsBelow
  <1>4. e0 \in Seq(A) /\ IsInjective(e0) /\ ToSet(e0) \cap Under(T) = {}
    BY <1>n DEF IsInjective, ToSet
  <1>p. PICK p, q, i, j : p = r.of /\ q = T.kids[p] /\ i = r.from - 1 /\ j = r.to
    OBVIOUS
  <1>5. Exchanges(A, q, i, j, e0) /\ out = SubSeq(q, i + 1, j)
    BY <1>2, <1>3, <1>4, <1>n, <1>p, RunHolds
  <1>6. IsInjective(out) /\ ToSet(out) \subseteq ToSet(q)
    BY <1>5, SpliceHolds
  <1>7. \A k \in ToSet(q) : T.up[k] = p
    BY <1>2, <1>3, <1>p, SoundKids DEF Kempt, Hangs
  <1>8. pending'.src = s /\ pending'.roots = out /\ pending'.cut.of = p
    BY <1>1, <1>p
  <1>9. Steady(pending)'
    BY <1>1, <1>6, <1>7, <1>8, <1>n DEF Steady, Aimed
  <1>10. TreesKept'
    BY <1>1, <1>9 DEF TreesKept
  <1>11. Published'
    BY <1>1 DEF Published
  <1>12. QED
    BY <1>10, <1>11

\* One that is refused leaves the documents alone.
LEMMA MoveRefusedKept ==
  ASSUME IInv, TreesKept, Published, MoveRefused
  PROVE  TreesKept' /\ Published'
  <1>1. UNCHANGED <<doc, file, minted, refused, strayed>> /\ pending' = NoMove
    BY DEF MoveRefused
  <1>2. pending'.stage # "resolved"
    BY <1>1 DEF NoMove
  <1>3. QED
    BY <1>1, <1>2 DEF TreesKept, Published

\* A commit on a document that nothing else was done to.
LEMMA CloseKept ==
  ASSUME IInv, TreesKept, Published, NEW d \in Docs, NEW p,
         doc' = [doc EXCEPT ![d] = Closed(doc[d], p)],
         file' = file, minted' = minted, strayed' = strayed, pending'.stage # "resolved"
  PROVE  TreesKept' /\ Published'
  <1>n. PICK A, T, R : A = 1 .. minted /\ T = doc[d] /\ R = Closed(T, p)
    OBVIOUS
  <1>1. /\ Typed /\ A \in SUBSET Nodes /\ DOMAIN doc = Docs /\ strayed \in BOOLEAN
        /\ \A e \in Docs : Sound(doc[e], A)
    BY <1>n, MintedNodes DEF IInv, Typed
  <1>2. doc'[d] = R /\ \A e \in Docs \ {d} : doc'[e] = doc[e]
    BY <1>1, <1>n
  <1>3. Sound(R, A)
    <2>1. Sound(T, A) /\ Edited(T, T, p, A)
      BY <1>1, <1>n DEF Edited
    <2>2. QED
      BY <1>1, <1>n, <2>1, ClosedSound
  <1>4. /\ R.root = T.root /\ R.kids = T.kids /\ R.up = T.up /\ Renumbering(T, R)
        /\ Kempt(T) => Kempt(R) /\ Numbering(T, R)
    <2>1. Sound(T, A) /\ A \in SUBSET Nodes /\ R = Closed(T, p)
      BY <1>1, <1>n
    <2>2. QED
      BY <2>1, ClosedKept
  <1>5. TreesKept'
    <2>1. ASSUME ~strayed, NEW e \in Docs
          PROVE  Standing(e, doc'[e], A) /\ Stored(e, file'[e], A)
      <3>1. Standing(e, doc[e], A) /\ Stored(e, file[e], A)
        BY <2>1, <1>n DEF TreesKept
      <3>2. CASE e = d
        <4>1. Standing(d, R, A)
          BY <1>4, <1>n, <3>1, <3>2 DEF Standing
        <4>2. QED
          BY <1>2, <3>1, <3>2, <4>1
      <3>3. CASE e # d
        BY <1>2, <3>1, <3>3
      <3>4. QED
        BY <3>2, <3>3
    <2>2. QED
      BY <1>n, <2>1 DEF TreesKept
  <1>6. Published'
    <2>1. \A e \in Docs : doc[e].next \in Nat /\ doc[e].number \in [Nodes -> Nat]
      BY <1>1 DEF Sound, TreeDocs
    <2>2. R.next \in Nat /\ R.number \in [Nodes -> Nat]
      BY <1>3 DEF Sound, TreeDocs
    <2>3. \A e \in Docs : Renumbering(doc[e], doc[e]) /\ Numbering(doc[e], doc[e])
      BY <2>1 DEF Renumbering, Numbering
    <2>4. \A e \in Docs : doc'[e].next \in Nat /\ doc'[e].number \in [Nodes -> Nat]
                          /\ Renumbering(doc[e], doc'[e])
      BY <1>2, <1>4, <1>n, <2>1, <2>2, <2>3
    <2>5. ~strayed' => \A e \in Docs : Numbering(doc[e], doc'[e])
      <3>1. ~strayed => Kempt(T)
        BY <1>n DEF TreesKept, Standing
      <3>2. QED
        BY <1>2, <1>4, <1>n, <2>3, <3>1
    <2>6. strayed' \in BOOLEAN /\ (strayed => strayed')
      BY <1>1
    <2>7. QED
      BY <1>1, <2>4, <2>5, <2>6, NumbersCarry
  <1>7. QED
    BY <1>5, <1>6

\* The first commit of a move.
LEMMA MoveCommitSourceKept ==
  ASSUME IInv, TreesKept, Published, MoveCommitSource
  PROVE  TreesKept' /\ Published'
  <1>m. PICK m, d, p : m = pending /\ d = m.src /\ p = m.cut.of
    OBVIOUS
  <1>1. /\ m.stage = "source" /\ doc' = [doc EXCEPT ![d] = Closed(doc[d], p)]
        /\ file' = file /\ minted' = minted /\ strayed' = strayed
        /\ pending' \in {NoMove, [m EXCEPT !.stage = "target"]}
    <2>1. doc' = [doc EXCEPT ![d] = Closed(@, p)]
      BY <1>m DEF MoveCommitSource
    <2>2. QED
      BY <1>m, <2>1 DEF MoveCommitSource
  <1>2. m \in Moves(1 .. minted) /\ d \in Docs
    <2>1. m # NoMove
      BY <1>1 DEF NoMove
    <2>2. QED
      BY <1>m, <2>1, InvParts DEF Moves
  <1>3. pending'.stage # "resolved"
    BY <1>1, <1>2 DEF NoMove, Moves
  <1>4. QED
    BY <1>1, <1>2, <1>3, CloseKept

\* The second.
LEMMA MoveCommitTargetKept ==
  ASSUME IInv, TreesKept, Published, MoveCommitTarget
  PROVE  TreesKept' /\ Published'
  <1>d. PICK d, p : d = pending.dst /\ p = doc[d].up[pending.roots[1]]
    OBVIOUS
  <1>1. /\ pending.stage = "target" /\ doc' = [doc EXCEPT ![d] = Closed(doc[d], p)]
        /\ pending' = NoMove
        /\ file' = file /\ minted' = minted /\ strayed' = strayed
    BY <1>d DEF MoveCommitTarget, Commit
  <1>2. d \in Docs
    <2>1. pending # NoMove
      BY <1>1 DEF NoMove
    <2>2. QED
      BY <1>d, <2>1, InvParts DEF Moves
  <1>3. pending'.stage # "resolved"
    BY <1>1 DEF NoMove
  <1>4. QED
    BY <1>1, <1>2, <1>3, CloseKept

-----------------------------------------------------------------------------
(* The splice of a move: numbers.                                          *)

\* The same root, and the same numbers given to the same nodes.
SameNumbers(T, U) == U.root = T.root /\ U.number = T.number /\ U.next = T.next

\* _detach changes no number.
LEMMA DetachedIds ==
  ASSUME NEW A \in SUBSET Nodes, NEW m \in Moves(A), NEW T, T = doc[m.src], Sound(T, A),
         NEW R, R = Detached(m)
  PROVE  SameNumbers(T, R)
  <1>p. PICK p, c : p = m.cut.of /\ c = Splice(T.kids[p], m.cut.from - 1, m.cut.to, <<>>)
    OBVIOUS
  <1>s. PICK S : S = Shifted(T, p, c)
    OBVIOUS
  <1>1. p \in A /\ p \in Nodes /\ m.cut.from - 1 \in Nat /\ m.cut.to \in Nat /\ m.roots \in Seq(A)
    BY <1>p DEF Moves, Cuts
  <1>2. R = Unregistered(S, m.roots)
    BY <1>p, <1>s DEF Detached, Shifted
  <1>3. c \in Seq(A)
    <2>1. T.kids[p] \in Seq(A) /\ <<>> \in Seq(A)
      BY <1>1 DEF Sound, TreeDocs
    <2>2. QED
      BY <1>1, <1>p, <2>1, SpliceTyped
  <1>4. Sound(S, A)
    BY <1>1, <1>3, <1>s, UnsyncedSound
  <1>5. SameIds(T, S) /\ S.root = T.root
    BY <1>1, <1>3, <1>s, ShiftedShape
  <1>6. SameIds(S, R)
    BY <1>2, <1>4, UnregisteredShape
  <1>7. R.root = S.root
    <2>1. SameTree(S, R)
      BY <1>1, <1>2, <1>4, UnregisteredSound
    <2>2. QED
      BY <2>1 DEF SameTree
  <1>8. QED
    BY <1>5, <1>6, <1>7 DEF SameIds, SameNumbers

\* Neither does _attach.
LEMMA AttachedIds ==
  ASSUME NEW A \in SUBSET Nodes, NEW m \in Moves(A), NEW O, O = doc[m.dst], Sound(O, A),
         Resolves(O, m.at), NEW T, Sound(T, A), NEW R, R = Attached(m, T)
  PROVE  SameNumbers(T, R)
  <1>p. PICK p, i : p = ParentAt(O, m.at) /\ i = Spot(O, m.at)
    OBVIOUS
  <1>c. PICK c : c = Splice(T.kids[p], i, i, m.roots)
    OBVIOUS
  <1>s. PICK S : S = Shifted(T, p, c)
    OBVIOUS
  <1>l. PICK L : L = Adopted(S, p, m.roots)
    OBVIOUS
  <1>w. PICK new : new = Walked(T, m.roots)
    OBVIOUS
  <1>0. T \in TreeDocs(A) /\ O \in TreeDocs(A) /\ m.at \in Ats /\ m.roots \in Seq(A)
    BY DEF Moves, Sound
  <1>1. R = Registered(L, new)
    BY <1>p, <1>c, <1>s, <1>l, <1>w DEF Attached, Shifted
  <1>2. Addresses(O, m.at, p)
    BY <1>0, <1>p, ResolvesAddresses
  <1>3. p \in Nodes /\ i \in Nat
    <2>1. i \in 0 .. Len(O.kids[p])
      BY <1>0, <1>2, <1>p, SpotTyped
    <2>2. QED
      BY <1>2, <2>1 DEF Addresses
  <1>4. c \in Seq(A)
    <2>1. T.kids[p] \in Seq(A)
      BY <1>0, <1>3 DEF TreeDocs
    <2>2. QED
      BY <1>0, <1>3, <1>c, <2>1, SpliceTyped
  <1>5. Sound(S, A) /\ SameIds(T, S) /\ S.root = T.root
    BY <1>3, <1>4, <1>s, UnsyncedSound, ShiftedShape
  <1>6. Sound(L, A) /\ SameTree(S, L)
    BY <1>3, <1>5, <1>l, AdoptedSound
  <1>7. SameIds(S, L)
    BY <1>3, <1>5, <1>l, AdoptedShape
  <1>8. new \in Seq(A)
    BY <1>0, <1>w, UnderTyped DEF TreeDocs
  <1>9. SameTree(L, R)
    BY <1>1, <1>6, <1>8, RegisteredSound
  <1>10. SameIds(L, R)
    BY <1>1, <1>6, <1>8, RegisteredShape
  <1>11. QED
    BY <1>5, <1>6, <1>7, <1>9, <1>10 DEF SameIds, SameTree, SameNumbers

\* What nodes leave behind, and where they go, field by field.
Bereft(T, R, F) ==
  /\ SameNumbers(T, R) /\ R.up = T.up /\ R.known = T.known /\ R.index = T.index
  /\ \A n \in Nodes : R.kids[n] = IF n \in F THEN <<>> ELSE T.kids[n]
  /\ \A n \in Nodes \ F : R.label[n] = T.label[n]

Enriched(T, S, R, F) ==
  /\ SameNumbers(T, R) /\ R.known = T.known /\ R.index = T.index
  /\ \A n \in Nodes : /\ R.kids[n] = IF n \in F THEN S.kids[n] ELSE T.kids[n]
                      /\ R.up[n] = IF n \in F THEN S.up[n] ELSE T.up[n]
  /\ \A n \in Nodes \ F : R.label[n] = T.label[n]

\* What Without changes, and what it leaves.
LEMMA WithoutShape ==
  ASSUME NEW A \in SUBSET Nodes, NEW T, Sound(T, A), NEW F, NEW R, R = Without(T, F)
  PROVE  Bereft(T, R, F)
  <1>k. PICK kids : kids = [n \in Nodes |-> IF n \in F THEN <<>> ELSE T.kids[n]]
    OBVIOUS
  <1>f. PICK field : field = [n \in Nodes |-> IF n \in F THEN <<>> ELSE T.field[n]]
    OBVIOUS
  <1>b. PICK label : label = [n \in Nodes |-> IF n \in F THEN NoNumber ELSE T.label[n]]
    OBVIOUS
  <1>0. T \in TreeDocs(A)
    BY DEF Sound
  <1>1. R = [T EXCEPT !.kids = kids, !.field = field, !.label = label]
    BY <1>0, <1>k, <1>f, <1>b DEF Without, TreeDocs
  <1>2. /\ SameNumbers(T, R) /\ R.up = T.up /\ R.known = T.known /\ R.index = T.index
        /\ R.kids = kids /\ R.label = label
    BY <1>0, <1>1 DEF TreeDocs, SameNumbers
  <1>3. QED
    BY <1>2, <1>k, <1>b DEF Bereft

\* What With changes, and what it leaves.
LEMMA WithShape ==
  ASSUME NEW A \in SUBSET Nodes, NEW T, Sound(T, A), NEW S, NEW F, NEW R, R = With(T, S, F)
  PROVE  Enriched(T, S, R, F)
  <1>k. PICK kids : kids = [n \in Nodes |-> IF n \in F THEN S.kids[n] ELSE T.kids[n]]
    OBVIOUS
  <1>f. PICK field : field = [n \in Nodes |-> IF n \in F THEN S.field[n] ELSE T.field[n]]
    OBVIOUS
  <1>b. PICK label : label = [n \in Nodes |-> IF n \in F THEN S.label[n] ELSE T.label[n]]
    OBVIOUS
  <1>p. PICK up : up = [n \in Nodes |-> IF n \in F THEN S.up[n] ELSE T.up[n]]
    OBVIOUS
  <1>u. PICK unsynced : unsynced = T.unsynced \cup (F \cap S.unsynced)
    OBVIOUS
  <1>0. T \in TreeDocs(A)
    BY DEF Sound
  <1>1. R = [T EXCEPT !.kids = kids, !.field = field, !.label = label, !.up = up,
                      !.unsynced = unsynced]
    BY <1>0, <1>k, <1>f, <1>b, <1>p, <1>u DEF With, TreeDocs
  <1>2. /\ SameNumbers(T, R) /\ R.known = T.known /\ R.index = T.index
        /\ R.kids = kids /\ R.label = label /\ R.up = up
    BY <1>0, <1>1 DEF TreeDocs, SameNumbers
  <1>3. QED
    BY <1>2, <1>k, <1>b, <1>p DEF Enriched

\* core.move changes no number and no root.
LEMMA MovedIds ==
  ASSUME NEW A \in SUBSET Nodes, NEW m \in Moves(A), DOMAIN doc = Docs,
         \A d \in Docs : Sound(doc[d], A), Admitted(m), NEW D, D = MovedDocs(m)
  PROVE  \A d \in Docs : SameNumbers(doc[d], D[d])
  <1>s. PICK S, F : S = Detached(m) /\ F = Fragment(S, m.roots)
    OBVIOUS
  <1>0. m.src \in Docs /\ m.dst \in Docs /\ Resolves(doc[m.dst], m.at)
    BY DEF Moves, Admitted
  <1>1. Sound(S, A) /\ SameNumbers(doc[m.src], S)
    BY <1>0, <1>s, DetachedSound, DetachedIds
  <1>2. ASSUME NEW T, Sound(T, A) PROVE SameNumbers(T, Attached(m, T))
    BY <1>0, <1>2, AttachedIds
  <1>3. \A d \in Docs : SameNumbers(doc[d], doc[d])
    BY DEF SameNumbers
  <1>4. CASE m.src = m.dst
    <2>1. D = [doc EXCEPT ![m.src] = Attached(m, S)]
      BY <1>4, <1>s DEF MovedDocs
    <2>2. SameNumbers(doc[m.src], Attached(m, S))
      BY <1>1, <1>2 DEF SameNumbers
    <2>3. QED
      BY <1>0, <1>3, <2>1, <2>2
  <1>5. CASE m.src # m.dst
    <2>w. PICK W, J : W = Without(S, F) /\ J = With(doc[m.dst], S, F)
      OBVIOUS
    <2>1. D = [doc EXCEPT ![m.src] = W, ![m.dst] = Attached(m, J)]
      BY <1>0, <1>5, <1>s, <2>w DEF MovedDocs
    <2>2. SameNumbers(doc[m.src], W)
      <3>1. SameNumbers(S, W)
        BY <1>1, <2>w, WithoutShape DEF Bereft
      <3>2. QED
        BY <1>1, <3>1 DEF SameNumbers
    <2>3. SameNumbers(doc[m.dst], Attached(m, J))
      <3>0. Sound(doc[m.dst], A)
        BY <1>0
      <3>1. SameNumbers(doc[m.dst], J)
        <4>o. PICK O : O = doc[m.dst]
          OBVIOUS
        <4>1. Sound(O, A) /\ J = With(O, S, F)
          BY <2>w, <3>0, <4>o
        <4>2. SameNumbers(O, J)
          BY <4>1, WithShape DEF Enriched
        <4>3. QED
          BY <4>2, <4>o
      <3>2. Sound(J, A)
        BY <1>1, <2>w, <3>0, WithSound
      <3>3. SameNumbers(J, Attached(m, J))
        BY <1>2, <3>2
      <3>4. QED
        BY <3>1, <3>3 DEF SameNumbers
    <2>4. QED
      BY <1>0, <1>3, <1>5, <2>1, <2>2, <2>3
  <1>6. QED
    BY <1>4, <1>5

-----------------------------------------------------------------------------
(* The splice of a move: trees.                                            *)

\* Python's slices clamp: a place beyond the end is the end.
LEMMA SpliceClamps ==
  ASSUME NEW S, NEW s \in Seq(S), NEW i \in Nat, NEW new \in Seq(S)
  PROVE  \E k \in 0 .. Len(s) : Splice(s, i, i, new) = Splice(s, k, k, new)
  <1>n. PICK n : n = Len(s)
    OBVIOUS
  <1>0. n \in Nat
    BY <1>n
  <1>1. CASE i <= n
    BY <1>0, <1>1, <1>n
  <1>2. CASE i > n
    <2>1. Min({i, n}) = n /\ Min({n, n}) = n
      BY <1>0, <1>2, MinTyped
    <2>2. SubSeq(s, i + 1, n) = <<>> /\ SubSeq(s, n + 1, n) = <<>>
      BY <1>0, <1>2, <1>n
    <2>3. Splice(s, i, i, new) = Splice(s, n, n, new)
      BY <1>n, <2>1, <2>2 DEF Splice
    <2>4. QED
      BY <1>0, <1>n, <2>3
  <1>3. QED
    BY <1>0, <1>1, <1>2

\* The nodes ns hang together, and on nothing that is live in V.
Loose(V, ns) ==
  /\ ns \subseteq Nodes /\ ns \subseteq Below(V.kids, ns)
  /\ Below(V.kids, ns) \cap Under(V) = {}
  /\ \A x \in Below(V.kids, ns) :
       IsInjective(V.kids[x]) /\ \A k \in ToSet(V.kids[x]) : k \notin ns /\ V.up[k] = x

\* R is the tree V with the nodes ns hung on q.
Joined(V, R, q, ns) ==
  /\ Kempt(R) /\ R.root = V.root
  /\ Under(R) = Under(V) \cup Below(V.kids, ns)
  /\ \A n \in Nodes \ {q} : R.kids[n] = V.kids[n]

\* Registering loose nodes below a live one gives a tree.
LEMMA AttachKept ==
  ASSUME NEW A \in SUBSET Nodes, NEW V, Sound(V, A), Kempt(V), NEW q \in Under(V),
         NEW i \in Nat, NEW out \in Seq(A), IsInjective(out), Loose(V, ToSet(out)),
         NEW R, R = Registered(Adopted(Shifted(V, q, Splice(V.kids[q], i, i, out)), q, out),
                               Walked(V, out))
  PROVE  Joined(V, R, q, ToSet(out))
  <1>n. PICK ns, s, c, new : /\ ns = ToSet(out) /\ s = V.kids[q]
                             /\ c = Splice(s, i, i, out) /\ new = Walked(V, out)
    OBVIOUS
  <1>s. PICK S : S = Shifted(V, q, c)
    OBVIOUS
  <1>l. PICK L : L = Adopted(S, q, out)
    OBVIOUS
  <1>r. R = Registered(L, new)
    BY <1>n, <1>s, <1>l
  <1>0. /\ V.kids \in [Nodes -> Seq(Nodes)] /\ V.root \in Nodes
        /\ Under(V) = Reach(V.kids, V.root) /\ Under(V) \subseteq Nodes
        /\ out \in Seq(Nodes)
    BY SoundKids, SeqOver
  <1>1. q \in Nodes /\ s \in Seq(A) /\ IsInjective(s) /\ ToSet(s) \subseteq Under(V)
    <2>1. IsInjective(s)
      BY <1>0, <1>n DEF Kempt, Hangs
    <2>2. q \in Nodes /\ ToSet(s) \subseteq Under(V)
      BY <1>n, LiveKids
    <2>3. s \in Seq(A)
      BY <1>n, <2>2, SoundKids
    <2>4. QED
      BY <2>1, <2>2, <2>3
  <1>2. /\ ns \subseteq Nodes /\ ns \subseteq Below(V.kids, ns)
        /\ Below(V.kids, ns) \cap Under(V) = {}
        /\ \A x \in Below(V.kids, ns) :
             IsInjective(V.kids[x]) /\ \A k \in ToSet(V.kids[x]) : k \notin ns /\ V.up[k] = x
    BY <1>n DEF Loose
  <1>3. c \in Seq(A) /\ IsInjective(c) /\ ToSet(c) = ToSet(s) \cup ns
    <2>0. s \in Seq(A) /\ i \in Nat /\ out \in Seq(A)
      BY <1>1
    <2>c. \E k \in 0 .. Len(s) : Splice(s, i, i, out) = Splice(s, k, k, out)
      BY <2>0, SpliceClamps
    <2>1. PICK k \in 0 .. Len(s) : c = Splice(s, k, k, out)
      BY <1>n, <2>c
    <2>2. ToSet(out) \cap ToSet(s) = {} /\ k \in k .. Len(s)
      BY <1>1, <1>2, <1>n
    <2>3. Exchanges(A, s, k, k, out)
      BY <1>1, <2>2 DEF Exchanges
    <2>4. /\ c \in Seq(A) /\ IsInjective(c)
          /\ ToSet(c) = (ToSet(s) \ ToSet(SubSeq(s, k + 1, k))) \cup ToSet(out)
          /\ ToSet(SubSeq(s, k + 1, k)) = {}
      BY <2>1, <2>3, SpliceHolds
    <2>5. QED
      BY <1>n, <2>4
  <1>4. Sound(S, A)
    BY <1>1, <1>3, <1>s, UnsyncedSound
  <1>5. /\ SameIds(V, S) /\ S.known = V.known /\ S.index = V.index /\ S.up = V.up
        /\ S.root = V.root /\ Rechilded(V, S, q, c)
    BY <1>1, <1>3, <1>s, ShiftedShape
  <1>6. Sound(L, A) /\ SameTree(S, L)
    BY <1>1, <1>4, <1>l, AdoptedSound
  <1>7. SameIds(S, L) /\ L.known = S.known /\ L.index = S.index /\ Rehung(S, L, ns, q)
    BY <1>1, <1>4, <1>l, <1>n, AdoptedShape
  <1>8. new \in Seq(A)
    <2>1. V.root \in A /\ V.kids \in [Nodes -> Seq(A)]
      BY DEF Sound, TreeDocs
    <2>2. QED
      BY <1>n, <2>1, UnderTyped
  <1>9. Sound(R, A) /\ SameTree(L, R) /\ R.up = L.up
    BY <1>r, <1>6, <1>8, RegisteredSound
  <1>10. SameIds(L, R) /\ R.known = L.known \cup ToSet(new) /\ Entered(L, R, ToSet(new))
    BY <1>r, <1>6, <1>8, RegisteredShape
  <1>11. ToSet(new) = Below(V.kids, ns)
    <2>1. Fragment(V, out) = Below(V.kids, ToSet(out))
      BY <1>0, FragmentBelow
    <2>2. QED
      BY <1>n, <2>1 DEF Fragment
  <1>12. /\ R.root = V.root /\ R.kids[q] = c /\ R.label = V.label
         /\ \A n \in Nodes \ {q} : R.kids[n] = V.kids[n]
    BY <1>5, <1>6, <1>7, <1>9, <1>10 DEF SameTree, Rechilded, SameIds
  <1>13. \A n \in Nodes : R.up[n] = IF n \in ns THEN q ELSE V.up[n]
    BY <1>5, <1>7, <1>9 DEF Rehung
  <1>14. R.kids \in [Nodes -> Seq(Nodes)] /\ Under(R) = Reach(R.kids, R.root)
    BY <1>9, SoundKids
  <1>15. Grafts(V.kids, R.kids, V.root, V.up, R.up, q, ns)
    <2>1. Hangs(V.kids, V.root, V.up) /\ q \in Reach(V.kids, V.root)
          /\ Below(V.kids, ns) \cap Reach(V.kids, V.root) = {}
      BY <1>0, <1>2 DEF Kempt
    <2>2. IsInjective(R.kids[q]) /\ ToSet(R.kids[q]) = ToSet(V.kids[q]) \cup ns
      BY <1>3, <1>12, <1>n
    <2>3. /\ \A n \in Nodes \cap ns : R.up[n] = q
          /\ \A n \in Nodes \ ns : R.up[n] = V.up[n]
      BY <1>13
    <2>4. QED
      BY <1>0, <1>2, <1>12, <1>14, <2>1, <2>2, <2>3 DEF Grafts
  <1>16. /\ Hangs(R.kids, V.root, R.up)
         /\ Reach(R.kids, V.root) = Reach(V.kids, V.root) \cup Below(V.kids, ns)
    BY <1>15, Graft
  <1>17. Under(R) = Under(V) \cup Below(V.kids, ns)
    BY <1>0, <1>12, <1>14, <1>16
  <1>18. R.known = Under(R)
    BY <1>5, <1>7, <1>10, <1>11, <1>17 DEF Kempt
  <1>19. ASSUME NEW e \in R.index PROVE e[2] \in Under(R) /\ e[1] = R.label[e[2]]
    <2>1. CASE e \in L.index
      <3>1. e \in V.index
        BY <1>5, <1>7, <2>1
      <3>2. e[2] \in Under(V) /\ e[1] = V.label[e[2]]
        BY <3>1 DEF Kempt
      <3>3. QED
        BY <1>12, <1>17, <3>2
    <2>2. CASE e[2] \in ToSet(new) /\ e[1] = L.label[e[2]]
      <3>1. L.label = R.label
        BY <1>10 DEF SameIds
      <3>2. QED
        BY <1>11, <1>17, <2>2, <3>1
    <2>3. QED
      BY <1>10, <2>1, <2>2 DEF Entered
  <1>20. Kempt(R)
    BY <1>12, <1>16, <1>18, <1>19 DEF Kempt
  <1>21. QED
    BY <1>12, <1>17, <1>20, <1>n DEF Joined

\* The parent a move cuts at is live when its range still stands.
LEMMA CutBelow ==
  ASSUME NEW A \in SUBSET Nodes, NEW m \in Moves(A), NEW T, T = doc[m.src], Sound(T, A),
         Kempt(T), StillThere(m), Aimed(m, T)
  PROVE  m.cut.of \in Under(T) /\ Cutting(T, m.cut, A)
  <1>p. PICK p, r, x : p = m.cut.of /\ r = m.cut /\ x = m.roots[1]
    OBVIOUS
  <1>1. r \in Cuts(A) /\ p \in Nodes /\ m.roots \in Seq(A) /\ m.roots # <<>>
    BY <1>p DEF Moves, Cuts
  <1>2. r.to <= Len(T.kids[p]) /\ Run(T, r) = m.roots /\ ToSet(m.roots) \subseteq T.known
    BY <1>p DEF StillThere
  <1>3. Cutting(T, r, A)
    BY <1>1, <1>2, <1>p DEF Cutting
  <1>4. x \in ToSet(m.roots)
    BY <1>1, <1>p DEF ToSet
  <1>5. x \in Under(T) /\ T.up[x] = p
    BY <1>2, <1>4, <1>p DEF Kempt, Aimed
  <1>6. /\ T.kids \in [Nodes -> Seq(Nodes)] /\ T.root \in Nodes
        /\ Under(T) = Reach(T.kids, T.root) /\ Hangs(T.kids, T.root, T.up)
    BY SoundKids DEF Kempt
  <1>7. x # T.root
    BY <1>1, <1>5, <1>6, NodesAre DEF Hangs
  <1>8. PICK q \in Reach(T.kids, T.root) : x \in ToSet(T.kids[q])
    <2>1. x \in Reach(T.kids, T.root)
      BY <1>5, <1>6
    <2>2. QED
      BY <1>6, <1>7, <2>1, ReachedFrom
  <1>9. q = p
    BY <1>5, <1>6, <1>8 DEF Hangs
  <1>10. QED
    BY <1>3, <1>6, <1>8, <1>9, <1>p

\* _detach takes the nodes of a move out with all that hangs on them.
LEMMA DetachKept ==
  ASSUME NEW A \in SUBSET Nodes, NEW m \in Moves(A), NEW T, T = doc[m.src], Sound(T, A),
         Kempt(T), StillThere(m), Aimed(m, T), NEW R, R = Detached(m)
  PROVE  /\ Pruned(T, R, m.cut.of, ToSet(m.roots)) /\ Severed(T, R, ToSet(m.roots))
         /\ Sound(R, A) /\ R.root = T.root /\ m.cut.of \in Nodes \cap A
         /\ \A n \in Nodes \ {m.cut.of} : R.kids[n] = T.kids[n]
  <1>p. PICK p, r, s, i, j, out, e0 : /\ p = m.cut.of /\ r = m.cut /\ s = T.kids[p]
                                      /\ i = r.from - 1 /\ j = r.to
                                      /\ out = m.roots /\ e0 = <<>>
    OBVIOUS
  <1>c. PICK c : c = Splice(s, i, j, e0)
    OBVIOUS
  <1>s. PICK S : S = Shifted(T, p, c)
    OBVIOUS
  <1>0. e0 \in Seq(A) /\ IsInjective(e0) /\ ToSet(e0) = {}
    BY <1>p DEF IsInjective, ToSet
  <1>1. p \in Under(T) /\ Cutting(T, r, A) /\ p = r.of /\ p \in A /\ Run(T, r) = out
    <2>1. p \in Under(T) /\ Cutting(T, r, A)
      BY <1>p, CutBelow
    <2>2. QED
      BY <1>p, <2>1 DEF Moves, Cuts, StillThere
  <1>2. /\ Exchanges(A, s, i, j, e0) /\ out = SubSeq(s, i + 1, j)
        /\ p \in Nodes /\ out \in Seq(A)
    BY <1>0, <1>1, <1>p, RunHolds
  <1>3. /\ c \in Seq(A) /\ IsInjective(c) /\ ToSet(c) = ToSet(s) \ ToSet(out)
        /\ ToSet(out) \subseteq ToSet(s)
    <2>1. /\ c \in Seq(A) /\ IsInjective(c) /\ ToSet(c) = (ToSet(s) \ ToSet(out)) \cup ToSet(e0)
          /\ ToSet(out) \subseteq ToSet(s)
      BY <1>2, <1>c, SpliceHolds
    <2>2. QED
      BY <1>0, <2>1
  <1>4. R = Unregistered(S, out)
    BY <1>p, <1>c, <1>s DEF Detached, Shifted
  <1>5. Sound(S, A)
    BY <1>2, <1>3, <1>s, UnsyncedSound
  <1>6. /\ SameIds(T, S) /\ S.known = T.known /\ S.index = T.index /\ S.up = T.up
        /\ S.root = T.root /\ Rechilded(T, S, p, c)
    BY <1>2, <1>3, <1>s, ShiftedShape
  <1>7. S.kids[p] = c /\ \A q \in Nodes \ {p} : S.kids[q] = T.kids[q]
    BY <1>6 DEF Rechilded
  <1>8. Uproots(T, S, p, out, A)
    BY <1>1, <1>2, <1>3, <1>5, <1>6, <1>7, <1>p DEF Uproots
  <1>9. /\ Pruned(T, R, p, ToSet(out)) /\ Severed(T, R, ToSet(out))
        /\ Sound(R, A) /\ R.kids = S.kids /\ R.root = T.root
    BY <1>4, <1>8, UprootKept
  <1>10. p \in Nodes \cap A /\ \A n \in Nodes \ {p} : R.kids[n] = T.kids[n]
    BY <1>1, <1>2, <1>7, <1>9
  <1>11. QED
    BY <1>9, <1>10, <1>p

\* What stays behind is a tree when nothing live leaves.
LEMMA WithoutKept ==
  ASSUME NEW A \in SUBSET Nodes, NEW T, Sound(T, A), Kempt(T), NEW F,
         F \cap Under(T) = {}, NEW R, R = Without(T, F)
  PROVE  Kempt(R) /\ Under(R) = Under(T) /\ Bereft(T, R, F)
  <1>b. Bereft(T, R, F)
    BY WithoutShape
  <1>1. /\ R.root = T.root /\ R.up = T.up /\ R.known = T.known /\ R.index = T.index
        /\ \A n \in Nodes : R.kids[n] = IF n \in F THEN <<>> ELSE T.kids[n]
        /\ \A n \in Nodes \ F : R.label[n] = T.label[n]
    BY <1>b DEF Bereft, SameNumbers
  <1>2. Sound(R, A)
    BY WithoutSound
  <1>3. /\ T.kids \in [Nodes -> Seq(Nodes)] /\ T.root \in Nodes /\ Under(T) \subseteq Nodes
        /\ Under(T) = Reach(T.kids, T.root) /\ Hangs(T.kids, T.root, T.up)
    BY SoundKids DEF Kempt
  <1>4. R.kids \in [Nodes -> Seq(Nodes)] /\ Under(R) = Reach(R.kids, R.root)
    BY <1>2, SoundKids
  <1>5. \A q \in Reach(T.kids, T.root) : R.kids[q] = T.kids[q]
    BY <1>1, <1>3
  <1>6. Reach(R.kids, T.root) = Reach(T.kids, T.root)
    BY <1>3, <1>4, <1>5, SameReach
  <1>7. Hangs(R.kids, R.root, R.up)
    BY <1>1, <1>3, <1>5, <1>6 DEF Hangs
  <1>8. Under(R) = Under(T)
    BY <1>1, <1>3, <1>4, <1>6
  <1>9. \A e \in R.index : e[2] \in Under(R) /\ e[1] = R.label[e[2]]
    BY <1>1, <1>3, <1>8 DEF Kempt
  <1>10. Kempt(R)
    BY <1>1, <1>7, <1>8, <1>9 DEF Kempt
  <1>11. QED
    BY <1>b, <1>8, <1>10

\* So is what they join, before they hang anywhere in it.
LEMMA WithKept ==
  ASSUME NEW A \in SUBSET Nodes, NEW T, Sound(T, A), Kempt(T), NEW S, Sound(S, A),
         NEW F, F \cap Under(T) = {}, NEW R, R = With(T, S, F)
  PROVE  Kempt(R) /\ Under(R) = Under(T) /\ Enriched(T, S, R, F)
  <1>e. Enriched(T, S, R, F)
    BY WithShape
  <1>1. /\ R.root = T.root /\ R.known = T.known /\ R.index = T.index
        /\ \A n \in Nodes : /\ R.kids[n] = IF n \in F THEN S.kids[n] ELSE T.kids[n]
                            /\ R.up[n] = IF n \in F THEN S.up[n] ELSE T.up[n]
        /\ \A n \in Nodes \ F : R.label[n] = T.label[n]
    BY <1>e DEF Enriched, SameNumbers
  <1>2. Sound(R, A)
    BY WithSound
  <1>3. /\ T.kids \in [Nodes -> Seq(Nodes)] /\ T.root \in Nodes /\ Under(T) \subseteq Nodes
        /\ Under(T) = Reach(T.kids, T.root) /\ Hangs(T.kids, T.root, T.up)
    BY SoundKids DEF Kempt
  <1>4. R.kids \in [Nodes -> Seq(Nodes)] /\ Under(R) = Reach(R.kids, R.root)
    BY <1>2, SoundKids
  <1>5. \A q \in Reach(T.kids, T.root) : R.kids[q] = T.kids[q] /\ R.up[q] = T.up[q]
    BY <1>1, <1>3
  <1>6. Reach(R.kids, T.root) = Reach(T.kids, T.root)
    BY <1>3, <1>4, <1>5, SameReach
  <1>7. Hangs(R.kids, R.root, R.up)
    <2>1. Entire(T.kids, Reach(T.kids, T.root)) /\ T.root \in Reach(T.kids, T.root)
      BY <1>3, ReachClosed
    <2>2. QED
      <3>1. R.up[R.root] = NoNode
        BY <1>1, <1>3, <1>5, <2>1 DEF Hangs
      <3>2. ASSUME NEW q \in Reach(R.kids, R.root)
            PROVE  IsInjective(R.kids[q]) /\ \A k \in ToSet(R.kids[q]) : R.up[k] = q
        <4>1. q \in Reach(T.kids, T.root) /\ R.kids[q] = T.kids[q]
          BY <1>1, <1>5, <1>6, <3>2
        <4>2. ToSet(T.kids[q]) \subseteq Reach(T.kids, T.root)
          BY <2>1, <4>1 DEF Entire
        <4>3. IsInjective(T.kids[q]) /\ \A k \in ToSet(T.kids[q]) : T.up[k] = q
          BY <1>3, <4>1 DEF Hangs
        <4>4. \A k \in ToSet(T.kids[q]) : R.up[k] = q
          BY <1>5, <4>2, <4>3
        <4>5. QED
          BY <4>1, <4>3, <4>4
      <3>3. QED
        BY <3>1, <3>2 DEF Hangs
  <1>8. Under(R) = Under(T)
    BY <1>1, <1>3, <1>4, <1>6
  <1>9. \A e \in R.index : e[2] \in Under(R) /\ e[1] = R.label[e[2]]
    BY <1>1, <1>3, <1>8 DEF Kempt
  <1>10. Kempt(R)
    BY <1>1, <1>7, <1>8, <1>9 DEF Kempt
  <1>11. QED
    BY <1>e, <1>8, <1>10

\* _attach hangs loose nodes on the parent the address names.
LEMMA LandKept ==
  ASSUME NEW A \in SUBSET Nodes, NEW m \in Moves(A), NEW O, O = doc[m.dst], Sound(O, A),
         Resolves(O, m.at), NEW q, q = ParentAt(O, m.at),
         NEW V, Sound(V, A), Kempt(V), q \in Under(V), IsInjective(m.roots),
         Loose(V, ToSet(m.roots)), NEW R, R = Attached(m, V)
  PROVE  Joined(V, R, q, ToSet(m.roots))
  <1>p. PICK i, out : i = Spot(O, m.at) /\ out = m.roots
    OBVIOUS
  <1>0. O \in TreeDocs(A) /\ m.at \in Ats /\ out \in Seq(A)
    BY <1>p DEF Moves, Sound
  <1>1. Addresses(O, m.at, q)
    BY <1>0, ResolvesAddresses
  <1>2. i \in Nat
    <2>1. i \in 0 .. Len(O.kids[q])
      BY <1>0, <1>1, <1>p, SpotTyped
    <2>2. QED
      BY <2>1
  <1>3. R = Registered(Adopted(Shifted(V, q, Splice(V.kids[q], i, i, out)), q, out),
                       Walked(V, out))
    BY <1>p DEF Attached, Shifted
  <1>4. Sound(V, A) /\ Kempt(V) /\ q \in Under(V) /\ IsInjective(out) /\ Loose(V, ToSet(out))
    BY <1>p
  <1>5. Joined(V, R, q, ToSet(out))
    BY <1>0, <1>2, <1>3, <1>4, AttachKept
  <1>6. QED
    BY <1>5, <1>p

\* The documents D have the nodes F where the move m wants them.
Carries(m, D, F, A) ==
  /\ Kempt(D[m.src]) /\ Kempt(D[m.dst]) /\ F \subseteq Under(doc[m.src])
  /\ m.src = m.dst => Under(D[m.src]) = Under(doc[m.src])
  /\ m.src # m.dst => /\ Under(D[m.src]) = Under(doc[m.src]) \ F
                      /\ Under(D[m.dst]) = Under(doc[m.dst]) \cup F
  /\ \A d \in {m.src, m.dst} : Barren(doc[d].kids, A) => Barren(D[d].kids, A)

\* What a move cuts out, once it is out.
LEMMA CutLoose ==
  ASSUME NEW A \in SUBSET Nodes, NEW T, Sound(T, A), NEW S, Sound(S, A), NEW p,
         NEW out \in Seq(A), Pruned(T, S, p, ToSet(out)), Severed(T, S, ToSet(out)),
         NEW F, F = Below(T.kids, ToSet(out))
  PROVE  /\ Loose(S, ToSet(out)) /\ Below(S.kids, ToSet(out)) = F
         /\ Fragment(T, out) = F /\ Fragment(S, out) = F
         /\ F \subseteq Under(T) /\ Under(S) = Under(T) \ F
  <1>n. PICK ns : ns = ToSet(out)
    OBVIOUS
  <1>0. T.kids \in [Nodes -> Seq(Nodes)] /\ S.kids \in [Nodes -> Seq(Nodes)] /\ out \in Seq(Nodes)
    BY SoundKids, SeqOver
  <1>1. /\ ns \subseteq Nodes /\ ns \subseteq F /\ Below(S.kids, ns) = F /\ F \subseteq Under(T)
        /\ \A q \in F :
             IsInjective(S.kids[q]) /\ \A k \in ToSet(S.kids[q]) : k \notin ns /\ S.up[k] = q
    BY <1>n DEF Severed
  <1>2. Under(S) = Under(T) \ F
    BY DEF Pruned
  <1>3. Fragment(T, out) = Below(T.kids, ns) /\ Fragment(S, out) = Below(S.kids, ns)
    BY <1>0, <1>n, FragmentBelow
  <1>4. Loose(S, ns)
    BY <1>1, <1>2 DEF Loose
  <1>5. QED
    BY <1>1, <1>2, <1>3, <1>4, <1>n

\* Loose nodes stay loose in the document they are brought to.
LEMMA LooseWith ==
  ASSUME NEW A \in SUBSET Nodes, NEW O, Sound(O, A), Kempt(O), NEW S, Sound(S, A),
         NEW ns, Loose(S, ns), NEW F, F = Below(S.kids, ns), F \cap Under(O) = {},
         NEW J, J = With(O, S, F)
  PROVE  Loose(J, ns) /\ Below(J.kids, ns) = F
  <1>0. S.kids \in [Nodes -> Seq(Nodes)]
    BY SoundKids
  <1>1. Sound(J, A)
    BY WithSound
  <1>2. J.kids \in [Nodes -> Seq(Nodes)]
    BY <1>1, SoundKids
  <1>3. /\ Under(J) = Under(O)
        /\ \A n \in Nodes : /\ J.kids[n] = IF n \in F THEN S.kids[n] ELSE O.kids[n]
                            /\ J.up[n] = IF n \in F THEN S.up[n] ELSE O.up[n]
    <2>1. Under(J) = Under(O) /\ Enriched(O, S, J, F)
      BY WithKept
    <2>2. QED
      BY <2>1 DEF Enriched
  <1>4. /\ ns \subseteq Nodes /\ ns \subseteq F
        /\ \A x \in F :
             IsInjective(S.kids[x]) /\ \A k \in ToSet(S.kids[x]) : k \notin ns /\ S.up[k] = x
    BY DEF Loose
  <1>5. ASSUME NEW k \in ns
        PROVE  /\ Reach(S.kids, k) \subseteq F /\ Reach(S.kids, k) \subseteq Nodes
               /\ Reach(J.kids, k) = Reach(S.kids, k) /\ Entire(S.kids, Reach(S.kids, k))
    <2>1. k \in Nodes
      BY <1>4
    <2>2. Reach(S.kids, k) \subseteq Nodes /\ Entire(S.kids, Reach(S.kids, k))
      BY <1>0, <2>1, ReachClosed
    <2>3. Reach(S.kids, k) \subseteq F
      BY DEF Below
    <2>4. \A q \in Reach(S.kids, k) : J.kids[q] = S.kids[q]
      BY <1>3, <2>2, <2>3
    <2>5. Reach(J.kids, k) = Reach(S.kids, k)
      BY <1>0, <1>2, <2>1, <2>4, SameReach
    <2>6. QED
      BY <2>2, <2>3, <2>5
  <1>6. Below(J.kids, ns) = F
    BY <1>5 DEF Below
  <1>7. ASSUME NEW x \in F
        PROVE  IsInjective(J.kids[x]) /\ \A k \in ToSet(J.kids[x]) : k \notin ns /\ J.up[k] = x
    <2>1. PICK k \in ns : x \in Reach(S.kids, k)
      BY DEF Below
    <2>2. x \in Nodes /\ ToSet(S.kids[x]) \subseteq F /\ ToSet(S.kids[x]) \subseteq Nodes
      BY <1>5, <2>1 DEF Entire
    <2>3. J.kids[x] = S.kids[x]
      BY <1>3, <2>2
    <2>4. \A y \in ToSet(S.kids[x]) : J.up[y] = S.up[y]
      BY <1>3, <2>2
    <2>5. QED
      BY <1>4, <2>3, <2>4
  <1>8. QED
    BY <1>3, <1>4, <1>6, <1>7 DEF Loose

\* core.move, when its range still stands: the nodes hang where it wants them,
\* and the documents are trees.
LEMMA MovedKept ==
  ASSUME NEW A \in SUBSET Nodes, NEW m \in Moves(A), DOMAIN doc = Docs,
         \A d \in Docs : Sound(doc[d], A) /\ Kempt(doc[d]),
         Admitted(m), StillThere(m), Aimed(m, doc[m.src]),
         NEW D, D = MovedDocs(m), NEW F, F = Fragment(doc[m.src], m.roots)
  PROVE  Carries(m, D, F, A)
  <1>n. PICK T, O, out, ns, p, q : /\ T = doc[m.src] /\ O = doc[m.dst] /\ out = m.roots
                                   /\ ns = ToSet(out) /\ p = m.cut.of /\ q = ParentAt(O, m.at)
    OBVIOUS
  <1>s. PICK S : S = Detached(m)
    OBVIOUS
  <1>0. /\ m.src \in Docs /\ m.dst \in Docs /\ out \in Seq(A) /\ IsInjective(out)
        /\ Sound(T, A) /\ Kempt(T) /\ Sound(O, A) /\ Kempt(O) /\ m.at \in Ats
    BY <1>n DEF Moves, Aimed
  <1>1. /\ Pruned(T, S, p, ns) /\ Severed(T, S, ns) /\ Sound(S, A) /\ p \in Nodes \cap A
        /\ \A n \in Nodes \ {p} : S.kids[n] = T.kids[n]
    <2>1. T = doc[m.src] /\ Sound(T, A) /\ Kempt(T) /\ StillThere(m) /\ Aimed(m, T) /\ S = Detached(m)
      BY <1>0, <1>n, <1>s
    <2>2. /\ Pruned(T, S, m.cut.of, ToSet(m.roots)) /\ Severed(T, S, ToSet(m.roots))
          /\ Sound(S, A) /\ S.root = T.root /\ m.cut.of \in Nodes \cap A
          /\ \A n \in Nodes \ {m.cut.of} : S.kids[n] = T.kids[n]
      BY <2>1, DetachKept
    <2>3. QED
      BY <1>n, <2>2
  <1>2. Kempt(S)
    BY <1>1 DEF Pruned
  <1>3. /\ Loose(S, ns) /\ Below(S.kids, ns) = F /\ Fragment(S, out) = F
        /\ F \subseteq Under(T) /\ Under(S) = Under(T) \ F
    <2>b. PICK B : B = Below(T.kids, ns)
      OBVIOUS
    <2>1. /\ Loose(S, ns) /\ Below(S.kids, ns) = B
          /\ Fragment(T, out) = B /\ Fragment(S, out) = B
          /\ B \subseteq Under(T) /\ Under(S) = Under(T) \ B
      BY <1>0, <1>1, <1>n, <2>b, CutLoose
    <2>2. QED
      BY <1>n, <2>1
  <1>4. /\ Resolves(O, m.at) /\ q \notin F /\ q \in Under(O)
        /\ m.src # m.dst => F \cap Under(O) = {}
    <2>1. /\ Resolves(O, m.at) /\ q \notin F
          /\ m.src # m.dst => F \cap O.known = {}
      BY <1>n DEF Admitted
    <2>2. q \in Under(O)
      BY <1>0, <1>n, <2>1, ResolvesBelow
    <2>3. QED
      BY <1>0, <2>1, <2>2 DEF Kempt
  <1>5. F \subseteq A /\ q \in Nodes \cap A
    BY <1>0, <1>3, <1>4, SoundKids
  <1>6. ASSUME NEW V, Sound(V, A), Kempt(V), q \in Under(V), Loose(V, ns)
        PROVE  Joined(V, Attached(m, V), q, ns)
    <2>r. PICK R : R = Attached(m, V)
      OBVIOUS
    <2>1. /\ O = doc[m.dst] /\ Sound(O, A) /\ Resolves(O, m.at) /\ q = ParentAt(O, m.at)
          /\ Sound(V, A) /\ Kempt(V) /\ q \in Under(V) /\ IsInjective(m.roots)
          /\ Loose(V, ToSet(m.roots))
      BY <1>0, <1>4, <1>6, <1>n
    <2>2. Joined(V, R, q, ToSet(m.roots))
      BY <2>1, <2>r, LandKept
    <2>3. QED
      BY <1>n, <2>2, <2>r
  <1>7. Barren(T.kids, A) => Barren(S.kids, A)
    BY <1>1 DEF Barren
  <1>8. CASE m.src = m.dst
    <2>r. PICK R : R = Attached(m, S)
      OBVIOUS
    <2>1. D[m.src] = R /\ D[m.dst] = R /\ O = T
      BY <1>0, <1>8, <1>n, <1>s, <2>r DEF MovedDocs
    <2>2. Joined(S, R, q, ns)
      <3>1. q \in Under(S)
        BY <1>3, <1>4, <2>1
      <3>2. QED
        BY <1>1, <1>2, <1>3, <1>6, <2>r, <3>1
    <2>3. Kempt(R) /\ Under(R) = Under(T)
      BY <1>3, <2>2 DEF Joined
    <2>4. Barren(T.kids, A) => Barren(R.kids, A)
      BY <1>5, <1>7, <2>2 DEF Barren, Joined
    <2>5. QED
      BY <1>3, <1>8, <1>n, <2>1, <2>3, <2>4 DEF Carries
  <1>9. CASE m.src # m.dst
    <2>w. PICK W, J : W = Without(S, F) /\ J = With(O, S, F)
      OBVIOUS
    <2>r. PICK R : R = Attached(m, J)
      OBVIOUS
    <2>1. D[m.src] = W /\ D[m.dst] = R
      BY <1>0, <1>3, <1>9, <1>n, <1>s, <2>w, <2>r DEF MovedDocs
    <2>2. Kempt(W) /\ Under(W) = Under(S) /\ Bereft(S, W, F)
      <3>1. F \cap Under(S) = {}
        BY <1>3
      <3>2. QED
        BY <1>1, <1>2, <2>w, <3>1, WithoutKept
    <2>3. Sound(J, A)
      BY <1>0, <1>1, <2>w, WithSound
    <2>4. Kempt(J) /\ Under(J) = Under(O) /\ Enriched(O, S, J, F)
      <3>1. F \cap Under(O) = {}
        BY <1>4, <1>9
      <3>2. QED
        BY <1>0, <1>1, <2>w, <3>1, WithKept
    <2>5. Loose(J, ns) /\ Below(J.kids, ns) = F
      <3>1. F \cap Under(O) = {} /\ F = Below(S.kids, ns) /\ Loose(S, ns)
        BY <1>3, <1>4, <1>9
      <3>2. QED
        BY <1>0, <1>1, <2>w, <3>1, LooseWith
    <2>6. Joined(J, R, q, ns)
      <3>1. q \in Under(J)
        BY <1>4, <2>4
      <3>2. QED
        BY <1>6, <2>3, <2>4, <2>5, <2>r, <3>1
    <2>7. Kempt(R) /\ Under(R) = Under(O) \cup F
      BY <2>4, <2>5, <2>6 DEF Joined
    <2>8. Barren(T.kids, A) => Barren(W.kids, A)
      BY <1>7, <2>2 DEF Barren, Bereft
    <2>9. Barren(O.kids, A) => Barren(R.kids, A)
      BY <1>5, <2>4, <2>6 DEF Barren, Enriched, Joined
    <2>10. QED
      BY <1>3, <1>9, <1>n, <2>1, <2>2, <2>7, <2>8, <2>9 DEF Carries
  <1>10. QED
    BY <1>8, <1>9

\* What a splice whose range still stands does to the documents.
LEMMA SpliceCarries ==
  ASSUME IInv, TreesKept, MoveSplice, ~strayed'
  PROVE  /\ pending \in Moves(1 .. minted) /\ DOMAIN doc' = Docs
         /\ Carries(pending, doc', Fragment(doc[pending.src], pending.roots), 1 .. minted)
         /\ \A d \in Docs \ {pending.src, pending.dst} : doc'[d] = doc[d]
  <1>n. PICK m, A, D, F : /\ m = pending /\ A = 1 .. minted /\ D = MovedDocs(m)
                          /\ F = Fragment(doc[m.src], m.roots)
    OBVIOUS
  <1>1. /\ m.stage = "resolved" /\ Admitted(m) /\ doc' = D /\ strayed' = ~StillThere(m)
    BY <1>n DEF MoveSplice
  <1>2. StillThere(m)
    BY <1>1
  <1>3. ~strayed /\ Aimed(m, doc[m.src])
    BY <1>1, <1>n DEF TreesKept, Steady
  <1>4. m \in Moves(A) /\ A \in SUBSET Nodes /\ DOMAIN doc = Docs
    <2>1. m # NoMove
      BY <1>1 DEF NoMove
    <2>2. QED
      BY <1>n, <2>1, InvParts
  <1>5. \A d \in Docs : Sound(doc[d], A) /\ Mirrors(doc[d]) /\ Kempt(doc[d])
    <2>1. \A d \in Docs : Sound(doc[d], A) /\ Mirrors(doc[d])
      BY <1>n, InvParts
    <2>2. \A d \in Docs : Kempt(doc[d])
      BY <1>3 DEF TreesKept, Standing
    <2>3. QED
      BY <2>1, <2>2
  <1>6. Carries(m, D, F, A)
    BY <1>1, <1>2, <1>3, <1>4, <1>5, <1>n, MovedKept
  <1>7. DOMAIN D = Docs /\ \A d \in Docs \ {m.src, m.dst} : D[d] = doc[d]
    <2>1. /\ A \in SUBSET Nodes /\ m \in Moves(A) /\ DOMAIN doc = Docs /\ Admitted(m)
          /\ \A d \in Docs : Sound(doc[d], A) /\ Mirrors(doc[d])
      BY <1>1, <1>4, <1>5
    <2>2. D = MovedDocs(m)
      BY <1>n
    <2>3. DOMAIN D = Docs
      BY <2>1, <2>2, MovedSound
    <2>4. ASSUME NEW e \in Docs \ {m.src, m.dst} PROVE D[e] = doc[e]
      BY <2>1, <2>2, MovedSound
    <2>5. QED
      BY <2>3, <2>4
  <1>8. QED
    BY <1>1, <1>4, <1>6, <1>7, <1>n

\* The splice of a move.
LEMMA MoveSpliceKept ==
  ASSUME IInv, TreesKept, Published, MoveSplice
  PROVE  TreesKept' /\ Published'
  <1>n. PICK m, A, D, F : /\ m = pending /\ A = 1 .. minted /\ D = MovedDocs(m)
                          /\ F = Fragment(doc[m.src], m.roots)
    OBVIOUS
  <1>1. /\ m.stage = "resolved" /\ Admitted(m) /\ doc' = D /\ strayed' = ~StillThere(m)
        /\ file' = file /\ minted' = minted /\ pending' = [m EXCEPT !.stage = "source"]
    BY <1>n DEF MoveSplice
  <1>2. ~strayed /\ \A d \in Docs : Standing(d, doc[d], A) /\ Stored(d, file[d], A)
    BY <1>1, <1>n DEF TreesKept, Steady
  <1>3. /\ m \in Moves(A) /\ A \in SUBSET Nodes /\ DOMAIN doc = Docs
        /\ \A d \in Docs : Sound(doc[d], A) /\ Mirrors(doc[d])
    <2>1. m # NoMove
      BY <1>1 DEF NoMove
    <2>2. QED
      BY <1>n, <2>1, InvParts
  <1>4. \A d \in Docs : SameNumbers(doc[d], D[d])
    BY <1>1, <1>3, <1>n, MovedIds
  <1>5. \A d \in Docs : Sound(D[d], A)
    BY <1>1, <1>3, <1>n, MovedSound
  <1>6. TreesKept'
    <2>1. pending'.stage # "resolved"
      BY <1>1, <1>3 DEF Moves
    <2>2. ASSUME ~strayed', NEW d \in Docs
          PROVE  Standing(d, doc'[d], A) /\ Stored(d, file'[d], A)
      <3>1. /\ Carries(m, D, F, A)
            /\ \A e \in Docs \ {m.src, m.dst} : D[e] = doc[e]
        BY <1>1, <1>n, <2>2, SpliceCarries
      <3>2. Standing(d, doc[d], A) /\ Stored(d, file[d], A)
        BY <1>2
      <3>3. CASE d \in {m.src, m.dst}
        <4>1. Kempt(D[d]) /\ Barren(D[d].kids, A)
          BY <3>1, <3>2, <3>3 DEF Carries, Standing
        <4>2. D[d].root = Root[d]
          BY <1>4, <3>2 DEF SameNumbers, Standing
        <4>3. QED
          BY <1>1, <3>2, <4>1, <4>2 DEF Standing
      <3>4. CASE d \notin {m.src, m.dst}
        BY <1>1, <3>1, <3>2, <3>4
      <3>5. QED
        BY <3>3, <3>4
    <2>3. QED
      BY <1>1, <1>n, <2>1, <2>2 DEF TreesKept
  <1>7. Published'
    <2>1. \A d \in Docs : doc'[d].next \in Nat /\ doc'[d].number \in [Nodes -> Nat]
      BY <1>1, <1>5 DEF Sound, TreeDocs
    <2>2. \A d \in Docs : doc[d].next \in Nat /\ doc[d].number \in [Nodes -> Nat]
      BY <1>3 DEF Sound, TreeDocs
    <2>3. \A d \in Docs : Renumbering(doc[d], doc'[d]) /\ Numbering(doc[d], doc'[d])
      BY <1>1, <1>4, <2>2 DEF SameNumbers, Renumbering, Numbering
    <2>4. strayed' \in BOOLEAN /\ (strayed => strayed') /\ Typed /\ file' = file
      BY <1>1, <1>2 DEF IInv
    <2>5. QED
      BY <2>1, <2>3, <2>4, NumbersCarry
  <1>8. QED
    BY <1>6, <1>7

\* Every step keeps the documents trees and the numbers that were written.
LEMMA TreesNext ==
  ASSUME IInv, TreesKept, Published, [Next]_vars
  PROVE  TreesKept' /\ Published'
  <1>1. ASSUME Editing PROVE TreesKept' /\ Published'
    <2>1. PICK d \in Docs :
            \/ \E at \in Places(Given), m \in 1 .. MaxFragment : Insert(d, at, m)
            \/ \E r \in Runs(d) :
                 \/ Delete(d, r)
                 \/ \E m \in 1 .. MaxFragment : Replace(d, r, m)
                 \/ \E t \in Docs, at \in Places(Given) : MoveResolve(d, r, t, at)
            \/ \E p \in Nodes, m \in 1 .. MaxFragment : SetBody(d, p, m)
      BY <1>1 DEF Editing
    <2>2. CASE \E at \in Places(Given), m \in 1 .. MaxFragment : Insert(d, at, m)
      BY <2>2, InsertKept
    <2>3. ASSUME NEW r \in Runs(d), Delete(d, r) PROVE TreesKept' /\ Published'
      BY <2>3, DeleteKept
    <2>4. ASSUME NEW r \in Runs(d), NEW m \in 1 .. MaxFragment, Replace(d, r, m)
          PROVE  TreesKept' /\ Published'
      BY <2>4, ReplaceKept
    <2>5. ASSUME NEW r \in Runs(d), NEW t \in Docs, NEW at \in Places(Given),
                 MoveResolve(d, r, t, at)
          PROVE  TreesKept' /\ Published'
      BY <2>5, MoveResolveKept
    <2>6. CASE \E p \in Nodes, m \in 1 .. MaxFragment : SetBody(d, p, m)
      BY <2>6, SetBodyKept
    <2>7. QED
      BY <2>1, <2>2, <2>3, <2>4, <2>5, <2>6
  <1>2. ASSUME Moving PROVE TreesKept' /\ Published'
    BY <1>2, MoveSpliceKept, MoveRefusedKept, MoveCommitSourceKept, MoveCommitTargetKept
       DEF Moving
  <1>3. ASSUME Storing PROVE TreesKept' /\ Published'
    BY <1>3, WriteKept, LoadKept DEF Storing
  <1>4. CASE UNCHANGED vars
    BY <1>4 DEF vars, TreesKept, Published, Steady
  <1>5. QED
    BY <1>1, <1>2, <1>3, <1>4 DEF Next

\* Together with the first invariant, it is inductive.
LEMMA TreesCorrect == Spec => [](IInv /\ TreesKept /\ Published)
  <1>1. Init => IInv /\ TreesKept /\ Published
    BY InitInv, InitTrees
  <1>2. IInv /\ TreesKept /\ Published /\ [Next]_vars => (IInv /\ TreesKept /\ Published)'
    BY NextInv, TreesNext
  <1>3. QED
    BY <1>1, <1>2, PTL DEF Spec

-----------------------------------------------------------------------------
(* What follows from the second invariant.                                 *)

\* Every document stays a tree, unless a move has gone astray.
THEOREM TreesStayTrees == Spec => []TreeSound
  <1>1. ASSUME IInv, TreesKept PROVE TreeSound
    <2>1. ASSUME ~strayed, NEW d \in Docs PROVE IsTree(doc[d])
      <3>t. PICK T : T = doc[d]
        OBVIOUS
      <3>1. Sound(T, 1 .. minted) /\ 1 .. minted \in SUBSET Nodes /\ Kempt(T)
        <4>1. Kempt(T)
          BY <1>1, <2>1, <3>t DEF TreesKept, Standing
        <4>2. QED
          BY <1>1, <3>t, <4>1, InvParts
      <3>2. /\ T.kids \in [Nodes -> Seq(Nodes)] /\ T.root \in Nodes
            /\ Hangs(T.kids, T.root, T.up)
        BY <3>1, SoundKids DEF Kempt
      <3>3. IsInjective(Walk(T.kids, T.root))
        BY <3>2, WalkInjective
      <3>4. T.up[T.root] = NoNode
        BY <3>2 DEF Hangs
      <3>5. \A n \in ToSet(Walk(T.kids, T.root)), k \in Nodes : k \in ToSet(T.kids[n]) => T.up[k] = n
        BY <3>2 DEF Hangs, Reach
      <3>6. QED
        BY <3>3, <3>4, <3>5, <3>t DEF IsTree
    <2>2. QED
      BY <2>1 DEF TreeSound
  <1>2. QED
    BY <1>1, TreesCorrect, PTL

\* The numbers in a file stay there: only a write changes the file, and what it
\* writes are the numbers of the document.
LEMMA FileNumbersStay ==
  ASSUME IInv, Published, [Next]_vars, NEW d \in Docs, NEW n \in Nodes,
         file[d].number[n] # NoNumber
  PROVE  file'[d].number[n] = file[d].number[n]
  <1>1. CASE file' = file
    BY <1>1
  <1>2. ASSUME NEW e \in Docs, Write(e) PROVE file'[d].number[n] = file[d].number[n]
    <2>1. DOMAIN file = Docs /\ ~strayed /\ file' = [file EXCEPT ![e] = Saved(doc[e])]
      BY <1>2, InvParts DEF Write
    <2>2. CASE e # d
      BY <2>1, <2>2
    <2>3. CASE e = d
      <3>1. doc[d].number[n] = file[d].number[n]
        BY <2>1 DEF Published
      <3>2. file'[d].number = doc[d].number
        BY <2>1, <2>3 DEF Saved
      <3>3. QED
        BY <3>1, <3>2
    <2>4. QED
      BY <2>2, <2>3
  <1>3. file' = file \/ \E e \in Docs : Write(e)
    <2>1. Editing => file' = file
      BY DEF Editing, Insert, Delete, Replace, SetBody, MoveResolve
    <2>2. Moving => file' = file
      BY DEF Moving, MoveSplice, MoveRefused, MoveCommitSource, MoveCommitTarget
    <2>3. Storing => file' = file \/ \E e \in Docs : Write(e)
      BY DEF Storing, Load
    <2>4. UNCHANGED vars => file' = file
      BY DEF vars
    <2>5. QED
      BY <2>1, <2>2, <2>3, <2>4 DEF Next
  <1>4. QED
    BY <1>1, <1>2, <1>3

\* {p097}: a number that was written goes on naming its node, and no other.
THEOREM NumbersStay == Spec => PublishedNumbersStay
  <1>1. ASSUME IInv, TreesKept, Published, [Next]_vars,
               NEW d \in Docs, NEW n \in Nodes, NEW old, old = file[d].number[n],
               old # NoNumber
        PROVE  /\ file'[d].number[n] = old
               /\ \A k \in Nodes : doc'[d].number[k] = old => k = n
               /\ doc'[d].next > old
    <2>1. file'[d].number[n] = old
      BY <1>1, FileNumbersStay
    <2>2. Published'
      BY <1>1, TreesNext
    <2>3. doc'[d].next > old /\ \A k \in Nodes \ {n} : doc'[d].number[k] # old
      BY <1>1, <2>1, <2>2 DEF Published
    <2>4. QED
      BY <2>1, <2>3
  <1>2. IInv /\ TreesKept /\ Published /\ [Next]_vars =>
          [\A d \in Docs, n \in Nodes :
             LET old == file[d].number[n] IN
             old # NoNumber =>
               /\ file'[d].number[n] = old
               /\ \A k \in Nodes : doc'[d].number[k] = old => k = n
               /\ doc'[d].next > old]_vars
    BY <1>1
  <1>3. QED
    BY <1>2, TreesCorrect, PTL DEF Spec, PublishedNumbersStay

\* Nodes are in motion, and the documents changed, only on a splice.
LEMMA MotionIsSplice ==
  ASSUME IInv, [Next]_vars, InMotion # {}, doc' # doc
  PROVE  MoveSplice /\ InMotion = Fragment(doc[pending.src], pending.roots)
  <1>1. /\ pending.stage = "resolved" /\ pending' # pending
        /\ InMotion = Fragment(doc[pending.src], pending.roots)
    BY DEF InMotion
  <1>2. ~Editing
    <2>1. \A s \in Docs, t \in Docs : \A r, at : ~MoveResolve(s, r, t, at)
      BY <1>1 DEF MoveResolve, NoMove
    <2>2. QED
      BY <1>1, <2>1 DEF Editing, Insert, Delete, Replace, SetBody
  <1>3. ~Storing
    BY <1>1 DEF Storing, Write, Load
  <1>4. ~MoveRefused /\ ~MoveCommitSource /\ ~MoveCommitTarget
    BY <1>1 DEF MoveRefused, MoveCommitSource, MoveCommitTarget
  <1>5. ~(UNCHANGED vars)
    BY <1>1 DEF vars
  <1>6. QED
    BY <1>1, <1>2, <1>3, <1>4, <1>5 DEF Next, Moving

\* A move between two documents neither loses a node nor leaves it in both.
THEOREM MovesKeepNodes == Spec => MovesLoseNothing
  <1>1. ASSUME IInv, TreesKept, [Next]_vars, InMotion # {}, ~strayed', doc' # doc,
               NEW s, NEW t, s = pending.src, t = pending.dst
        PROVE  /\ Under(doc'[s]) \cup Under(doc'[t]) = Under(doc[s]) \cup Under(doc[t])
               /\ s # t => InMotion \subseteq Under(doc'[t]) \ Under(doc'[s])
    <2>1. MoveSplice /\ InMotion = Fragment(doc[pending.src], pending.roots)
      BY <1>1, MotionIsSplice
    <2>2. Carries(pending, doc', InMotion, 1 .. minted)
      BY <1>1, <2>1, SpliceCarries
    <2>3. QED
      BY <1>1, <2>2 DEF Carries
  <1>2. IInv /\ TreesKept /\ [Next]_vars =>
          [InMotion # {} /\ ~strayed' /\ doc' # doc =>
             LET s == pending.src
                 t == pending.dst
             IN /\ Under(doc'[s]) \cup Under(doc'[t]) = Under(doc[s]) \cup Under(doc[t])
                /\ s # t => InMotion \subseteq Under(doc'[t]) \ Under(doc'[s])]_vars
    BY <1>1
  <1>3. QED
    BY <1>2, TreesCorrect, PTL DEF Spec, MovesLoseNothing

=============================================================================
