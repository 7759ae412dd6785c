------------------------ MODULE LiveTreesOrderProofs ------------------------
(***************************************************************************)
(* Proofs about the order of children in LiveTrees: where a command puts   *)
(* its nodes, and that it leaves the others where they stand.              *)
(***************************************************************************)
EXTENDS LiveTreesProofs

-----------------------------------------------------------------------------
(* Where nodes land.                                                       *)

\* u is s with what stands between two places given up for the sequence new.
Spliced(S, s, u, i, j, new) ==
  /\ s \in Seq(S) /\ u \in Seq(S) /\ new \in Seq(S)
  /\ i \in 0 .. Len(s) /\ j \in i .. Len(s)
  /\ Len(u) = Len(s) - (j - i) + Len(new)
  /\ \A k \in 1 .. i : u[k] = s[k]
  /\ \A k \in 1 .. Len(new) : u[i + k] = new[k]
  /\ \A k \in 1 .. Len(s) - j : u[i + Len(new) + k] = s[j + k]

\* A splice, place by place.
LEMMA SpliceAt ==
  ASSUME NEW S, NEW s \in Seq(S), NEW i \in 0 .. Len(s), NEW j \in i .. Len(s),
         NEW new \in Seq(S), NEW u, u = Splice(s, i, j, new)
  PROVE  Spliced(S, s, u, i, j, new)
  <1>l. PICK l : l = SubSeq(s, 1, i)
    OBVIOUS
  <1>r. PICK r : r = SubSeq(s, j + 1, Len(s))
    OBVIOUS
  <1>n. PICK n, m : n = Len(s) /\ m = Len(new)
    OBVIOUS
  <1>0. i \in Nat /\ j \in Nat /\ i <= j /\ j <= n /\ n \in Nat /\ m \in Nat
    BY <1>n
  <1>1. l \in Seq(S) /\ Len(l) = i /\ \A k \in 1 .. i : l[k] = s[k]
    <2>1. 0 \in 0 .. Len(s) /\ i \in 0 .. Len(s)
      BY <1>0, <1>n
    <2>2. SubSeq(s, 0 + 1, i) \in Seq(S) /\ Len(SubSeq(s, 0 + 1, i)) = i - 0
          /\ \A k \in 1 .. i - 0 : SubSeq(s, 0 + 1, i)[k] = s[0 + k]
      BY <2>1, SubSeqAt
    <2>3. 0 + 1 = 1 /\ i - 0 = i /\ \A k \in 1 .. i : 0 + k = k
      BY <1>0
    <2>4. QED
      BY <1>l, <2>2, <2>3
  <1>2. r \in Seq(S) /\ Len(r) = n - j /\ \A k \in 1 .. n - j : r[k] = s[j + k]
    <2>1. j \in 0 .. Len(s) /\ Len(s) \in j .. Len(s)
      BY <1>0, <1>n
    <2>2. QED
      BY <1>r, <1>n, <2>1, SubSeqAt
  <1>v. PICK v : v = l \o new
    OBVIOUS
  <1>3. /\ v \in Seq(S) /\ Len(v) = i + m
        /\ \A k \in 1 .. i : v[k] = s[k]
        /\ \A k \in 1 .. m : v[i + k] = new[k]
    <2>1. l \in Seq(S) /\ new \in Seq(S) /\ v = l \o new
      BY <1>1, <1>v
    <2>2. /\ v \in Seq(S) /\ Len(v) = Len(l) + Len(new)
          /\ \A k \in 1 .. Len(l) : v[k] = l[k]
          /\ \A k \in 1 .. Len(new) : v[Len(l) + k] = new[k]
      BY <2>1, ConcatAt
    <2>3. QED
      BY <1>1, <1>n, <2>2
  <1>4. u = v \o r
    <2>1. Min({i, Len(s)}) = i
      BY <1>0, <1>n, MinTyped
    <2>2. QED
      BY <1>l, <1>r, <1>v, <2>1 DEF Splice
  <1>5. /\ u \in Seq(S) /\ Len(u) = Len(v) + Len(r)
        /\ \A k \in 1 .. Len(v) : u[k] = v[k]
        /\ \A k \in 1 .. Len(r) : u[Len(v) + k] = r[k]
    <2>1. v \in Seq(S) /\ r \in Seq(S) /\ u = v \o r
      BY <1>2, <1>3, <1>4
    <2>2. QED
      BY <2>1, ConcatAt
  <1>6. Len(u) = n - (j - i) + m
    BY <1>0, <1>2, <1>3, <1>5
  <1>7. \A k \in 1 .. i : u[k] = s[k]
    BY <1>0, <1>3, <1>5
  <1>8. \A k \in 1 .. m : u[i + k] = new[k]
    <2>1. \A k \in 1 .. m : i + k \in 1 .. Len(v)
      BY <1>0, <1>3
    <2>2. QED
      BY <1>3, <1>5, <2>1
  <1>9. \A k \in 1 .. n - j : u[i + m + k] = s[j + k]
    BY <1>2, <1>3, <1>5
  <1>10. QED
    BY <1>5, <1>6, <1>7, <1>8, <1>9, <1>n DEF Spliced

\* u is s with n elements after place i: those of new after place o.
Filled(S, s, u, i, new, o, n) ==
  /\ s \in Seq(S) /\ u \in Seq(S) /\ new \in Seq(S)
  /\ i \in 0 .. Len(s) /\ o \in Nat /\ n \in Nat
  /\ Len(u) = Len(s) + n
  /\ \A k \in 1 .. i : u[k] = s[k]
  /\ \A k \in 1 .. n : u[i + k] = new[o + k]
  /\ \A k \in 1 .. Len(s) - i : u[i + n + k] = s[i + k]

\* A splice that cuts nothing fills.
LEMMA SplicedFills ==
  ASSUME NEW S, NEW s, NEW u, NEW i, NEW new, Spliced(S, s, u, i, i, new)
  PROVE  Filled(S, s, u, i, new, 0, Len(new))
  <1>0. s \in Seq(S) /\ new \in Seq(S) /\ i \in 0 .. Len(s)
    BY Zenon DEF Spliced
  <1>1. /\ Len(s) \in Nat /\ Len(new) \in Nat /\ i \in Nat
        /\ Len(u) = Len(s) - (i - i) + Len(new)
        /\ \A k \in 1 .. i : u[k] = s[k]
        /\ \A k \in 1 .. Len(new) : u[i + k] = new[k]
        /\ \A k \in 1 .. Len(s) - i : u[i + Len(new) + k] = s[i + k]
    <2>1. Len(s) \in Nat /\ Len(new) \in Nat /\ i \in Nat
      BY <1>0
    <2>2. /\ Len(u) = Len(s) - (i - i) + Len(new)
          /\ \A k \in 1 .. i : u[k] = s[k]
          /\ \A k \in 1 .. Len(new) : u[i + k] = new[k]
          /\ \A k \in 1 .. Len(s) - i : u[i + Len(new) + k] = s[i + k]
      BY Zenon DEF Spliced
    <2>3. QED
      BY <2>1, <2>2
  <1>2. Len(u) = Len(s) + Len(new)
    BY <1>1
  <1>3. \A k \in 1 .. Len(new) : 0 + k = k
    BY <1>1
  <1>4. s \in Seq(S) /\ u \in Seq(S) /\ new \in Seq(S) /\ i \in 0 .. Len(s) /\ 0 \in Nat
    BY Zenon DEF Spliced
  <1>5. QED
    BY <1>1, <1>2, <1>3, <1>4, Zenon DEF Filled

\* One more behind those that are in.
LEMMA FillAfter ==
  ASSUME NEW S, NEW s, NEW u, NEW i, NEW new, NEW n, Filled(S, s, u, i, new, 0, n),
         n + 1 <= Len(new), NEW w, w = Splice(u, i + n, i + n, <<new[n + 1]>>)
  PROVE  Filled(S, s, w, i, new, 0, n + 1)
  <1>0. /\ s \in Seq(S) /\ u \in Seq(S) /\ new \in Seq(S)
        /\ i \in 0 .. Len(s) /\ n \in Nat
    BY Zenon DEF Filled
  <1>a. PICK one, at : one = <<new[n + 1]>> /\ at = i + n
    OBVIOUS
  <1>1. /\ one \in Seq(S) /\ Len(one) = 1 /\ one[1] = new[n + 1]
        /\ at \in 0 .. Len(u) /\ at \in at .. Len(u) /\ i \in Nat /\ Len(s) \in Nat /\ i <= Len(s)
        /\ Len(u) = Len(s) + n /\ w = Splice(u, at, at, one) /\ n \in Nat
    <2>1. n + 1 \in 1 .. Len(new) /\ new[n + 1] \in S
      BY <1>0
    <2>2. Len(u) = Len(s) + n /\ i \in Nat /\ Len(s) \in Nat /\ i <= Len(s)
      BY <1>0 DEF Filled
    <2>3. QED
      BY <1>0, <1>a, <2>1, <2>2
  <1>2. Spliced(S, u, w, at, at, one)
    <2>1. one \in Seq(S) /\ at \in 0 .. Len(u) /\ at \in at .. Len(u) /\ w = Splice(u, at, at, one)
          /\ u \in Seq(S)
      BY <1>0, <1>1
    <2>2. QED
      BY <2>1, SpliceAt
  <1>3. Filled(S, u, w, at, one, 0, Len(one))
    BY <1>2, SplicedFills
  <1>4. /\ Len(w) = Len(u) + 1 /\ \A k \in 1 .. at : w[k] = u[k]
        /\ w[at + 1] = new[n + 1]
        /\ \A k \in 1 .. Len(u) - at : w[at + 1 + k] = u[at + k]
    <2>1. /\ Len(w) = Len(u) + 1 /\ \A k \in 1 .. at : w[k] = u[k]
          /\ \A k \in 1 .. 1 : w[at + k] = one[0 + k]
          /\ \A k \in 1 .. Len(u) - at : w[at + 1 + k] = u[at + k]
      <3>1. Filled(S, u, w, at, one, 0, 1)
        BY <1>1, <1>3
      <3>2. QED
        BY <3>1, Zenon DEF Filled
    <2>2. w[at + 1] = one[0 + 1] /\ 0 + 1 = 1
      BY <2>1
    <2>3. QED
      BY <1>1, <2>1, <2>2
  <1>5. Len(w) = Len(s) + (n + 1)
    BY <1>1, <1>4
  <1>6. \A k \in 1 .. i : w[k] = s[k]
    <2>1. \A k \in 1 .. i : k \in 1 .. at /\ u[k] = s[k]
      BY <1>1, <1>a DEF Filled
    <2>2. QED
      BY <1>4, <2>1
  <1>7. ASSUME NEW k \in 1 .. n + 1 PROVE w[i + k] = new[0 + k]
    <2>1. CASE k = n + 1
      <3>1. i + k = at + 1 /\ 0 + k = n + 1
        BY <1>1, <1>a, <2>1
      <3>2. QED
        BY <1>4, <3>1
    <2>2. CASE k # n + 1
      <3>1. k \in 1 .. n /\ i + k \in 1 .. at
        BY <1>1, <1>a, <2>2
      <3>2. u[i + k] = new[0 + k]
        BY <3>1 DEF Filled
      <3>3. QED
        BY <1>4, <3>1, <3>2
    <2>3. QED
      BY <2>1, <2>2
  <1>8. ASSUME NEW k \in 1 .. Len(s) - i PROVE w[i + (n + 1) + k] = s[i + k]
    <2>1. k \in 1 .. Len(u) - at /\ i + (n + 1) + k = at + 1 + k /\ i + n + k = at + k
      BY <1>1, <1>a
    <2>2. u[i + n + k] = s[i + k]
      BY DEF Filled
    <2>3. QED
      BY <1>4, <2>1, <2>2
  <1>9. w \in Seq(S)
    BY <1>2 DEF Spliced
  <1>10. n + 1 \in Nat /\ 0 \in Nat
    BY <1>0, <1>1
  <1>11. QED
    BY <1>0, <1>5, <1>6, <1>7, <1>8, <1>9, <1>10, Zenon DEF Filled

\* One more in front of those that are in.
LEMMA FillBefore ==
  ASSUME NEW S, NEW s, NEW u, NEW i, NEW new, NEW o, NEW n, Filled(S, s, u, i, new, o, n),
         o \in 1 .. Len(new), NEW w, w = Splice(u, i, i, <<new[o]>>)
  PROVE  Filled(S, s, w, i, new, o - 1, n + 1)
  <1>0. /\ s \in Seq(S) /\ u \in Seq(S) /\ new \in Seq(S)
        /\ i \in 0 .. Len(s) /\ n \in Nat
    BY Zenon DEF Filled
  <1>a. PICK one : one = <<new[o]>>
    OBVIOUS
  <1>1. /\ one \in Seq(S) /\ Len(one) = 1 /\ one[1] = new[o]
        /\ i \in 0 .. Len(u) /\ i \in i .. Len(u) /\ i \in Nat /\ Len(s) \in Nat /\ i <= Len(s)
        /\ Len(u) = Len(s) + n /\ w = Splice(u, i, i, one) /\ o \in Nat /\ o >= 1 /\ n \in Nat
    <2>1. new[o] \in S /\ o \in Nat /\ o >= 1
      BY <1>0
    <2>2. Len(u) = Len(s) + n /\ i \in Nat /\ Len(s) \in Nat /\ i <= Len(s)
      BY <1>0 DEF Filled
    <2>3. QED
      BY <1>0, <1>a, <2>1, <2>2
  <1>2. Spliced(S, u, w, i, i, one)
    <2>1. one \in Seq(S) /\ i \in 0 .. Len(u) /\ i \in i .. Len(u) /\ w = Splice(u, i, i, one)
          /\ u \in Seq(S)
      BY <1>0, <1>1
    <2>2. QED
      BY <2>1, SpliceAt
  <1>3. Filled(S, u, w, i, one, 0, Len(one))
    BY <1>2, SplicedFills
  <1>4. /\ Len(w) = Len(u) + 1 /\ \A k \in 1 .. i : w[k] = u[k]
        /\ w[i + 1] = new[o]
        /\ \A k \in 1 .. Len(u) - i : w[i + 1 + k] = u[i + k]
    <2>1. /\ Len(w) = Len(u) + 1 /\ \A k \in 1 .. i : w[k] = u[k]
          /\ \A k \in 1 .. 1 : w[i + k] = one[0 + k]
          /\ \A k \in 1 .. Len(u) - i : w[i + 1 + k] = u[i + k]
      <3>1. Filled(S, u, w, i, one, 0, 1)
        BY <1>1, <1>3
      <3>2. QED
        BY <3>1, Zenon DEF Filled
    <2>2. w[i + 1] = one[0 + 1] /\ 0 + 1 = 1
      BY <2>1
    <2>3. QED
      BY <1>1, <2>1, <2>2
  <1>5. Len(w) = Len(s) + (n + 1)
    BY <1>1, <1>4
  <1>6. \A k \in 1 .. i : w[k] = s[k]
    <2>1. \A k \in 1 .. i : u[k] = s[k]
      BY DEF Filled
    <2>2. QED
      BY <1>4, <2>1
  <1>7. ASSUME NEW k \in 1 .. n + 1 PROVE w[i + k] = new[o - 1 + k]
    <2>1. CASE k = 1
      <3>1. o - 1 + k = o
        BY <1>1, <2>1
      <3>2. QED
        BY <1>4, <2>1, <3>1
    <2>2. CASE k # 1
      <3>1. /\ k - 1 \in 1 .. n /\ k - 1 \in 1 .. Len(u) - i /\ i + 1 + (k - 1) = i + k
            /\ o - 1 + k = o + (k - 1)
        BY <1>1, <2>2
      <3>2. u[i + (k - 1)] = new[o + (k - 1)]
        BY <3>1 DEF Filled
      <3>3. w[i + 1 + (k - 1)] = u[i + (k - 1)]
        BY <1>4, <3>1
      <3>4. QED
        BY <3>1, <3>2, <3>3
    <2>3. QED
      BY <2>1, <2>2
  <1>8. ASSUME NEW k \in 1 .. Len(s) - i PROVE w[i + (n + 1) + k] = s[i + k]
    <2>1. n + k \in 1 .. Len(u) - i /\ i + (n + 1) + k = i + 1 + (n + k) /\ i + (n + k) = i + n + k
      BY <1>1
    <2>2. u[i + n + k] = s[i + k]
      BY DEF Filled
    <2>3. w[i + 1 + (n + k)] = u[i + (n + k)]
      BY <1>4, <2>1
    <2>4. QED
      BY <2>1, <2>2, <2>3
  <1>9. w \in Seq(S)
    BY <1>2 DEF Spliced
  <1>10. n + 1 \in Nat /\ o - 1 \in Nat
    BY <1>0, <1>1
  <1>11. QED
    BY <1>0, <1>5, <1>6, <1>7, <1>8, <1>9, <1>10, Zenon DEF Filled

\* The place of an element that stands once.
LEMMA PlaceIs ==
  ASSUME NEW s, NEW n, NEW c \in DOMAIN s, s[c] = n, \A x \in DOMAIN s : s[x] = n => x = c
  PROVE  PlaceOf(s, n) = c
  BY DEF PlaceOf

\* A place behind the filling and the one it had before it.
LEMMA MovedOn ==
  ASSUME NEW i \in Nat, NEW n \in Nat, NEW l \in Nat, i <= l,
         NEW x \in Nat, x > i + n, x <= l + n
  PROVE  /\ x - (i + n) \in 1 .. l - i /\ i + n + (x - (i + n)) = x
         /\ i + (x - (i + n)) = x - n /\ x - n \in 1 .. l
  OBVIOUS

\* n is not among those put in.
Absent(n, new, o, m) == \A k \in 1 .. m : new[o + k] # n

\* What was there before the filling stays where it was or moves behind it.
LEMMA FilledPlace ==
  ASSUME NEW S, NEW s, NEW u, NEW i, NEW new, NEW o, NEW n, Filled(S, s, u, i, new, o, n),
         IsInjective(s), NEW c \in DOMAIN s, Absent(s[c], new, o, n)
  PROVE  /\ c <= i => PlaceOf(u, s[c]) = c
         /\ c > i => PlaceOf(u, s[c]) = c + n
  <1>g. PICK g : g = IF c <= i THEN c ELSE c + n
    OBVIOUS
  <1>t. /\ s \in Seq(S) /\ u \in Seq(S) /\ new \in Seq(S)
        /\ i \in 0 .. Len(s) /\ o \in Nat /\ n \in Nat /\ Len(u) = Len(s) + n
    BY Zenon DEF Filled
  <1>0. /\ Len(s) \in Nat /\ i \in Nat /\ i <= Len(s) /\ c \in Nat /\ c >= 1 /\ c <= Len(s)
        /\ Len(u) = Len(s) + n /\ DOMAIN u = 1 .. Len(s) + n /\ DOMAIN s = 1 .. Len(s)
        /\ n \in Nat /\ o \in Nat
    BY <1>t
  <1>1. \A x \in 1 .. Len(s), y \in 1 .. Len(s) : s[x] = s[y] => x = y
    BY <1>0 DEF IsInjective
  <1>2. g \in DOMAIN u /\ u[g] = s[c]
    <2>1. CASE c <= i
      BY <1>0, <1>g, <2>1 DEF Filled
    <2>2. CASE ~(c <= i)
      <3>1. c - i \in 1 .. Len(s) - i /\ i + n + (c - i) = g /\ i + (c - i) = c
        BY <1>0, <1>g, <2>2
      <3>2. u[i + n + (c - i)] = s[i + (c - i)]
        BY <3>1 DEF Filled
      <3>3. g \in DOMAIN u
        BY <1>0, <1>g
      <3>4. QED
        BY <3>1, <3>2, <3>3
    <2>3. QED
      BY <2>1, <2>2
  <1>3. ASSUME NEW x \in DOMAIN u, u[x] = s[c] PROVE x = g
    <2>0. x \in Nat /\ x >= 1 /\ x <= Len(s) + n
      BY <1>0
    <2>1. CASE x <= i
      <3>1. u[x] = s[x] /\ x \in 1 .. Len(s)
        BY <1>0, <2>0, <2>1 DEF Filled
      <3>2. x = c
        BY <1>0, <1>1, <1>3, <3>1
      <3>3. QED
        BY <1>g, <2>1, <3>2
    <2>2. CASE x > i /\ x <= i + n
      <3>1. x - i \in 1 .. n /\ i + (x - i) = x
        BY <1>0, <2>0, <2>2
      <3>2. u[i + (x - i)] = new[o + (x - i)]
        BY <3>1 DEF Filled
      <3>3. QED
        BY <1>3, <3>1, <3>2 DEF Absent
    <2>3. CASE x > i + n
      <3>1. /\ x - (i + n) \in 1 .. Len(s) - i /\ i + n + (x - (i + n)) = x
            /\ i + (x - (i + n)) = x - n /\ x - n \in 1 .. Len(s)
        BY <1>0, <2>0, <2>3
      <3>2. u[i + n + (x - (i + n))] = s[i + (x - (i + n))]
        BY <3>1 DEF Filled
      <3>3. s[x - n] = s[c]
        BY <1>3, <3>1, <3>2
      <3>4. x - n = c
        BY <1>1, <3>1, <3>3
      <3>5. QED
        BY <1>0, <1>g, <2>0, <2>3, <3>4
    <2>4. QED
      BY <1>0, <2>0, <2>1, <2>2, <2>3
  <1>4. PlaceOf(u, s[c]) = g
    BY <1>2, <1>3, PlaceIs
  <1>5. QED
    BY <1>0, <1>4, <1>g

\* So do all that were there, when those put in are others.
LEMMA FilledOthers ==
  ASSUME NEW S, NEW s, NEW u, NEW i, NEW new, Filled(S, s, u, i, new, 0, Len(new)),
         IsInjective(s), ToSet(new) \cap ToSet(s) = {}, NEW c \in DOMAIN s
  PROVE  /\ c <= i => PlaceOf(u, s[c]) = c
         /\ c > i => PlaceOf(u, s[c]) = c + Len(new)
  <1>o. PICK o, n : o = 0 /\ n = Len(new)
    OBVIOUS
  <1>0. s \in Seq(S) /\ new \in Seq(S)
    BY Zenon DEF Filled
  <1>1. ASSUME NEW k \in 1 .. n PROVE new[o + k] # s[c]
    <2>1. o + k = k /\ new[k] \in ToSet(new) /\ s[c] \in ToSet(s)
      BY <1>0, <1>o DEF ToSet
    <2>2. QED
      BY <2>1
  <1>2. Absent(s[c], new, o, n)
    BY <1>1 DEF Absent
  <1>3. Filled(S, s, u, i, new, o, n)
    BY <1>o
  <1>4. QED
    <2>1. (c <= i => PlaceOf(u, s[c]) = c) /\ (c > i => PlaceOf(u, s[c]) = c + n)
      BY <1>2, <1>3, FilledPlace
    <2>2. QED
      BY <1>o, <2>1

\* What the filling starts with stands once, too.
LEMMA FilledFirst ==
  ASSUME NEW S, NEW s, NEW u, NEW i, NEW new, Filled(S, s, u, i, new, 0, Len(new)),
         IsInjective(new), new # <<>>, ToSet(new) \cap ToSet(s) = {}
  PROVE  PlaceOf(u, new[1]) = i + 1
  <1>n. PICK n : n = Len(new)
    OBVIOUS
  <1>0. /\ Len(s) \in Nat /\ i \in Nat /\ i <= Len(s) /\ n \in Nat /\ n >= 1
        /\ Len(u) = Len(s) + n /\ DOMAIN u = 1 .. Len(s) + n /\ DOMAIN s = 1 .. Len(s)
        /\ DOMAIN new = 1 .. n
    <2>1. /\ s \in Seq(S) /\ u \in Seq(S) /\ new \in Seq(S)
          /\ i \in 0 .. Len(s) /\ Len(u) = Len(s) + n
      BY <1>n, Zenon DEF Filled
    <2>2. n \in Nat /\ n >= 1 /\ DOMAIN new = 1 .. n
      BY <1>n, <2>1
    <2>3. QED
      BY <2>1, <2>2
  <1>1. i + 1 \in DOMAIN u /\ u[i + 1] = new[1]
    <2>1. 1 \in 1 .. Len(new) /\ 0 + 1 = 1
      BY <1>0, <1>n
    <2>2. u[i + 1] = new[0 + 1]
      BY <2>1 DEF Filled
    <2>3. QED
      BY <1>0, <2>1, <2>2
  <1>2. ASSUME NEW y \in 1 .. Len(s) PROVE s[y] # new[1]
    <2>1. s[y] \in ToSet(s) /\ new[1] \in ToSet(new)
      BY <1>0 DEF ToSet
    <2>2. QED
      BY <2>1
  <1>3. ASSUME NEW x \in DOMAIN u, u[x] = new[1] PROVE x = i + 1
    <2>0. x \in Nat /\ x >= 1 /\ x <= Len(s) + n
      BY <1>0
    <2>1. CASE x <= i
      <3>1. u[x] = s[x] /\ x \in 1 .. Len(s)
        BY <1>0, <2>0, <2>1 DEF Filled
      <3>2. QED
        BY <1>2, <1>3, <3>1
    <2>2. CASE x > i /\ x <= i + n
      <3>1. x - i \in 1 .. n /\ i + (x - i) = x /\ 0 + (x - i) = x - i
        BY <1>0, <2>0, <2>2
      <3>2. u[i + (x - i)] = new[0 + (x - i)]
        BY <1>n, <3>1 DEF Filled
      <3>3. new[x - i] = new[1] /\ 1 \in DOMAIN new /\ x - i \in DOMAIN new
        BY <1>0, <1>3, <3>1, <3>2
      <3>4. x - i = 1
        BY <3>3 DEF IsInjective
      <3>5. QED
        BY <1>0, <2>0, <3>4
    <2>3. CASE x > i + n
      <3>1. /\ x - (i + n) \in 1 .. Len(s) - i /\ i + n + (x - (i + n)) = x
            /\ i + (x - (i + n)) = x - n /\ x - n \in 1 .. Len(s)
        BY <1>0, <2>0, <2>3, MovedOn
      <3>2. u[i + n + (x - (i + n))] = s[i + (x - (i + n))]
        BY <1>n, <3>1 DEF Filled
      <3>3. QED
        BY <1>2, <1>3, <3>1, <3>2
    <2>4. QED
      BY <1>0, <2>0, <2>1, <2>2, <2>3
  <1>4. QED
    BY <1>1, <1>3, PlaceIs

\* The place i among the children s is the one the address names.
Marks(s, at, i) ==
  /\ at.how = "first_child" => i = 0
  /\ at.how = "last_child"  => i = Len(s)
  /\ at.how = "child_index" => i = Min({at.index, Len(s)})
  /\ at.how = "before"      => i + 1 \in DOMAIN s /\ s[i + 1] = at.node
  /\ at.how = "after"       => i \in DOMAIN s /\ s[i] = at.node

\* Nodes put in at the place an address names stand where it says.
LEMMA FilledStands ==
  ASSUME NEW S, NEW s, NEW u, NEW i, NEW new, Filled(S, s, u, i, new, 0, Len(new)),
         IsInjective(s), IsInjective(new), new # <<>>, ToSet(new) \cap ToSet(s) = {},
         NEW at \in Ats, Marks(s, at, i),
         NEW U, U.kids[ParentAt(U, at)] = u
  PROVE  Stands(U, new, at)
  <1>n. PICK n, f : n = Len(new) /\ f = PlaceOf(u, new[1])
    OBVIOUS
  <1>0. /\ Len(s) \in Nat /\ i \in Nat /\ i <= Len(s) /\ n \in Nat /\ n >= 1
        /\ Len(u) = Len(s) + n /\ DOMAIN u = 1 .. Len(s) + n /\ DOMAIN s = 1 .. Len(s)
        /\ DOMAIN new = 1 .. n /\ at.how \in Hows
    <2>1. /\ s \in Seq(S) /\ u \in Seq(S) /\ new \in Seq(S)
          /\ i \in 0 .. Len(s) /\ Len(u) = Len(s) + n
      BY <1>n, Zenon DEF Filled
    <2>2. n \in Nat /\ n >= 1 /\ DOMAIN new = 1 .. n
      BY <1>n, <2>1
    <2>3. at.how \in Hows
      BY DEF Ats
    <2>4. QED
      BY <2>1, <2>2, <2>3
  <1>1. f = i + 1
    BY <1>n, FilledFirst
  <1>2. \A k \in 1 .. n : u[i + k] = new[k] /\ i + k \in DOMAIN u
    <2>1. ASSUME NEW k \in 1 .. n PROVE u[i + k] = new[k] /\ i + k \in DOMAIN u
      <3>1. 0 + k = k /\ i + k \in DOMAIN u
        BY <1>0
      <3>2. u[i + k] = new[0 + k]
        BY <1>n DEF Filled
      <3>3. QED
        BY <3>1, <3>2
    <2>2. QED
      BY <2>1
  <1>3. ToSet(new) \subseteq ToSet(u)
    BY <1>0, <1>2 DEF ToSet
  <1>4. SubSeq(u, f, f + n - 1) = new
    <2>j. PICK j, w : j = i + n /\ w = SubSeq(u, i + 1, j)
      OBVIOUS
    <2>0. u \in Seq(S) /\ new \in Seq(S)
      BY Zenon DEF Filled
    <2>1. u \in Seq(S) /\ i \in 0 .. Len(u) /\ j \in i .. Len(u)
      BY <1>0, <2>0, <2>j
    <2>2. w \in Seq(S) /\ Len(w) = j - i /\ \A k \in 1 .. j - i : w[k] = u[i + k]
      BY <2>1, <2>j, SubSeqAt
    <2>3. j - i = n /\ f = i + 1 /\ f + n - 1 = j
      BY <1>0, <1>1, <2>j
    <2>4. Len(w) = Len(new) /\ \A k \in 1 .. Len(w) : w[k] = new[k]
      BY <1>2, <1>n, <2>2, <2>3
    <2>5. w = new
      BY <2>0, <2>2, <2>4, SeqSame
    <2>6. QED
      BY <2>3, <2>5, <2>j
  <1>5. ASSUME NEW c \in DOMAIN s
        PROVE  (c <= i => PlaceOf(u, s[c]) = c) /\ (c > i => PlaceOf(u, s[c]) = c + n)
    BY FilledOthers, <1>n
  <1>6. CASE at.how = "first_child"
    <2>1. f = 1
      BY <1>1, <1>6 DEF Marks
    <2>2. QED
      BY <1>3, <1>4, <1>6, <1>n, <2>1 DEF Stands
  <1>7. CASE at.how = "last_child"
    <2>1. f + n - 1 = Len(u)
      BY <1>0, <1>1, <1>7 DEF Marks
    <2>2. QED
      BY <1>3, <1>4, <1>7, <1>n, <2>1 DEF Stands
  <1>8. CASE at.how = "child_index"
    <2>1. Len(u) - n = Len(s)
      BY <1>0
    <2>2. f = Min({at.index, Len(u) - n}) + 1
      BY <1>1, <1>8, <2>1 DEF Marks
    <2>3. QED
      BY <1>3, <1>4, <1>8, <1>n, <2>2 DEF Stands
  <1>9. CASE at.how = "before"
    <2>1. i + 1 \in DOMAIN s /\ s[i + 1] = at.node
      BY <1>9 DEF Marks
    <2>2. PlaceOf(u, at.node) = i + 1 + n
      <3>1. i + 1 > i
        BY <1>0
      <3>2. QED
        BY <1>5, <2>1, <3>1
    <2>3. PlaceOf(u, at.node) = f + n
      BY <1>0, <1>1, <2>2
    <2>4. QED
      BY <1>3, <1>4, <1>9, <1>n, <2>3 DEF Stands
  <1>10. CASE at.how = "after"
    <2>1. i \in DOMAIN s /\ s[i] = at.node
      BY <1>10 DEF Marks
    <2>2. PlaceOf(u, at.node) = i
      BY <1>0, <1>5, <2>1
    <2>3. PlaceOf(u, at.node) = f - 1
      BY <1>0, <1>1, <2>2
    <2>4. QED
      BY <1>3, <1>4, <1>10, <1>n, <2>3 DEF Stands
  <1>11. QED
    BY <1>0, <1>6, <1>7, <1>8, <1>9, <1>10 DEF Hows

\* Spot is the place the address names.
LEMMA SpotMarks ==
  ASSUME NEW A \in SUBSET Nodes, NEW T \in TreeDocs(A), NEW at, NEW p, Addresses(T, at, p),
         NEW i, i = Spot(T, at)
  PROVE  Marks(T.kids[p], at, i) /\ i \in 0 .. Len(T.kids[p])
  <1> DEFINE s == T.kids[p]
  <1>1. s \in Seq(A) /\ Len(s) \in Nat /\ DOMAIN s = 1 .. Len(s)
    BY DEF TreeDocs, Addresses
  <1>2. at.how \in Hows /\ at.index \in Nat /\ ParentAt(T, at) = p
    BY DEF Addresses, Ats
  <1>3. i \in 0 .. Len(s)
    BY SpotTyped
  <1> HIDE DEF s
  <1>4. CASE at.how \in {"first_child", "last_child", "child_index"}
    <2>1. /\ at.how = "first_child" => i = 0
          /\ at.how = "last_child" => i = Len(s)
          /\ at.how = "child_index" => i = Min({at.index, Len(s)})
      BY <1>2 DEF Spot, s
    <2>2. at.how # "before" /\ at.how # "after"
      BY <1>4
    <2>3. QED
      BY <1>3, <2>1, <2>2, Zenon DEF Marks, s
  <1>5. CASE at.how \in {"before", "after"}
    <2>1. PlaceOf(s, at.node) \in 1 .. Len(s) /\ s[PlaceOf(s, at.node)] = at.node
      BY <1>1, <1>5, PlaceIsIn DEF Addresses, Beside, s
    <2>2. /\ at.how = "before" => i = PlaceOf(s, at.node) - 1
          /\ at.how = "after" => i = PlaceOf(s, at.node)
      BY <1>2 DEF Spot, s
    <2>3. at.how = "before" => i + 1 = PlaceOf(s, at.node)
      BY <2>1, <2>2
    <2>4. QED
      BY <1>1, <1>5, <2>1, <2>2, <2>3 DEF Marks, s
  <1>6. QED
    BY <1>2, <1>3, <1>4, <1>5 DEF Hows, s

\* operations.insert splices the node in at the place of the address.
LEMMA Insert1Splices ==
  ASSUME NEW A \in SUBSET Nodes, NEW T, Sound(T, A), NEW n \in A, NEW at, NEW p,
         Addresses(T, at, p)
  PROVE  Insert1(T, n, at).kids[p] = Splice(T.kids[p], Spot(T, at), Spot(T, at), <<n>>)
  <1>i. PICK i, R : i = Spot(T, at) /\ R = Insert1(T, n, at)
    OBVIOUS
  <1>w. PICK w : w = <<n>>
    OBVIOUS
  <1>b. PICK B : B = Labelled(T, w)
    OBVIOUS
  <1>l. PICK L : L = Adopted(B, p, w)
    OBVIOUS
  <1>c. PICK c : c = Splice(L.kids[p], i, i, w)
    OBVIOUS
  <1>s. PICK S : S = [L EXCEPT !.kids[p] = c]
    OBVIOUS
  <1>0. T \in TreeDocs(A) /\ p \in Nodes /\ w \in Seq(A)
    BY <1>w DEF Sound, Addresses
  <1>1. i \in 0 .. Len(T.kids[p]) /\ i \in Nat /\ T.kids[p] \in Seq(A)
    <2>1. Len(T.kids[p]) \in Nat /\ T.kids[p] \in Seq(A)
      BY <1>0 DEF TreeDocs
    <2>2. i \in 0 .. Len(T.kids[p])
      BY <1>0, <1>i, SpotTyped
    <2>3. QED
      BY <2>1, <2>2
  <1>2. R = Registered(S, w)
    BY <1>i, <1>w, <1>b, <1>l, <1>c, <1>s DEF Insert1, Addresses
  <1>3. Sound(B, A) /\ B.kids = T.kids
    BY <1>0, <1>b, LabelledSound DEF SameTree
  <1>4. Sound(L, A) /\ L.kids = T.kids
    BY <1>0, <1>3, <1>l, AdoptedSound DEF SameTree
  <1>5. c \in Seq(A) /\ c = Splice(T.kids[p], i, i, w)
    BY <1>0, <1>1, <1>4, <1>c, SpliceTyped
  <1>6. Edited(L, S, p, A)
    BY <1>0, <1>4, <1>5, <1>s, RehungSound
  <1>7. S.kids[p] = c /\ Sound(S, A)
    BY <1>0, <1>4, <1>6, <1>s DEF Sound, TreeDocs, Edited
  <1>8. R.kids = S.kids
    BY <1>0, <1>2, <1>7, RegisteredSound DEF SameTree
  <1>9. QED
    BY <1>5, <1>7, <1>8, <1>i, <1>w

\* Where the next node of an insertion goes when k of them stand already.
PlaceAfter(at, k, i) == IF at.how \in {"first_child", "after"} THEN i ELSE i + k

\* The place moves on with the nodes, or stays in front of them.
LEMMA SpotOnward ==
  ASSUME NEW A \in SUBSET Nodes, NEW U, U \in TreeDocs(A), NEW at, NEW p, Addresses(U, at, p),
         NEW s, NEW u, u = U.kids[p], NEW i, NEW new, NEW o, NEW k,
         Filled(A, s, u, i, new, o, k), IsInjective(s), Marks(s, at, i),
         Beside(at) => Absent(at.node, new, o, k)
  PROVE  Spot(U, Onward(at, k + 1)) = PlaceAfter(at, k, i)
  <1>0. /\ s \in Seq(A) /\ u \in Seq(A) /\ i \in 0 .. Len(s) /\ k \in Nat
        /\ Len(u) = Len(s) + k
    BY Zenon DEF Filled
  <1>w. PICK ak : ak = Onward(at, k + 1)
    OBVIOUS
  <1>1. /\ at \in Ats /\ at.how \in Hows /\ at.index \in Nat
        /\ ak.how = at.how /\ ak.node = at.node /\ ak.index = at.index + k
    <2>1. at \in Ats /\ at.how \in Hows /\ at.index \in Nat
      BY DEF Addresses, Ats
    <2>2. k + 1 \in Nat \ {0}
      BY <1>0
    <2>3. ak.how = at.how /\ ak.node = at.node
      BY <1>w, <2>1, <2>2, OnwardTyped
    <2>4. ak.index = at.index + (k + 1) - 1
      BY <1>w, <2>1 DEF Onward, Ats
    <2>5. at.index + (k + 1) - 1 = at.index + k
      BY <1>0, <2>1
    <2>6. QED
      BY <2>1, <2>3, <2>4, <2>5
  <1>2. ParentAt(U, ak) = p
    BY <1>1 DEF Addresses, ParentAt, Beside
  <1>3. /\ ak.how = "first_child" => Spot(U, ak) = 0
        /\ ak.how = "last_child"  => Spot(U, ak) = Len(u)
        /\ ak.how = "child_index" => Spot(U, ak) = Min({at.index + k, Len(u)})
        /\ ak.how = "before"      => Spot(U, ak) = PlaceOf(u, at.node) - 1
        /\ ak.how = "after"       => Spot(U, ak) = PlaceOf(u, at.node)
    BY <1>1, <1>2 DEF Spot
  <1>4. CASE at.how = "first_child"
    BY <1>1, <1>3, <1>4, <1>w DEF Marks, PlaceAfter
  <1>5. CASE at.how = "last_child"
    <2>1. PlaceAfter(at, k, i) = Len(s) + k
      BY <1>5 DEF Marks, PlaceAfter
    <2>2. QED
      BY <1>0, <1>1, <1>3, <1>5, <1>w, <2>1
  <1>6. CASE at.how = "child_index"
    <2>1. PlaceAfter(at, k, i) = i + k /\ i = Min({at.index, Len(s)})
      BY <1>6 DEF Marks, PlaceAfter
    <2>2. /\ Len(s) \in Nat /\ Len(u) \in Nat /\ at.index + k \in Nat
      BY <1>0, <1>1
    <2>3. Min({at.index, Len(s)}) = IF at.index <= Len(s) THEN at.index ELSE Len(s)
      BY <1>1, <2>2, MinTyped
    <2>4. Min({at.index + k, Len(u)}) = IF at.index + k <= Len(u) THEN at.index + k ELSE Len(u)
      BY <1>1, <2>2, MinTyped
    <2>5. Min({at.index + k, Len(u)}) = i + k
      <3>1. PICK x, l, y, z : /\ x = at.index /\ l = Len(s) /\ y = Min({at.index, Len(s)})
                              /\ z = Min({at.index + k, Len(u)})
        OBVIOUS
      <3>2. x \in Nat /\ l \in Nat /\ k \in Nat /\ Len(u) = l + k
        BY <1>0, <1>1, <3>1
      <3>3. y = (IF x <= l THEN x ELSE l) /\ z = (IF x + k <= l + k THEN x + k ELSE l + k)
        BY <2>3, <2>4, <3>1, <3>2
      <3>4. z = y + k
        BY <3>2, <3>3
      <3>5. QED
        BY <2>1, <3>1, <3>4
    <2>6. QED
      BY <1>1, <1>3, <1>6, <1>w, <2>1, <2>5
  <1>7. CASE at.how = "before"
    <2>c. PICK c : c = i + 1
      OBVIOUS
    <2>1. c \in DOMAIN s /\ s[c] = at.node /\ Absent(s[c], new, o, k)
      BY <1>7, <2>c DEF Marks, Beside
    <2>2. c > i => PlaceOf(u, s[c]) = c + k
      BY <2>1, FilledPlace
    <2>3. PlaceOf(u, at.node) - 1 = i + k
      BY <1>0, <2>1, <2>2, <2>c
    <2>4. PlaceAfter(at, k, i) = i + k
      BY <1>7 DEF PlaceAfter
    <2>5. QED
      BY <1>1, <1>3, <1>7, <1>w, <2>3, <2>4
  <1>8. CASE at.how = "after"
    <2>1. i \in DOMAIN s /\ s[i] = at.node /\ Absent(s[i], new, o, k)
      BY <1>8 DEF Marks, Beside
    <2>2. i <= i => PlaceOf(u, s[i]) = i
      BY <2>1, FilledPlace
    <2>3. PlaceOf(u, at.node) = i
      BY <1>0, <2>1, <2>2
    <2>4. PlaceAfter(at, k, i) = i
      BY <1>8 DEF PlaceAfter
    <2>5. QED
      BY <1>1, <1>3, <1>8, <1>w, <2>3, <2>4
  <1>9. QED
    BY <1>1, <1>4, <1>5, <1>6, <1>7, <1>8 DEF Hows

\* Nodes that are not among the children are not beside the place.
LEMMA NeverBeside ==
  ASSUME NEW A, NEW new \in Seq(A), NEW T, NEW at, NEW p, Addresses(T, at, p),
         NEW s, s = T.kids[p], ToSet(new) \cap ToSet(s) = {},
         NEW o \in Nat, NEW k \in Nat, o + k <= Len(new)
  PROVE  Beside(at) => Absent(at.node, new, o, k)
  <1>1. SUFFICES ASSUME Beside(at), NEW j \in 1 .. k PROVE new[o + j] # at.node
    BY DEF Absent
  <1>2. o + j \in 1 .. Len(new)
    OBVIOUS
  <1>3. new[o + j] \in ToSet(new)
    BY <1>2 DEF ToSet
  <1>4. at.node \in ToSet(s)
    BY <1>1 DEF Addresses
  <1>5. QED
    BY <1>3, <1>4

\* The children s of p and nodes that are not among them, for a place of p.
Filling(T, at, p, s, i, fresh, A) ==
  /\ Sound(T, A) /\ Addresses(T, at, p) /\ s = T.kids[p] /\ IsInjective(s)
  /\ fresh \in Seq(A) /\ ToSet(fresh) \cap ToSet(s) = {}
  /\ i = Spot(T, at) /\ Marks(s, at, i) /\ i \in 0 .. Len(s) /\ s \in Seq(A)

\* The children to start with.
LEMMA FillNothing ==
  ASSUME NEW S, NEW s \in Seq(S), NEW i \in 0 .. Len(s), NEW new \in Seq(S), NEW o \in Nat
  PROVE  Filled(S, s, s, i, new, o, 0)
  <1>1. i \in Nat /\ Len(s) \in Nat
    OBVIOUS
  <1>2. \A k \in 1 .. Len(s) - i : i + 0 + k = i + k
    BY <1>1
  <1>3. \A k \in 1 .. 0 : FALSE
    OBVIOUS
  <1>4. Len(s) = Len(s) + 0
    OBVIOUS
  <1>5. QED
    BY <1>2, <1>3, <1>4 DEF Filled

\* facade.insert, front to back.
LEMMA ForwardFills ==
  ASSUME NEW A \in SUBSET Nodes, NEW T, NEW at, NEW p, NEW s, NEW i, NEW fresh,
         Filling(T, at, p, s, i, fresh, A), at.how \notin {"first_child", "after"},
         NEW R, R = InsertEach(T, fresh, at)
  PROVE  Filled(A, s, R.kids[p], i, fresh, 0, Len(fresh))
  <1>n. PICK N : N = Len(fresh)
    OBVIOUS
  <1>0. /\ Sound(T, A) /\ Addresses(T, at, p) /\ s = T.kids[p] /\ IsInjective(s)
        /\ fresh \in Seq(A) /\ ToSet(fresh) \cap ToSet(s) = {}
        /\ Marks(s, at, i) /\ i \in 0 .. Len(s) /\ s \in Seq(A) /\ N \in Nat
    BY <1>n DEF Filling
  <1>1. PICK after : Insertions(T, fresh, at, p, A, after)
    BY <1>0, InsertUnfolds
  <1>2. /\ after[0] = T /\ after[N] = R
        /\ \A k \in 1 .. N : after[k] = Insert1(after[k - 1], fresh[k], Onward(at, k))
        /\ \A k \in 0 .. N : Edited(T, after[k], p, A) /\ Addresses(after[k], at, p)
    BY <1>1, <1>n DEF Insertions
  <1> DEFINE Good == {k \in 0 .. N : Filled(A, s, after[k].kids[p], i, fresh, 0, k)}
  <1>3. 0 \in Good
    BY <1>0, <1>2, FillNothing
  <1>4. ASSUME NEW k \in 1 .. N, k - 1 \in Good PROVE k \in Good
    <2>m. PICK m, U, u, W, w, ak : /\ m = k - 1 /\ U = after[k - 1] /\ u = U.kids[p]
                                 /\ W = after[k] /\ w = W.kids[p] /\ ak = Onward(at, k)
      OBVIOUS
    <2>0. m \in Nat /\ m + 1 = k /\ m \in 0 .. N /\ m + 1 <= N /\ k \in Nat \ {0}
      BY <1>0, <2>m
    <2>1. Filled(A, s, u, i, fresh, 0, m)
      BY <1>4, <2>m
    <2>2. Sound(U, A) /\ Addresses(U, at, p) /\ U \in TreeDocs(A)
      BY <1>2, <2>0, <2>m DEF Edited, Sound
    <2>3. Spot(U, ak) = i + m
      <3>1. PICK o : o = 0
        OBVIOUS
      <3>2. Beside(at) => Absent(at.node, fresh, o, m)
        <4>1. o \in Nat /\ m \in Nat /\ o + m <= Len(fresh)
          BY <1>0, <1>n, <2>0, <3>1
        <4>2. QED
          BY <1>0, <4>1, NeverBeside
      <3>3. Filled(A, s, u, i, fresh, o, m) /\ u = U.kids[p]
        BY <2>1, <2>m, <3>1
      <3>4. Spot(U, Onward(at, m + 1)) = PlaceAfter(at, m, i)
        BY <1>0, <2>2, <3>2, <3>3, SpotOnward
      <3>5. QED
        BY <2>0, <2>m, <3>4 DEF PlaceAfter
    <2>4. Addresses(U, ak, p)
      BY <2>0, <2>2, <2>m, OnwardTyped DEF Addresses, ParentAt, Beside
    <2>5. fresh[k] \in A /\ W = Insert1(U, fresh[k], ak)
      BY <1>0, <1>2, <1>n, <2>m
    <2>6. w = Splice(u, i + m, i + m, <<fresh[k]>>)
      <3>1. PICK x, z : x = fresh[k] /\ z = Spot(U, ak)
        OBVIOUS
      <3>2. Sound(U, A) /\ x \in A /\ Addresses(U, ak, p) /\ W = Insert1(U, x, ak)
        BY <2>2, <2>4, <2>5, <3>1
      <3>3. W.kids[p] = Splice(U.kids[p], z, z, <<x>>)
        <4>1. Insert1(U, x, ak).kids[p] = Splice(U.kids[p], Spot(U, ak), Spot(U, ak), <<x>>)
          BY <3>2, Insert1Splices
        <4>2. QED
          BY <3>1, <3>2, <4>1
      <3>4. QED
        BY <2>3, <2>m, <3>1, <3>3
    <2>7. Filled(A, s, w, i, fresh, 0, m + 1)
      <3>1. w = Splice(u, i + m, i + m, <<fresh[m + 1]>>) /\ m + 1 <= Len(fresh)
        BY <1>n, <2>0, <2>6
      <3>2. QED
        BY <2>1, <3>1, FillAfter
    <2>8. QED
      BY <2>0, <2>7, <2>m
  <1>5. N \in Good
    <2>1. \A k \in 1 .. N : k - 1 \in Good => k \in Good
      BY <1>4
    <2> HIDE DEF Good
    <2>2. 0 .. N \subseteq Good
      BY <1>0, <1>3, <2>1, UpTo, Zenon
    <2>3. QED
      BY <1>0, <2>2
  <1>6. QED
    BY <1>2, <1>5, <1>n

\* facade.insert, back to front.
LEMMA BackwardFills ==
  ASSUME NEW A \in SUBSET Nodes, NEW T, NEW at, NEW p, NEW s, NEW i, NEW fresh,
         Filling(T, at, p, s, i, fresh, A), at.how \in {"first_child", "after"},
         NEW R, R = InsertEach(T, Reverse(fresh), at)
  PROVE  Filled(A, s, R.kids[p], i, fresh, 0, Len(fresh))
  <1>n. PICK N, order : N = Len(fresh) /\ order = Reverse(fresh)
    OBVIOUS
  <1>0. /\ Sound(T, A) /\ Addresses(T, at, p) /\ s = T.kids[p] /\ IsInjective(s)
        /\ fresh \in Seq(A) /\ ToSet(fresh) \cap ToSet(s) = {}
        /\ Marks(s, at, i) /\ i \in 0 .. Len(s) /\ s \in Seq(A) /\ N \in Nat
    BY <1>n DEF Filling
  <1>r. order \in Seq(A) /\ Len(order) = N /\ \A k \in 1 .. N : order[k] = fresh[N - k + 1]
    BY <1>0, <1>n DEF Reverse
  <1>1. PICK after : Insertions(T, order, at, p, A, after)
    BY <1>0, <1>r, InsertUnfolds
  <1>2. /\ after[0] = T /\ after[N] = R
        /\ \A k \in 1 .. N : after[k] = Insert1(after[k - 1], order[k], Onward(at, k))
        /\ \A k \in 0 .. N : Edited(T, after[k], p, A) /\ Addresses(after[k], at, p)
    BY <1>1, <1>n, <1>r DEF Insertions
  <1> DEFINE Good == {k \in 0 .. N : Filled(A, s, after[k].kids[p], i, fresh, N - k, k)}
  <1>3. 0 \in Good
    BY <1>0, <1>2, FillNothing
  <1>4. ASSUME NEW k \in 1 .. N, k - 1 \in Good PROVE k \in Good
    <2>m. PICK m, o, U, u, W, w, ak :
            /\ m = k - 1 /\ o = N - (k - 1) /\ U = after[k - 1] /\ u = U.kids[p]
            /\ W = after[k] /\ w = W.kids[p] /\ ak = Onward(at, k)
      OBVIOUS
    <2>0. /\ m \in Nat /\ m + 1 = k /\ m \in 0 .. N /\ k \in Nat \ {0}
          /\ o \in Nat /\ o \in 1 .. N /\ o - 1 = N - k /\ o = N - k + 1 /\ o + m = N
      BY <1>0, <2>m
    <2>1. Filled(A, s, u, i, fresh, o, m)
      BY <1>4, <2>m
    <2>2. Sound(U, A) /\ Addresses(U, at, p) /\ U \in TreeDocs(A)
      BY <1>2, <2>0, <2>m DEF Edited, Sound
    <2>3. Spot(U, ak) = i
      <3>2. Beside(at) => Absent(at.node, fresh, o, m)
        <4>1. o \in Nat /\ m \in Nat /\ o + m <= Len(fresh)
          BY <1>0, <1>n, <2>0
        <4>2. QED
          BY <1>0, <4>1, NeverBeside
      <3>3. Filled(A, s, u, i, fresh, o, m) /\ u = U.kids[p]
        BY <2>1, <2>m
      <3>4. Spot(U, Onward(at, m + 1)) = PlaceAfter(at, m, i)
        BY <1>0, <2>2, <3>2, <3>3, SpotOnward
      <3>5. QED
        BY <2>0, <2>m, <3>4 DEF PlaceAfter
    <2>4. Addresses(U, ak, p)
      BY <2>0, <2>2, <2>m, OnwardTyped DEF Addresses, ParentAt, Beside
    <2>5. order[k] = fresh[o] /\ order[k] \in A /\ W = Insert1(U, order[k], ak)
      <3>1. order[k] = fresh[N - k + 1] /\ k \in 1 .. Len(order)
        BY <1>r
      <3>2. order[k] \in A
        BY <1>r, <3>1
      <3>3. W = Insert1(U, order[k], ak)
        BY <1>2, <2>m
      <3>4. QED
        BY <2>0, <3>1, <3>2, <3>3
    <2>6. w = Splice(u, i, i, <<fresh[o]>>)
      <3>1. PICK x, z : x = order[k] /\ z = Spot(U, ak)
        OBVIOUS
      <3>2. Sound(U, A) /\ x \in A /\ Addresses(U, ak, p) /\ W = Insert1(U, x, ak)
        BY <2>2, <2>4, <2>5, <3>1
      <3>3. W.kids[p] = Splice(U.kids[p], z, z, <<x>>)
        <4>1. Insert1(U, x, ak).kids[p] = Splice(U.kids[p], Spot(U, ak), Spot(U, ak), <<x>>)
          BY <3>2, Insert1Splices
        <4>2. QED
          BY <3>1, <3>2, <4>1
      <3>4. QED
        BY <2>3, <2>5, <2>m, <3>1, <3>3
    <2>7. Filled(A, s, w, i, fresh, o - 1, m + 1)
      <3>1. o \in 1 .. Len(fresh)
        BY <1>n, <2>0
      <3>2. QED
        BY <2>1, <2>6, <3>1, FillBefore
    <2>8. QED
      BY <2>0, <2>7, <2>m
  <1>5. N \in Good
    <2>1. \A k \in 1 .. N : k - 1 \in Good => k \in Good
      BY <1>4
    <2> HIDE DEF Good
    <2>2. 0 .. N \subseteq Good
      BY <1>0, <1>3, <2>1, UpTo, Zenon
    <2>3. QED
      BY <1>0, <2>2
  <1>6. N - N = 0
    BY <1>0
  <1>7. QED
    BY <1>2, <1>5, <1>6, <1>n

\* Either way the fragment stands at the place, together and in its order.
LEMMA InsertAllFills ==
  ASSUME NEW A \in SUBSET Nodes, NEW T, NEW at, NEW p, NEW s, NEW i, NEW fresh,
         Filling(T, at, p, s, i, fresh, A), NEW R, R = InsertAll(T, fresh, at)
  PROVE  Filled(A, s, R.kids[p], i, fresh, 0, Len(fresh))
  <1>1. CASE at.how \in {"first_child", "after"}
    <2>1. R = InsertEach(T, Reverse(fresh), at)
      BY <1>1 DEF InsertAll
    <2>2. QED
      BY <1>1, <2>1, BackwardFills
  <1>2. CASE at.how \notin {"first_child", "after"}
    <2>1. R = InsertEach(T, fresh, at)
      BY <1>2 DEF InsertAll
    <2>2. QED
      BY <1>2, <2>1, ForwardFills
  <1>3. QED
    BY <1>1, <1>2

\* A fragment of new leaves, for any place in a tree.
LEMMA LeavesFill ==
  ASSUME NEW A \in SUBSET Nodes, NEW T, Sound(T, A), Kempt(T), NEW at, NEW p \in Under(T),
         Addresses(T, at, p), NEW fresh \in Seq(A), Leaves(T, A, ToSet(fresh))
  PROVE  \E s, i : Filling(T, at, p, s, i, fresh, A)
  <1>s. PICK s, i : s = T.kids[p] /\ i = Spot(T, at)
    OBVIOUS
  <1>1. T \in TreeDocs(A) /\ p \in Nodes
    BY DEF Sound, Addresses
  <1>2. s \in Seq(A) /\ IsInjective(s) /\ ToSet(s) \subseteq Under(T)
    BY <1>1, <1>s, SoundKids, LiveKids DEF Kempt, Hangs
  <1>3. Marks(s, at, i) /\ i \in 0 .. Len(s)
    BY <1>1, <1>s, SpotMarks
  <1>4. ToSet(fresh) \cap ToSet(s) = {}
    BY <1>2 DEF Leaves
  <1>5. Filling(T, at, p, s, i, fresh, A)
    BY <1>2, <1>3, <1>4, <1>s DEF Filling
  <1>6. QED
    BY <1>5

\* facade.insert puts a fragment where it is asked to.
LEMMA InsertLands ==
  ASSUME NEW A \in SUBSET Nodes, NEW T, Sound(T, A), Kempt(T), NEW at \in Ats, Resolves(T, at),
         NEW fresh \in Seq(A), IsInjective(fresh), fresh # <<>>, Leaves(T, A, ToSet(fresh))
  PROVE  Stands(InsertAll(T, fresh, at), fresh, at)
  <1>p. PICK p, R, u : p = ParentAt(T, at) /\ R = InsertAll(T, fresh, at) /\ u = R.kids[p]
    OBVIOUS
  <1>1. p \in Under(T) /\ Addresses(T, at, p)
    BY <1>p, ResolvesBelow
  <1>2. PICK s, i : Filling(T, at, p, s, i, fresh, A)
    BY <1>1, LeavesFill
  <1>3. Filled(A, s, u, i, fresh, 0, Len(fresh))
    BY <1>2, <1>p, InsertAllFills
  <1>4. ParentAt(R, at) = p
    <2>o. PICK order : order = IF at.how \in {"first_child", "after"} THEN Reverse(fresh) ELSE fresh
      OBVIOUS
    <2>1. order \in Seq(A) /\ R = InsertEach(T, order, at)
      BY <1>p, <2>o, ReverseHolds DEF InsertAll
    <2>2. PICK after : Insertions(T, order, at, p, A, after)
      BY <1>1, <2>1, InsertUnfolds
    <2>3. Len(order) \in 0 .. Len(order)
      BY <2>1
    <2>4. Addresses(R, at, p)
      BY <2>1, <2>2, <2>3 DEF Insertions
    <2>5. QED
      BY <2>4 DEF Addresses
  <1>5. R.kids[ParentAt(R, at)] = u
    BY <1>4, <1>p
  <1>6. IsInjective(s) /\ ToSet(fresh) \cap ToSet(s) = {} /\ Marks(s, at, i)
    BY <1>2 DEF Filling
  <1>7. Stands(R, fresh, at)
    BY <1>3, <1>5, <1>6, FilledStands
  <1>8. QED
    BY <1>7, <1>p

\* R is V with the sequence c as the children of q, and the nodes ns hung on q.
Attaches(V, R, q, c, ns) ==
  /\ R.kids[q] = c /\ \A n \in Nodes \ {q} : R.kids[n] = V.kids[n]
  /\ Rehung(V, R, ns, q) /\ R.root = V.root

\* _attach, child by child.
LEMMA AttachShape ==
  ASSUME NEW A \in SUBSET Nodes, NEW m, m \in Moves(A), NEW O, O = doc[m.dst], Sound(O, A),
         Resolves(O, m.at), NEW q, q = ParentAt(O, m.at), NEW i, i = Spot(O, m.at),
         NEW V, Sound(V, A), NEW R, R = Attached(m, V)
  PROVE  Attaches(V, R, q, Splice(V.kids[q], i, i, m.roots), ToSet(m.roots))
  <1>n. PICK ns, s, c, out, new : /\ ns = ToSet(out) /\ s = V.kids[q] /\ out = m.roots
                                  /\ c = Splice(s, i, i, out) /\ new = Walked(V, out)
    OBVIOUS
  <1>s. PICK S : S = Shifted(V, q, c)
    OBVIOUS
  <1>l. PICK L : L = Adopted(S, q, out)
    OBVIOUS
  <1>r. R = Registered(L, new)
    BY <1>n, <1>s, <1>l DEF Attached, Shifted
  <1>0. O \in TreeDocs(A) /\ V \in TreeDocs(A) /\ m.at \in Ats /\ out \in Seq(A)
    BY <1>n DEF Moves, Sound
  <1>1. Addresses(O, m.at, q)
    BY <1>0, ResolvesAddresses
  <1>2. i \in Nat /\ q \in Nodes
    <2>1. i \in 0 .. Len(O.kids[q])
      BY <1>0, <1>1, SpotTyped
    <2>2. q \in Nodes
      BY <1>1 DEF Addresses
    <2>3. QED
      BY <2>1, <2>2
  <1>3. s \in Seq(A) /\ c \in Seq(A)
    <2>1. s \in Seq(A)
      BY <1>0, <1>2, <1>n DEF TreeDocs
    <2>2. c \in Seq(A)
      BY <1>0, <1>2, <1>n, <2>1, SpliceTyped
    <2>3. QED
      BY <2>1, <2>2
  <1>4. Sound(S, A)
    BY <1>2, <1>3, <1>s, UnsyncedSound
  <1>5. S.up = V.up /\ S.root = V.root /\ Rechilded(V, S, q, c)
    BY <1>2, <1>3, <1>s, ShiftedShape
  <1>6. Sound(L, A) /\ SameTree(S, L)
    BY <1>2, <1>4, <1>l, AdoptedSound
  <1>7. Rehung(S, L, ns, q)
    BY <1>2, <1>4, <1>l, <1>n, AdoptedShape
  <1>8. new \in Seq(A)
    <2>1. V.root \in A /\ V.kids \in [Nodes -> Seq(A)]
      BY DEF Sound, TreeDocs
    <2>2. QED
      BY <1>0, <1>n, <2>1, UnderTyped
  <1>9. SameTree(L, R) /\ R.up = L.up
    BY <1>r, <1>6, <1>8, RegisteredSound
  <1>10. R.kids[q] = c /\ R.root = V.root /\ \A n \in Nodes \ {q} : R.kids[n] = V.kids[n]
    BY <1>5, <1>6, <1>9 DEF SameTree, Rechilded
  <1>11. Rehung(V, R, ns, q)
    BY <1>5, <1>7, <1>9 DEF Rehung
  <1>12. QED
    BY <1>10, <1>11, <1>n DEF Attaches

\* _detach, child by child.
LEMMA DetachShape ==
  ASSUME NEW A \in SUBSET Nodes, NEW m, m \in Moves(A), NEW T, T = doc[m.src], Sound(T, A),
         NEW S, S = Detached(m)
  PROVE  S.kids[m.cut.of] = Splice(T.kids[m.cut.of], m.cut.from - 1, m.cut.to, <<>>)
  <1>p. PICK p, c, e0 : /\ p = m.cut.of /\ e0 = <<>>
                        /\ c = Splice(T.kids[p], m.cut.from - 1, m.cut.to, e0)
    OBVIOUS
  <1>s. PICK U : U = Shifted(T, p, c)
    OBVIOUS
  <1>0. p \in Nodes /\ m.roots \in Seq(A) /\ m.cut.from - 1 \in Nat /\ m.cut.to \in Nat
        /\ T.kids[p] \in Seq(A)
    <2>1. p \in A /\ m.roots \in Seq(A) /\ m.cut.from \in Nat \ {0} /\ m.cut.to \in Nat
      BY <1>p DEF Moves, Cuts
    <2>2. T.kids[p] \in Seq(A)
      BY <2>1 DEF Sound, TreeDocs
    <2>3. QED
      BY <2>1, <2>2
  <1>1. c \in Seq(A)
    <2>1. e0 \in Seq(A)
      BY <1>p
    <2>2. QED
      BY <1>0, <1>p, <2>1, SpliceTyped
  <1>2. S = Unregistered(U, m.roots)
    BY <1>p, <1>s DEF Detached, Shifted
  <1>3. Sound(U, A)
    BY <1>0, <1>1, <1>s, UnsyncedSound
  <1>4. Rechilded(T, U, p, c)
    BY <1>0, <1>1, <1>s, ShiftedShape
  <1>5. SameTree(U, S)
    BY <1>0, <1>2, <1>3, UnregisteredSound
  <1>6. S.kids[p] = c
    BY <1>4, <1>5 DEF SameTree, Rechilded
  <1>7. QED
    BY <1>6, <1>p

\* A place in front of what is cut out is the same place afterwards.
LEMMA MarksBefore ==
  ASSUME NEW S, NEW s, NEW u, NEW f, NEW t, NEW none, none = <<>>, Spliced(S, s, u, f, t, none),
         f < t, NEW at \in Ats, NEW i \in 0 .. Len(s), i <= f, Marks(s, at, i),
         s[f + 1] # at.node
  PROVE  Marks(u, at, i) /\ i \in 0 .. Len(u)
  <1>0. /\ s \in Seq(S) /\ u \in Seq(S) /\ f \in 0 .. Len(s) /\ t \in f .. Len(s)
        /\ Len(u) = Len(s) - (t - f) + Len(none)
        /\ \A k \in 1 .. f : u[k] = s[k]
    BY Zenon DEF Spliced
  <1>1. /\ f \in Nat /\ t \in Nat /\ Len(s) \in Nat /\ t <= Len(s) /\ i \in Nat /\ Len(u) \in Nat
        /\ Len(u) >= f /\ i < Len(s) /\ DOMAIN s = 1 .. Len(s) /\ DOMAIN u = 1 .. Len(u)
    BY <1>0
  <1>2. at.how \in Hows /\ at.index \in Nat
    BY DEF Ats
  <1>3. CASE at.how \in {"first_child", "last_child"}
    <2>1. i # Len(s)
      <3>1. PICK l : l = Len(s)
        OBVIOUS
      <3>2. i < l /\ i \in Nat /\ l \in Nat
        BY <1>1, <3>1
      <3>3. i # l
        BY <3>2
      <3>4. QED
        BY <3>1, <3>3
    <2>2. at.how = "first_child" /\ i = 0
      BY <1>3, <2>1 DEF Marks
    <2>3. i \in 0 .. Len(u)
      BY <1>1, <2>2
    <2>4. QED
      BY <2>2, <2>3 DEF Marks
  <1>4. CASE at.how = "child_index"
    <2>1. i = Min({at.index, Len(s)})
      BY <1>4 DEF Marks
    <2>2. i = at.index
      BY <1>1, <1>2, <2>1, MinTyped
    <2>3. Min({at.index, Len(u)}) = at.index
      BY <1>1, <1>2, <2>2, MinTyped
    <2>4. QED
      BY <1>1, <1>4, <2>2, <2>3 DEF Marks
  <1>5. CASE at.how = "before"
    <2>1. s[i + 1] = at.node
      BY <1>5 DEF Marks
    <2>2. i # f
      BY <2>1
    <2>3. i + 1 \in 1 .. f /\ i + 1 \in DOMAIN u
      BY <1>1, <2>2
    <2>4. u[i + 1] = at.node
      BY <1>0, <2>1, <2>3
    <2>5. QED
      BY <1>1, <1>5, <2>3, <2>4 DEF Marks
  <1>6. CASE at.how = "after"
    <2>1. s[i] = at.node /\ i \in DOMAIN s
      BY <1>6 DEF Marks
    <2>2. i \in 1 .. f /\ i \in DOMAIN u
      BY <1>1, <2>1
    <2>3. u[i] = at.node
      BY <1>0, <2>1, <2>2
    <2>4. QED
      BY <1>1, <1>6, <2>2, <2>3 DEF Marks
  <1>7. QED
    BY <1>2, <1>3, <1>4, <1>5, <1>6 DEF Hows

\* Nodes attached to V at a place that is the one asked for stand there.
LEMMA AttachLands ==
  ASSUME NEW A, NEW V, NEW R, NEW q, NEW s, s \in Seq(A), s = V.kids[q], IsInjective(s),
         NEW out, out \in Seq(A), IsInjective(out), out # <<>>, ToSet(out) \cap ToSet(s) = {},
         NEW i, i \in 0 .. Len(s), NEW at, at \in Ats, Marks(s, at, i),
         Attaches(V, R, q, Splice(s, i, i, out), ToSet(out)), ParentAt(R, at) = q
  PROVE  Stands(R, out, at)
  <1>u. PICK u : u = Splice(s, i, i, out)
    OBVIOUS
  <1>1. s \in Seq(A) /\ i \in 0 .. Len(s) /\ i \in i .. Len(s) /\ out \in Seq(A)
    OBVIOUS
  <1>2. Spliced(A, s, u, i, i, out)
    BY <1>1, <1>u, SpliceAt
  <1>3. Filled(A, s, u, i, out, 0, Len(out))
    BY <1>2, SplicedFills
  <1>4. R.kids[ParentAt(R, at)] = u
    BY <1>u DEF Attaches
  <1>5. QED
    BY <1>3, <1>4, FilledStands

\* A move within a document, once detached: the place is still the one asked for.
LEMMA MovePlaceSame ==
  ASSUME NEW A \in SUBSET Nodes, NEW m, m \in Moves(A), NEW T, T = doc[m.src], Sound(T, A),
         Kempt(T), StillThere(m), Aimed(m, T), m.src = m.dst, Resolves(T, m.at), ~Overshoots(m),
         NEW S, S = Detached(m), NEW q, q = ParentAt(T, m.at), NEW i, i = Spot(T, m.at)
  PROVE  Marks(S.kids[q], m.at, i) /\ i \in 0 .. Len(S.kids[q])
  <1>n. PICK p, s, f, t, at, none : /\ p = m.cut.of /\ s = T.kids[p] /\ f = m.cut.from - 1
                                    /\ t = m.cut.to /\ at = m.at /\ none = <<>>
    OBVIOUS
  <1>0. at \in Ats /\ T \in TreeDocs(A)
    BY <1>n DEF Moves, Sound
  <1>1. Addresses(T, at, q)
    BY <1>0, <1>n, ResolvesAddresses
  <1>2. Marks(T.kids[q], at, i) /\ i \in 0 .. Len(T.kids[q])
    BY <1>0, <1>1, <1>n, SpotMarks
  <1>3. p \in Under(T) /\ Cutting(T, m.cut, A)
    BY <1>n, CutBelow
  <1>4. \A n \in Nodes \ {p} : S.kids[n] = T.kids[n]
    BY <1>n, DetachKept
  <1>5. CASE q # p
    <2>1. S.kids[q] = T.kids[q]
      BY <1>1, <1>4, <1>5 DEF Addresses
    <2>2. QED
      BY <1>2, <1>n, <2>1
  <1>6. CASE q = p
    <2>1. m.at.node \notin ToSet(m.roots) /\ i < m.cut.from
      <3>1. ~(m.at.node \in ToSet(m.roots) \/ Spot(doc[m.dst], m.at) >= m.cut.from)
        BY <1>6, <1>n DEF Overshoots
      <3>2. i \in 0 .. Len(T.kids[q]) /\ m.cut.from \in Nat
        BY <1>2, <1>3 DEF Cutting, Cuts
      <3>3. ~(i >= m.cut.from)
        BY <3>1
      <3>4. T.kids[q] \in Seq(A)
        BY <1>0, <1>1 DEF TreeDocs, Addresses
      <3>5. QED
        BY <3>1, <3>2, <3>3, <3>4
    <2>2. /\ s \in Seq(A) /\ p \in Nodes /\ m.cut.from \in Nat \ {0} /\ m.cut.to \in Nat
          /\ m.cut.from <= m.cut.to /\ m.cut.to <= Len(s)
      <3>1. m.cut \in Cuts(A) /\ m.cut.to <= Len(s)
        BY <1>3, <1>n DEF Cutting
      <3>2. p \in A
        BY <1>n, <3>1 DEF Cuts
      <3>3. s \in Seq(A)
        BY <1>0, <1>n, <3>2 DEF TreeDocs
      <3>4. QED
        BY <3>1, <3>2, <3>3 DEF Cuts
    <2>3. /\ f \in 0 .. Len(s) /\ t \in f .. Len(s) /\ f < t /\ f + 1 = m.cut.from
          /\ none \in Seq(A)
      <3>1. PICK a, b, l : a = m.cut.from /\ b = m.cut.to /\ l = Len(s)
        OBVIOUS
      <3>2. a \in Nat \ {0} /\ b \in Nat /\ l \in Nat /\ a <= b /\ b <= l
        BY <2>2, <3>1
      <3>3. f = a - 1 /\ t = b
        BY <1>n, <3>1
      <3>4. f \in 0 .. l /\ t \in f .. l /\ f < t /\ f + 1 = a
        BY <3>2, <3>3
      <3>5. none \in Seq(A)
        BY <1>n
      <3>6. QED
        BY <3>1, <3>4, <3>5
    <2>4. i <= f /\ i \in 0 .. Len(s)
      <3>1. PICK j, a, l : j = i /\ a = m.cut.from /\ l = Len(s)
        OBVIOUS
      <3>2. T.kids[q] = s
        BY <1>6, <1>n
      <3>3. i \in 0 .. Len(s)
        BY <1>2, <3>2
      <3>4. l \in Nat /\ a \in Nat /\ j \in 0 .. l /\ j < a /\ f = a - 1
        <4>1. l \in Nat /\ a \in Nat
          BY <2>2, <3>1
        <4>2. j \in 0 .. l
          BY <3>1, <3>3
        <4>3. j < a
          BY <2>1, <3>1
        <4>4. f = a - 1
          BY <1>n, <3>1
        <4>5. QED
          BY <4>1, <4>2, <4>3, <4>4
      <3>5. j <= f
        BY <3>4
      <3>6. QED
        BY <3>1, <3>3, <3>5
    <2>5. s[f + 1] # at.node
      <3>1. Run(T, m.cut) = m.roots
        BY <1>n DEF StillThere
      <3>2. m.roots = SubSeq(s, f + 1, t)
        BY <1>n, <2>3, <3>1 DEF Run
      <3>3. Len(SubSeq(s, f + 1, t)) = t - f /\ \A k \in 1 .. t - f : SubSeq(s, f + 1, t)[k] = s[f + k]
        BY <2>2, <2>3, SubSeqAt
      <3>4. 1 \in 1 .. t - f
        BY <2>2, <2>3
      <3>5. m.roots[1] = s[f + 1] /\ 1 \in DOMAIN m.roots
        <4>1. m.roots \in Seq(A)
          BY DEF Moves
        <4>2. Len(m.roots) = t - f /\ m.roots[1] = s[f + 1]
          BY <3>2, <3>3, <3>4
        <4>3. QED
          BY <3>4, <4>1, <4>2
      <3>6. s[f + 1] \in ToSet(m.roots)
        BY <3>5 DEF ToSet
      <3>7. QED
        BY <1>n, <2>1, <3>6
    <2>u. PICK u : u = Splice(s, f, t, none)
      OBVIOUS
    <2>6. S.kids[q] = u
      BY <1>6, <1>n, <2>u, DetachShape
    <2>7. Spliced(A, s, u, f, t, none)
      BY <2>2, <2>3, <2>u, SpliceAt
    <2>8. Marks(s, at, i)
      BY <1>2, <1>6, <1>n
    <2>9. none = <<>> /\ f < t /\ at \in Ats
      BY <1>0, <1>n, <2>3
    <2>10. Marks(u, at, i) /\ i \in 0 .. Len(u)
      BY <2>4, <2>5, <2>7, <2>8, <2>9, MarksBefore
    <2>11. QED
      BY <1>n, <2>6, <2>10
  <1>7. QED
    BY <1>5, <1>6

\* A move that goes through and does not overshoot puts its nodes where asked.
LEMMA MoveLands ==
  ASSUME NEW A \in SUBSET Nodes, NEW m, m \in Moves(A), DOMAIN doc = Docs,
         \A d \in Docs : Sound(doc[d], A) /\ Kempt(doc[d]),
         Admitted(m), StillThere(m), Aimed(m, doc[m.src]), ~Overshoots(m)
  PROVE  Stands(MovedDocs(m)[m.dst], m.roots, m.at)
  <1>n. PICK T, O, out, ns, p, q, i, at, D :
          /\ T = doc[m.src] /\ O = doc[m.dst] /\ out = m.roots /\ ns = ToSet(out)
          /\ p = m.cut.of /\ q = ParentAt(O, m.at) /\ i = Spot(O, m.at) /\ at = m.at
          /\ D = MovedDocs(m)
    OBVIOUS
  <1>s. PICK S : S = Detached(m)
    OBVIOUS
  <1>0. /\ m.src \in Docs /\ m.dst \in Docs /\ out \in Seq(A) /\ IsInjective(out) /\ out # <<>>
        /\ Sound(T, A) /\ Kempt(T) /\ Sound(O, A) /\ Kempt(O) /\ at \in Ats
    BY <1>n DEF Moves, Aimed
  <1>1. /\ Pruned(T, S, p, ns) /\ Severed(T, S, ns) /\ Sound(S, A)
        /\ \A n \in Nodes \ {p} : S.kids[n] = T.kids[n]
    <2>1. T = doc[m.src] /\ Sound(T, A) /\ Kempt(T) /\ StillThere(m) /\ Aimed(m, T) /\ S = Detached(m)
      BY <1>0, <1>n, <1>s
    <2>2. /\ Pruned(T, S, m.cut.of, ToSet(m.roots)) /\ Severed(T, S, ToSet(m.roots))
          /\ Sound(S, A)
          /\ \A n \in Nodes \ {m.cut.of} : S.kids[n] = T.kids[n]
      BY <2>1, DetachKept
    <2>3. QED
      BY <1>n, <2>2
  <1>f. PICK F : F = Below(T.kids, ns)
    OBVIOUS
  <1>2. Kempt(S) /\ Under(S) = Under(T) \ F /\ ns \subseteq F
    BY <1>1, <1>f DEF Pruned, Severed
  <1>3. /\ Fragment(doc[m.src], m.roots) = F /\ Fragment(S, m.roots) = F
        /\ F \subseteq Under(T)
    <2>1. /\ Fragment(T, out) = F /\ Fragment(S, out) = F /\ F \subseteq Under(T)
      BY <1>0, <1>1, <1>f, <1>n, CutLoose
    <2>2. QED
      BY <1>n, <2>1
  <1>4. /\ Resolves(O, at) /\ q \notin F /\ q \in Under(O) /\ q \in Nodes
        /\ m.src # m.dst => F \cap Under(O) = {}
    <2>1. /\ Resolves(O, at) /\ q \notin F
          /\ m.src # m.dst => F \cap O.known = {}
      BY <1>3, <1>n DEF Admitted
    <2>2. q \in Under(O)
      BY <1>0, <1>n, <2>1, ResolvesBelow
    <2>3. QED
      BY <1>0, <2>1, <2>2, LiveKids DEF Kempt
  <1>5. ASSUME NEW V, Sound(V, A), Kempt(V), q \in Under(V), ns \cap Under(V) = {},
               Marks(V.kids[q], at, i), i \in 0 .. Len(V.kids[q]),
               Beside(at) => at.node \in ns \/ V.up[at.node] = q
        PROVE  Stands(Attached(m, V), out, at)
    <2>r. PICK R, s : R = Attached(m, V) /\ s = V.kids[q]
      OBVIOUS
    <2>1. Attaches(V, R, q, Splice(s, i, i, out), ns)
      <3>1. /\ O = doc[m.dst] /\ Sound(O, A) /\ Resolves(O, m.at) /\ q = ParentAt(O, m.at)
            /\ i = Spot(O, m.at) /\ Sound(V, A) /\ R = Attached(m, V) /\ m \in Moves(A)
        BY <1>0, <1>4, <1>5, <1>n, <2>r
      <3>2. Attaches(V, R, q, Splice(V.kids[q], i, i, m.roots), ToSet(m.roots))
        BY <3>1, AttachShape
      <3>3. QED
        BY <1>n, <2>r, <3>2
    <2>2. ParentAt(R, at) = q
      <3>1. CASE Beside(at)
        <4>1. R.up[at.node] = IF at.node \in ns THEN q ELSE V.up[at.node]
          BY <1>0, <2>1 DEF Attaches, Rehung, Ats
        <4>2. QED
          BY <1>5, <3>1, <4>1 DEF ParentAt
      <3>2. CASE ~Beside(at)
        BY <1>n, <3>2 DEF ParentAt
      <3>3. QED
        BY <3>1, <3>2
    <2>3. s \in Seq(A) /\ IsInjective(s) /\ ns \cap ToSet(s) = {}
      <3>1. s \in Seq(A) /\ ToSet(s) \subseteq Under(V)
        BY <1>4, <1>5, <2>r, SoundKids, LiveKids
      <3>2. IsInjective(s)
        <4>1. Under(V) = Reach(V.kids, V.root) /\ Hangs(V.kids, V.root, V.up)
          BY <1>5, SoundKids, Zenon DEF Kempt
        <4>2. q \in Reach(V.kids, V.root)
          BY <1>5, <4>1
        <4>3. IsInjective(V.kids[q])
          BY <4>1, <4>2, Zenon DEF Hangs
        <4>4. QED
          BY <2>r, <4>3
      <3>3. QED
        BY <1>5, <3>1, <3>2
    <2>4. Stands(R, out, at)
      <3>1. /\ s \in Seq(A) /\ s = V.kids[q] /\ IsInjective(s) /\ out \in Seq(A)
            /\ IsInjective(out) /\ out # <<>> /\ ToSet(out) \cap ToSet(s) = {}
            /\ i \in 0 .. Len(s) /\ at \in Ats /\ Marks(s, at, i)
            /\ Attaches(V, R, q, Splice(s, i, i, out), ToSet(out)) /\ ParentAt(R, at) = q
        BY <1>0, <1>5, <1>n, <2>1, <2>2, <2>3, <2>r
      <3>2. QED
        BY <3>1, AttachLands
    <2>5. QED
      BY <2>4, <2>r
  <1>6. Beside(at) => O.up[at.node] = q
    BY <1>n DEF ParentAt
  <1>7. CASE m.src = m.dst
    <2>1. D[m.dst] = Attached(m, S) /\ O = T
      BY <1>0, <1>7, <1>n, <1>s DEF MovedDocs
    <2>2. Marks(S.kids[q], at, i) /\ i \in 0 .. Len(S.kids[q])
      <3>1. /\ m \in Moves(A) /\ T = doc[m.src] /\ Sound(T, A) /\ Kempt(T) /\ StillThere(m)
            /\ Aimed(m, T) /\ m.src = m.dst /\ Resolves(T, m.at) /\ ~Overshoots(m)
            /\ S = Detached(m) /\ q = ParentAt(T, m.at) /\ i = Spot(T, m.at)
        BY <1>0, <1>4, <1>7, <1>n, <1>s, <2>1
      <3>2. Marks(S.kids[q], m.at, i) /\ i \in 0 .. Len(S.kids[q])
        BY <3>1, MovePlaceSame
      <3>3. QED
        BY <1>n, <3>2
    <2>3. Beside(at) => at.node \in ns \/ S.up[at.node] = q
      <3>1. at.node \in Nodes
        BY <1>0 DEF Ats
      <3>2. S.up[at.node] = IF at.node \in ns THEN NoNode ELSE T.up[at.node]
        BY <1>1, <3>1 DEF Pruned, Rehung
      <3>3. QED
        BY <1>6, <2>1, <3>2
    <2>4. q \in Under(S) /\ ns \cap Under(S) = {}
      BY <1>2, <1>4, <2>1
    <2>5. Stands(Attached(m, S), out, at)
      BY <1>1, <1>2, <1>5, <2>2, <2>3, <2>4
    <2>6. QED
      BY <1>n, <2>1, <2>5
  <1>8. CASE m.src # m.dst
    <2>j. PICK J : J = With(O, S, F)
      OBVIOUS
    <2>1. D[m.dst] = Attached(m, J)
      BY <1>0, <1>3, <1>8, <1>n, <1>s, <2>j DEF MovedDocs
    <2>2. Sound(J, A)
      BY <1>0, <1>1, <2>j, WithSound
    <2>3. Kempt(J) /\ Under(J) = Under(O) /\ Enriched(O, S, J, F)
      <3>1. F \cap Under(O) = {}
        BY <1>4, <1>8
      <3>2. QED
        BY <1>0, <1>1, <2>j, <3>1, WithKept
    <2>4. J.kids[q] = O.kids[q]
      BY <1>4, <2>3 DEF Enriched
    <2>5. Marks(J.kids[q], at, i) /\ i \in 0 .. Len(J.kids[q])
      <3>1. Addresses(O, at, q) /\ O \in TreeDocs(A)
        <4>1. O \in TreeDocs(A)
          BY <1>0 DEF Sound
        <4>2. QED
          BY <1>0, <1>4, <1>n, <4>1, ResolvesAddresses
      <3>2. i = Spot(O, at)
        BY <1>n
      <3>3. Marks(O.kids[q], at, i) /\ i \in 0 .. Len(O.kids[q])
        BY <3>1, <3>2, SpotMarks
      <3>4. QED
        BY <2>4, <3>3
    <2>6. Beside(at) => at.node \in ns \/ J.up[at.node] = q
      <3>1. at.node \in Nodes /\ at.node \in Under(O)
        BY <1>0, <1>4 DEF Ats, Resolves, Kempt
      <3>2. at.node \notin F
        BY <1>4, <1>8, <3>1
      <3>3. J.up[at.node] = O.up[at.node]
        BY <2>3, <3>1, <3>2 DEF Enriched
      <3>4. QED
        BY <1>6, <3>3
    <2>7. q \in Under(J) /\ ns \cap Under(J) = {}
      BY <1>2, <1>4, <1>8, <2>3
    <2>8. Stands(Attached(m, J), out, at)
      BY <1>5, <2>2, <2>3, <2>5, <2>6, <2>7
    <2>9. QED
      BY <1>n, <2>1, <2>8
  <1>9. QED
    BY <1>7, <1>8

\* All the addresses there are.
LEMMA HowsAreAts ==
  ASSUME NEW at \in Places(Hows)
  PROVE  at \in Ats
  <1>1. Offsets \subseteq Nat
    BY SizesAssumption
  <1>2. CASE at \in [how : Hows \ {"child_index"}, node : Nodes, index : {0}]
    BY <1>1, <1>2 DEF Ats
  <1>3. CASE at \in [how : Hows \cap {"child_index"}, node : Nodes, index : Offsets]
    BY <1>1, <1>3 DEF Ats
  <1>4. QED
    BY <1>2, <1>3 DEF Places

\* Whatever commands came before, an insertion and a move put their nodes where
\* the address says, together and in order.
THEOREM NodesLand == Spec => []LandsAsAsked
  <1>1. ASSUME IInv, TreesKept, ~strayed, NEW d \in Docs, NEW at \in Places(Hows),
               NEW m \in 1 .. MaxFragment, MayMint(m), Resolves(doc[d], at)
        PROVE  Stands(InsertAll(doc[d], Fresh(m), at), Fresh(m), at)
    <2>n. PICK T, B, fresh : T = doc[d] /\ B = 1 .. minted + m /\ fresh = Fresh(m)
      OBVIOUS
    <2>1. /\ Typed /\ Kempt(T) /\ Barren(doc[d].kids, 1 .. minted) /\ m \in Nat /\ minted \in Nat
      BY <1>1, <2>n, EditedDoc, SizesAssumption
    <2>2. /\ Sound(T, B) /\ B \in SUBSET Nodes /\ fresh \in Seq(B) /\ IsInjective(fresh)
          /\ Leaves(T, B, ToSet(fresh))
      BY <1>1, <2>1, <2>n, FreshKept
    <2>3. fresh # <<>>
      <3>1. 1 \in DOMAIN fresh
        BY <2>1, <2>n DEF Fresh
      <3>2. QED
        BY <3>1
    <2>4. at \in Ats /\ Resolves(T, at)
      BY <1>1, <2>n, HowsAreAts
    <2>5. Stands(InsertAll(T, fresh, at), fresh, at)
      BY <2>1, <2>2, <2>3, <2>4, InsertLands
    <2>6. QED
      BY <2>5, <2>n
  <1>2. ASSUME IInv, TreesKept, ~strayed, pending.stage = "resolved", Admitted(pending),
               StillThere(pending), ~Overshoots(pending)
        PROVE  Stands(MovedDocs(pending)[pending.dst], pending.roots, pending.at)
    <2>n. PICK m, A : m = pending /\ A = 1 .. minted
      OBVIOUS
    <2>1. m \in Moves(A) /\ A \in SUBSET Nodes /\ DOMAIN doc = Docs
      <3>1. m # NoMove
        BY <1>2, <2>n DEF NoMove
      <3>2. QED
        BY <1>2, <2>n, <3>1, InvParts
    <2>2. \A d \in Docs : Sound(doc[d], A) /\ Kempt(doc[d])
      BY <1>2, <2>n, EditedDoc
    <2>3. Aimed(m, doc[m.src])
      BY <1>2, <2>n DEF TreesKept, Steady
    <2>4. Admitted(m) /\ StillThere(m) /\ ~Overshoots(m)
      BY <1>2, <2>n
    <2>5. Stands(MovedDocs(m)[m.dst], m.roots, m.at)
      BY <2>1, <2>2, <2>3, <2>4, MoveLands
    <2>6. QED
      BY <2>5, <2>n
  <1>3. IInv /\ TreesKept => LandsAsAsked
    BY <1>1, <1>2 DEF LandsAsAsked
  <1>4. QED
    BY <1>3, TreesCorrect, PTL


-----------------------------------------------------------------------------
(* What stays where it stands.                                             *)

\* x stands somewhere in s, and y behind it.
Before(s, x, y) == \E a, b \in DOMAIN s : a < b /\ s[a] = x /\ s[b] = y

\* u has what s has of Z, in the same order.
Keeps(s, u, Z) ==
  /\ \A x \in Z : x \in ToSet(s) => x \in ToSet(u)
  /\ \A x, y \in Z : Before(s, x, y) => Before(u, x, y)

\* One stands behind another when it does in either part, or they are in both.
LEMMA ConcatBefore ==
  ASSUME NEW S, NEW s \in Seq(S), NEW t \in Seq(S), NEW x, NEW y
  PROVE  Before(s \o t, x, y)
           <=> \/ Before(s, x, y) \/ Before(t, x, y)
               \/ x \in ToSet(s) /\ y \in ToSet(t)
  <1> DEFINE u == s \o t
             n == Len(s)
             k == Len(t)
  <1>1. n \in Nat /\ k \in Nat /\ DOMAIN s = 1 .. n /\ DOMAIN t = 1 .. k /\ DOMAIN u = 1 .. n + k
    OBVIOUS
  <1>2. (\A i \in 1 .. n : u[i] = s[i]) /\ \A i \in 1 .. k : u[n + i] = t[i]
    OBVIOUS
  <1>3. \A i \in n + 1 .. n + k : i - n \in 1 .. k /\ u[i] = t[i - n]
    OBVIOUS
  <1> HIDE DEF u, n, k
  <1>4. /\ \A i \in 1 .. n : i \in 1 .. n + k
        /\ \A i \in 1 .. k : n + i \in 1 .. n + k
        /\ \A i \in 1 .. n + k : i \in 1 .. n \/ i \in n + 1 .. n + k
    BY <1>1
  <1>5. ASSUME NEW a \in 1 .. n + k, NEW b \in 1 .. n + k, a < b, u[a] = x, u[b] = y
        PROVE  Before(s, x, y) \/ Before(t, x, y) \/ (x \in ToSet(s) /\ y \in ToSet(t))
    <2>1. CASE a \in 1 .. n /\ b \in 1 .. n
      <3>1. s[a] = x /\ s[b] = y
        BY <1>2, <1>5, <2>1
      <3>2. QED
        BY <1>1, <1>5, <2>1, <3>1 DEF Before
    <2>2. CASE a \in 1 .. n /\ b \in n + 1 .. n + k
      <3>1. s[a] = x /\ b - n \in 1 .. k /\ t[b - n] = y
        BY <1>2, <1>3, <1>5, <2>2
      <3>2. QED
        BY <1>1, <2>2, <3>1 DEF ToSet
    <2>3. CASE a \in n + 1 .. n + k /\ b \in n + 1 .. n + k
      <3>1. a - n \in 1 .. k /\ t[a - n] = x /\ b - n \in 1 .. k /\ t[b - n] = y
        BY <1>3, <1>5, <2>3
      <3>2. a - n < b - n
        BY <1>1, <1>5
      <3>3. QED
        BY <1>1, <3>1, <3>2 DEF Before
    <2>4. ~(a \in n + 1 .. n + k /\ b \in 1 .. n)
      BY <1>1, <1>5
    <2>5. QED
      BY <1>4, <1>5, <2>1, <2>2, <2>3, <2>4
  <1>6. ASSUME NEW a \in 1 .. n, NEW b \in 1 .. n, a < b, s[a] = x, s[b] = y
        PROVE  Before(u, x, y)
    BY <1>1, <1>2, <1>4, <1>6 DEF Before
  <1>7. ASSUME NEW a \in 1 .. k, NEW b \in 1 .. k, a < b, t[a] = x, t[b] = y
        PROVE  Before(u, x, y)
    <2>1. n + a < n + b
      BY <1>1, <1>7
    <2>2. u[n + a] = x /\ u[n + b] = y /\ n + a \in DOMAIN u /\ n + b \in DOMAIN u
      BY <1>1, <1>2, <1>4, <1>7
    <2>3. QED
      BY <2>1, <2>2 DEF Before
  <1>8. ASSUME NEW a \in 1 .. n, NEW b \in 1 .. k, s[a] = x, t[b] = y
        PROVE  Before(u, x, y)
    <2>1. a < n + b
      BY <1>1
    <2>2. u[a] = x /\ u[n + b] = y /\ a \in DOMAIN u /\ n + b \in DOMAIN u
      BY <1>1, <1>2, <1>4, <1>8
    <2>3. QED
      BY <2>1, <2>2 DEF Before
  <1>9. Before(u, x, y) => Before(s, x, y) \/ Before(t, x, y) \/ (x \in ToSet(s) /\ y \in ToSet(t))
    BY <1>1, <1>5 DEF Before
  <1>10. Before(s, x, y) => Before(u, x, y)
    BY <1>1, <1>6 DEF Before
  <1>11. Before(t, x, y) => Before(u, x, y)
    BY <1>1, <1>7 DEF Before
  <1>12. x \in ToSet(s) /\ y \in ToSet(t) => Before(u, x, y)
    BY <1>1, <1>8 DEF ToSet
  <1>13. QED
    BY <1>9, <1>10, <1>11, <1>12 DEF u

\* x stands in front of y in the first n of the sequences ss, in one or in two.
Across(ss, n, x, y) ==
  \/ \E i \in 1 .. n : Before(ss[i], x, y)
  \/ \E i, j \in 1 .. n : i < j /\ x \in ToSet(ss[i]) /\ y \in ToSet(ss[j])

\* One sequence more.
LEMMA AcrossNext ==
  ASSUME NEW n \in Nat, n > 1, NEW ss, NEW x, NEW y
  PROVE  Across(ss, n, x, y)
           <=> \/ Across(ss, n - 1, x, y) \/ Before(ss[n], x, y)
               \/ \E i \in 1 .. n - 1 : x \in ToSet(ss[i]) /\ y \in ToSet(ss[n])
  <1>1. /\ \A i \in 1 .. n : i \in 1 .. n - 1 \/ i = n
        /\ \A i \in 1 .. n - 1 : i \in 1 .. n /\ i < n
        /\ n \in 1 .. n
        /\ \A i, j \in 1 .. n : i < j => i \in 1 .. n - 1
    OBVIOUS
  <1>2. ASSUME Across(ss, n, x, y)
        PROVE  \/ Across(ss, n - 1, x, y) \/ Before(ss[n], x, y)
               \/ \E i \in 1 .. n - 1 : x \in ToSet(ss[i]) /\ y \in ToSet(ss[n])
    <2>1. CASE \E i \in 1 .. n : Before(ss[i], x, y)
      BY <1>1, <2>1 DEF Across
    <2>2. CASE \E i, j \in 1 .. n : i < j /\ x \in ToSet(ss[i]) /\ y \in ToSet(ss[j])
      <3>1. PICK i \in 1 .. n, j \in 1 .. n : i < j /\ x \in ToSet(ss[i]) /\ y \in ToSet(ss[j])
        BY <2>2
      <3>2. i \in 1 .. n - 1
        BY <1>1, <3>1
      <3>3. CASE j = n
        BY <3>1, <3>2, <3>3
      <3>4. CASE j \in 1 .. n - 1
        BY <3>1, <3>2, <3>4 DEF Across
      <3>5. QED
        BY <1>1, <3>3, <3>4
    <2>3. QED
      BY <1>2, <2>1, <2>2 DEF Across
  <1>3. Across(ss, n - 1, x, y) => Across(ss, n, x, y)
    BY <1>1 DEF Across
  <1>4. Before(ss[n], x, y) => Across(ss, n, x, y)
    BY <1>1 DEF Across
  <1>5. (\E i \in 1 .. n - 1 : x \in ToSet(ss[i]) /\ y \in ToSet(ss[n])) => Across(ss, n, x, y)
    BY <1>1 DEF Across
  <1>6. QED
    BY <1>2, <1>3, <1>4, <1>5

\* A flattening keeps the order of the sequences and within them.
LEMMA FlattenBefore ==
  ASSUME NEW S, NEW ss \in Seq(Seq(S)), NEW x, NEW y
  PROVE  Before(FlattenSeq(ss), x, y) <=> Across(ss, Len(ss), x, y)
  <1>1. CASE Len(ss) = 0
    <2>1. FlattenSeq(ss) = <<>> /\ 1 .. Len(ss) = {}
      BY <1>1 DEF FlattenSeq
    <2>2. ~Before(<<>>, x, y)
      BY DEF Before
    <2>3. QED
      BY <2>1, <2>2 DEF Across
  <1>2. CASE Len(ss) # 0
    <2> DEFINE N == Len(ss)
    <2>0. N \in Nat /\ N # 0 /\ \A i \in 1 .. N : ss[i] \in Seq(S)
      BY <1>2
    <2>1. PICK f \in [1 .. N -> Seq(S)] :
            /\ f[1] = ss[1] /\ \A i \in 2 .. N : f[i] = f[i - 1] \o ss[i]
            /\ FlattenSeq(ss) = f[N]
      BY <1>2, FlattenFolds
    <2>b. Len(ss) = N
      OBVIOUS
    <2> HIDE DEF N
    <2> DEFINE Fine(i) == /\ ToSet(f[i]) = UNION {ToSet(ss[j]) : j \in 1 .. i}
                          /\ Before(f[i], x, y) <=> Across(ss, i, x, y)
               Good == {0} \cup {i \in 1 .. N : Fine(i)}
    <2>2. ASSUME NEW i \in 1 .. N, i - 1 \in Good PROVE Fine(i)
      <3>1. CASE i = 1
        <4>1. 1 .. i = {1} /\ ~(1 < 1)
          BY <3>1
        <4>2. ToSet(f[i]) = UNION {ToSet(ss[j]) : j \in 1 .. i}
          BY <2>1, <3>1, <4>1
        <4>3. Before(f[i], x, y) <=> Across(ss, i, x, y)
          BY <2>1, <3>1, <4>1 DEF Across
        <4>4. QED
          BY <4>2, <4>3
      <3>2. CASE i # 1
        <4>1. i - 1 \in 1 .. N /\ i \in 2 .. N /\ 1 .. i = 1 .. i - 1 \cup {i} /\ i \in Nat /\ i > 1
              /\ i - 1 # 0
          BY <2>0, <3>2
        <4>2. Fine(i - 1)
          BY <2>2, <4>1
        <4>c. f[i - 1] \in Seq(S) /\ ss[i] \in Seq(S) /\ f[i] = f[i - 1] \o ss[i]
          BY <2>0, <2>1, <4>1
        <4>3. ToSet(f[i]) = ToSet(f[i - 1]) \cup ToSet(ss[i])
          BY <4>c, ConcatSet
        <4>4. ToSet(f[i]) = UNION {ToSet(ss[j]) : j \in 1 .. i}
          BY <4>1, <4>2, <4>3
        <4>5. Before(f[i], x, y)
                <=> \/ Before(f[i - 1], x, y) \/ Before(ss[i], x, y)
                    \/ x \in ToSet(f[i - 1]) /\ y \in ToSet(ss[i])
          BY <4>c, ConcatBefore
        <4>6. x \in ToSet(f[i - 1]) <=> \E j \in 1 .. i - 1 : x \in ToSet(ss[j])
          BY <4>2
        <4>7. Across(ss, i, x, y)
                <=> \/ Across(ss, i - 1, x, y) \/ Before(ss[i], x, y)
                    \/ \E j \in 1 .. i - 1 : x \in ToSet(ss[j]) /\ y \in ToSet(ss[i])
          BY <4>1, AcrossNext
        <4>8. Before(f[i - 1], x, y) <=> Across(ss, i - 1, x, y)
          BY <4>2
        <4>9. Before(f[i], x, y) <=> Across(ss, i, x, y)
          BY <4>5, <4>6, <4>7, <4>8
        <4>10. QED
          BY <4>4, <4>9
      <3>3. QED
        BY <3>1, <3>2
    <2>3. 0 \in Good
      OBVIOUS
    <2>h. \A i \in 1 .. N : i - 1 \in Good => i \in Good
      BY <2>2
    <2> HIDE DEF Good, Fine
    <2>4. 0 .. N \subseteq Good
      BY <2>0, <2>h, <2>3, UpTo
    <2>5. N \in Good
      BY <2>0, <2>4
    <2>6. Fine(N)
      BY <2>0, <2>5 DEF Good
    <2>7. QED
      BY <2>1, <2>6, <2>b DEF Fine
  <1>3. QED
    BY <1>1, <1>2

\* What is kept of each of two sequences is kept of one behind the other.
LEMMA ConcatKeeps ==
  ASSUME NEW S, NEW s \in Seq(S), NEW u \in Seq(S), NEW t \in Seq(S), NEW v \in Seq(S), NEW Z,
         Keeps(s, u, Z), Keeps(t, v, Z)
  PROVE  Keeps(s \o t, u \o v, Z)
  <1>1. ToSet(s \o t) = ToSet(s) \cup ToSet(t) /\ ToSet(u \o v) = ToSet(u) \cup ToSet(v)
    BY ConcatSet
  <1>2. ASSUME NEW x \in Z, x \in ToSet(s \o t) PROVE x \in ToSet(u \o v)
    BY <1>1, <1>2 DEF Keeps
  <1>3. ASSUME NEW x \in Z, NEW y \in Z, Before(s \o t, x, y) PROVE Before(u \o v, x, y)
    <2>1. \/ Before(s, x, y) \/ Before(t, x, y)
          \/ x \in ToSet(s) /\ y \in ToSet(t)
      BY <1>3, ConcatBefore
    <2>2. \/ Before(u, x, y) \/ Before(v, x, y)
          \/ x \in ToSet(u) /\ y \in ToSet(v)
      BY <2>1 DEF Keeps
    <2>3. QED
      BY <2>2, ConcatBefore
  <1>4. QED
    BY <1>2, <1>3 DEF Keeps

\* The sequences D has for the items of s.
Lists(D, s) == [i \in DOMAIN s |-> D[s[i]]]

\* ss is that sequence, with what its items and their lists are made of.
Listing(N, D, s, ss) ==
  /\ ss \in Seq(Seq(N)) /\ Len(ss) = Len(s)
  /\ \A i \in 1 .. Len(s) : ss[i] = D[s[i]] /\ s[i] \in N /\ s[i] \in ToSet(s)

\* It is such a sequence.
LEMMA ListsTyped ==
  ASSUME NEW N, NEW s \in Seq(N), NEW D \in [N -> Seq(N)]
  PROVE  Listing(N, D, s, Lists(D, s))
  <1>1. DOMAIN s = 1 .. Len(s) /\ Len(s) \in Nat /\ \A i \in 1 .. Len(s) : s[i] \in N
    OBVIOUS
  <1>2. Lists(D, s) \in [1 .. Len(s) -> Seq(N)]
    BY <1>1 DEF Lists
  <1>3. Lists(D, s) \in Seq(Seq(N)) /\ Len(Lists(D, s)) = Len(s)
    BY <1>1, <1>2, FunctionIsSeq
  <1>4. \A i \in 1 .. Len(s) : s[i] \in ToSet(s)
    BY <1>1 DEF ToSet
  <1>5. \A i \in 1 .. Len(s) : Lists(D, s)[i] = D[s[i]]
    BY <1>1 DEF Lists
  <1>6. QED
    BY <1>1, <1>3, <1>4, <1>5 DEF Listing

\* The flattening holds what is listed.
LEMMA ListsHold ==
  ASSUME NEW N, NEW s \in Seq(N), NEW D \in [N -> Seq(N)], NEW f, f = FlattenSeq(Lists(D, s))
  PROVE  f \in Seq(N) /\ ToSet(f) = UNION {ToSet(D[k]) : k \in ToSet(s)}
  <1>n. PICK ss : ss = Lists(D, s)
    OBVIOUS
  <1>1. Listing(N, D, s, Lists(D, s))
    BY ListsTyped
  <1>2. /\ ss \in Seq(Seq(N)) /\ Len(ss) = Len(s)
        /\ \A i \in 1 .. Len(s) : ss[i] = D[s[i]] /\ s[i] \in ToSet(s)
    BY <1>1, <1>n DEF Listing
  <1>3. FlattenSeq(ss) \in Seq(N)
    BY <1>2, FlattenTyped
  <1>4. ToSet(FlattenSeq(ss)) = UNION {ToSet(ss[k]) : k \in 1 .. Len(ss)}
    BY <1>2, FlattenHolds
  <1>5. \A k \in ToSet(s) : \E i \in 1 .. Len(s) : s[i] = k
    BY DEF ToSet
  <1>6. UNION {ToSet(ss[k]) : k \in 1 .. Len(ss)} = UNION {ToSet(D[k]) : k \in ToSet(s)}
    <2>1. ASSUME NEW i \in 1 .. Len(s), NEW x \in ToSet(ss[i])
          PROVE  x \in UNION {ToSet(D[k]) : k \in ToSet(s)}
      <3>1. s[i] \in ToSet(s) /\ x \in ToSet(D[s[i]])
        BY <1>2, <2>1
      <3>2. QED
        BY <3>1
    <2>2. ASSUME NEW k \in ToSet(s), NEW x \in ToSet(D[k])
          PROVE  x \in UNION {ToSet(ss[i]) : i \in 1 .. Len(s)}
      <3>1. PICK i \in 1 .. Len(s) : s[i] = k
        BY <1>5
      <3>2. x \in ToSet(ss[i])
        BY <1>2, <2>2, <3>1
      <3>3. QED
        BY <3>2
    <2>3. UNION {ToSet(ss[i]) : i \in 1 .. Len(s)} = UNION {ToSet(D[k]) : k \in ToSet(s)}
      BY <2>1, <2>2
    <2>4. QED
      BY <1>2, <2>3
  <1>7. QED
    BY <1>3, <1>4, <1>6, <1>n

\* Of what D lists, E lists what is of Z: for the elements of Z in the same
\* order, and for the others there is nothing of it.
Relists(D, E, s, Z) ==
  \A k \in ToSet(s) : IF k \in Z THEN Keeps(D[k], E[k], Z) ELSE ToSet(D[k]) \cap Z = {}

\* What stands in a list of an element of s that is kept.
LEMMA RelistsIn ==
  ASSUME NEW N, NEW s \in Seq(N), NEW u \in Seq(N), NEW D \in [N -> Seq(N)],
         NEW E \in [N -> Seq(N)], NEW Z, Keeps(s, u, Z), Relists(D, E, s, Z),
         NEW i \in 1 .. Len(s), NEW x \in Z, x \in ToSet(Lists(D, s)[i])
  PROVE  s[i] \in Z /\ s[i] \in ToSet(u) /\ x \in ToSet(E[s[i]])
  <1>0. Listing(N, D, s, Lists(D, s))
    BY ListsTyped
  <1>1. Lists(D, s)[i] = D[s[i]] /\ s[i] \in ToSet(s)
    BY <1>0 DEF Listing
  <1>2. x \in ToSet(D[s[i]])
    BY <1>1
  <1>3. s[i] \in Z /\ Keeps(D[s[i]], E[s[i]], Z)
    BY <1>1, <1>2 DEF Relists
  <1>4. QED
    BY <1>1, <1>2, <1>3 DEF Keeps

\* Then the flattening keeps what is of Z.
LEMMA FlattenKeeps ==
  ASSUME NEW N, NEW s \in Seq(N), NEW u \in Seq(N), NEW D \in [N -> Seq(N)],
         NEW E \in [N -> Seq(N)], NEW Z, Keeps(s, u, Z), Relists(D, E, s, Z)
  PROVE  Keeps(FlattenSeq(Lists(D, s)), FlattenSeq(Lists(E, u)), Z)
  <1>n. PICK ss, us, f, g : /\ ss = Lists(D, s) /\ us = Lists(E, u)
                            /\ f = FlattenSeq(ss) /\ g = FlattenSeq(us)
    OBVIOUS
  <1>1. /\ ss \in Seq(Seq(N)) /\ Len(ss) = Len(s)
        /\ \A i \in 1 .. Len(s) : ss[i] = D[s[i]] /\ s[i] \in N /\ s[i] \in ToSet(s)
    <2>1. Listing(N, D, s, Lists(D, s))
      BY ListsTyped
    <2>2. QED
      BY <1>n, <2>1 DEF Listing
  <1>2. /\ us \in Seq(Seq(N)) /\ Len(us) = Len(u)
        /\ \A i \in 1 .. Len(u) : us[i] = E[u[i]] /\ u[i] \in N /\ u[i] \in ToSet(u)
    <2>1. Listing(N, E, u, Lists(E, u))
      BY ListsTyped
    <2>2. QED
      BY <1>n, <2>1 DEF Listing
  <1>3. /\ ToSet(f) = UNION {ToSet(ss[k]) : k \in 1 .. Len(s)}
        /\ ToSet(g) = UNION {ToSet(us[k]) : k \in 1 .. Len(u)}
    <2>1. ToSet(FlattenSeq(ss)) = UNION {ToSet(ss[k]) : k \in 1 .. Len(ss)}
      BY <1>1, FlattenHolds
    <2>2. ToSet(FlattenSeq(us)) = UNION {ToSet(us[k]) : k \in 1 .. Len(us)}
      BY <1>2, FlattenHolds
    <2>3. QED
      BY <1>1, <1>2, <1>n, <2>1, <2>2
  <1>4. /\ DOMAIN s = 1 .. Len(s) /\ DOMAIN u = 1 .. Len(u)
    OBVIOUS
  <1>5. ASSUME NEW i \in 1 .. Len(s), NEW x \in Z, x \in ToSet(ss[i])
        PROVE  s[i] \in Z /\ s[i] \in ToSet(u) /\ x \in ToSet(E[s[i]])
    BY <1>5, <1>n, RelistsIn
  <1>6. ASSUME NEW x \in Z, x \in ToSet(f) PROVE x \in ToSet(g)
    <2>1. PICK i \in 1 .. Len(s) : x \in ToSet(ss[i])
      BY <1>3, <1>6
    <2>2. s[i] \in ToSet(u) /\ x \in ToSet(E[s[i]])
      BY <1>5, <2>1
    <2>3. PICK j \in 1 .. Len(u) : u[j] = s[i]
      BY <1>4, <2>2 DEF ToSet
    <2>4. x \in ToSet(us[j])
      BY <1>2, <2>2, <2>3
    <2>5. QED
      BY <1>3, <2>4
  <1>7. ASSUME NEW x \in Z, NEW y \in Z, Before(f, x, y) PROVE Before(g, x, y)
    <2>1. Across(ss, Len(s), x, y)
      <3>1. Before(FlattenSeq(ss), x, y) <=> Across(ss, Len(ss), x, y)
        BY <1>1, FlattenBefore
      <3>2. QED
        BY <1>1, <1>7, <1>n, <3>1
    <2>2. CASE \E i \in 1 .. Len(s) : Before(ss[i], x, y)
      <3>1. PICK i \in 1 .. Len(s) : Before(ss[i], x, y)
        BY <2>2
      <3>2. x \in ToSet(ss[i])
        BY <3>1 DEF Before, ToSet
      <3>3. s[i] \in Z /\ s[i] \in ToSet(u)
        BY <1>5, <3>2
      <3>4. Keeps(D[s[i]], E[s[i]], Z) /\ ss[i] = D[s[i]]
        BY <1>1, <3>3 DEF Relists
      <3>5. Before(E[s[i]], x, y)
        BY <3>1, <3>4 DEF Keeps
      <3>6. PICK j \in 1 .. Len(u) : u[j] = s[i]
        BY <1>4, <3>3 DEF ToSet
      <3>7. Before(us[j], x, y)
        BY <1>2, <3>5, <3>6
      <3>8. Across(us, Len(u), x, y)
        BY <3>7 DEF Across
      <3>9. QED
        BY <1>2, <1>n, <3>8, FlattenBefore
    <2>3. CASE \E i, j \in 1 .. Len(s) : i < j /\ x \in ToSet(ss[i]) /\ y \in ToSet(ss[j])
      <3>1. PICK i \in 1 .. Len(s), j \in 1 .. Len(s) :
              i < j /\ x \in ToSet(ss[i]) /\ y \in ToSet(ss[j])
        BY <2>3
      <3>2. /\ s[i] \in Z /\ x \in ToSet(E[s[i]])
            /\ s[j] \in Z /\ y \in ToSet(E[s[j]])
        BY <1>5, <3>1
      <3>3. Before(s, s[i], s[j])
        BY <1>4, <3>1 DEF Before
      <3>4. Before(u, s[i], s[j])
        BY <3>2, <3>3 DEF Keeps
      <3>5. PICK a \in 1 .. Len(u), b \in 1 .. Len(u) : a < b /\ u[a] = s[i] /\ u[b] = s[j]
        BY <1>4, <3>4 DEF Before
      <3>6. x \in ToSet(us[a]) /\ y \in ToSet(us[b])
        BY <1>2, <3>2, <3>5
      <3>7. Across(us, Len(u), x, y)
        BY <3>5, <3>6 DEF Across
      <3>8. QED
        BY <1>2, <1>n, <3>7, FlattenBefore
    <2>4. QED
      BY <2>1, <2>2, <2>3 DEF Across
  <1>8. QED
    BY <1>6, <1>7, <1>n DEF Keeps

\* Below the nodes of L, the children that are of Z hang on nodes of Z, and in
\* both trees in the same order.
Trimmed(kids, kids1, L, Z) ==
  /\ L \subseteq Nodes /\ Entire(kids, L)
  /\ \A m \in L : IF m \in Z THEN Keeps(kids[m], kids1[m], Z)
                            ELSE ToSet(kids[m]) \cap Z = {}

\* A walk meets those in the same order then.
LEMMA WalkKeeps ==
  ASSUME NEW kids \in [Nodes -> Seq(Nodes)], NEW kids1 \in [Nodes -> Seq(Nodes)],
         NEW Z, NEW L, Trimmed(kids, kids1, L, Z), NEW n \in L, n \in Z
  PROVE  Keeps(Walk(kids, n), Walk(kids1, n), Z)
  <1>a. PICK A : A = Nodes
    OBVIOUS
  <1>0. A \in SUBSET Nodes /\ kids \in [Nodes -> Seq(A)] /\ kids1 \in [Nodes -> Seq(A)]
        /\ Pool \in Nat
    BY <1>a, SizesAssumption
  <1>1. PICK down : Unfolds(kids, A, down)
    BY <1>0, WalkUnfolds
  <1>2. PICK down1 : Unfolds(kids1, A, down1)
    BY <1>0, WalkUnfolds
  <1>3. /\ \A m \in Nodes : down[0][m] = <<>>
        /\ \A depth \in 1 .. Pool, m \in Nodes :
             down[depth][m]
               = <<m>> \o FlattenSeq([i \in DOMAIN kids[m] |-> down[depth - 1][kids[m][i]]])
        /\ \A depth \in 0 .. Pool, m \in Nodes : down[depth][m] \in Seq(Nodes)
        /\ \A m \in Nodes : Walk(kids, m) = down[Pool][m]
    BY <1>1, <1>a DEF Unfolds
  <1>4. /\ \A m \in Nodes : down1[0][m] = <<>>
        /\ \A depth \in 1 .. Pool, m \in Nodes :
             down1[depth][m]
               = <<m>> \o FlattenSeq([i \in DOMAIN kids1[m] |-> down1[depth - 1][kids1[m][i]]])
        /\ \A depth \in 0 .. Pool, m \in Nodes : down1[depth][m] \in Seq(Nodes)
        /\ \A m \in Nodes : Walk(kids1, m) = down1[Pool][m]
    BY <1>2, <1>a DEF Unfolds
  <1>5. L \subseteq Nodes /\ Entire(kids, L)
    BY DEF Trimmed
  <1> DEFINE Fine(depth) == \A m \in L : IF m \in Z THEN Keeps(down[depth][m], down1[depth][m], Z)
                                                    ELSE ToSet(down[depth][m]) \cap Z = {}
             Good == {depth \in 0 .. Pool : Fine(depth)}
  <1>6. 0 \in Good
    <2>1. ToSet(<<>>) = {} /\ \A x, y : ~Before(<<>>, x, y)
      BY DEF ToSet, Before
    <2>2. Keeps(<<>>, <<>>, Z)
      BY <2>1 DEF Keeps
    <2>3. QED
      BY <1>0, <1>3, <1>4, <1>5, <2>1, <2>2
  <1>7. ASSUME NEW depth \in 1 .. Pool, Fine(depth - 1), NEW m \in L
        PROVE  IF m \in Z THEN Keeps(down[depth][m], down1[depth][m], Z)
                          ELSE ToSet(down[depth][m]) \cap Z = {}
    <2>n. PICK s, u, D, E : /\ s = kids[m] /\ u = kids1[m]
                            /\ D = [k \in Nodes |-> down[depth - 1][k]]
                            /\ E = [k \in Nodes |-> down1[depth - 1][k]]
      OBVIOUS
    <2>0. depth - 1 \in 0 .. Pool /\ m \in Nodes
      BY <1>0, <1>5
    <2>1. /\ s \in Seq(Nodes) /\ u \in Seq(Nodes)
          /\ D \in [Nodes -> Seq(Nodes)] /\ E \in [Nodes -> Seq(Nodes)]
      BY <1>3, <1>4, <2>0, <2>n
    <2>2. down[depth][m] = <<m>> \o FlattenSeq(Lists(D, s))
      <3>1. \A i \in DOMAIN s : s[i] \in Nodes
        BY <2>1
      <3>2. [i \in DOMAIN s |-> down[depth - 1][s[i]]] = Lists(D, s)
        BY <2>n, <3>1 DEF Lists
      <3>3. down[depth][m] = <<m>> \o FlattenSeq([i \in DOMAIN s |-> down[depth - 1][s[i]]])
        BY <1>3, <2>0, <2>n
      <3>4. QED
        BY <3>2, <3>3
    <2>3. down1[depth][m] = <<m>> \o FlattenSeq(Lists(E, u))
      <3>1. \A i \in DOMAIN u : u[i] \in Nodes
        BY <2>1
      <3>2. [i \in DOMAIN u |-> down1[depth - 1][u[i]]] = Lists(E, u)
        BY <2>n, <3>1 DEF Lists
      <3>3. down1[depth][m] = <<m>> \o FlattenSeq([i \in DOMAIN u |-> down1[depth - 1][u[i]]])
        BY <1>4, <2>0, <2>n
      <3>4. QED
        BY <3>2, <3>3
    <2>4. ToSet(s) \subseteq L
      BY <1>5, <2>n DEF Entire
    <2>5. Relists(D, E, s, Z)
      <3>1. ASSUME NEW k \in ToSet(s)
            PROVE  IF k \in Z THEN Keeps(D[k], E[k], Z) ELSE ToSet(D[k]) \cap Z = {}
        <4>1. k \in L /\ k \in Nodes
          BY <1>5, <2>4
        <4>2. D[k] = down[depth - 1][k] /\ E[k] = down1[depth - 1][k]
          BY <2>n, <4>1
        <4>3. IF k \in Z THEN Keeps(down[depth - 1][k], down1[depth - 1][k], Z)
                         ELSE ToSet(down[depth - 1][k]) \cap Z = {}
          BY <1>7, <4>1
        <4>4. QED
          BY <4>2, <4>3
      <3>2. QED
        BY <3>1 DEF Relists
    <2>6. /\ <<m>> \in Seq(Nodes) /\ ToSet(<<m>>) = {m}
          /\ FlattenSeq(Lists(D, s)) \in Seq(Nodes) /\ FlattenSeq(Lists(E, u)) \in Seq(Nodes)
      <3>1. <<m>> \in Seq(Nodes) /\ ToSet(<<m>>) = {m}
        BY <2>0 DEF ToSet
      <3>2. FlattenSeq(Lists(D, s)) \in Seq(Nodes)
        BY <2>1, ListsHold
      <3>3. FlattenSeq(Lists(E, u)) \in Seq(Nodes)
        BY <2>1, ListsHold
      <3>4. QED
        BY <3>1, <3>2, <3>3
    <2>7. CASE m \in Z
      <3>1. Keeps(s, u, Z)
        BY <2>7, <2>n DEF Trimmed
      <3>2. Keeps(FlattenSeq(Lists(D, s)), FlattenSeq(Lists(E, u)), Z)
        BY <2>1, <2>5, <3>1, FlattenKeeps
      <3>3. Keeps(<<m>>, <<m>>, Z)
        BY DEF Keeps
      <3>4. Keeps(<<m>> \o FlattenSeq(Lists(D, s)), <<m>> \o FlattenSeq(Lists(E, u)), Z)
        BY <2>6, <3>2, <3>3, ConcatKeeps
      <3>5. QED
        BY <2>2, <2>3, <2>7, <3>4
    <2>8. CASE m \notin Z
      <3>1. ToSet(s) \cap Z = {}
        BY <2>8, <2>n DEF Trimmed
      <3>2. \A k \in ToSet(s) : ToSet(D[k]) \cap Z = {}
        BY <2>5, <3>1 DEF Relists
      <3>3. ToSet(FlattenSeq(Lists(D, s))) \cap Z = {}
        <4>1. ToSet(FlattenSeq(Lists(D, s))) = UNION {ToSet(D[k]) : k \in ToSet(s)}
          BY <2>1, ListsHold
        <4>2. QED
          BY <3>2, <4>1
      <3>4. ToSet(down[depth][m]) = {m} \cup ToSet(FlattenSeq(Lists(D, s)))
        <4>1. PICK f, h : f = FlattenSeq(Lists(D, s)) /\ h = <<m>>
          OBVIOUS
        <4>2. f \in Seq(Nodes) /\ h \in Seq(Nodes) /\ ToSet(h) = {m}
          BY <2>6, <4>1
        <4>3. ToSet(h \o f) = ToSet(h) \cup ToSet(f)
          BY <4>2, ConcatSet
        <4>4. QED
          BY <2>2, <4>1, <4>2, <4>3
      <3>5. QED
        BY <2>8, <3>3, <3>4
    <2>9. QED
      BY <2>7, <2>8
  <1>8. \A depth \in 1 .. Pool : depth - 1 \in Good => depth \in Good
    <2>1. ASSUME NEW depth \in 1 .. Pool, depth - 1 \in Good PROVE depth \in Good
      <3>1. Fine(depth - 1) /\ depth \in 0 .. Pool
        BY <1>0, <2>1
      <3>2. Fine(depth)
        BY <1>7, <3>1
      <3>3. QED
        BY <3>1, <3>2
    <2>2. QED
      BY <2>1
  <1>9. Pool \in Good
    <2> HIDE DEF Good
    <2>1. 0 .. Pool \subseteq Good
      BY <1>0, <1>6, <1>8, UpTo
    <2>2. QED
      BY <1>0, <2>1
  <1>10. Keeps(down[Pool][n], down1[Pool][n], Z)
    BY <1>9
  <1>11. QED
    BY <1>3, <1>4, <1>5, <1>10

\* Under the nodes of Z, the nodes of Z are in the same order in both trees.
InOrder(T, U, Z) == \A m \in Z : \A x, y \in Z : Before(T.kids[m], x, y) => Before(U.kids[m], x, y)

\* The nodes Z of both trees, but for those below F, hang where they hung.
Undisturbed(T, U, F, Z) ==
  /\ Kempt(T) /\ Kempt(U) /\ U.root = T.root
  /\ F \subseteq Nodes /\ Entire(T.kids, F)
  /\ Z = (Under(T) \cap Under(U)) \ F
  /\ \A n \in Z : U.up[n] = T.up[n]
  /\ InOrder(T, U, Z)

\* They hang on one another.
LEMMA UndisturbedHang ==
  ASSUME NEW A \in SUBSET Nodes, NEW T, Sound(T, A), NEW B \in SUBSET Nodes, NEW U, Sound(U, B),
         NEW F, NEW Z, Undisturbed(T, U, F, Z),
         NEW m \in Under(T), NEW c \in ToSet(T.kids[m]), c \in Z
  PROVE  m \in Z /\ c \in ToSet(U.kids[m])
  <1>1. /\ Hangs(T.kids, T.root, T.up) /\ Hangs(U.kids, U.root, U.up)
        /\ U.root = T.root /\ Entire(T.kids, F)
        /\ Z = (Under(T) \cap Under(U)) \ F /\ U.up[c] = T.up[c]
    BY Zenon DEF Undisturbed, Kempt
  <1>2. /\ Under(T) = Reach(T.kids, T.root) /\ m \in Nodes
    <2>1. Under(T) = Reach(T.kids, T.root) /\ Under(T) \subseteq A
      BY SoundKids
    <2>2. QED
      BY <2>1
  <1>3. /\ U.kids \in [Nodes -> Seq(Nodes)] /\ U.root \in Nodes
        /\ Under(U) = Reach(U.kids, U.root)
    BY SoundKids
  <1>4. T.up[c] = m /\ T.up[T.root] = NoNode
    BY <1>1, <1>2, Zenon DEF Hangs
  <1>5. c # U.root
    BY <1>1, <1>2, <1>4, NodesAre
  <1>6. c \in Reach(U.kids, U.root)
    BY <1>1, <1>3
  <1>7. PICK p \in Reach(U.kids, U.root) : c \in ToSet(U.kids[p])
    BY <1>3, <1>5, <1>6, ReachedFrom
  <1>8. U.up[c] = p
    BY <1>1, <1>7, Zenon DEF Hangs
  <1>9. m = p
    BY <1>1, <1>4, <1>8
  <1>10. m \notin F
    BY <1>1 DEF Entire
  <1>11. QED
    BY <1>1, <1>3, <1>7, <1>9, <1>10

\* A walk of the one meets them as a walk of the other does.
LEMMA UndisturbedWalks ==
  ASSUME NEW A \in SUBSET Nodes, NEW T, Sound(T, A), NEW B \in SUBSET Nodes, NEW U, Sound(U, B),
         NEW F, NEW Z, Undisturbed(T, U, F, Z), Z # {}
  PROVE  Keeps(Walk(T.kids, T.root), Walk(U.kids, U.root), Z)
  <1>n. PICK L, r : L = Under(T) /\ r = T.root
    OBVIOUS
  <1>1. /\ U.root = r /\ F \subseteq Nodes /\ Entire(T.kids, F)
        /\ Z = (L \cap Under(U)) \ F
    BY <1>n, Zenon DEF Undisturbed
  <1>2. /\ T.kids \in [Nodes -> Seq(Nodes)] /\ r \in Nodes /\ L = Reach(T.kids, r)
    BY <1>n, SoundKids
  <1>3. /\ U.kids \in [Nodes -> Seq(Nodes)] /\ Under(U) = Reach(U.kids, r)
    BY <1>1, SoundKids
  <1>4. /\ L \subseteq Nodes /\ Entire(T.kids, L) /\ r \in L /\ r \in Under(U)
    <2>1. L \subseteq Nodes /\ Entire(T.kids, L) /\ r \in L
      BY <1>2, ReachClosed
    <2>2. r \in Under(U)
      BY <1>2, <1>3, ReachClosed
    <2>3. QED
      BY <2>1, <2>2
  <1>5. r \notin F
    <2>1. ASSUME r \in F PROVE Reach(T.kids, r) \subseteq F
      BY <1>1, <1>2, <2>1, ReachClosed
    <2>2. QED
      BY <1>1, <1>2, <2>1
  <1>6. r \in Z
    BY <1>1, <1>4, <1>5
  <1>7. ASSUME NEW m \in L, m \in Z PROVE Keeps(T.kids[m], U.kids[m], Z)
    <2>1. ASSUME NEW x \in Z, x \in ToSet(T.kids[m]) PROVE x \in ToSet(U.kids[m])
      BY <1>7, <1>n, <2>1, UndisturbedHang
    <2>2. \A x, y \in Z : Before(T.kids[m], x, y) => Before(U.kids[m], x, y)
      BY <1>7, Zenon DEF Undisturbed, InOrder
    <2>3. QED
      BY <2>1, <2>2 DEF Keeps
  <1>8. ASSUME NEW m \in L, m \notin Z PROVE ToSet(T.kids[m]) \cap Z = {}
    <2>1. ASSUME NEW c \in ToSet(T.kids[m]), c \in Z PROVE FALSE
      BY <1>8, <1>n, <2>1, UndisturbedHang
    <2>2. QED
      BY <2>1
  <1>9. Trimmed(T.kids, U.kids, L, Z)
    BY <1>4, <1>7, <1>8 DEF Trimmed
  <1>10. Keeps(Walk(T.kids, r), Walk(U.kids, r), Z)
    BY <1>2, <1>3, <1>4, <1>6, <1>9, WalkKeeps
  <1>11. QED
    BY <1>1, <1>10, <1>n

\* So the one precedes the other in both.
LEMMA UndisturbedPrecedes ==
  ASSUME NEW A \in SUBSET Nodes, NEW T, Sound(T, A), NEW B \in SUBSET Nodes, NEW U, Sound(U, B),
         NEW F, NEW Z, Undisturbed(T, U, F, Z), NEW n \in Z, NEW k \in Z, Precedes(T, n, k)
  PROVE  Precedes(U, n, k)
  <1>n. PICK w, v : w = Walk(T.kids, T.root) /\ v = Walk(U.kids, U.root)
    OBVIOUS
  <1>1. Keeps(w, v, Z)
    BY <1>n, UndisturbedWalks
  <1>2. n \in ToSet(w) /\ k \in ToSet(w)
    <2>1. Z = (Under(T) \cap Under(U)) \ F
      BY Zenon DEF Undisturbed
    <2>2. QED
      BY <1>n, <2>1 DEF Under
  <1>3. PlaceOf(w, n) < PlaceOf(w, k)
    BY <1>n DEF Precedes
  <1>4. /\ PlaceOf(w, n) \in DOMAIN w /\ w[PlaceOf(w, n)] = n
        /\ PlaceOf(w, k) \in DOMAIN w /\ w[PlaceOf(w, k)] = k
    BY <1>2, PlaceIsIn
  <1>5. Before(v, n, k)
    <2>1. Before(w, n, k)
      BY <1>3, <1>4 DEF Before
    <2>2. QED
      BY <1>1, <2>1 DEF Keeps
  <1>6. PICK a \in DOMAIN v, b \in DOMAIN v : a < b /\ v[a] = n /\ v[b] = k
    BY <1>5 DEF Before
  <1>7. IsInjective(v)
    <2>1. Hangs(U.kids, U.root, U.up)
      BY Zenon DEF Undisturbed, Kempt
    <2>2. U.kids \in [Nodes -> Seq(Nodes)] /\ U.root \in Nodes
      BY SoundKids
    <2>3. QED
      BY <1>n, <2>1, <2>2, WalkInjective
  <1>8. PlaceOf(v, n) = a
    <2>1. \A x \in DOMAIN v : v[x] = n => x = a
      BY <1>6, <1>7 DEF IsInjective
    <2>2. QED
      BY <1>6, <2>1, PlaceIs
  <1>9. PlaceOf(v, k) = b
    <2>1. \A x \in DOMAIN v : v[x] = k => x = b
      BY <1>6, <1>7 DEF IsInjective
    <2>2. QED
      BY <1>6, <2>1, PlaceIs
  <1>10. QED
    BY <1>6, <1>8, <1>9, <1>n DEF Precedes

-----------------------------------------------------------------------------
(* Children, spliced.                                                      *)

\* A splice keeps the order of all it does not cut.
LEMMA SplicedKeeps ==
  ASSUME NEW S, NEW s, NEW u, NEW i, NEW j, NEW new, Spliced(S, s, u, i, j, new),
         NEW x, NEW y, Before(s, x, y),
         x \notin ToSet(SubSeq(s, i + 1, j)), y \notin ToSet(SubSeq(s, i + 1, j))
  PROVE  Before(u, x, y)
  <1>l. PICK l, n : l = Len(s) /\ n = Len(new)
    OBVIOUS
  <1>0. /\ s \in Seq(S) /\ u \in Seq(S) /\ l \in Nat /\ n \in Nat
        /\ i \in 0 .. l /\ j \in i .. l
        /\ DOMAIN s = 1 .. l /\ DOMAIN u = 1 .. l - (j - i) + n
    <2>1. /\ s \in Seq(S) /\ u \in Seq(S) /\ new \in Seq(S)
          /\ i \in 0 .. Len(s) /\ j \in i .. Len(s) /\ Len(u) = Len(s) - (j - i) + Len(new)
      BY Zenon DEF Spliced
    <2>2. QED
      BY <1>l, <2>1
  <1>1. /\ \A k \in 1 .. i : u[k] = s[k]
        /\ \A k \in 1 .. l - j : u[i + n + k] = s[j + k]
    BY <1>l, Zenon DEF Spliced
  <1>2. \A k \in i + 1 .. j : s[k] \in ToSet(SubSeq(s, i + 1, j))
    <2>1. /\ SubSeq(s, i + 1, j) \in Seq(S) /\ Len(SubSeq(s, i + 1, j)) = j - i
          /\ \A k \in 1 .. j - i : SubSeq(s, i + 1, j)[k] = s[i + k]
      BY <1>0, <1>l, SubSeqAt
    <2>2. ASSUME NEW k \in i + 1 .. j PROVE s[k] \in ToSet(SubSeq(s, i + 1, j))
      <3>1. k - i \in 1 .. j - i /\ i + (k - i) = k
        BY <1>0
      <3>2. SubSeq(s, i + 1, j)[k - i] = s[k]
        BY <2>1, <3>1
      <3>3. k - i \in DOMAIN SubSeq(s, i + 1, j)
        BY <2>1, <3>1
      <3>4. QED
        BY <3>2, <3>3 DEF ToSet
    <2>3. QED
      BY <2>2
  <1>3. PICK a \in 1 .. l, b \in 1 .. l : a < b /\ s[a] = x /\ s[b] = y
    BY <1>0 DEF Before
  <1>4. a \notin i + 1 .. j /\ b \notin i + 1 .. j
    BY <1>2, <1>3
  <1>p. PICK c, e : /\ c = (IF a <= i THEN a ELSE a - (j - i) + n)
                    /\ e = (IF b <= i THEN b ELSE b - (j - i) + n)
    OBVIOUS
  <1>5. ASSUME NEW k \in 1 .. l, k \notin i + 1 .. j, NEW h,
               h = (IF k <= i THEN k ELSE k - (j - i) + n)
        PROVE  h \in DOMAIN u /\ u[h] = s[k]
    <2>1. CASE k <= i
      BY <1>0, <1>1, <1>5, <2>1
    <2>2. CASE k > i
      <3>1. k > j /\ k - j \in 1 .. l - j /\ i + n + (k - j) = h /\ j + (k - j) = k
        BY <1>0, <1>5, <2>2
      <3>2. u[h] = s[k]
        BY <1>1, <3>1
      <3>3. h \in 1 .. l - (j - i) + n
        BY <1>0, <3>1
      <3>4. QED
        BY <1>0, <3>2, <3>3
    <2>3. QED
      BY <1>0, <2>1, <2>2
  <1>6. c \in DOMAIN u /\ u[c] = x
    BY <1>3, <1>4, <1>5, <1>p
  <1>7. e \in DOMAIN u /\ u[e] = y
    BY <1>3, <1>4, <1>5, <1>p
  <1>8. c < e
    BY <1>0, <1>3, <1>4, <1>p
  <1>9. QED
    BY <1>6, <1>7, <1>8 DEF Before

\* So does a filling, which cuts nothing.
LEMMA FilledKeeps ==
  ASSUME NEW S, NEW s, NEW u, NEW i, NEW new, NEW o, NEW n, Filled(S, s, u, i, new, o, n),
         NEW x, NEW y, Before(s, x, y)
  PROVE  Before(u, x, y)
  <1>l. PICK l : l = Len(s)
    OBVIOUS
  <1>0. /\ l \in Nat /\ n \in Nat /\ i \in 0 .. l
        /\ DOMAIN s = 1 .. l /\ DOMAIN u = 1 .. l + n
    <2>1. /\ s \in Seq(S) /\ u \in Seq(S) /\ i \in 0 .. Len(s) /\ n \in Nat /\ Len(u) = Len(s) + n
      BY Zenon DEF Filled
    <2>2. QED
      BY <1>l, <2>1
  <1>1. /\ \A k \in 1 .. i : u[k] = s[k]
        /\ \A k \in 1 .. l - i : u[i + n + k] = s[i + k]
    BY <1>l, Zenon DEF Filled
  <1>2. PICK a \in 1 .. l, b \in 1 .. l : a < b /\ s[a] = x /\ s[b] = y
    BY <1>0 DEF Before
  <1>p. PICK c, e : c = (IF a <= i THEN a ELSE a + n) /\ e = (IF b <= i THEN b ELSE b + n)
    OBVIOUS
  <1>3. ASSUME NEW k \in 1 .. l, NEW h, h = (IF k <= i THEN k ELSE k + n)
        PROVE  h \in DOMAIN u /\ u[h] = s[k]
    <2>1. CASE k <= i
      BY <1>0, <1>1, <1>3, <2>1
    <2>2. CASE k > i
      <3>1. k - i \in 1 .. l - i /\ i + n + (k - i) = h /\ i + (k - i) = k
        BY <1>0, <1>3, <2>2
      <3>2. u[h] = s[k]
        BY <1>1, <3>1
      <3>3. h \in 1 .. l + n
        BY <1>0, <3>1
      <3>4. QED
        BY <1>0, <3>2, <3>3
    <2>3. QED
      BY <1>0, <2>1, <2>2
  <1>4. c \in DOMAIN u /\ u[c] = x /\ e \in DOMAIN u /\ u[e] = y
    <2>1. c \in DOMAIN u /\ u[c] = x
      BY <1>2, <1>3, <1>p
    <2>2. e \in DOMAIN u /\ u[e] = y
      BY <1>2, <1>3, <1>p
    <2>3. QED
      BY <2>1, <2>2
  <1>5. c < e
    BY <1>0, <1>2, <1>p
  <1>6. QED
    BY <1>4, <1>5 DEF Before

\* Only the children of p were changed, and what of Z is among them is in order.
LEMMA OneInOrder ==
  ASSUME NEW T, NEW U, NEW p, NEW Z \in SUBSET Nodes,
         \A q \in Nodes \ {p} : U.kids[q] = T.kids[q],
         \A x, y \in Z : Before(T.kids[p], x, y) => Before(U.kids[p], x, y)
  PROVE  InOrder(T, U, Z)
  <1>1. ASSUME NEW m \in Z, NEW x \in Z, NEW y \in Z, Before(T.kids[m], x, y)
        PROVE  Before(U.kids[m], x, y)
    <2>1. CASE m = p
      BY <1>1, <2>1
    <2>2. CASE m # p
      <3>1. U.kids[m] = T.kids[m]
        BY <2>2
      <3>2. QED
        BY <1>1, <3>1
    <2>3. QED
      BY <2>1, <2>2
  <1>2. QED
    BY <1>1 DEF InOrder

\* So it is when the children were spliced and nothing of Z was cut out.
LEMMA SpliceInOrder ==
  ASSUME NEW A \in SUBSET Nodes, NEW T, NEW U, NEW p, NEW Z \in SUBSET Nodes,
         \A q \in Nodes \ {p} : U.kids[q] = T.kids[q],
         NEW s \in Seq(A), s = T.kids[p], NEW i \in 0 .. Len(s), NEW j \in i .. Len(s),
         NEW new \in Seq(A), U.kids[p] = Splice(s, i, j, new),
         Z \cap ToSet(SubSeq(s, i + 1, j)) = {}
  PROVE  InOrder(T, U, Z)
  <1>u. PICK u : u = Splice(s, i, j, new)
    OBVIOUS
  <1>1. Spliced(A, s, u, i, j, new)
    BY <1>u, SpliceAt
  <1>2. ASSUME NEW x \in Z, NEW y \in Z, Before(T.kids[p], x, y)
        PROVE  Before(U.kids[p], x, y)
    <2>1. /\ Before(s, x, y) /\ x \notin ToSet(SubSeq(s, i + 1, j))
          /\ y \notin ToSet(SubSeq(s, i + 1, j))
      BY <1>2
    <2>2. Before(u, x, y)
      BY <1>1, <2>1, SplicedKeeps
    <2>3. QED
      BY <1>u, <2>2
  <1>3. QED
    BY <1>2, OneInOrder

\* facade.insert.
LEMMA InsertInOrder ==
  ASSUME NEW A \in SUBSET Nodes, NEW T, Sound(T, A), Kempt(T), NEW at, NEW p \in Under(T),
         Addresses(T, at, p), NEW fresh \in Seq(A), Leaves(T, A, ToSet(fresh)),
         NEW U, U = InsertAll(T, fresh, at), NEW Z \in SUBSET Nodes
  PROVE  InOrder(T, U, Z)
  <1>1. PICK s, i : Filling(T, at, p, s, i, fresh, A)
    BY LeavesFill
  <1>2. Filled(A, s, U.kids[p], i, fresh, 0, Len(fresh))
    BY <1>1, InsertAllFills
  <1>3. s = T.kids[p]
    BY <1>1 DEF Filling
  <1>4. \A q \in Nodes \ {p} : U.kids[q] = T.kids[q]
    <2>1. Edited(T, U, p, A)
      BY InsertAllSound
    <2>2. QED
      BY <2>1 DEF Edited
  <1>5. ASSUME NEW x \in Z, NEW y \in Z, Before(T.kids[p], x, y)
        PROVE  Before(U.kids[p], x, y)
    BY <1>2, <1>3, <1>5, FilledKeeps
  <1>6. QED
    BY <1>4, <1>5, OneInOrder

\* The places a run is cut at.
LEMMA RunPlaces ==
  ASSUME NEW A \in SUBSET Nodes, NEW T, Sound(T, A), NEW r, Cutting(T, r, A)
  PROVE  /\ r.of \in A /\ T.kids[r.of] \in Seq(A)
         /\ r.from - 1 \in 0 .. Len(T.kids[r.of]) /\ r.to \in r.from - 1 .. Len(T.kids[r.of])
         /\ Run(T, r) = SubSeq(T.kids[r.of], (r.from - 1) + 1, r.to)
         /\ r.from \in DOMAIN T.kids[r.of] /\ r.to \in DOMAIN T.kids[r.of] /\ r.from <= r.to
  <1>n. PICK p, s, a, b, l : p = r.of /\ s = T.kids[p] /\ a = r.from /\ b = r.to /\ l = Len(s)
    OBVIOUS
  <1>1. p \in A /\ a \in Nat \ {0} /\ b \in Nat /\ a <= b /\ b <= l
    BY <1>n DEF Cutting, Cuts
  <1>2. s \in Seq(A) /\ l \in Nat /\ DOMAIN s = 1 .. l
    BY <1>1, <1>n, SoundKids
  <1>3. /\ a - 1 \in 0 .. l /\ b \in a - 1 .. l /\ (a - 1) + 1 = a
        /\ a \in 1 .. l /\ b \in 1 .. l
    BY <1>1, <1>2
  <1>4. Run(T, r) = SubSeq(s, a, b)
    BY <1>n DEF Run
  <1>5. QED
    BY <1>1, <1>2, <1>3, <1>4, <1>n

\* operations.delete and replace_range are such splices.
LEMMA DeletedSplices ==
  ASSUME NEW A \in SUBSET Nodes, NEW T, Sound(T, A), NEW r, Cutting(T, r, A)
  PROVE  Deleted(T, r).kids[r.of] = Splice(T.kids[r.of], r.from - 1, r.to, <<>>)
  <1>p. PICK p, i, j, out, e0 : /\ p = r.of /\ i = r.from - 1 /\ j = r.to
                                /\ out = Run(T, r) /\ e0 = <<>>
    OBVIOUS
  <1>c. PICK c : c = Splice(T.kids[p], i, j, e0)
    OBVIOUS
  <1>s. PICK S : S = [T EXCEPT !.kids[p] = c]
    OBVIOUS
  <1>1. /\ p \in A /\ T.kids[p] \in Seq(A) /\ i \in Nat /\ j \in Nat
    <2>1. /\ r.of \in A /\ T.kids[r.of] \in Seq(A)
          /\ r.from - 1 \in 0 .. Len(T.kids[r.of]) /\ r.to \in r.from - 1 .. Len(T.kids[r.of])
      BY RunPlaces
    <2>2. /\ p \in A /\ T.kids[p] \in Seq(A)
          /\ i \in 0 .. Len(T.kids[p]) /\ j \in i .. Len(T.kids[p])
      BY <1>p, <2>1
    <2>3. QED
      BY <2>2
  <1>2. out \in Seq(A)
    <2>1. T \in TreeDocs(A)
      BY DEF Sound
    <2>2. QED
      BY <1>p, <2>1, RunTyped
  <1>3. c \in Seq(A)
    <2>1. e0 \in Seq(A)
      BY <1>p
    <2>2. QED
      BY <1>1, <1>c, <2>1, SpliceTyped
  <1>4. Deleted(T, r) = Unregistered(S, out)
    <2>1. T \in TreeDocs(A)
      BY DEF Sound
    <2>2. QED
      BY <1>p, <1>c, <1>s, <2>1 DEF Deleted, TreeDocs
  <1>5. Sound(S, A) /\ S.kids[p] = c
    <2>0. p \in Nodes
      BY <1>1
    <2>1. Edited(T, S, p, A)
      BY <1>3, <1>s, <2>0, RehungSound
    <2>2. Rechilded(T, S, p, c)
      BY <1>3, <1>s, <2>0, RehungShape
    <2>3. QED
      BY <2>1, <2>2 DEF Edited, Rechilded
  <1>6. SameTree(S, Unregistered(S, out))
    BY <1>2, <1>5, UnregisteredSound
  <1>7. QED
    BY <1>4, <1>5, <1>6, <1>c, <1>p DEF SameTree

\* The same of a replacement, which puts the fresh nodes where the run was.
LEMMA ReplacedSplices ==
  ASSUME NEW A \in SUBSET Nodes, NEW T, Sound(T, A), NEW r, Cutting(T, r, A),
         NEW fresh \in Seq(A)
  PROVE  Replaced(T, r, fresh).kids[r.of] = Splice(T.kids[r.of], r.from - 1, r.to, fresh)
  <1>p. PICK p, i, j, out : p = r.of /\ i = r.from - 1 /\ j = r.to /\ out = Run(T, r)
    OBVIOUS
  <1>b. PICK B : B = Labelled(T, fresh)
    OBVIOUS
  <1>l. PICK L : L = Adopted(B, p, fresh)
    OBVIOUS
  <1>c. PICK c : c = Splice(T.kids[p], i, j, fresh)
    OBVIOUS
  <1>s. PICK S : S = [L EXCEPT !.kids[p] = c]
    OBVIOUS
  <1>u. PICK U : U = Unregistered(S, out)
    OBVIOUS
  <1>1. /\ p \in A /\ p \in Nodes /\ T.kids[p] \in Seq(A) /\ i \in Nat /\ j \in Nat
    BY <1>p, RunPlaces
  <1>2. out \in Seq(A)
    <2>1. T \in TreeDocs(A)
      BY DEF Sound
    <2>2. QED
      BY <1>p, <2>1, RunTyped
  <1>3. c \in Seq(A)
    BY <1>1, <1>c, SpliceTyped
  <1>4. Sound(B, A) /\ B.kids = T.kids
    BY <1>b, LabelledSound DEF SameTree
  <1>5. Sound(L, A) /\ L.kids = T.kids
    <2>1. Sound(L, A) /\ SameTree(B, L)
      BY <1>1, <1>4, <1>l, AdoptedSound
    <2>2. QED
      BY <1>4, <2>1 DEF SameTree
  <1>6. Sound(S, A) /\ S.kids[p] = c
    <2>1. Edited(L, S, p, A)
      BY <1>1, <1>3, <1>5, <1>s, RehungSound
    <2>2. Rechilded(L, S, p, c)
      BY <1>1, <1>3, <1>5, <1>s, RehungShape
    <2>3. QED
      BY <2>1, <2>2 DEF Edited, Rechilded
  <1>7. Sound(U, A) /\ U.kids = S.kids
    <2>1. Sound(U, A) /\ SameTree(S, U)
      BY <1>2, <1>6, <1>u, UnregisteredSound
    <2>2. QED
      BY <2>1 DEF SameTree
  <1>8. Replaced(T, r, fresh) = Registered(U, fresh)
    BY <1>p, <1>b, <1>l, <1>c, <1>s, <1>u, <1>5 DEF Replaced
  <1>9. SameTree(U, Registered(U, fresh))
    BY <1>7, RegisteredSound
  <1>10. QED
    BY <1>6, <1>7, <1>8, <1>9, <1>c, <1>p DEF SameTree

\* operations.delete keeps what it does not cut out in order.
LEMMA DeleteInOrder ==
  ASSUME NEW A \in SUBSET Nodes, NEW T, Sound(T, A), NEW r, Cutting(T, r, A),
         NEW U, U = Deleted(T, r), NEW Z \in SUBSET Nodes, Z \cap ToSet(Run(T, r)) = {}
  PROVE  InOrder(T, U, Z)
  <1>n. PICK p, s, i, j, none : /\ p = r.of /\ s = T.kids[p] /\ i = r.from - 1 /\ j = r.to
                                /\ none = <<>>
    OBVIOUS
  <1>1. /\ s \in Seq(A) /\ i \in 0 .. Len(s) /\ j \in i .. Len(s)
        /\ Run(T, r) = SubSeq(s, i + 1, j)
    BY <1>n, RunPlaces
  <1>2. U.kids[p] = Splice(s, i, j, none)
    BY <1>n, DeletedSplices
  <1>3. \A q \in Nodes \ {p} : U.kids[q] = T.kids[q]
    <2>1. Edited(T, U, p, A)
      BY <1>n, DeletedSound
    <2>2. QED
      BY <2>1 DEF Edited
  <1>4. none \in Seq(A) /\ Z \cap ToSet(SubSeq(s, i + 1, j)) = {} /\ s = T.kids[p]
    BY <1>1, <1>n
  <1>5. QED
    BY <1>1, <1>2, <1>3, <1>4, SpliceInOrder

\* And so does operations.replace_range.
LEMMA ReplaceInOrder ==
  ASSUME NEW A \in SUBSET Nodes, NEW T, Sound(T, A), NEW r, Cutting(T, r, A),
         NEW fresh \in Seq(A), NEW U, U = Replaced(T, r, fresh),
         NEW Z \in SUBSET Nodes, Z \cap ToSet(Run(T, r)) = {}
  PROVE  InOrder(T, U, Z)
  <1>n. PICK p, s, i, j : p = r.of /\ s = T.kids[p] /\ i = r.from - 1 /\ j = r.to
    OBVIOUS
  <1>1. /\ s \in Seq(A) /\ i \in 0 .. Len(s) /\ j \in i .. Len(s)
        /\ Run(T, r) = SubSeq(s, i + 1, j)
    BY <1>n, RunPlaces
  <1>2. U.kids[p] = Splice(s, i, j, fresh)
    BY <1>n, ReplacedSplices
  <1>3. \A q \in Nodes \ {p} : U.kids[q] = T.kids[q]
    <2>1. Edited(T, U, p, A)
      BY <1>n, ReplacedSound
    <2>2. QED
      BY <2>1 DEF Edited
  <1>4. Z \cap ToSet(SubSeq(s, i + 1, j)) = {} /\ s = T.kids[p]
    BY <1>1, <1>n
  <1>5. QED
    BY <1>1, <1>2, <1>3, <1>4, SpliceInOrder

\* updates._replace_children keeps none of the children.
LEMMA RebodyInOrder ==
  ASSUME NEW A \in SUBSET Nodes, NEW T, Sound(T, A), NEW p \in A, NEW fresh \in Seq(A),
         NEW U, U = Rebodied(T, p, fresh), NEW Z \in SUBSET Nodes,
         Z \cap ToSet(T.kids[p]) = {}
  PROVE  InOrder(T, U, Z)
  <1>1. \A q \in Nodes \ {p} : U.kids[q] = T.kids[q]
    <2>1. Edited(T, U, p, A)
      BY RebodiedSound
    <2>2. QED
      BY <2>1 DEF Edited
  <1>2. ASSUME NEW x \in Z, NEW y \in Z, Before(T.kids[p], x, y) PROVE FALSE
    BY <1>2 DEF Before, ToSet
  <1>3. QED
    BY <1>1, <1>2, OneInOrder

-----------------------------------------------------------------------------
(* What a step leaves alone.                                               *)

\* A numbering takes no number away.
LEMMA NumberHolds ==
  ASSUME NEW T, NEW U, NEW R, U.number = T.number, Numbering(U, R), NEW n \in Nodes
  PROVE  T.number[n] \in {NoNumber, R.number[n]}
  <1>1. \/ R.number[n] = U.number[n]
        \/ U.number[n] = NoNumber
    BY Zenon DEF Numbering
  <1>2. CASE R.number[n] = U.number[n]
    BY <1>2
  <1>3. CASE U.number[n] = NoNumber
    BY <1>3
  <1>4. QED
    BY <1>1, <1>2, <1>3

\* Of an undisturbed tree whose numbers stay, the nodes stay put.
LEMMA StaysPut ==
  ASSUME NEW A \in SUBSET Nodes, NEW T, Sound(T, A), NEW B \in SUBSET Nodes, NEW U, Sound(U, B),
         NEW F, NEW Z, Z = Stay(T, U), Undisturbed(T, U, F, Z),
         \A n \in Nodes : T.number[n] \in {NoNumber, U.number[n]}
  PROVE  StayPut(T, U)
  <1>1. Z \subseteq Nodes
    <2>1. Z \subseteq Under(T)
      BY DEF Stay
    <2>2. Under(T) \subseteq A
      BY SoundKids
    <2>3. QED
      BY <2>1, <2>2
  <1>2. \A n \in Z : U.up[n] = T.up[n]
    BY Zenon DEF Undisturbed
  <1>3. ASSUME NEW n \in Z, NEW k \in Z, Precedes(T, n, k) PROVE Precedes(U, n, k)
    BY <1>3, UndisturbedPrecedes
  <1>4. ASSUME NEW n \in Z
        PROVE  /\ T.up[n] = U.up[n] /\ T.number[n] \in {NoNumber, U.number[n]}
               /\ \A k \in Z : Precedes(T, n, k) => Precedes(U, n, k)
    <2>1. T.up[n] = U.up[n]
      BY <1>2
    <2>2. T.number[n] \in {NoNumber, U.number[n]}
      BY <1>1
    <2>3. \A k \in Z : Precedes(T, n, k) => Precedes(U, n, k)
      BY <1>3
    <2>4. QED
      BY <2>1, <2>2, <2>3
  <1>5. QED
    BY <1>4, Zenon DEF StayPut

\* A run that was cut out, with what hung on it, is one run lost.
LEMMA LosesRun ==
  ASSUME NEW A \in SUBSET Nodes, NEW T, Sound(T, A), NEW r, Cutting(T, r, A), r.of \in Under(T),
         NEW U, Gone(T, U) = Under(T) \cap Below(T.kids, ToSet(Run(T, r)))
  PROVE  LosesOneRun(T, U)
  <1>n. PICK p, s, i, j, out : /\ p = r.of /\ s = T.kids[p] /\ i = r.from /\ j = r.to
                               /\ out = Run(T, r)
    OBVIOUS
  <1>1. s \in Seq(A) /\ i \in DOMAIN s /\ j \in DOMAIN s /\ i <= j
    <2>1. /\ T.kids[r.of] \in Seq(A) /\ r.from \in DOMAIN T.kids[r.of]
          /\ r.to \in DOMAIN T.kids[r.of] /\ r.from <= r.to
      BY RunPlaces
    <2>2. QED
      BY <1>n, <2>1
  <1>2. out = SubSeq(s, i, j)
    BY <1>n DEF Run
  <1>3. T.kids \in [Nodes -> Seq(Nodes)] /\ T.root \in Nodes /\ Under(T) = Reach(T.kids, T.root)
    BY SoundKids
  <1>4. out \in Seq(Nodes)
    <2>1. T \in TreeDocs(A)
      BY DEF Sound
    <2>2. out \in Seq(A)
      BY <1>n, <2>1, RunTyped
    <2>3. QED
      BY <2>2, SeqOver
  <1>5. ToSet(out) \subseteq ToSet(s)
    BY <1>1, <1>2 DEF ToSet
  <1>6. p \in Under(T) /\ ToSet(s) \subseteq Under(T)
    BY <1>n, LiveKids
  <1>7. Below(T.kids, ToSet(out)) \subseteq Under(T)
    <2>1. ASSUME NEW k \in ToSet(out) PROVE Reach(T.kids, k) \subseteq Under(T)
      <3>1. k \in Reach(T.kids, T.root)
        BY <1>3, <1>5, <1>6
      <3>2. QED
        BY <1>3, <3>1, ReachBelow
    <2>2. QED
      BY <2>1 DEF Below
  <1>8. Fragment(T, out) = Below(T.kids, ToSet(out))
    BY <1>3, <1>4, FragmentBelow
  <1>9. Gone(T, U) = Fragment(T, SubSeq(s, i, j))
    BY <1>2, <1>7, <1>8, <1>n
  <1>10. QED
    BY <1>1, <1>6, <1>9, <1>n DEF LosesOneRun

\* What is cut away whole is lost.
LEMMA PrunedLoses ==
  ASSUME NEW A \in SUBSET Nodes, NEW T, Sound(T, A), NEW r, Cutting(T, r, A), r.of \in Under(T),
         NEW V, Pruned(T, V, r.of, ToSet(Run(T, r))),
         NEW U, NEW N, N \cap Under(T) = {}, Under(U) = Under(V) \cup N
  PROVE  LosesOneRun(T, U)
  <1>b. PICK b : b = Below(T.kids, ToSet(Run(T, r)))
    OBVIOUS
  <1>1. Under(V) = Under(T) \ b
    BY <1>b DEF Pruned
  <1>2. Gone(T, U) = Under(T) \cap b
    BY <1>1 DEF Gone
  <1>3. QED
    BY <1>2, <1>b, LosesRun

\* An edit, committed.
LEMMA EditStays ==
  ASSUME NEW B \in SUBSET Nodes, NEW T, Sound(T, B), Kempt(T), NEW U, NEW p, NEW N,
         Edited(T, U, p, B), Grown(T, U, N), InMotion = {},
         InOrder(T, U, Under(T) \cap Under(U)), LosesOneRun(T, U),
         NEW R, R = Closed(U, p)
  PROVE  StayPut(T, R) /\ LosesOneRun(T, R)
  <1>1. Sound(U, B) /\ Sound(R, B) /\ U.root = T.root
    BY ClosedSound DEF Edited
  <1>2. /\ R.root = U.root /\ R.kids = U.kids /\ R.up = U.up
        /\ Kempt(R) /\ Numbering(U, R)
    <2>1. Kempt(U)
      BY Zenon DEF Grown
    <2>2. QED
      BY <1>1, <2>1, ClosedKept
  <1>3. Under(R) = Under(U)
    BY <1>2 DEF Under
  <1>z. PICK F, Z : F = InMotion /\ Z = Stay(T, R)
    OBVIOUS
  <1>4. F = {} /\ Z = Under(T) \cap Under(U)
    BY <1>3, <1>z DEF Stay
  <1>5. \A n \in Z : R.up[n] = T.up[n]
    <2>1. \A n \in Under(T) \cap Under(U) : U.up[n] = T.up[n]
      BY Zenon DEF Grown
    <2>2. QED
      BY <1>2, <1>4, <2>1
  <1>6. InOrder(T, R, Z)
    BY <1>2, <1>4 DEF InOrder
  <1>7. Undisturbed(T, R, F, Z)
    BY <1>1, <1>2, <1>3, <1>4, <1>5, <1>6 DEF Undisturbed, Entire
  <1>8. \A n \in Nodes : T.number[n] \in {NoNumber, R.number[n]}
    <2>1. U.number = T.number
      BY Zenon DEF Grown
    <2>2. Numbering(U, R)
      BY <1>2
    <2>3. ASSUME NEW n \in Nodes PROVE T.number[n] \in {NoNumber, R.number[n]}
      BY <2>1, <2>2, NumberHolds
    <2>4. QED
      BY <2>3
  <1>9. StayPut(T, R)
    BY <1>1, <1>7, <1>8, <1>z, StaysPut
  <1>10. LosesOneRun(T, R)
    BY <1>3 DEF LosesOneRun, Gone
  <1>11. QED
    BY <1>9, <1>10

\* A document is left as it was, or loses a run and keeps the rest in place.
LeftAlone(T, U) == U = T \/ (StayPut(T, U) /\ LosesOneRun(T, U))

\* The document d was committed, and no other touched.
LEMMA CommitLeaves ==
  ASSUME IInv, NEW d \in Docs, NEW T, T = doc[d], NEW B \in SUBSET Nodes, Sound(T, B), Kempt(T),
         NEW U, NEW p, NEW N, Edited(T, U, p, B), Grown(T, U, N), InMotion = {},
         InOrder(T, U, Under(T) \cap Under(U)), LosesOneRun(T, U),
         doc' = [doc EXCEPT ![d] = Closed(U, p)]
  PROVE  \A e \in Docs : LeftAlone(doc[e], doc'[e])
  <1>r. PICK R : R = Closed(U, p)
    OBVIOUS
  <1>1. DOMAIN doc = Docs
    BY InvParts
  <1>2. StayPut(T, R) /\ LosesOneRun(T, R)
    BY <1>r, EditStays
  <1>3. doc'[d] = R /\ \A e \in Docs \ {d} : doc'[e] = doc[e]
    BY <1>1, <1>r
  <1>4. ASSUME NEW e \in Docs PROVE LeftAlone(doc[e], doc'[e])
    <2>1. CASE e = d
      BY <1>2, <1>3, <2>1 DEF LeftAlone
    <2>2. CASE e # d
      BY <1>3, <2>2 DEF LeftAlone
    <2>3. QED
      BY <2>1, <2>2
  <1>5. QED
    BY <1>4

\* A command moves nothing.
LEMMA NothingMoves ==
  ASSUME UNCHANGED pending \/ pending.stage # "resolved"
  PROVE  InMotion = {}
  BY DEF InMotion

\* Nodes that were put in take none away.
LEMMA PlantedKeeps ==
  ASSUME NEW T, NEW U, NEW ns, Planted(T, U, ns)
  PROVE  LosesOneRun(T, U)
  BY DEF Planted, LosesOneRun, Gone

\* insert.
LEMMA InsertLeaves ==
  ASSUME IInv, TreesKept, NEW d \in Docs, NEW at \in Places(Given),
         NEW m \in 1 .. MaxFragment, Insert(d, at, m)
  PROVE  \A e \in Docs : LeftAlone(doc[e], doc'[e])
  <1>u. PICK T, U, p, B, fresh : /\ T = doc[d] /\ U = InsertAll(T, fresh, at)
                                 /\ p = ParentAt(T, at) /\ B = 1 .. minted + m /\ fresh = Fresh(m)
    OBVIOUS
  <1>1. /\ Resolves(T, at) /\ MayMint(m) /\ ~strayed /\ UNCHANGED pending
        /\ doc' = [doc EXCEPT ![d] = Closed(U, p)]
    BY <1>u DEF Insert, Minted, Command, MayEdit, Commit
  <1>2. Typed /\ Kempt(T) /\ Barren(doc[d].kids, 1 .. minted) /\ m \in Nat
    BY <1>1, <1>u, EditedDoc, SizesAssumption
  <1>3. /\ Sound(T, B) /\ B \in SUBSET Nodes /\ fresh \in Seq(B) /\ IsInjective(fresh)
        /\ Leaves(T, B, ToSet(fresh))
    BY <1>1, <1>2, <1>u, FreshKept
  <1>4. at \in Ats
    BY PlacesAreAts
  <1>5. p \in Under(T) /\ Addresses(T, at, p)
    BY <1>1, <1>2, <1>3, <1>4, <1>u, ResolvesBelow
  <1>6. Edited(T, U, p, B)
    BY <1>3, <1>5, <1>u, InsertAllSound
  <1>7. Planted(T, U, ToSet(fresh))
    BY <1>2, <1>3, <1>5, <1>u, InsertAllKept
  <1>8. Grown(T, U, ToSet(fresh))
    <2>1. ToSet(fresh) \cap Under(T) = {}
      BY <1>3 DEF Leaves
    <2>2. QED
      BY <1>3, <1>7, <2>1, PlantedGrows
  <1>z. PICK Z : Z = Under(T) \cap Under(U)
    OBVIOUS
  <1>9. Z \in SUBSET Nodes
    <2>1. Under(T) \subseteq B
      BY <1>3, SoundKids
    <2>2. QED
      BY <1>3, <1>z, <2>1
  <1>10. InOrder(T, U, Z)
    BY <1>2, <1>3, <1>5, <1>9, <1>u, InsertInOrder
  <1>11. LosesOneRun(T, U) /\ InMotion = {}
    BY <1>1, <1>7, PlantedKeeps, NothingMoves
  <1>12. QED
    <2>1. /\ T = doc[d] /\ Sound(T, B) /\ Kempt(T) /\ Edited(T, U, p, B)
          /\ Grown(T, U, ToSet(fresh)) /\ InMotion = {}
          /\ InOrder(T, U, Under(T) \cap Under(U)) /\ LosesOneRun(T, U)
          /\ doc' = [doc EXCEPT ![d] = Closed(U, p)] /\ B \in SUBSET Nodes
      BY <1>1, <1>2, <1>3, <1>6, <1>8, <1>10, <1>11, <1>u, <1>z
    <2>2. QED
      BY <2>1, CommitLeaves

\* What a tree without the run keeps has nothing of the run.
LEMMA PrunedApart ==
  ASSUME NEW T, NEW V, NEW p, NEW ns, Pruned(T, V, p, ns),
         NEW U, NEW N, N \cap Under(T) = {}, Under(U) = Under(V) \cup N
  PROVE  (Under(T) \cap Under(U)) \cap ns = {}
  BY DEF Pruned

\* delete.
LEMMA DeleteLeaves ==
  ASSUME IInv, TreesKept, NEW d \in Docs, NEW r \in Runs(d), Delete(d, r)
  PROVE  \A e \in Docs : LeftAlone(doc[e], doc'[e])
  <1>u. PICK T, U, p, A, ns : /\ T = doc[d] /\ U = Deleted(T, r) /\ p = r.of /\ A = 1 .. minted
                              /\ ns = ToSet(Run(T, r))
    OBVIOUS
  <1>1. ~strayed /\ UNCHANGED pending /\ doc' = [doc EXCEPT ![d] = Closed(U, p)]
    BY <1>u DEF Delete, Command, MayEdit, Commit
  <1>2. Kempt(T) /\ Sound(T, A) /\ A \in SUBSET Nodes /\ Under(T) \subseteq A
    BY <1>1, <1>u, EditedDoc
  <1>3. Cutting(T, r, A) /\ p \in Under(T)
    BY <1>1, <1>u, RunsBelow
  <1>4. Edited(T, U, p, A)
    BY <1>2, <1>3, <1>u, DeletedSound
  <1>5. Pruned(T, U, p, ns)
    BY <1>2, <1>3, <1>u, DeletedKept
  <1>6. Grown(T, U, {})
    <2>1. Kempt(U) /\ U.next \in Nat
      BY <1>4, <1>5, NextTyped DEF Pruned, Edited
    <2>2. Planted(U, U, {})
      BY <2>1 DEF Planted
    <2>3. QED
      BY <1>2, <1>5, <2>2, PlantedGrows
  <1>z. PICK Z, N : Z = Under(T) \cap Under(U) /\ N = {}
    OBVIOUS
  <1>7. N \cap Under(T) = {} /\ Under(U) = Under(U) \cup N
    BY <1>z
  <1>8. Z \in SUBSET Nodes /\ Z \cap ns = {}
    <2>1. Z \cap ns = {}
      BY <1>5, <1>7, <1>z, PrunedApart
    <2>2. QED
      BY <1>2, <1>z, <2>1
  <1>9. InOrder(T, U, Z)
    BY <1>2, <1>3, <1>8, <1>u, DeleteInOrder
  <1>10. LosesOneRun(T, U)
    BY <1>2, <1>3, <1>5, <1>7, <1>u, PrunedLoses
  <1>11. InMotion = {}
    BY <1>1, NothingMoves
  <1>12. QED
    <2>1. /\ T = doc[d] /\ Sound(T, A) /\ Kempt(T) /\ Edited(T, U, p, A)
          /\ Grown(T, U, {}) /\ InMotion = {}
          /\ InOrder(T, U, Under(T) \cap Under(U)) /\ LosesOneRun(T, U)
          /\ doc' = [doc EXCEPT ![d] = Closed(U, p)] /\ A \in SUBSET Nodes
      BY <1>1, <1>2, <1>4, <1>6, <1>9, <1>10, <1>11, <1>u, <1>z
    <2>2. QED
      BY <2>1, CommitLeaves

\* replace.
LEMMA ReplaceLeaves ==
  ASSUME IInv, TreesKept, NEW d \in Docs, NEW r \in Runs(d),
         NEW m \in 1 .. MaxFragment, Replace(d, r, m)
  PROVE  \A e \in Docs : LeftAlone(doc[e], doc'[e])
  <1>u. PICK T, U, V, p, B, fresh : /\ T = doc[d] /\ U = Replaced(T, r, fresh) /\ V = Deleted(T, r)
                                    /\ p = r.of /\ B = 1 .. minted + m /\ fresh = Fresh(m)
    OBVIOUS
  <1>n. PICK N, ns : N = ToSet(fresh) /\ ns = ToSet(Run(T, r))
    OBVIOUS
  <1>1. /\ MayMint(m) /\ ~strayed /\ UNCHANGED pending
        /\ doc' = [doc EXCEPT ![d] = Closed(U, p)]
    BY <1>u DEF Replace, Minted, Command, MayEdit, Commit
  <1>2. /\ Typed /\ Kempt(T) /\ Barren(doc[d].kids, 1 .. minted)
        /\ m \in Nat /\ minted \in Nat
    BY <1>1, <1>u, EditedDoc, SizesAssumption
  <1>3. /\ Sound(T, B) /\ B \in SUBSET Nodes /\ fresh \in Seq(B) /\ IsInjective(fresh)
        /\ Leaves(T, B, ToSet(fresh))
    BY <1>1, <1>2, <1>u, FreshKept
  <1>4. Cutting(T, r, B) /\ p \in Under(T)
    <2>1. Cutting(T, r, 1 .. minted) /\ p \in Under(T)
      BY <1>1, <1>u, RunsBelow
    <2>2. 1 .. minted \subseteq B
      BY <1>2, <1>u
    <2>3. QED
      BY <2>1, <2>2, WiderCut
  <1>5. Edited(T, U, p, B)
    BY <1>3, <1>4, <1>u, ReplacedSound
  <1>6. Planted(V, U, N)
    BY <1>2, <1>3, <1>4, <1>n, <1>u, ReplacedKept
  <1>7. Pruned(T, V, p, ns)
    BY <1>2, <1>3, <1>4, <1>n, <1>u, DeletedKept
  <1>8. N \cap Under(T) = {} /\ Under(U) = Under(V) \cup N
    BY <1>3, <1>6, <1>n DEF Leaves, Planted
  <1>9. Grown(T, U, N)
    BY <1>3, <1>6, <1>7, <1>8, PlantedGrows
  <1>z. PICK Z : Z = Under(T) \cap Under(U)
    OBVIOUS
  <1>10. Z \in SUBSET Nodes /\ Z \cap ns = {}
    <2>1. Under(T) \subseteq B
      BY <1>3, SoundKids
    <2>2. Z \cap ns = {}
      BY <1>7, <1>8, <1>z, PrunedApart
    <2>3. QED
      BY <1>3, <1>z, <2>1, <2>2
  <1>11. InOrder(T, U, Z)
    BY <1>3, <1>4, <1>10, <1>n, <1>u, ReplaceInOrder
  <1>12. LosesOneRun(T, U)
    BY <1>3, <1>4, <1>7, <1>8, <1>n, <1>u, PrunedLoses
  <1>13. InMotion = {}
    BY <1>1, NothingMoves
  <1>14. QED
    <2>1. /\ T = doc[d] /\ Sound(T, B) /\ Kempt(T) /\ Edited(T, U, p, B)
          /\ Grown(T, U, N) /\ InMotion = {}
          /\ InOrder(T, U, Under(T) \cap Under(U)) /\ LosesOneRun(T, U)
          /\ doc' = [doc EXCEPT ![d] = Closed(U, p)] /\ B \in SUBSET Nodes
      BY <1>1, <1>2, <1>3, <1>5, <1>9, <1>11, <1>12, <1>13, <1>u, <1>z
    <2>2. QED
      BY <2>1, CommitLeaves

\* updates._replace_children cuts out all children of p, then plants the fresh nodes.
LEMMA RebodiedCuts ==
  ASSUME NEW A \in SUBSET Nodes, NEW T, Sound(T, A), Kempt(T), NEW p \in Under(T),
         NEW fresh \in Seq(A), IsInjective(fresh), Leaves(T, A, ToSet(fresh)),
         T.kids[p] # <<>>, NEW r, r = Body(T, p), NEW V, V = Deleted(T, r)
  PROVE  /\ Cutting(T, r, A) /\ r.of = p /\ ToSet(Run(T, r)) = ToSet(T.kids[p])
         /\ Pruned(T, V, p, ToSet(Run(T, r)))
         /\ Planted(V, Rebodied(T, p, fresh), ToSet(fresh))
  <1>n. PICK at, s : /\ at = [how |-> "last_child", node |-> p, index |-> 0]
                     /\ s = T.kids[p]
    OBVIOUS
  <1>0. p \in Nodes /\ p \in A /\ s \in Seq(A) /\ Some(T.kids[p]) /\ Addresses(V, at, p)
    BY <1>n, SoundKids, PlaceBelow DEF Some
  <1>1. Cutting(T, r, A) /\ r.of = p
    BY <1>0, <1>n DEF Some, Body, Cutting, Cuts
  <1>2. ToSet(Run(T, r)) = ToSet(s)
    <2>1. Run(T, r) = SubSeq(s, 1, Len(s))
      BY <1>n DEF Run, Body
    <2>2. SubSeq(s, 1, Len(s)) = s
      BY <1>0
    <2>3. QED
      BY <2>1, <2>2
  <1>3. Pruned(T, V, p, ToSet(Run(T, r))) /\ Sound(V, A)
    <2>1. Cutting(T, r, A) /\ r.of \in Under(T)
      BY <1>1
    <2>2. Pruned(T, V, r.of, ToSet(Run(T, r))) /\ Sound(V, A)
      BY <2>1, DeletedKept
    <2>3. QED
      BY <1>1, <2>2
  <1>4. Kempt(V) /\ p \in Under(V) /\ Under(V) \subseteq Under(T)
    BY <1>3 DEF Pruned
  <1>5. Leaves(V, A, ToSet(fresh))
    <2>1. \A q \in Nodes \ {p} : V.kids[q] = T.kids[q]
      <3>1. Edited(T, V, p, A)
        BY <1>1, DeletedSound
      <3>2. QED
        BY <3>1 DEF Edited
    <2>2. QED
      BY <1>4, <2>1 DEF Leaves
  <1>6. Planted(V, InsertAll(V, fresh, at), ToSet(fresh))
    BY <1>0, <1>3, <1>4, <1>5, InsertAllKept
  <1>7. Rebodied(T, p, fresh) = InsertAll(V, fresh, at)
    BY <1>0, <1>n DEF Rebodied
  <1>8. QED
    BY <1>1, <1>2, <1>3, <1>6, <1>7, <1>n

\* If there are none, it plants them at once.
LEMMA RebodiedPlants ==
  ASSUME NEW A \in SUBSET Nodes, NEW T, Sound(T, A), Kempt(T), NEW p \in Under(T),
         NEW fresh \in Seq(A), IsInjective(fresh), Leaves(T, A, ToSet(fresh)),
         T.kids[p] = <<>>
  PROVE  Planted(T, Rebodied(T, p, fresh), ToSet(fresh))
  <1>n. PICK at : at = [how |-> "last_child", node |-> p, index |-> 0]
    OBVIOUS
  <1>1. ~Some(T.kids[p]) /\ Addresses(T, at, p)
    BY <1>n, SoundKids, PlaceBelow DEF Some
  <1>2. Rebodied(T, p, fresh) = InsertAll(T, fresh, at)
    BY <1>1, <1>n DEF Rebodied
  <1>3. QED
    BY <1>1, <1>2, InsertAllKept

\* set_body.
LEMMA SetBodyLeaves ==
  ASSUME IInv, TreesKept, NEW d \in Docs, NEW p \in Nodes,
         NEW m \in 1 .. MaxFragment, SetBody(d, p, m)
  PROVE  \A e \in Docs : LeftAlone(doc[e], doc'[e])
  <1>u. PICK T, U, B, fresh : /\ T = doc[d] /\ U = Rebodied(T, p, fresh)
                              /\ B = 1 .. minted + m /\ fresh = Fresh(m)
    OBVIOUS
  <1>n. PICK N, ns, Z : /\ N = ToSet(fresh) /\ ns = ToSet(T.kids[p])
                        /\ Z = Under(T) \cap Under(U)
    OBVIOUS
  <1>1. /\ MayMint(m) /\ ~strayed /\ p \in T.known /\ UNCHANGED pending
        /\ doc' = [doc EXCEPT ![d] = Closed(U, p)]
    BY <1>u DEF SetBody, Minted, Command, MayEdit, Commit
  <1>2. /\ Typed /\ Kempt(T) /\ Barren(doc[d].kids, 1 .. minted)
        /\ m \in Nat /\ T.known = Under(T)
    BY <1>1, <1>u, EditedDoc, SizesAssumption
  <1>3. /\ Sound(T, B) /\ B \in SUBSET Nodes /\ fresh \in Seq(B) /\ IsInjective(fresh)
        /\ Leaves(T, B, ToSet(fresh))
    BY <1>1, <1>2, <1>u, FreshKept
  <1>4. p \in Under(T) /\ p \in B /\ Under(T) \subseteq B
    BY <1>1, <1>2, <1>3, SoundKids
  <1>5. Edited(T, U, p, B)
    BY <1>3, <1>4, <1>u, RebodiedSound
  <1>6. Grown(T, U, N)
    BY <1>2, <1>3, <1>4, <1>n, <1>u, RebodiedKept
  <1>7. N \cap Under(T) = {}
    BY <1>3, <1>n DEF Leaves
  <1>8. Z \cap ns = {} /\ LosesOneRun(T, U)
    <2>1. CASE T.kids[p] = <<>>
      <3>1. Planted(T, U, N)
        BY <1>2, <1>3, <1>4, <1>n, <1>u, <2>1, RebodiedPlants
      <3>2. ns = {}
        BY <1>n, <2>1 DEF ToSet
      <3>3. QED
        BY <3>1, <3>2, PlantedKeeps
    <2>2. CASE T.kids[p] # <<>>
      <3>r. PICK r, V : r = Body(T, p) /\ V = Deleted(T, r)
        OBVIOUS
      <3>1. /\ Cutting(T, r, B) /\ r.of = p /\ ToSet(Run(T, r)) = ToSet(T.kids[p])
            /\ Pruned(T, V, p, ToSet(Run(T, r))) /\ Planted(V, U, ToSet(fresh))
        <4>1. /\ B \in SUBSET Nodes /\ Sound(T, B) /\ Kempt(T) /\ p \in Under(T)
              /\ fresh \in Seq(B) /\ IsInjective(fresh) /\ Leaves(T, B, ToSet(fresh))
              /\ T.kids[p] # <<>> /\ r = Body(T, p) /\ V = Deleted(T, r)
          BY <1>2, <1>3, <1>4, <2>2, <3>r
        <4>2. Cutting(T, r, B) /\ r.of = p /\ ToSet(Run(T, r)) = ToSet(T.kids[p])
          BY <4>1, RebodiedCuts
        <4>3. Pruned(T, V, p, ToSet(Run(T, r))) /\ Planted(V, Rebodied(T, p, fresh), ToSet(fresh))
          BY <4>1, RebodiedCuts
        <4>4. QED
          BY <1>u, <4>2, <4>3
      <3>2. Pruned(T, V, p, ns) /\ Under(U) = Under(V) \cup N
        BY <1>n, <3>1 DEF Planted
      <3>3. Z \cap ns = {}
        BY <1>7, <1>n, <3>2, PrunedApart
      <3>4. LosesOneRun(T, U)
        <4>1. /\ Sound(T, B) /\ B \in SUBSET Nodes /\ Cutting(T, r, B) /\ r.of \in Under(T)
              /\ Pruned(T, V, r.of, ToSet(Run(T, r)))
              /\ N \cap Under(T) = {} /\ Under(U) = Under(V) \cup N
          BY <1>3, <1>4, <1>7, <3>1, <3>2
        <4>2. QED
          BY <4>1, PrunedLoses
      <3>5. QED
        BY <3>3, <3>4
    <2>3. QED
      BY <2>1, <2>2
  <1>9. InOrder(T, U, Z)
    <2>1. Z \in SUBSET Nodes
      BY <1>3, <1>4, <1>n
    <2>2. QED
      BY <1>3, <1>4, <1>8, <1>n, <1>u, <2>1, RebodyInOrder
  <1>10. InMotion = {}
    BY <1>1, NothingMoves
  <1>11. QED
    <2>1. /\ T = doc[d] /\ Sound(T, B) /\ Kempt(T) /\ Edited(T, U, p, B)
          /\ Grown(T, U, N) /\ InMotion = {}
          /\ InOrder(T, U, Under(T) \cap Under(U)) /\ LosesOneRun(T, U)
          /\ doc' = [doc EXCEPT ![d] = Closed(U, p)] /\ B \in SUBSET Nodes
      BY <1>1, <1>2, <1>3, <1>5, <1>6, <1>8, <1>9, <1>10, <1>n, <1>u
    <2>2. QED
      BY <2>1, CommitLeaves

\* The commit of a move, after the splice.
LEMMA CloseLeaves ==
  ASSUME IInv, TreesKept, ~strayed, NEW d \in Docs, NEW p, pending.stage # "resolved",
         doc' = [doc EXCEPT ![d] = Closed(doc[d], p)]
  PROVE  \A e \in Docs : LeftAlone(doc[e], doc'[e])
  <1>n. PICK T, A, N : T = doc[d] /\ A = 1 .. minted /\ N = {}
    OBVIOUS
  <1>1. /\ Sound(T, A) /\ Kempt(T) /\ A \in SUBSET Nodes
    BY <1>n, EditedDoc
  <1>2. Edited(T, T, p, A)
    BY <1>1 DEF Edited
  <1>3. Grown(T, T, N)
    <2>1. T.next \in Nat
      BY <1>1, NextTyped
    <2>2. Planted(T, T, N)
      BY <1>1, <1>n, <2>1 DEF Planted
    <2>3. QED
      BY <1>1, <1>n, <2>2, PlantedGrows
  <1>4. InOrder(T, T, Under(T) \cap Under(T))
    BY DEF InOrder
  <1>5. LosesOneRun(T, T)
    BY DEF LosesOneRun, Gone
  <1>6. InMotion = {}
    BY NothingMoves
  <1>7. doc' = [doc EXCEPT ![d] = Closed(T, p)]
    BY <1>n
  <1>8. QED
    BY <1>1, <1>2, <1>3, <1>4, <1>5, <1>6, <1>7, <1>n, CommitLeaves

\* The two commits of a move.
LEMMA MoveCommitSourceLeaves ==
  ASSUME IInv, TreesKept, ~strayed, MoveCommitSource
  PROVE  \A e \in Docs : LeftAlone(doc[e], doc'[e])
  <1>m. PICK m, d, p : m = pending /\ d = m.src /\ p = m.cut.of
    OBVIOUS
  <1>1. /\ m.stage = "source" /\ doc' = [doc EXCEPT ![d] = Closed(doc[d], p)]
    <2>1. doc' = [doc EXCEPT ![d] = Closed(@, p)]
      BY <1>m DEF MoveCommitSource
    <2>2. QED
      BY <1>m, <2>1 DEF MoveCommitSource
  <1>2. d \in Docs
    <2>1. m # NoMove
      BY <1>1 DEF NoMove
    <2>2. QED
      BY <1>m, <2>1, InvParts DEF Moves
  <1>3. pending.stage # "resolved"
    BY <1>1, <1>m
  <1>4. QED
    BY <1>1, <1>2, <1>3, CloseLeaves

\* The same of the second.
LEMMA MoveCommitTargetLeaves ==
  ASSUME IInv, TreesKept, ~strayed, MoveCommitTarget
  PROVE  \A e \in Docs : LeftAlone(doc[e], doc'[e])
  <1>d. PICK d, p : d = pending.dst /\ p = doc[d].up[pending.roots[1]]
    OBVIOUS
  <1>1. pending.stage = "target" /\ doc' = [doc EXCEPT ![d] = Closed(doc[d], p)]
    BY <1>d DEF MoveCommitTarget, Commit
  <1>2. d \in Docs
    <2>1. pending # NoMove
      BY <1>1 DEF NoMove
    <2>2. QED
      BY <1>d, <2>1, InvParts DEF Moves
  <1>3. pending.stage # "resolved"
    BY <1>1
  <1>4. QED
    BY <1>1, <1>2, <1>3, CloseLeaves

-----------------------------------------------------------------------------
(* What a move leaves alone.                                               *)

\* What was in order stays in order.
LEMMA OrderOn ==
  ASSUME NEW T, NEW S, NEW R, NEW Z, InOrder(T, S, Z), InOrder(S, R, Z)
  PROVE  InOrder(T, R, Z)
  BY Zenon DEF InOrder

\* U is T with the children s of p spliced, none of them from Z cut out.
SplicesOut(A, T, U, p, s, i, j, new, Z) ==
  /\ A \in SUBSET Nodes /\ Z \in SUBSET Nodes
  /\ \A q \in Nodes \ {p} : U.kids[q] = T.kids[q]
  /\ s \in Seq(A) /\ s = T.kids[p] /\ i \in 0 .. Len(s) /\ j \in i .. Len(s)
  /\ new \in Seq(A) /\ U.kids[p] = Splice(s, i, j, new)
  /\ Z \cap ToSet(SubSeq(s, i + 1, j)) = {}

\* Then what is in Z stays in order.
LEMMA SplicedInOrder ==
  ASSUME NEW A, NEW T, NEW U, NEW p, NEW s, NEW i, NEW j, NEW new, NEW Z,
         SplicesOut(A, T, U, p, s, i, j, new, Z)
  PROVE  InOrder(T, U, Z)
  <1>1. /\ A \in SUBSET Nodes /\ Z \in SUBSET Nodes
        /\ \A q \in Nodes \ {p} : U.kids[q] = T.kids[q]
        /\ s \in Seq(A) /\ s = T.kids[p] /\ i \in 0 .. Len(s) /\ j \in i .. Len(s)
        /\ new \in Seq(A) /\ U.kids[p] = Splice(s, i, j, new)
        /\ Z \cap ToSet(SubSeq(s, i + 1, j)) = {}
    BY Zenon DEF SplicesOut
  <1>2. QED
    BY <1>1, SpliceInOrder

\* _detach keeps what it does not cut out in order.
LEMMA DetachInOrder ==
  ASSUME NEW A \in SUBSET Nodes, NEW m, m \in Moves(A), NEW T, T = doc[m.src], Sound(T, A),
         Kempt(T), StillThere(m), Aimed(m, T), NEW S, S = Detached(m),
         NEW Z \in SUBSET Nodes, Z \cap ToSet(m.roots) = {}
  PROVE  InOrder(T, S, Z)
  <1>n. PICK p, s, i, j, none : /\ p = m.cut.of /\ s = T.kids[p] /\ i = m.cut.from - 1
                                /\ j = m.cut.to /\ none = <<>>
    OBVIOUS
  <1>1. Cutting(T, m.cut, A)
    BY CutBelow
  <1>2. Run(T, m.cut) = m.roots
    BY DEF StillThere
  <1>3. /\ s \in Seq(A) /\ i \in 0 .. Len(s) /\ j \in i .. Len(s)
        /\ m.roots = SubSeq(s, i + 1, j)
    <2>r. PICK r : r = m.cut
      OBVIOUS
    <2>1. /\ T.kids[r.of] \in Seq(A)
          /\ r.from - 1 \in 0 .. Len(T.kids[r.of]) /\ r.to \in r.from - 1 .. Len(T.kids[r.of])
          /\ Run(T, r) = SubSeq(T.kids[r.of], (r.from - 1) + 1, r.to)
      BY <1>1, <2>r, RunPlaces
    <2>2. QED
      BY <1>2, <1>n, <2>1, <2>r
  <1>4. S.kids[p] = Splice(s, i, j, none)
    BY <1>n, DetachShape
  <1>5. \A q \in Nodes \ {p} : S.kids[q] = T.kids[q]
    BY <1>n, DetachKept
  <1>6. /\ none \in Seq(A) /\ Z \cap ToSet(SubSeq(s, i + 1, j)) = {} /\ s = T.kids[p]
        /\ s \in Seq(A) /\ i \in 0 .. Len(s) /\ j \in i .. Len(s)
    BY <1>3, <1>n
  <1>7. SplicesOut(A, T, S, p, s, i, j, none, Z)
    BY <1>4, <1>5, <1>6, Zenon DEF SplicesOut
  <1>8. QED
    BY <1>7, SplicedInOrder

\* And _attach everything.
LEMMA AttachInOrder ==
  ASSUME NEW A \in SUBSET Nodes, NEW m, m \in Moves(A), NEW O, O = doc[m.dst], Sound(O, A),
         Resolves(O, m.at), NEW V, Sound(V, A), NEW R, R = Attached(m, V), NEW Z \in SUBSET Nodes
  PROVE  InOrder(V, R, Z)
  <1>n. PICK q, i, s, out : /\ q = ParentAt(O, m.at) /\ i = Spot(O, m.at) /\ s = V.kids[q]
                            /\ out = m.roots
    OBVIOUS
  <1>0. O \in TreeDocs(A) /\ V \in TreeDocs(A) /\ m.at \in Ats /\ out \in Seq(A)
    BY <1>n DEF Moves, Sound
  <1>1. Addresses(O, m.at, q)
    BY <1>0, <1>n, ResolvesAddresses
  <1>2. i \in Nat /\ q \in Nodes /\ s \in Seq(A)
    <2>1. i \in 0 .. Len(O.kids[q])
      BY <1>0, <1>1, <1>n, SpotTyped
    <2>2. q \in Nodes
      BY <1>1 DEF Addresses
    <2>3. QED
      BY <1>0, <1>n, <2>1, <2>2 DEF TreeDocs
  <1>3. /\ R.kids[q] = Splice(s, i, i, out)
        /\ \A n \in Nodes \ {q} : R.kids[n] = V.kids[n]
    <2>1. Attaches(V, R, q, Splice(V.kids[q], i, i, m.roots), ToSet(m.roots))
      BY <1>n, AttachShape
    <2>2. QED
      BY <1>n, <2>1 DEF Attaches
  <1>4. PICK k \in 0 .. Len(s) : Splice(s, i, i, out) = Splice(s, k, k, out)
    BY <1>0, <1>2, SpliceClamps
  <1>5. k \in k .. Len(s) /\ ToSet(SubSeq(s, k + 1, k)) = {}
    BY <1>2, <1>4 DEF ToSet
  <1>6. R.kids[q] = Splice(s, k, k, out) /\ s = V.kids[q] /\ Z \cap ToSet(SubSeq(s, k + 1, k)) = {}
    BY <1>3, <1>4, <1>5, <1>n
  <1>7. QED
    BY <1>0, <1>2, <1>3, <1>4, <1>5, <1>6, SpliceInOrder

\* What is below some nodes has with a node its children.
LEMMA BelowEntire ==
  ASSUME NEW kids \in [Nodes -> Seq(Nodes)], NEW ns \in SUBSET Nodes
  PROVE  Below(kids, ns) \subseteq Nodes /\ Entire(kids, Below(kids, ns))
  <1>1. ASSUME NEW k \in ns PROVE Reach(kids, k) \subseteq Nodes /\ Entire(kids, Reach(kids, k))
    BY ReachClosed
  <1>2. QED
    BY <1>1 DEF Below, Entire

\* S is T with the nodes F, that the move m takes, taken out.
Parted(m, T, S, F, A) ==
  /\ Pruned(T, S, m.cut.of, ToSet(m.roots)) /\ Sound(S, A) /\ Kempt(S) /\ S.root = T.root
  /\ F = Fragment(S, m.roots) /\ F = Below(T.kids, ToSet(m.roots))
  /\ Below(S.kids, ToSet(m.roots)) = F
  /\ F \subseteq Nodes /\ ToSet(m.roots) \subseteq F /\ F \subseteq Under(T) /\ Entire(T.kids, F)
  /\ Under(S) = Under(T) \ F /\ Loose(S, ToSet(m.roots))
  /\ \A n \in Nodes \ F : S.up[n] = T.up[n]

\* So _detach leaves the document.
LEMMA MoveParts ==
  ASSUME NEW A \in SUBSET Nodes, NEW m, m \in Moves(A), NEW T, T = doc[m.src], Sound(T, A),
         Kempt(T), StillThere(m), Aimed(m, T), NEW S, S = Detached(m),
         NEW F, F = Fragment(T, m.roots)
  PROVE  Parted(m, T, S, F, A)
  <1>n. PICK p, out, ns : p = m.cut.of /\ out = m.roots /\ ns = ToSet(out)
    OBVIOUS
  <1>1. /\ Pruned(T, S, m.cut.of, ToSet(m.roots)) /\ Severed(T, S, ToSet(m.roots))
        /\ Sound(S, A) /\ S.root = T.root
    BY DetachKept
  <1>2. Pruned(T, S, p, ns) /\ Severed(T, S, ns) /\ out \in Seq(A)
    BY <1>1, <1>n DEF Moves
  <1>3. /\ Loose(S, ns) /\ Below(S.kids, ns) = F
        /\ Fragment(S, out) = F /\ F \subseteq Under(T) /\ Under(S) = Under(T) \ F
        /\ F = Below(T.kids, ns)
    <2>b. PICK B : B = Below(T.kids, ns)
      OBVIOUS
    <2>1. /\ Loose(S, ns) /\ Below(S.kids, ns) = B
          /\ Fragment(T, out) = B /\ Fragment(S, out) = B
          /\ B \subseteq Under(T) /\ Under(S) = Under(T) \ B
      BY <1>1, <1>2, <1>n, <2>b, CutLoose
    <2>2. QED
      BY <1>n, <2>1, <2>b
  <1>4. ns \subseteq Nodes /\ ns \subseteq F
    BY <1>2, <1>3 DEF Severed
  <1>5. F \subseteq Nodes /\ Entire(T.kids, F)
    <2>1. T.kids \in [Nodes -> Seq(Nodes)]
      BY SoundKids
    <2>2. QED
      BY <1>3, <1>4, <2>1, BelowEntire
  <1>6. \A n \in Nodes \ F : S.up[n] = T.up[n]
    <2>1. Rehung(T, S, ns, NoNode)
      BY <1>2 DEF Pruned
    <2>2. QED
      BY <1>4, <2>1 DEF Rehung
  <1>7. Kempt(S)
    BY <1>2 DEF Pruned
  <1>8. QED
    BY <1>1, <1>3, <1>4, <1>5, <1>6, <1>7, <1>n DEF Parted

\* A move within a document.
LEMMA MoveWithin ==
  ASSUME NEW A \in SUBSET Nodes, NEW m, m \in Moves(A), NEW T, T = doc[m.src], Sound(T, A),
         Kempt(T), StillThere(m), Aimed(m, T), m.src = m.dst, Resolves(T, m.at),
         NEW S, S = Detached(m), NEW F, Parted(m, T, S, F, A),
         NEW R, R = Attached(m, S), Kempt(R), NEW Z, Z = (Under(T) \cap Under(R)) \ F
  PROVE  Undisturbed(T, R, F, Z)
  <1>n. PICK ns, q, i : ns = ToSet(m.roots) /\ q = ParentAt(T, m.at) /\ i = Spot(T, m.at)
    OBVIOUS
  <1>1. /\ Sound(S, A) /\ S.root = T.root /\ F \subseteq Nodes /\ ns \subseteq F
        /\ Entire(T.kids, F) /\ \A n \in Nodes \ F : S.up[n] = T.up[n]
    BY <1>n DEF Parted
  <1>2. Z \in SUBSET Nodes /\ Z \cap ToSet(m.roots) = {} /\ Z \cap F = {}
    <2>1. Under(T) \subseteq A
      BY SoundKids
    <2>2. QED
      BY <1>1, <1>n, <2>1
  <1>3. InOrder(T, S, Z)
    BY <1>2, DetachInOrder
  <1>4. /\ InOrder(S, R, Z)
        /\ Attaches(S, R, q, Splice(S.kids[q], i, i, m.roots), ToSet(m.roots))
    <2>o. PICK O : O = doc[m.dst]
      OBVIOUS
    <2>1. /\ O = doc[m.dst] /\ Sound(O, A) /\ Resolves(O, m.at) /\ Sound(S, A) /\ R = Attached(m, S)
          /\ q = ParentAt(O, m.at) /\ i = Spot(O, m.at)
      BY <1>1, <1>n, <2>o
    <2>2. InOrder(S, R, Z)
      BY <1>2, <2>1, AttachInOrder
    <2>3. Attaches(S, R, q, Splice(S.kids[q], i, i, m.roots), ToSet(m.roots))
      BY <2>1, AttachShape
    <2>4. QED
      BY <2>2, <2>3
  <1>5. InOrder(T, R, Z)
    BY <1>3, <1>4, OrderOn
  <1>6. R.root = T.root /\ \A n \in Z : R.up[n] = T.up[n]
    <2>1. R.root = S.root /\ Rehung(S, R, ns, q)
      BY <1>4, <1>n DEF Attaches
    <2>2. \A n \in Z : n \in Nodes \ F /\ n \notin ns
      BY <1>1, <1>2
    <2>3. \A n \in Z : R.up[n] = S.up[n]
      BY <2>1, <2>2 DEF Rehung
    <2>4. QED
      BY <1>1, <2>1, <2>2, <2>3
  <1>7. QED
    BY <1>1, <1>5, <1>6 DEF Undisturbed

\* The document a move leaves.
LEMMA MoveOut ==
  ASSUME NEW A \in SUBSET Nodes, NEW m, m \in Moves(A), NEW T, T = doc[m.src], Sound(T, A),
         Kempt(T), StillThere(m), Aimed(m, T),
         NEW S, S = Detached(m), NEW F, Parted(m, T, S, F, A),
         NEW W, W = Without(S, F), NEW Z, Z = (Under(T) \cap Under(W)) \ F
  PROVE  Undisturbed(T, W, F, Z) /\ LosesOneRun(T, W)
  <1>n. PICK ns : ns = ToSet(m.roots)
    OBVIOUS
  <1>1. /\ Sound(S, A) /\ Kempt(S) /\ S.root = T.root /\ F \subseteq Nodes /\ ns \subseteq F
        /\ Entire(T.kids, F) /\ F = Below(T.kids, ns) /\ F \subseteq Under(T)
        /\ Under(S) = Under(T) \ F /\ \A n \in Nodes \ F : S.up[n] = T.up[n]
    BY <1>n DEF Parted
  <1>2. Z \in SUBSET Nodes /\ Z \cap ToSet(m.roots) = {} /\ Z \cap F = {}
    <2>1. Under(T) \subseteq A
      BY SoundKids
    <2>2. QED
      BY <1>1, <1>n, <2>1
  <1>3. InOrder(T, S, Z)
    BY <1>2, DetachInOrder
  <1>4. Kempt(W) /\ Under(W) = Under(S) /\ Bereft(S, W, F)
    <2>1. F \cap Under(S) = {}
      BY <1>1
    <2>2. QED
      BY <1>1, <2>1, WithoutKept
  <1>5. InOrder(S, W, Z)
    <2>1. \A n \in Z : W.kids[n] = S.kids[n]
      BY <1>2, <1>4 DEF Bereft
    <2>2. QED
      BY <2>1 DEF InOrder
  <1>6. InOrder(T, W, Z)
    BY <1>3, <1>5, OrderOn
  <1>7. W.root = T.root /\ \A n \in Z : W.up[n] = T.up[n]
    <2>1. W.root = S.root /\ W.up = S.up
      BY <1>4 DEF Bereft, SameNumbers
    <2>2. \A n \in Z : n \in Nodes \ F
      BY <1>2
    <2>3. QED
      BY <1>1, <2>1, <2>2
  <1>8. Undisturbed(T, W, F, Z)
    BY <1>1, <1>4, <1>6, <1>7 DEF Undisturbed
  <1>9. LosesOneRun(T, W)
    <2>r. PICK r : r = m.cut
      OBVIOUS
    <2>1. Cutting(T, r, A) /\ r.of \in Under(T)
      BY <2>r, CutBelow
    <2>2. Run(T, r) = m.roots
      BY <2>r DEF StillThere
    <2>3. Gone(T, W) = Under(T) \cap Below(T.kids, ToSet(Run(T, r)))
      BY <1>1, <1>4, <1>n, <2>2 DEF Gone
    <2>4. QED
      BY <2>1, <2>3, LosesRun
  <1>10. QED
    BY <1>8, <1>9

\* The document a move enters.
LEMMA MoveIn ==
  ASSUME NEW A \in SUBSET Nodes, NEW m, m \in Moves(A), NEW O, O = doc[m.dst], Sound(O, A),
         Kempt(O), Resolves(O, m.at), NEW S, NEW F, NEW T, Parted(m, T, S, F, A),
         F \cap Under(O) = {},
         NEW J, J = With(O, S, F), NEW R, R = Attached(m, J), Kempt(R),
         NEW N, N = {}, NEW Z, Z = (Under(O) \cap Under(R)) \ N
  PROVE  Undisturbed(O, R, N, Z)
  <1>n. PICK ns, q, i : ns = ToSet(m.roots) /\ q = ParentAt(O, m.at) /\ i = Spot(O, m.at)
    OBVIOUS
  <1>1. Sound(S, A) /\ ns \subseteq F
    BY <1>n DEF Parted
  <1>2. Z \in SUBSET Nodes /\ Z \cap F = {}
    <2>1. Under(O) \subseteq A
      BY SoundKids
    <2>2. QED
      BY <2>1
  <1>3. Sound(J, A) /\ Enriched(O, S, J, F)
    <2>1. Sound(J, A)
      BY <1>1, WithSound
    <2>2. Enriched(O, S, J, F)
      BY <1>1, WithKept
    <2>3. QED
      BY <2>1, <2>2
  <1>4. InOrder(O, J, Z)
    <2>1. \A n \in Z : J.kids[n] = O.kids[n]
      BY <1>2, <1>3 DEF Enriched
    <2>2. QED
      BY <2>1 DEF InOrder
  <1>5. InOrder(J, R, Z)
    BY <1>2, <1>3, AttachInOrder
  <1>6. Attaches(J, R, q, Splice(J.kids[q], i, i, m.roots), ToSet(m.roots))
    BY <1>3, <1>n, AttachShape
  <1>7. InOrder(O, R, Z)
    BY <1>4, <1>5, OrderOn
  <1>8. R.root = O.root /\ \A n \in Z : R.up[n] = O.up[n]
    <2>1. R.root = J.root /\ Rehung(J, R, ns, q)
      BY <1>6, <1>n DEF Attaches
    <2>2. J.root = O.root /\ \A n \in Nodes \ F : J.up[n] = O.up[n]
      BY <1>3 DEF Enriched, SameNumbers
    <2>3. \A n \in Z : n \in Nodes \ F /\ n \notin ns
      BY <1>1, <1>2
    <2>4. \A n \in Z : R.up[n] = J.up[n]
      BY <2>1, <2>3 DEF Rehung
    <2>5. QED
      BY <2>1, <2>2, <2>3, <2>4
  <1>9. QED
    BY <1>7, <1>8 DEF Undisturbed, Entire

\* The numbers stay.
LEMMA SameNumbersHold ==
  ASSUME NEW T, NEW R, SameNumbers(T, R)
  PROVE  \A n \in Nodes : T.number[n] \in {NoNumber, R.number[n]}
  BY DEF SameNumbers

\* The splice of a move, when its range still stands, moves its nodes alone.
LEMMA MovedLeaves ==
  ASSUME NEW A \in SUBSET Nodes, NEW m \in Moves(A), DOMAIN doc = Docs,
         \A d \in Docs : Sound(doc[d], A) /\ Mirrors(doc[d]) /\ Kempt(doc[d]),
         Admitted(m), StillThere(m), Aimed(m, doc[m.src]),
         NEW D, D = MovedDocs(m), NEW F, F = Fragment(doc[m.src], m.roots), InMotion = F
  PROVE  \A d \in Docs : LeftAlone(doc[d], D[d])
  <1>n. PICK T, O : T = doc[m.src] /\ O = doc[m.dst]
    OBVIOUS
  <1>s. PICK S : S = Detached(m)
    OBVIOUS
  <1>0. /\ m.src \in Docs /\ m.dst \in Docs
        /\ Sound(T, A) /\ Kempt(T) /\ Sound(O, A) /\ Kempt(O) /\ Aimed(m, T)
    BY <1>n DEF Moves
  <1>1. /\ Carries(m, D, F, A)
        /\ \A d \in Docs : Sound(D[d], A)
        /\ \A d \in Docs \ {m.src, m.dst} : D[d] = doc[d]
        /\ \A d \in Docs : SameNumbers(doc[d], D[d])
    <2>1. Carries(m, D, F, A)
      BY MovedKept
    <2>2. /\ \A d \in Docs : Sound(D[d], A)
          /\ \A d \in Docs \ {m.src, m.dst} : D[d] = doc[d]
      BY MovedSound
    <2>3. \A d \in Docs : SameNumbers(doc[d], D[d])
      BY MovedIds
    <2>4. QED
      BY <2>1, <2>2, <2>3
  <1>2. Parted(m, T, S, F, A)
    BY <1>0, <1>n, <1>s, MoveParts
  <1>3. Resolves(O, m.at) /\ F = Fragment(S, m.roots)
        /\ (m.src # m.dst => F \cap Under(O) = {})
    <2>1. /\ Resolves(O, m.at) /\ (m.src # m.dst => F \cap O.known = {})
      BY <1>n DEF Admitted
    <2>2. O.known = Under(O)
      BY <1>0, Zenon DEF Kempt
    <2>3. QED
      BY <1>2, <2>1, <2>2 DEF Parted
  <1>4. ASSUME NEW d \in Docs, NEW R, R = D[d], NEW X, X = doc[d], NEW G,
               NEW Z, Z = Stay(X, R), Undisturbed(X, R, G, Z)
        PROVE  StayPut(X, R)
    <2>1. Sound(X, A) /\ Sound(R, A)
      BY <1>1, <1>4
    <2>2. \A n \in Nodes : X.number[n] \in {NoNumber, R.number[n]}
      <3>1. SameNumbers(X, R)
        BY <1>1, <1>4
      <3>2. QED
        BY <3>1, SameNumbersHold
    <2>3. QED
      BY <1>4, <2>1, <2>2, StaysPut
  <1>5. CASE m.src = m.dst
    <2>r. PICK R, Z : R = Attached(m, S) /\ Z = Stay(T, R)
      OBVIOUS
    <2>1. D[m.src] = R /\ O = T
      BY <1>0, <1>5, <1>n, <1>s, <2>r DEF MovedDocs
    <2>2. Kempt(R) /\ Under(R) = Under(T)
      BY <1>1, <1>5, <1>n, <2>1 DEF Carries
    <2>3. Z = (Under(T) \cap Under(R)) \ F
      BY <2>r DEF Stay
    <2>4. Undisturbed(T, R, F, Z)
      <3>1. /\ T = doc[m.src] /\ Sound(T, A) /\ Kempt(T) /\ StillThere(m) /\ Aimed(m, T)
            /\ m.src = m.dst /\ Resolves(T, m.at) /\ S = Detached(m) /\ Parted(m, T, S, F, A)
            /\ R = Attached(m, S) /\ Kempt(R) /\ Z = (Under(T) \cap Under(R)) \ F
        BY <1>0, <1>2, <1>3, <1>5, <1>n, <1>s, <2>1, <2>2, <2>3, <2>r
      <3>2. QED
        BY <3>1, MoveWithin
    <2>5. StayPut(T, R)
      BY <1>0, <1>4, <1>n, <2>1, <2>4, <2>r
    <2>6. LosesOneRun(T, R)
      BY <2>2 DEF LosesOneRun, Gone
    <2>7. ASSUME NEW d \in Docs PROVE LeftAlone(doc[d], D[d])
      <3>1. CASE d = m.src
        BY <1>n, <2>1, <2>5, <2>6, <3>1 DEF LeftAlone
      <3>2. CASE d # m.src
        BY <1>1, <1>5, <3>2 DEF LeftAlone
      <3>3. QED
        BY <3>1, <3>2
    <2>8. QED
      BY <2>7
  <1>6. CASE m.src # m.dst
    <2>w. PICK W, J : W = Without(S, F) /\ J = With(O, S, F)
      OBVIOUS
    <2>r. PICK R, N, Z, Y : R = Attached(m, J) /\ N = {} /\ Z = Stay(T, W) /\ Y = Stay(O, R)
      OBVIOUS
    <2>1. D[m.src] = W /\ D[m.dst] = R
      BY <1>0, <1>3, <1>6, <1>n, <1>s, <2>w, <2>r DEF MovedDocs
    <2>2. Kempt(R) /\ Under(R) = Under(O) \cup F /\ F \cap Under(O) = {}
      BY <1>1, <1>3, <1>6, <1>n, <2>1 DEF Carries
    <2>3. Z = (Under(T) \cap Under(W)) \ F /\ Y = (Under(O) \cap Under(R)) \ N
      BY <2>2, <2>r DEF Stay
    <2>4. Undisturbed(T, W, F, Z) /\ LosesOneRun(T, W)
      <3>1. /\ T = doc[m.src] /\ Sound(T, A) /\ Kempt(T) /\ StillThere(m) /\ Aimed(m, T)
            /\ S = Detached(m) /\ Parted(m, T, S, F, A)
            /\ W = Without(S, F) /\ Z = (Under(T) \cap Under(W)) \ F
        BY <1>0, <1>2, <1>n, <1>s, <2>3, <2>w
      <3>2. QED
        BY <3>1, MoveOut
    <2>5. Undisturbed(O, R, N, Y)
      <3>1. /\ O = doc[m.dst] /\ Sound(O, A) /\ Kempt(O) /\ Resolves(O, m.at)
            /\ Parted(m, T, S, F, A) /\ F \cap Under(O) = {} /\ J = With(O, S, F)
            /\ R = Attached(m, J) /\ Kempt(R) /\ N = {} /\ Y = (Under(O) \cap Under(R)) \ N
        BY <1>0, <1>2, <1>3, <1>n, <2>2, <2>3, <2>r, <2>w
      <3>2. QED
        BY <3>1, MoveIn
    <2>6. StayPut(T, W) /\ StayPut(O, R)
      <3>1. StayPut(T, W)
        BY <1>0, <1>4, <1>n, <2>1, <2>4, <2>r
      <3>2. StayPut(O, R)
        BY <1>0, <1>4, <1>n, <2>1, <2>5, <2>r
      <3>3. QED
        BY <3>1, <3>2
    <2>7. LosesOneRun(O, R)
      BY <2>2 DEF LosesOneRun, Gone
    <2>8. ASSUME NEW d \in Docs PROVE LeftAlone(doc[d], D[d])
      <3>1. CASE d = m.src
        BY <1>n, <2>1, <2>4, <2>6, <3>1 DEF LeftAlone
      <3>2. CASE d = m.dst
        BY <1>n, <2>1, <2>6, <2>7, <3>2 DEF LeftAlone
      <3>3. CASE d \notin {m.src, m.dst}
        BY <1>1, <3>3 DEF LeftAlone
      <3>4. QED
        BY <3>1, <3>2, <3>3
    <2>9. QED
      BY <2>8
  <1>7. QED
    BY <1>5, <1>6

\* The splice of a move, as a step.
LEMMA MoveSpliceLeaves ==
  ASSUME IInv, TreesKept, MoveSplice, ~strayed'
  PROVE  \A d \in Docs : LeftAlone(doc[d], doc'[d])
  <1>n. PICK m, A, D, F : /\ m = pending /\ A = 1 .. minted /\ D = MovedDocs(m)
                          /\ F = Fragment(doc[m.src], m.roots)
    OBVIOUS
  <1>1. /\ m.stage = "resolved" /\ Admitted(m) /\ doc' = D /\ strayed' = ~StillThere(m)
        /\ pending' = [m EXCEPT !.stage = "source"]
    BY <1>n DEF MoveSplice
  <1>2. StillThere(m)
    BY <1>1
  <1>3. ~strayed /\ Aimed(m, doc[m.src])
    BY <1>1, <1>n DEF TreesKept, Steady
  <1>4. m \in Moves(A) /\ A \in SUBSET Nodes /\ DOMAIN doc = Docs
    <2>1. m # NoMove
      BY <1>1 DEF NoMove
    <2>2. QED
      BY <1>n, <2>1, InvParts
  <1>5. \A d \in Docs : Sound(doc[d], A) /\ Mirrors(doc[d]) /\ Kempt(doc[d])
    <2>1. \A d \in Docs : Sound(doc[d], A) /\ Mirrors(doc[d])
      BY <1>n, InvParts
    <2>2. \A d \in Docs : Kempt(doc[d])
      BY <1>3 DEF TreesKept, Standing
    <2>3. QED
      BY <2>1, <2>2
  <1>6. InMotion = F
    <2>1. pending' # pending
      <3>1. pending'.stage = "source"
        BY <1>1, <1>4 DEF Moves
      <3>2. QED
        BY <1>1, <1>n, <3>1
    <2>2. QED
      BY <1>1, <1>n, <2>1 DEF InMotion
  <1>7. \A d \in Docs : LeftAlone(doc[d], D[d])
    BY <1>1, <1>2, <1>3, <1>4, <1>5, <1>6, <1>n, MovedLeaves
  <1>8. QED
    BY <1>1, <1>7

\* Every step that does not go astray leaves alone what it does not address.
LEMMA OthersNext ==
  ASSUME IInv, TreesKept, Published, [Next]_vars, ~strayed'
  PROVE  \A d \in Docs : doc'[d] = Loaded(d, file[d]) \/ LeftAlone(doc[d], doc'[d])
  <1>0. doc' = doc => \A d \in Docs : LeftAlone(doc[d], doc'[d])
    BY DEF LeftAlone
  <1>1. ASSUME Editing PROVE \A e \in Docs : LeftAlone(doc[e], doc'[e])
    <2>1. PICK d \in Docs :
            \/ \E at \in Places(Given), m \in 1 .. MaxFragment : Insert(d, at, m)
            \/ \E r \in Runs(d) :
                 \/ Delete(d, r)
                 \/ \E m \in 1 .. MaxFragment : Replace(d, r, m)
                 \/ \E t \in Docs, at \in Places(Given) : MoveResolve(d, r, t, at)
            \/ \E p \in Nodes, m \in 1 .. MaxFragment : SetBody(d, p, m)
      BY <1>1 DEF Editing
    <2>2. CASE \E at \in Places(Given), m \in 1 .. MaxFragment : Insert(d, at, m)
      BY <2>2, InsertLeaves
    <2>3. ASSUME NEW r \in Runs(d), Delete(d, r)
          PROVE  \A e \in Docs : LeftAlone(doc[e], doc'[e])
      BY <2>3, DeleteLeaves
    <2>4. ASSUME NEW r \in Runs(d), NEW m \in 1 .. MaxFragment, Replace(d, r, m)
          PROVE  \A e \in Docs : LeftAlone(doc[e], doc'[e])
      BY <2>4, ReplaceLeaves
    <2>5. ASSUME NEW r \in Runs(d), NEW t \in Docs, NEW at \in Places(Given),
                 MoveResolve(d, r, t, at)
          PROVE  \A e \in Docs : LeftAlone(doc[e], doc'[e])
      BY <1>0, <2>5 DEF MoveResolve
    <2>6. CASE \E p \in Nodes, m \in 1 .. MaxFragment : SetBody(d, p, m)
      BY <2>6, SetBodyLeaves
    <2>7. QED
      BY <2>1, <2>2, <2>3, <2>4, <2>5, <2>6
  <1>2. ASSUME Moving PROVE \A e \in Docs : LeftAlone(doc[e], doc'[e])
    <2>1. CASE MoveSplice
      BY <2>1, MoveSpliceLeaves
    <2>2. CASE MoveRefused
      BY <1>0, <2>2 DEF MoveRefused
    <2>3. CASE MoveCommitSource
      <3>1. ~strayed
        BY <2>3 DEF MoveCommitSource
      <3>2. QED
        BY <2>3, <3>1, MoveCommitSourceLeaves
    <2>4. CASE MoveCommitTarget
      <3>1. ~strayed
        BY <2>4 DEF MoveCommitTarget
      <3>2. QED
        BY <2>4, <3>1, MoveCommitTargetLeaves
    <2>5. QED
      BY <1>2, <2>1, <2>2, <2>3, <2>4 DEF Moving
  <1>3. ASSUME NEW d \in Docs, Write(d) PROVE \A e \in Docs : LeftAlone(doc[e], doc'[e])
    BY <1>0, <1>3 DEF Write
  <1>4. ASSUME NEW d \in Docs, Load(d), NEW e \in Docs
        PROVE  doc'[e] = Loaded(e, file[e]) \/ LeftAlone(doc[e], doc'[e])
    <2>1. doc' = [doc EXCEPT ![d] = Loaded(d, file[d])]
      BY <1>4 DEF Load
    <2>2. DOMAIN doc = Docs
      BY InvParts
    <2>3. CASE e = d
      BY <2>1, <2>2, <2>3
    <2>4. CASE e # d
      BY <2>1, <2>2, <2>4 DEF LeftAlone
    <2>5. QED
      BY <2>3, <2>4
  <1>5. CASE UNCHANGED vars
    BY <1>0, <1>5 DEF vars
  <1>6. QED
    BY <1>1, <1>2, <1>3, <1>4, <1>5 DEF Next, Storing

\* facade.insert, delete, replace, set_body and move: the nodes a command does
\* not address keep their parents, their numbers and their order, and a document
\* loses one run of siblings at most.
THEOREM OthersStayPut == Spec => OthersStay
  <1>1. ASSUME IInv, TreesKept, Published, [Next]_vars
        PROVE  [strayed' \/ \A d \in Docs :
                  \/ doc'[d] = doc[d] \/ doc'[d] = Loaded(d, file[d])
                  \/ StayPut(doc[d], doc'[d]) /\ LosesOneRun(doc[d], doc'[d])]_vars
    <2>1. CASE strayed'
      BY <2>1
    <2>2. CASE ~strayed'
      <3>1. \A d \in Docs : doc'[d] = Loaded(d, file[d]) \/ LeftAlone(doc[d], doc'[d])
        BY <1>1, <2>2, OthersNext
      <3>2. QED
        BY <3>1 DEF LeftAlone
    <2>3. QED
      BY <2>1, <2>2
  <1>2. QED
    BY <1>1, TreesCorrect, PTL DEF Spec, OthersStay
=============================================================================
