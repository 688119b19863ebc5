--------------------------- MODULE TickStoreProofs ---------------------------
(***************************************************************************)
(* Proofs about TickStore, for every epoch, every set of transactions and  *)
(* logs, every pair of storage modes, and crashes and failed writes at any *)
(* step.                                                                   *)
(***************************************************************************)
EXTENDS TickStore, FiniteSetTheorems, SequenceTheorems, WellFoundedInduction, TLAPS

------------------------------------------------------------------------------
(* Induction, and sequences that are put together piece by piece *)

\* A set of numbers that is not empty has a least member.
LEMMA Least ==
    ASSUME NEW T, T \subseteq Nat, T # {}
    PROVE  \E n \in T : \A m \in T : n <= m
<1>1. IsWellFoundedOn(OpToRel(<, Nat), Nat)
  BY NatLessThanWellFounded
<1>2. PICK n \in T : \A m \in T : ~(<<m, n>> \in OpToRel(<, Nat))
  BY <1>1, WFMin
<1>3. \A m \in T : ~(m < n)
  BY <1>2 DEF OpToRel
<1> QED
  BY <1>3

\* Induction over 0 .. n for the members of a set.
LEMMA Induct ==
    ASSUME NEW n \in Nat, NEW T, 0 \in T, \A k \in 1 .. n : k - 1 \in T => k \in T
    PROVE  \A k \in 0 .. n : k \in T
<1> DEFINE Bad == {k \in 0 .. n : k \notin T}
<1>1. SUFFICES ASSUME Bad # {} PROVE FALSE
  OBVIOUS
<1>2. PICK k \in Bad : \A m \in Bad : k <= m
  <2>1. Bad \subseteq Nat
    OBVIOUS
  <2> HIDE DEF Bad
  <2> QED
    BY <1>1, <2>1, Least
<1>3. k \in 1 .. n /\ k \notin T
  BY <1>2
<1>4. k - 1 \notin Bad
  BY <1>2, <1>3
<1> QED
  BY <1>3, <1>4

\* h[k] is what the first k of the pieces make.
Joins(h, f, n, X) ==
    /\ h \in [0 .. n -> Seq(X)]
    /\ h[0] = << >>
    /\ \A k \in 1 .. n : h[k] = h[k - 1] \o f[k]

LEMMA JoinExists ==
    ASSUME NEW X, NEW n \in Nat, NEW f \in [1 .. n -> Seq(X)]
    PROVE  \E h : Joins(h, f, n, X)
<1> DEFINE T == {m \in 0 .. n : \E h : Joins(h, f, m, X)}
<1>1. 0 \in T
  <2> DEFINE h == [k \in 0 .. 0 |-> << >>]
  <2>1. Joins(h, f, 0, X)
    BY EmptySeq DEF Joins
  <2> QED
    BY <2>1
<1>2. ASSUME NEW m \in 1 .. n, m - 1 \in T PROVE m \in T
  <2>1. PICK h : Joins(h, f, m - 1, X)
    BY <1>2
  <2> DEFINE g == [k \in 0 .. m |-> IF k = m THEN h[m - 1] \o f[m] ELSE h[k]]
  <2>2. h[m - 1] \o f[m] \in Seq(X)
    <3>1. h[m - 1] \in Seq(X) /\ f[m] \in Seq(X)
      BY <2>1 DEF Joins
    <3> QED
      BY <3>1, ConcatProperties
  <2>3. g \in [0 .. m -> Seq(X)]
    BY <2>1, <2>2 DEF Joins
  <2>4. g[0] = << >>
    BY <2>1 DEF Joins
  <2>5. ASSUME NEW k \in 1 .. m PROVE g[k] = g[k - 1] \o f[k]
    <3>1. g[k - 1] = h[k - 1] /\ g[m] = h[m - 1] \o f[m]
      OBVIOUS
    <3>2. CASE k = m
      BY <3>1, <3>2
    <3>3. CASE k # m
      <4>1. k \in 1 .. (m - 1) /\ g[k] = h[k]
        BY <3>3
      <4>2. h[k] = h[k - 1] \o f[k]
        BY <2>1, <4>1 DEF Joins
      <4> QED
        BY <3>1, <4>1, <4>2
    <3> QED
      BY <3>2, <3>3
  <2> HIDE DEF g
  <2>6. Joins(g, f, m, X)
    BY <2>3, <2>4, <2>5 DEF Joins
  <2> QED
    BY <2>6
<1>3. \A k \in 0 .. n : k \in T
  <2> HIDE DEF T
  <2> QED
    BY <1>1, <1>2, Induct
<1> QED
  BY <1>3

\* FlattenSeq joins all the pieces.
LEMMA FlattenJoins ==
    ASSUME NEW X, NEW n \in Nat, NEW f \in [1 .. n -> Seq(X)], NEW h, Joins(h, f, n, X)
    PROVE  FlattenSeq(f) = h[n]
<1>0. f \in Seq(Seq(X)) /\ Len(f) = n
  OBVIOUS
<1>1. CASE n = 0
  <2>1. f = << >>
    BY <1>0, <1>1, EmptySeq
  <2> QED
    BY <1>0, <1>1, <2>1 DEF FlattenSeq, Joins
<1>2. CASE n # 0
  <2> DEFINE Flat(g) == g = [i \in 1 .. Len(f) |-> IF i = 1 THEN f[i] ELSE g[i - 1] \o f[i]]
             g1 == [i \in 1 .. n |-> h[i]]
  <2>0. \A i \in 1 .. n : h[i] = IF i = 1 THEN f[i] ELSE h[i - 1] \o f[i]
    <3> SUFFICES ASSUME NEW i \in 1 .. n
                 PROVE  h[i] = IF i = 1 THEN f[i] ELSE h[i - 1] \o f[i]
      OBVIOUS
    <3>1. CASE i = 1
      <4>0. 1 \in 1 .. n /\ h[1 - 1] = << >>
        BY <1>2 DEF Joins
      <4>1. h[1] = << >> \o f[1]
        BY <4>0 DEF Joins
      <4>2. f[1] \in Seq(X)
        BY <1>2
      <4> QED
        BY <3>1, <4>1, <4>2, ConcatEmptySeq
    <3>2. CASE i # 1
      BY <3>2 DEF Joins
    <3> QED
      BY <3>1, <3>2
  <2>1. Flat(g1)
    BY <1>0, <2>0
  <2> DEFINE c == CHOOSE g : Flat(g)
  <2>2. Flat(c)
    <3> HIDE DEF g1
    <3> QED
      BY <2>1
  <2>3. FlattenSeq(f) = c[n]
    BY <1>0, <1>2 DEF FlattenSeq
  <2> HIDE DEF c
  <2> DEFINE T == {0} \cup {k \in 1 .. n : c[k] = h[k]}
  <2>4. ASSUME NEW k \in 1 .. n, k - 1 \in T PROVE k \in T
    <3>0. c[k] = IF k = 1 THEN f[k] ELSE c[k - 1] \o f[k]
      BY <1>0, <2>2
    <3>1. h[k] = IF k = 1 THEN f[k] ELSE h[k - 1] \o f[k]
      BY <2>0
    <3>2. CASE k = 1
      BY <3>0, <3>1, <3>2
    <3>3. CASE k # 1
      <4>1. c[k - 1] = h[k - 1]
        BY <2>4, <3>3
      <4> QED
        BY <3>0, <3>1, <3>3, <4>1
    <3> QED
      BY <3>2, <3>3
  <2>5. \A k \in 0 .. n : k \in T
    <3>1. 0 \in T
      OBVIOUS
    <3> HIDE DEF T
    <3> QED
      BY <2>4, <3>1, Induct
  <2>6. c[n] = h[n]
    BY <1>2, <2>5
  <2> QED
    BY <2>3, <2>6
<1> QED
  BY <1>1, <1>2

\* Ascending lists every member of a finite set once, smaller ones first.
LEMMA AscendingLists ==
    ASSUME NEW S, \A z \in S : z \in Int, IsFiniteSet(S)
    PROVE  /\ Cardinality(S) \in Nat
           /\ Ascending(S) \in [1 .. Cardinality(S) -> S]
           /\ \A x \in S : \E k \in 1 .. Cardinality(S) : Ascending(S)[k] = x
           /\ \A j, k \in 1 .. Cardinality(S) : j < k => Ascending(S)[j] < Ascending(S)[k]
<1> DEFINE n == Cardinality(S)
           Upto(x) == {y \in S : y <= x}
           rank == [x \in S |-> Rank(S, x)]
<1>0. n \in Nat
  BY FS_CardinalityType
<1>1. ASSUME NEW x \in S
      PROVE  IsFiniteSet(Upto(x)) /\ Rank(S, x) = Cardinality(Upto(x)) /\ Rank(S, x) \in 1 .. n
  <2>1. Upto(x) \in SUBSET S /\ x \in Upto(x)
    OBVIOUS
  <2>2. IsFiniteSet(Upto(x)) /\ Cardinality(Upto(x)) <= n
    BY <2>1, FS_Subset
  <2>3. Cardinality(Upto(x)) \in Nat /\ Cardinality(Upto(x)) # 0
    BY <2>1, <2>2, FS_CardinalityType, FS_EmptySet
  <2>4. Rank(S, x) = Cardinality(Upto(x))
    BY DEF Rank
  <2> HIDE DEF Upto
  <2> QED
    BY <1>0, <2>2, <2>3, <2>4
<1>2. ASSUME NEW x \in S, NEW y \in S, x < y PROVE Rank(S, x) < Rank(S, y)
  <2>1. Upto(x) \in SUBSET Upto(y) /\ y \in Upto(y) /\ y \notin Upto(x)
    BY <1>2
  <2>2. Cardinality(Upto(x)) <= Cardinality(Upto(y)) /\ Cardinality(Upto(x)) # Cardinality(Upto(y))
    <3> HIDE DEF Upto
    <3> QED
      BY <1>1, <2>1, FS_Subset
  <2> HIDE DEF Upto
  <2> QED
    BY <1>1, <2>2
<1>3. rank \in Injection(S, 1 .. n)
  <2>1. rank \in [S -> 1 .. n]
    BY <1>1
  <2>2. \A x, y \in S : rank[x] = rank[y] => x = y
    <3> SUFFICES ASSUME NEW x \in S, NEW y \in S, x # y PROVE rank[x] # rank[y]
      OBVIOUS
    <3>1. x < y \/ y < x
      OBVIOUS
    <3>2. rank[x] = Rank(S, x) /\ rank[y] = Rank(S, y)
      OBVIOUS
    <3>3. Rank(S, x) \in 1 .. n /\ Rank(S, y) \in 1 .. n
      BY <1>1, Zenon
    <3>4. \A i \in 1 .. n : i \in Int
      OBVIOUS
    <3> HIDE DEF rank, n
    <3>5. Rank(S, x) # Rank(S, y)
      BY <1>2, <3>1, <3>3, <3>4
    <3> QED
      BY <3>2, <3>5
  <2> HIDE DEF rank, n
  <2> QED
    BY <2>1, <2>2, Zenon DEF Injection, IsInjective
<1>4. rank \in Surjection(S, 1 .. n)
  <2>1. IsFiniteSet(1 .. n) /\ Cardinality(1 .. n) = n
    BY <1>0, FS_Interval
  <2> HIDE DEF rank
  <2> QED
    BY <1>3, <2>1, FS_Injection
<1>5. \A k \in 1 .. n : \E x \in S : Rank(S, x) = k
  BY <1>4 DEF Surjection
<1>6. \A k \in 1 .. n : Ascending(S)[k] \in S /\ Rank(S, Ascending(S)[k]) = k
  BY <1>5 DEF Ascending
<1>7. Ascending(S) \in [1 .. n -> S]
  <2>1. Ascending(S) = [k \in 1 .. n |-> Ascending(S)[k]]
    BY DEF Ascending
  <2> HIDE DEF n
  <2> QED
    BY <1>6, <2>1
<1>8. ASSUME NEW x \in S PROVE \E k \in 1 .. n : Ascending(S)[k] = x
  <2> DEFINE k == Rank(S, x)
  <2>1. k \in 1 .. n /\ Ascending(S)[k] \in S /\ Rank(S, Ascending(S)[k]) = k
    BY <1>1, <1>6
  <2>2. Ascending(S)[k] < x \/ x < Ascending(S)[k] \/ Ascending(S)[k] = x
    BY <2>1
  <2> QED
    BY <1>2, <2>1, <2>2
<1>9. ASSUME NEW j \in 1 .. n, NEW k \in 1 .. n, j < k PROVE Ascending(S)[j] < Ascending(S)[k]
  <2>1. /\ Ascending(S)[j] \in S /\ Rank(S, Ascending(S)[j]) = j
        /\ Ascending(S)[k] \in S /\ Rank(S, Ascending(S)[k]) = k
    BY <1>6
  <2>2. Ascending(S)[j] < Ascending(S)[k] \/ Ascending(S)[k] < Ascending(S)[j] \/ Ascending(S)[j] = Ascending(S)[k]
    BY <2>1
  <2> QED
    BY <1>2, <1>9, <2>1, <2>2
<1> QED
  BY <1>0, <1>7, <1>8, <1>9

\* The pieces of Concat.
Pieces(f) == [k \in 1 .. Cardinality(DOMAIN f) |-> f[Ascending(DOMAIN f)[k]]]

LEMMA ConcatJoins ==
    ASSUME NEW X, NEW D, \A z \in D : z \in Int, IsFiniteSet(D), NEW f \in [D -> Seq(X)]
    PROVE  \E h : Joins(h, Pieces(f), Cardinality(D), X) /\ Concat(f) = h[Cardinality(D)]
<1>1. DOMAIN f = D /\ Cardinality(D) \in Nat
  BY AscendingLists
<1>2. Pieces(f) \in [1 .. Cardinality(D) -> Seq(X)]
  BY <1>1, AscendingLists DEF Pieces
<1>3. Concat(f) = FlattenSeq(Pieces(f))
  BY DEF Concat, Pieces
<1>4. PICK h : Joins(h, Pieces(f), Cardinality(D), X)
  BY <1>1, <1>2, JoinExists, Zenon
<1>5. Concat(f) = h[Cardinality(D)]
  BY <1>1, <1>2, <1>3, <1>4, FlattenJoins, Zenon
<1> QED
  BY <1>4, <1>5

\* What the empty sequence has and every piece keeps, Concat has.
LEMMA ConcatIn ==
    ASSUME NEW X, NEW D, \A z \in D : z \in Int, IsFiniteSet(D), NEW f \in [D -> Seq(X)],
           NEW T, << >> \in T, \A a \in T : \A x \in D : a \o f[x] \in T
    PROVE  Concat(f) \in T
<1> DEFINE n == Cardinality(D)
<1>0. DOMAIN f = D /\ n \in Nat /\ Ascending(D) \in [1 .. n -> D]
  BY AscendingLists
<1>1. PICK h : Joins(h, Pieces(f), n, X) /\ Concat(f) = h[n]
  BY ConcatJoins
<1> HIDE DEF n
<1> DEFINE U == {k \in 0 .. n : h[k] \in T}
<1>2. 0 \in U
  BY <1>0, <1>1 DEF Joins
<1>3. ASSUME NEW k \in 1 .. n, k - 1 \in U PROVE k \in U
  <2>1. h[k] = h[k - 1] \o Pieces(f)[k]
    BY <1>1 DEF Joins
  <2>2. Pieces(f)[k] = f[Ascending(D)[k]] /\ Ascending(D)[k] \in D
    BY <1>0 DEF Pieces, n
  <2>3. h[k - 1] \in T
    BY <1>3
  <2>4. h[k] \in T
    BY <2>1, <2>2, <2>3, Zenon
  <2> QED
    BY <2>4
<1>4. \A k \in 0 .. n : k \in U
  <2> HIDE DEF U
  <2> QED
    BY <1>0, <1>2, <1>3, Induct
<1>5. h[n] \in T
  BY <1>0, <1>4
<1> QED
  BY <1>1, <1>5

LEMMA ConcatType ==
    ASSUME NEW X, NEW D, \A z \in D : z \in Int, IsFiniteSet(D), NEW f \in [D -> Seq(X)]
    PROVE  Concat(f) \in Seq(X)
<1>1. << >> \in Seq(X) /\ \A a \in Seq(X) : \A x \in D : a \o f[x] \in Seq(X)
  BY EmptySeq, ConcatProperties
<1> QED
  BY <1>1, ConcatIn

\* u is g, then y, then more.
Follows(u, g, y, X) == \E c \in Seq(X) : u = g \o (y \o c)

LEMMA FollowsMore ==
    ASSUME NEW X, NEW g \in Seq(X), NEW y \in Seq(X), NEW p \in Seq(X), NEW u, Follows(u, g, y, X)
    PROVE  Follows(u \o p, g, y, X)
<1>0. PICK b \in Seq(X) : u = g \o (y \o b)
  BY DEF Follows
<1>1. y \o b \in Seq(X) /\ b \o p \in Seq(X)
  BY ConcatProperties
<1>2. (y \o b) \o p = y \o (b \o p)
  BY ConcatAssociative
<1> DEFINE z == y \o b
<1>3. z \in Seq(X)
  BY <1>1
<1> HIDE DEF z
<1>4. (g \o z) \o p = g \o (z \o p)
  BY <1>3, ConcatAssociative
<1>5. u \o p = g \o (y \o (b \o p))
  BY <1>0, <1>2, <1>4, Zenon DEF z
<1> QED
  BY <1>1, <1>5, Zenon DEF Follows

Within(s, y, X) == \E a, b \in Seq(X) : s = a \o (y \o b)

\* Each piece is there as a whole.
LEMMA ConcatHas ==
    ASSUME NEW X, NEW D, \A z \in D : z \in Int, IsFiniteSet(D), NEW f \in [D -> Seq(X)], NEW x \in D
    PROVE  Within(Concat(f), f[x], X)
<1> DEFINE n == Cardinality(D)
<1>0. DOMAIN f = D /\ n \in Nat /\ Ascending(D) \in [1 .. n -> D]
  BY AscendingLists
<1>1. PICK h : Joins(h, Pieces(f), n, X) /\ Concat(f) = h[n]
  BY ConcatJoins
<1>2. PICK m \in 1 .. n : Ascending(D)[m] = x
  BY AscendingLists
<1> HIDE DEF n
<1>p. Pieces(f) \in [1 .. n -> Seq(X)] /\ Pieces(f)[m] = f[x]
  BY <1>0, <1>2 DEF Pieces, n
<1>h. h \in [0 .. n -> Seq(X)] /\ \A k \in 1 .. n : h[k] = h[k - 1] \o Pieces(f)[k]
  BY <1>1 DEF Joins
<1> DEFINE Has(k) == Follows(h[k], h[m - 1], f[x], X)
           U == {k \in 0 .. n : k >= m => Has(k)}
<1>3. Has(m)
  <2>1. h[m] = h[m - 1] \o f[x]
    BY <1>h, <1>p
  <2>2. f[x] \o << >> = f[x] /\ << >> \in Seq(X)
    BY ConcatEmptySeq, EmptySeq
  <2> QED
    BY <2>1, <2>2 DEF Follows
<1>4. ASSUME NEW k \in 1 .. n, k > m, Has(k - 1) PROVE Has(k)
  <2>1. Pieces(f)[k] \in Seq(X)
    BY <1>p
  <2>2. h[m - 1] \in Seq(X)
    BY <1>h, <1>0
  <2>3. Follows(h[k - 1] \o Pieces(f)[k], h[m - 1], f[x], X)
    BY <1>4, <2>1, <2>2, FollowsMore
  <2>4. h[k] = h[k - 1] \o Pieces(f)[k]
    BY <1>h
  <2> QED
    BY <2>3, <2>4, Zenon
<1> HIDE DEF Has
<1>5. 0 \in U /\ \A k \in 1 .. n : k - 1 \in U => k \in U
  BY <1>0, <1>3, <1>4
<1>6. \A k \in 0 .. n : k \in U
  <2> HIDE DEF U
  <2> QED
    BY <1>0, <1>5, Induct
<1>7. Has(n) /\ h[m - 1] \in Seq(X)
  BY <1>0, <1>h, <1>6
<1> QED
  BY <1>1, <1>7, Zenon DEF Has, Follows, Within

------------------------------------------------------------------------------
(* What the agenda of the cleaner needs and gives *)

vtick(t) == <<"vtick", t, 0>>
tickData(t) == <<"tick_data", t, 0>>
KeyKinds == {"tick_data", "tick_vote", "transaction", "log", "log_ranges", "tick_log_range", "vtick"}
Keys == KeyKinds \X Int \X Int

\* What compressTickAndMoveToKVRocks stores.
Whole(t) == {vtick(t)} \cup Raw[t] \cup LogRangeKeys[t]

Ops == {"compressTickAndMoveToKVRocks", "cleanTransactionLogs", "vtick", "set", "unlink",
        "saveTick", "saveTx"}
Cmds ==
    {c \in [op : Ops, t : Int, keys : SUBSET Keys] :
        /\ c.op \in {"compressTickAndMoveToKVRocks", "cleanTransactionLogs", "vtick"} => c.t \in Ticks
        /\ c.op = "vtick" => c.keys = {vtick(c.t)} \cup Raw[c.t]
        /\ c.op \in {"saveTick", "saveTx"} => c.t >= 1}

\* Facts about a key k of tick t, which stay true: the tick is indexed; KeyDB may lose
\* the key, or the tick is overtaken too; KeyDB has lost it; KeyDB has lost it or need not.
Kinds == {"old", "safe", "found", "raw", "gone"}

LastNMode(m) == m.tick = "LastNTick" /\ m.tx = "LastNTick"
KvrocksMode(m) == m.tick = "Kvrocks" /\ m.tx = "Kvrocks"

Safe(t, k) ==
    /\ k \in Kept(t) => k \in kvrocks \/ k \in Excused(t)
    /\ k = vtick(t) => k \in kvrocks \/ k \in unsaved

Exempt(t) ==
    /\ LastNMode(mode) => crashed \/ t \in Empty
    /\ ~LastNMode(mode) => \/ unsaved \cap (TickKeys[t] \cup {vtick(t)}) # {}
                           \/ t \in overtaken /\ (crashed \/ t \in Empty)

Fact(kind, t, k) ==
    /\ kind = "old" => t <= saved.indexed
    /\ kind = "safe" => Safe(t, k)
    /\ kind = "found" => Safe(t, k) \/ t \in overtaken
    /\ kind = "raw" => k \notin keydb
    /\ kind = "gone" => k \notin keydb \/ Exempt(t)
Facts == [kind \in Kinds |-> [t \in Ticks |-> {k \in Keys : Fact(kind, t, k)}]]

\* What must be true when the command c is executed.
Requires(m, c, kind, t, k) ==
    \/ c.op = "unlink" /\ kind \in {"old", "safe"} /\ k \in c.keys /\ k \in TickKeys[t]
    \/ c.op = "unlink" /\ kind = "safe" /\ m.tick = "Kvrocks" /\ c.keys \cap Raw[t] # {} /\ k \in Whole(t)
    \/ c.op = "unlink" /\ kind = "raw" /\ k = tickData(t) /\ c.keys \cap db_insert_tick_vote(t) # {}
    \/ c.op = "cleanTransactionLogs" /\ kind = "old" /\ c.t = t
    \/ c.op = "cleanTransactionLogs" /\ kind = "safe" /\ c.t = t /\ k \in LogRangeKeys[t]
    \/ c.op = "cleanTransactionLogs" /\ kind = "found" /\ c.t = t /\ m.tick = "Kvrocks" /\ k \in Whole(t)
    \/ c.op = "cleanTransactionLogs" /\ kind = "safe" /\ c.t = t /\ ~KvrocksMode(m) /\ k \in Executed[t]
    \/ c.op = "saveTick" /\ kind = "raw" /\ 2 <= t /\ t <= c.t /\ k \in Raw[t]
    \/ c.op = "saveTick" /\ kind = "gone" /\ 2 <= t /\ t <= c.t /\ LastNMode(m) /\ k \in TxKeys(t)
    \/ c.op = "saveTx" /\ kind = "gone" /\ 2 <= t /\ t <= c.t /\ m.tick = "Kvrocks" /\ k \in TxKeys(t)

\* What is true once it is executed, and what it calls too.
Ensures(m, c, kind, t, k) ==
    \/ c.op \in {"compressTickAndMoveToKVRocks", "vtick"} /\ kind \in {"safe", "found"} /\ m.tick = "Kvrocks"
       /\ c.t = t /\ k \in Whole(t)
    \/ c.op = "set" /\ kind \in {"safe", "found"} /\ k \in c.keys
    \/ c.op = "unlink" /\ kind \in {"raw", "gone"} /\ k \in c.keys
    \/ c.op = "cleanTransactionLogs" /\ kind = "gone" /\ c.t = t
       /\ (LastNMode(m) \/ KvrocksMode(m)) /\ k \in TxKeys(t)

\* Every command of the agenda finds what it needs: it is true now, or given before.
Sound(m, a, F) ==
    \A p \in 1 .. Len(a) : \A kind \in Kinds : \A t \in Ticks : \A k \in Keys :
        Requires(m, a[p], kind, t, k) =>
            k \in F[kind][t] \/ \E q \in 1 .. p - 1 : Ensures(m, a[q], kind, t, k)

------------------------------------------------------------------------------
(* The invariant *)

StoreTypes ==
    /\ mode \in ValidModes
    /\ keydb \in SUBSET UNION {TickKeys[t] : t \in Ticks}
    /\ saved \in [indexed : 0 .. LastTick, tick : Int, tx : Int]
    /\ gCurrentIndexingTick \in 0 .. LastTick /\ filed \in BOOLEAN /\ gIsEndEpoch \in BOOLEAN
    /\ running \in BOOLEAN /\ kvOn \in BOOLEAN /\ stopFlag \in BOOLEAN /\ crashed \in BOOLEAN
    /\ gc \in [pc : {"off", "tick", "tx", "end", "exited"}, tick : Int, tx : Int, agenda : Seq(Cmds)]

\* The process: its copies of the cursors are those in KeyDB.
Cursors ==
    /\ running => /\ gCurrentIndexingTick = saved.indexed
                  /\ kvOn = (mode.tick = "Kvrocks")
                  /\ gc.tick = Max({saved.tick, gInitialTick})
                  /\ gc.tx = Max({saved.tx, gInitialTick})
    /\ ~running => gc = CleanerOff /\ ~stopFlag /\ ~filed
    /\ filed => gCurrentIndexingTick < LastTick
    /\ gc.pc \in {"off", "exited"} => gc.agenda = << >>

\* Ticks that are not indexed are in KeyDB.
Untouched == \A t \in Ticks : t > saved.indexed => TickKeys[t] \subseteq keydb

\* The tick data goes before the votes.
VotesStay == \A t \in Ticks : tickData(t) \in keydb => db_insert_tick_vote(t) \subseteq keydb

\* A raw tick is deleted once KVRocks has the whole tick.
WholeIsSafe ==
    mode.tick = "Kvrocks" =>
        \A t \in Ticks : ~(Raw[t] \subseteq keydb) => \A k \in Whole(t) : Safe(t, k)

AgendaIsSound == Sound(mode, gc.agenda, Facts)

\* The command deletes no key of the tick.
Avoids(c, t) ==
    /\ c.op = "unlink" => \A k \in c.keys : k \notin TickKeys[t]
    /\ ~(c.op = "cleanTransactionLogs" /\ c.t = t)

\* A pass over the ticks, or one over the transactions, has reached the tick.
Reached(t) ==
    \/ t <= saved.tick
    \/ \E p \in 1 .. Len(gc.agenda) : gc.agenda[p].op = "saveTick" /\ t <= gc.agenda[p].t
TxReached(t) ==
    \/ t <= saved.tx
    \/ \E p \in 1 .. Len(gc.agenda) : gc.agenda[p].op = "saveTx" /\ t <= gc.agenda[p].t
Claimed(t) == t <= 1 \/ Reached(t) \/ (KvrocksMode(mode) /\ TxReached(t))

\* The cursor of a pass is saved last.
SaveIsLast ==
    \A p \in 1 .. Len(gc.agenda) :
        /\ gc.agenda[p].op = "saveTick" => p = Len(gc.agenda) /\ saved.tick <= gc.agenda[p].t
        /\ gc.agenda[p].op = "saveTx" => p = Len(gc.agenda) /\ saved.tx <= gc.agenda[p].t

\* Without a crash the transactions of a tick are cleaned once, and while all of it
\* is there.  An overtaken tick may be cleaned again at the end of the epoch.
CleanedOnce(a) ==
    \A p \in 1 .. Len(a) : a[p].op = "cleanTransactionLogs" =>
        \A q \in 1 .. p - 1 : Avoids(a[q], a[p].t)
Gone(t) == \A k \in TxKeys(t) : k \notin keydb \/ Exempt(t)
Cleans(t) == LastNMode(mode) \/ (KvrocksMode(mode) /\ t \in overtaken)
Intact ==
    (LastNMode(mode) \/ KvrocksMode(mode)) /\ ~crashed =>
        /\ CleanedOnce(gc.agenda)
        /\ \A t \in Ticks : \A p \in 1 .. Len(gc.agenda) :
               gc.agenda[p].op = "cleanTransactionLogs" /\ gc.agenda[p].t = t /\ Cleans(t) =>
                   TickKeys[t] \subseteq keydb \/ (KvrocksMode(mode) /\ Gone(t))
        /\ \A t \in Ticks : ~Claimed(t) =>
               /\ TickKeys[t] \subseteq keydb
               /\ \A p \in 1 .. Len(gc.agenda) : Avoids(gc.agenda[p], t)
        /\ \A t \in Ticks : t \in overtaken => KvrocksMode(mode) /\ TxReached(t)

StoreInv ==
    /\ StoreTypes /\ Cursors /\ Untouched /\ VotesStay /\ WholeIsSafe
    /\ RetainedDataIsStored /\ CleanedTicksAreGone
    /\ AgendaIsSound /\ SaveIsLast /\ Intact

------------------------------------------------------------------------------
(* Sound agendas *)

\* The facts there are once the commands of a are executed.
After(m, a, F) ==
    [kind \in Kinds |-> [t \in Ticks |->
        F[kind][t] \cup {k \in Keys : \E q \in 1 .. Len(a) : Ensures(m, a[q], kind, t, k)}]]

\* There are at least as many facts in G as in F.
More(F, G) == \A kind \in Kinds : \A t \in Ticks : \A k \in Keys : k \in F[kind][t] => k \in G[kind][t]

LEMMA SoundEmpty ==
    ASSUME NEW m, NEW F
    PROVE  Sound(m, << >>, F)
BY DEF Sound

LEMMA SoundMore ==
    ASSUME NEW m, NEW a, NEW F, NEW G, Sound(m, a, F), More(F, G)
    PROVE  Sound(m, a, G)
BY Zenon DEF Sound, More

LEMMA AfterHas ==
    ASSUME NEW m, NEW a, NEW F, NEW kind \in Kinds, NEW t \in Ticks, NEW k \in Keys
    PROVE  k \in After(m, a, F)[kind][t] <=>
               k \in F[kind][t] \/ \E q \in 1 .. Len(a) : Ensures(m, a[q], kind, t, k)
<1> DEFINE E == {x \in Keys : \E q \in 1 .. Len(a) : Ensures(m, a[q], kind, t, x)}
<1>1. After(m, a, F)[kind][t] = F[kind][t] \cup E
  BY DEF After
<1>2. k \in E <=> \E q \in 1 .. Len(a) : Ensures(m, a[q], kind, t, k)
  OBVIOUS
<1> QED
  BY <1>1, <1>2, Zenon

LEMMA SoundJoin ==
    ASSUME NEW X, NEW m, NEW a \in Seq(X), NEW b \in Seq(X), NEW F,
           Sound(m, a, F), Sound(m, b, After(m, a, F))
    PROVE  Sound(m, a \o b, F)
<1> DEFINE c == a \o b
<1>0. /\ Len(a) \in Nat /\ Len(b) \in Nat /\ Len(c) = Len(a) + Len(b)
      /\ \A i \in 1 .. Len(a) : c[i] = a[i]
      /\ \A i \in 1 .. Len(b) : c[Len(a) + i] = b[i]
  BY ConcatProperties
<1> HIDE DEF c
<1> SUFFICES ASSUME NEW p \in 1 .. Len(c), NEW kind \in Kinds, NEW t \in Ticks, NEW k \in Keys,
                    Requires(m, c[p], kind, t, k)
             PROVE  k \in F[kind][t] \/ \E q \in 1 .. p - 1 : Ensures(m, c[q], kind, t, k)
  BY DEF Sound, c
<1>1. CASE p \in 1 .. Len(a)
  <2>1. Requires(m, a[p], kind, t, k)
    BY <1>0, <1>1
  <2>2. k \in F[kind][t] \/ \E q \in 1 .. p - 1 : Ensures(m, a[q], kind, t, k)
    BY <1>1, <2>1 DEF Sound
  <2>3. \A q \in 1 .. p - 1 : c[q] = a[q]
    BY <1>0, <1>1
  <2> QED
    BY <2>2, <2>3
<1>2. CASE p \notin 1 .. Len(a)
  <2> DEFINE r == p - Len(a)
  <2>1. r \in 1 .. Len(b) /\ c[p] = b[r]
    BY <1>0, <1>2
  <2>2. k \in After(m, a, F)[kind][t] \/ \E q \in 1 .. r - 1 : Ensures(m, b[q], kind, t, k)
    BY <2>1, Zenon DEF Sound
  <2>3. CASE k \in After(m, a, F)[kind][t]
    <3>1. k \in F[kind][t] \/ \E q \in 1 .. Len(a) : Ensures(m, a[q], kind, t, k)
      BY <2>3, AfterHas
    <3>2. \A q \in 1 .. Len(a) : q \in 1 .. p - 1 /\ c[q] = a[q]
      BY <1>0, <1>2
    <3> QED
      BY <3>1, <3>2, Zenon
  <2>4. CASE \E q \in 1 .. r - 1 : Ensures(m, b[q], kind, t, k)
    <3>1. PICK q \in 1 .. r - 1 : Ensures(m, b[q], kind, t, k)
      BY <2>4
    <3>2. Len(a) + q \in 1 .. p - 1 /\ c[Len(a) + q] = b[q]
      BY <1>0, <2>1
    <3> QED
      BY <3>1, <3>2, Zenon
  <2> QED
    BY <2>2, <2>3, <2>4
<1> QED
  BY <1>1, <1>2

\* What a sequence ensures, a longer one does.
LEMMA AfterJoin ==
    ASSUME NEW X, NEW m, NEW a \in Seq(X), NEW b \in Seq(X), NEW F
    PROVE  /\ More(F, After(m, a, F))
           /\ More(After(m, a, F), After(m, a \o b, F))
           /\ More(After(m, b, F), After(m, a \o b, F))
<1> DEFINE c == a \o b
<1>0. /\ Len(a) \in Nat /\ Len(b) \in Nat /\ Len(c) = Len(a) + Len(b)
      /\ \A i \in 1 .. Len(a) : c[i] = a[i]
      /\ \A i \in 1 .. Len(b) : c[Len(a) + i] = b[i]
  BY ConcatProperties
<1> HIDE DEF c
<1>1. More(F, After(m, a, F))
  BY AfterHas, Zenon DEF More
<1>2. More(After(m, a, F), After(m, c, F))
  <2> SUFFICES ASSUME NEW kind \in Kinds, NEW t \in Ticks, NEW k \in Keys, k \in After(m, a, F)[kind][t]
               PROVE  k \in After(m, c, F)[kind][t]
    BY DEF More
  <2>1. k \in F[kind][t] \/ \E q \in 1 .. Len(a) : Ensures(m, a[q], kind, t, k)
    BY AfterHas
  <2>2. \A q \in 1 .. Len(a) : q \in 1 .. Len(c) /\ c[q] = a[q]
    BY <1>0
  <2>3. k \in F[kind][t] \/ \E q \in 1 .. Len(c) : Ensures(m, c[q], kind, t, k)
    BY <2>1, <2>2, Zenon
  <2> QED
    BY <2>3, AfterHas
<1>3. More(After(m, b, F), After(m, c, F))
  <2> SUFFICES ASSUME NEW kind \in Kinds, NEW t \in Ticks, NEW k \in Keys, k \in After(m, b, F)[kind][t]
               PROVE  k \in After(m, c, F)[kind][t]
    BY DEF More
  <2>1. k \in F[kind][t] \/ \E q \in 1 .. Len(b) : Ensures(m, b[q], kind, t, k)
    BY AfterHas
  <2>2. \A q \in 1 .. Len(b) : Len(a) + q \in 1 .. Len(c) /\ c[Len(a) + q] = b[q]
    BY <1>0
  <2>3. k \in F[kind][t] \/ \E q \in 1 .. Len(c) : Ensures(m, c[q], kind, t, k)
    BY <2>1, <2>2, Zenon
  <2> QED
    BY <2>3, AfterHas
<1> QED
  BY <1>1, <1>2, <1>3 DEF c

\* A command is executed, or replaced by what it does.
LEMMA SoundStep ==
    ASSUME NEW X, NEW m, NEW a \in Seq(X), a # << >>, NEW todo \in Seq(X), NEW F, NEW G,
           Sound(m, a, F), Sound(m, todo, G), More(F, G),
           \A kind \in Kinds : \A t \in Ticks : \A k \in Keys :
               Ensures(m, Head(a), kind, t, k) => k \in After(m, todo, G)[kind][t]
    PROVE  Sound(m, todo \o Tail(a), G)
<1> DEFINE b == Tail(a)
<1>0. /\ Len(a) \in Nat /\ Len(a) >= 1 /\ b \in Seq(X) /\ Len(b) = Len(a) - 1 /\ Head(a) = a[1]
      /\ \A i \in 1 .. Len(b) : b[i] = a[i + 1]
  BY EmptySeq, HeadTailProperties
<1> HIDE DEF b
<1> DEFINE H == After(m, todo, G)
<1>h. More(G, H)
  BY AfterJoin
<1> HIDE DEF H
<1>1. Sound(m, b, H)
  <2> SUFFICES ASSUME NEW p \in 1 .. Len(b), NEW kind \in Kinds, NEW t \in Ticks, NEW k \in Keys,
                      Requires(m, b[p], kind, t, k)
               PROVE  k \in H[kind][t] \/ \E q \in 1 .. p - 1 : Ensures(m, b[q], kind, t, k)
    BY DEF Sound
  <2>1. p + 1 \in 1 .. Len(a) /\ b[p] = a[p + 1]
    BY <1>0
  <2>2. k \in F[kind][t] \/ \E q \in 1 .. (p + 1) - 1 : Ensures(m, a[q], kind, t, k)
    BY <2>1, Zenon DEF Sound
  <2>3. CASE k \in F[kind][t]
    BY <1>h, <2>3, Zenon DEF More
  <2>4. CASE \E q \in 1 .. (p + 1) - 1 : Ensures(m, a[q], kind, t, k)
    <3>1. PICK q \in 1 .. (p + 1) - 1 : Ensures(m, a[q], kind, t, k)
      BY <2>4
    <3>2. CASE q = 1
      BY <1>0, <3>1, <3>2, Zenon DEF H
    <3>3. CASE q # 1
      <4>1. q - 1 \in 1 .. p - 1 /\ b[q - 1] = a[q]
        BY <1>0, <3>3
      <4> QED
        BY <3>1, <4>1, Zenon
    <3> QED
      BY <3>2, <3>3
  <2> QED
    BY <2>2, <2>3, <2>4
<1>2. Sound(m, todo \o b, G)
  BY <1>0, <1>1, SoundJoin, Zenon DEF H
<1> QED
  BY <1>2 DEF b

LEMMA SoundConcat ==
    ASSUME NEW X, NEW D, \A z \in D : z \in Int, IsFiniteSet(D), NEW f \in [D -> Seq(X)], NEW m, NEW F,
           \A x \in D : Sound(m, f[x], F)
    PROVE  Sound(m, Concat(f), F)
<1> DEFINE T == {a \in Seq(X) : Sound(m, a, F)}
<1>1. << >> \in T
  BY SoundEmpty, EmptySeq
<1>2. ASSUME NEW a \in T, NEW x \in D PROVE a \o f[x] \in T
  <2>0. a \in Seq(X) /\ f[x] \in Seq(X) /\ Sound(m, a, F)
    OBVIOUS
  <2> HIDE DEF T
  <2>1. a \o f[x] \in Seq(X)
    BY <2>0, ConcatProperties
  <2>2. More(F, After(m, a, F))
    BY <2>0, AfterJoin
  <2>3. Sound(m, f[x], After(m, a, F))
    BY <2>2, SoundMore, Zenon
  <2>4. Sound(m, a \o f[x], F)
    BY <2>0, <2>3, SoundJoin, Zenon
  <2> QED
    BY <2>1, <2>4 DEF T
<1>3. Concat(f) \in T
  <2> HIDE DEF T
  <2> QED
    BY <1>1, <1>2, ConcatIn
<1> QED
  BY <1>3

\* What a piece ensures, the whole does.
LEMMA AfterConcat ==
    ASSUME NEW X, NEW D, \A z \in D : z \in Int, IsFiniteSet(D), NEW f \in [D -> Seq(X)], NEW m, NEW F,
           NEW x \in D
    PROVE  More(After(m, f[x], F), After(m, Concat(f), F))
<1>0. Within(Concat(f), f[x], X)
  BY ConcatHas
<1>1. PICK a, b \in Seq(X) : Concat(f) = a \o (f[x] \o b)
  BY <1>0, Zenon DEF Within
<1> DEFINE c == f[x] \o b
<1>2. f[x] \in Seq(X) /\ c \in Seq(X)
  BY ConcatProperties
<1>3. More(After(m, f[x], F), After(m, c, F))
  BY <1>2, AfterJoin
<1>4. More(After(m, c, F), After(m, a \o c, F))
  <2> HIDE DEF c
  <2> QED
    BY <1>2, AfterJoin
<1>5. Concat(f) = a \o c
  BY <1>1
<1> HIDE DEF c
<1> QED
  BY <1>3, <1>4, <1>5 DEF More

\* Concat of an interval, tick by tick.
LEMMA ConcatUpto ==
    ASSUME NEW X, NEW i \in Int, NEW j \in Int, i <= j, NEW f \in [i .. j -> Seq(X)],
           NEW T, << >> \in T[i - 1], \A t \in i .. j : \A a \in T[t - 1] : a \o f[t] \in T[t]
    PROVE  Concat(f) \in T[j]
<1> DEFINE D == i .. j
           n == Cardinality(D)
<1>0. /\ \A z \in D : z \in Int
      /\ IsFiniteSet(D) /\ n = j - i + 1 /\ n \in Nat
  <2>1. IsFiniteSet(D) /\ n = IF i > j THEN 0 ELSE j - i + 1
    BY FS_Interval
  <2>2. \A z \in D : z \in Int
    OBVIOUS
  <2> HIDE DEF D, n
  <2> QED
    BY <2>1, <2>2
<1>d. DOMAIN f = D /\ f \in [D -> Seq(X)]
  OBVIOUS
<1>a. Ascending(D) \in [1 .. n -> D]
  <2> HIDE DEF D
  <2> QED
    BY <1>0, AscendingLists
<1>b. \A k \in 1 .. n : Ascending(D)[k] = i + k - 1
  <2> SUFFICES ASSUME NEW k \in 1 .. n PROVE Ascending(D)[k] = i + k - 1
    OBVIOUS
  <2>1. \A x \in D : Rank(D, x) = x - i + 1
    <3> SUFFICES ASSUME NEW x \in D PROVE Rank(D, x) = x - i + 1
      OBVIOUS
    <3>1. {y \in D : y <= x} = i .. x
      OBVIOUS
    <3>2. Cardinality(i .. x) = x - i + 1
      BY FS_Interval
    <3> QED
      BY <3>1, <3>2 DEF Rank
  <2>2. i + k - 1 \in D /\ Rank(D, i + k - 1) = k
    BY <1>0, <2>1
  <2>3. Ascending(D)[k] = CHOOSE x \in D : Rank(D, x) = k
    BY DEF Ascending
  <2>4. Ascending(D)[k] \in D /\ Rank(D, Ascending(D)[k]) = k
    <3> HIDE DEF D, n
    <3> QED
      BY <2>2, <2>3
  <2> QED
    <3> DEFINE x == Ascending(D)[k]
    <3>1. x \in Int /\ Rank(D, x) = x - i + 1 /\ Rank(D, x) = k
      BY <1>0, <2>1, <2>4, Zenon
    <3> HIDE DEF x
    <3>2. x = i + k - 1
      BY <3>1
    <3> QED
      BY <3>2 DEF x
<1>1. PICK h : Joins(h, Pieces(f), n, X) /\ Concat(f) = h[n]
  <2> HIDE DEF D
  <2> QED
    BY <1>0, <1>d, ConcatJoins, Zenon DEF n
<1> DEFINE U == {k \in 0 .. n : h[k] \in T[i + k - 1]}
<1>2. 0 \in U
  <2>1. h[0] = << >>
    BY <1>1 DEF Joins
  <2>2. i + 0 - 1 = i - 1
    OBVIOUS
  <2> QED
    BY <1>0, <2>1, <2>2
<1>3. ASSUME NEW k \in 1 .. n, k - 1 \in U PROVE k \in U
  <2>1. h[k] = h[k - 1] \o Pieces(f)[k]
    BY <1>1 DEF Joins
  <2> DEFINE t == i + k - 1
  <2>2. Pieces(f)[k] = f[t] /\ t \in D
    BY <1>0, <1>d, <1>a, <1>b DEF Pieces
  <2>3. h[k - 1] \in T[t - 1]
    <3>1. i + (k - 1) - 1 = t - 1
      OBVIOUS
    <3> QED
      BY <1>3, <3>1
  <2>4. h[k] \in T[t]
    <3> HIDE DEF t
    <3> QED
      BY <2>1, <2>2, <2>3, Zenon
  <2> QED
    BY <2>4
<1>4. \A k \in 0 .. n : k \in U
  <2> HIDE DEF U, n
  <2> QED
    BY <1>0, <1>2, <1>3, Induct
<1>5. h[n] \in T[i + n - 1] /\ i + n - 1 = j
  <2>1. n \in U
    <3>1. n \in 0 .. n
      <4> HIDE DEF n
      <4> QED
        BY <1>0
    <3> QED
      BY <1>4, <3>1, Zenon
  <2>2. h[n] \in T[i + n - 1]
    BY <2>1
  <2>3. i + n - 1 = j
    <3> HIDE DEF n
    <3> QED
      BY <1>0
  <2> QED
    BY <2>2, <2>3
<1> QED
  BY <1>1, <1>5

------------------------------------------------------------------------------
(* Keys and commands *)

LEMMA TicksAre ==
    /\ Ticks = 1 .. LastTick /\ LastTick \in Nat
    /\ \A t \in Ticks : t \in Int
BY StoreAssumption DEF Ticks, gInitialTick

LEMMA RawHas ==
    ASSUME NEW t \in Ticks, NEW k
    PROVE  k \in Raw[t] <=> \/ k = tickData(t) /\ t \notin Empty
                            \/ \E b \in Batches : k = <<"tick_vote", t, b>>
<1>1. Raw[t] = db_insert_tick_data(t) \cup db_insert_tick_vote(t)
  BY DEF Raw
<1> QED
  BY <1>1 DEF db_insert_tick_data, db_insert_tick_vote, tickData

LEMMA ExecutedHas ==
    ASSUME NEW t \in Ticks, NEW k
    PROVE  k \in Executed[t] <=> \/ \E i \in TickTxs[t] : k = <<"transaction", t, i>>
                                 \/ \E l \in LogIds : LogAt[l].tick = t /\ k = <<"log", l, 0>>
<1>1. Executed[t] = db_insert_transaction(t) \cup db_insert_log(t)
  BY DEF Executed
<1> QED
  BY <1>1 DEF db_insert_transaction, db_insert_log

LEMMA RangesHas ==
    ASSUME NEW t \in Ticks, NEW k
    PROVE  k \in LogRangeKeys[t] <=> k = <<"log_ranges", t, 0>> \/ k = <<"tick_log_range", t, 0>>
BY DEF LogRangeKeys, db_insert_log_range

LEMMA TickKeysHas ==
    ASSUME NEW t \in Ticks, NEW k
    PROVE  k \in TickKeys[t] <=> k \in Raw[t] \/ k \in Executed[t] \/ k \in LogRangeKeys[t]
<1>1. TickKeys[t] = Raw[t] \cup Executed[t] \cup LogRangeKeys[t]
  BY DEF TickKeys
<1> QED
  BY <1>1

LEMMA WholeHas ==
    ASSUME NEW t \in Ticks, NEW k
    PROVE  k \in Whole(t) <=> k = vtick(t) \/ k \in Raw[t] \/ k \in LogRangeKeys[t]
BY DEF Whole

LEMMA TxIndex ==
    ASSUME NEW t \in Ticks, NEW i \in TickTxs[t]
    PROVE  /\ i \in LogIndices /\ i \in Int
           /\ \A id \in Ids(t, i) : id \in Int /\ id \in LogIds /\ LogAt[id].tick = t
           /\ from(t, i) \in Int /\ length(t, i) \in Int
<1>1. i \in TxIndices
  BY StoreAssumption
<1>2. i \in LogIndices /\ i \in Int
  BY <1>1, StoreAssumption DEF TxIndices, LogIndices, SC_END_EPOCH_TX
<1>3. from(t, i) \in Int /\ length(t, i) \in Int
  BY <1>2, LogAssumption DEF from, length
<1>4. \A id \in Ids(t, i) : id \in LogIds /\ LogAt[id].tick = t
  BY <1>2, LogAssumption, Zenon
<1>5. \A id \in Ids(t, i) : id \in Int
  BY <1>4, LogAssumption
<1> QED
  BY <1>2, <1>3, <1>4, <1>5

LEMMA TxKeysHas ==
    ASSUME NEW t \in Ticks, NEW k
    PROVE  k \in TxKeys(t) <=>
               \/ k \in LogRangeKeys[t]
               \/ \E i \in TickTxs[t] : k = <<"transaction", t, i>>
               \/ \E i \in TickTxs[t] : from(t, i) # 0 /\ \E id \in Ids(t, i) : k = <<"log", id, 0>>
<1>1. LogRangeKeys[t] = db_insert_log_range(t)
  BY DEF LogRangeKeys
<1>2. k \in TxLogs(t) <=> \E i \in TickTxs[t] : from(t, i) # 0 /\ \E id \in Ids(t, i) : k = <<"log", id, 0>>
  BY Zenon DEF TxLogs
<1>3. k \in db_insert_transaction(t) <=> \E i \in TickTxs[t] : k = <<"transaction", t, i>>
  BY DEF db_insert_transaction
<1> QED
  BY <1>1, <1>2, <1>3, Zenon DEF TxKeys

LEMMA TxKeysIn ==
    ASSUME NEW t \in Ticks
    PROVE  \A k \in TxKeys(t) : k \in TickKeys[t] /\ k \notin Raw[t]
<1> SUFFICES ASSUME NEW k \in TxKeys(t) PROVE k \in TickKeys[t] /\ k \notin Raw[t]
  OBVIOUS
<1>1. CASE k \in LogRangeKeys[t]
  BY <1>1, RangesHas, RawHas, TickKeysHas DEF tickData
<1>2. CASE \E i \in TickTxs[t] : k = <<"transaction", t, i>>
  BY <1>2, ExecutedHas, RawHas, TickKeysHas DEF tickData
<1>3. CASE \E i \in TickTxs[t] : from(t, i) # 0 /\ \E id \in Ids(t, i) : k = <<"log", id, 0>>
  <2>1. PICK i \in TickTxs[t] : \E id \in Ids(t, i) : k = <<"log", id, 0>>
    BY <1>3
  <2>2. PICK id \in Ids(t, i) : k = <<"log", id, 0>>
    BY <2>1
  <2>3. id \in LogIds /\ LogAt[id].tick = t
    BY TxIndex
  <2> QED
    BY <2>2, <2>3, ExecutedHas, RawHas, TickKeysHas DEF tickData
<1> QED
  BY <1>1, <1>2, <1>3, TxKeysHas

LEMMA KeysType ==
    ASSUME NEW t \in Ticks
    PROVE  /\ \A k \in TickKeys[t] : k \in Keys
           /\ vtick(t) \in Keys /\ tickData(t) \in Keys
           /\ \A k \in Whole(t) : k \in Keys
<1>0. t \in Int
  BY TicksAre
<1>1. ASSUME NEW k \in Raw[t] PROVE k \in Keys
  BY <1>0, <1>1, RawHas, LogAssumption DEF Keys, KeyKinds, tickData
<1>2. ASSUME NEW k \in Executed[t] PROVE k \in Keys
  BY <1>0, <1>2, ExecutedHas, TxIndex, LogAssumption DEF Keys, KeyKinds
<1>3. ASSUME NEW k \in LogRangeKeys[t] PROVE k \in Keys
  BY <1>0, <1>3, RangesHas DEF Keys, KeyKinds
<1>4. vtick(t) \in Keys /\ tickData(t) \in Keys
  BY <1>0 DEF Keys, KeyKinds, tickData, vtick
<1> QED
  BY <1>1, <1>2, <1>3, <1>4, TickKeysHas, WholeHas, Zenon

\* A key belongs to one tick.
LEMMA TicksAreDisjoint ==
    ASSUME NEW t \in Ticks, NEW u \in Ticks, NEW k \in TickKeys[t], k \in TickKeys[u]
    PROVE  t = u
<1>1. CASE k \in Raw[t]
  BY <1>1, RawHas, ExecutedHas, RangesHas, TickKeysHas DEF tickData
<1>2. CASE k \in Executed[t]
  BY <1>2, RawHas, ExecutedHas, RangesHas, TickKeysHas DEF tickData
<1>3. CASE k \in LogRangeKeys[t]
  BY <1>3, RawHas, ExecutedHas, RangesHas, TickKeysHas DEF tickData
<1> QED
  BY <1>1, <1>2, <1>3, TickKeysHas

\* A key of the executed transactions or of the ranges is not one of a raw tick.
LEMMA OtherKinds ==
    ASSUME NEW t \in Ticks, NEW u \in Ticks, NEW k, k \in Executed[t] \/ k \in LogRangeKeys[t]
    PROVE  k \notin Raw[u] /\ k \notin db_insert_tick_vote(u) /\ k # vtick(u) /\ k # tickData(u)
BY RawHas, ExecutedHas, RangesHas DEF tickData, vtick, db_insert_tick_vote

LEMMA GroupsAreDisjoint ==
    ASSUME NEW t \in Ticks, NEW k
    PROVE  /\ k \in Raw[t] => k \notin LogRangeKeys[t] /\ k \notin Executed[t]
           /\ k \in LogRangeKeys[t] => k \notin Executed[t]
<1>1. k \in LogRangeKeys[t] => k \notin Executed[t]
  BY RangesHas, ExecutedHas
<1> QED
  BY <1>1, OtherKinds

LEMMA TheVotes ==
    ASSUME NEW t \in Ticks
    PROVE  /\ \A k \in db_insert_tick_vote(t) : k \in Raw[t] /\ k # tickData(t)
           /\ \A k \in Raw[t] : k = tickData(t) \/ k \in db_insert_tick_vote(t)
           /\ \E k \in Raw[t] : k \in db_insert_tick_vote(t)
           /\ t \notin Empty => tickData(t) \in Raw[t]
           /\ t \in Empty => tickData(t) \notin Raw[t] /\ tickData(t) \notin TickKeys[t]
           /\ vtick(t) \notin TickKeys[t]
           /\ \A u \in Ticks : tickData(t) \in TickKeys[u] => u = t /\ t \notin Empty
<1>1. \A k \in db_insert_tick_vote(t) : k \in Raw[t] /\ k # tickData(t)
  BY RawHas DEF tickData, db_insert_tick_vote
<1>2. \A k \in Raw[t] : k = tickData(t) \/ k \in db_insert_tick_vote(t)
  BY RawHas DEF db_insert_tick_vote
<1>3. \E k \in Raw[t] : k \in db_insert_tick_vote(t)
  <2>0. PICK b \in Batches : TRUE
    BY LogAssumption
  <2>1. <<"tick_vote", t, b>> \in db_insert_tick_vote(t)
    BY DEF db_insert_tick_vote
  <2> QED
    BY <1>1, <2>1
<1>4. tickData(t) \in Raw[t] <=> t \notin Empty
  BY RawHas DEF tickData
<1>5. \A u \in Ticks : tickData(t) \in TickKeys[u] => u = t /\ t \notin Empty
  BY RawHas, ExecutedHas, RangesHas, TickKeysHas DEF tickData
<1>6. vtick(t) \notin TickKeys[t]
  BY RawHas, ExecutedHas, RangesHas, TickKeysHas DEF tickData, vtick
<1> QED
  BY <1>1, <1>2, <1>3, <1>4, <1>5, <1>6

\* The commands a sequence of one command stands for.
Cmd(op, t, keys) == [op |-> op, t |-> t, keys |-> keys]

LEMMA CmdFields ==
    ASSUME NEW op, NEW t, NEW keys
    PROVE  /\ Cmd(op, t, keys).op = op /\ Cmd(op, t, keys).t = t /\ Cmd(op, t, keys).keys = keys
           /\ Command(op, t, keys) = <<Cmd(op, t, keys)>>
           /\ Len(Command(op, t, keys)) = 1 /\ Command(op, t, keys)[1] = Cmd(op, t, keys)
BY DEF Cmd, Command

LEMMA SoundOne ==
    ASSUME NEW m, NEW c, NEW F,
           \A kind \in Kinds : \A t \in Ticks : \A k \in Keys :
               Requires(m, c, kind, t, k) => k \in F[kind][t]
    PROVE  Sound(m, <<c>>, F)
<1>1. Len(<<c>>) = 1 /\ <<c>>[1] = c
  OBVIOUS
<1> QED
  BY <1>1 DEF Sound

LEMMA AfterOne ==
    ASSUME NEW m, NEW c, NEW F, NEW kind \in Kinds, NEW t \in Ticks, NEW k \in Keys
    PROVE  k \in After(m, <<c>>, F)[kind][t] <=> k \in F[kind][t] \/ Ensures(m, c, kind, t, k)
<1> DEFINE a == <<c>>
<1>1. Len(a) = 1 /\ a[1] = c
  OBVIOUS
<1> HIDE DEF a
<1>2. (\E q \in 1 .. Len(a) : Ensures(m, a[q], kind, t, k)) <=> Ensures(m, c, kind, t, k)
  BY <1>1
<1> QED
  BY <1>2, AfterHas DEF a

\* The commands cleanTransactionLogs leads to, all about one tick.
CmdsOf(t) == {c \in Cmds : c.op \in {"unlink", "set"} /\ \A k \in c.keys : k \in TickKeys[t]}

LEMMA CmdsOfType ==
    ASSUME NEW t \in Ticks, NEW S, \A k \in S : k \in TickKeys[t]
    PROVE  Unlink(S) \in Seq(CmdsOf(t)) /\ Copy(S) \in Seq(CmdsOf(t))
<1>1. S \in SUBSET Keys
  BY KeysType
<1>2. ASSUME NEW op \in {"unlink", "set"} PROVE Command(op, 0, S) \in Seq(CmdsOf(t))
  <2> DEFINE c == Cmd(op, 0, S)
  <2>1. c.op = op /\ c.t = 0 /\ c.keys = S /\ Command(op, 0, S) = <<c>>
    BY CmdFields
  <2>2. c \in [op : Ops, t : Int, keys : SUBSET Keys]
    BY <1>1 DEF Cmd, Ops
  <2> HIDE DEF c
  <2>3. c \in Cmds
    BY <2>1, <2>2 DEF Cmds
  <2>4. c \in CmdsOf(t)
    BY <2>1, <2>3 DEF CmdsOf
  <2>5. <<c>> \in Seq(CmdsOf(t))
    <3> DEFINE X == CmdsOf(t)
    <3>1. c \in X
      BY <2>4
    <3> HIDE DEF X
    <3>2. <<c>> \in Seq(X)
      BY <3>1
    <3> QED
      BY <3>2 DEF X
  <2> QED
    BY <2>1, <2>5
<1> QED
  BY <1>2 DEF Unlink, Copy

LEMMA CmdsOfAre ==
    ASSUME NEW t \in Ticks, NEW a \in Seq(CmdsOf(t))
    PROVE  /\ a \in Seq(Cmds)
           /\ \A p \in 1 .. Len(a) : a[p].op \in {"unlink", "set"} /\ \A k \in a[p].keys : k \in TickKeys[t]
<1>0. \A c \in CmdsOf(t) : c \in Cmds /\ c.op \in {"unlink", "set"} /\ \A k \in c.keys : k \in TickKeys[t]
  BY DEF CmdsOf
<1> DEFINE X == CmdsOf(t)
<1>a. a \in Seq(X) /\ \A c \in X : c \in Cmds
  BY <1>0
<1>2. a \in Seq(Cmds)
  <2> HIDE DEF X
  <2> QED
    BY <1>a
<1>1. \A p \in 1 .. Len(a) : a[p] \in X
  <2> HIDE DEF X
  <2> QED
    BY <1>a
<1> QED
  BY <1>0, <1>1, <1>2

LEMMA CallType ==
    ASSUME NEW t \in Ticks, NEW op \in {"compressTickAndMoveToKVRocks", "cleanTransactionLogs"}
    PROVE  Call(op, t) = <<Cmd(op, t, {})>> /\ Cmd(op, t, {}) \in Cmds
<1> DEFINE c == Cmd(op, t, {})
<1>1. c.op = op /\ c.t = t /\ c.keys = {} /\ Command(op, t, {}) = <<c>>
  BY CmdFields
<1>2. c \in [op : Ops, t : Int, keys : SUBSET Keys]
  BY TicksAre DEF Cmd, Ops
<1> HIDE DEF c
<1>3. c \in Cmds
  BY <1>1, <1>2 DEF Cmds
<1> QED
  BY <1>1, <1>3 DEF Call, c

LEMMA SaveType ==
    ASSUME NEW t \in Int, t >= 1, NEW op \in {"saveTick", "saveTx"}
    PROVE  Command(op, t, {}) = <<Cmd(op, t, {})>> /\ Cmd(op, t, {}) \in Cmds
<1> DEFINE c == Cmd(op, t, {})
<1>1. c.op = op /\ c.t = t /\ c.keys = {} /\ Command(op, t, {}) = <<c>>
  BY CmdFields
<1>2. c \in [op : Ops, t : Int, keys : SUBSET Keys]
  BY DEF Cmd, Ops
<1> HIDE DEF c
<1>3. c \in Cmds
  BY <1>1, <1>2 DEF Cmds
<1> QED
  BY <1>1, <1>3 DEF c

LEMMA FactsHave ==
    ASSUME NEW kind \in Kinds, NEW t \in Ticks, NEW k \in Keys
    PROVE  k \in Facts[kind][t] <=> Fact(kind, t, k)
<1>1. Facts[kind][t] = {x \in Keys : Fact(kind, t, x)}
  BY DEF Facts
<1> QED
  BY <1>1, Zenon

LEMMA KindsAre ==
    /\ "old" \in Kinds /\ "safe" \in Kinds /\ "found" \in Kinds /\ "raw" \in Kinds /\ "gone" \in Kinds
BY DEF Kinds

\* Deleting a key of the transactions or ranges of a tick.
LEMMA UnlinkOne ==
    ASSUME NEW m, NEW F, NEW t \in Ticks, NEW k, k \in Executed[t] \/ k \in LogRangeKeys[t],
           k \in F["old"][t], k \in F["safe"][t]
    PROVE  /\ Unlink({k}) \in Seq(CmdsOf(t))
           /\ Sound(m, Unlink({k}), F)
           /\ k \in After(m, Unlink({k}), F)["gone"][t]
<1>0. k \in TickKeys[t] /\ k \in Keys
  BY TickKeysHas, KeysType
<1> DEFINE c == Cmd("unlink", 0, {k})
<1>1. c.op = "unlink" /\ c.keys = {k} /\ Unlink({k}) = <<c>>
  BY CmdFields DEF Unlink
<1> HIDE DEF c
<1>2. ASSUME NEW kind \in Kinds, NEW u \in Ticks, NEW x \in Keys, Requires(m, c, kind, u, x)
      PROVE  x \in F[kind][u]
  <2>1. k \notin Raw[u] /\ k \notin db_insert_tick_vote(u)
    BY OtherKinds
  <2>2. kind \in {"old", "safe"} /\ x = k /\ k \in TickKeys[u]
    BY <1>1, <1>2, <2>1 DEF Requires
  <2>3. u = t
    BY <1>0, <2>2, TicksAreDisjoint
  <2> QED
    BY <2>2, <2>3
<1>3. Ensures(m, c, "gone", t, k)
  BY <1>1 DEF Ensures
<1>4. k \in After(m, <<c>>, F)["gone"][t]
  BY <1>0, <1>3, AfterOne, KindsAre
<1>5. Sound(m, <<c>>, F)
  BY <1>2, SoundOne, Zenon
<1>6. Unlink({k}) \in Seq(CmdsOf(t))
  BY <1>0, CmdsOfType
<1> QED
  BY <1>1, <1>4, <1>5, <1>6

LEMMA CopySet ==
    ASSUME NEW m, NEW F, NEW t \in Ticks, NEW S, \A k \in S : k \in TickKeys[t]
    PROVE  /\ Copy(S) \in Seq(CmdsOf(t))
           /\ Sound(m, Copy(S), F)
           /\ \A k \in S : /\ k \in After(m, Copy(S), F)["safe"][t]
                            /\ k \in After(m, Copy(S), F)["found"][t]
<1> DEFINE c == Cmd("set", 0, S)
<1>1. c.op = "set" /\ c.keys = S /\ Copy(S) = <<c>>
  BY CmdFields DEF Copy
<1> HIDE DEF c
<1>2. ASSUME NEW kind \in Kinds, NEW u \in Ticks, NEW x \in Keys
      PROVE  ~Requires(m, c, kind, u, x)
  BY <1>1 DEF Requires
<1>3. ASSUME NEW k \in S
      PROVE  k \in After(m, <<c>>, F)["safe"][t] /\ k \in After(m, <<c>>, F)["found"][t]
  <2>1. k \in Keys
    BY KeysType
  <2>2. Ensures(m, c, "safe", t, k) /\ Ensures(m, c, "found", t, k)
    BY <1>1 DEF Ensures
  <2> QED
    BY <2>1, <2>2, AfterOne, KindsAre
<1>5. Sound(m, <<c>>, F)
  BY <1>2, SoundOne, Zenon
<1>6. Copy(S) \in Seq(CmdsOf(t))
  BY CmdsOfType
<1> QED
  BY <1>1, <1>3, <1>5, <1>6

\* A key that KeyDB has lost and an indexed tick keeps is in KVRocks or excused.
LEMMA LostIsSafe ==
    ASSUME RetainedDataIsStored, saved.indexed \in Int, NEW t \in Ticks, t <= saved.indexed,
           NEW k \in TickKeys[t], k \notin keydb
    PROVE  Safe(t, k)
<1>1. t \in gInitialTick .. saved.indexed
  BY TicksAre DEF gInitialTick
<1>2. k \in Kept(t) => k \in kvrocks \/ k \in Excused(t)
  BY <1>1 DEF RetainedDataIsStored
<1>3. k # vtick(t)
  BY TheVotes
<1> QED
  BY <1>2, <1>3 DEF Safe

\* A copy is made of a key that is there; the key may be deleted afterwards.
CopyIf(P, k) == IF P /\ k \in keydb THEN Copy({k}) ELSE << >>

LEMMA CopyCovers ==
    ASSUME RetainedDataIsStored, saved.indexed \in Int, NEW t \in Ticks, t <= saved.indexed,
           NEW k \in TickKeys[t], NEW m, NEW P, P
    PROVE  /\ CopyIf(P, k) \in Seq(CmdsOf(t))
           /\ Sound(m, CopyIf(P, k), Facts)
           /\ k \in After(m, CopyIf(P, k), Facts)["safe"][t]
<1>0. k \in Keys
  BY KeysType
<1>1. CASE k \in keydb
  <2> DEFINE S == {k}
  <2>1. CopyIf(P, k) = Copy(S) /\ k \in S /\ \A x \in S : x \in TickKeys[t]
    BY <1>1 DEF CopyIf
  <2> HIDE DEF S
  <2> QED
    BY <2>1, CopySet
<1>2. CASE k \notin keydb
  <2>1. CopyIf(P, k) = << >>
    BY <1>2 DEF CopyIf
  <2>2. Fact("safe", t, k)
    BY <1>2, LostIsSafe DEF Fact
  <2>3. k \in Facts["safe"][t]
    BY <1>0, <2>2, FactsHave, KindsAre
  <2>4. k \in After(m, << >>, Facts)["safe"][t]
    BY <1>0, <2>3, AfterHas, KindsAre
  <2> QED
    BY <2>1, <2>4, SoundEmpty, EmptySeq
<1> QED
  BY <1>1, <1>2

LEMMA UnlinkGone ==
    ASSUME NEW m, NEW F, NEW t \in Ticks, NEW S, NEW k \in S, k \in Keys, NEW kind \in {"raw", "gone"}
    PROVE  k \in After(m, Unlink(S), F)[kind][t]
<1> DEFINE c == Cmd("unlink", 0, S)
<1>1. c.op = "unlink" /\ c.keys = S /\ Unlink(S) = <<c>>
  BY CmdFields DEF Unlink
<1> HIDE DEF c
<1>2. Ensures(m, c, kind, t, k)
  BY <1>1 DEF Ensures
<1>3. kind \in Kinds
  BY DEF Kinds
<1> QED
  BY <1>1, <1>2, <1>3, AfterOne

------------------------------------------------------------------------------
(* cleanTransactionLogs *)

\* The state in which the transactions of a tick may be cleaned.
Cleanable(t) ==
    /\ RetainedDataIsStored /\ saved.indexed \in Int /\ t \in Ticks /\ t <= saved.indexed
    /\ mode \in ValidModes /\ kvOn = (mode.tick = "Kvrocks")
    /\ \A k \in LogRangeKeys[t] : Safe(t, k)
    /\ ~KvrocksMode(mode) => \A k \in Executed[t] : Safe(t, k)

MoveIf(k) == IF mode.tx = "Kvrocks" THEN CopyIf(kvOn, k) ELSE << >>

LEMMA MoveCovers ==
    ASSUME NEW t, Cleanable(t), NEW k \in Executed[t]
    PROVE  /\ MoveIf(k) \in Seq(CmdsOf(t))
           /\ Sound(mode, MoveIf(k), Facts)
           /\ k \in After(mode, MoveIf(k), Facts)["safe"][t]
<1>0. t \in Ticks /\ saved.indexed \in Int /\ t <= saved.indexed /\ RetainedDataIsStored
  BY DEF Cleanable
<1>1. k \in TickKeys[t] /\ k \in Keys
  BY <1>0, TickKeysHas, KeysType
<1>2. CASE KvrocksMode(mode)
  <2>1. kvOn /\ MoveIf(k) = CopyIf(kvOn, k)
    BY <1>2 DEF Cleanable, KvrocksMode, MoveIf
  <2> QED
    BY <1>0, <1>1, <2>1, CopyCovers
<1>3. CASE ~KvrocksMode(mode)
  <2>1. MoveIf(k) = << >>
    BY <1>3 DEF Cleanable, KvrocksMode, MoveIf, CopyIf
  <2>2. Fact("safe", t, k)
    BY <1>3 DEF Fact, Cleanable
  <2>3. k \in Facts["safe"][t]
    BY <1>0, <1>1, <2>2, FactsHave, KindsAre
  <2>4. k \in After(mode, << >>, Facts)["safe"][t]
    BY <1>0, <1>1, <2>3, AfterHas, KindsAre
  <2> QED
    BY <2>1, <2>4, SoundEmpty, EmptySeq
<1> QED
  BY <1>2, <1>3

LEMMA OldFacts ==
    ASSUME NEW t \in Ticks, t <= saved.indexed, NEW k \in Keys
    PROVE  k \in Facts["old"][t]
BY FactsHave, KindsAre DEF Fact

LogKey(id) == <<"log", id, 0>>

LEMMA LogsCleaned ==
    ASSUME NEW t, Cleanable(t), NEW i \in TickTxs[t]
    PROVE  LET move == IF mode.tx = "Kvrocks" THEN db_move_logs_to_kvrocks_by_range(Ids(t, i)) ELSE << >>
               b == move \o db_delete_logs(Ids(t, i))
           IN  /\ b \in Seq(CmdsOf(t))
               /\ Sound(mode, b, Facts)
               /\ \A id \in Ids(t, i) : LogKey(id) \in After(mode, b, Facts)["gone"][t]
<1> DEFINE D == Ids(t, i)
           X == CmdsOf(t)
           f == [id \in D |-> CopyIf(kvOn, LogKey(id))]
           d == [id \in D |-> Unlink({LogKey(id)})]
           move == IF mode.tx = "Kvrocks" THEN Concat(f) ELSE << >>
           del == Concat(d)
<1>0. t \in Ticks /\ saved.indexed \in Int /\ t <= saved.indexed /\ RetainedDataIsStored
  BY DEF Cleanable
<1>d. (\A z \in D : z \in Int) /\ IsFiniteSet(D)
  BY <1>0, TxIndex, FS_Interval DEF Ids
<1>k. \A id \in D : LogKey(id) \in Executed[t] /\ LogKey(id) \in Keys /\ LogKey(id) \in TickKeys[t]
  BY <1>0, TxIndex, ExecutedHas, TickKeysHas, KeysType DEF LogKey
<1>1. db_move_logs_to_kvrocks_by_range(D) = Concat(f)
  BY DEF db_move_logs_to_kvrocks_by_range, db_move_log_to_kvrocks, CopyIf, db_get_log, LogKey
<1>2. db_delete_logs(D) = del
  BY DEF db_delete_logs, LogKey
<1>n. << >> \in Seq(X)
  BY EmptySeq
<1> HIDE DEF D, X
<1>3. /\ move \in Seq(X) /\ Sound(mode, move, Facts)
      /\ \A id \in D : LogKey(id) \in After(mode, move, Facts)["safe"][t]
  <2>1. CASE mode.tx = "Kvrocks"
    <3>0. \A id \in D : CopyIf(kvOn, LogKey(id)) = MoveIf(LogKey(id))
      BY <2>1 DEF MoveIf
    <3>1. \A id \in D : /\ f[id] \in Seq(X) /\ Sound(mode, f[id], Facts)
                        /\ LogKey(id) \in After(mode, f[id], Facts)["safe"][t]
      <4> SUFFICES ASSUME NEW id \in D
                   PROVE /\ f[id] \in Seq(X) /\ Sound(mode, f[id], Facts)
                         /\ LogKey(id) \in After(mode, f[id], Facts)["safe"][t]
        OBVIOUS
      <4>1. f[id] = MoveIf(LogKey(id)) /\ LogKey(id) \in Executed[t]
        BY <1>k, <3>0
      <4> QED
        BY <4>1, MoveCovers DEF X
    <3>2. f \in [D -> Seq(X)]
      BY <3>1
    <3> HIDE DEF f
    <3>3. Concat(f) \in Seq(X)
      BY <1>d, <3>2, ConcatType
    <3>4. Sound(mode, Concat(f), Facts)
      BY <1>d, <3>1, <3>2, SoundConcat
    <3>5. ASSUME NEW id \in D PROVE LogKey(id) \in After(mode, Concat(f), Facts)["safe"][t]
      <4>1. More(After(mode, f[id], Facts), After(mode, Concat(f), Facts))
        BY <1>d, <3>2, AfterConcat
      <4> QED
        BY <1>0, <1>k, <3>1, <4>1, KindsAre, Zenon DEF More
    <3>6. move = Concat(f)
      BY <2>1
    <3> QED
      BY <3>3, <3>4, <3>5, <3>6
  <2>2. CASE mode.tx # "Kvrocks"
    <3>1. move = << >>
      BY <2>2
    <3>2. ASSUME NEW id \in D PROVE LogKey(id) \in After(mode, << >>, Facts)["safe"][t]
      <4>1. MoveIf(LogKey(id)) = << >>
        BY <2>2 DEF MoveIf
      <4> QED
        BY <1>k, <4>1, MoveCovers
    <3> QED
      BY <1>n, <3>1, <3>2, SoundEmpty
  <2> QED
    BY <2>1, <2>2
<1> HIDE DEF move
<1> DEFINE G == After(mode, move, Facts)
<1>4. ASSUME NEW id \in D PROVE LogKey(id) \in G["old"][t] /\ LogKey(id) \in G["safe"][t]
  <2>1. More(Facts, G)
    BY <1>3, AfterJoin
  <2>2. LogKey(id) \in Facts["old"][t]
    BY <1>0, <1>k, OldFacts
  <2> QED
    BY <1>0, <1>3, <1>k, <2>1, <2>2, KindsAre DEF More
<1> HIDE DEF G
<1>5. \A id \in D : d[id] \in Seq(X) /\ Sound(mode, d[id], G)
  <2> SUFFICES ASSUME NEW id \in D PROVE d[id] \in Seq(X) /\ Sound(mode, d[id], G)
    OBVIOUS
  <2>1. d[id] = Unlink({LogKey(id)})
    OBVIOUS
  <2> QED
    BY <1>0, <1>4, <1>k, <2>1, UnlinkOne DEF X
<1>6. d \in [D -> Seq(X)]
  BY <1>5
<1>7. \A id \in D : LogKey(id) \in After(mode, d[id], Facts)["gone"][t]
  <2> SUFFICES ASSUME NEW id \in D PROVE LogKey(id) \in After(mode, d[id], Facts)["gone"][t]
    OBVIOUS
  <2>1. d[id] = Unlink({LogKey(id)}) /\ LogKey(id) \in {LogKey(id)}
    OBVIOUS
  <2> QED
    BY <1>0, <1>k, <2>1, UnlinkGone
<1> HIDE DEF d
<1>8. del \in Seq(X) /\ Sound(mode, del, G)
  BY <1>d, <1>5, <1>6, ConcatType, SoundConcat
<1>9. ASSUME NEW id \in D PROVE LogKey(id) \in After(mode, del, Facts)["gone"][t]
  <2>1. More(After(mode, d[id], Facts), After(mode, del, Facts))
    BY <1>d, <1>6, AfterConcat
  <2> QED
    BY <1>0, <1>k, <1>7, <2>1, KindsAre, Zenon DEF More
<1> HIDE DEF del
<1> DEFINE b == move \o del
<1>10. b \in Seq(X)
  BY <1>3, <1>8, ConcatProperties
<1>11. Sound(mode, b, Facts)
  BY <1>3, <1>8, SoundJoin, Zenon DEF G
<1>12. ASSUME NEW id \in D PROVE LogKey(id) \in After(mode, b, Facts)["gone"][t]
  <2>1. More(After(mode, del, Facts), After(mode, b, Facts))
    BY <1>3, <1>8, AfterJoin
  <2> HIDE DEF b
  <2> QED
    BY <1>0, <1>k, <1>9, <2>1, KindsAre, Zenon DEF More
<1>13. move = IF mode.tx = "Kvrocks" THEN db_move_logs_to_kvrocks_by_range(D) ELSE << >>
  BY <1>1 DEF move
<1> QED
  BY <1>2, <1>10, <1>11, <1>12, <1>13, Zenon DEF X, D

TxKey(t, i) == <<"transaction", t, i>>

\* One transaction: what is copied, and what is deleted.
CleanOne(t, i) ==
    (IF mode.tx = "Kvrocks" THEN db_copy_transaction_to_kvrocks(t, i) ELSE << >>)
    \o (IF from(t, i) > 0 /\ length(t, i) > 0
        THEN (IF mode.tx = "Kvrocks" THEN db_move_logs_to_kvrocks_by_range(Ids(t, i)) ELSE << >>)
             \o db_delete_logs(Ids(t, i))
        ELSE << >>)
    \o db_delete_transaction(t, i)

LEMMA OneCleaned ==
    ASSUME NEW t, Cleanable(t), NEW i \in TickTxs[t]
    PROVE  /\ CleanOne(t, i) \in Seq(CmdsOf(t))
           /\ Sound(mode, CleanOne(t, i), Facts)
           /\ TxKey(t, i) \in After(mode, CleanOne(t, i), Facts)["gone"][t]
           /\ from(t, i) # 0 =>
                  \A id \in Ids(t, i) : LogKey(id) \in After(mode, CleanOne(t, i), Facts)["gone"][t]
<1> DEFINE X == CmdsOf(t)
           a == IF mode.tx = "Kvrocks" THEN db_copy_transaction_to_kvrocks(t, i) ELSE << >>
           move == IF mode.tx = "Kvrocks" THEN db_move_logs_to_kvrocks_by_range(Ids(t, i)) ELSE << >>
           logs == move \o db_delete_logs(Ids(t, i))
           b == IF from(t, i) > 0 /\ length(t, i) > 0 THEN logs ELSE << >>
           c == db_delete_transaction(t, i)
           k == TxKey(t, i)
<1>0. t \in Ticks /\ saved.indexed \in Int /\ t <= saved.indexed /\ RetainedDataIsStored
  BY DEF Cleanable
<1>k. k \in Executed[t] /\ k \in TickKeys[t] /\ k \in Keys
  BY <1>0, ExecutedHas, TickKeysHas, KeysType DEF TxKey
<1>l. \A id \in Ids(t, i) : LogKey(id) \in Keys
  BY <1>0, TxIndex, ExecutedHas, TickKeysHas, KeysType DEF LogKey
<1>1. a = MoveIf(k)
  BY DEF MoveIf, CopyIf, db_copy_transaction_to_kvrocks, db_get_transaction, TxKey
<1>2. a \in Seq(X) /\ Sound(mode, a, Facts) /\ k \in After(mode, a, Facts)["safe"][t]
  BY <1>1, <1>k, MoveCovers
<1>3. /\ logs \in Seq(X)
      /\ Sound(mode, logs, Facts)
      /\ \A id \in Ids(t, i) : LogKey(id) \in After(mode, logs, Facts)["gone"][t]
  BY LogsCleaned
<1>4. c = Unlink({k})
  BY DEF db_delete_transaction, TxKey
<1>n. << >> \in Seq(X)
  BY EmptySeq
<1>e. from(t, i) # 0 /\ ~(from(t, i) > 0 /\ length(t, i) > 0) => Ids(t, i) = {}
  <2>1. from(t, i) \in Int /\ length(t, i) \in Int /\ \A id \in Ids(t, i) : id \in LogIds
    BY <1>0, TxIndex
  <2>2. \A id \in Ids(t, i) : id \in Nat
    BY <2>1, LogAssumption
  <2> SUFFICES ASSUME from(t, i) # 0, ~(from(t, i) > 0 /\ length(t, i) > 0), NEW id \in Ids(t, i)
               PROVE  FALSE
    OBVIOUS
  <2>3. from(t, i) \in Ids(t, i)
    BY <2>1, <2>2 DEF Ids
  <2> QED
    BY <2>1, <2>2, <2>3 DEF Ids
<1> HIDE DEF X, a, logs, c, k
<1>5. /\ b \in Seq(X)
      /\ Sound(mode, b, Facts)
      /\ from(t, i) # 0 => \A id \in Ids(t, i) : LogKey(id) \in After(mode, b, Facts)["gone"][t]
  <2>1. CASE from(t, i) > 0 /\ length(t, i) > 0
    <3>1. b = logs
      BY <2>1
    <3> HIDE DEF b
    <3> QED
      BY <1>3, <3>1
  <2>2. CASE ~(from(t, i) > 0 /\ length(t, i) > 0)
    <3>1. b = << >>
      BY <2>2
    <3> HIDE DEF b
    <3> QED
      BY <1>n, <1>e, <2>2, <3>1, SoundEmpty
  <2> QED
    BY <2>1, <2>2
<1> HIDE DEF b
<1> DEFINE ab == a \o b
<1>6. ab \in Seq(X) /\ Sound(mode, ab, Facts)
  <2>1. More(Facts, After(mode, a, Facts))
    BY <1>2, AfterJoin
  <2>2. Sound(mode, b, After(mode, a, Facts))
    BY <1>5, <2>1, SoundMore
  <2> QED
    BY <1>2, <1>5, <2>2, SoundJoin, ConcatProperties
<1>7. /\ More(Facts, After(mode, ab, Facts))
      /\ More(After(mode, a, Facts), After(mode, ab, Facts))
      /\ More(After(mode, b, Facts), After(mode, ab, Facts))
  <2>1. More(Facts, After(mode, ab, Facts))
    <3> HIDE DEF ab
    <3> QED
      BY <1>6, AfterJoin
  <2> QED
    BY <1>2, <1>5, <2>1, AfterJoin
<1> HIDE DEF ab
<1> DEFINE G == After(mode, ab, Facts)
<1>8. k \in G["old"][t] /\ k \in G["safe"][t]
  <2>1. k \in Facts["old"][t]
    BY <1>0, <1>k, OldFacts
  <2> QED
    BY <1>0, <1>2, <1>k, <1>7, <2>1, KindsAre DEF More
<1>9. c \in Seq(X) /\ Sound(mode, c, G)
  <2> HIDE DEF G
  <2> QED
    BY <1>0, <1>4, <1>8, <1>k, UnlinkOne DEF X
<1> DEFINE abc == ab \o c
<1>10. abc \in Seq(X) /\ Sound(mode, abc, Facts)
  BY <1>6, <1>9, SoundJoin, ConcatProperties
<1>11. /\ More(After(mode, ab, Facts), After(mode, abc, Facts))
       /\ More(After(mode, c, Facts), After(mode, abc, Facts))
  BY <1>6, <1>9, AfterJoin
<1>12. k \in After(mode, c, Facts)["gone"][t]
  <2>1. k \in {k}
    OBVIOUS
  <2> QED
    BY <1>0, <1>4, <1>k, <2>1, UnlinkGone
<1>13. CleanOne(t, i) = abc
  BY DEF CleanOne, abc, ab, a, b, c, logs
<1> HIDE DEF abc
<1>14. k \in After(mode, abc, Facts)["gone"][t]
  BY <1>0, <1>k, <1>11, <1>12, KindsAre, Zenon DEF More
<1>15. ASSUME from(t, i) # 0, NEW id \in Ids(t, i) PROVE LogKey(id) \in After(mode, abc, Facts)["gone"][t]
  <2>1. LogKey(id) \in After(mode, b, Facts)["gone"][t]
    BY <1>5, <1>15
  <2>2. LogKey(id) \in After(mode, ab, Facts)["gone"][t]
    BY <1>0, <1>7, <1>l, <2>1, KindsAre, Zenon DEF More
  <2> QED
    BY <1>0, <1>11, <1>l, <2>2, KindsAre, Zenon DEF More
<1> QED
  BY <1>10, <1>13, <1>14, <1>15 DEF X, k

LEMMA TxsFinite ==
    ASSUME NEW t \in Ticks
    PROVE  IsFiniteSet(TickTxs[t]) /\ \A i \in TickTxs[t] : i \in Int
<1>1. IsFiniteSet(TxIndices)
  BY StoreAssumption, FS_Interval DEF TxIndices
<1>2. TickTxs[t] \in SUBSET TxIndices
  BY StoreAssumption
<1> QED
  BY <1>1, <1>2, FS_Subset, TxIndex

LEMMA CleanSound ==
    ASSUME NEW t, Cleanable(t)
    PROVE  /\ cleanTransactionLogs(t) \in Seq(CmdsOf(t))
           /\ Sound(mode, cleanTransactionLogs(t), Facts)
           /\ db_try_get_tick_data(t) /\ db_try_get_log_ranges(t)
              /\ (t \notin Empty => tickData(t) \in keydb \/ tickData(t) \in kvrocks)
              => \A k \in TxKeys(t) : k \in After(mode, cleanTransactionLogs(t), Facts)["gone"][t]
<1> DEFINE X == CmdsOf(t)
           lr == <<"log_ranges", t, 0>>
           tlr == <<"tick_log_range", t, 0>>
           a == Unlink({lr})
           b == Unlink({tlr})
           D == IF <<"tick_data", t, 0>> \in keydb \cup kvrocks THEN TickTxs[t] ELSE {}
           f == [i \in D |-> CleanOne(t, i)]
<1>0. t \in Ticks /\ saved.indexed \in Int /\ t <= saved.indexed /\ RetainedDataIsStored
  BY DEF Cleanable
<1>k. ASSUME NEW k \in {lr, tlr}
      PROVE  k \in LogRangeKeys[t] /\ k \in Keys /\ k \in Facts["old"][t] /\ k \in Facts["safe"][t]
  <2>1. k \in LogRangeKeys[t] /\ k \in Keys
    BY <1>0, RangesHas, TickKeysHas, KeysType
  <2>2. Fact("safe", t, k)
    BY <2>1 DEF Fact, Cleanable
  <2> QED
    BY <1>0, <2>1, <2>2, OldFacts, FactsHave, KindsAre
<1>a. a \in Seq(X) /\ Sound(mode, a, Facts) /\ lr \in After(mode, a, Facts)["gone"][t]
  BY <1>0, <1>k, UnlinkOne
<1>b. b \in Seq(X) /\ Sound(mode, b, Facts) /\ tlr \in After(mode, b, Facts)["gone"][t]
  BY <1>0, <1>k, UnlinkOne
<1>d. (\A z \in D : z \in Int) /\ IsFiniteSet(D) /\ D \subseteq TickTxs[t]
  BY <1>0, TxsFinite, FS_EmptySet
<1>n. << >> \in Seq(X) /\ lr \in Keys /\ tlr \in Keys
  BY <1>k, EmptySeq
<1>t. <<"tick_data", t, 0>> = tickData(t)
  BY DEF tickData
<1>c. \A i \in D : i \in TickTxs[t]
  BY <1>d
<1>e. tickData(t) \in keydb \/ tickData(t) \in kvrocks => D = TickTxs[t]
  BY <1>t
<1>g. cleanTransactionAndLogsAndSaveToDisk(t) = Concat(f)
  BY Zenon DEF cleanTransactionAndLogsAndSaveToDisk, CleanOne
<1>h. db_delete_log_ranges(t) = a \o b
  BY DEF db_delete_log_ranges
<1>r. \A k : k \in LogRangeKeys[t] => k = lr \/ k = tlr
  BY <1>0, RangesHas
<1> HIDE DEF X, lr, tlr, a, b, D
<1>1. \A i \in D : f[i] \in Seq(X) /\ Sound(mode, f[i], Facts)
  BY <1>c, OneCleaned DEF X
<1>2. f \in [D -> Seq(X)]
  BY <1>1
<1>3. \A i \in D : f[i] = CleanOne(t, i)
  OBVIOUS
<1> HIDE DEF f
<1> DEFINE c == Concat(f)
<1>4. c \in Seq(X) /\ Sound(mode, c, Facts)
  BY <1>d, <1>1, <1>2, ConcatType, SoundConcat
<1>5. \A i \in D : More(After(mode, CleanOne(t, i), Facts), After(mode, c, Facts))
  BY <1>d, <1>2, <1>3, AfterConcat
<1> HIDE DEF c
<1> DEFINE ab == a \o b
<1>6. ab \in Seq(X) /\ Sound(mode, ab, Facts)
  <2>1. More(Facts, After(mode, a, Facts))
    BY <1>a, AfterJoin
  <2>2. Sound(mode, b, After(mode, a, Facts))
    BY <1>b, <2>1, SoundMore
  <2> QED
    BY <1>a, <1>b, <2>2, SoundJoin, ConcatProperties
<1>7. /\ More(After(mode, a, Facts), After(mode, ab, Facts))
      /\ More(After(mode, b, Facts), After(mode, ab, Facts))
  BY <1>a, <1>b, AfterJoin
<1> HIDE DEF ab
<1> DEFINE abc == ab \o c
<1>8. abc \in Seq(X) /\ Sound(mode, abc, Facts)
  <2>1. More(Facts, After(mode, ab, Facts))
    BY <1>6, AfterJoin
  <2>2. Sound(mode, c, After(mode, ab, Facts))
    BY <1>4, <2>1, SoundMore
  <2> QED
    BY <1>4, <1>6, <2>2, SoundJoin, ConcatProperties
<1>9. /\ More(After(mode, ab, Facts), After(mode, abc, Facts))
      /\ More(After(mode, c, Facts), After(mode, abc, Facts))
  BY <1>4, <1>6, AfterJoin
<1>10. cleanTransactionLogs(t) = IF db_try_get_tick_data(t) /\ db_try_get_log_ranges(t) THEN abc ELSE << >>
  BY <1>g, <1>h, Zenon DEF cleanTransactionLogs, c, ab
<1> HIDE DEF abc
<1>11. ASSUME t \notin Empty => tickData(t) \in keydb \/ tickData(t) \in kvrocks, NEW k \in TxKeys(t)
       PROVE  k \in After(mode, abc, Facts)["gone"][t]
  <2>0. D = TickTxs[t]
    <3>1. CASE t \in Empty
      BY <1>0, <1>d, <3>1, StoreAssumption
    <3> QED
      BY <1>e, <1>11, <3>1
  <2>k. k \in Keys
    BY <1>0, TxKeysIn, KeysType
  <2>1. CASE k \in LogRangeKeys[t]
    <3>1. k \in After(mode, ab, Facts)["gone"][t]
      BY <1>0, <1>a, <1>b, <1>7, <1>r, <2>1, <2>k, KindsAre, Zenon DEF More
    <3> QED
      BY <1>0, <1>9, <2>k, <3>1, KindsAre, Zenon DEF More
  <2>2. CASE k \notin LogRangeKeys[t]
    <3>1. PICK i \in TickTxs[t] : k = <<"transaction", t, i>> \/ (from(t, i) # 0 /\ \E id \in Ids(t, i) : k = <<"log", id, 0>>)
      BY <1>0, <2>2, TxKeysHas
    <3>2. k = TxKey(t, i) \/ (from(t, i) # 0 /\ \E id \in Ids(t, i) : k = LogKey(id))
      BY <3>1 DEF TxKey, LogKey
    <3>3. k \in After(mode, CleanOne(t, i), Facts)["gone"][t]
      BY <3>2, OneCleaned, Zenon
    <3>4. k \in After(mode, c, Facts)["gone"][t]
      BY <1>0, <1>5, <2>0, <2>k, <3>3, KindsAre, Zenon DEF More
    <3> QED
      BY <1>0, <1>9, <2>k, <3>4, KindsAre, Zenon DEF More
  <2> QED
    BY <2>1, <2>2
<1> QED
  <2>1. CASE db_try_get_tick_data(t) /\ db_try_get_log_ranges(t)
    BY <1>8, <1>10, <1>11, <2>1 DEF X
  <2>2. CASE ~(db_try_get_tick_data(t) /\ db_try_get_log_ranges(t))
    BY <1>n, <1>10, <2>2, SoundEmpty DEF X
  <2> QED
    BY <2>1, <2>2

------------------------------------------------------------------------------
(* The agendas of the passes *)

\* The commands of a pass about one tick, and about several.
BodyOf(t) ==
    {c \in Cmds :
        \/ c.op \in {"compressTickAndMoveToKVRocks", "cleanTransactionLogs"} /\ c.t = t /\ c.keys = {}
        \/ c.op = "unlink" /\ \A k \in c.keys : k = tickData(t) \/ k \in Raw[t]}
Body(i, j) == {c \in Cmds : \E t \in i .. j : c \in BodyOf(t)}

\* The facts suffice to call cleanTransactionLogs.
Callable(m, F, t) ==
    \A kind \in Kinds : \A k \in Keys :
        Requires(m, Cmd("cleanTransactionLogs", t, {}), kind, t, k) => k \in F[kind][t]

LEMMA CallableMore ==
    ASSUME NEW m, NEW t \in Ticks, NEW F, NEW G, Callable(m, F, t), More(F, G)
    PROVE  Callable(m, G, t)
BY Zenon DEF Callable, More

LEMMA CallOfClean ==
    ASSUME NEW m, NEW F, NEW t \in Ticks, Callable(m, F, t)
    PROVE  /\ Call("cleanTransactionLogs", t) \in Seq(BodyOf(t))
           /\ Sound(m, Call("cleanTransactionLogs", t), F)
           /\ LastNMode(m) \/ KvrocksMode(m) =>
                  \A k \in TxKeys(t) : k \in After(m, Call("cleanTransactionLogs", t), F)["gone"][t]
<1> DEFINE c == Cmd("cleanTransactionLogs", t, {})
<1>1. /\ c.op = "cleanTransactionLogs" /\ c.t = t /\ c.keys = {} /\ c \in Cmds
      /\ Call("cleanTransactionLogs", t) = <<c>>
  BY CallType, CmdFields
<1>c. \A kind \in Kinds : \A k \in Keys : Requires(m, c, kind, t, k) => k \in F[kind][t]
  BY DEF Callable
<1> HIDE DEF c
<1>2. <<c>> \in Seq(BodyOf(t))
  <2>1. c \in BodyOf(t)
    BY <1>1 DEF BodyOf
  <2> QED
    BY <2>1
<1>3. Sound(m, <<c>>, F)
  <2>1. ASSUME NEW kind \in Kinds, NEW u \in Ticks, NEW k \in Keys, Requires(m, c, kind, u, k)
        PROVE  k \in F[kind][u]
    <3>1. u = t
      BY <1>1, <2>1 DEF Requires
    <3> QED
      BY <1>c, <2>1, <3>1, Zenon
  <2> QED
    BY <2>1, SoundOne, Zenon
<1>4. ASSUME LastNMode(m) \/ KvrocksMode(m), NEW k \in TxKeys(t)
      PROVE  k \in After(m, <<c>>, F)["gone"][t]
  <2>1. k \in Keys
    BY TxKeysIn, KeysType
  <2>2. Ensures(m, c, "gone", t, k)
    BY <1>1, <1>4 DEF Ensures
  <2> QED
    BY <2>1, <2>2, AfterOne, KindsAre
<1> QED
  BY <1>1, <1>2, <1>3, <1>4

\* Deleting keys of a raw tick.
LEMMA UnlinkRaw ==
    ASSUME NEW m, NEW F, NEW t \in Ticks, NEW S, \A k \in S : k = tickData(t) \/ k \in Raw[t],
           \A k \in Keys : k \in F["old"][t],
           \A k \in Raw[t] : k \in F["safe"][t],
           m.tick = "Kvrocks" => \A k \in Whole(t) : k \in F["safe"][t],
           S \cap db_insert_tick_vote(t) # {} => tickData(t) \in F["raw"][t]
    PROVE  /\ Unlink(S) \in Seq(BodyOf(t))
           /\ Sound(m, Unlink(S), F)
<1> DEFINE c == Cmd("unlink", 0, S)
<1>1. c.op = "unlink" /\ c.t = 0 /\ c.keys = S /\ Unlink(S) = <<c>>
  BY CmdFields DEF Unlink
<1>0. S \in SUBSET Keys
  BY KeysType, TickKeysHas
<1>2. c \in Cmds
  <2>1. c \in [op : Ops, t : Int, keys : SUBSET Keys]
    BY <1>0 DEF Cmd, Ops
  <2> HIDE DEF c
  <2> QED
    BY <1>1, <2>1 DEF Cmds
<1> HIDE DEF c
<1>3. <<c>> \in Seq(BodyOf(t))
  <2>1. c \in BodyOf(t)
    BY <1>1, <1>2 DEF BodyOf
  <2> QED
    BY <2>1
<1>s. \A k \in S : \A u \in Ticks : k \in TickKeys[u] => u = t /\ k \in Raw[t]
  <2> SUFFICES ASSUME NEW k \in S, NEW u \in Ticks, k \in TickKeys[u] PROVE u = t /\ k \in Raw[t]
    OBVIOUS
  <2>1. CASE k = tickData(t)
    BY <2>1, TheVotes
  <2>2. CASE k \in Raw[t]
    BY <2>2, TickKeysHas, TicksAreDisjoint
  <2> QED
    BY <2>1, <2>2
<1>v. \A u \in Ticks : \A k \in Raw[u] : k \in TickKeys[u]
  BY TickKeysHas
<1>w. \A u \in Ticks : \A k \in db_insert_tick_vote(u) : k \in TickKeys[u]
  BY <1>v, TheVotes
<1>4. Sound(m, <<c>>, F)
  <2>1. ASSUME NEW kind \in Kinds, NEW u \in Ticks, NEW x \in Keys, Requires(m, c, kind, u, x)
        PROVE  x \in F[kind][u]
    <3>1. CASE kind \in {"old", "safe"} /\ x \in S /\ x \in TickKeys[u]
      BY <1>s, <3>1
    <3>2. CASE kind = "safe" /\ m.tick = "Kvrocks" /\ S \cap Raw[u] # {} /\ x \in Whole(u)
      BY <1>s, <1>v, <3>2
    <3>3. CASE kind = "raw" /\ x = tickData(u) /\ S \cap db_insert_tick_vote(u) # {}
      <4>1. u = t
        BY <1>s, <1>w, <3>3
      <4> QED
        BY <3>3, <4>1
    <3> QED
      BY <1>1, <2>1, <3>1, <3>2, <3>3 DEF Requires
  <2> QED
    BY <2>1, SoundOne, Zenon
<1> QED
  BY <1>1, <1>3, <1>4

LEMMA RawCleaned ==
    ASSUME NEW m, NEW F, NEW t \in Ticks, NEW w \in BOOLEAN,
           \A k \in Keys : k \in F["old"][t],
           \A k \in Raw[t] : k \in F["safe"][t],
           m.tick = "Kvrocks" => \A k \in Whole(t) : k \in F["safe"][t],
           w => Callable(m, F, t)
    PROVE  /\ cleanRawTick(t, w) \in Seq(BodyOf(t))
           /\ Sound(m, cleanRawTick(t, w), F)
           /\ \A k \in Raw[t] : k \in After(m, cleanRawTick(t, w), F)["raw"][t]
           /\ w /\ LastNMode(m) => \A k \in TxKeys(t) : k \in After(m, cleanRawTick(t, w), F)["gone"][t]
<1> DEFINE X == BodyOf(t)
           a == IF w THEN Call("cleanTransactionLogs", t) ELSE << >>
           b == Unlink({tickData(t)})
           c == Unlink(db_insert_tick_vote(t))
<1>0. tickData(t) \in Keys /\ (\A k \in Raw[t] : k \in Keys) /\ (\A k \in Whole(t) : k \in Keys)
  BY KeysType, TickKeysHas
<1>t. \A k \in TxKeys(t) : k \in Keys
  BY TxKeysIn, KeysType
<1>d. cleanRawTick(t, w) = (a \o b) \o c
  BY DEF cleanRawTick, db_delete_tick_data, db_delete_tick_vote, tickData
<1>1. /\ a \in Seq(X) /\ Sound(m, a, F)
      /\ w /\ LastNMode(m) => \A k \in TxKeys(t) : k \in After(m, a, F)["gone"][t]
  <2>1. CASE w
    <3>1. a = Call("cleanTransactionLogs", t)
      BY <2>1
    <3> QED
      BY <2>1, <3>1, CallOfClean
  <2>2. CASE ~w
    <3>1. a = << >>
      BY <2>2
    <3> QED
      BY <2>2, <3>1, SoundEmpty, EmptySeq
  <2> QED
    BY <2>1, <2>2
<1>2. b \in Seq(X) /\ Sound(m, b, F) /\ tickData(t) \in After(m, b, F)["raw"][t]
  <2> DEFINE S == {tickData(t)}
  <2>1. S \cap db_insert_tick_vote(t) = {}
    BY TheVotes
  <2>2. (\A k \in S : k = tickData(t) \/ k \in Raw[t]) /\ tickData(t) \in S
    OBVIOUS
  <2> HIDE DEF S
  <2>3. Unlink(S) \in Seq(BodyOf(t)) /\ Sound(m, Unlink(S), F)
    BY <2>1, <2>2, UnlinkRaw
  <2>4. tickData(t) \in After(m, Unlink(S), F)["raw"][t]
    BY <1>0, <2>2, UnlinkGone
  <2> QED
    BY <2>3, <2>4 DEF S
<1> HIDE DEF X, a, b
<1> DEFINE ab == a \o b
           G == After(m, ab, F)
<1>3. ab \in Seq(X) /\ Sound(m, ab, F)
  <2>1. More(F, After(m, a, F))
    BY <1>1, AfterJoin
  <2>2. Sound(m, b, After(m, a, F))
    BY <1>2, <2>1, SoundMore
  <2> QED
    BY <1>1, <1>2, <2>2, SoundJoin, ConcatProperties
<1>4. More(After(m, a, F), G) /\ More(After(m, b, F), G)
  BY <1>1, <1>2, AfterJoin
<1>5. More(F, G)
  <2> HIDE DEF ab
  <2> QED
    BY <1>3, AfterJoin
<1> HIDE DEF ab, G
<1>6. c \in Seq(X) /\ Sound(m, c, G)
  <2>1. /\ \A k \in Keys : k \in G["old"][t]
        /\ \A k \in Raw[t] : k \in G["safe"][t]
        /\ m.tick = "Kvrocks" => \A k \in Whole(t) : k \in G["safe"][t]
        /\ tickData(t) \in G["raw"][t]
    BY <1>0, <1>2, <1>4, <1>5, KindsAre DEF More
  <2>2. \A k \in db_insert_tick_vote(t) : k \in Raw[t]
    BY TheVotes
  <2> QED
    BY <2>1, <2>2, UnlinkRaw DEF X
<1>7. \A k \in db_insert_tick_vote(t) : k \in After(m, c, F)["raw"][t]
  BY <1>0, TheVotes, UnlinkGone
<1> HIDE DEF c
<1> DEFINE abc == ab \o c
<1>8. abc \in Seq(X) /\ Sound(m, abc, F)
  BY <1>3, <1>6, SoundJoin, ConcatProperties DEF G
<1>9. More(G, After(m, abc, F)) /\ More(After(m, c, F), After(m, abc, F))
  BY <1>3, <1>6, AfterJoin DEF G
<1>10. cleanRawTick(t, w) = abc
  BY <1>d DEF ab
<1> HIDE DEF abc
<1>11. ASSUME NEW k \in Raw[t] PROVE k \in After(m, abc, F)["raw"][t]
  <2>1. CASE k = tickData(t)
    <3>1. tickData(t) \in G["raw"][t]
      BY <1>0, <1>2, <1>4, KindsAre, Zenon DEF More
    <3> QED
      BY <1>0, <1>9, <2>1, <3>1, KindsAre, Zenon DEF More
  <2>2. CASE k \in db_insert_tick_vote(t)
    BY <1>0, <1>7, <1>9, <2>2, KindsAre, Zenon DEF More
  <2> QED
    BY <2>1, <2>2, TheVotes
<1>12. ASSUME w, LastNMode(m), NEW k \in TxKeys(t) PROVE k \in After(m, abc, F)["gone"][t]
  <2>1. k \in After(m, a, F)["gone"][t]
    BY <1>1, <1>12
  <2>2. k \in G["gone"][t]
    BY <1>t, <1>4, <2>1, KindsAre, Zenon DEF More
  <2> QED
    BY <1>t, <1>9, <2>2, KindsAre, Zenon DEF More
<1> QED
  BY <1>8, <1>10, <1>11, <1>12 DEF X

LEMMA BodyType ==
    ASSUME NEW i \in Int, NEW j \in Int, NEW t \in i .. j, NEW a \in Seq(BodyOf(t))
    PROVE  a \in Seq(Body(i, j))
<1> DEFINE X == BodyOf(t)
           Y == Body(i, j)
<1>1. \A c \in X : c \in Y
  BY Zenon DEF Body, BodyOf
<1>2. a \in Seq(X)
  OBVIOUS
<1> HIDE DEF X, Y
<1>3. a \in Seq(Y)
  BY <1>1, <1>2
<1> QED
  BY <1>3 DEF Y

LEMMA BodySeq ==
    ASSUME NEW i \in Int, NEW j \in Int, NEW a \in Seq(Body(i, j))
    PROVE  /\ a \in Seq(Cmds)
           /\ \A p \in 1 .. Len(a) : \E t \in i .. j : a[p] \in BodyOf(t)
<1> DEFINE X == Body(i, j)
<1>1. \A c \in X : c \in Cmds /\ \E t \in i .. j : c \in BodyOf(t)
  BY DEF Body
<1>2. a \in Seq(X)
  OBVIOUS
<1> HIDE DEF X
<1>3. a \in Seq(Cmds) /\ \A p \in 1 .. Len(a) : a[p] \in X
  BY <1>1, <1>2
<1> QED
  BY <1>1, <1>3

LEMMA CallOfCompress ==
    ASSUME NEW m, m.tick = "Kvrocks", NEW F, NEW t \in Ticks
    PROVE  /\ Call("compressTickAndMoveToKVRocks", t) \in Seq(BodyOf(t))
           /\ Sound(m, Call("compressTickAndMoveToKVRocks", t), F)
           /\ \A kind \in {"safe", "found"} : \A k \in Whole(t) :
                  k \in After(m, Call("compressTickAndMoveToKVRocks", t), F)[kind][t]
<1> DEFINE c == Cmd("compressTickAndMoveToKVRocks", t, {})
<1>1. /\ c.op = "compressTickAndMoveToKVRocks" /\ c.t = t /\ c.keys = {} /\ c \in Cmds
      /\ Call("compressTickAndMoveToKVRocks", t) = <<c>>
  BY CallType, CmdFields
<1> HIDE DEF c
<1>2. <<c>> \in Seq(BodyOf(t))
  <2>1. c \in BodyOf(t)
    BY <1>1 DEF BodyOf
  <2> QED
    BY <2>1
<1>3. Sound(m, <<c>>, F)
  <2>1. \A kind \in Kinds : \A u \in Ticks : \A k \in Keys : ~Requires(m, c, kind, u, k)
    BY <1>1 DEF Requires
  <2> QED
    BY <2>1, SoundOne, Zenon
<1>4. ASSUME NEW kind \in {"safe", "found"}, NEW k \in Whole(t) PROVE k \in After(m, <<c>>, F)[kind][t]
  <2>1. k \in Keys /\ kind \in Kinds
    BY KeysType DEF Kinds
  <2>2. Ensures(m, c, kind, t, k)
    BY <1>1 DEF Ensures
  <2> QED
    BY <2>1, <2>2, AfterOne
<1> QED
  BY <1>1, <1>2, <1>3, <1>4

\* What must be true of the ticks i .. j when cleaning them is put on the agenda.
Ready(m, F, i, j, w) ==
    /\ i \in Int /\ j \in Int /\ 2 <= i /\ i <= j /\ j <= LastTick /\ w \in BOOLEAN
    /\ \A t \in i .. j : \A k \in Keys : k \in F["old"][t]
    /\ m.tick # "Kvrocks" => \A t \in i .. j : \A k \in Raw[t] : k \in F["safe"][t]
    /\ w /\ m.tick # "Kvrocks" => \A t \in i .. j : \A k \in LogRangeKeys[t] : k \in F["safe"][t]
    /\ w /\ ~KvrocksMode(m) => \A t \in i .. j : \A k \in Executed[t] : k \in F["safe"][t]
    /\ \A t \in 2 .. i - 1 : \A k \in Raw[t] : k \in F["raw"][t]
    /\ LastNMode(m) => w /\ \A t \in 2 .. i - 1 : \A k \in TxKeys(t) : k \in F["gone"][t]

LEMMA ReadyIsCallable ==
    ASSUME NEW m, NEW F, NEW t \in Ticks,
           \A k \in Keys : k \in F["old"][t],
           m.tick = "Kvrocks" => \A k \in Whole(t) : k \in F["found"][t],
           \A k \in LogRangeKeys[t] : k \in F["safe"][t],
           ~KvrocksMode(m) => \A k \in Executed[t] : k \in F["safe"][t]
    PROVE  Callable(m, F, t)
<1> DEFINE c == Cmd("cleanTransactionLogs", t, {})
<1>1. c.op = "cleanTransactionLogs" /\ c.t = t /\ c.keys = {}
  BY CmdFields
<1> HIDE DEF c
<1>2. ASSUME NEW kind \in Kinds, NEW k \in Keys, Requires(m, c, kind, t, k)
      PROVE  k \in F[kind][t]
  <2>1. \/ kind = "old"
        \/ kind = "safe" /\ k \in LogRangeKeys[t]
        \/ kind = "found" /\ m.tick = "Kvrocks" /\ k \in Whole(t)
        \/ kind = "safe" /\ ~KvrocksMode(m) /\ k \in Executed[t]
    BY <1>1, <1>2 DEF Requires
  <2> QED
    BY <2>1
<1> QED
  BY <1>2 DEF Callable, c

LEMMA TicksCleaned ==
    ASSUME NEW i, NEW j, NEW w, NEW F, Ready(mode, F, i, j, w)
    PROVE  LET f == [t \in i .. j |-> Call("compressTickAndMoveToKVRocks", t)]
               g == [t \in i .. j |-> cleanRawTick(t, w)]
               a == IF mode.tick = "Kvrocks" THEN Concat(f) ELSE << >>
               b == Concat(g)
           IN  /\ CleanTicks(i, j, w) = (a \o b) \o SaveTick(j)
               /\ a \in Seq(Body(i, j)) /\ b \in Seq(Body(i, j)) /\ a \o b \in Seq(Body(i, j))
               /\ g \in [i .. j -> Seq(Body(i, j))]
               /\ Sound(mode, CleanTicks(i, j, w), F)
<1> DEFINE D == i .. j
           X == Body(i, j)
           f == [t \in D |-> Call("compressTickAndMoveToKVRocks", t)]
           g == [t \in D |-> cleanRawTick(t, w)]
           a == IF mode.tick = "Kvrocks" THEN Concat(f) ELSE << >>
           b == Concat(g)
           s == SaveTick(j)
           F1 == After(mode, a, F)
<1>i. i \in Int /\ j \in Int /\ 2 <= i /\ i <= j /\ j <= LastTick /\ w \in BOOLEAN
  BY DEF Ready
<1>d. (\A z \in D : z \in Int /\ z \in Ticks) /\ IsFiniteSet(D) /\ \A z \in 2 .. i - 1 : z \in Ticks
  <2>1. IsFiniteSet(D)
    BY <1>i, FS_Interval
  <2>2. (\A z \in D : z \in Int /\ z \in Ticks) /\ \A z \in 2 .. i - 1 : z \in Ticks
    BY <1>i, TicksAre
  <2> QED
    BY <2>1, <2>2
<1>k. \A t \in Ticks : /\ \A k \in Raw[t] : k \in Keys
                       /\ \A k \in Whole(t) : k \in Keys
                       /\ \A k \in TxKeys(t) : k \in Keys
                       /\ \A k \in LogRangeKeys[t] : k \in Keys
                       /\ \A k \in Executed[t] : k \in Keys
                       /\ \A k \in Raw[t] : k \in Whole(t)
                       /\ \A k \in LogRangeKeys[t] : k \in Whole(t)
  BY KeysType, TickKeysHas, TxKeysIn, WholeHas, Zenon
<1>0. CleanTicks(i, j, w) = (a \o b) \o s
  BY DEF CleanTicks
<1>r. /\ \A t \in D : \A k \in Keys : k \in F["old"][t]
      /\ mode.tick # "Kvrocks" => \A t \in D : \A k \in Raw[t] : k \in F["safe"][t]
      /\ w /\ mode.tick # "Kvrocks" => \A t \in D : \A k \in LogRangeKeys[t] : k \in F["safe"][t]
      /\ w /\ ~KvrocksMode(mode) => \A t \in D : \A k \in Executed[t] : k \in F["safe"][t]
  BY DEF Ready
<1>n. << >> \in Seq(X)
  BY EmptySeq
<1>t. \A t \in D : \A x \in Seq(BodyOf(t)) : x \in Seq(X)
  BY <1>i, BodyType
<1> HIDE DEF D, X
<1>1. /\ a \in Seq(X) /\ Sound(mode, a, F)
      /\ mode.tick = "Kvrocks" => \A t \in D : \A k \in Whole(t) : k \in F1["safe"][t] /\ k \in F1["found"][t]
  <2>1. CASE mode.tick = "Kvrocks"
    <3>1. \A t \in D : /\ f[t] \in Seq(X) /\ Sound(mode, f[t], F)
                       /\ \A kind \in {"safe", "found"} : \A k \in Whole(t) : k \in After(mode, f[t], F)[kind][t]
      BY <1>d, <1>t, <2>1, CallOfCompress
    <3>2. f \in [D -> Seq(X)]
      BY <3>1
    <3>3. a = Concat(f)
      BY <2>1
    <3> HIDE DEF f
    <3>4. Concat(f) \in Seq(X) /\ Sound(mode, Concat(f), F)
      BY <1>d, <3>1, <3>2, ConcatType, SoundConcat
    <3>5. \A t \in D : More(After(mode, f[t], F), After(mode, Concat(f), F))
      BY <1>d, <3>2, AfterConcat
    <3>6. \A t \in D : \A k \in Whole(t) :
              k \in After(mode, Concat(f), F)["safe"][t] /\ k \in After(mode, Concat(f), F)["found"][t]
      <4> SUFFICES ASSUME NEW t \in D, NEW k \in Whole(t), NEW kind \in {"safe", "found"}
                   PROVE  k \in After(mode, Concat(f), F)[kind][t]
        OBVIOUS
      <4>1. kind \in Kinds /\ t \in Ticks /\ k \in Keys /\ k \in After(mode, f[t], F)[kind][t]
        BY <1>d, <1>k, <3>1 DEF Kinds
      <4> QED
        BY <3>5, <4>1, Zenon DEF More
    <3> QED
      BY <3>3, <3>4, <3>6
  <2>2. CASE mode.tick # "Kvrocks"
    <3>1. a = << >>
      BY <2>2
    <3> QED
      BY <1>n, <2>2, <3>1, SoundEmpty
  <2> QED
    BY <2>1, <2>2
<1> HIDE DEF a
<1>2. More(F, F1)
  BY <1>1, AfterJoin
<1> HIDE DEF F1
<1>3. ASSUME NEW t \in D
      PROVE  /\ g[t] \in Seq(X) /\ Sound(mode, g[t], F1)
             /\ \A k \in Raw[t] : k \in After(mode, g[t], F1)["raw"][t]
             /\ LastNMode(mode) => \A k \in TxKeys(t) : k \in After(mode, g[t], F1)["gone"][t]
  <2>1. /\ \A k \in Keys : k \in F1["old"][t]
        /\ \A k \in Raw[t] : k \in F1["safe"][t]
        /\ mode.tick = "Kvrocks" => \A k \in Whole(t) : k \in F1["safe"][t] /\ k \in F1["found"][t]
    BY <1>1, <1>2, <1>d, <1>k, <1>r, KindsAre DEF More
  <2>2. w => \A k \in LogRangeKeys[t] : k \in F1["safe"][t]
    BY <1>2, <1>d, <1>k, <1>r, <2>1, KindsAre DEF More
  <2>3. w /\ ~KvrocksMode(mode) => \A k \in Executed[t] : k \in F1["safe"][t]
    BY <1>2, <1>d, <1>k, <1>r, KindsAre DEF More
  <2>4. w => Callable(mode, F1, t)
    BY <1>d, <2>1, <2>2, <2>3, ReadyIsCallable
  <2>5. g[t] = cleanRawTick(t, w) /\ t \in Ticks
    BY <1>d
  <2>6. LastNMode(mode) => w
    BY DEF Ready
  <2> QED
    BY <1>i, <1>t, <2>1, <2>4, <2>5, <2>6, RawCleaned
<1>4. g \in [D -> Seq(X)]
  BY <1>3
<1> HIDE DEF g
<1>5. b \in Seq(X) /\ Sound(mode, b, F1)
  BY <1>d, <1>3, <1>4, ConcatType, SoundConcat
<1>6. ASSUME NEW t \in D
      PROVE  /\ \A k \in Raw[t] : k \in After(mode, b, F1)["raw"][t]
             /\ LastNMode(mode) => \A k \in TxKeys(t) : k \in After(mode, b, F1)["gone"][t]
  <2>1. More(After(mode, g[t], F1), After(mode, b, F1))
    BY <1>d, <1>4, AfterConcat
  <2> QED
    BY <1>3, <1>d, <1>k, <2>1, KindsAre DEF More
<1> HIDE DEF b
<1> DEFINE ab == a \o b
           F2 == After(mode, ab, F)
<1>7. ab \in Seq(X) /\ Sound(mode, ab, F)
  BY <1>1, <1>5, SoundJoin, ConcatProperties DEF F1
<1>8. More(F1, F2) /\ More(F, F2)
  <2>1. More(F1, F2)
    BY <1>1, <1>5, AfterJoin DEF F1
  <2> HIDE DEF F2
  <2> QED
    BY <1>2, <2>1 DEF More
<1>9. More(After(mode, b, F1), F2)
  <2>1. More(After(mode, b, F), F2)
    BY <1>1, <1>5, AfterJoin
  <2> SUFFICES ASSUME NEW kind \in Kinds, NEW t \in Ticks, NEW k \in Keys, k \in After(mode, b, F1)[kind][t]
               PROVE  k \in F2[kind][t]
    BY DEF More
  <2>2. k \in F1[kind][t] \/ \E q \in 1 .. Len(b) : Ensures(mode, b[q], kind, t, k)
    BY AfterHas
  <2>3. CASE k \in F1[kind][t]
    <3> HIDE DEF F2
    <3> QED
      BY <1>8, <2>3, Zenon DEF More
  <2>4. CASE \E q \in 1 .. Len(b) : Ensures(mode, b[q], kind, t, k)
    <3>1. k \in After(mode, b, F)[kind][t]
      BY <2>4, AfterHas
    <3> HIDE DEF F2
    <3> QED
      BY <2>1, <3>1, Zenon DEF More
  <2> QED
    BY <2>2, <2>3, <2>4
<1> HIDE DEF F2
<1>10. Sound(mode, s, F2)
  <2> DEFINE c == Cmd("saveTick", j, {})
  <2>1. c.op = "saveTick" /\ c.t = j /\ c.keys = {} /\ s = <<c>>
    BY <1>i, CmdFields, SaveType DEF SaveTick
  <2> HIDE DEF c
  <2>2. ASSUME NEW kind \in Kinds, NEW t \in Ticks, NEW k \in Keys, Requires(mode, c, kind, t, k)
        PROVE  k \in F2[kind][t]
    <3>1. /\ t \in 2 .. j
          /\ (kind = "raw" /\ k \in Raw[t]) \/ (kind = "gone" /\ LastNMode(mode) /\ k \in TxKeys(t))
      BY <1>i, <2>1, <2>2, TicksAre DEF Requires
    <3>2. CASE t \in D
      <4>1. k \in After(mode, b, F1)[kind][t]
        BY <1>6, <3>1, <3>2
      <4> QED
        BY <1>9, <4>1, Zenon DEF More
    <3>3. CASE t \in 2 .. i - 1
      <4>1. k \in F[kind][t]
        BY <3>1, <3>3 DEF Ready
      <4> QED
        BY <1>8, <4>1, Zenon DEF More
    <3>4. t \in D \/ t \in 2 .. i - 1
      BY <1>i, <3>1 DEF D
    <3> QED
      BY <3>2, <3>3, <3>4
  <2> QED
    BY <2>1, <2>2, SoundOne, Zenon
<1>11. s \in Seq(Cmds)
  <2> DEFINE c == Cmd("saveTick", j, {})
  <2>1. s = <<c>> /\ c \in Cmds
    BY <1>i, SaveType DEF SaveTick
  <2> HIDE DEF c, s
  <2> QED
    BY <2>1
<1>12. ab \in Seq(Cmds)
  BY <1>i, <1>7, BodySeq DEF X
<1>13. Sound(mode, ab \o s, F)
  <2> HIDE DEF ab
  <2> QED
    BY <1>7, <1>10, <1>11, <1>12, SoundJoin DEF F2
<1> QED
  BY <1>0, <1>1, <1>4, <1>5, <1>7, <1>13, Zenon DEF a, b, g, f, X, D

LEMMA TxsCleaned ==
    ASSUME NEW i \in Int, NEW j \in Int, 2 <= i, i <= j, j <= LastTick, NEW F,
           \A t \in i .. j : Callable(mode, F, t),
           mode.tick = "Kvrocks" => KvrocksMode(mode) /\ \A t \in 2 .. i - 1 : \A k \in TxKeys(t) : k \in F["gone"][t]
    PROVE  LET b == Concat([t \in i .. j |-> Call("cleanTransactionLogs", t)])
           IN  b \in Seq(Body(i, j)) /\ Sound(mode, b \o SaveTx(j), F)
<1> DEFINE D == i .. j
           X == Body(i, j)
           g == [t \in D |-> Call("cleanTransactionLogs", t)]
           b == Concat(g)
           s == SaveTx(j)
<1>f. IsFiniteSet(D)
  BY FS_Interval
<1>d. (\A z \in D : z \in Int /\ z \in Ticks) /\ \A z \in 2 .. i - 1 : z \in Ticks
  BY TicksAre
<1>e. \A z \in D : z \in Int
  BY <1>d
<1>k. \A t \in Ticks : \A k \in TxKeys(t) : k \in Keys
  BY KeysType, TxKeysIn
<1>t. \A t \in D : \A x \in Seq(BodyOf(t)) : x \in Seq(X)
  BY BodyType
<1>c. \A t \in D : Callable(mode, F, t)
  OBVIOUS
<1>j. \A t \in 2 .. j : t \in D \/ t \in 2 .. i - 1
  OBVIOUS
<1> HIDE DEF D, X
<1>1. ASSUME NEW t \in D
      PROVE  /\ g[t] \in Seq(X) /\ Sound(mode, g[t], F)
             /\ KvrocksMode(mode) => \A k \in TxKeys(t) : k \in After(mode, g[t], F)["gone"][t]
  BY <1>c, <1>d, <1>t, CallOfClean
<1>2. g \in [D -> Seq(X)]
  BY <1>1
<1> HIDE DEF g
<1>3. b \in Seq(X) /\ Sound(mode, b, F)
  BY <1>e, <1>f, <1>1, <1>2, ConcatType, SoundConcat
<1> DEFINE G == After(mode, b, F)
<1>4. ASSUME NEW t \in D, KvrocksMode(mode), NEW k \in TxKeys(t) PROVE k \in G["gone"][t]
  <2>1. More(After(mode, g[t], F), G)
    BY <1>e, <1>f, <1>2, AfterConcat
  <2>2. k \in After(mode, g[t], F)["gone"][t]
    BY <1>1, <1>4
  <2> HIDE DEF G
  <2> QED
    BY <1>d, <1>k, <2>1, <2>2, KindsAre, Zenon DEF More
<1> HIDE DEF b
<1>5. More(F, G)
  BY <1>3, AfterJoin
<1> HIDE DEF G
<1> DEFINE c == Cmd("saveTx", j, {})
<1>6. c.op = "saveTx" /\ c.t = j /\ c.keys = {} /\ s = <<c>> /\ c \in Cmds
  BY CmdFields, SaveType DEF SaveTx
<1> HIDE DEF c, s
<1>7. Sound(mode, s, G)
  <2>2. ASSUME NEW kind \in Kinds, NEW t \in Ticks, NEW k \in Keys, Requires(mode, c, kind, t, k)
        PROVE  k \in G[kind][t]
    <3>1. t \in 2 .. j /\ kind = "gone" /\ mode.tick = "Kvrocks" /\ k \in TxKeys(t)
      BY <1>6, <2>2, TicksAre DEF Requires
    <3>2. CASE t \in D
      BY <1>4, <3>1, <3>2
    <3>3. CASE t \in 2 .. i - 1
      <4>1. k \in F[kind][t]
        BY <3>1, <3>3
      <4> QED
        BY <1>5, <4>1, Zenon DEF More
    <3> QED
      BY <1>j, <3>1, <3>2, <3>3
  <2> QED
    BY <1>6, <2>2, SoundOne, Zenon
<1>8. b \in Seq(Cmds)
  BY <1>3, BodySeq DEF X
<1>9. s \in Seq(Cmds)
  BY <1>6
<1>10. Sound(mode, b \o s, F)
  BY <1>3, <1>7, <1>8, <1>9, SoundJoin DEF G
<1> QED
  BY <1>3, <1>10, Zenon DEF b, g, s, X, D

LEMMA BodyAvoids ==
    ASSUME NEW t \in Ticks, NEW u \in Ticks, t # u, NEW c \in BodyOf(t)
    PROVE  Avoids(c, u)
<1>1. CASE c.op = "unlink" /\ \A k \in c.keys : k = tickData(t) \/ k \in Raw[t]
  <2>1. \A k \in c.keys : k \notin TickKeys[u]
    BY <1>1, TheVotes, TickKeysHas, TicksAreDisjoint
  <2> QED
    BY <1>1, <2>1 DEF Avoids
<1>2. CASE c.t = t /\ c.keys = {}
  BY <1>2 DEF Avoids
<1> QED
  BY <1>1, <1>2 DEF BodyOf

LEMMA CleanedOnceJoin ==
    ASSUME NEW X, NEW a \in Seq(X), NEW b \in Seq(X), CleanedOnce(a), CleanedOnce(b),
           \A p \in 1 .. Len(b) : b[p].op = "cleanTransactionLogs" =>
               \A q \in 1 .. Len(a) : Avoids(a[q], b[p].t)
    PROVE  CleanedOnce(a \o b)
<1> DEFINE c == a \o b
<1>0. /\ Len(a) \in Nat /\ Len(b) \in Nat /\ Len(c) = Len(a) + Len(b)
      /\ \A i \in 1 .. Len(a) : c[i] = a[i]
      /\ \A i \in 1 .. Len(b) : c[Len(a) + i] = b[i]
  BY ConcatProperties
<1> HIDE DEF c
<1> SUFFICES ASSUME NEW p \in 1 .. Len(c), c[p].op = "cleanTransactionLogs", NEW q \in 1 .. p - 1
             PROVE  Avoids(c[q], c[p].t)
  BY DEF CleanedOnce, c
<1>1. CASE p \in 1 .. Len(a)
  <2>1. q \in 1 .. Len(a) /\ c[p] = a[p] /\ c[q] = a[q]
    BY <1>0, <1>1
  <2> QED
    BY <1>1, <2>1 DEF CleanedOnce
<1>2. CASE p \notin 1 .. Len(a)
  <2> DEFINE r == p - Len(a)
  <2>1. r \in 1 .. Len(b) /\ c[p] = b[r]
    <3>1. r \in 1 .. Len(b) /\ p = Len(a) + r
      BY <1>0, <1>2
    <3> HIDE DEF r
    <3> QED
      BY <1>0, <3>1
  <2>2. CASE q \in 1 .. Len(a)
    <3>1. c[q] = a[q]
      BY <1>0, <2>2
    <3> HIDE DEF r
    <3> QED
      BY <2>1, <2>2, <3>1
  <2>3. CASE q \notin 1 .. Len(a)
    <3> DEFINE z == q - Len(a)
    <3>1. z \in 1 .. r - 1 /\ z \in 1 .. Len(b) /\ Len(a) + z = q
      BY <1>0, <2>1, <2>3
    <3>2. c[q] = b[z]
      <4>1. c[Len(a) + z] = b[z]
        BY <1>0, <3>1
      <4> QED
        BY <3>1, <4>1
    <3> HIDE DEF r, z
    <3> QED
      BY <2>1, <3>1, <3>2 DEF CleanedOnce
  <2> QED
    BY <2>2, <2>3
<1> QED
  BY <1>1, <1>2

LEMMA RawCleanedOnce ==
    ASSUME NEW t \in Ticks, NEW w \in BOOLEAN
    PROVE  CleanedOnce(cleanRawTick(t, w))
<1> DEFINE c1 == Cmd("cleanTransactionLogs", t, {})
           c2 == Cmd("unlink", 0, {tickData(t)})
           c3 == Cmd("unlink", 0, db_insert_tick_vote(t))
<1>1. c2.op = "unlink" /\ c3.op = "unlink"
  BY CmdFields
<1>2. cleanRawTick(t, w) = ((IF w THEN <<c1>> ELSE << >>) \o <<c2>>) \o <<c3>>
  <2>1. Call("cleanTransactionLogs", t) = <<c1>>
    BY DEF Call, Command, Cmd
  <2>2. db_delete_tick_data(t) = <<c2>>
    BY DEF db_delete_tick_data, Unlink, Command, Cmd, tickData
  <2>3. db_delete_tick_vote(t) = <<c3>>
    BY DEF db_delete_tick_vote, Unlink, Command, Cmd
  <2> HIDE DEF c1, c2, c3
  <2> QED
    BY <2>1, <2>2, <2>3 DEF cleanRawTick
<1> HIDE DEF c1, c2, c3
<1> DEFINE X == {c1, c2, c3}
           a == IF w THEN <<c1>> ELSE << >>
           ab == a \o <<c2>>
<1>3. a \in Seq(X) /\ <<c2>> \in Seq(X) /\ <<c3>> \in Seq(X) /\ CleanedOnce(a)
  <2>1. \A x \in X : <<x>> \in Seq(X) /\ Len(<<x>>) = 1
    <3> HIDE DEF X
    <3> QED
      OBVIOUS
  <2>2. << >> \in Seq(X) /\ CleanedOnce(<< >>)
    BY EmptySeq DEF CleanedOnce
  <2>3. CleanedOnce(<<c1>>)
    BY <2>1 DEF CleanedOnce
  <2> QED
    BY <2>1, <2>2, <2>3
<1>4. ASSUME NEW c \in {c2, c3}
      PROVE  CleanedOnce(<<c>>) /\ \A p \in 1 .. Len(<<c>>) : <<c>>[p].op # "cleanTransactionLogs"
  <2>1. \A p \in 1 .. Len(<<c>>) : <<c>>[p] = c /\ c.op = "unlink"
    BY <1>1
  <2> QED
    BY <2>1 DEF CleanedOnce
<1> HIDE DEF X, a
<1>5. ab \in Seq(X) /\ CleanedOnce(ab)
  BY <1>3, <1>4, CleanedOnceJoin, ConcatProperties
<1> HIDE DEF ab
<1>6. CleanedOnce(ab \o <<c3>>)
  BY <1>3, <1>4, <1>5, CleanedOnceJoin
<1> QED
  BY <1>2, <1>6 DEF ab, a

\* What a pass does tick by tick, each time about that tick.
LEMMA PassCleansOnce ==
    ASSUME NEW i \in Int, NEW j \in Int, 2 <= i, i <= j, j <= LastTick, NEW g, NEW d \in Cmds,
           g = [t \in i .. j |-> g[t]], \A t \in i .. j : g[t] \in Seq(BodyOf(t)) /\ CleanedOnce(g[t]),
           d.op # "cleanTransactionLogs"
    PROVE  CleanedOnce(Concat(g) \o <<d>>)
<1> DEFINE T == [t \in i - 1 .. j |-> {a \in Seq(Body(i, t)) : CleanedOnce(a)}]
           Y == Body(i, j)
<1>d. \A t \in i .. j : t \in Ticks /\ t \in Int /\ t \in i - 1 .. j /\ t - 1 \in i - 1 .. j
  BY TicksAre
<1>g. g \in [i .. j -> Seq(Y)]
  <2>1. \A t \in i .. j : g[t] \in Seq(Y)
    BY BodyType
  <2> HIDE DEF Y
  <2> QED
    BY <2>1
<1>1. << >> \in T[i - 1]
  <2>1. << >> \in Seq(Body(i, i - 1)) /\ CleanedOnce(<< >>)
    BY EmptySeq DEF CleanedOnce
  <2>2. i - 1 \in i - 1 .. j
    OBVIOUS
  <2> QED
    BY <2>1, <2>2
<1>2. ASSUME NEW t \in i .. j, NEW a \in T[t - 1] PROVE a \o g[t] \in T[t]
  <2> DEFINE X == Body(i, t)
             c == g[t]
  <2>0. t \in Ticks /\ t \in Int /\ a \in Seq(Body(i, t - 1)) /\ CleanedOnce(a)
    BY <1>2, <1>d
  <2>c. c \in Seq(BodyOf(t)) /\ CleanedOnce(c)
    OBVIOUS
  <2>1. c \in Seq(X)
    <3>1. t \in i .. t
      BY <2>0
    <3> QED
      BY <2>0, <2>c, <3>1, BodyType
  <2>2. a \in Seq(X)
    <3> DEFINE Z == Body(i, t - 1)
    <3>1. \A x \in Z : x \in X
      <4> SUFFICES ASSUME NEW x \in Z PROVE x \in X
        OBVIOUS
      <4>1. PICK u \in i .. t - 1 : x \in BodyOf(u)
        BY DEF Body
      <4>2. u \in i .. t
        BY <2>0
      <4>3. x \in Cmds
        BY DEF Body
      <4> QED
        BY <4>1, <4>2, <4>3 DEF Body
    <3>2. a \in Seq(Z)
      BY <2>0
    <3> HIDE DEF X, Z
    <3> QED
      BY <3>1, <3>2
  <2>3. ASSUME NEW p \in 1 .. Len(c), c[p].op = "cleanTransactionLogs", NEW q \in 1 .. Len(a)
        PROVE  Avoids(a[q], c[p].t)
    <3>1. c[p] \in BodyOf(t)
      <4> DEFINE Z == BodyOf(t)
      <4>1. c \in Seq(Z)
        BY <2>c
      <4> HIDE DEF c, Z
      <4>2. c[p] \in Z
        BY <4>1
      <4> QED
        BY <4>2 DEF Z
    <3>2. c[p].t = t
      BY <2>3, <3>1 DEF BodyOf
    <3>5. t - 1 \in Int
      BY <2>0
    <3>3. PICK u \in i .. t - 1 : a[q] \in BodyOf(u)
      BY <2>0, <3>5, BodySeq
    <3>4. u \in Ticks /\ u # t
      BY <2>0, <1>d, TicksAre
    <3> QED
      BY <2>0, <3>2, <3>3, <3>4, BodyAvoids
  <2> HIDE DEF c, X
  <2>4. CleanedOnce(a \o c)
    BY <2>0, <2>1, <2>2, <2>3, <2>c, CleanedOnceJoin
  <2>5. a \o c \in Seq(X)
    BY <2>1, <2>2, ConcatProperties
  <2> QED
    BY <1>d, <2>4, <2>5 DEF X, c
<1> HIDE DEF T, Y
<1>3. Concat(g) \in T[j]
  BY <1>1, <1>2, <1>g, ConcatUpto
<1> DEFINE b == Concat(g)
           s == <<d>>
<1>4. b \in Seq(Body(i, j)) /\ CleanedOnce(b)
  BY <1>3 DEF T
<1>6. b \in Seq(Cmds)
  BY <1>4, BodySeq
<1>7. s \in Seq(Cmds) /\ Len(s) = 1 /\ s[1] = d
  OBVIOUS
<1> HIDE DEF b, s
<1>8. CleanedOnce(s)
  BY <1>7 DEF CleanedOnce
<1>9. CleanedOnce(b \o s)
  <2>1. \A p \in 1 .. Len(s) : s[p].op # "cleanTransactionLogs"
    BY <1>7
  <2> QED
    BY <1>4, <1>6, <1>7, <1>8, <2>1, CleanedOnceJoin
<1> QED
  BY <1>9 DEF s, b

------------------------------------------------------------------------------
(* Facts stay true *)

Grow ==
    /\ mode' = mode
    /\ saved'.indexed \in 0 .. LastTick /\ saved.indexed <= saved'.indexed
    /\ \A k \in kvrocks : k \in kvrocks'
    /\ \A k \in keydb' : k \in keydb
    /\ \A k \in unsaved : k \in unsaved'
    /\ crashed => crashed'
    /\ \A t \in overtaken : t \in overtaken'
    /\ \A t \in swept : t \in swept'

\* What a tick keeps, by groups of keys.
RawKept(t) == mode.tick = "LastNTick" => Recent(t, gLastNTickStorage) /\ t \notin swept
TxKept(t) ==
    /\ LastNMode(mode) => Recent(t, gLastNTickStorage)
    /\ mode.tick = "Free" /\ mode.tx = "Kvrocks" => Recent(t, gTxTickToLive)
    /\ mode.tx # "Kvrocks" => t \notin swept
RangesKept(t) ==
    /\ LastNMode(mode) => Recent(t, gLastNTickStorage)
    /\ mode.tick = "Free" /\ mode.tx = "Kvrocks" => Recent(t, gTxTickToLive)
    /\ mode.tick = "LastNTick" => t \notin swept

LEMMA KeptIs ==
    ASSUME NEW t \in Ticks, NEW k
    PROVE  k \in Kept(t) <=> \/ RawKept(t) /\ k \in Raw[t]
                             \/ RangesKept(t) /\ k \in LogRangeKeys[t]
                             \/ TxKept(t) /\ k \in Executed[t]
<1>1. /\ k \in Raw[t] => k \notin LogRangeKeys[t] /\ k \notin Executed[t]
      /\ k \in LogRangeKeys[t] => k \notin Executed[t]
  BY GroupsAreDisjoint
<1>2. mode.tick = "Kvrocks" => ~LastNMode(mode)
  BY DEF LastNMode
<1>3. k \in Promised(t) <=> \/ k \in Raw[t] /\ (mode.tick = "LastNTick" => Recent(t, gLastNTickStorage))
                            \/ k \in LogRangeKeys[t] /\ (LastNMode(mode) => Recent(t, gLastNTickStorage))
                            \/ k \in Executed[t] /\ (LastNMode(mode) => Recent(t, gLastNTickStorage))
  BY <1>2 DEF Promised, LastNMode
<1>4. k \in Dropped(t) <=> \/ t \in swept /\ mode.tick = "LastNTick" /\ (k \in Raw[t] \/ k \in LogRangeKeys[t])
                           \/ t \in swept /\ mode.tx # "Kvrocks" /\ k \in Executed[t]
                           \/ /\ mode.tick = "Free" /\ mode.tx = "Kvrocks" /\ ~Recent(t, gTxTickToLive)
                              /\ (k \in LogRangeKeys[t] \/ k \in Executed[t])
  BY DEF Dropped
<1>5. k \in Kept(t) <=> k \in Promised(t) /\ k \notin Dropped(t)
  BY DEF Kept
<1>6. CASE k \in Raw[t]
  BY <1>1, <1>3, <1>4, <1>5, <1>6 DEF RawKept
<1>7. CASE k \in LogRangeKeys[t]
  BY <1>1, <1>3, <1>4, <1>5, <1>7 DEF RangesKept
<1>8. CASE k \in Executed[t]
  BY <1>1, <1>3, <1>4, <1>5, <1>8 DEF TxKept
<1> QED
  BY <1>3, <1>5, <1>6, <1>7, <1>8

LEMMA KeptShrinks ==
    ASSUME saved.indexed \in 0 .. LastTick, Grow, NEW t \in Ticks
    PROVE  \A k \in Kept(t)' : k \in Kept(t)
<1>0. LastTick \in Nat /\ t \in Int /\ gLastNTickStorage \in Nat /\ gTxTickToLive \in Nat
  BY TicksAre, StoreAssumption
<1>1. (t \in swept => t \in swept') /\ mode' = mode
  BY DEF Grow
<1>2. (Recent(t, gLastNTickStorage)' => Recent(t, gLastNTickStorage)) /\ (Recent(t, gTxTickToLive)' => Recent(t, gTxTickToLive))
  BY <1>0 DEF Grow, Recent
<1>3. \A k \in Promised(t)' : k \in Promised(t)
  BY <1>1, <1>2 DEF Promised
<1>4. \A k \in Dropped(t) : k \in Dropped(t)'
  BY <1>1, <1>2 DEF Dropped
<1> QED
  BY <1>3, <1>4 DEF Kept

LEMMA SafeStays ==
    ASSUME saved.indexed \in 0 .. LastTick, Grow, NEW t \in Ticks, NEW k, Safe(t, k)
    PROVE  Safe(t, k)'
<1>1. k \in Kept(t)' => k \in Kept(t)
  BY KeptShrinks
<1>2. k \in Excused(t) => k \in Excused(t)'
  BY DEF Excused, Grow
<1>3. (k \in kvrocks => k \in kvrocks') /\ (k \in unsaved => k \in unsaved')
  BY DEF Grow
<1> QED
  BY <1>1, <1>2, <1>3 DEF Safe

LEMMA ExemptStays ==
    ASSUME Grow, NEW t \in Ticks, Exempt(t)
    PROVE  Exempt(t)'
<1>1. mode' = mode /\ (\A k \in unsaved : k \in unsaved') /\ (crashed => crashed') /\ (t \in overtaken => t \in overtaken')
  BY DEF Grow
<1>2. LastNMode(mode)' <=> LastNMode(mode)
  BY <1>1 DEF LastNMode
<1>3. unsaved \cap (TickKeys[t] \cup {vtick(t)}) # {} => unsaved' \cap (TickKeys[t] \cup {vtick(t)}) # {}
  BY <1>1
<1> QED
  BY <1>1, <1>2, <1>3 DEF Exempt

LEMMA FactsStay ==
    ASSUME saved.indexed \in 0 .. LastTick, Grow
    PROVE  More(Facts, Facts')
<1> SUFFICES ASSUME NEW kind \in Kinds, NEW t \in Ticks, NEW k \in Keys, k \in Facts[kind][t]
             PROVE  k \in Facts'[kind][t]
  BY DEF More
<1>1. Fact(kind, t, k)
  BY FactsHave
<1>2. Fact(kind, t, k)'
  <2>1. kind = "old" => t <= saved'.indexed
    BY <1>1, TicksAre DEF Fact, Grow
  <2>2. (kind = "safe" => Safe(t, k)') /\ (kind = "found" => Safe(t, k)' \/ t \in overtaken')
    BY <1>1, SafeStays DEF Fact, Grow
  <2>3. kind = "raw" => k \notin keydb'
    BY <1>1 DEF Fact, Grow
  <2>4. kind = "gone" => k \notin keydb' \/ Exempt(t)'
    BY <1>1, ExemptStays DEF Fact, Grow
  <2> QED
    BY <2>1, <2>2, <2>3, <2>4 DEF Fact
<1>3. Facts'[kind][t] = {x \in Keys : Fact(kind, t, x)'}
  BY DEF Facts
<1> QED
  BY <1>2, <1>3

LEMMA FactsHaveNext ==
    ASSUME NEW kind \in Kinds, NEW t \in Ticks, NEW k \in Keys
    PROVE  k \in Facts'[kind][t] <=> Fact(kind, t, k)'
<1>1. Facts'[kind][t] = {x \in Keys : Fact(kind, t, x)'}
  BY DEF Facts
<1> QED
  BY <1>1

LEMMA GoneStays ==
    ASSUME CleanedTicksAreGone, Grow, saved'.tick = saved.tick, saved'.tx = saved.tx
    PROVE  CleanedTicksAreGone'
<1> SUFFICES ASSUME NEW t \in gInitialTick + 1 .. LastTick
             PROVE  /\ t <= saved'.tick => Raw[t] \cap keydb' = {}
                    /\ t <= saved'.tick /\ mode'.tick = "LastNTick" /\ mode'.tx = "LastNTick"
                       /\ t \notin Empty /\ ~crashed' => TxKeys(t) \cap keydb' = {}
                    /\ t <= saved'.tx /\ mode'.tick = "Kvrocks" /\ (t \in overtaken' => ~crashed' /\ t \notin Empty)
                       /\ unsaved' \cap (TickKeys[t] \cup {<<"vtick", t, 0>>}) = {} => TxKeys(t) \cap keydb' = {}
  BY DEF CleanedTicksAreGone
<1>1. /\ t <= saved.tick => Raw[t] \cap keydb = {}
      /\ t <= saved.tick /\ mode.tick = "LastNTick" /\ mode.tx = "LastNTick"
         /\ t \notin Empty /\ ~crashed => TxKeys(t) \cap keydb = {}
      /\ t <= saved.tx /\ mode.tick = "Kvrocks" /\ (t \in overtaken => ~crashed /\ t \notin Empty)
         /\ unsaved \cap (TickKeys[t] \cup {<<"vtick", t, 0>>}) = {} => TxKeys(t) \cap keydb = {}
  BY DEF CleanedTicksAreGone
<1>2. /\ Raw[t] \cap keydb = {} => Raw[t] \cap keydb' = {}
      /\ TxKeys(t) \cap keydb = {} => TxKeys(t) \cap keydb' = {}
      /\ unsaved' \cap (TickKeys[t] \cup {<<"vtick", t, 0>>}) = {} => unsaved \cap (TickKeys[t] \cup {<<"vtick", t, 0>>}) = {}
  BY DEF Grow
<1>3. mode' = mode /\ (~crashed' => ~crashed) /\ (t \in overtaken => t \in overtaken')
  BY DEF Grow
<1> QED
  BY <1>1, <1>2, <1>3

\* Deleting keys that are safe to delete loses nothing.
LEMMA RetainedStays ==
    ASSUME RetainedDataIsStored, saved.indexed \in 0 .. LastTick, Grow, saved'.indexed = saved.indexed,
           \A t \in Ticks : \A k \in TickKeys[t] : k \in keydb /\ k \notin keydb' => Safe(t, k)'
    PROVE  RetainedDataIsStored'
<1> SUFFICES ASSUME NEW t \in gInitialTick .. saved'.indexed, NEW k \in Kept(t)'
             PROVE  k \in keydb' \/ k \in kvrocks' \/ k \in Excused(t)'
  BY DEF RetainedDataIsStored
<1>0. t \in Ticks /\ t \in gInitialTick .. saved.indexed
  BY TicksAre DEF gInitialTick
<1>1. k \in Kept(t)
  BY <1>0, KeptShrinks
<1>2. k \in TickKeys[t]
  BY <1>0, <1>1, KeptIs, TickKeysHas
<1>3. k \in keydb \/ k \in kvrocks \/ k \in Excused(t)
  BY <1>0, <1>1 DEF RetainedDataIsStored
<1>4. (k \in kvrocks => k \in kvrocks') /\ (k \in Excused(t) => k \in Excused(t)')
  BY DEF Excused, Grow
<1>5. CASE k \in keydb /\ k \notin keydb'
  BY <1>0, <1>2, <1>5 DEF Safe
<1> QED
  BY <1>3, <1>4, <1>5

LEMMA WholeStays ==
    ASSUME WholeIsSafe, saved.indexed \in 0 .. LastTick, Grow,
           mode.tick = "Kvrocks" =>
               \A t \in Ticks : \A x \in Raw[t] : x \in keydb /\ x \notin keydb' => \A k \in Whole(t) : Safe(t, k)
    PROVE  WholeIsSafe'
<1> SUFFICES ASSUME mode'.tick = "Kvrocks", NEW t \in Ticks, NEW x \in Raw[t], x \notin keydb', NEW k \in Whole(t)
             PROVE  Safe(t, k)'
  BY DEF WholeIsSafe
<1>1. mode.tick = "Kvrocks"
  BY DEF Grow
<1>2. CASE x \in keydb
  BY <1>1, <1>2, SafeStays
<1>3. CASE x \notin keydb
  <2>1. Safe(t, k)
    BY <1>1, <1>3 DEF WholeIsSafe
  <2> QED
    BY <2>1, SafeStays
<1> QED
  BY <1>2, <1>3

------------------------------------------------------------------------------
(* The agenda goes on *)

LEMMA NewAgenda ==
    ASSUME NEW X, NEW a \in Seq(X), a # << >>, NEW todo \in Seq(X), NEW c, c = todo \o Tail(a)
    PROVE  /\ c \in Seq(X) /\ Len(a) \in Nat /\ Len(todo) \in Nat /\ Len(a) >= 1 /\ Head(a) = a[1]
           /\ Len(c) = Len(todo) + Len(a) - 1
           /\ \A p \in 1 .. Len(todo) : c[p] = todo[p]
           /\ \A p \in 2 .. Len(a) : Len(todo) + p - 1 \in 1 .. Len(c) /\ c[Len(todo) + p - 1] = a[p]
           /\ \A p \in 1 .. Len(c) : p \notin 1 .. Len(todo) =>
                  p - Len(todo) + 1 \in 2 .. Len(a) /\ c[p] = a[p - Len(todo) + 1]
<1> DEFINE b == Tail(a)
<1>0. /\ Len(a) \in Nat /\ Len(a) >= 1 /\ b \in Seq(X) /\ Len(b) = Len(a) - 1 /\ Head(a) = a[1]
      /\ \A i \in 1 .. Len(b) : b[i] = a[i + 1]
  BY EmptySeq, HeadTailProperties
<1>1. c = todo \o b
  OBVIOUS
<1> HIDE DEF b
<1>2. /\ c \in Seq(X) /\ Len(todo) \in Nat /\ Len(c) = Len(todo) + Len(b)
      /\ \A i \in 1 .. Len(todo) : c[i] = todo[i]
      /\ \A i \in 1 .. Len(b) : c[Len(todo) + i] = b[i]
  BY <1>0, <1>1, ConcatProperties
<1>3. ASSUME NEW p \in 2 .. Len(a)
      PROVE  Len(todo) + p - 1 \in 1 .. Len(c) /\ c[Len(todo) + p - 1] = a[p]
  <2> DEFINE i == p - 1
  <2>1. i \in 1 .. Len(b) /\ i + 1 = p /\ Len(todo) + p - 1 = Len(todo) + i /\ Len(todo) + i \in 1 .. Len(c)
    BY <1>0, <1>2
  <2> HIDE DEF i
  <2>2. c[Len(todo) + i] = b[i] /\ b[i] = a[i + 1]
    BY <1>0, <1>2, <2>1
  <2> QED
    BY <2>1, <2>2
<1>4. ASSUME NEW p \in 1 .. Len(c), p \notin 1 .. Len(todo)
      PROVE  p - Len(todo) + 1 \in 2 .. Len(a) /\ c[p] = a[p - Len(todo) + 1]
  <2> DEFINE r == p - Len(todo) + 1
  <2>1. r \in 2 .. Len(a) /\ Len(todo) + r - 1 = p
    BY <1>0, <1>2, <1>4
  <2> HIDE DEF r
  <2>2. c[p] = a[r]
    BY <1>3, <2>1
  <2> QED
    BY <2>1, <2>2 DEF r
<1>5. Len(c) = Len(todo) + Len(a) - 1
  BY <1>0, <1>2
<1> QED
  BY <1>0, <1>2, <1>3, <1>4, <1>5

LEMMA AgendaContinues ==
    ASSUME gc.agenda \in Seq(Cmds), gc.agenda # << >>, SaveIsLast, Intact,
           NEW todo \in Seq(Cmds), gc'.agenda = todo \o Tail(gc.agenda), saved' = saved,
           Next1.op \notin {"saveTick", "saveTx"},
           \A p \in 1 .. Len(todo) : todo[p].op \notin {"saveTick", "saveTx", "cleanTransactionLogs"},
           \A t \in Ticks : Avoids(Next1, t) => \A p \in 1 .. Len(todo) : Avoids(todo[p], t),
           \A t \in Ticks : Avoids(Next1, t) /\ TickKeys[t] \subseteq keydb => TickKeys[t] \subseteq keydb',
           Grow, UNCHANGED <<crashed, overtaken>>
    PROVE  /\ gc'.agenda \in Seq(Cmds)
           /\ SaveIsLast' /\ Intact'
<1> DEFINE a == gc.agenda
           c == gc'.agenda
           n == Len(todo)
<1>0. /\ c \in Seq(Cmds) /\ Len(a) \in Nat /\ n \in Nat /\ Len(a) >= 1 /\ Next1 = a[1]
      /\ Len(c) = n + Len(a) - 1
      /\ \A p \in 1 .. n : c[p] = todo[p]
      /\ \A p \in 2 .. Len(a) : n + p - 1 \in 1 .. Len(c) /\ c[n + p - 1] = a[p]
      /\ \A p \in 1 .. Len(c) : p \notin 1 .. n => p - n + 1 \in 2 .. Len(a) /\ c[p] = a[p - n + 1]
  BY NewAgenda DEF Next1
<1>x. a = gc.agenda /\ c = gc'.agenda
  OBVIOUS
<1>m. mode' = mode /\ (LastNMode(mode)' <=> LastNMode(mode)) /\ (KvrocksMode(mode)' <=> KvrocksMode(mode))
  BY DEF Grow, LastNMode, KvrocksMode
<1>y. \A p \in 1 .. n : todo[p].op \notin {"saveTick", "saveTx", "cleanTransactionLogs"}
  OBVIOUS
<1>z. \A t \in Ticks : Avoids(Next1, t) => \A p \in 1 .. n : Avoids(todo[p], t)
  OBVIOUS
<1> HIDE DEF a, c, n
<1>1. SaveIsLast'
  <2> SUFFICES ASSUME NEW p \in 1 .. Len(c), c[p].op \in {"saveTick", "saveTx"}
               PROVE  /\ p = Len(c)
                      /\ c[p].op = "saveTick" => saved.tick <= c[p].t
                      /\ c[p].op = "saveTx" => saved.tx <= c[p].t
    BY <1>x DEF SaveIsLast
  <2>1. p \notin 1 .. n
    BY <1>0, <1>y
  <2> DEFINE r == p - n + 1
  <2>2. r \in 2 .. Len(a) /\ c[p] = a[r]
    BY <1>0, <2>1
  <2>3. r = Len(a) /\ (a[r].op = "saveTick" => saved.tick <= a[r].t) /\ (a[r].op = "saveTx" => saved.tx <= a[r].t)
    <3> HIDE DEF r
    <3>1. r \in 1 .. Len(a) /\ a[r].op \in {"saveTick", "saveTx"}
      BY <1>0, <2>2
    <3> QED
      BY <1>x, <3>1 DEF SaveIsLast
  <2>4. p = Len(c)
    BY <1>0, <2>2, <2>3
  <2> QED
    BY <2>2, <2>3, <2>4
<1>2. ASSUME NEW t \in Ticks
      PROVE  (Reached(t)' <=> Reached(t)) /\ (TxReached(t)' <=> TxReached(t)) /\ (Claimed(t)' <=> Claimed(t))
  <2>1. ASSUME NEW op \in {"saveTick", "saveTx"}, NEW p \in 1 .. Len(a), a[p].op = op, t <= a[p].t
        PROVE  \E q \in 1 .. Len(c) : c[q].op = op /\ t <= c[q].t
    <3>1. p \in 2 .. Len(a)
      BY <1>0, <2>1
    <3> QED
      BY <1>0, <2>1, <3>1
  <2>2. ASSUME NEW op \in {"saveTick", "saveTx"}, NEW p \in 1 .. Len(c), c[p].op = op, t <= c[p].t
        PROVE  \E q \in 1 .. Len(a) : a[q].op = op /\ t <= a[q].t
    <3>1. p \notin 1 .. n
      BY <1>0, <1>y, <2>2
    <3> DEFINE r == p - n + 1
    <3>2. r \in 2 .. Len(a) /\ c[p] = a[r]
      BY <1>0, <3>1
    <3> HIDE DEF r
    <3>3. r \in 1 .. Len(a)
      BY <1>0, <3>2
    <3> QED
      BY <2>2, <3>2, <3>3
  <2>3. /\ Reached(t) <=> t <= saved.tick \/ \E p \in 1 .. Len(a) : a[p].op = "saveTick" /\ t <= a[p].t
        /\ TxReached(t) <=> t <= saved.tx \/ \E p \in 1 .. Len(a) : a[p].op = "saveTx" /\ t <= a[p].t
    BY <1>x DEF Reached, TxReached
  <2>4. /\ Reached(t)' <=> t <= saved.tick \/ \E p \in 1 .. Len(c) : c[p].op = "saveTick" /\ t <= c[p].t
        /\ TxReached(t)' <=> t <= saved.tx \/ \E p \in 1 .. Len(c) : c[p].op = "saveTx" /\ t <= c[p].t
    BY <1>x DEF Reached, TxReached
  <2>5. (Reached(t)' <=> Reached(t)) /\ (TxReached(t)' <=> TxReached(t))
    BY <2>1, <2>2, <2>3, <2>4
  <2> QED
    BY <1>m, <2>5 DEF Claimed
<1>g. ASSUME NEW t \in Ticks PROVE (Gone(t) => Gone(t)') /\ (Cleans(t)' <=> Cleans(t))
  <2>1. Exempt(t) => Exempt(t)'
    BY ExemptStays
  <2>2. \A k \in keydb' : k \in keydb
    BY DEF Grow
  <2>3. Gone(t) => Gone(t)'
    BY <2>1, <2>2 DEF Gone
  <2>4. Cleans(t)' <=> Cleans(t)
    BY <1>m DEF Cleans
  <2> QED
    BY <2>3, <2>4
<1>3. Intact'
  <2> SUFFICES ASSUME LastNMode(mode) \/ KvrocksMode(mode), ~crashed
               PROVE  /\ CleanedOnce(c)
                      /\ \A t \in Ticks : \A p \in 1 .. Len(c) :
                             c[p].op = "cleanTransactionLogs" /\ c[p].t = t /\ Cleans(t)' =>
                                 TickKeys[t] \subseteq keydb' \/ (KvrocksMode(mode) /\ Gone(t)')
                      /\ \A t \in Ticks : ~Claimed(t)' =>
                             /\ TickKeys[t] \subseteq keydb'
                             /\ \A p \in 1 .. Len(c) : Avoids(c[p], t)
                      /\ \A t \in Ticks : t \in overtaken => KvrocksMode(mode) /\ TxReached(t)'
    BY <1>m, <1>x DEF Intact
  <2>1. /\ CleanedOnce(a)
        /\ \A t \in Ticks : \A p \in 1 .. Len(a) :
               a[p].op = "cleanTransactionLogs" /\ a[p].t = t /\ Cleans(t) =>
                   TickKeys[t] \subseteq keydb \/ (KvrocksMode(mode) /\ Gone(t))
        /\ \A t \in Ticks : ~Claimed(t) =>
               /\ TickKeys[t] \subseteq keydb
               /\ \A p \in 1 .. Len(a) : Avoids(a[p], t)
        /\ \A t \in Ticks : t \in overtaken => KvrocksMode(mode) /\ TxReached(t)
    BY <1>x DEF Intact
  <2>t. \A p \in 1 .. Len(a) : a[p].op = "cleanTransactionLogs" => a[p].t \in Ticks
    <3> SUFFICES ASSUME NEW p \in 1 .. Len(a), a[p].op = "cleanTransactionLogs" PROVE a[p].t \in Ticks
      OBVIOUS
    <3>1. a[p] \in Cmds
      BY <1>x
    <3> QED
      BY <3>1 DEF Cmds
  <2>2. ASSUME NEW p \in 2 .. Len(a), a[p].op = "cleanTransactionLogs"
        PROVE  /\ \A q \in 1 .. p - 1 : Avoids(a[q], a[p].t)
               /\ \A q \in 1 .. n : Avoids(todo[q], a[p].t)
               /\ \A t \in Ticks : a[p].t = t /\ Cleans(t)' => TickKeys[t] \subseteq keydb' \/ (KvrocksMode(mode) /\ Gone(t)')
    <3>0. p \in 1 .. Len(a) /\ 1 \in 1 .. p - 1
      BY <1>0
    <3>1. \A q \in 1 .. p - 1 : Avoids(a[q], a[p].t)
      BY <2>1, <2>2, <3>0 DEF CleanedOnce
    <3>2. Avoids(Next1, a[p].t) /\ a[p].t \in Ticks
      BY <1>0, <2>2, <2>t, <3>0, <3>1
    <3>7. ASSUME NEW t \in Ticks, a[p].t = t, Cleans(t)'
          PROVE  TickKeys[t] \subseteq keydb' \/ (KvrocksMode(mode) /\ Gone(t)')
      <4>1. TickKeys[t] \subseteq keydb \/ (KvrocksMode(mode) /\ Gone(t))
        BY <1>g, <2>1, <2>2, <3>0, <3>7
      <4>2. TickKeys[t] \subseteq keydb => TickKeys[t] \subseteq keydb'
        BY <3>2, <3>7
      <4> QED
        BY <1>g, <4>1, <4>2
    <3> QED
      BY <1>z, <3>1, <3>2, <3>7
  <2>3. ASSUME NEW p \in 1 .. Len(c), c[p].op = "cleanTransactionLogs"
        PROVE  /\ \A q \in 1 .. p - 1 : Avoids(c[q], c[p].t)
               /\ \A t \in Ticks : c[p].t = t /\ Cleans(t)' => TickKeys[t] \subseteq keydb' \/ (KvrocksMode(mode) /\ Gone(t)')
    <3>1. p \notin 1 .. n
      BY <1>0, <1>y, <2>3
    <3> DEFINE r == p - n + 1
    <3>2. r \in 2 .. Len(a) /\ c[p] = a[r] /\ a[r].op = "cleanTransactionLogs"
      BY <1>0, <2>3, <3>1
    <3>3. ASSUME NEW q \in 1 .. p - 1 PROVE Avoids(c[q], c[p].t)
      <4>1. CASE q \in 1 .. n
        <5>1. c[q] = todo[q]
          BY <1>0, <4>1
        <5> HIDE DEF r
        <5> QED
          BY <2>2, <3>2, <4>1, <5>1
      <4>2. CASE q \notin 1 .. n
        <5> DEFINE u == q - n + 1
        <5>0. q \in 1 .. Len(c)
          BY <1>0
        <5>1. u \in 2 .. Len(a) /\ c[q] = a[u]
          BY <1>0, <4>2, <5>0
        <5>2. u \in 1 .. r - 1
          BY <1>0, <5>1
        <5> HIDE DEF r, u
        <5> QED
          BY <2>2, <3>2, <5>1, <5>2
      <4> QED
        BY <4>1, <4>2
    <3> HIDE DEF r
    <3> QED
      BY <2>2, <3>2, <3>3
  <2>4. ASSUME NEW t \in Ticks, ~Claimed(t)'
        PROVE  TickKeys[t] \subseteq keydb' /\ \A p \in 1 .. Len(c) : Avoids(c[p], t)
    <3>1. TickKeys[t] \subseteq keydb /\ \A p \in 1 .. Len(a) : Avoids(a[p], t)
      BY <1>2, <2>1, <2>4
    <3>2. Avoids(Next1, t)
      BY <1>0, <3>1
    <3>3. ASSUME NEW p \in 1 .. Len(c) PROVE Avoids(c[p], t)
      <4>1. CASE p \in 1 .. n
        BY <1>0, <1>z, <3>2, <4>1
      <4>2. CASE p \notin 1 .. n
        <5> DEFINE r == p - n + 1
        <5>1. r \in 2 .. Len(a) /\ c[p] = a[r]
          BY <1>0, <4>2
        <5> HIDE DEF r
        <5>2. r \in 1 .. Len(a)
          BY <1>0, <5>1
        <5> QED
          BY <3>1, <5>1, <5>2
      <4> QED
        BY <4>1, <4>2
    <3> QED
      BY <3>1, <3>2, <3>3
  <2>5. \A t \in Ticks : t \in overtaken => KvrocksMode(mode) /\ TxReached(t)'
    BY <1>2, <2>1
  <2> QED
    BY <2>3, <2>4, <2>5 DEF CleanedOnce
<1> QED
  BY <1>0, <1>1, <1>3, <1>x

\* The cleaner executes a command, or enters a function.
LEMMA CommandStep ==
    ASSUME StoreInv, gc.agenda # << >>, NEW todo \in Seq(Cmds), gc' = Continue(todo),
           Next1.op \notin {"saveTick", "saveTx"},
           \A p \in 1 .. Len(todo) : todo[p].op \notin {"saveTick", "saveTx", "cleanTransactionLogs"},
           \A t \in Ticks : Avoids(Next1, t) => \A p \in 1 .. Len(todo) : Avoids(todo[p], t),
           Grow, saved' = saved, UNCHANGED process, UNCHANGED <<crashed, overtaken>>,
           keydb' \subseteq keydb,
           \A t \in Ticks : \A k \in TickKeys[t] : k \in keydb /\ k \notin keydb' =>
               /\ ~Avoids(Next1, t) /\ Safe(t, k) /\ t <= saved.indexed
               /\ k \in db_insert_tick_vote(t) => tickData(t) \notin keydb
               /\ mode.tick = "Kvrocks" /\ k \in Raw[t] => \A x \in Whole(t) : Safe(t, x),
           Sound(mode, todo, Facts'),
           \A kind \in Kinds : \A t \in Ticks : \A k \in Keys :
               Ensures(mode, Next1, kind, t, k) => k \in After(mode, todo, Facts')[kind][t]
    PROVE  StoreInv'
<1>0. /\ StoreTypes /\ Cursors /\ Untouched /\ VotesStay /\ WholeIsSafe
      /\ RetainedDataIsStored /\ CleanedTicksAreGone
      /\ AgendaIsSound /\ SaveIsLast /\ Intact
  BY DEF StoreInv
<1>1. /\ gc \in [pc : {"off", "tick", "tx", "end", "exited"}, tick : Int, tx : Int, agenda : Seq(Cmds)]
      /\ saved \in [indexed : 0 .. LastTick, tick : Int, tx : Int]
  BY <1>0 DEF StoreTypes
<1>2. /\ gc'.agenda = todo \o Tail(gc.agenda) /\ gc'.tick = gc.tick /\ gc'.tx = gc.tx
      /\ gc'.pc = gc.pc
  BY <1>1 DEF Continue
<1>3. gc.agenda \in Seq(Cmds) /\ gc.tick \in Int /\ saved.indexed \in 0 .. LastTick /\ mode' = mode
  BY <1>1 DEF Grow
<1>4. \A t \in Ticks : Avoids(Next1, t) /\ TickKeys[t] \subseteq keydb => TickKeys[t] \subseteq keydb'
  OBVIOUS
<1>5. gc'.agenda \in Seq(Cmds) /\ SaveIsLast' /\ Intact'
  BY <1>0, <1>2, <1>3, <1>4, AgendaContinues
<1>p. UNCHANGED <<gCurrentIndexingTick, filed, running, kvOn, gIsEndEpoch, stopFlag>>
  BY DEF process
<1>6. StoreTypes'
  <2>1. gc' \in [pc : {"off", "tick", "tx", "end", "exited"}, tick : Int, tx : Int, agenda : Seq(Cmds)]
    <3> DEFINE d == todo \o Tail(gc.agenda)
    <3>1. d \in Seq(Cmds) /\ gc' = [gc EXCEPT !.agenda = d]
      BY <1>2, <1>5 DEF Continue
    <3> HIDE DEF d
    <3> QED
      BY <1>1, <3>1
  <2> QED
    BY <1>0, <1>3, <1>p, <2>1 DEF StoreTypes
<1>7. Cursors'
  <2>1. running
    <3>1. gc # CleanerOff
      BY DEF CleanerOff
    <3> QED
      BY <1>0, <3>1 DEF Cursors
  <2> QED
    BY <1>0, <1>2, <1>3, <1>p, <2>1 DEF Cursors
<1>8. Untouched'
  <2> SUFFICES ASSUME NEW t \in Ticks, t > saved.indexed, NEW k \in TickKeys[t]
               PROVE  k \in keydb'
    BY DEF Untouched
  <2>1. k \in keydb
    BY <1>0 DEF Untouched
  <2>2. saved.indexed \in Int /\ t \in Int /\ ~(t <= saved.indexed)
    BY <1>3, TicksAre
  <2> QED
    BY <2>1, <2>2
<1>9. VotesStay'
  <2> SUFFICES ASSUME NEW t \in Ticks, tickData(t) \in keydb', NEW k \in db_insert_tick_vote(t)
               PROVE  k \in keydb'
    BY DEF VotesStay
  <2>1. tickData(t) \in keydb /\ k \in keydb
    BY <1>0 DEF VotesStay
  <2>2. k \in TickKeys[t]
    BY TheVotes, TickKeysHas
  <2> QED
    BY <2>1, <2>2
<1>10. WholeIsSafe'
  <2>1. mode.tick = "Kvrocks" =>
            \A t \in Ticks : \A x \in Raw[t] : x \in keydb /\ x \notin keydb' => \A k \in Whole(t) : Safe(t, k)
    BY TickKeysHas
  <2> QED
    BY <1>0, <1>3, <2>1, WholeStays
<1>11. RetainedDataIsStored'
  <2>1. \A t \in Ticks : \A k \in TickKeys[t] : k \in keydb /\ k \notin keydb' => Safe(t, k)'
    BY <1>3, SafeStays
  <2> QED
    BY <1>0, <1>3, <2>1, RetainedStays
<1>12. CleanedTicksAreGone'
  BY <1>0, GoneStays
<1>13. AgendaIsSound'
  <2>1. More(Facts, Facts')
    BY <1>3, FactsStay
  <2>2. Sound(mode, gc.agenda, Facts)
    BY <1>0 DEF AgendaIsSound
  <2> DEFINE F == Facts
             G == Facts'
  <2>3. /\ Sound(mode, gc.agenda, F) /\ Sound(mode, todo, G) /\ More(F, G)
        /\ \A kind \in Kinds : \A t \in Ticks : \A k \in Keys :
               Ensures(mode, Head(gc.agenda), kind, t, k) => k \in After(mode, todo, G)[kind][t]
    BY <2>1, <2>2 DEF Next1
  <2> HIDE DEF F, G
  <2>4. Sound(mode, todo \o Tail(gc.agenda), G)
    BY <1>3, <2>3, SoundStep
  <2> QED
    BY <1>2, <1>3, <2>4 DEF G, AgendaIsSound
<1> QED
  BY <1>5, <1>6, <1>7, <1>8, <1>9, <1>10, <1>11, <1>12, <1>13 DEF StoreInv

------------------------------------------------------------------------------
(* The commands *)

LEMMA NextCommand ==
    ASSUME StoreInv, gc.agenda # << >>
    PROVE  /\ Next1 \in Cmds
           /\ running /\ kvOn = (mode.tick = "Kvrocks") /\ mode \in ValidModes
           /\ saved.indexed \in 0 .. LastTick
           /\ \A kind \in Kinds : \A t \in Ticks : \A k \in Keys :
                  Requires(mode, Next1, kind, t, k) => Fact(kind, t, k)
<1>0. StoreTypes /\ Cursors /\ AgendaIsSound
  BY DEF StoreInv
<1>1. gc.agenda \in Seq(Cmds) /\ mode \in ValidModes /\ saved.indexed \in 0 .. LastTick
  BY <1>0 DEF StoreTypes
<1>2. Len(gc.agenda) \in Nat /\ Len(gc.agenda) >= 1 /\ Next1 = gc.agenda[1] /\ Next1 \in Cmds
  BY <1>1, EmptySeq, HeadTailProperties DEF Next1
<1>3. running
  <2>1. gc # CleanerOff
    BY DEF CleanerOff
  <2> QED
    BY <1>0, <2>1 DEF Cursors
<1>4. kvOn = (mode.tick = "Kvrocks")
  BY <1>0, <1>3 DEF Cursors
<1>5. ASSUME NEW kind \in Kinds, NEW t \in Ticks, NEW k \in Keys, Requires(mode, Next1, kind, t, k)
      PROVE  Fact(kind, t, k)
  <2>1. 1 \in 1 .. Len(gc.agenda) /\ 1 .. 1 - 1 = {}
    BY <1>2
  <2>2. k \in Facts[kind][t]
    BY <1>0, <1>2, <1>5, <2>1 DEF AgendaIsSound, Sound
  <2> QED
    BY <2>2, FactsHave
<1> QED
  BY <1>1, <1>2, <1>3, <1>4, <1>5

\* A step that leaves KeyDB alone.
LEMMA CommandElsewhere ==
    ASSUME StoreInv, gc.agenda # << >>, NEW todo \in Seq(Cmds), gc' = Continue(todo),
           Next1.op \notin {"saveTick", "saveTx"},
           \A p \in 1 .. Len(todo) : todo[p].op \notin {"saveTick", "saveTx", "cleanTransactionLogs"},
           \A t \in Ticks : Avoids(Next1, t) => \A p \in 1 .. Len(todo) : Avoids(todo[p], t),
           UNCHANGED <<mode, keydb, saved, process, crashed, overtaken, swept>>,
           \A k \in kvrocks : k \in kvrocks', \A k \in unsaved : k \in unsaved',
           Sound(mode, todo, Facts'),
           \A kind \in Kinds : \A t \in Ticks : \A k \in Keys :
               Ensures(mode, Next1, kind, t, k) => k \in After(mode, todo, Facts')[kind][t]
    PROVE  StoreInv'
<1>1. saved.indexed \in 0 .. LastTick
  BY NextCommand
<1>2. Grow
  BY <1>1 DEF Grow
<1>3. UNCHANGED process /\ UNCHANGED <<crashed, overtaken>>
  OBVIOUS
<1>4. keydb' = keydb /\ keydb' \subseteq keydb
  OBVIOUS
<1>5. \A t \in Ticks : \A k \in TickKeys[t] : k \in keydb /\ k \notin keydb' =>
               /\ ~Avoids(Next1, t) /\ Safe(t, k) /\ t <= saved.indexed
               /\ k \in db_insert_tick_vote(t) => tickData(t) \notin keydb
               /\ mode.tick = "Kvrocks" /\ k \in Raw[t] => \A x \in Whole(t) : Safe(t, x)
  BY <1>4
<1> QED
  BY <1>2, <1>3, <1>4, <1>5, CommandStep

\* The same for one that is done then.
LEMMA CommandDone ==
    ASSUME StoreInv, gc.agenda # << >>, gc' = Continue(<< >>), Next1.op \notin {"saveTick", "saveTx"},
           UNCHANGED <<mode, keydb, saved, process, crashed, overtaken, swept>>,
           \A k \in kvrocks : k \in kvrocks', \A k \in unsaved : k \in unsaved',
           \A kind \in Kinds : \A t \in Ticks : \A k \in Keys :
               Ensures(mode, Next1, kind, t, k) => Fact(kind, t, k)'
    PROVE  StoreInv'
<1> DEFINE todo == << >>
           G == Facts'
<1>1. todo \in Seq(Cmds) /\ Len(todo) = 0 /\ 1 .. Len(todo) = {} /\ gc' = Continue(todo)
  BY EmptySeq
<1>2. \A kind \in Kinds : \A t \in Ticks : \A k \in Keys :
          Ensures(mode, Next1, kind, t, k) => k \in G[kind][t]
  BY Zenon, FactsHaveNext
<1>3. Sound(mode, todo, G)
  <2> HIDE DEF G
  <2> QED
    BY SoundEmpty
<1>4. \A kind \in Kinds : \A t \in Ticks : \A k \in Keys :
          Ensures(mode, Next1, kind, t, k) => k \in After(mode, todo, G)[kind][t]
  <2> HIDE DEF G, todo
  <2> QED
    BY <1>2, AfterHas
<1> HIDE DEF todo
<1>5. /\ \A p \in 1 .. Len(todo) : todo[p].op \notin {"saveTick", "saveTx", "cleanTransactionLogs"}
      /\ \A t \in Ticks : Avoids(Next1, t) => \A p \in 1 .. Len(todo) : Avoids(todo[p], t)
  BY <1>1
<1> QED
  BY <1>1, <1>3, <1>4, <1>5, CommandElsewhere

LEMMA StoreCopyStep ==
    ASSUME StoreInv, StoreCopy
    PROVE  StoreInv'
<1>0. gc.agenda # << >> /\ Next1.op = "set" /\ gc' = Continue(<< >>)
  BY DEF StoreCopy, At
<1>3. ASSUME NEW kind \in Kinds, NEW t \in Ticks, NEW k \in Keys, Ensures(mode, Next1, kind, t, k)
      PROVE  Fact(kind, t, k)'
  <2>1. kind \in {"safe", "found"} /\ k \in kvrocks'
    BY <1>0, <1>3 DEF Ensures, StoreCopy
  <2>2. Safe(t, k)'
    BY <2>1 DEF Safe
  <2> QED
    BY <2>1, <2>2 DEF Fact
<1>4. UNCHANGED <<mode, keydb, saved, process, crashed, overtaken, swept>> /\ unsaved' = unsaved /\ \A k \in kvrocks : k \in kvrocks'
  BY DEF StoreCopy, history
<1>5. Next1.op \notin {"saveTick", "saveTx"} /\ \A k \in unsaved : k \in unsaved'
  BY <1>0, <1>4
<1> QED
  BY <1>0, <1>3, <1>4, <1>5, CommandDone

LEMMA KvrocksFailsStep ==
    ASSUME StoreInv, KvrocksFails
    PROVE  StoreInv'
<1>0. gc.agenda # << >> /\ Next1.op \in {"set", "vtick"} /\ gc' = Continue(<< >>)
  BY DEF KvrocksFails, At
<1>c. Next1 \in Cmds
  BY <1>0, NextCommand
<1>u. unsaved' = unsaved \cup Next1.keys
  BY DEF KvrocksFails
<1>3. ASSUME NEW kind \in Kinds, NEW t \in Ticks, NEW k \in Keys, Ensures(mode, Next1, kind, t, k)
      PROVE  Fact(kind, t, k)'
  <2>1. kind \in {"safe", "found"} /\ (k \in unsaved' \/ (vtick(t) \in unsaved' /\ k \in LogRangeKeys[t]))
    <3>1. CASE Next1.op = "set"
      BY <1>3, <1>u, <3>1 DEF Ensures
    <3>2. CASE Next1.op = "vtick"
      <4>1. kind \in {"safe", "found"} /\ Next1.t = t /\ k \in Whole(t)
        BY <1>3, <3>2 DEF Ensures
      <4>2. Next1.keys = {vtick(t)} \cup Raw[t]
        BY <1>c, <3>2, <4>1 DEF Cmds
      <4> QED
        BY <1>u, <4>1, <4>2, WholeHas
    <3> QED
      BY <1>0, <3>1, <3>2
  <2>2. k \in unsaved' \/ (k \in Excused(t)' /\ k # vtick(t))
    <3>1. CASE vtick(t) \in unsaved' /\ k \in LogRangeKeys[t]
      <4>1. k \in db_insert_log_range(t) /\ k # vtick(t)
        BY <3>1, OtherKinds DEF LogRangeKeys
      <4> QED
        BY <3>1, <4>1 DEF Excused, vtick
    <3> QED
      BY <2>1, <3>1
  <2>3. Safe(t, k)'
    BY <2>2 DEF Safe, Excused
  <2> QED
    BY <2>1, <2>3 DEF Fact
<1>4. UNCHANGED <<mode, keydb, saved, process, crashed, overtaken, swept>> /\ kvrocks' = kvrocks /\ \A k \in unsaved : k \in unsaved'
  BY <1>u DEF KvrocksFails, store
<1>5. Next1.op \notin {"saveTick", "saveTx"} /\ \A k \in kvrocks : k \in kvrocks'
  BY <1>0, <1>4
<1> QED
  BY <1>0, <1>3, <1>4, <1>5, CommandDone

LEMMA DeleteKeysStep ==
    ASSUME StoreInv, DeleteKeys
    PROVE  StoreInv'
<1>0. gc.agenda # << >> /\ Next1.op = "unlink" /\ gc' = Continue(<< >>) /\ keydb' = keydb \ Next1.keys
  BY DEF DeleteKeys, At
<1> DEFINE todo == << >>
           G == Facts'
<1>1. todo \in Seq(Cmds) /\ Len(todo) = 0 /\ 1 .. Len(todo) = {} /\ gc' = Continue(todo)
  BY <1>0, EmptySeq
<1>2. ASSUME NEW kind \in Kinds, NEW t \in Ticks, NEW k \in Keys, Ensures(mode, Next1, kind, t, k)
      PROVE  k \in G[kind][t]
  <2>1. kind \in {"raw", "gone"} /\ k \notin keydb'
    BY <1>0, <1>2 DEF Ensures
  <2>2. Fact(kind, t, k)'
    BY <2>1 DEF Fact
  <2> QED
    BY <2>2, FactsHaveNext
<1>3. Sound(mode, todo, G)
  <2> HIDE DEF G
  <2> QED
    BY SoundEmpty
<1>4. \A kind \in Kinds : \A t \in Ticks : \A k \in Keys :
          Ensures(mode, Next1, kind, t, k) => k \in After(mode, todo, G)[kind][t]
  <2> HIDE DEF G, todo
  <2> QED
    BY <1>2, AfterHas
<1> HIDE DEF todo
<1>5. /\ \A p \in 1 .. Len(todo) : todo[p].op \notin {"saveTick", "saveTx", "cleanTransactionLogs"}
      /\ \A t \in Ticks : Avoids(Next1, t) => \A p \in 1 .. Len(todo) : Avoids(todo[p], t)
  BY <1>1
<1>6. /\ saved.indexed \in 0 .. LastTick
      /\ \A kind \in Kinds : \A t \in Ticks : \A k \in Keys :
             Requires(mode, Next1, kind, t, k) => Fact(kind, t, k)
  BY <1>0, NextCommand
<1>7. /\ UNCHANGED <<mode, kvrocks, saved, unsaved, crashed>>
      /\ UNCHANGED process /\ UNCHANGED <<overtaken, swept>>
  BY DEF DeleteKeys, history
<1>8. Grow /\ keydb' \subseteq keydb
  BY <1>0, <1>6, <1>7 DEF Grow
<1>9. ASSUME NEW t \in Ticks, NEW k \in TickKeys[t], k \in keydb, k \notin keydb'
      PROVE  /\ ~Avoids(Next1, t) /\ Safe(t, k) /\ t <= saved.indexed
             /\ k \in db_insert_tick_vote(t) => tickData(t) \notin keydb
             /\ mode.tick = "Kvrocks" /\ k \in Raw[t] => \A x \in Whole(t) : Safe(t, x)
  <2>1. k \in Next1.keys /\ k \in Keys
    BY <1>0, <1>9, KeysType
  <2>2. ~Avoids(Next1, t)
    BY <1>0, <2>1 DEF Avoids
  <2>3. Safe(t, k) /\ t <= saved.indexed
    <3>1. Requires(mode, Next1, "old", t, k) /\ Requires(mode, Next1, "safe", t, k)
      BY <1>0, <2>1 DEF Requires
    <3>2. Fact("old", t, k) /\ Fact("safe", t, k)
      BY <1>6, <2>1, <3>1, KindsAre
    <3> QED
      BY <3>2 DEF Fact
  <2>4. ASSUME k \in db_insert_tick_vote(t) PROVE tickData(t) \notin keydb
    <3>1. Requires(mode, Next1, "raw", t, tickData(t))
      BY <1>0, <2>1, <2>4 DEF Requires
    <3>2. Fact("raw", t, tickData(t))
      BY <1>6, <3>1, KindsAre, KeysType
    <3> QED
      BY <3>2 DEF Fact
  <2>5. ASSUME mode.tick = "Kvrocks", k \in Raw[t], NEW x \in Whole(t) PROVE Safe(t, x)
    <3>1. Requires(mode, Next1, "safe", t, x)
      BY <1>0, <2>1, <2>5 DEF Requires
    <3>2. Fact("safe", t, x)
      BY <1>6, <3>1, KindsAre, KeysType
    <3> QED
      BY <3>2 DEF Fact
  <2> QED
    BY <2>2, <2>3, <2>4, <2>5
<1>10. Next1.op \notin {"saveTick", "saveTx"} /\ saved' = saved /\ UNCHANGED <<crashed, overtaken>>
  BY <1>0, <1>7
<1> QED
  BY <1>0, <1>1, <1>3, <1>4, <1>5, <1>7, <1>8, <1>9, <1>10, CommandStep

\* A function is entered: the databases stay as they are.
LEMMA FactsSame ==
    ASSUME UNCHANGED <<mode, keydb, kvrocks, saved, history>>
    PROVE  Facts' = Facts
<1>0. UNCHANGED <<unsaved, crashed, overtaken, swept>>
  BY DEF history
<1>1. ASSUME NEW t PROVE Kept(t)' = Kept(t) /\ Excused(t)' = Excused(t) /\ Exempt(t)' = Exempt(t)
  <2>1. Promised(t)' = Promised(t) /\ Dropped(t)' = Dropped(t)
    BY <1>0 DEF Promised, Dropped, Recent
  <2>2. Kept(t)' = Kept(t)
    BY <2>1 DEF Kept
  <2> QED
    BY <1>0, <2>2 DEF Excused, Exempt, LastNMode
<1>2. ASSUME NEW kind, NEW t, NEW k PROVE Fact(kind, t, k)' = Fact(kind, t, k)
  <2>1. Safe(t, k)' = Safe(t, k)
    BY <1>0, <1>1 DEF Safe
  <2> QED
    BY <1>0, <1>1, <2>1 DEF Fact
<1>3. ASSUME NEW kind \in Kinds, NEW t \in Ticks
      PROVE  {k \in Keys : Fact(kind, t, k)'} = {k \in Keys : Fact(kind, t, k)}
  BY <1>2
<1> QED
  BY <1>3 DEF Facts

LEMMA CallStep ==
    ASSUME StoreInv, gc.agenda # << >>, NEW todo \in Seq(Cmds), gc' = Continue(todo),
           Next1.op \notin {"saveTick", "saveTx"},
           \A p \in 1 .. Len(todo) : todo[p].op \notin {"saveTick", "saveTx", "cleanTransactionLogs"},
           \A t \in Ticks : Avoids(Next1, t) => \A p \in 1 .. Len(todo) : Avoids(todo[p], t),
           UNCHANGED <<mode, store, saved, process, history>>,
           Sound(mode, todo, Facts),
           \A kind \in Kinds : \A t \in Ticks : \A k \in Keys :
               Ensures(mode, Next1, kind, t, k) => k \in After(mode, todo, Facts)[kind][t]
    PROVE  StoreInv'
<1>1. UNCHANGED <<mode, keydb, kvrocks, saved, unsaved, crashed, overtaken, swept>>
  BY DEF store, history
<1>2. Facts' = Facts
  BY <1>1, FactsSame
<1>3. UNCHANGED <<mode, keydb, saved, process, crashed, overtaken, swept>>
  BY <1>1
<1>4. (\A k \in kvrocks : k \in kvrocks') /\ (\A k \in unsaved : k \in unsaved')
  BY <1>1
<1>5. /\ Sound(mode, todo, Facts')
      /\ \A kind \in Kinds : \A t \in Ticks : \A k \in Keys :
             Ensures(mode, Next1, kind, t, k) => k \in After(mode, todo, Facts')[kind][t]
  BY <1>2
<1> QED
  BY <1>3, <1>4, <1>5, CommandElsewhere

\* Reading the whole raw tick.
LEMMA RawIsRead ==
    ASSUME StoreTypes, VotesStay, NEW t \in Ticks
    PROVE  /\ ~(db_get_tick_data(t) \/ (t \in Empty /\ db_get_tick_votes(t) = Batches)) => ~(Raw[t] \subseteq keydb)
           /\ db_get_tick_data(t) \/ (t \in Empty /\ db_get_tick_votes(t) = Batches) =>
                  {<<"vtick", t, 0>>} \cup {<<"tick_vote", t, b>> : b \in db_get_tick_votes(t)}
                      \cup {k \in {<<"tick_data", t, 0>>} : k \in keydb} = {vtick(t)} \cup Raw[t]
<1>0. db_get_tick_data(t) <=> tickData(t) \in keydb
  BY DEF db_get_tick_data, tickData
<1>1. (\A b \in Batches : <<"tick_vote", t, b>> \in keydb) <=> db_get_tick_votes(t) = Batches
  BY DEF db_get_tick_votes
<1>2. tickData(t) \in keydb => t \notin Empty
  <2>1. tickData(t) \in keydb => \E u \in Ticks : tickData(t) \in TickKeys[u]
    BY DEF StoreTypes
  <2> QED
    BY <2>1, TheVotes
<1>3. tickData(t) \in keydb => db_get_tick_votes(t) = Batches
  BY <1>1 DEF VotesStay, db_insert_tick_vote
<1>4. ASSUME Raw[t] \subseteq keydb PROVE db_get_tick_data(t) \/ (t \in Empty /\ db_get_tick_votes(t) = Batches)
  <2>1. t \notin Empty => tickData(t) \in keydb
    BY <1>4, TheVotes
  <2>2. \A b \in Batches : <<"tick_vote", t, b>> \in keydb
    BY <1>4, RawHas
  <2> QED
    BY <1>0, <1>1, <2>1, <2>2
<1>5. ASSUME db_get_tick_data(t) \/ (t \in Empty /\ db_get_tick_votes(t) = Batches)
      PROVE  {<<"vtick", t, 0>>} \cup {<<"tick_vote", t, b>> : b \in db_get_tick_votes(t)}
                 \cup {k \in {<<"tick_data", t, 0>>} : k \in keydb} = {vtick(t)} \cup Raw[t]
  <2>1. db_get_tick_votes(t) = Batches /\ (tickData(t) \in keydb <=> t \notin Empty)
    BY <1>0, <1>2, <1>3, <1>5
  <2>2. Raw[t] = db_insert_tick_data(t) \cup db_insert_tick_vote(t)
    BY DEF Raw
  <2>3. {k \in {<<"tick_data", t, 0>>} : k \in keydb} = db_insert_tick_data(t)
    BY <2>1 DEF db_insert_tick_data, tickData
  <2> QED
    BY <2>1, <2>2, <2>3 DEF db_insert_tick_vote, vtick
<1> QED
  BY <1>4, <1>5

LEMMA CompressStep ==
    ASSUME StoreInv, At("compressTickAndMoveToKVRocks"), gc' = Continue(compressTickAndMoveToKVRocks(Next1.t)),
           UNCHANGED <<mode, store, saved, process, history>>
    PROVE  StoreInv'
<1> DEFINE t == Next1.t
           c == Cmd("vtick", t, {vtick(t)} \cup Raw[t])
           todo == compressTickAndMoveToKVRocks(t)
           got == db_get_tick_data(t) \/ (t \in Empty /\ db_get_tick_votes(t) = Batches)
<1>0. gc.agenda # << >> /\ Next1.op = "compressTickAndMoveToKVRocks" /\ Next1.op \notin {"saveTick", "saveTx"}
  BY DEF At
<1>1. Next1 \in Cmds
  BY <1>0, NextCommand
<1>2. t \in Ticks /\ t \in Int
  BY <1>0, <1>1, TicksAre DEF Cmds
<1>3. StoreTypes /\ VotesStay /\ WholeIsSafe
  BY DEF StoreInv
<1>4. ASSUME NEW kind \in Kinds, NEW u \in Ticks, NEW k \in Keys, Ensures(mode, Next1, kind, u, k)
      PROVE  kind \in {"safe", "found"} /\ mode.tick = "Kvrocks" /\ u = t /\ k \in Whole(t)
  BY <1>0, <1>4 DEF Ensures
<1>f. c.op = "vtick" /\ c.t = t /\ c.keys = {vtick(t)} \cup Raw[t] /\ Command("vtick", t, {vtick(t)} \cup Raw[t]) = <<c>>
  BY CmdFields
<1>c. c \in Cmds
  <2>1. {vtick(t)} \cup Raw[t] \in SUBSET Keys
    BY <1>2, KeysType, WholeHas
  <2>2. c \in [op : Ops, t : Int, keys : SUBSET Keys]
    BY <1>2, <2>1 DEF Cmd, Ops
  <2> HIDE DEF c
  <2> QED
    BY <1>2, <1>f, <2>2 DEF Cmds
<1>5. CASE got
  <2>1. todo = <<c>>
    <3>1. {<<"vtick", t, 0>>} \cup {<<"tick_vote", t, b>> : b \in db_get_tick_votes(t)}
              \cup {k \in {<<"tick_data", t, 0>>} : k \in keydb} = {vtick(t)} \cup Raw[t]
      BY <1>2, <1>3, <1>5, RawIsRead
    <3>2. todo = db_insert_vtick_to_kvrocks(t, db_get_tick_votes(t))
      BY <1>5 DEF compressTickAndMoveToKVRocks
    <3>3. todo = Command("vtick", t, {vtick(t)} \cup Raw[t])
      BY <3>1, <3>2 DEF db_insert_vtick_to_kvrocks
    <3> QED
      BY <1>f, <3>3
  <2> DEFINE d == <<c>>
  <2>2. d \in Seq(Cmds) /\ Len(d) = 1 /\ d[1] = c
    BY <1>c
  <2>3. Sound(mode, d, Facts)
    <3>1. \A kind \in Kinds : \A u \in Ticks : \A k \in Keys : ~Requires(mode, c, kind, u, k)
      BY <1>f DEF Requires
    <3> QED
      BY <3>1, SoundOne, Zenon
  <2>4. ASSUME NEW kind \in Kinds, NEW u \in Ticks, NEW k \in Keys, Ensures(mode, Next1, kind, u, k)
        PROVE  k \in After(mode, d, Facts)[kind][u]
    <3>1. Ensures(mode, c, kind, u, k)
      <4> HIDE DEF c
      <4> QED
        BY <1>4, <1>f, <2>4 DEF Ensures
    <3> QED
      BY <3>1, AfterOne, Zenon
  <2>5. gc' = Continue(d)
    BY <2>1
  <2> HIDE DEF d
  <2>6. \A p \in 1 .. Len(d) : d[p].op \notin {"saveTick", "saveTx", "cleanTransactionLogs"} /\ \A u \in Ticks : Avoids(d[p], u)
    <3> HIDE DEF c
    <3> QED
      BY <1>f, <2>2 DEF Avoids
  <2> QED
    BY <1>0, <2>2, <2>3, <2>4, <2>5, <2>6, CallStep
<1>6. CASE ~got
  <2> DEFINE d == << >>
  <2>1. todo = d
    BY <1>6 DEF compressTickAndMoveToKVRocks
  <2>2. d \in Seq(Cmds) /\ 1 .. Len(d) = {} /\ Sound(mode, d, Facts)
    BY EmptySeq, SoundEmpty
  <2>3. ~(Raw[t] \subseteq keydb)
    BY <1>2, <1>3, <1>6, RawIsRead
  <2>5. gc' = Continue(d)
    BY <2>1
  <2> HIDE DEF d
  <2>4. ASSUME NEW kind \in Kinds, NEW u \in Ticks, NEW k \in Keys, Ensures(mode, Next1, kind, u, k)
        PROVE  k \in After(mode, d, Facts)[kind][u]
    <3>1. kind \in {"safe", "found"} /\ mode.tick = "Kvrocks" /\ u = t /\ k \in Whole(t)
      BY <1>4, <2>4
    <3>2. Safe(u, k)
      BY <1>3, <2>3, <3>1 DEF WholeIsSafe
    <3>3. Fact(kind, u, k)
      BY <3>1, <3>2 DEF Fact
    <3> QED
      BY <3>3, FactsHave, AfterHas
  <2>6. /\ \A p \in 1 .. Len(d) : d[p].op \notin {"saveTick", "saveTx", "cleanTransactionLogs"}
        /\ \A u \in Ticks : Avoids(Next1, u) => \A p \in 1 .. Len(d) : Avoids(d[p], u)
    BY <2>2
  <2> QED
    BY <1>0, <2>2, <2>4, <2>5, <2>6, CallStep
<1> QED
  BY <1>5, <1>6

\* What cleanTransactionLogs finds, unless a fault exempts the tick.
Findable(t) ==
    /\ db_try_get_tick_data(t) /\ db_try_get_log_ranges(t)
    /\ t \notin Empty => tickData(t) \in keydb \/ tickData(t) \in kvrocks

LEMMA FindsAll ==
    ASSUME NEW t \in Ticks, t \notin Empty, TickKeys[t] \subseteq keydb
    PROVE  Findable(t)
<1>1. tickData(t) \in keydb /\ <<"log_ranges", t, 0>> \in keydb
  BY RangesHas, TheVotes, TickKeysHas
<1> QED
  BY <1>1 DEF Findable, db_try_get_tick_data, db_get_tick_data, db_try_get_log_ranges, db_get_log_ranges, tickData

LEMMA CleanFinds ==
    ASSUME StoreInv, gc.agenda # << >>, Next1.op = "cleanTransactionLogs", NEW t \in Ticks, Next1.t = t,
           LastNMode(mode) \/ KvrocksMode(mode), ~Exempt(t)
    PROVE  Findable(t) \/ \A k \in TxKeys(t) : k \notin keydb
<1>0. /\ Next1 \in Cmds /\ kvOn = (mode.tick = "Kvrocks")
      /\ \A kind \in Kinds : \A u \in Ticks : \A k \in Keys :
             Requires(mode, Next1, kind, u, k) => Fact(kind, u, k)
  BY NextCommand
<1>1. <<"log_ranges", t, 0>> \in LogRangeKeys[t]
  BY RangesHas
<1>2. CASE Cleans(t)
  <2>1. ~crashed /\ t \notin Empty
    BY <1>2 DEF Exempt, Cleans, LastNMode, KvrocksMode
  <2>2. gc.agenda \in Seq(Cmds) /\ Intact
    BY DEF StoreInv, StoreTypes
  <2>3. 1 \in 1 .. Len(gc.agenda) /\ gc.agenda[1] = Next1
    BY <2>2, EmptySeq, HeadTailProperties DEF Next1
  <2>4. TickKeys[t] \subseteq keydb \/ Gone(t)
    BY <1>2, <2>1, <2>2, <2>3 DEF Intact
  <2>5. CASE TickKeys[t] \subseteq keydb
    BY <2>1, <2>5, FindsAll
  <2>6. CASE Gone(t)
    BY <2>6 DEF Gone
  <2> QED
    BY <2>4, <2>5, <2>6
<1>3. CASE ~Cleans(t)
  <2>1. mode.tick = "Kvrocks" /\ kvOn /\ ~LastNMode(mode) /\ t \notin overtaken
    BY <1>0, <1>3 DEF KvrocksMode, LastNMode, Cleans
  <2>2. \A k \in TickKeys[t] : k \notin unsaved
    BY <2>1 DEF Exempt
  <2>v. vtick(t) \notin unsaved
    BY <2>1 DEF Exempt
  <2>3. ASSUME NEW k \in Whole(t) PROVE Safe(t, k)
    <3>1. Requires(mode, Next1, "found", t, k)
      BY <2>1 DEF Requires
    <3>2. Fact("found", t, k)
      BY <1>0, <3>1, KindsAre, KeysType
    <3> QED
      BY <2>1, <3>2 DEF Fact
  <2>4. vtick(t) \in kvrocks
    <3>1. Safe(t, vtick(t))
      BY <2>3, WholeHas
    <3> QED
      BY <2>v, <3>1 DEF Safe
  <2>5. ASSUME NEW k, k \in Raw[t] \/ k \in LogRangeKeys[t] PROVE k \in kvrocks
    <3>1. Safe(t, k) /\ k \in TickKeys[t]
      BY <2>3, <2>5, WholeHas, TickKeysHas
    <3>2. k \in Kept(t)
      <4>1. RawKept(t) /\ RangesKept(t)
        BY <2>1 DEF RawKept, RangesKept
      <4> QED
        BY <2>5, <4>1, KeptIs
    <3>3. k \notin Excused(t)
      BY <2>1, <2>2, <2>v, <3>1 DEF Excused, vtick
    <3> QED
      BY <3>1, <3>2, <3>3 DEF Safe
  <2>6. t \notin Empty => tickData(t) \in kvrocks
    BY <2>5, TheVotes
  <2>7. <<"log_ranges", t, 0>> \in kvrocks
    BY <1>1, <2>5
  <2> QED
    BY <2>1, <2>4, <2>6, <2>7
    DEF Findable, db_try_get_tick_data, db_get_vtick_from_kvrocks, db_try_get_log_ranges,
        db_get_cLogRange_from_kvrocks, Kvrocks, vtick
<1> QED
  BY <1>2, <1>3

LEMMA CleanStep ==
    ASSUME StoreInv, At("cleanTransactionLogs"), gc' = Continue(cleanTransactionLogs(Next1.t)),
           UNCHANGED <<mode, store, saved, process, history>>
    PROVE  StoreInv'
<1> DEFINE t == Next1.t
           todo == cleanTransactionLogs(t)
<1>0. gc.agenda # << >> /\ Next1.op = "cleanTransactionLogs" /\ Next1.op \notin {"saveTick", "saveTx"}
  BY DEF At
<1>1. /\ Next1 \in Cmds /\ kvOn = (mode.tick = "Kvrocks") /\ mode \in ValidModes
      /\ saved.indexed \in 0 .. LastTick
      /\ \A kind \in Kinds : \A u \in Ticks : \A k \in Keys :
             Requires(mode, Next1, kind, u, k) => Fact(kind, u, k)
  BY <1>0, NextCommand
<1>2. t \in Ticks /\ t \in Int
  BY <1>0, <1>1, TicksAre DEF Cmds
<1>3. RetainedDataIsStored
  BY DEF StoreInv
<1>4. Cleanable(t)
  <2>1. t <= saved.indexed
    <3>1. Requires(mode, Next1, "old", t, vtick(t))
      BY <1>0 DEF Requires
    <3>2. Fact("old", t, vtick(t))
      BY <1>1, <1>2, <3>1, KindsAre, KeysType
    <3> QED
      BY <3>2 DEF Fact
  <2>2. ASSUME NEW k \in LogRangeKeys[t] PROVE Safe(t, k)
    <3>1. k \in Keys
      BY <1>2, <2>2, TickKeysHas, KeysType
    <3>2. Requires(mode, Next1, "safe", t, k)
      BY <1>0, <2>2 DEF Requires
    <3>3. Fact("safe", t, k)
      BY <1>1, <1>2, <3>1, <3>2, KindsAre
    <3> QED
      BY <3>3 DEF Fact
  <2>3. ASSUME ~KvrocksMode(mode), NEW k \in Executed[t] PROVE Safe(t, k)
    <3>1. k \in Keys
      BY <1>2, <2>3, TickKeysHas, KeysType
    <3>2. Requires(mode, Next1, "safe", t, k)
      BY <1>0, <2>3 DEF Requires
    <3>3. Fact("safe", t, k)
      BY <1>1, <1>2, <3>1, <3>2, KindsAre
    <3> QED
      BY <3>3 DEF Fact
  <2>4. saved.indexed \in Int
    BY <1>1
  <2> QED
    BY <1>1, <1>2, <1>3, <2>1, <2>2, <2>3, <2>4 DEF Cleanable
<1>5. /\ todo \in Seq(CmdsOf(t)) /\ Sound(mode, todo, Facts)
      /\ Findable(t) => \A k \in TxKeys(t) : k \in After(mode, todo, Facts)["gone"][t]
  BY <1>4, CleanSound DEF Findable
<1>6. ASSUME NEW kind \in Kinds, NEW u \in Ticks, NEW k \in Keys, Ensures(mode, Next1, kind, u, k)
      PROVE  k \in After(mode, todo, Facts)[kind][u]
  <2>1. kind = "gone" /\ u = t /\ (LastNMode(mode) \/ KvrocksMode(mode)) /\ k \in TxKeys(t)
    BY <1>0, <1>6 DEF Ensures
  <2> HIDE DEF todo
  <2>2. CASE Exempt(t) \/ k \notin keydb
    <3>1. Fact(kind, u, k)
      BY <2>1, <2>2 DEF Fact
    <3> QED
      BY <3>1, FactsHave, AfterHas
  <2>3. CASE ~(Exempt(t) \/ k \notin keydb)
    <3> HIDE DEF t
    <3>1. Findable(t)
      BY <1>0, <1>2, <2>1, <2>3, CleanFinds DEF t
    <3> QED
      BY <1>5, <2>1, <3>1
  <2> QED
    BY <2>2, <2>3
<1>7. gc' = Continue(todo)
  OBVIOUS
<1> HIDE DEF todo
<1>8. /\ todo \in Seq(Cmds)
      /\ \A p \in 1 .. Len(todo) : todo[p].op \in {"unlink", "set"} /\ \A k \in todo[p].keys : k \in TickKeys[t]
  BY <1>2, <1>5, CmdsOfAre
<1>9. ASSUME NEW u \in Ticks, Avoids(Next1, u), NEW p \in 1 .. Len(todo) PROVE Avoids(todo[p], u)
  <2>1. u # t
    BY <1>0, <1>9 DEF Avoids
  <2>2. \A k \in todo[p].keys : k \notin TickKeys[u]
    BY <1>2, <1>8, <2>1, TicksAreDisjoint
  <2> QED
    BY <1>8, <2>2 DEF Avoids
<1>10. \A p \in 1 .. Len(todo) : todo[p].op \notin {"saveTick", "saveTx", "cleanTransactionLogs"}
  BY <1>8
<1> QED
  BY <1>0, <1>5, <1>6, <1>7, <1>8, <1>9, <1>10, CallStep

LEMMA CleanerCallsStep ==
    ASSUME StoreInv, CleanerCalls
    PROVE  StoreInv'
<1>1. UNCHANGED <<mode, store, saved, process, history>>
  BY DEF CleanerCalls
<1> QED
  BY <1>1, CompressStep, CleanStep DEF CleanerCalls

\* The commands that store a key.
Sets == {c \in Cmds : c.op = "set"}

LEMMA SetsAre ==
    ASSUME NEW a \in Seq(Sets)
    PROVE  a \in Seq(Cmds) /\ \A p \in 1 .. Len(a) : a[p].op = "set"
<1> DEFINE X == Sets
<1>1. \A c \in X : c \in Cmds /\ c.op = "set"
  BY DEF Sets
<1>2. a \in Seq(X)
  OBVIOUS
<1> HIDE DEF X
<1>3. a \in Seq(Cmds) /\ \A p \in 1 .. Len(a) : a[p] \in X
  BY <1>1, <1>2
<1> QED
  BY <1>1, <1>3

LEMMA CopyIsSet ==
    ASSUME NEW t \in Ticks, NEW k \in TickKeys[t]
    PROVE  Copy({k}) \in Seq(Sets)
<1> DEFINE c == Cmd("set", 0, {k})
<1>1. c.op = "set" /\ c.t = 0 /\ c.keys = {k} /\ Copy({k}) = <<c>>
  BY CmdFields DEF Copy
<1>2. c \in [op : Ops, t : Int, keys : SUBSET Keys]
  BY KeysType DEF Cmd, Ops
<1> HIDE DEF c
<1> DEFINE X == Sets
<1>3. c \in X
  BY <1>1, <1>2 DEF Cmds, Sets
<1>4. <<c>> \in Seq(X)
  <2> HIDE DEF X
  <2> QED
    BY <1>3
<1> QED
  BY <1>1, <1>4

\* One of the two ranges, once the record is stored.
LEMMA RangeCopied ==
    ASSUME StoreInv, Grow, NEW t \in Ticks, NEW k \in LogRangeKeys[t], NEW got \in BOOLEAN, NEW m,
           k \in keydb \/ Kvrocks(k) <=> got
    PROVE  LET a == IF got THEN Copy({k}) ELSE << >>
           IN  /\ a \in Seq(Sets) /\ Sound(m, a, Facts')
               /\ k \in After(m, a, Facts')["safe"][t] /\ k \in After(m, a, Facts')["found"][t]
<1> DEFINE a == IF got THEN Copy({k}) ELSE << >>
           G == Facts'
<1>0. k \in TickKeys[t] /\ k \in Keys
  BY TickKeysHas, KeysType
<1>1. CASE got
  <2>1. a = Copy({k})
    BY <1>1
  <2> DEFINE S == {k}
  <2>2. k \in S /\ (\A x \in S : x \in TickKeys[t]) /\ a = Copy(S)
    BY <1>0, <2>1
  <2> HIDE DEF S, G
  <2>3. Sound(m, a, G) /\ k \in After(m, a, G)["safe"][t] /\ k \in After(m, a, G)["found"][t]
    BY <2>2, CopySet
  <2> QED
    BY <1>0, <2>1, <2>3, CopyIsSet DEF G
<1>2. CASE ~got
  <2>1. a = << >> /\ k \notin keydb
    BY <1>2
  <2>2. RetainedDataIsStored /\ Untouched /\ saved.indexed \in 0 .. LastTick
    BY DEF StoreInv, StoreTypes
  <2>3. t <= saved.indexed /\ saved.indexed \in Int
    BY <1>0, <2>1, <2>2, TicksAre DEF Untouched
  <2>4. Safe(t, k)
    BY <1>0, <2>1, <2>2, <2>3, LostIsSafe
  <2>5. Safe(t, k)'
    BY <2>2, <2>4, SafeStays
  <2>6. Fact("safe", t, k)' /\ Fact("found", t, k)'
    BY <2>5 DEF Fact
  <2>7. k \in G["safe"][t] /\ k \in G["found"][t]
    BY <1>0, <2>6, FactsHaveNext, KindsAre
  <2> HIDE DEF G
  <2>8. /\ k \in After(m, << >>, G)["safe"][t] /\ k \in After(m, << >>, G)["found"][t]
        /\ Sound(m, << >>, G)
    BY <1>0, <2>7, AfterHas, KindsAre, SoundEmpty
  <2> QED
    BY <2>1, <2>8, EmptySeq DEF G
<1> QED
  BY <1>1, <1>2

LEMMA StoreVtickOf ==
    ASSUME StoreInv, StoreVtick, NEW t \in Ticks, Next1.t = t
    PROVE  StoreInv'
<1> DEFINE todo == CompressRanges(t)
           G == Facts'
           lr == <<"log_ranges", t, 0>>
           tlr == <<"tick_log_range", t, 0>>
           a == IF db_try_get_log_ranges(t) THEN Copy({lr}) ELSE << >>
           b == IF db_try_get_log_range_for_tick(t) THEN Copy({tlr}) ELSE << >>
<1>0. /\ gc.agenda # << >> /\ Next1.op = "vtick" /\ Next1.op \notin {"saveTick", "saveTx"} /\ gc' = Continue(todo)
      /\ kvrocks' = (kvrocks \ Raw[t]) \cup Next1.keys
      /\ UNCHANGED <<mode, keydb, saved, process, crashed, unsaved, overtaken, swept>>
  BY DEF StoreVtick, At, history
<1>1. /\ Next1 \in Cmds /\ kvOn = (mode.tick = "Kvrocks") /\ mode \in ValidModes
      /\ saved.indexed \in 0 .. LastTick
  BY <1>0, NextCommand
<1>2. t \in Ticks /\ t \in Int /\ Next1.keys = {vtick(t)} \cup Raw[t]
  BY <1>0, <1>1, TicksAre DEF Cmds
<1>3. (\A k \in kvrocks : k \in kvrocks') /\ (\A k \in Raw[t] : k \in kvrocks') /\ vtick(t) \in kvrocks'
  BY <1>0, <1>2
<1>4. Grow
  BY <1>0, <1>1, <1>3 DEF Grow
<1>5. todo = a \o b
  BY DEF CompressRanges, db_insert_cLogRange_to_kvrocks, db_insert_TickLogRange_to_kvrocks
<1>6. lr \in LogRangeKeys[t] /\ tlr \in LogRangeKeys[t] /\ \A k \in LogRangeKeys[t] : k = lr \/ k = tlr
  BY <1>2, RangesHas
<1>7. /\ db_try_get_log_ranges(t) \in BOOLEAN /\ db_try_get_log_range_for_tick(t) \in BOOLEAN
      /\ lr \in keydb \/ Kvrocks(lr) <=> db_try_get_log_ranges(t)
      /\ tlr \in keydb \/ Kvrocks(tlr) <=> db_try_get_log_range_for_tick(t)
  BY DEF db_try_get_log_ranges, db_get_log_ranges, db_get_cLogRange_from_kvrocks, db_try_get_log_range_for_tick
<1>8. /\ a \in Seq(Sets) /\ Sound(mode, a, G)
      /\ lr \in After(mode, a, G)["safe"][t] /\ lr \in After(mode, a, G)["found"][t]
      /\ b \in Seq(Sets) /\ Sound(mode, b, G)
      /\ tlr \in After(mode, b, G)["safe"][t] /\ tlr \in After(mode, b, G)["found"][t]
  BY <1>2, <1>4, <1>6, <1>7, RangeCopied
<1>k. ASSUME NEW k, k = vtick(t) \/ k \in Raw[t] PROVE Fact("safe", t, k)' /\ Fact("found", t, k)'
  <2>1. k \in kvrocks'
    BY <1>3, <1>k
  <2>2. Safe(t, k)'
    BY <2>1 DEF Safe
  <2> QED
    BY <2>2 DEF Fact
<1>e. ASSUME NEW kind \in Kinds, NEW u \in Ticks, NEW k \in Keys, Ensures(mode, Next1, kind, u, k)
      PROVE  kind \in {"safe", "found"} /\ u = t /\ k \in Whole(t)
  BY <1>0, <1>e DEF Ensures
<1>f. ASSUME NEW k \in Keys, k = vtick(t) \/ k \in Raw[t] PROVE k \in G["safe"][t] /\ k \in G["found"][t]
  <2>1. Fact("safe", t, k)' /\ Fact("found", t, k)'
    BY <1>k, <1>f
  <2> QED
    BY <1>2, <1>f, <2>1, FactsHaveNext, KindsAre
<1>w. \A k \in Whole(t) : k = vtick(t) \/ k \in Raw[t] \/ k = lr \/ k = tlr
  BY <1>2, <1>6, WholeHas
<1>y. lr \in Keys /\ tlr \in Keys
  BY <1>2, <1>6, TickKeysHas, KeysType
<1> HIDE DEF a, b, G, lr, tlr
<1>9. More(G, After(mode, a, G))
  BY <1>8, AfterJoin, Zenon
<1>10. More(After(mode, a, G), After(mode, todo, G)) /\ More(After(mode, b, G), After(mode, todo, G))
  BY <1>5, <1>8, AfterJoin, Zenon
<1>11. Sound(mode, b, After(mode, a, G))
  BY <1>8, <1>9, SoundMore
<1>12. todo \in Seq(Sets) /\ Sound(mode, todo, G)
  BY <1>5, <1>8, <1>11, SoundJoin, ConcatProperties
<1>13. todo \in Seq(Cmds) /\ \A p \in 1 .. Len(todo) : todo[p].op = "set"
  BY <1>12, SetsAre
<1> HIDE DEF todo
<1>14. ASSUME NEW kind \in Kinds, NEW u \in Ticks, NEW k \in Keys, Ensures(mode, Next1, kind, u, k)
      PROVE  k \in After(mode, todo, G)[kind][u]
  <2>1. kind \in {"safe", "found"} /\ u = t /\ k \in Whole(t)
    BY <1>e, <1>14
  <2>a. (kind = "safe" \/ kind = "found") /\ kind \in Kinds
    BY <2>1
  <2>2. CASE k = vtick(t) \/ k \in Raw[t]
    <3>1. k \in G[kind][t]
      BY <1>f, <2>a, <2>2
    <3>2. k \in After(mode, a, G)[kind][t]
      BY <1>2, <1>9, <2>a, <3>1, Zenon DEF More
    <3> QED
      BY <1>2, <1>10, <2>a, <2>1, <3>2, Zenon DEF More
  <2>3. CASE k = lr
    <3>1. k \in After(mode, a, G)[kind][t]
      BY <1>8, <2>a, <2>3, Zenon
    <3> QED
      BY <1>2, <1>10, <2>a, <2>1, <3>1, Zenon DEF More
  <2>4. CASE k = tlr
    <3>1. k \in After(mode, b, G)[kind][t]
      BY <1>8, <2>a, <2>4, Zenon
    <3> QED
      BY <1>2, <1>10, <2>a, <2>1, <3>1, Zenon DEF More
  <2> QED
    BY <1>w, <2>1, <2>2, <2>3, <2>4
<1>15. /\ \A p \in 1 .. Len(todo) : todo[p].op \notin {"saveTick", "saveTx", "cleanTransactionLogs"}
       /\ \A u \in Ticks : Avoids(Next1, u) => \A p \in 1 .. Len(todo) : Avoids(todo[p], u)
  BY <1>13 DEF Avoids
<1>16. /\ UNCHANGED <<mode, keydb, saved, process, crashed, overtaken, swept>>
       /\ \A k \in unsaved : k \in unsaved'
  BY <1>0
<1> QED
  BY <1>0, <1>3, <1>12, <1>13, <1>14, <1>15, <1>16, CommandElsewhere DEF G

LEMMA StoreVtickStep ==
    ASSUME StoreInv, StoreVtick
    PROVE  StoreInv'
<1>1. gc.agenda # << >> /\ Next1.op = "vtick"
  BY DEF StoreVtick, At
<1>2. Next1.t \in Ticks
  BY <1>1, NextCommand DEF Cmds
<1>3. PICK t \in Ticks : Next1.t = t
  BY <1>2
<1> QED
  BY <1>3, StoreVtickOf

------------------------------------------------------------------------------
(* The cursors *)

\* A step that leaves both databases and the indexer's cursor alone.
LEMMA QuietStep ==
    ASSUME StoreInv, UNCHANGED <<mode, keydb, kvrocks, unsaved>>, saved'.indexed = saved.indexed,
           crashed => crashed', \A t \in overtaken : t \in overtaken', \A t \in swept : t \in swept'
    PROVE  /\ Grow /\ More(Facts, Facts')
           /\ Untouched' /\ VotesStay' /\ WholeIsSafe' /\ RetainedDataIsStored'
<1>0. /\ Untouched /\ VotesStay /\ WholeIsSafe /\ RetainedDataIsStored
      /\ saved.indexed \in 0 .. LastTick
  BY DEF StoreInv, StoreTypes
<1>1. Grow
  BY <1>0 DEF Grow
<1>2. More(Facts, Facts')
  BY <1>0, <1>1, FactsStay
<1>3. Untouched' /\ VotesStay'
  BY <1>0 DEF Untouched, VotesStay
<1>4. WholeIsSafe'
  BY <1>0, <1>1, WholeStays
<1>5. RetainedDataIsStored'
  BY <1>0, <1>1, RetainedStays
<1> QED
  BY <1>1, <1>2, <1>3, <1>4, <1>5

LEMMA MaxWithOne ==
    ASSUME NEW u \in Int
    PROVE  /\ Max({u, gInitialTick}) = (IF u >= 1 THEN u ELSE 1)
           /\ Max({u, gInitialTick}) \in Int
<1> DEFINE S == {u, gInitialTick}
           v == IF u >= 1 THEN u ELSE 1
           w == CHOOSE x \in S : \A y \in S : x >= y
<1>1. v \in S /\ \A y \in S : v >= y
  BY DEF gInitialTick
<1>2. w \in S /\ \A y \in S : w >= y
  BY <1>1
<1>3. w = v
  BY <1>1, <1>2 DEF gInitialTick
<1>4. Max({u, gInitialTick}) = w
  BY Zenon DEF Max
<1>5. v \in Int /\ v = (IF u >= 1 THEN u ELSE 1)
  OBVIOUS
<1> HIDE DEF v, w
<1> QED
  BY <1>3, <1>4, <1>5

\* The saving of a cursor is the last command of a pass.
LEMMA SaveEnds ==
    ASSUME StoreInv, gc.agenda # << >>, Next1.op \in {"saveTick", "saveTx"}
    PROVE  /\ Len(gc.agenda) = 1 /\ gc.agenda[1] = Next1 /\ << >> \o Tail(gc.agenda) = << >>
           /\ Next1 \in Cmds /\ Next1.t \in Int /\ Next1.t >= 1 /\ running
           /\ Next1.op = "saveTick" => saved.tick <= Next1.t
           /\ Next1.op = "saveTx" => saved.tx <= Next1.t
<1>1. Next1 \in Cmds /\ running
  BY NextCommand
<1>2. Next1.t \in Int /\ Next1.t >= 1
  BY <1>1 DEF Cmds
<1>3. gc.agenda \in Seq(Cmds) /\ SaveIsLast
  BY DEF StoreInv, StoreTypes
<1>4. /\ Len(gc.agenda) \in Nat /\ Len(gc.agenda) >= 1 /\ Next1 = gc.agenda[1]
      /\ Tail(gc.agenda) \in Seq(Cmds) /\ Len(Tail(gc.agenda)) = Len(gc.agenda) - 1
  BY <1>3, EmptySeq, HeadTailProperties DEF Next1
<1> DEFINE c == Next1
<1>5. 1 \in 1 .. Len(gc.agenda) /\ gc.agenda[1] = c
  BY <1>4
<1>6. c.op = "saveTick" \/ c.op = "saveTx"
  OBVIOUS
<1> HIDE DEF c
<1>7. /\ Len(gc.agenda) = 1
      /\ c.op = "saveTick" => saved.tick <= c.t
      /\ c.op = "saveTx" => saved.tx <= c.t
  BY <1>3, <1>5, <1>6, Zenon DEF SaveIsLast
<1>8. Len(Tail(gc.agenda)) = 0
  BY <1>4, <1>7
<1>9. Tail(gc.agenda) = << >>
  BY <1>4, <1>8, EmptySeq
<1> QED
  BY <1>1, <1>2, <1>4, <1>7, <1>9 DEF c

\* A pass ends with its cursor.
LEMMA PassEnds ==
    ASSUME StoreInv, UNCHANGED <<mode, store, process, history>>,
           saved' \in [indexed : 0 .. LastTick, tick : Int, tx : Int], saved'.indexed = saved.indexed,
           gc' \in [pc : {"off", "tick", "tx", "end", "exited"}, tick : Int, tx : Int, agenda : Seq(Cmds)],
           gc'.agenda = << >>, Cursors', CleanedTicksAreGone',
           \A t \in Ticks : Reached(t)' <=> Reached(t),
           \A t \in Ticks : TxReached(t)' <=> TxReached(t)
    PROVE  StoreInv'
<1>1. StoreTypes /\ Intact
  BY DEF StoreInv
<1>2. /\ UNCHANGED <<mode, keydb, kvrocks, unsaved, crashed, overtaken, swept>>
      /\ UNCHANGED <<gCurrentIndexingTick, filed, running, kvOn, gIsEndEpoch, stopFlag>>
  BY DEF store, process, history
<1>3. /\ Grow /\ More(Facts, Facts')
      /\ Untouched' /\ VotesStay' /\ WholeIsSafe' /\ RetainedDataIsStored'
  BY <1>2, QuietStep
<1>4. StoreTypes'
  BY <1>1, <1>2 DEF StoreTypes
<1>5. 1 .. Len(gc'.agenda) = {}
  BY EmptySeq
<1>6. SaveIsLast'
  BY <1>5 DEF SaveIsLast
<1>7. Intact'
  <2> SUFFICES ASSUME LastNMode(mode)' \/ KvrocksMode(mode)', ~crashed' PROVE
        /\ CleanedOnce(gc.agenda)'
        /\ \A t \in Ticks : ~Claimed(t)' => TickKeys[t] \subseteq keydb'
        /\ \A t \in Ticks : t \in overtaken' => KvrocksMode(mode)' /\ TxReached(t)'
    BY <1>5 DEF Intact
  <2>1. (LastNMode(mode)' <=> LastNMode(mode)) /\ (KvrocksMode(mode)' <=> KvrocksMode(mode))
    BY <1>2 DEF LastNMode, KvrocksMode
  <2>2. /\ \A t \in Ticks : ~Claimed(t) => TickKeys[t] \subseteq keydb
        /\ \A t \in Ticks : t \in overtaken => KvrocksMode(mode) /\ TxReached(t)
    BY <1>1, <1>2, <2>1 DEF Intact
  <2>3. \A t \in Ticks : Claimed(t)' <=> Claimed(t)
    BY <2>1 DEF Claimed
  <2>4. CleanedOnce(gc.agenda)'
    BY <1>5 DEF CleanedOnce
  <2> QED
    BY <1>2, <2>1, <2>2, <2>3, <2>4
<1>8. AgendaIsSound'
  <2> DEFINE G == Facts'
  <2> HIDE DEF G
  <2>1. Sound(mode', << >>, G)
    BY SoundEmpty
  <2> QED
    BY <2>1 DEF G, AgendaIsSound
<1> QED
  BY <1>3, <1>4, <1>6, <1>7, <1>8 DEF StoreInv

LEMMA SaveTxStep ==
    ASSUME StoreInv, At("saveTx"), saved' = [saved EXCEPT !.tx = Next1.t],
           gc' = [Continue(<< >>) EXCEPT !.tx = Next1.t],
           UNCHANGED <<mode, store, process, history>>
    PROVE  StoreInv'
<1> DEFINE u == Next1.t
<1>0. gc.agenda # << >> /\ Next1.op = "saveTx"
  BY DEF At
<1>1. /\ Len(gc.agenda) = 1 /\ gc.agenda[1] = Next1 /\ << >> \o Tail(gc.agenda) = << >>
      /\ u \in Int /\ u >= 1 /\ running /\ saved.tx <= u
  BY <1>0, SaveEnds
<1>2. \A kind \in Kinds : \A t \in Ticks : \A k \in Keys :
          Requires(mode, Next1, kind, t, k) => Fact(kind, t, k)
  BY <1>0, NextCommand
<1>3. /\ Cursors /\ CleanedTicksAreGone
      /\ gc \in [pc : {"off", "tick", "tx", "end", "exited"}, tick : Int, tx : Int, agenda : Seq(Cmds)]
      /\ saved \in [indexed : 0 .. LastTick, tick : Int, tx : Int]
  BY DEF StoreInv, StoreTypes
<1>5. /\ UNCHANGED <<mode, keydb, kvrocks, unsaved, crashed, overtaken, swept>>
      /\ UNCHANGED <<gCurrentIndexingTick, filed, running, kvOn, gIsEndEpoch, stopFlag>>
  BY DEF store, process, history
<1>g. gc' = [gc EXCEPT !.agenda = << >>, !.tx = u]
  BY <1>1, <1>3 DEF Continue
<1>n. << >> \in Seq(Cmds) /\ 1 .. Len(<< >>) = {}
  BY EmptySeq
<1>6. /\ saved' \in [indexed : 0 .. LastTick, tick : Int, tx : Int]
      /\ saved'.indexed = saved.indexed /\ saved'.tick = saved.tick /\ saved'.tx = u
  <2> HIDE DEF u
  <2> QED
    BY <1>1, <1>3 DEF u
<1>8. /\ gc' \in [pc : {"off", "tick", "tx", "end", "exited"}, tick : Int, tx : Int, agenda : Seq(Cmds)]
      /\ gc'.agenda = << >> /\ gc'.tick = gc.tick /\ gc'.tx = u /\ gc'.pc = gc.pc
  <2> DEFINE d == << >>
  <2>1. d \in Seq(Cmds) /\ gc' = [gc EXCEPT !.agenda = d, !.tx = u]
    BY <1>g, <1>n
  <2> HIDE DEF d, u
  <2>2. /\ gc' \in [pc : {"off", "tick", "tx", "end", "exited"}, tick : Int, tx : Int, agenda : Seq(Cmds)]
        /\ gc'.agenda = d /\ gc'.tick = gc.tick /\ gc'.tx = u /\ gc'.pc = gc.pc
    BY <1>1, <1>3, <2>1
  <2> QED
    BY <2>2 DEF d
<1> HIDE DEF u
<1>9. ASSUME NEW t \in Ticks
      PROVE  (Reached(t)' <=> Reached(t)) /\ (TxReached(t)' <=> TxReached(t))
  <2>0. t \in Int /\ saved.tx \in Int /\ saved.tick \in Int
    BY <1>3, TicksAre
  <2>e. 1 .. Len(gc'.agenda) = {}
    BY <1>8, <1>n
  <2>1. Reached(t)' <=> t <= saved.tick
    BY <1>6, <2>e DEF Reached
  <2>2. TxReached(t)' <=> t <= u
    BY <1>6, <2>e DEF TxReached
  <2>o. 1 .. Len(gc.agenda) = {1}
    BY <1>1
  <2>p. gc.agenda[1].op = "saveTx" /\ gc.agenda[1].t = u
    BY <1>0, <1>1 DEF u
  <2>3. Reached(t) <=> t <= saved.tick
    BY <2>o, <2>p DEF Reached
  <2>4. TxReached(t) <=> t <= saved.tx \/ t <= u
    BY <2>o, <2>p DEF TxReached
  <2> QED
    BY <1>1, <2>0, <2>1, <2>2, <2>3, <2>4
<1>12. Cursors'
  <2>1. Max({u, gInitialTick}) = u
    BY <1>1, MaxWithOne
  <2> QED
    BY <1>1, <1>3, <1>5, <1>6, <1>8, <2>1 DEF Cursors
<1>13. CleanedTicksAreGone'
  <2> SUFFICES ASSUME NEW t \in gInitialTick + 1 .. LastTick
               PROVE  /\ t <= saved'.tick => Raw[t] \cap keydb' = {}
                      /\ t <= saved'.tick /\ mode'.tick = "LastNTick" /\ mode'.tx = "LastNTick"
                         /\ t \notin Empty /\ ~crashed' => TxKeys(t) \cap keydb' = {}
                      /\ t <= saved'.tx /\ mode'.tick = "Kvrocks"
                         /\ (t \in overtaken' => ~crashed' /\ t \notin Empty)
                         /\ unsaved' \cap (TickKeys[t] \cup {<<"vtick", t, 0>>}) = {} => TxKeys(t) \cap keydb' = {}
    BY DEF CleanedTicksAreGone
  <2>1. /\ t <= saved.tick => Raw[t] \cap keydb = {}
        /\ t <= saved.tick /\ mode.tick = "LastNTick" /\ mode.tx = "LastNTick"
           /\ t \notin Empty /\ ~crashed => TxKeys(t) \cap keydb = {}
    BY <1>3 DEF CleanedTicksAreGone
  <2>t. t \in Ticks /\ t >= 2
    BY TicksAre DEF gInitialTick
  <2>2. ASSUME t <= u, mode.tick = "Kvrocks", t \in overtaken => ~crashed /\ t \notin Empty,
               unsaved \cap (TickKeys[t] \cup {<<"vtick", t, 0>>}) = {}, NEW k \in TxKeys(t)
        PROVE  k \notin keydb
    <3>1. Requires(mode, Next1, "gone", t, k)
      BY <1>0, <2>t, <2>2 DEF Requires, u
    <3>2. k \in Keys
      BY <2>t, TxKeysIn, KeysType
    <3>3. Fact("gone", t, k)
      BY <1>2, <2>t, <3>1, <3>2, KindsAre
    <3>4. ~Exempt(t)
      BY <2>2 DEF Exempt, LastNMode, vtick
    <3> QED
      BY <3>3, <3>4 DEF Fact
  <2> QED
    BY <1>5, <1>6, <2>1, <2>2
<1> QED
  BY <1>6, <1>8, <1>9, <1>12, <1>13, PassEnds

LEMMA SaveTickStep ==
    ASSUME StoreInv, At("saveTick"), saved' = [saved EXCEPT !.tick = Next1.t],
           gc' = [Continue(<< >>) EXCEPT !.tick = Next1.t],
           UNCHANGED <<mode, store, process, history>>
    PROVE  StoreInv'
<1> DEFINE u == Next1.t
<1>0. gc.agenda # << >> /\ Next1.op = "saveTick"
  BY DEF At
<1>1. /\ Len(gc.agenda) = 1 /\ gc.agenda[1] = Next1 /\ << >> \o Tail(gc.agenda) = << >>
      /\ u \in Int /\ u >= 1 /\ running /\ saved.tick <= u
  BY <1>0, SaveEnds
<1>2. \A kind \in Kinds : \A t \in Ticks : \A k \in Keys :
          Requires(mode, Next1, kind, t, k) => Fact(kind, t, k)
  BY <1>0, NextCommand
<1>3. /\ Cursors /\ CleanedTicksAreGone
      /\ gc \in [pc : {"off", "tick", "tx", "end", "exited"}, tick : Int, tx : Int, agenda : Seq(Cmds)]
      /\ saved \in [indexed : 0 .. LastTick, tick : Int, tx : Int]
  BY DEF StoreInv, StoreTypes
<1>5. /\ UNCHANGED <<mode, keydb, kvrocks, unsaved, crashed, overtaken, swept>>
      /\ UNCHANGED <<gCurrentIndexingTick, filed, running, kvOn, gIsEndEpoch, stopFlag>>
  BY DEF store, process, history
<1>g. gc' = [gc EXCEPT !.agenda = << >>, !.tick = u]
  BY <1>1, <1>3 DEF Continue
<1>n. << >> \in Seq(Cmds) /\ 1 .. Len(<< >>) = {}
  BY EmptySeq
<1>6. /\ saved' \in [indexed : 0 .. LastTick, tick : Int, tx : Int]
      /\ saved'.indexed = saved.indexed /\ saved'.tick = u /\ saved'.tx = saved.tx
  <2> HIDE DEF u
  <2> QED
    BY <1>1, <1>3 DEF u
<1>8. /\ gc' \in [pc : {"off", "tick", "tx", "end", "exited"}, tick : Int, tx : Int, agenda : Seq(Cmds)]
      /\ gc'.agenda = << >> /\ gc'.tick = u /\ gc'.tx = gc.tx /\ gc'.pc = gc.pc
  <2> DEFINE d == << >>
  <2>1. d \in Seq(Cmds) /\ gc' = [gc EXCEPT !.agenda = d, !.tick = u]
    BY <1>g, <1>n
  <2> HIDE DEF d, u
  <2>2. /\ gc' \in [pc : {"off", "tick", "tx", "end", "exited"}, tick : Int, tx : Int, agenda : Seq(Cmds)]
        /\ gc'.agenda = d /\ gc'.tick = u /\ gc'.tx = gc.tx /\ gc'.pc = gc.pc
    BY <1>1, <1>3, <2>1
  <2> QED
    BY <2>2 DEF d
<1> HIDE DEF u
<1>9. ASSUME NEW t \in Ticks
      PROVE  (Reached(t)' <=> Reached(t)) /\ (TxReached(t)' <=> TxReached(t))
  <2>0. t \in Int /\ saved.tx \in Int /\ saved.tick \in Int
    BY <1>3, TicksAre
  <2>e. 1 .. Len(gc'.agenda) = {}
    BY <1>8, <1>n
  <2>1. TxReached(t)' <=> t <= saved.tx
    BY <1>6, <2>e DEF TxReached
  <2>2. Reached(t)' <=> t <= u
    BY <1>6, <2>e DEF Reached
  <2>o. 1 .. Len(gc.agenda) = {1}
    BY <1>1
  <2>p. gc.agenda[1].op = "saveTick" /\ gc.agenda[1].t = u
    BY <1>0, <1>1 DEF u
  <2>3. TxReached(t) <=> t <= saved.tx
    BY <2>o, <2>p DEF TxReached
  <2>4. Reached(t) <=> t <= saved.tick \/ t <= u
    BY <2>o, <2>p DEF Reached
  <2> QED
    BY <1>1, <2>0, <2>1, <2>2, <2>3, <2>4
<1>12. Cursors'
  <2>1. Max({u, gInitialTick}) = u
    BY <1>1, MaxWithOne
  <2> QED
    BY <1>1, <1>3, <1>5, <1>6, <1>8, <2>1 DEF Cursors
<1>13. CleanedTicksAreGone'
  <2> SUFFICES ASSUME NEW t \in gInitialTick + 1 .. LastTick
               PROVE  /\ t <= saved'.tick => Raw[t] \cap keydb' = {}
                      /\ t <= saved'.tick /\ mode'.tick = "LastNTick" /\ mode'.tx = "LastNTick"
                         /\ t \notin Empty /\ ~crashed' => TxKeys(t) \cap keydb' = {}
                      /\ t <= saved'.tx /\ mode'.tick = "Kvrocks"
                         /\ (t \in overtaken' => ~crashed' /\ t \notin Empty)
                         /\ unsaved' \cap (TickKeys[t] \cup {<<"vtick", t, 0>>}) = {} => TxKeys(t) \cap keydb' = {}
    BY DEF CleanedTicksAreGone
  <2>1. t <= saved.tx /\ mode.tick = "Kvrocks" /\ (t \in overtaken => ~crashed /\ t \notin Empty)
        /\ unsaved \cap (TickKeys[t] \cup {<<"vtick", t, 0>>}) = {} => TxKeys(t) \cap keydb = {}
    BY <1>3 DEF CleanedTicksAreGone
  <2>t. t \in Ticks /\ t >= 2
    BY TicksAre DEF gInitialTick
  <2>2. ASSUME t <= u, NEW k \in Raw[t] PROVE k \notin keydb
    <3>1. Requires(mode, Next1, "raw", t, k)
      BY <1>0, <2>t, <2>2 DEF Requires, u
    <3>2. k \in Keys
      BY <2>t, TickKeysHas, KeysType
    <3>3. Fact("raw", t, k)
      BY <1>2, <2>t, <3>1, <3>2, KindsAre
    <3> QED
      BY <3>3 DEF Fact
  <2>3. ASSUME t <= u, LastNMode(mode), t \notin Empty, ~crashed, NEW k \in TxKeys(t)
        PROVE  k \notin keydb
    <3>1. Requires(mode, Next1, "gone", t, k)
      BY <1>0, <2>t, <2>3 DEF Requires, u
    <3>2. k \in Keys
      BY <2>t, TxKeysIn, KeysType
    <3>3. Fact("gone", t, k)
      BY <1>2, <2>t, <3>1, <3>2, KindsAre
    <3>4. ~Exempt(t)
      BY <2>3 DEF Exempt
    <3> QED
      BY <3>3, <3>4 DEF Fact
  <2>4. mode.tick = "LastNTick" /\ mode.tx = "LastNTick" => LastNMode(mode)
    BY DEF LastNMode
  <2> QED
    BY <1>5, <1>6, <2>1, <2>2, <2>3, <2>4
<1> QED
  BY <1>6, <1>8, <1>9, <1>12, <1>13, PassEnds

LEMMA SaveStep ==
    ASSUME StoreInv, db_insert_u32
    PROVE  StoreInv'
<1>1. UNCHANGED <<mode, store, process, history>>
  BY DEF db_insert_u32
<1> QED
  BY <1>1, SaveTickStep, SaveTxStep DEF db_insert_u32

------------------------------------------------------------------------------
(* The passes *)

\* The agenda, the cursors of the cleaner and KeyDB stay as they are.
LEMMA IntactSame ==
    ASSUME Intact, SaveIsLast, gc'.agenda = gc.agenda, saved'.tick = saved.tick, saved'.tx = saved.tx,
           UNCHANGED <<mode, keydb, unsaved, crashed, overtaken>>
    PROVE  Intact' /\ SaveIsLast'
<1>1. SaveIsLast'
  BY DEF SaveIsLast
<1>2. (LastNMode(mode)' <=> LastNMode(mode)) /\ (KvrocksMode(mode)' <=> KvrocksMode(mode))
  BY DEF LastNMode, KvrocksMode
<1>3. \A t \in Ticks : Reached(t)' <=> Reached(t)
  BY DEF Reached
<1>4. \A t \in Ticks : TxReached(t)' <=> TxReached(t)
  BY DEF TxReached
<1>5. \A t \in Ticks : Claimed(t)' <=> Claimed(t)
  BY <1>2, <1>3, <1>4 DEF Claimed
<1>6. \A t \in Ticks : Exempt(t)' <=> Exempt(t)
  BY <1>2 DEF Exempt
<1>7. \A t \in Ticks : Gone(t)' <=> Gone(t)
  BY <1>6 DEF Gone
<1>8. \A t \in Ticks : Cleans(t)' <=> Cleans(t)
  BY <1>2 DEF Cleans
<1>9. CleanedOnce(gc.agenda)' <=> CleanedOnce(gc.agenda)
  BY DEF CleanedOnce
<1>10. Intact'
  <2> SUFFICES ASSUME LastNMode(mode)' \/ KvrocksMode(mode)', ~crashed' PROVE
        /\ CleanedOnce(gc.agenda)'
        /\ \A t \in Ticks : \A p \in 1 .. Len(gc'.agenda) :
               gc'.agenda[p].op = "cleanTransactionLogs" /\ gc'.agenda[p].t = t /\ Cleans(t)' =>
                   TickKeys[t] \subseteq keydb' \/ (KvrocksMode(mode)' /\ Gone(t)')
        /\ \A t \in Ticks : ~Claimed(t)' =>
               /\ TickKeys[t] \subseteq keydb'
               /\ \A p \in 1 .. Len(gc'.agenda) : Avoids(gc'.agenda[p], t)
        /\ \A t \in Ticks : t \in overtaken' => KvrocksMode(mode)' /\ TxReached(t)'
    BY DEF Intact
  <2>1. /\ CleanedOnce(gc.agenda)
        /\ \A t \in Ticks : \A p \in 1 .. Len(gc.agenda) :
               gc.agenda[p].op = "cleanTransactionLogs" /\ gc.agenda[p].t = t /\ Cleans(t) =>
                   TickKeys[t] \subseteq keydb \/ (KvrocksMode(mode) /\ Gone(t))
        /\ \A t \in Ticks : ~Claimed(t) =>
               /\ TickKeys[t] \subseteq keydb
               /\ \A p \in 1 .. Len(gc.agenda) : Avoids(gc.agenda[p], t)
        /\ \A t \in Ticks : t \in overtaken => KvrocksMode(mode) /\ TxReached(t)
    BY <1>2 DEF Intact
  <2>2. CleanedOnce(gc.agenda)'
    BY <1>9, <2>1
  <2>3. \A t \in Ticks : \A p \in 1 .. Len(gc'.agenda) :
               gc'.agenda[p].op = "cleanTransactionLogs" /\ gc'.agenda[p].t = t /\ Cleans(t)' =>
                   TickKeys[t] \subseteq keydb' \/ (KvrocksMode(mode)' /\ Gone(t)')
    BY <1>2, <1>7, <1>8, <2>1
  <2>4. \A t \in Ticks : ~Claimed(t)' =>
               /\ TickKeys[t] \subseteq keydb'
               /\ \A p \in 1 .. Len(gc'.agenda) : Avoids(gc'.agenda[p], t)
    BY <1>5, <2>1
  <2>5. \A t \in Ticks : t \in overtaken' => KvrocksMode(mode)' /\ TxReached(t)'
    BY <1>2, <1>4, <2>1
  <2> QED
    BY <2>2, <2>3, <2>4, <2>5
<1> QED
  BY <1>1, <1>10

\* A new pass changes no database.
PassStarts ==
    /\ UNCHANGED <<mode, store, saved, process, unsaved, crashed>>
    /\ \A t \in overtaken : t \in overtaken'
    /\ \A t \in swept : t \in swept'

LEMMA PassIsQuiet ==
    ASSUME StoreInv, PassStarts
    PROVE  /\ UNCHANGED <<mode, keydb, kvrocks, saved, unsaved, crashed>>
           /\ UNCHANGED <<gCurrentIndexingTick, filed, running, kvOn, gIsEndEpoch, stopFlag>>
           /\ Grow /\ More(Facts, Facts')
           /\ Untouched' /\ VotesStay' /\ WholeIsSafe' /\ RetainedDataIsStored'
<1>1. /\ UNCHANGED <<mode, keydb, kvrocks, saved, unsaved, crashed>>
      /\ UNCHANGED <<gCurrentIndexingTick, filed, running, kvOn, gIsEndEpoch, stopFlag>>
      /\ (\A t \in overtaken : t \in overtaken') /\ \A t \in swept : t \in swept'
  BY DEF PassStarts, store, process
<1> QED
  BY <1>1, QuietStep

\* The cleaner, with nothing on its agenda, goes on with a new one.
LEMMA NewPass ==
    ASSUME StoreInv, gc.pc # "off", NEW pc \in {"tick", "tx", "end", "exited"},
           NEW c \in Seq(Cmds), pc = "exited" => c = << >>, gc' = [gc EXCEPT !.pc = pc, !.agenda = c],
           PassStarts, Sound(mode, c, Facts'), SaveIsLast', Intact'
    PROVE  StoreInv'
<1>3. StoreTypes /\ Cursors /\ CleanedTicksAreGone
  BY DEF StoreInv
<1>4. gc \in [pc : {"off", "tick", "tx", "end", "exited"}, tick : Int, tx : Int, agenda : Seq(Cmds)]
  BY <1>3 DEF StoreTypes
<1>5. /\ UNCHANGED <<mode, keydb, kvrocks, saved, unsaved, crashed>>
      /\ UNCHANGED <<gCurrentIndexingTick, filed, running, kvOn, gIsEndEpoch, stopFlag>>
      /\ Grow /\ Untouched' /\ VotesStay' /\ WholeIsSafe' /\ RetainedDataIsStored'
  BY PassIsQuiet
<1>8. /\ gc'.agenda = c /\ gc'.tick = gc.tick /\ gc'.tx = gc.tx /\ gc'.pc = pc
      /\ gc' \in [pc : {"off", "tick", "tx", "end", "exited"}, tick : Int, tx : Int, agenda : Seq(Cmds)]
  BY <1>4
<1>9. StoreTypes'
  BY <1>3, <1>5, <1>8 DEF StoreTypes
<1>10. Cursors'
  <2>1. running
    BY <1>3 DEF Cursors, CleanerOff
  <2> QED
    BY <1>3, <1>5, <1>8, <2>1 DEF Cursors
<1>11. CleanedTicksAreGone'
  BY <1>3, <1>5, GoneStays
<1>12. AgendaIsSound'
  BY <1>5, <1>8 DEF AgendaIsSound
<1> QED
  BY <1>5, <1>9, <1>10, <1>11, <1>12 DEF StoreInv

\* The pass has nothing to do.
LEMMA PassSkips ==
    ASSUME StoreInv, gc.pc # "off", gc.agenda = << >>, NEW pc \in {"tick", "tx", "end", "exited"},
           gc' = [gc EXCEPT !.pc = pc, !.agenda = << >>],
           UNCHANGED <<mode, store, saved, process, history>>
    PROVE  StoreInv'
<1> DEFINE c == << >>
           G == Facts'
<1>0. /\ Intact /\ SaveIsLast
      /\ gc \in [pc : {"off", "tick", "tx", "end", "exited"}, tick : Int, tx : Int, agenda : Seq(Cmds)]
  BY DEF StoreInv, StoreTypes
<1>1. c \in Seq(Cmds) /\ gc.agenda = c /\ gc' = [gc EXCEPT !.pc = pc, !.agenda = c]
  BY EmptySeq
<1>s. Sound(mode, c, G)
  <2> HIDE DEF G
  <2> QED
    BY SoundEmpty
<1>c. pc = "exited" => c = << >>
  OBVIOUS
<1> HIDE DEF c
<1>2. gc'.agenda = gc.agenda
  BY <1>0, <1>1
<1>3. PassStarts /\ UNCHANGED <<mode, keydb, saved, unsaved, crashed, overtaken>>
  BY DEF PassStarts, store, history
<1>4. Intact' /\ SaveIsLast'
  BY <1>0, <1>2, <1>3, IntactSame
<1> QED
  BY Zenon, <1>1, <1>3, <1>4, <1>c, <1>s, NewPass

LEMMA RawBody ==
    ASSUME NEW t \in Ticks, NEW w \in BOOLEAN
    PROVE  cleanRawTick(t, w) \in Seq(BodyOf(t))
<1> DEFINE F == [kind \in Kinds |-> [u \in Ticks |-> Keys]]
<1>1. \A kind \in Kinds : F[kind][t] = Keys
  OBVIOUS
<1>2. \A k : k \in Raw[t] \/ k \in Whole(t) => k \in Keys
  BY TickKeysHas, KeysType
<1> HIDE DEF F
<1>3. Callable(mode, F, t)
  BY <1>1 DEF Callable
<1>4. /\ \A k \in Keys : k \in F["old"][t]
      /\ \A k \in Raw[t] : k \in F["safe"][t]
      /\ \A k \in Whole(t) : k \in F["safe"][t]
  BY <1>1, <1>2, KindsAre
<1> QED
  BY <1>3, <1>4, RawCleaned

\* The agenda of a pass over the ticks i .. j.
LEMMA PassAgenda ==
    ASSUME NEW i, NEW j, NEW w, NEW F, Ready(mode, F, i, j, w)
    PROVE  LET c == CleanTicks(i, j, w) IN
           /\ c \in Seq(Cmds) /\ Len(c) \in Nat /\ Len(c) >= 1
           /\ \A p \in 1 .. Len(c) : p # Len(c) => \E t \in i .. j : c[p] \in BodyOf(t)
           /\ c[Len(c)].op = "saveTick" /\ c[Len(c)].t = j /\ c[Len(c)].keys = {}
           /\ Sound(mode, c, F)
           /\ CleanedOnce(c)
<1> DEFINE f == [t \in i .. j |-> Call("compressTickAndMoveToKVRocks", t)]
           g == [t \in i .. j |-> cleanRawTick(t, w)]
           a == IF mode.tick = "Kvrocks" THEN Concat(f) ELSE << >>
           b == Concat(g)
           c == CleanTicks(i, j, w)
           ab == a \o b
           d == Cmd("saveTick", j, {})
<1>i. i \in Int /\ j \in Int /\ 2 <= i /\ i <= j /\ j <= LastTick /\ w \in BOOLEAN
  BY DEF Ready
<1>1. /\ c = ab \o SaveTick(j) /\ ab \in Seq(Body(i, j)) /\ b \in Seq(Body(i, j))
      /\ a \in Seq(Body(i, j)) /\ Sound(mode, c, F)
  BY TicksCleaned
<1>2. SaveTick(j) = <<d>> /\ d \in Cmds
  <2>1. j >= 1
    BY <1>i
  <2> QED
    BY <1>i, <2>1, SaveType DEF SaveTick
<1>3. d.op = "saveTick" /\ d.t = j /\ d.keys = {}
  BY CmdFields
<1>r. a \in Seq(Cmds) /\ b \in Seq(Cmds)
  <2> HIDE DEF a, b
  <2> QED
    BY <1>i, <1>1, BodySeq
<1>v. \A p \in 1 .. Len(a) : a[p].op \notin {"unlink", "cleanTransactionLogs"}
  <2> DEFINE X == {x \in Cmds : x.op = "compressTickAndMoveToKVRocks"}
             D == i .. j
  <2>1. (\A z \in D : z \in Int /\ z \in Ticks) /\ IsFiniteSet(D)
    <3>1. IsFiniteSet(D)
      BY <1>i, FS_Interval
    <3> QED
      BY <1>i, <3>1, TicksAre
  <2>2. ASSUME NEW t \in D PROVE Call("compressTickAndMoveToKVRocks", t) \in Seq(X)
    <3> DEFINE x == Cmd("compressTickAndMoveToKVRocks", t, {})
    <3>1. x \in X /\ Call("compressTickAndMoveToKVRocks", t) = <<x>>
      <4>1. /\ x.op = "compressTickAndMoveToKVRocks" /\ x \in Cmds
            /\ Call("compressTickAndMoveToKVRocks", t) = <<x>>
        BY <2>1, CallType, CmdFields
      <4> QED
        BY <4>1
    <3> HIDE DEF x, X
    <3>2. <<x>> \in Seq(X)
      BY <3>1
    <3> QED
      BY <3>1, <3>2, Zenon
  <2>3. f \in [D -> Seq(X)]
    <3> HIDE DEF X
    <3> QED
      BY <2>2
  <2>4. Concat(f) \in Seq(X)
    <3> HIDE DEF f, D, X
    <3> QED
      BY <2>1, <2>3, ConcatType
  <2>5. \A x \in X : x.op \notin {"unlink", "cleanTransactionLogs"}
    OBVIOUS
  <2>6. a \in Seq(X)
    <3> HIDE DEF f, X
    <3> QED
      BY <2>4, EmptySeq
  <2> HIDE DEF a, X
  <2> QED
    BY <2>5, <2>6
<1>b. CleanedOnce(b \o <<d>>)
  <2>1. \A t \in i .. j : t \in Ticks
    BY <1>i, TicksAre
  <2>2. \A t \in i .. j : cleanRawTick(t, w) \in Seq(BodyOf(t)) /\ CleanedOnce(cleanRawTick(t, w))
    BY <1>i, <2>1, RawBody, RawCleanedOnce
  <2>3. \A t \in i .. j : g[t] \in Seq(BodyOf(t)) /\ CleanedOnce(g[t])
    BY <2>2
  <2>4. g = [t \in i .. j |-> g[t]] /\ d.op # "cleanTransactionLogs"
    BY <1>3
  <2> HIDE DEF g, d
  <2> QED
    BY <1>i, <1>2, <2>3, <2>4, PassCleansOnce
<1>4. ab \in Seq(Cmds) /\ \A p \in 1 .. Len(ab) : \E t \in i .. j : ab[p] \in BodyOf(t)
  <2> HIDE DEF ab
  <2> QED
    BY <1>i, <1>1, BodySeq
<1> HIDE DEF a, b, c, d
<1>5. <<d>> \in Seq(Cmds) /\ Len(<<d>>) = 1 /\ <<d>>[1] = d
  BY <1>2
<1> DEFINE e == <<d>>
<1>6. c = ab \o e /\ e \in Seq(Cmds) /\ Len(e) = 1 /\ e[1] = d /\ CleanedOnce(b \o e)
  BY <1>1, <1>2, <1>5, <1>b
<1> HIDE DEF e
<1>l. CleanedOnce(c)
  <2> DEFINE z == b \o e
  <2>1. CleanedOnce(a)
    BY <1>v DEF CleanedOnce
  <2>2. z \in Seq(Cmds) /\ c = a \o z
    BY <1>r, <1>6, ConcatProperties, ConcatAssociative
  <2>3. \A p \in 1 .. Len(a) : \A t : Avoids(a[p], t)
    BY <1>v DEF Avoids
  <2>4. CleanedOnce(z)
    BY <1>6
  <2> HIDE DEF z
  <2> QED
    BY <1>r, <2>1, <2>2, <2>3, <2>4, CleanedOnceJoin
<1> HIDE DEF ab
<1>7. /\ c \in Seq(Cmds) /\ Len(ab) \in Nat /\ Len(c) = Len(ab) + 1
      /\ \A p \in 1 .. Len(ab) : c[p] = ab[p]
      /\ c[Len(ab) + 1] = d
  <2>1. /\ c \in Seq(Cmds) /\ Len(ab) \in Nat /\ Len(c) = Len(ab) + Len(e)
        /\ \A p \in 1 .. Len(ab) : c[p] = ab[p]
        /\ \A p \in 1 .. Len(e) : c[Len(ab) + p] = e[p]
    <3>1. ab \in Seq(Cmds) /\ e \in Seq(Cmds) /\ c = ab \o e
      BY <1>4, <1>6
    <3> QED
      BY <3>1, ConcatProperties
  <2> QED
    BY <1>6, <2>1
<1>8. ASSUME NEW p \in 1 .. Len(c), p # Len(c) PROVE \E t \in i .. j : c[p] \in BodyOf(t)
  <2>1. p \in 1 .. Len(ab)
    BY <1>7, <1>8
  <2> QED
    BY <1>4, <1>7, <2>1
<1>9. Len(c) \in Nat /\ Len(c) >= 1 /\ c[Len(c)] = d
  BY <1>7
<1> QED
  BY <1>1, <1>3, <1>7, <1>8, <1>9, <1>l DEF c

\* With nothing on the agenda the cursors tell which ticks are claimed.
LEMMA IdleClaims ==
    ASSUME StoreInv, running, gc.agenda = << >>, NEW t \in Ticks
    PROVE  /\ (TxReached(t) <=> t <= saved.tx) /\ (Reached(t) <=> t <= saved.tick)
           /\ Claimed(t) <=> t <= gc.tick \/ (KvrocksMode(mode) /\ t <= gc.tx)
           /\ saved.tick \in Int /\ saved.tx \in Int /\ gc.tick \in Int /\ gc.tx \in Int
           /\ saved.tick <= gc.tick /\ saved.tx <= gc.tx /\ 1 <= gc.tick /\ 1 <= gc.tx
           /\ (t >= 2 /\ t <= gc.tick => t <= saved.tick) /\ (t >= 2 /\ t <= gc.tx => t <= saved.tx)
<1>1. Cursors /\ saved.tick \in Int /\ saved.tx \in Int /\ gc.tick \in Int /\ gc.tx \in Int /\ t \in Int
  BY TicksAre DEF StoreInv, StoreTypes
<1>2. /\ gc.tick = (IF saved.tick >= 1 THEN saved.tick ELSE 1)
      /\ gc.tx = (IF saved.tx >= 1 THEN saved.tx ELSE 1)
  BY <1>1, MaxWithOne DEF Cursors
<1>3. 1 .. Len(gc.agenda) = {}
  BY EmptySeq
<1>4. (TxReached(t) <=> t <= saved.tx) /\ (Reached(t) <=> t <= saved.tick)
  BY <1>3 DEF Reached, TxReached
<1>5. Claimed(t) <=> t <= 1 \/ t <= saved.tick \/ (KvrocksMode(mode) /\ t <= saved.tx)
  BY <1>4 DEF Claimed
<1>6. (t <= 1 \/ t <= saved.tick <=> t <= gc.tick) /\ (t <= 1 \/ t <= saved.tx <=> t <= gc.tx)
  BY <1>1, <1>2
<1> QED
  BY <1>1, <1>2, <1>4, <1>5, <1>6

\* An overtaken tick has been cleaned when the pass that overtook it is done.
LEMMA OvertakenIsGone ==
    ASSUME StoreInv, running, gc.agenda = << >>, KvrocksMode(mode), ~crashed, NEW t \in Ticks, t >= 2,
           t \in overtaken
    PROVE  t <= saved.tx /\ Gone(t)
<1>1. Intact /\ CleanedTicksAreGone
  BY DEF StoreInv
<1>2. TxReached(t)
  BY <1>1 DEF Intact
<1>3. t <= saved.tx
  BY <1>2, IdleClaims
<1>4. t \in gInitialTick + 1 .. LastTick
  BY TicksAre DEF gInitialTick
<1>5. (t \in overtaken => ~crashed /\ t \notin Empty)
      /\ unsaved \cap (TickKeys[t] \cup {<<"vtick", t, 0>>}) = {} => TxKeys(t) \cap keydb = {}
  BY <1>1, <1>3, <1>4 DEF CleanedTicksAreGone, KvrocksMode
<1>6. ~Exempt(t) => /\ unsaved \cap (TickKeys[t] \cup {<<"vtick", t, 0>>}) = {}
                    /\ ~crashed /\ t \notin Empty
  BY DEF Exempt, LastNMode, KvrocksMode, vtick
<1>7. ~Exempt(t) => TxKeys(t) \cap keydb = {}
  BY <1>5, <1>6
<1> QED
  BY <1>3, <1>7 DEF Gone

\* The pass has ticks to clean.
LEMMA PassBegins ==
    ASSUME StoreInv, running, gc.pc = "tick", gc.agenda = << >>, NEW pc \in {"tx", "end"},
           NEW i, i = gc.tick + 1, NEW j, NEW w, Ready(mode, Facts', i, j, w),
           gc' = [gc EXCEPT !.pc = pc, !.agenda = CleanTicks(i, j, w)],
           PassStarts, UNCHANGED overtaken
    PROVE  StoreInv'
<1> DEFINE c == CleanTicks(i, j, w)
           G == Facts'
<1>0. /\ Intact
      /\ gc \in [pc : {"off", "tick", "tx", "end", "exited"}, tick : Int, tx : Int, agenda : Seq(Cmds)]
  BY DEF StoreInv, StoreTypes
<1>i. i \in Int /\ j \in Int /\ 2 <= i /\ i <= j /\ j <= LastTick /\ gc.tick \in Int
  BY <1>0 DEF Ready
<1>t. \A t \in i .. j : t \in Ticks /\ t \in Int /\ t >= 2 /\ ~(t <= gc.tick)
  <2>1. \A t \in i .. j : t \in Int /\ t >= gc.tick + 1 /\ 1 <= t /\ t <= LastTick /\ t >= 2
    BY <1>i, TicksAre
  <2> QED
    BY <1>i, <2>1, TicksAre
<1>1. /\ c \in Seq(Cmds) /\ Len(c) \in Nat /\ Len(c) >= 1
      /\ \A p \in 1 .. Len(c) : p # Len(c) => \E t \in i .. j : c[p] \in BodyOf(t)
      /\ c[Len(c)].op = "saveTick" /\ c[Len(c)].t = j /\ c[Len(c)].keys = {}
      /\ Sound(mode, c, G)
      /\ CleanedOnce(c)
  <2> HIDE DEF G
  <2> QED
    BY PassAgenda DEF G
<1>c. gc' = [gc EXCEPT !.pc = pc, !.agenda = c]
  OBVIOUS
<1> HIDE DEF c
<1>2. gc'.agenda = c /\ gc'.tick = gc.tick /\ gc'.pc = pc
  BY <1>0, <1>c
<1>3. UNCHANGED <<mode, keydb, saved, unsaved, crashed, overtaken>>
  BY DEF PassStarts, store
<1>o. \A t : \A x \in BodyOf(t) : x.op \notin {"saveTick", "saveTx"} /\ (x.op = "cleanTransactionLogs" => x.t = t)
  BY DEF BodyOf
<1>q. \A p \in 1 .. Len(c) : c[p].op # "saveTx" /\ (c[p].op = "saveTick" => p = Len(c))
  BY <1>1, <1>o
<1>m. (LastNMode(mode)' <=> LastNMode(mode)) /\ (KvrocksMode(mode)' <=> KvrocksMode(mode))
  BY <1>3 DEF LastNMode, KvrocksMode
<1>4. ASSUME NEW t \in Ticks
      PROVE  /\ Reached(t)' <=> t <= saved.tick \/ t <= j
             /\ TxReached(t)' <=> t <= saved.tx
             /\ TxReached(t) <=> t <= saved.tx
             /\ ~Claimed(t)' => ~Claimed(t) /\ ~(t <= j)
  <2>1. Reached(t)' <=> t <= saved.tick \/ t <= j
    BY <1>1, <1>2, <1>3, <1>q DEF Reached
  <2>2. TxReached(t)' <=> t <= saved.tx
    BY <1>2, <1>3, <1>q DEF TxReached
  <2>3. (TxReached(t) <=> t <= saved.tx) /\ (Reached(t) <=> t <= saved.tick)
    BY IdleClaims
  <2>4. ~Claimed(t)' => ~Claimed(t) /\ ~(t <= j)
    BY <1>m, <2>1, <2>2, <2>3 DEF Claimed
  <2> QED
    BY <2>1, <2>2, <2>3, <2>4
<1>5. SaveIsLast'
  <2> SUFFICES ASSUME NEW p \in 1 .. Len(c), c[p].op = "saveTick" PROVE p = Len(c) /\ saved.tick <= c[p].t
    BY <1>2, <1>3, <1>q DEF SaveIsLast
  <2>1. p = Len(c) /\ c[p].t = j
    BY <1>1, <1>q
  <2>2. PICK t \in Ticks : t = i
    BY <1>i, <1>t
  <2>3. saved.tick <= gc.tick /\ saved.tick \in Int
    BY <2>2, IdleClaims
  <2> QED
    BY <1>i, <2>1, <2>3
<1>6. Intact'
  <2> SUFFICES ASSUME LastNMode(mode) \/ KvrocksMode(mode), ~crashed PROVE
        /\ CleanedOnce(c)
        /\ \A t \in Ticks : \A p \in 1 .. Len(c) :
               c[p].op = "cleanTransactionLogs" /\ c[p].t = t /\ Cleans(t)' =>
                   TickKeys[t] \subseteq keydb \/ (KvrocksMode(mode)' /\ Gone(t)')
        /\ \A t \in Ticks : ~Claimed(t)' =>
               /\ TickKeys[t] \subseteq keydb
               /\ \A p \in 1 .. Len(c) : Avoids(c[p], t)
        /\ \A t \in Ticks : t \in overtaken' => KvrocksMode(mode)' /\ TxReached(t)'
    BY <1>2, <1>3, <1>m DEF Intact
  <2>0. /\ \A t \in Ticks : ~Claimed(t) => TickKeys[t] \subseteq keydb
        /\ \A t \in Ticks : t \in overtaken => KvrocksMode(mode) /\ TxReached(t)
    BY <1>0 DEF Intact
  <2>1. ASSUME NEW t \in Ticks, NEW p \in 1 .. Len(c), c[p].op = "cleanTransactionLogs", c[p].t = t, Cleans(t)'
        PROVE  TickKeys[t] \subseteq keydb \/ (KvrocksMode(mode)' /\ Gone(t)')
    <3>1. PICK u \in i .. j : c[p] \in BodyOf(u)
      BY <1>1, <2>1
    <3>2. u = t
      BY <1>o, <2>1, <3>1
    <3>3. t \in Int /\ t >= 2 /\ ~(t <= gc.tick)
      BY <1>t, <3>2
    <3>4. CASE LastNMode(mode)
      <4>1. ~KvrocksMode(mode)
        BY <3>4 DEF LastNMode, KvrocksMode
      <4>2. ~Claimed(t)
        BY <3>3, <4>1, IdleClaims
      <4> QED
        BY <2>0, <4>2
    <3>5. CASE KvrocksMode(mode)
      <4>1. t \in overtaken
        BY <1>3, <1>m, <2>1, <3>5 DEF Cleans, LastNMode, KvrocksMode
      <4>2. Gone(t)
        BY <3>3, <3>5, <4>1, OvertakenIsGone
      <4>3. Exempt(t)' <=> Exempt(t)
        BY <1>3, <1>m DEF Exempt
      <4>4. Gone(t)'
        BY <1>3, <4>2, <4>3 DEF Gone
      <4> QED
        BY <1>m, <3>5, <4>4
    <3> QED
      BY <3>4, <3>5
  <2>2. ASSUME NEW t \in Ticks, ~(t <= j), NEW p \in 1 .. Len(c) PROVE Avoids(c[p], t)
    <3>1. CASE p = Len(c)
      BY <1>1, <3>1 DEF Avoids
    <3>2. CASE p # Len(c)
      <4>1. PICK u \in i .. j : c[p] \in BodyOf(u)
        BY <1>1, <3>2
      <4>2. u \in Ticks /\ u # t
        BY <1>i, <1>t, <2>2
      <4> QED
        BY <4>1, <4>2, BodyAvoids
    <3> QED
      BY <3>1, <3>2
  <2>3. \A t \in Ticks : t \in overtaken' => KvrocksMode(mode)' /\ TxReached(t)'
    BY <1>3, <1>4, <1>m, <2>0
  <2> QED
    BY <1>1, <1>4, <2>0, <2>1, <2>2, <2>3
<1>8. gc.pc # "off" /\ pc \in {"tick", "tx", "end", "exited"} /\ (pc = "exited" => c = << >>)
  OBVIOUS
<1> QED
  BY Zenon, <1>1, <1>c, <1>5, <1>6, <1>8, NewPass

\* A key the modes no longer keep once the pass has begun is safe to delete.
LEMMA NotKeptIsSafe ==
    ASSUME NEW t \in Ticks
    PROVE  /\ ~RawKept(t)' => \A k \in Raw[t] : Safe(t, k)'
           /\ ~RangesKept(t)' => \A k \in LogRangeKeys[t] : Safe(t, k)'
           /\ ~TxKept(t)' => \A k \in Executed[t] : Safe(t, k)'
<1>1. ASSUME NEW k \in TickKeys[t] PROVE k # vtick(t)
  BY <1>1, TheVotes
<1>2. ASSUME NEW k
      PROVE  /\ k \in Raw[t] => k \notin LogRangeKeys[t] /\ k \notin Executed[t]
             /\ k \in LogRangeKeys[t] => k \notin Executed[t]
  BY GroupsAreDisjoint
<1>3. ASSUME NEW k \in TickKeys[t], k \notin Kept(t)' PROVE Safe(t, k)'
  BY <1>1, <1>3 DEF Safe
<1>l. LastNMode(mode') <=> mode'.tick = "LastNTick" /\ mode'.tx = "LastNTick"
  BY DEF LastNMode
<1>4. ASSUME ~RawKept(t)', NEW k \in Raw[t] PROVE k \notin Kept(t)'
  <2>1. mode'.tick = "LastNTick" /\ (~Recent(t, gLastNTickStorage)' \/ t \in swept')
    BY <1>4 DEF RawKept
  <2> QED
    BY <1>2, <2>1 DEF Kept, Promised, Dropped
<1>5. ASSUME ~RangesKept(t)', NEW k \in LogRangeKeys[t] PROVE k \notin Kept(t)'
  <2>1. \/ mode'.tick = "LastNTick" /\ mode'.tx = "LastNTick" /\ ~Recent(t, gLastNTickStorage)'
        \/ mode'.tick = "Free" /\ mode'.tx = "Kvrocks" /\ ~Recent(t, gTxTickToLive)'
        \/ mode'.tick = "LastNTick" /\ t \in swept'
    BY <1>5, <1>l DEF RangesKept
  <2> QED
    BY <1>2, <2>1 DEF Kept, Promised, Dropped
<1>6. ASSUME ~TxKept(t)', NEW k \in Executed[t] PROVE k \notin Kept(t)'
  <2>1. \/ mode'.tick = "LastNTick" /\ mode'.tx = "LastNTick" /\ ~Recent(t, gLastNTickStorage)'
        \/ mode'.tick = "Free" /\ mode'.tx = "Kvrocks" /\ ~Recent(t, gTxTickToLive)'
        \/ mode'.tx # "Kvrocks" /\ t \in swept'
    BY <1>6, <1>l DEF TxKept
  <2> QED
    BY <1>2, <2>1 DEF Kept, Promised, Dropped
<1> QED
  BY <1>3, <1>4, <1>5, <1>6, TickKeysHas

LEMMA PassReady ==
    ASSUME StoreInv, running, PassStarts, NEW j \in Int, gc.tick < j, j <= saved.indexed,
           NEW w \in BOOLEAN, LastNMode(mode) => w,
           \A t \in Ticks : gc.tick < t /\ t <= j =>
               /\ mode.tick # "Kvrocks" => ~RawKept(t)'
               /\ w /\ mode.tick # "Kvrocks" => ~RangesKept(t)'
               /\ w /\ ~KvrocksMode(mode) => ~TxKept(t)'
    PROVE  Ready(mode, Facts', gc.tick + 1, j, w)
<1> DEFINE i == gc.tick + 1
           F == Facts
           G == Facts'
<1>1. StoreTypes /\ Cursors /\ CleanedTicksAreGone
  BY DEF StoreInv
<1>2. saved.indexed \in 0 .. LastTick /\ saved.tick \in Int /\ gc.tick \in Int
  BY <1>1 DEF StoreTypes
<1>3. gc.tick = (IF saved.tick >= 1 THEN saved.tick ELSE 1)
  BY <1>1, <1>2, MaxWithOne DEF Cursors
<1>4. i \in Int /\ 2 <= i /\ i <= j /\ j <= LastTick
  BY <1>2, <1>3, TicksAre
<1>5. \A t \in i .. j : t \in Ticks /\ t <= saved.indexed /\ gc.tick < t /\ t <= j
  <2>1. \A t \in i .. j : t \in Int /\ 1 <= t /\ t <= LastTick /\ t <= saved.indexed /\ gc.tick < t /\ t <= j
    BY <1>2, <1>4, TicksAre
  <2> QED
    BY <2>1, TicksAre
<1>6. \A t \in 2 .. i - 1 : t \in Ticks /\ t <= saved.tick /\ t \in gInitialTick + 1 .. LastTick
  BY <1>2, <1>3, <1>4, TicksAre DEF gInitialTick
<1>k. \A t \in Ticks : \A k : k \in Raw[t] \/ k \in LogRangeKeys[t] \/ k \in Executed[t] \/ k \in TxKeys(t) => k \in Keys
  BY TickKeysHas, TxKeysIn, KeysType
<1>f. \A kind \in Kinds : \A t \in Ticks : \A k \in Keys : k \in F[kind][t] <=> Fact(kind, t, k)
  BY FactsHave
<1>m. \A kind \in Kinds : \A t \in Ticks : \A k \in Keys : k \in F[kind][t] => k \in G[kind][t]
  BY PassIsQuiet DEF More
<1>s. \A t \in Ticks : \A k \in Keys : Safe(t, k)' => k \in G["safe"][t]
  BY FactsHaveNext, KindsAre DEF Fact
<1>7. ASSUME NEW t \in i .. j, NEW k \in Keys PROVE k \in G["old"][t]
  <2>1. k \in F["old"][t]
    BY <1>5, OldFacts
  <2> HIDE DEF F, G
  <2> QED
    BY <1>5, <1>m, <2>1, KindsAre
<1>8. ASSUME NEW t \in 2 .. i - 1, NEW k \in Raw[t] PROVE k \in G["raw"][t]
  <2>1. Raw[t] \cap keydb = {}
    BY <1>1, <1>6 DEF CleanedTicksAreGone
  <2>2. Fact("raw", t, k)
    BY <1>8, <2>1 DEF Fact
  <2> HIDE DEF F, G
  <2> QED
    BY <1>6, <1>8, <1>f, <1>k, <1>m, <2>2, KindsAre
<1>9. ASSUME LastNMode(mode), NEW t \in 2 .. i - 1, NEW k \in TxKeys(t) PROVE k \in G["gone"][t]
  <2>1. t \notin Empty /\ ~crashed => TxKeys(t) \cap keydb = {}
    BY <1>1, <1>6, <1>9 DEF CleanedTicksAreGone, LastNMode
  <2>2. Fact("gone", t, k)
    BY <1>9, <2>1 DEF Fact, Exempt
  <2> HIDE DEF F, G
  <2> QED
    BY <1>6, <1>9, <1>f, <1>k, <1>m, <2>2, KindsAre
<1>10. ASSUME NEW t \in i .. j
       PROVE  /\ mode.tick # "Kvrocks" => \A k \in Raw[t] : k \in G["safe"][t]
              /\ w /\ mode.tick # "Kvrocks" => \A k \in LogRangeKeys[t] : k \in G["safe"][t]
              /\ w /\ ~KvrocksMode(mode) => \A k \in Executed[t] : k \in G["safe"][t]
  <2>0. t \in Ticks /\ gc.tick < t /\ t <= j
    BY <1>5
  <2>1. /\ mode.tick # "Kvrocks" => ~RawKept(t)'
        /\ w /\ mode.tick # "Kvrocks" => ~RangesKept(t)'
        /\ w /\ ~KvrocksMode(mode) => ~TxKept(t)'
    BY <2>0
  <2>2. /\ mode.tick # "Kvrocks" => \A k \in Raw[t] : Safe(t, k)'
        /\ w /\ mode.tick # "Kvrocks" => \A k \in LogRangeKeys[t] : Safe(t, k)'
        /\ w /\ ~KvrocksMode(mode) => \A k \in Executed[t] : Safe(t, k)'
    BY <2>0, <2>1, NotKeptIsSafe
  <2> HIDE DEF G
  <2> QED
    BY <1>k, <1>s, <2>0, <2>2
<1> HIDE DEF i, F, G
<1>11. Ready(mode, G, i, j, w)
  BY <1>4, <1>7, <1>8, <1>9, <1>10 DEF Ready
<1> QED
  BY <1>11 DEF i, G

LEMMA MinOfTwo ==
    ASSUME NEW x \in Int, NEW y \in Int
    PROVE  Min({x, y}) = IF x <= y THEN x ELSE y
<1> DEFINE S == {x, y}
           v == IF x <= y THEN x ELSE y
           w == CHOOSE z \in S : \A a \in S : z <= a
<1>1. v \in S /\ \A a \in S : v <= a
  OBVIOUS
<1>2. w \in S /\ \A a \in S : w <= a
  BY <1>1
<1>3. w = v
  BY <1>1, <1>2
<1>4. Min({x, y}) = w
  BY Zenon DEF Min
<1> HIDE DEF v, w
<1> QED
  BY <1>3, <1>4 DEF v

LEMMA TickPassStep ==
    ASSUME StoreInv, TickPass
    PROVE  StoreInv'
<1> DEFINE u == gCurrentIndexingTick
           j == TickTarget
           w == (mode.tx = "LastNTick")
<1>0. /\ gc.pc = "tick" /\ gc.agenda = << >> /\ gc.pc # "off"
      /\ UNCHANGED <<mode, store, saved, process, history>>
  BY DEF TickPass
<1>p. PassStarts /\ UNCHANGED <<mode, saved, overtaken, swept>>
  BY <1>0 DEF PassStarts, history
<1>1. StoreTypes /\ Cursors
  BY DEF StoreInv
<1>2. mode \in ValidModes /\ saved.indexed \in 0 .. LastTick /\ u \in 0 .. LastTick
  BY <1>1 DEF StoreTypes
<1>3. running /\ u = saved.indexed
  BY <1>0, <1>1 DEF Cursors, CleanerOff
<1>c. LastTick \in Nat /\ CLEAN_LAG \in Nat /\ gLastNTickStorage \in Nat
  BY StoreAssumption
<1>4. /\ j \in Int /\ j <= saved.indexed
      /\ mode.tick = "LastNTick" => j <= saved.indexed - 1 - gLastNTickStorage
  <2>1. CASE mode.tick = "LastNTick"
    <3> DEFINE x == u - CLEAN_LAG
               y == u - 1 - gLastNTickStorage
    <3>1. x \in Int /\ y \in Int /\ x <= saved.indexed /\ y = saved.indexed - 1 - gLastNTickStorage
      BY <1>2, <1>3, <1>c
    <3>2. j = Min({x, y})
      BY <2>1 DEF TickTarget
    <3> HIDE DEF x, y, j
    <3>3. j = IF x <= y THEN x ELSE y
      BY <3>1, <3>2, MinOfTwo
    <3> QED
      BY <1>2, <1>c, <2>1, <3>1, <3>3
  <2>2. CASE mode.tick # "LastNTick"
    <3>1. j = u - CLEAN_LAG
      BY <2>2 DEF TickTarget
    <3> QED
      BY <1>2, <1>3, <1>c, <2>2, <3>1
  <2> QED
    BY <2>1, <2>2
<1>m. /\ mode.tick = "Kvrocks" => mode.tx # "LastNTick"
      /\ mode.tick \in {"LastNTick", "Kvrocks", "Free"}
  BY <1>2 DEF ValidModes
<1>5. CASE mode.tick # "Free" /\ gc.tick < j
  <2>1. gc' = [gc EXCEPT !.pc = "tx", !.agenda = CleanTicks(gc.tick + 1, j, w)]
    BY <1>5 DEF TickPass
  <2>2. ASSUME NEW t \in Ticks, t <= j, mode.tick # "Kvrocks"
        PROVE  ~RawKept(t)' /\ (w => ~RangesKept(t)' /\ ~TxKept(t)')
    <3>1. mode.tick = "LastNTick" /\ t \in Int
      BY <1>5, <1>m, <2>2, TicksAre
    <3>2. ~Recent(t, gLastNTickStorage)'
      <4>1. j \in Int /\ j <= saved.indexed - 1 - gLastNTickStorage /\ saved' = saved
        BY <1>4, <1>p, <3>1
      <4> HIDE DEF j
      <4> QED
        BY <1>2, <1>c, <2>2, <3>1, <4>1 DEF Recent
    <3>3. w => LastNMode(mode')
      BY <1>p, <3>1 DEF LastNMode
    <3> QED
      BY <1>p, <3>1, <3>2, <3>3 DEF RawKept, TxKept, RangesKept
  <2>3. /\ w \in BOOLEAN /\ (LastNMode(mode) => w)
        /\ \A t \in Ticks : gc.tick < t /\ t <= j =>
               /\ mode.tick # "Kvrocks" => ~RawKept(t)'
               /\ w /\ mode.tick # "Kvrocks" => ~RangesKept(t)'
               /\ w /\ ~KvrocksMode(mode) => ~TxKept(t)'
    <3>1. w /\ mode.tick = "Kvrocks" => FALSE
      BY <1>m
    <3>2. w \in BOOLEAN /\ (LastNMode(mode) => w)
      BY DEF LastNMode
    <3> HIDE DEF w, j
    <3> QED
      BY <2>2, <3>1, <3>2
  <2>4. j \in Int /\ gc.tick < j /\ j <= saved.indexed
    BY <1>4, <1>5
  <2>6. "tx" \in {"tx", "end"}
    OBVIOUS
  <2> HIDE DEF j, w
  <2>7. Ready(mode, Facts', gc.tick + 1, j, w)
    BY <1>3, <1>p, <2>3, <2>4, PassReady
  <2>8. PICK i : i = gc.tick + 1
    OBVIOUS
  <2>10. Ready(mode, Facts', i, j, w) /\ gc' = [gc EXCEPT !.pc = "tx", !.agenda = CleanTicks(i, j, w)]
    BY <2>1, <2>7, <2>8
  <2>11. overtaken' = overtaken
    BY <1>p
  <2> QED
    BY Zenon, <1>0, <1>3, <1>p, <2>6, <2>8, <2>10, <2>11, PassBegins
<1>6. CASE ~(mode.tick # "Free" /\ gc.tick < j)
  <2>1. gc' = [gc EXCEPT !.pc = "tx", !.agenda = << >>]
    BY <1>6 DEF TickPass
  <2>3. "tx" \in {"tick", "tx", "end", "exited"}
    OBVIOUS
  <2> QED
    BY Zenon, <1>0, <2>1, <2>3, PassSkips
<1> QED
  BY <1>5, <1>6

LEMMA EndPassStep ==
    ASSUME StoreInv, EndPass
    PROVE  StoreInv'
<1> DEFINE j == gCurrentIndexingTick - 1
           all == gIsEndEpoch /\ mode.tick # "Free" /\ gc.tick < j
<1>0. /\ gc.pc = "tick" /\ gc.agenda = << >> /\ gc.pc # "off"
      /\ gc' = [gc EXCEPT !.pc = "end", !.agenda = IF all THEN CleanTicks(gc.tick + 1, j, TRUE) ELSE << >>]
      /\ swept' = IF all THEN swept \cup (gc.tick + 1 .. j) ELSE swept
      /\ UNCHANGED <<mode, store, saved, process, unsaved, crashed, overtaken>>
  BY DEF EndPass
<1>1. StoreTypes /\ Cursors
  BY DEF StoreInv
<1>2. /\ saved.indexed \in 0 .. LastTick /\ gCurrentIndexingTick \in 0 .. LastTick
      /\ mode.tick \in {"LastNTick", "Kvrocks", "Free"} /\ gc.tick \in Int
  BY <1>1 DEF StoreTypes, ValidModes
<1>3. running /\ gCurrentIndexingTick = saved.indexed
  BY <1>0, <1>1 DEF Cursors, CleanerOff
<1>p. PassStarts
  BY <1>0 DEF PassStarts
<1>5. CASE all
  <2>1. /\ gc' = [gc EXCEPT !.pc = "end", !.agenda = CleanTicks(gc.tick + 1, j, TRUE)]
        /\ swept' = swept \cup (gc.tick + 1 .. j)
    BY <1>0, <1>5
  <2>2. j \in Int /\ j <= saved.indexed /\ gc.tick < j /\ mode.tick # "Free"
    BY <1>2, <1>3, <1>5
  <2> HIDE DEF j
  <2>4. PICK w \in BOOLEAN : w = TRUE
    OBVIOUS
  <2>3. ASSUME NEW t \in Ticks, gc.tick < t, t <= j
        PROVE  /\ mode.tick # "Kvrocks" => ~RawKept(t)'
               /\ w /\ mode.tick # "Kvrocks" => ~RangesKept(t)'
               /\ w /\ ~KvrocksMode(mode) => ~TxKept(t)'
    <3>1. t \in swept' /\ mode' = mode
      <4>1. t \in gc.tick + 1 .. j
        BY <1>2, <2>2, <2>3, TicksAre
      <4> QED
        BY <1>0, <2>1, <4>1
    <3>2. mode.tick # "Kvrocks" => mode.tick = "LastNTick"
      BY <1>2, <2>2
    <3>3. mode.tick # "Kvrocks" => mode.tx # "Kvrocks"
      BY <1>1, <3>2 DEF StoreTypes, ValidModes
    <3>4. mode.tick # "Kvrocks" => ~RawKept(t)' /\ ~RangesKept(t)'
      BY <3>1, <3>2 DEF RawKept, RangesKept
    <3>5. ~KvrocksMode(mode) => ~TxKept(t)'
      BY <3>1, <3>3 DEF TxKept, KvrocksMode
    <3> QED
      BY <3>4, <3>5
  <2>5. Ready(mode, Facts', gc.tick + 1, j, w)
    BY <1>3, <1>p, <2>2, <2>3, <2>4, PassReady
  <2>6. PICK i : i = gc.tick + 1
    OBVIOUS
  <2>7. Ready(mode, Facts', i, j, w) /\ gc' = [gc EXCEPT !.pc = "end", !.agenda = CleanTicks(i, j, w)]
    BY <2>1, <2>4, <2>5, <2>6
  <2>8. "end" \in {"tx", "end"}
    OBVIOUS
  <2>9. overtaken' = overtaken
    BY <1>0
  <2> QED
    BY Zenon, <1>0, <1>3, <1>p, <2>6, <2>7, <2>8, <2>9, PassBegins
<1>6. CASE ~all
  <2>1. gc' = [gc EXCEPT !.pc = "end", !.agenda = << >>]
    BY <1>0, <1>6
  <2>2. UNCHANGED <<mode, store, saved, process, history>>
    BY <1>0, <1>6 DEF history
  <2>3. "end" \in {"tick", "tx", "end", "exited"}
    OBVIOUS
  <2> QED
    BY Zenon, <1>0, <2>1, <2>2, <2>3, PassSkips
<1> QED
  BY <1>5, <1>6

LEMMA CleanerExitsStep ==
    ASSUME StoreInv, CleanerExits
    PROVE  StoreInv'
<1>0. /\ gc.pc = "end" /\ gc.agenda = << >> /\ gc' = [gc EXCEPT !.pc = "exited"] /\ gc.pc # "off"
      /\ UNCHANGED <<mode, store, saved, process, history>>
  BY DEF CleanerExits
<1>1. gc \in [pc : {"off", "tick", "tx", "end", "exited"}, tick : Int, tx : Int, agenda : Seq(Cmds)]
  BY DEF StoreInv, StoreTypes
<1>2. gc' = [gc EXCEPT !.pc = "exited", !.agenda = << >>]
  BY <1>0, <1>1
<1>3. "exited" \in {"tick", "tx", "end", "exited"}
  OBVIOUS
<1> QED
  BY Zenon, <1>0, <1>2, <1>3, PassSkips

\* What the pass over the transactions may clean.
LEMMA TxsAreCallable ==
    ASSUME StoreInv, running, gc.agenda = << >>, mode.tx = "Kvrocks", PassStarts,
           NEW t \in Ticks, 2 <= t, t <= saved.indexed - 1 - gTxTickToLive,
           mode.tick = "Kvrocks" /\ t > gc.tick => t \in overtaken'
    PROVE  Callable(mode, Facts', t)
<1> DEFINE F == Facts
           G == Facts'
<1>1. StoreTypes /\ CleanedTicksAreGone /\ WholeIsSafe
  BY DEF StoreInv
<1>2. saved.indexed \in 0 .. LastTick /\ saved.tick \in Int /\ gc.tick \in Int /\ mode \in ValidModes
  BY <1>1 DEF StoreTypes
<1>c. LastTick \in Nat /\ gTxTickToLive \in Nat /\ t \in Int
  BY StoreAssumption, TicksAre
<1>m. mode.tick = "Kvrocks" \/ mode.tick = "Free"
  BY <1>2 DEF ValidModes
<1>q. UNCHANGED <<mode, saved>> /\ Grow /\ More(Facts, Facts')
  BY PassIsQuiet
<1>4. t <= saved.indexed
  BY <1>2, <1>c
<1>k. \A k : k \in Raw[t] \/ k \in LogRangeKeys[t] \/ k \in Executed[t] \/ k \in Whole(t) => k \in Keys
  BY TickKeysHas, KeysType
<1>s. \A k \in Keys : /\ Safe(t, k)' => k \in G["safe"][t] /\ k \in G["found"][t]
                      /\ t \in overtaken' => k \in G["found"][t]
  BY FactsHaveNext, KindsAre DEF Fact
<1>5. \A k \in Keys : k \in G["old"][t]
  <2>1. \A k \in Keys : k \in F["old"][t]
    BY <1>4, OldFacts
  <2>2. More(F, G)
    BY <1>q
  <2> HIDE DEF F, G
  <2> QED
    BY <2>1, <2>2, KindsAre DEF More
<1>6. ASSUME mode.tick = "Kvrocks", t <= gc.tick, NEW k \in Whole(t) PROVE Safe(t, k)'
  <2>5. t <= saved.tick /\ t \in gInitialTick + 1 .. LastTick
    <3>1. t <= saved.tick
      BY <1>6, IdleClaims
    <3> QED
      BY <1>2, <1>4, <1>c, <3>1 DEF gInitialTick
  <2>6. Raw[t] \cap keydb = {}
    BY <1>1, <2>5 DEF CleanedTicksAreGone
  <2>7. ~(Raw[t] \subseteq keydb)
    BY <2>6, TheVotes
  <2>8. Safe(t, k)
    BY <1>1, <1>6, <2>7 DEF WholeIsSafe
  <2> QED
    BY <1>2, <1>q, <2>8, SafeStays
<1>7. ASSUME mode.tick = "Free" PROVE ~TxKept(t)' /\ ~RangesKept(t)'
  <2>1. ~Recent(t, gTxTickToLive)'
    BY <1>2, <1>q, <1>c DEF Recent
  <2> QED
    BY <1>7, <1>q, <2>1 DEF TxKept, RangesKept
<1>8. ~KvrocksMode(mode) => mode.tick = "Free"
  BY <1>m DEF KvrocksMode
<1>o. ASSUME t \in overtaken', NEW k \in LogRangeKeys[t] PROVE Safe(t, k)'
  <2>1. k \in Excused(t)'
    <3>1. k \in db_insert_log_range(t)
      BY DEF LogRangeKeys
    <3> QED
      BY <1>o, <3>1 DEF Excused
  <2>2. k # vtick(t)
    BY TheVotes, TickKeysHas
  <2> QED
    BY <2>1, <2>2 DEF Safe
<1>r. mode.tick = "Kvrocks" => t \in overtaken' \/ t <= gc.tick
  BY <1>2, <1>c
<1>w. \A k \in LogRangeKeys[t] : k \in Whole(t)
  BY WholeHas
<1>g. ASSUME NEW k \in LogRangeKeys[t] PROVE Safe(t, k)'
  <2>1. CASE mode.tick = "Free"
    BY <1>7, <2>1, NotKeptIsSafe
  <2>2. CASE mode.tick = "Kvrocks"
    BY <1>6, <1>o, <1>r, <1>w, <2>2
  <2> QED
    BY <1>m, <2>1, <2>2
<1>e. ~KvrocksMode(mode) => \A k \in Executed[t] : Safe(t, k)'
  BY <1>7, <1>8, NotKeptIsSafe
<1> HIDE DEF F, G
<1>9. mode.tick = "Kvrocks" => \A k \in Whole(t) : k \in G["found"][t]
  BY <1>6, <1>k, <1>r, <1>s
<1>10. /\ \A k \in LogRangeKeys[t] : k \in G["safe"][t]
       /\ ~KvrocksMode(mode) => \A k \in Executed[t] : k \in G["safe"][t]
  BY <1>e, <1>g, <1>k, <1>s
<1>11. Callable(mode, G, t)
  BY <1>5, <1>9, <1>10, ReadyIsCallable
<1> QED
  BY <1>11 DEF G

\* The pass over the transactions has ticks to clean.
LEMMA TxPassBegins ==
    ASSUME StoreInv, running, gc.pc = "tx", gc.agenda = << >>, mode.tx = "Kvrocks", PassStarts,
           NEW i, i = gc.tx + 1, NEW j \in Int, i <= j, j <= saved.indexed - 1 - gTxTickToLive,
           gc' = [gc EXCEPT !.pc = "tick",
                            !.agenda = Concat([t \in i .. j |-> Call("cleanTransactionLogs", t)]) \o SaveTx(j)],
           \A t \in Ticks : t \in overtaken' <=>
               t \in overtaken \/ (KvrocksMode(mode) /\ i <= t /\ t <= j /\ t > gc.tick)
    PROVE  StoreInv'
<1> DEFINE g == [t \in i .. j |-> Call("cleanTransactionLogs", t)]
           b == Concat(g)
           d == Cmd("saveTx", j, {})
           c == b \o SaveTx(j)
           F == Facts
           G == Facts'
<1>1. StoreTypes /\ Cursors /\ CleanedTicksAreGone /\ Intact
  BY DEF StoreInv
<1>2. /\ saved.indexed \in 0 .. LastTick /\ saved.tx \in Int /\ saved.tick \in Int
      /\ gc \in [pc : {"off", "tick", "tx", "end", "exited"}, tick : Int, tx : Int, agenda : Seq(Cmds)]
  BY <1>1 DEF StoreTypes
<1>3. gc.tx = (IF saved.tx >= 1 THEN saved.tx ELSE 1) /\ gc.tick \in Int
  BY <1>1, <1>2, MaxWithOne DEF Cursors
<1>n. gTxTickToLive \in Nat /\ LastTick \in Nat /\ saved.indexed \in Int /\ saved.indexed <= LastTick
      /\ gc.tx \in Int /\ gc.tx >= 1 /\ saved.tx <= gc.tx
  BY <1>2, <1>3, StoreAssumption
<1>i. i \in Int /\ 2 <= i /\ i <= j /\ j <= LastTick /\ j >= 1 /\ saved.tx < i
  <2> HIDE DEF g, b, c, d
  <2>1. i \in Int /\ 2 <= i /\ saved.tx < i
    BY <1>2, <1>n
  <2>2. j <= LastTick /\ j >= 1
    BY <1>n, <2>1
  <2> QED
    BY <2>1, <2>2
<1>t. \A t \in i .. j : t \in Ticks /\ t \in Int /\ t >= 2 /\ i <= t /\ t <= j /\ t <= saved.indexed - 1 - gTxTickToLive
  <2>1. \A t \in i .. j : t \in Int /\ 1 <= t /\ t <= LastTick /\ 2 <= t /\ t <= saved.indexed - 1 - gTxTickToLive
    <3> HIDE DEF g, b, c, d
    <3> TAKE t \in i .. j
    <3>1. t \in Int /\ i <= t /\ t <= j
      BY <1>i
    <3> QED
      BY <1>i, <1>n, <3>1
  <2> QED
    BY <1>i, <2>1, TicksAre
<1>c. gc' = [gc EXCEPT !.pc = "tick", !.agenda = c]
  OBVIOUS
<1>q. UNCHANGED <<mode, keydb, saved, unsaved, crashed>> /\ More(Facts, Facts')
  BY PassIsQuiet
<1>m. (LastNMode(mode)' <=> LastNMode(mode)) /\ (KvrocksMode(mode)' <=> KvrocksMode(mode)) /\ ~LastNMode(mode)
      /\ (mode.tick = "Kvrocks" => KvrocksMode(mode))
  BY <1>q DEF LastNMode, KvrocksMode
<1>5. ASSUME NEW t \in i .. j PROVE Callable(mode, G, t)
  <2>1. mode.tick = "Kvrocks" /\ t > gc.tick => t \in overtaken'
    BY <1>m, <1>t
  <2> QED
    BY <1>t, <2>1, TxsAreCallable
<1>6. ASSUME mode.tick = "Kvrocks", NEW t \in 2 .. i - 1, NEW k \in TxKeys(t) PROVE k \in G["gone"][t]
  <2>1. t \in Ticks /\ t <= saved.tx /\ t \in gInitialTick + 1 .. LastTick
    BY <1>2, <1>3, <1>i, TicksAre DEF gInitialTick
  <2>2. (t \in overtaken => ~crashed /\ t \notin Empty)
        /\ unsaved \cap (TickKeys[t] \cup {<<"vtick", t, 0>>}) = {} => TxKeys(t) \cap keydb = {}
    BY <1>1, <1>6, <2>1 DEF CleanedTicksAreGone
  <2>3. Fact("gone", t, k)
    BY <1>6, <1>m, <2>2 DEF Fact, Exempt, vtick
  <2>4. k \in Keys
    BY <2>1, TxKeysIn, KeysType
  <2>5. k \in F["gone"][t]
    BY <2>1, <2>3, <2>4, FactsHave, KindsAre
  <2>6. More(F, G)
    BY <1>q
  <2> HIDE DEF F, G
  <2> QED
    BY <2>1, <2>4, <2>5, <2>6, KindsAre DEF More
<1> HIDE DEF F, G
<1>8. b \in Seq(Body(i, j)) /\ Sound(mode, c, G)
  BY <1>i, <1>5, <1>6, <1>m, TxsCleaned
<1>10. SaveTx(j) = <<d>> /\ d \in Cmds /\ d.op = "saveTx" /\ d.t = j /\ d.keys = {}
  BY <1>i, SaveType, CmdFields DEF SaveTx
<1>11. CleanedOnce(b \o <<d>>)
  <2>1. ASSUME NEW t \in i .. j PROVE g[t] \in Seq(BodyOf(t)) /\ CleanedOnce(g[t])
    <3>1. g[t] = Call("cleanTransactionLogs", t)
      OBVIOUS
    <3>2. Call("cleanTransactionLogs", t) \in Seq(BodyOf(t))
      BY <1>5, <1>t, CallOfClean
    <3>3. Call("cleanTransactionLogs", t) = <<Cmd("cleanTransactionLogs", t, {})>>
      BY DEF Call, Command, Cmd
    <3>4. \A x : CleanedOnce(<<x>>)
      BY DEF CleanedOnce
    <3> QED
      BY <3>1, <3>2, <3>3, <3>4
  <2>2. g = [t \in i .. j |-> g[t]] /\ d.op # "cleanTransactionLogs"
    BY <1>10
  <2> HIDE DEF g, d
  <2> QED
    BY <1>i, <1>10, <2>1, <2>2, PassCleansOnce
<1> HIDE DEF b
<1>9. b \in Seq(Cmds) /\ \A p \in 1 .. Len(b) : \E t \in i .. j : b[p] \in BodyOf(t)
  BY <1>i, <1>8, BodySeq
<1> HIDE DEF d
<1> DEFINE e == <<d>>
<1>e. c = b \o e /\ e \in Seq(Cmds) /\ Len(e) = 1 /\ e[1] = d /\ CleanedOnce(c)
  BY <1>10, <1>11
<1> HIDE DEF c, e
<1>12. /\ c \in Seq(Cmds) /\ Len(b) \in Nat /\ Len(c) = Len(b) + 1
       /\ \A p \in 1 .. Len(b) : c[p] = b[p]
       /\ c[Len(b) + 1] = d
  <2>1. /\ c \in Seq(Cmds) /\ Len(b) \in Nat /\ Len(c) = Len(b) + Len(e)
        /\ \A p \in 1 .. Len(b) : c[p] = b[p]
        /\ \A p \in 1 .. Len(e) : c[Len(b) + p] = e[p]
    <3>1. b \in Seq(Cmds) /\ e \in Seq(Cmds) /\ c = b \o e
      BY <1>9, <1>e
    <3>2. /\ b \o e \in Seq(Cmds) /\ Len(b \o e) = Len(b) + Len(e)
          /\ \A p \in 1 .. Len(b) : (b \o e)[p] = b[p]
          /\ \A p \in 1 .. Len(e) : (b \o e)[Len(b) + p] = e[p]
      BY <3>1, ConcatProperties
    <3> QED
      BY <3>1, <3>2
  <2> QED
    BY <1>e, <2>1
<1>o. \A t : \A x \in BodyOf(t) : x.op \notin {"saveTick", "saveTx"} /\ (x.op = "cleanTransactionLogs" => x.t = t)
  BY DEF BodyOf
<1>13. /\ \A p \in 1 .. Len(c) : p # Len(c) => \E t \in i .. j : c[p] \in BodyOf(t)
       /\ Len(c) \in Nat /\ Len(c) >= 1 /\ c[Len(c)] = d
  <2>1. ASSUME NEW p \in 1 .. Len(c), p # Len(c) PROVE \E t \in i .. j : c[p] \in BodyOf(t)
    <3>1. p \in 1 .. Len(b)
      BY <1>12, <2>1
    <3> QED
      BY <1>9, <1>12, <3>1
  <2> QED
    BY <1>12, <2>1
<1>r. \A p \in 1 .. Len(c) : c[p].op # "saveTick" /\ (c[p].op = "saveTx" => p = Len(c))
  BY <1>10, <1>13, <1>o
<1>14. gc'.agenda = c
  BY <1>2, <1>c
<1>15. ASSUME NEW t \in Ticks
       PROVE  /\ Reached(t)' <=> Reached(t)
              /\ TxReached(t)' <=> t <= saved.tx \/ t <= j
              /\ TxReached(t) <=> t <= saved.tx
  <2>1. (TxReached(t) <=> t <= saved.tx) /\ (Reached(t) <=> t <= saved.tick)
    BY IdleClaims
  <2>2. Reached(t)' <=> t <= saved.tick
    BY <1>14, <1>q, <1>r DEF Reached
  <2>3. TxReached(t)' <=> t <= saved.tx \/ t <= j
    <3>1. Len(c) \in 1 .. Len(c) /\ c[Len(c)].op = "saveTx" /\ c[Len(c)].t = j
      BY <1>10, <1>13
    <3>2. \A p \in 1 .. Len(c) : c[p].op = "saveTx" => c[p].t = j
      BY <1>r, <3>1
    <3>3. (\E p \in 1 .. Len(c) : c[p].op = "saveTx" /\ t <= c[p].t) <=> t <= j
      BY <3>1, <3>2
    <3> QED
      BY <1>14, <1>q, <3>3 DEF TxReached
  <2> QED
    BY <2>1, <2>2, <2>3
<1>16. SaveIsLast'
  <2>1. saved.tx <= j
    BY <1>2, <1>i
  <2> QED
    BY <1>10, <1>13, <1>14, <1>q, <1>r, <2>1 DEF SaveIsLast
<1>17. Intact'
  <2> SUFFICES ASSUME KvrocksMode(mode), ~crashed PROVE
        /\ CleanedOnce(c)
        /\ \A t \in Ticks : \A p \in 1 .. Len(c) :
               c[p].op = "cleanTransactionLogs" /\ c[p].t = t /\ Cleans(t)' =>
                   TickKeys[t] \subseteq keydb \/ (KvrocksMode(mode)' /\ Gone(t)')
        /\ \A t \in Ticks : ~Claimed(t)' =>
               /\ TickKeys[t] \subseteq keydb
               /\ \A p \in 1 .. Len(c) : Avoids(c[p], t)
        /\ \A t \in Ticks : t \in overtaken' => KvrocksMode(mode)' /\ TxReached(t)'
    BY <1>14, <1>m, <1>q DEF Intact
  <2>0. /\ \A t \in Ticks : ~Claimed(t) => TickKeys[t] \subseteq keydb
        /\ \A t \in Ticks : t \in overtaken => KvrocksMode(mode) /\ TxReached(t)
    BY <1>1 DEF Intact
  <2>1. ASSUME NEW t \in Ticks, NEW p \in 1 .. Len(c), c[p].op = "cleanTransactionLogs", c[p].t = t, Cleans(t)'
        PROVE  TickKeys[t] \subseteq keydb
    <3>1. PICK u \in i .. j : c[p] \in BodyOf(u)
      BY <1>10, <1>13, <2>1
    <3>2. u = t
      BY <1>o, <2>1, <3>1
    <3>3. t \in Int /\ t >= 2 /\ i <= t
      BY <1>t, <3>2
    <3>4. t \in overtaken'
      BY <1>m, <2>1 DEF Cleans
    <3>5. ~(t <= saved.tx)
      BY <1>2, <1>i, <3>3
    <3>6. t \notin overtaken
      BY <1>15, <2>0, <3>5
    <3>7. t > gc.tick /\ t > gc.tx
      <4>1. t > gc.tick
        BY <3>4, <3>6
      <4>2. t > gc.tx
        BY <1>n, <3>3
      <4> QED
        BY <4>1, <4>2
    <3>8. ~Claimed(t)
      BY <1>2, <1>3, <3>3, <3>7, IdleClaims
    <3> QED
      BY <2>0, <3>8
  <2>2. ASSUME NEW t \in Ticks, ~(t <= j), NEW p \in 1 .. Len(c) PROVE Avoids(c[p], t)
    <3>1. CASE p = Len(c)
      BY <1>10, <1>13, <3>1 DEF Avoids
    <3>2. CASE p # Len(c)
      <4>1. PICK u \in i .. j : c[p] \in BodyOf(u)
        BY <1>13, <3>2
      <4>2. u \in Ticks /\ u # t
        BY <1>i, <1>t, <2>2
      <4> QED
        BY <4>1, <4>2, BodyAvoids
    <3> QED
      BY <3>1, <3>2
  <2>3. ASSUME NEW t \in Ticks, ~Claimed(t)' PROVE ~Claimed(t) /\ ~(t <= j)
    BY <1>15, <1>m, <2>3 DEF Claimed
  <2>4. \A t \in Ticks : t \in overtaken' => KvrocksMode(mode)' /\ TxReached(t)'
    BY <1>15, <1>m, <2>0
  <2> QED
    BY <1>e, <2>0, <2>1, <2>2, <2>3, <2>4
<1>18. "tick" \in {"tick", "tx", "end", "exited"} /\ gc.pc # "off" /\ ("tick" = "exited" => c = << >>)
  OBVIOUS
<1>19. Sound(mode, c, Facts')
  BY <1>8 DEF G
<1> QED
  BY Zenon, <1>12, <1>c, <1>16, <1>17, <1>18, <1>19, NewPass

LEMMA TxPassStep ==
    ASSUME StoreInv, TxPass
    PROVE  StoreInv'
<1> DEFINE u == gCurrentIndexingTick
           j == TxTarget
<1>0. /\ gc.pc = "tx" /\ gc.agenda = << >> /\ gc.pc # "off"
      /\ UNCHANGED <<mode, store, saved, process, unsaved, crashed, swept>>
      /\ overtaken' = overtaken \cup
             {t \in gc.tx + 1 .. j : mode.tick = "Kvrocks" /\ mode.tx = "Kvrocks" /\ t > gc.tick}
  BY DEF TxPass
<1>p. PassStarts
  BY <1>0 DEF PassStarts
<1>1. StoreTypes /\ Cursors
  BY DEF StoreInv
<1>2. saved.indexed \in 0 .. LastTick /\ u \in 0 .. LastTick /\ gc.tx \in Int /\ gc.tick \in Int
  BY <1>1 DEF StoreTypes
<1>3. running /\ u = saved.indexed
  BY <1>0, <1>1 DEF Cursors, CleanerOff
<1>c. LastTick \in Nat /\ CLEAN_LAG \in Nat /\ gTxTickToLive \in Nat
  BY StoreAssumption
<1>4. j \in Int /\ j <= saved.indexed - 1 - gTxTickToLive
  <2> DEFINE x == u - CLEAN_LAG
             y == u - 1 - gTxTickToLive
  <2>1. x \in Int /\ y \in Int /\ y = saved.indexed - 1 - gTxTickToLive
    BY <1>2, <1>3, <1>c
  <2>2. j = Min({x, y})
    BY DEF TxTarget
  <2> HIDE DEF x, y, j
  <2>3. j = IF x <= y THEN x ELSE y
    BY <2>1, <2>2, MinOfTwo
  <2> QED
    BY <1>2, <1>c, <2>1, <2>3
<1>5. CASE mode.tx = "Kvrocks" /\ gc.tx < j
  <2>1. PICK i : i = gc.tx + 1
    OBVIOUS
  <2>2. gc' = [gc EXCEPT !.pc = "tick",
                         !.agenda = Concat([t \in i .. j |-> Call("cleanTransactionLogs", t)]) \o SaveTx(j)]
    BY <1>5, <2>1 DEF TxPass
  <2> HIDE DEF j
  <2>3. i \in Int /\ i <= j
    BY <1>2, <1>4, <1>5, <2>1
  <2>4. ASSUME NEW t \in Ticks
        PROVE  t \in overtaken' <=>
                   t \in overtaken \/ (KvrocksMode(mode) /\ i <= t /\ t <= j /\ t > gc.tick)
    <3>1. t \in i .. j <=> i <= t /\ t <= j
      BY <1>4, <2>3, TicksAre
    <3> QED
      BY <1>0, <2>1, <3>1 DEF KvrocksMode
  <2> QED
    BY <1>0, <1>3, <1>4, <1>5, <1>p, <2>1, <2>2, <2>3, <2>4, TxPassBegins
<1>6. CASE ~(mode.tx = "Kvrocks" /\ gc.tx < j)
  <2>1. gc' = [gc EXCEPT !.pc = "tick", !.agenda = << >>]
    BY <1>6 DEF TxPass
  <2>2. overtaken' = overtaken
    <3> HIDE DEF j
    <3>1. mode.tx = "Kvrocks" => gc.tx + 1 .. j = {}
      BY <1>2, <1>4, <1>6
    <3> QED
      BY <1>0, <3>1
  <2>3. UNCHANGED <<mode, store, saved, process, history>>
    BY <1>0, <2>2 DEF history
  <2>4. "tick" \in {"tick", "tx", "end", "exited"}
    OBVIOUS
  <2> QED
    BY Zenon, <1>0, <2>1, <2>3, <2>4, PassSkips
<1> QED
  BY <1>5, <1>6

------------------------------------------------------------------------------
(* The other steps *)

\* The agenda of the cleaner and what it works on stay the same.
LEMMA SameAgenda ==
    ASSUME StoreInv, UNCHANGED <<mode, keydb, kvrocks, unsaved, crashed, overtaken>>, Grow,
           gc'.agenda = gc.agenda, saved'.tick = saved.tick, saved'.tx = saved.tx
    PROVE  /\ CleanedTicksAreGone' /\ AgendaIsSound' /\ SaveIsLast' /\ Intact'
           /\ VotesStay' /\ WholeIsSafe'
<1>0. /\ CleanedTicksAreGone /\ AgendaIsSound /\ SaveIsLast /\ Intact /\ VotesStay /\ WholeIsSafe
      /\ saved.indexed \in 0 .. LastTick
  BY DEF StoreInv, StoreTypes
<1>1. CleanedTicksAreGone'
  BY <1>0, GoneStays
<1>2. AgendaIsSound'
  <2> DEFINE F == Facts
             G == Facts'
  <2>1. More(F, G) /\ Sound(mode, gc.agenda, F)
    BY <1>0, FactsStay DEF AgendaIsSound
  <2> HIDE DEF F, G
  <2>2. Sound(mode, gc.agenda, G)
    BY <2>1, SoundMore
  <2> QED
    BY <2>2 DEF G, AgendaIsSound
<1>3. Intact' /\ SaveIsLast'
  BY <1>0, IntactSame
<1>4. VotesStay'
  BY <1>0 DEF VotesStay
<1>5. WholeIsSafe'
  BY <1>0, WholeStays
<1> QED
  BY <1>1, <1>2, <1>3, <1>4, <1>5

\* A step that leaves the store, the cursors and the agenda alone.
LEMMA SameStore ==
    ASSUME StoreInv, UNCHANGED <<mode, keydb, kvrocks, saved, unsaved, crashed, overtaken, swept>>,
           gc'.agenda = gc.agenda, StoreTypes', Cursors'
    PROVE  StoreInv'
<1>1. Grow /\ Untouched' /\ RetainedDataIsStored'
  BY QuietStep
<1>2. /\ CleanedTicksAreGone' /\ AgendaIsSound' /\ SaveIsLast' /\ Intact'
      /\ VotesStay' /\ WholeIsSafe'
  BY <1>1, SameAgenda
<1> QED
  BY <1>1, <1>2 DEF StoreInv

LEMMA CursorGrows ==
    ASSUME saved.indexed \in Int
    PROVE  db_update_last_indexed_tick(saved.indexed + 1) = saved.indexed + 1
<1> DEFINE t == saved.indexed + 1
           S == {saved.indexed, t}
           w == CHOOSE x \in S : \A y \in S : x >= y
<1>1. t \in S /\ \A y \in S : t >= y
  OBVIOUS
<1>2. w \in S /\ \A y \in S : w >= y
  BY <1>1
<1>3. w = t
  BY <1>1, <1>2
<1>4. db_update_last_indexed_tick(t) = w
  BY Zenon DEF Max, db_update_last_indexed_tick
<1> QED
  BY <1>3, <1>4

LEMMA TickIndexedStep ==
    ASSUME StoreInv, TickIndexed
    PROVE  StoreInv'
<1> DEFINE u == gCurrentIndexingTick
<1>0. /\ filed /\ u' = u + 1 /\ filed' = FALSE
      /\ saved' = [saved EXCEPT !.indexed = db_update_last_indexed_tick(u + 1)]
      /\ UNCHANGED <<mode, keydb, kvrocks, running, kvOn, gIsEndEpoch, stopFlag, gc>>
      /\ UNCHANGED <<unsaved, crashed, overtaken, swept>>
  BY DEF TickIndexed, store, history
<1>1. StoreTypes /\ Cursors /\ Untouched /\ RetainedDataIsStored
  BY DEF StoreInv
<1>2. saved \in [indexed : 0 .. LastTick, tick : Int, tx : Int] /\ u \in 0 .. LastTick /\ LastTick \in Nat
  BY <1>1, TicksAre DEF StoreTypes
<1>r. running /\ u < LastTick
  BY <1>0, <1>1 DEF Cursors
<1>3. u = saved.indexed
  BY <1>r, <1>1 DEF Cursors
<1>4. db_update_last_indexed_tick(u + 1) = u + 1
  BY <1>2, <1>3, CursorGrows
<1>5. /\ saved' \in [indexed : 0 .. LastTick, tick : Int, tx : Int]
      /\ saved'.indexed = saved.indexed + 1 /\ saved'.tick = saved.tick /\ saved'.tx = saved.tx
  <2>1. saved' = [saved EXCEPT !.indexed = u + 1] /\ u + 1 \in 0 .. LastTick
    BY <1>0, <1>2, <1>4, <1>r
  <2> QED
    BY <1>2, <1>3, <2>1
<1>6. Grow
  BY <1>0, <1>2, <1>5 DEF Grow
<1>7. /\ CleanedTicksAreGone' /\ AgendaIsSound' /\ SaveIsLast' /\ Intact'
      /\ VotesStay' /\ WholeIsSafe'
  BY <1>0, <1>5, <1>6, SameAgenda
<1>8. StoreTypes'
  <2>1. u' \in 0 .. LastTick
    BY <1>0, <1>2, <1>r
  <2>2. filed' \in BOOLEAN
    BY <1>0
  <2> QED
    BY <1>0, <1>1, <1>5, <2>1, <2>2 DEF StoreTypes
<1>9. Cursors'
  BY <1>0, <1>1, <1>3, <1>5 DEF Cursors
<1>10. Untouched'
  BY <1>0, <1>1, <1>2, <1>5, TicksAre DEF Untouched
<1>11. RetainedDataIsStored'
  <2> SUFFICES ASSUME NEW t \in gInitialTick .. saved'.indexed, NEW k \in Kept(t)'
               PROVE  k \in keydb' \/ k \in kvrocks' \/ k \in Excused(t)'
    BY DEF RetainedDataIsStored
  <2>0. t \in Ticks
    BY <1>5, TicksAre DEF gInitialTick
  <2>1. k \in Kept(t)
    BY <1>2, <1>6, <2>0, KeptShrinks
  <2>2. k \in TickKeys[t]
    BY <2>0, <2>1, KeptIs, TickKeysHas
  <2>3. CASE t <= saved.indexed
    <3>1. t \in gInitialTick .. saved.indexed
      BY <2>0, <2>3, TicksAre DEF gInitialTick
    <3>2. k \in keydb \/ k \in kvrocks \/ k \in Excused(t)
      BY <1>1, <2>1, <3>1 DEF RetainedDataIsStored
    <3> QED
      BY <1>0, <3>2 DEF Excused
  <2>4. CASE ~(t <= saved.indexed)
    <3>1. t > saved.indexed
      BY <1>2, <2>0, <2>4, TicksAre
    <3> QED
      BY <1>0, <1>1, <2>0, <2>2, <3>1 DEF Untouched
  <2> QED
    BY <2>3, <2>4
<1> QED
  BY <1>7, <1>8, <1>9, <1>10, <1>11 DEF StoreInv

\* Steps that only raise a flag: the indexer, the event thread and the user.
LEMMA FlagStep ==
    ASSUME StoreInv, UNCHANGED <<mode, store, saved, gCurrentIndexingTick, running, kvOn, gc, history>>,
           filed' \in BOOLEAN, gIsEndEpoch' \in BOOLEAN, stopFlag' \in BOOLEAN,
           filed' \/ stopFlag' => running, filed' => gCurrentIndexingTick < LastTick
    PROVE  StoreInv'
<1>0. UNCHANGED <<mode, keydb, kvrocks, saved, unsaved, crashed, overtaken, swept>>
  BY DEF store, history
<1>1. StoreTypes /\ Cursors
  BY DEF StoreInv
<1>2. StoreTypes'
  BY <1>0, <1>1 DEF StoreTypes
<1>3. Cursors'
  BY <1>0, <1>1 DEF Cursors
<1> QED
  BY <1>0, <1>2, <1>3, SameStore

LEMMA IndexTickStep ==
    ASSUME StoreInv, IndexTick
    PROVE  StoreInv'
<1>1. StoreTypes /\ Cursors
  BY DEF StoreInv
<1> QED
  BY <1>1, FlagStep DEF IndexTick, StoreTypes, Cursors

LEMMA IndexerEndsStep ==
    ASSUME StoreInv, IndexerEnds
    PROVE  StoreInv'
<1>1. StoreTypes /\ Cursors
  BY DEF StoreInv
<1> QED
  BY <1>1, FlagStep DEF IndexerEnds, StoreTypes, Cursors

LEMMA EndEpochStep ==
    ASSUME StoreInv, EndEpochLogged
    PROVE  StoreInv'
<1>1. StoreTypes /\ Cursors
  BY DEF StoreInv
<1> QED
  BY <1>1, FlagStep DEF EndEpochLogged, StoreTypes, Cursors

LEMMA UserStopsStep ==
    ASSUME StoreInv, UserStops
    PROVE  StoreInv'
<1>1. StoreTypes /\ Cursors
  BY DEF StoreInv
<1> QED
  BY <1>1, FlagStep DEF UserStops, StoreTypes, Cursors

LEMMA HandlerStep ==
    ASSUME StoreInv, UNCHANGED <<mode, store, saved, process, gc, history>>
    PROVE  StoreInv'
<1>1. StoreTypes /\ Cursors
  BY DEF StoreInv
<1> QED
  BY <1>1, FlagStep DEF process, StoreTypes, Cursors

\* The process starts or ends: the agenda is empty.
LEMMA StartThreadsStep ==
    ASSUME StoreInv, StartThreads
    PROVE  StoreInv'
<1>0. /\ ~running /\ kvOn' = (mode.tick = "Kvrocks") /\ running' = TRUE
      /\ gCurrentIndexingTick' = saved.indexed
      /\ UNCHANGED <<mode, keydb, kvrocks, saved, filed, gIsEndEpoch, stopFlag>>
      /\ UNCHANGED <<unsaved, crashed, overtaken, swept>>
  BY DEF StartThreads, store, history
<1>1. StoreTypes /\ Cursors
  BY DEF StoreInv
<1>2. saved \in [indexed : 0 .. LastTick, tick : Int, tx : Int] /\ gc = CleanerOff /\ ~stopFlag /\ ~filed
  BY <1>0, <1>1 DEF StoreTypes, Cursors
<1> DEFINE x == Max({saved.tick, gInitialTick})
           y == Max({saved.tx, gInitialTick})
           z == IF mode.tick = "Free" /\ mode.tx = "Free" THEN "off" ELSE "tick"
           c == << >>
<1>4. x \in Int /\ y \in Int
  BY <1>2, MaxWithOne
<1>5. c \in Seq(Cmds) /\ gc.agenda = c /\ z \in {"off", "tick"}
  BY <1>2, EmptySeq DEF CleanerOff
<1>6. gc' = [pc |-> z, tick |-> x, tx |-> y, agenda |-> c]
  BY DEF StartThreads, CleanerOff
<1>b. kvOn' \in BOOLEAN /\ running' \in BOOLEAN
  BY <1>0
<1>e. c = << >>
  OBVIOUS
<1> HIDE DEF x, y, z, c
<1>7. /\ gc'.agenda = c /\ gc'.tick = x /\ gc'.tx = y /\ gc'.pc = z
      /\ gc' \in [pc : {"off", "tick", "tx", "end", "exited"}, tick : Int, tx : Int, agenda : Seq(Cmds)]
  BY <1>4, <1>5, <1>6
<1>8. StoreTypes'
  BY <1>0, <1>1, <1>2, <1>7, <1>b DEF StoreTypes
<1>9. Cursors'
  BY <1>0, <1>2, <1>7, <1>e DEF Cursors, x, y
<1> QED
  BY <1>0, <1>5, <1>7, <1>8, <1>9, SameStore

LEMMA ProcessEndsStep ==
    ASSUME StoreInv, ProcessEnds, crashed' \in BOOLEAN
    PROVE  /\ UNCHANGED <<mode, keydb, kvrocks, saved, unsaved, overtaken, swept>>
           /\ StoreTypes' /\ Cursors' /\ gc'.agenda = << >>
<1>0. /\ kvOn' = FALSE /\ running' = FALSE /\ stopFlag' = FALSE /\ filed' = FALSE
      /\ gIsEndEpoch' = FALSE /\ gCurrentIndexingTick' = 0 /\ gc' = CleanerOff
      /\ UNCHANGED <<mode, keydb, kvrocks, saved, unsaved, overtaken, swept>>
  BY DEF ProcessEnds, store
<1>1. StoreTypes
  BY DEF StoreInv
<1> DEFINE c == << >>
<1>5. c \in Seq(Cmds) /\ gc'.agenda = c /\ gc' = [pc |-> "off", tick |-> 0, tx |-> 0, agenda |-> c]
  BY <1>0, EmptySeq DEF CleanerOff
<1>7. gc' \in [pc : {"off", "tick", "tx", "end", "exited"}, tick : Int, tx : Int, agenda : Seq(Cmds)]
  <2> HIDE DEF c
  <2> QED
    BY <1>5
<1>8. StoreTypes'
  <2>1. gCurrentIndexingTick' \in 0 .. LastTick
    BY <1>0, TicksAre
  <2>2. /\ running' \in BOOLEAN /\ kvOn' \in BOOLEAN /\ stopFlag' \in BOOLEAN
        /\ filed' \in BOOLEAN /\ gIsEndEpoch' \in BOOLEAN
    BY <1>0
  <2> QED
    BY <1>0, <1>1, <1>7, <2>1, <2>2 DEF StoreTypes
<1>9. Cursors'
  BY <1>0, <1>5 DEF Cursors
<1> QED
  BY <1>0, <1>5, <1>8, <1>9

LEMMA RestartStep ==
    ASSUME StoreInv, Restart
    PROVE  StoreInv'
<1>0. ProcessEnds /\ crashed' = crashed /\ gc.pc \in {"off", "exited"}
  BY DEF Restart
<1>1. crashed \in BOOLEAN /\ gc.agenda = << >>
  BY <1>0 DEF StoreInv, StoreTypes, Cursors
<1>2. /\ UNCHANGED <<mode, keydb, kvrocks, saved, unsaved, overtaken, swept>>
      /\ StoreTypes' /\ Cursors' /\ gc'.agenda = << >>
  BY <1>0, <1>1, ProcessEndsStep
<1> QED
  BY <1>0, <1>1, <1>2, SameStore

LEMMA CrashStep ==
    ASSUME StoreInv, Crash
    PROVE  StoreInv'
<1>0. ProcessEnds /\ crashed' = TRUE
  BY DEF Crash
<1>1. CleanedTicksAreGone
  BY DEF StoreInv
<1>2. /\ UNCHANGED <<mode, keydb, kvrocks, saved, unsaved, overtaken, swept>>
      /\ StoreTypes' /\ Cursors' /\ gc'.agenda = << >>
  BY <1>0, ProcessEndsStep
<1>3. Grow /\ Untouched' /\ VotesStay' /\ WholeIsSafe' /\ RetainedDataIsStored'
  BY <1>0, <1>2, QuietStep
<1> DEFINE c == << >>
<1>5. 1 .. Len(c) = {} /\ gc'.agenda = c
  BY <1>2, EmptySeq
<1> HIDE DEF c
<1>10. CleanedTicksAreGone'
  BY <1>1, <1>2, <1>3, GoneStays
<1>11. AgendaIsSound'
  <2> DEFINE G == Facts'
  <2> HIDE DEF G
  <2>1. Sound(mode', c, G)
    BY SoundEmpty DEF c
  <2> QED
    BY <1>5, <2>1 DEF G, AgendaIsSound
<1>12. SaveIsLast'
  BY <1>5 DEF SaveIsLast
<1>13. Intact'
  BY <1>0 DEF Intact
<1> QED
  BY <1>2, <1>3, <1>10, <1>11, <1>12, <1>13 DEF StoreInv

LEMMA StoreInit ==
    ASSUME Init
    PROVE  StoreInv
<1>0. /\ mode \in ValidModes /\ keydb = UNION {TickKeys[t] : t \in Ticks} /\ kvrocks = {}
      /\ saved = [indexed |-> gInitialTick - 1, tick |-> 0, tx |-> 0]
      /\ gCurrentIndexingTick = 0 /\ running = FALSE /\ kvOn = FALSE /\ stopFlag = FALSE
      /\ filed = FALSE /\ gIsEndEpoch = FALSE
      /\ gc = CleanerOff /\ unsaved = {} /\ crashed = FALSE /\ overtaken = {}
  BY DEF Init
<1>1. \A t \in Ticks : TickKeys[t] \subseteq keydb
  BY <1>0
<1>2. saved \in [indexed : 0 .. LastTick, tick : Int, tx : Int] /\ saved.indexed = 0 /\ saved.tick = 0 /\ saved.tx = 0
  BY <1>0, TicksAre DEF gInitialTick
<1> DEFINE c == << >>
<1>3. c \in Seq(Cmds) /\ 1 .. Len(c) = {} /\ Sound(mode, c, Facts) /\ gc.agenda = c /\ gc.pc = "off" /\ gc.tick = 0
      /\ gc = [pc |-> "off", tick |-> 0, tx |-> 0, agenda |-> c]
  BY <1>0, EmptySeq, SoundEmpty DEF CleanerOff
<1> HIDE DEF c
<1>4. StoreTypes
  <2>1. gCurrentIndexingTick \in 0 .. LastTick
    BY <1>0, TicksAre
  <2>2. gc \in [pc : {"off", "tick", "tx", "end", "exited"}, tick : Int, tx : Int, agenda : Seq(Cmds)]
    BY <1>3
  <2>3. /\ running \in BOOLEAN /\ kvOn \in BOOLEAN /\ stopFlag \in BOOLEAN /\ crashed \in BOOLEAN
        /\ filed \in BOOLEAN /\ gIsEndEpoch \in BOOLEAN
    BY <1>0
  <2> QED
    BY <1>0, <1>2, <2>1, <2>2, <2>3 DEF StoreTypes
<1>5. Cursors /\ Untouched
  BY <1>0, <1>1, <1>3 DEF Cursors, Untouched, c
<1>6. VotesStay
  BY <1>1, TheVotes, TickKeysHas DEF VotesStay
<1>7. WholeIsSafe
  BY <1>1, TickKeysHas DEF WholeIsSafe
<1>8. RetainedDataIsStored
  BY <1>2 DEF RetainedDataIsStored, gInitialTick
<1>9. CleanedTicksAreGone
  BY <1>2 DEF CleanedTicksAreGone, gInitialTick
<1>10. AgendaIsSound /\ SaveIsLast
  BY <1>3 DEF AgendaIsSound, SaveIsLast
<1>11. Intact
  BY <1>0, <1>1, <1>3 DEF Intact, CleanedOnce
<1> QED
  BY <1>4, <1>5, <1>6, <1>7, <1>8, <1>9, <1>10, <1>11 DEF StoreInv

LEMMA StoreNext ==
    ASSUME StoreInv, [Next]_vars
    PROVE  StoreInv'
<1>h. ASSUME UNCHANGED <<mode, store, saved, process, gc, history>> PROVE StoreInv'
  BY <1>h, HandlerStep
<1>1. CASE StartThreads \/ Crash \/ Restart
  BY <1>1, StartThreadsStep, CrashStep, RestartStep
<1>2. CASE EndEpochLogged \/ UserStops
  BY <1>2, EndEpochStep, UserStopsStep
<1>3. CASE Indexer
  BY <1>3, IndexTickStep, TickIndexedStep, IndexerEndsStep DEF Indexer
<1>4. CASE Commands
  BY <1>4, CleanerCallsStep, StoreVtickStep, StoreCopyStep, KvrocksFailsStep, DeleteKeysStep, SaveStep DEF Commands
<1>5. CASE TickPass \/ TxPass \/ EndPass \/ CleanerExits
  BY <1>5, TickPassStep, TxPassStep, EndPassStep, CleanerExitsStep
<1>6. CASE Handler
  <2>1. CASE \E q \in Requests : Request(q)
    BY <1>h, <2>1 DEF Request
  <2>2. CASE ReadKeyDB \/ ReadKvrocks \/ ReadVotes
    BY <1>h, <2>2 DEF ReadKeyDB, ReadKvrocks, ReadVotes
  <2>3. CASE db_get_indexed_tx \/ Compute \/ Reply
    BY <1>h, <2>3 DEF db_get_indexed_tx, Compute, Reply
  <2> QED
    BY <1>6, <2>1, <2>2, <2>3 DEF Handler
<1>7. CASE UNCHANGED vars
  BY <1>h, <1>7 DEF vars
<1> QED
  BY <1>1, <1>2, <1>3, <1>4, <1>5, <1>6, <1>7 DEF Next, Process, Cleaner

------------------------------------------------------------------------------
(* The theorems *)

\* The cleaner (garbageCleaner.cpp) and the indexer keep the invariant of the two tiers:
\* each command on the cleaner's agenda finds what it relies on already true, or made true
\* by a command before it, whatever crashes, stops and failed writes fall in between.
THEOREM StoreInvariant == Spec => []StoreInv
<1>1. Init => StoreInv
  BY StoreInit
<1>2. StoreInv /\ [Next]_vars => StoreInv'
  BY StoreNext
<1> QED
  BY <1>1, <1>2, PTL DEF Spec

\* Of what the storage modes promise, garbageCleaner loses no more than four things: what
\* it drops at the end of the epoch, what it drops for want of KVRocks, what KVRocks failed
\* to store and the log ranges of the ticks its second pass overtook.  This holds for every
\* length of the epoch, every lag and time to live, every pair of modes, and however far
\* the indexer moves while the cleaner is at work.
THEOREM RetainedIsStored == Spec => []RetainedDataIsStored
<1>1. StoreInv => RetainedDataIsStored
  BY DEF StoreInv
<1> QED
  BY <1>1, StoreInvariant, PTL

\* Below the cursors garbageCleaner saves (last_clean_tick_data, last_clean_tx_tick)
\* nothing it cleans is left in KeyDB, overtaken ticks included unless they are empty or
\* there was a crash.
THEOREM CleanedAreGone == Spec => []CleanedTicksAreGone
<1>1. StoreInv => CleanedTicksAreGone
  BY DEF StoreInv
<1> QED
  BY <1>1, StoreInvariant, PTL

------------------------------------------------------------------------------
(* The search index *)

\* Three topics.
Triple(f) == f = [j \in 1 .. 3 |-> f[j]]

\* A key with topics: its contract, its log type and three topics.
LEMMA TopicKey ==
    ASSUME NEW a, NEW b, NEW f, Triple(f)
    PROVE  /\ Len(<<a, b>> \o f) = 5
           /\ (<<a, b>> \o f)[1] = a /\ (<<a, b>> \o f)[2] = b
           /\ \A j \in 1 .. 3 : (<<a, b>> \o f)[j + 2] = f[j]
<1> DEFINE V == {a, b} \cup {f[j] : j \in 1 .. 3}
           k == <<a, b>> \o f
           s == <<a, b>>
<1>0. f = [j \in 1 .. 3 |-> f[j]]
  BY DEF Triple
<1>1. s \in Seq(V) /\ Len(s) = 2 /\ s[1] = a /\ s[2] = b
  OBVIOUS
<1>2. f \in Seq(V) /\ Len(f) = 3
  <2>1. \A j \in 1 .. 3 : f[j] \in V
    OBVIOUS
  <2> HIDE DEF V
  <2>2. f \in [1 .. 3 -> V] /\ DOMAIN f = 1 .. 3
    BY <1>0, <2>1
  <2>3. f \in Seq(V)
    BY <1>0, <2>2
  <2>4. Len(f) = 3
    BY <2>2, <2>3
  <2> QED
    BY <2>3, <2>4
<1>3. k = s \o f
  OBVIOUS
<1> HIDE DEF V, k, s
<1>4. Len(k) = Len(s) + Len(f)
      /\ \A i \in 1 .. Len(s) + Len(f) : k[i] = IF i <= Len(s) THEN s[i] ELSE f[i - Len(s)]
  BY <1>1, <1>2, <1>3, ConcatProperties
<1>5. Len(k) = 5 /\ \A i \in 1 .. 5 : k[i] = IF i <= 2 THEN s[i] ELSE f[i - 2]
  <2>1. Len(s) = 2 /\ Len(f) = 3 /\ 2 + 3 = 5
    BY <1>1, <1>2
  <2>2. Len(k) = 2 + 3 /\ \A i \in 1 .. 2 + 3 : k[i] = IF i <= 2 THEN s[i] ELSE f[i - 2]
    BY <1>4, <2>1, Zenon
  <2> QED
    BY <2>1, <2>2
<1>6. k[1] = a /\ k[2] = b
  BY <1>1, <1>5
<1>7. \A j \in 1 .. 3 : k[j + 2] = f[j]
  <2> SUFFICES ASSUME NEW j \in 1 .. 3 PROVE k[j + 2] = f[j]
    OBVIOUS
  <2>1. j + 2 \in 1 .. 5 /\ ~(j + 2 <= 2) /\ (j + 2) - 2 = j
    OBVIOUS
  <2> QED
    BY <1>5, <2>1
<1> QED
  BY <1>5, <1>6, <1>7 DEF k

KeyOf(a, b, f) == <<a, b>> \o f

LEMMA SameTopicKey ==
    ASSUME NEW a, NEW b, NEW f, Triple(f), NEW c, NEW d, NEW g, Triple(g)
    PROVE  KeyOf(a, b, f) = KeyOf(c, d, g) <=> a = c /\ b = d /\ \A j \in 1 .. 3 : f[j] = g[j]
<1>1. (\A j \in 1 .. 3 : f[j] = g[j]) => f = g
  BY DEF Triple
<1> DEFINE k == <<a, b>> \o f
           m == <<c, d>> \o g
<1>2. k[1] = a /\ k[2] = b /\ \A j \in 1 .. 3 : k[j + 2] = f[j]
  BY TopicKey
<1>3. m[1] = c /\ m[2] = d /\ \A j \in 1 .. 3 : m[j + 2] = g[j]
  BY TopicKey
<1>4. a = c /\ b = d /\ f = g => k = m
  OBVIOUS
<1> HIDE DEF k, m
<1>5. k = m <=> a = c /\ b = d /\ \A j \in 1 .. 3 : f[j] = g[j]
  BY <1>1, <1>2, <1>3, <1>4
<1> QED
  BY <1>5 DEF k, m, KeyOf

\* What is filed of a log has a type, and topics that are not the wildcard.
Entry(x) == x.logType # NoType /\ \A j \in 1 .. 3 : x.topics[j] # "ANY"

LEMMA IndexedIs ==
    ASSUME NEW id \in LogIds
    PROVE  Indexed(LogAt[id]) # << >> =>
               /\ Len(Indexed(LogAt[id])) = 1
               /\ Entry(Indexed(LogAt[id])[1])
<1> DEFINE e == LogAt[id]
           protocol(topics) == <<[sc |-> 0, logType |-> e.type, topics |-> topics]>>
<1>0. /\ e.source # "ANY" /\ e.destination # "ANY" /\ e.asset # "ANY" /\ e.name # "ANY"
      /\ e.contract # "ANY" /\ e.scLogType \in Nat
  BY TopicAssumption
<1>z. Zero # "ANY"
  BY DEF Zero
<1> SUFFICES Indexed(e) # << >> => Len(Indexed(e)) = 1 /\ Entry(Indexed(e)[1])
  OBVIOUS
<1> HIDE DEF e
<1>1. ASSUME NEW a, NEW b, NEW c, NEW n, NEW y, a # "ANY", b # "ANY", c # "ANY", y # NoType
      PROVE  LET s == <<[sc |-> n, logType |-> y, topics |-> <<a, b, c>>]>>
             IN  Len(s) = 1 /\ Entry(s[1])
  <2>1. <<a, b, c>>[1] = a /\ <<a, b, c>>[2] = b /\ <<a, b, c>>[3] = c
    OBVIOUS
  <2> QED
    BY <1>1, <2>1 DEF Entry
<1>2. ASSUME e.type # NoType, NEW a, NEW b, NEW c, a # "ANY", b # "ANY", c # "ANY",
             Indexed(e) = protocol(<<a, b, c>>)
      PROVE  Len(Indexed(e)) = 1 /\ Entry(Indexed(e)[1])
  BY <1>1, <1>2
<1> HIDE DEF protocol
<1>3. CASE e.type = QU_TRANSFER
  <2>1. Indexed(e) = protocol(<<e.source, e.destination, Zero>>)
    BY <1>3 DEF Indexed, protocol, QU_TRANSFER, ASSET_ISSUANCE, ASSET_OWNERSHIP_CHANGE, ASSET_POSSESSION_CHANGE,
        ASSET_MANAGING_CONTRACT_CHANGES, BURNING, CONTRACT_RESERVE_DEDUCTION, isSCType, CONTRACT_MESSAGES
  <2>2. e.type # NoType
    BY <1>3 DEF NoType, QU_TRANSFER, ASSET_ISSUANCE, ASSET_OWNERSHIP_CHANGE, ASSET_POSSESSION_CHANGE,
        ASSET_MANAGING_CONTRACT_CHANGES, BURNING, CONTRACT_RESERVE_DEDUCTION, isSCType, CONTRACT_MESSAGES
  <2> QED
    BY <1>0, <1>z, <1>2, <2>1, <2>2, Zenon
<1>4. CASE e.type = ASSET_ISSUANCE
  <2>1. Indexed(e) = protocol(<<e.source, e.name, Zero>>)
    BY <1>4 DEF Indexed, protocol, QU_TRANSFER, ASSET_ISSUANCE, ASSET_OWNERSHIP_CHANGE, ASSET_POSSESSION_CHANGE,
        ASSET_MANAGING_CONTRACT_CHANGES, BURNING, CONTRACT_RESERVE_DEDUCTION, isSCType, CONTRACT_MESSAGES
  <2>2. e.type # NoType
    BY <1>4 DEF NoType, QU_TRANSFER, ASSET_ISSUANCE, ASSET_OWNERSHIP_CHANGE, ASSET_POSSESSION_CHANGE,
        ASSET_MANAGING_CONTRACT_CHANGES, BURNING, CONTRACT_RESERVE_DEDUCTION, isSCType, CONTRACT_MESSAGES
  <2> QED
    BY <1>0, <1>z, <1>2, <2>1, <2>2, Zenon
<1>5. CASE e.type = ASSET_OWNERSHIP_CHANGE
  <2>1. Indexed(e) = protocol(<<e.source, e.destination, e.asset>>)
    BY <1>5 DEF Indexed, protocol, QU_TRANSFER, ASSET_ISSUANCE, ASSET_OWNERSHIP_CHANGE, ASSET_POSSESSION_CHANGE,
        ASSET_MANAGING_CONTRACT_CHANGES, BURNING, CONTRACT_RESERVE_DEDUCTION, isSCType, CONTRACT_MESSAGES
  <2>2. e.type # NoType
    BY <1>5 DEF NoType, QU_TRANSFER, ASSET_ISSUANCE, ASSET_OWNERSHIP_CHANGE, ASSET_POSSESSION_CHANGE,
        ASSET_MANAGING_CONTRACT_CHANGES, BURNING, CONTRACT_RESERVE_DEDUCTION, isSCType, CONTRACT_MESSAGES
  <2> QED
    BY <1>0, <1>z, <1>2, <2>1, <2>2, Zenon
<1>6. CASE e.type = ASSET_POSSESSION_CHANGE
  <2>1. Indexed(e) = protocol(<<e.source, e.destination, e.asset>>)
    BY <1>6 DEF Indexed, protocol, QU_TRANSFER, ASSET_ISSUANCE, ASSET_OWNERSHIP_CHANGE, ASSET_POSSESSION_CHANGE,
        ASSET_MANAGING_CONTRACT_CHANGES, BURNING, CONTRACT_RESERVE_DEDUCTION, isSCType, CONTRACT_MESSAGES
  <2>2. e.type # NoType
    BY <1>6 DEF NoType, QU_TRANSFER, ASSET_ISSUANCE, ASSET_OWNERSHIP_CHANGE, ASSET_POSSESSION_CHANGE,
        ASSET_MANAGING_CONTRACT_CHANGES, BURNING, CONTRACT_RESERVE_DEDUCTION, isSCType, CONTRACT_MESSAGES
  <2> QED
    BY <1>0, <1>z, <1>2, <2>1, <2>2, Zenon
<1>7. CASE e.type = 11
  <2>1. Indexed(e) = protocol(<<e.source, e.asset, Zero>>)
    BY <1>7 DEF Indexed, protocol, QU_TRANSFER, ASSET_ISSUANCE, ASSET_OWNERSHIP_CHANGE, ASSET_POSSESSION_CHANGE,
        ASSET_MANAGING_CONTRACT_CHANGES, BURNING, CONTRACT_RESERVE_DEDUCTION, isSCType, CONTRACT_MESSAGES
  <2>2. e.type # NoType
    BY <1>7 DEF NoType, QU_TRANSFER, ASSET_ISSUANCE, ASSET_OWNERSHIP_CHANGE, ASSET_POSSESSION_CHANGE,
        ASSET_MANAGING_CONTRACT_CHANGES, BURNING, CONTRACT_RESERVE_DEDUCTION, isSCType, CONTRACT_MESSAGES
  <2> QED
    BY <1>0, <1>z, <1>2, <2>1, <2>2, Zenon
<1>8. CASE e.type = 12
  <2>1. Indexed(e) = protocol(<<e.source, e.asset, Zero>>)
    BY <1>8 DEF Indexed, protocol, QU_TRANSFER, ASSET_ISSUANCE, ASSET_OWNERSHIP_CHANGE, ASSET_POSSESSION_CHANGE,
        ASSET_MANAGING_CONTRACT_CHANGES, BURNING, CONTRACT_RESERVE_DEDUCTION, isSCType, CONTRACT_MESSAGES
  <2>2. e.type # NoType
    BY <1>8 DEF NoType, QU_TRANSFER, ASSET_ISSUANCE, ASSET_OWNERSHIP_CHANGE, ASSET_POSSESSION_CHANGE,
        ASSET_MANAGING_CONTRACT_CHANGES, BURNING, CONTRACT_RESERVE_DEDUCTION, isSCType, CONTRACT_MESSAGES
  <2> QED
    BY <1>0, <1>z, <1>2, <2>1, <2>2, Zenon
<1>9. CASE e.type = BURNING
  <2>1. Indexed(e) = protocol(<<e.source, e.contract, Zero>>)
    BY <1>9 DEF Indexed, protocol, QU_TRANSFER, ASSET_ISSUANCE, ASSET_OWNERSHIP_CHANGE, ASSET_POSSESSION_CHANGE,
        ASSET_MANAGING_CONTRACT_CHANGES, BURNING, CONTRACT_RESERVE_DEDUCTION, isSCType, CONTRACT_MESSAGES
  <2>2. e.type # NoType
    BY <1>9 DEF NoType, QU_TRANSFER, ASSET_ISSUANCE, ASSET_OWNERSHIP_CHANGE, ASSET_POSSESSION_CHANGE,
        ASSET_MANAGING_CONTRACT_CHANGES, BURNING, CONTRACT_RESERVE_DEDUCTION, isSCType, CONTRACT_MESSAGES
  <2> QED
    BY <1>0, <1>z, <1>2, <2>1, <2>2, Zenon
<1>10. CASE e.type = CONTRACT_RESERVE_DEDUCTION
  <2>1. Indexed(e) = protocol(<<e.contract, Zero, Zero>>)
    BY <1>10 DEF Indexed, protocol, QU_TRANSFER, ASSET_ISSUANCE, ASSET_OWNERSHIP_CHANGE, ASSET_POSSESSION_CHANGE,
        ASSET_MANAGING_CONTRACT_CHANGES, BURNING, CONTRACT_RESERVE_DEDUCTION, isSCType, CONTRACT_MESSAGES
  <2>2. e.type # NoType
    BY <1>10 DEF NoType, QU_TRANSFER, ASSET_ISSUANCE, ASSET_OWNERSHIP_CHANGE, ASSET_POSSESSION_CHANGE,
        ASSET_MANAGING_CONTRACT_CHANGES, BURNING, CONTRACT_RESERVE_DEDUCTION, isSCType, CONTRACT_MESSAGES
  <2> QED
    BY <1>0, <1>z, <1>2, <2>1, <2>2, Zenon
<1>11. CASE isSCType(e) /\ e.scLogType >= MIN_INDEXED_SC_TYPE
  <2>0. e.type \notin {0, 1, 2, 3, 8, 11, 12, 13}
    BY <1>11 DEF isSCType, CONTRACT_MESSAGES
  <2>1. Indexed(e) = <<[sc |-> e.sc, logType |-> e.scLogType,
                       topics |-> <<e.source, e.destination, e.asset>>]>>
    BY <1>11, <2>0 DEF Indexed, protocol, QU_TRANSFER, ASSET_ISSUANCE, ASSET_OWNERSHIP_CHANGE,
        ASSET_POSSESSION_CHANGE, ASSET_MANAGING_CONTRACT_CHANGES, BURNING, CONTRACT_RESERVE_DEDUCTION
  <2>2. e.scLogType # NoType
    BY <1>0 DEF NoType
  <2> QED
    BY <1>0, <1>1, <2>1, <2>2
<1>12. CASE /\ ~(isSCType(e) /\ e.scLogType >= MIN_INDEXED_SC_TYPE)
            /\ e.type # QU_TRANSFER /\ e.type # ASSET_ISSUANCE /\ e.type # ASSET_OWNERSHIP_CHANGE
            /\ e.type # ASSET_POSSESSION_CHANGE /\ e.type # 11 /\ e.type # 12
            /\ e.type # BURNING /\ e.type # CONTRACT_RESERVE_DEDUCTION
  <2>1. Indexed(e) = << >>
    BY <1>12 DEF Indexed, ASSET_MANAGING_CONTRACT_CHANGES
  <2> QED
    BY <2>1
<1> QED
  BY <1>3, <1>4, <1>5, <1>6, <1>7, <1>8, <1>9, <1>10, <1>11, <1>12, Zenon

\* The key of a query is one of the keys of a log exactly if the query asks for it.
LEMMA KeyMatches ==
    ASSUME NEW x, Entry(x), NEW q \in Queries
    PROVE  SearchKey(q) \in IndexKeys(x) <=>
               /\ ~Unindexed(q)
               /\ x.sc = q.sc
               /\ q.logType \in {NoType, x.logType}
               /\ \A j \in 1 .. 3 : q.topics[j] \in {Zero, x.topics[j]}
<1> DEFINE wild == \A j \in 1 .. 3 : q.topics[j] = Zero
           F(b) == [j \in 1 .. 3 |-> IF j \in b THEN Part(x.topics[j]) ELSE "ANY"]
           G == [j \in 1 .. 3 |-> Part(q.topics[j])]
           Asked == /\ ~Unindexed(q)
                    /\ x.sc = q.sc
                    /\ q.logType \in {NoType, x.logType}
                    /\ \A j \in 1 .. 3 : q.topics[j] \in {Zero, x.topics[j]}
<1>0. /\ x.logType # NoType /\ \A j \in 1 .. 3 : x.topics[j] # "ANY" /\ q.topics[j] # "ANY"
      /\ Zero # "ANY"
  BY TopicAssumption DEF Entry, Zero
<1>1. \A b : Triple(F(b))
  BY DEF Triple
<1>2. Triple(G)
  BY DEF Triple
<1>3. \A k : k \in TopicKeys(x) <=>
          \E b \in SUBSET (1 .. 3) : /\ \E j \in b : x.topics[j] # Zero
                                     /\ k = <<x.sc, x.logType>> \o F(b)
  BY Zenon DEF TopicKeys
<1>4. \A b : \A j \in 1 .. 3 : F(b)[j] = IF j \in b THEN Part(x.topics[j]) ELSE "ANY"
  OBVIOUS
<1>5. \A j \in 1 .. 3 : G[j] = Part(q.topics[j])
  OBVIOUS
<1>6. Unindexed(q) <=> \/ wild /\ q.sc = 0 /\ q.logType \in {NoType, 0}
                       \/ ~wild /\ q.logType = NoType
  BY DEF Unindexed, QU_TRANSFER
<1>7. SearchKey(q) = IF wild
                     THEN IF q.logType = NoType THEN <<q.sc>> ELSE <<q.sc, q.logType>>
                     ELSE <<q.sc, q.logType>> \o G
  BY Zenon DEF SearchKey
<1>8. \A k : k \in IndexKeys(x) <=> \/ k = <<x.sc, x.logType>> /\ ~(x.sc = 0 /\ x.logType = 0)
                                    \/ k = <<x.sc>> /\ x.sc # 0
                                    \/ k \in TopicKeys(x)
  BY DEF IndexKeys
<1> HIDE DEF F, G
<1>9. \A k \in TopicKeys(x) : Len(k) = 5
  <2> SUFFICES ASSUME NEW k \in TopicKeys(x) PROVE Len(k) = 5
    OBVIOUS
  <2>1. PICK b \in SUBSET (1 .. 3) : k = <<x.sc, x.logType>> \o F(b)
    BY <1>3
  <2> DEFINE f == F(b)
  <2>2. Triple(f)
    BY <1>1
  <2>3. k = <<x.sc, x.logType>> \o f
    BY <2>1
  <2> HIDE DEF f
  <2> QED
    BY <2>2, <2>3, TopicKey
<1>10. CASE wild
  <2>1. Asked <=> ~(q.sc = 0 /\ q.logType \in {NoType, 0}) /\ x.sc = q.sc /\ q.logType \in {NoType, x.logType}
    BY <1>6, <1>10
  <2>2. CASE q.logType = NoType
    <3>1. SearchKey(q) = <<q.sc>>
      BY <1>7, <1>10, <2>2, Zenon
    <3>2. <<q.sc>> # <<x.sc, x.logType>> /\ Len(<<q.sc>>) # 5 /\ (<<q.sc>> = <<x.sc>> <=> q.sc = x.sc)
      OBVIOUS
    <3> HIDE DEF Asked, wild
    <3> QED
      BY <1>8, <1>9, <2>1, <2>2, <3>1, <3>2 DEF Asked
  <2>3. CASE q.logType # NoType
    <3>1. SearchKey(q) = <<q.sc, q.logType>>
      BY <1>7, <1>10, <2>3, Zenon
    <3>2. /\ <<q.sc, q.logType>> # <<x.sc>> /\ Len(<<q.sc, q.logType>>) # 5
          /\ <<q.sc, q.logType>> = <<x.sc, x.logType>> <=> q.sc = x.sc /\ q.logType = x.logType
      OBVIOUS
    <3> HIDE DEF Asked, wild
    <3> QED
      BY <1>8, <1>9, <2>1, <2>3, <3>1, <3>2 DEF Asked
  <2> QED
    BY <2>2, <2>3
<1>11. CASE ~wild
  <2>1. Asked <=> /\ q.logType # NoType /\ x.sc = q.sc /\ q.logType = x.logType
                  /\ \A j \in 1 .. 3 : q.topics[j] \in {Zero, x.topics[j]}
    BY <1>6, <1>11
  <2>2. SearchKey(q) = <<q.sc, q.logType>> \o G
    BY <1>7, <1>11, Zenon
  <2>3. Len(SearchKey(q)) = 5
    BY <1>2, <2>2, TopicKey
  <2>4. SearchKey(q) \in IndexKeys(x) <=> SearchKey(q) \in TopicKeys(x)
    <3>1. Len(<<x.sc, x.logType>>) # 5 /\ Len(<<x.sc>>) # 5
      OBVIOUS
    <3> QED
      BY <1>8, <2>3, <3>1
  <2>5. ASSUME NEW b
        PROVE  SearchKey(q) = <<x.sc, x.logType>> \o F(b) <=>
                   q.sc = x.sc /\ q.logType = x.logType /\ \A j \in 1 .. 3 : G[j] = F(b)[j]
    <3> DEFINE f == F(b)
    <3>1. Triple(f)
      BY <1>1
    <3> HIDE DEF f
    <3>2. KeyOf(q.sc, q.logType, G) = KeyOf(x.sc, x.logType, f) <=>
              q.sc = x.sc /\ q.logType = x.logType /\ \A j \in 1 .. 3 : G[j] = f[j]
      BY <1>2, <3>1, SameTopicKey
    <3> QED
      BY <2>2, <3>2, Zenon DEF f, KeyOf
  <2>6. ASSUME SearchKey(q) \in TopicKeys(x) PROVE Asked
    <3>1. PICK b \in SUBSET (1 .. 3) : SearchKey(q) = <<x.sc, x.logType>> \o F(b)
      BY <1>3, <2>6
    <3>2. q.sc = x.sc /\ q.logType = x.logType /\ \A j \in 1 .. 3 : G[j] = F(b)[j]
      BY <2>5, <3>1
    <3>3. ASSUME NEW j \in 1 .. 3 PROVE q.topics[j] = Zero \/ q.topics[j] = x.topics[j]
      <4>1. Part(q.topics[j]) = IF j \in b THEN Part(x.topics[j]) ELSE "ANY"
        BY <1>4, <1>5, <3>2, <3>3
      <4> QED
        BY <1>0, <3>3, <4>1 DEF Part
    <3> QED
      BY <1>0, <2>1, <3>2, <3>3
  <2>7. ASSUME Asked PROVE SearchKey(q) \in TopicKeys(x)
    <3> DEFINE b == {j \in 1 .. 3 : q.topics[j] # Zero}
    <3>0. q.logType = x.logType /\ q.sc = x.sc /\ \A j \in 1 .. 3 : q.topics[j] = Zero \/ q.topics[j] = x.topics[j]
      BY <2>1, <2>7
    <3>1. b \in SUBSET (1 .. 3) /\ \E j \in b : x.topics[j] # Zero
      <4>1. PICK j \in 1 .. 3 : q.topics[j] # Zero
        BY <1>11
      <4> QED
        BY <3>0, <4>1
    <3>2. \A j \in 1 .. 3 : j \in b <=> q.topics[j] # Zero
      OBVIOUS
    <3> HIDE DEF b
    <3>3. ASSUME NEW j \in 1 .. 3 PROVE G[j] = F(b)[j]
      BY <1>0, <1>4, <1>5, <3>0, <3>2, <3>3 DEF Part
    <3>4. SearchKey(q) = <<x.sc, x.logType>> \o F(b)
      BY <2>5, <3>0, <3>3
    <3> QED
      BY <1>3, <3>1, <3>4
  <2> QED
    BY <2>4, <2>6, <2>7
<1> QED
  BY <1>10, <1>11

\* No key of a query is one of an itx record.
LEMMA KeyIsNoRecord ==
    ASSUME NEW q \in Queries, NEW t, NEW i, NEW executed
    PROVE  SearchKey(q) # <<"itx", t, i, executed>>
<1> DEFINE G == [j \in 1 .. 3 |-> Part(q.topics[j])]
<1>1. Len(<<"itx", t, i, executed>>) = 4
  OBVIOUS
<1>2. Triple(G)
  BY DEF Triple
<1>3. SearchKey(q) = <<q.sc>> \/ SearchKey(q) = <<q.sc, q.logType>> \/ SearchKey(q) = <<q.sc, q.logType>> \o G
  BY Zenon DEF SearchKey
<1> HIDE DEF G
<1>4. Len(<<q.sc>>) = 1 /\ Len(<<q.sc, q.logType>>) = 2
  OBVIOUS
<1>5. Len(<<q.sc, q.logType>> \o G) = 5
  BY <1>2, TopicKey
<1>6. Len(SearchKey(q)) = 1 \/ Len(SearchKey(q)) = 2 \/ Len(SearchKey(q)) = 5
  BY <1>3, <1>4, <1>5, Zenon
<1> DEFINE k == <<"itx", t, i, executed>>
<1>7. Len(k) = 4
  BY <1>1
<1> HIDE DEF k
<1>8. SearchKey(q) # k
  BY <1>6, <1>7
<1> QED
  BY <1>8 DEF k

\* A query asks for a log of the tick, and there is a key for it.
Asks(q, t) == ~Unindexed(q) /\ \E id \in LogsIn({t}) : Matches(LogAt[id], q)

\* What is under the keys of the queries: the indexed ticks they ask for, and the tick
\* after them once it is filed; a crash may have left that one behind.
IndexIsExact ==
    \A q \in Queries, t \in Ticks :
        /\ <<SearchKey(q), t>> \in index => t <= saved.indexed + 1 /\ Asks(q, t)
        /\ Asks(q, t) /\ (t <= saved.indexed \/ (filed /\ t = saved.indexed + 1)) => <<SearchKey(q), t>> \in index

LEMMA LogMatches ==
    ASSUME NEW id \in LogIds, NEW q \in Queries
    PROVE  ~Unindexed(q) /\ Matches(LogAt[id], q) <=>
               Indexed(LogAt[id]) # << >> /\ SearchKey(q) \in IndexKeys(Indexed(LogAt[id])[1])
<1> DEFINE s == Indexed(LogAt[id])
           Wants(x) == /\ x.sc = q.sc
                       /\ q.logType \in {NoType, x.logType}
                       /\ \A j \in 1 .. 3 : q.topics[j] \in {Zero, x.topics[j]}
<1>1. Matches(LogAt[id], q) <=> \E x \in {s[i] : i \in 1 .. Len(s)} : Wants(x)
  BY Zenon DEF Matches
<1>2. s # << >> => Len(s) = 1 /\ Entry(s[1])
  BY IndexedIs
<1>3. Entry(s[1]) => (SearchKey(q) \in IndexKeys(s[1]) <=> ~Unindexed(q) /\ Wants(s[1]))
  BY KeyMatches, Zenon
<1> HIDE DEF s, Wants
<1>4. CASE s = << >>
  <2>1. Len(s) = 0
    BY <1>4
  <2>2. ~\E x \in {s[i] : i \in 1 .. Len(s)} : Wants(x)
    BY <2>1
  <2> QED
    BY <1>1, <1>4, <2>2 DEF s
<1>5. CASE s # << >>
  <2>1. 1 .. Len(s) = {1}
    <3>1. Len(s) = 1
      BY <1>2, <1>5
    <3>2. 1 .. 1 = {1}
      OBVIOUS
    <3> QED
      BY <3>1, <3>2
  <2>2. Matches(LogAt[id], q) <=> Wants(s[1])
    BY <1>1, <2>1
  <2>3. ~Unindexed(q) /\ Matches(LogAt[id], q) <=> s # << >> /\ SearchKey(q) \in IndexKeys(s[1])
    BY <1>2, <1>3, <1>5, <2>2
  <2> QED
    BY <2>3 DEF s
<1> QED
  BY <1>4, <1>5

\* A tick that is still in KeyDB is filed under the keys of all its logs.
LEMMA TickIsFiled ==
    ASSUME NEW t \in Ticks, TickKeys[t] \subseteq keydb, NEW q \in Queries, NEW u
    PROVE  <<SearchKey(q), u>> \in indexTick(t) <=> u = t /\ Asks(q, t)
<1> DEFINE k == SearchKey(q)
           E == {LogAt[id] : id \in db_get_logs_by_tick_range(t)}
           Itx == {db_set_indexed_tx(t, i, isExecuted(t, i)) :
                     i \in {i \in IF db_try_get_tick_data(t) THEN TickTxs[t] ELSE {} : ~NotIndexed(t, i)}}
                  \cup {db_set_indexed_tx(t, i, TRUE) : i \in SC_INITIALIZE_TX .. SC_END_EPOCH_TX}
<1>1. db_get_logs_by_tick_range(t) = {id \in LogIds : LogAt[id].tick = t}
  <2>1. <<"tick_log_range", t, 0>> \in keydb
    BY TickKeysHas, RangesHas
  <2>2. Hull[t] = {id \in LogIds : LogAt[id].tick = t}
    BY LogAssumption
  <2>3. \A id \in Hull[t] : <<"log", id, 0>> \in keydb
    BY <2>2, TickKeysHas, ExecutedHas
  <2>4. db_try_get_logs(Hull[t]) = Hull[t]
    BY <2>3, Zenon DEF db_try_get_logs, db_try_get_log, db_get_log
  <2> QED
    BY <2>1, <2>2, <2>4, Zenon DEF db_get_logs_by_tick_range, db_try_get_log_range_for_tick
<1>2. indexTick(t) = Itx \cup IndexLogs(t, E)
  BY Zenon DEF indexTick
<1>3. <<k, u>> \notin Itx
  <2>1. \A i, b : <<k, u>> # <<<<"itx", t, i, b>>, t>>
    BY KeyIsNoRecord
  <2> HIDE DEF k
  <2> QED
    BY <2>1, Zenon DEF db_set_indexed_tx
<1>4. <<k, u>> \in IndexLogs(t, E) <=>
          u = t /\ \E id \in LogIds : /\ LogAt[id].tick = t /\ Indexed(LogAt[id]) # << >>
                                      /\ k \in IndexKeys(Indexed(LogAt[id])[1])
  <2> HIDE DEF k
  <2>1. <<k, u>> \in IndexLogs(t, E) <=>
            \E id \in db_get_logs_by_tick_range(t) :
                /\ Indexed(LogAt[id]) # << >>
                /\ \E y \in IndexKeys(Indexed(LogAt[id])[1]) : <<k, u>> = <<y, t>>
    <3> DEFINE Of(e) == {db_add_indexer(key, t) : key \in IndexKeys(Indexed(e)[1])}
    <3>1. IndexLogs(t, E) = UNION {Of(e) : e \in {f \in E : Indexed(f) # << >>}}
      BY Zenon DEF IndexLogs
    <3>2. \A e : <<k, u>> \in Of(e) <=> \E y \in IndexKeys(Indexed(e)[1]) : <<k, u>> = <<y, t>>
      BY Zenon DEF db_add_indexer
    <3> HIDE DEF Of
    <3>3. <<k, u>> \in IndexLogs(t, E) <=> \E e \in E : Indexed(e) # << >> /\ <<k, u>> \in Of(e)
      <4> HIDE DEF E
      <4> QED
        BY <3>1, Zenon
    <3>4. <<k, u>> \in IndexLogs(t, E) <=>
              \E id \in db_get_logs_by_tick_range(t) :
                  Indexed(LogAt[id]) # << >> /\ <<k, u>> \in Of(LogAt[id])
      BY <3>3, Zenon
    <3> QED
      BY <3>2, <3>4, Zenon
  <2>2. \A y : <<k, u>> = <<y, t>> <=> k = y /\ u = t
    OBVIOUS
  <2> QED
    BY <1>1, <2>1, <2>2, Zenon
<1>5. \A id \in LogIds : Indexed(LogAt[id]) # << >> /\ k \in IndexKeys(Indexed(LogAt[id])[1])
                         <=> ~Unindexed(q) /\ Matches(LogAt[id], q)
  BY LogMatches
<1>6. Asks(q, t) <=> \E id \in LogIds : LogAt[id].tick = t /\ ~Unindexed(q) /\ Matches(LogAt[id], q)
  BY Zenon DEF Asks, LogsIn
<1> HIDE DEF k, E, Itx
<1>7. <<k, u>> \in indexTick(t) <=> u = t /\ Asks(q, t)
  BY <1>2, <1>3, <1>4, <1>5, <1>6, Zenon
<1> QED
  BY <1>7 DEF k

LEMMA IndexInit ==
    ASSUME Init
    PROVE  IndexIsExact
<1>1. index = {} /\ saved.indexed = 0 /\ ~filed
  BY DEF Init, gInitialTick
<1> QED
  BY <1>1, TicksAre DEF IndexIsExact

LEMMA IndexNext ==
    ASSUME StoreInv, IndexIsExact, [Next]_vars
    PROVE  IndexIsExact'
<1>1. ASSUME UNCHANGED index, saved'.indexed = saved.indexed, filed' => filed PROVE IndexIsExact'
  BY <1>1 DEF IndexIsExact
<1>0. StoreTypes /\ Cursors /\ Untouched /\ saved.indexed \in 0 .. LastTick /\ LastTick \in Nat
  BY TicksAre DEF StoreInv, StoreTypes
<1>2. CASE IndexTick
  <2> DEFINE t == gCurrentIndexingTick + 1
  <2>2. /\ running /\ gCurrentIndexingTick < LastTick /\ index' = index \cup indexTick(t)
        /\ saved' = saved
    BY <1>2 DEF IndexTick
  <2>3. gCurrentIndexingTick = saved.indexed
    BY <1>0, <2>2 DEF Cursors
  <2>4. t \in Ticks /\ t > saved.indexed /\ t = saved.indexed + 1
    BY <1>0, <2>2, <2>3, TicksAre
  <2>5. TickKeys[t] \subseteq keydb
    BY <1>0, <2>4 DEF Untouched
  <2> HIDE DEF t
  <2>7. ASSUME NEW q \in Queries, NEW u \in Ticks
        PROVE  /\ <<SearchKey(q), u>> \in index' => u <= saved'.indexed + 1 /\ Asks(q, u)
               /\ Asks(q, u) /\ (u <= saved'.indexed \/ u = saved'.indexed + 1) => <<SearchKey(q), u>> \in index'
    <3>1. <<SearchKey(q), u>> \in indexTick(t) <=> u = t /\ Asks(q, t)
      BY <2>4, <2>5, TickIsFiled
    <3>2. /\ <<SearchKey(q), u>> \in index => u <= saved.indexed + 1 /\ Asks(q, u)
          /\ Asks(q, u) /\ u <= saved.indexed => <<SearchKey(q), u>> \in index
      BY DEF IndexIsExact
    <3>3. u = t => u <= saved.indexed + 1
      BY <1>0, <2>4
    <3> QED
      BY <2>2, <2>4, <3>1, <3>2, <3>3
  <2> QED
    BY <2>7 DEF IndexIsExact
<1>8. CASE TickIndexed
  <2>1. filed /\ saved' = [saved EXCEPT !.indexed = db_update_last_indexed_tick(gCurrentIndexingTick + 1)]
        /\ index' = index /\ filed' = FALSE
    BY <1>8 DEF TickIndexed
  <2>2. gCurrentIndexingTick = saved.indexed
    BY <1>0, <2>1 DEF Cursors
  <2>3. saved'.indexed = saved.indexed + 1
    <3>1. db_update_last_indexed_tick(saved.indexed + 1) = saved.indexed + 1
      BY <1>0, CursorGrows
    <3> QED
      BY <1>0, <2>1, <2>2, <3>1 DEF StoreTypes
  <2>4. ASSUME NEW q \in Queries, NEW u \in Ticks
        PROVE  /\ <<SearchKey(q), u>> \in index => u <= saved'.indexed + 1 /\ Asks(q, u)
               /\ Asks(q, u) /\ u <= saved'.indexed => <<SearchKey(q), u>> \in index
    <3>1. /\ <<SearchKey(q), u>> \in index => u <= saved.indexed + 1 /\ Asks(q, u)
          /\ Asks(q, u) /\ (u <= saved.indexed \/ u = saved.indexed + 1) => <<SearchKey(q), u>> \in index
      BY <2>1 DEF IndexIsExact
    <3>2. /\ u <= saved.indexed + 1 => u <= saved'.indexed + 1
          /\ u <= saved'.indexed => u <= saved.indexed \/ u = saved.indexed + 1
      BY <1>0, <2>3, TicksAre
    <3> QED
      BY <3>1, <3>2
  <2> QED
    BY <2>1, <2>4 DEF IndexIsExact
<1>3. CASE StartThreads \/ Crash \/ Restart
  BY <1>1, <1>3 DEF StartThreads, Crash, Restart, ProcessEnds
<1>9. CASE EndEpochLogged \/ UserStops \/ IndexerEnds
  BY <1>1, <1>9 DEF EndEpochLogged, UserStops, IndexerEnds
<1>4. CASE Commands
  <2>1. CASE db_insert_u32
    BY <1>1, <2>1 DEF db_insert_u32, StoreInv, StoreTypes, process
  <2>2. CASE CleanerCalls \/ StoreVtick \/ StoreCopy
    BY <1>1, <2>2 DEF CleanerCalls, StoreVtick, StoreCopy, process
  <2>3. CASE KvrocksFails \/ DeleteKeys
    BY <1>1, <2>3 DEF KvrocksFails, DeleteKeys, process
  <2> QED
    BY <1>4, <2>1, <2>2, <2>3 DEF Commands
<1>5. CASE TickPass \/ TxPass \/ EndPass \/ CleanerExits
  BY <1>1, <1>5 DEF TickPass, TxPass, EndPass, CleanerExits, process
<1>6. CASE Handler
  <2>1. CASE \E q \in Requests : Request(q)
    BY <1>1, <2>1 DEF Request, process
  <2>2. CASE ReadKeyDB \/ ReadKvrocks \/ ReadVotes
    BY <1>1, <2>2 DEF ReadKeyDB, ReadKvrocks, ReadVotes, process
  <2>3. CASE db_get_indexed_tx \/ Compute \/ Reply
    BY <1>1, <2>3 DEF db_get_indexed_tx, Compute, Reply, process
  <2> QED
    BY <1>6, <2>1, <2>2, <2>3 DEF Handler
<1>7. CASE UNCHANGED vars
  BY <1>1, <1>7 DEF vars, process
<1> QED
  BY <1>2, <1>3, <1>4, <1>5, <1>6, <1>7, <1>8, <1>9 DEF Next, Process, Cleaner, Indexer

\* What bobFindLog answers.
LEMMA SearchFinds ==
    ASSUME StoreTypes, IndexIsExact, NEW q \in Queries
    PROVE  bobFindLog(index, q, gInitialTick, saved.indexed)
             = {t \in gInitialTick .. saved.indexed :
                   ~Rejected(q) /\ ~Unindexed(q) /\ \E id \in LogsIn({t}) : Matches(LogAt[id], q)}
<1> DEFINE n == saved.indexed
           found == bobFindLog(index, q, gInitialTick, n)
           wanted == {t \in 1 .. n : ~Rejected(q) /\ Asks(q, t)}
<1>0. n \in 0 .. LastTick /\ LastTick \in Nat /\ Ticks = 1 .. LastTick
  BY TicksAre DEF StoreTypes
<1> HIDE DEF n
<1>1. ASSUME NEW t PROVE t \in found <=> ~Rejected(q) /\ t \in 1 .. n /\ <<SearchKey(q), t>> \in index
  <2>1. CASE 1 > n
    <3>1. found = {} /\ 1 .. n = {}
      BY <1>0, <2>1 DEF bobFindLog, gInitialTick
    <3> QED
      BY <3>1
  <2>2. CASE ~(1 > n)
    <3>1. found = IF Rejected(q) THEN {} ELSE {u \in 1 .. n : <<SearchKey(q), u>> \in index}
      BY <2>2, Zenon DEF bobFindLog, db_search_log, gInitialTick
    <3> QED
      BY <3>1, Zenon
  <2> QED
    BY <2>1, <2>2
<1>2. ASSUME NEW t \in 1 .. n PROVE <<SearchKey(q), t>> \in index <=> Asks(q, t)
  <2>1. t \in Ticks /\ t <= saved.indexed
    BY <1>0 DEF n
  <2> QED
    BY <2>1 DEF IndexIsExact
<1>3. ASSUME NEW t PROVE t \in found <=> t \in wanted
  BY <1>1, <1>2
<1> HIDE DEF found, wanted
<1>4. found = wanted
  BY <1>3, Zenon
<1> QED
  BY <1>4, Zenon DEF found, wanted, n, Asks, gInitialTick

\* indexTick files a tick while all of it is in KeyDB, so db_search_log and bobFindLog find
\* exactly the indexed ticks with a log the query asks for, and nothing for an empty topic,
\* whatever the logs and the topics are and however often the process was restarted, also
\* between filing a tick and saving the cursor.
THEOREM SearchExact == Spec => SearchIsExact
<1> DEFINE Finds == \A q \in Queries :
               bobFindLog(index, q, gInitialTick, saved.indexed)
                   = {t \in gInitialTick .. saved.indexed :
                         ~Rejected(q) /\ ~Unindexed(q) /\ \E id \in LogsIn({t}) : Matches(LogAt[id], q)}
<1>0. StoreInv /\ IndexIsExact => Finds
  BY SearchFinds DEF StoreInv
<1>1. Finds' =>
          (saved'.indexed # saved.indexed /\ rd.q.api = "none" =>
              \A q \in Queries :
                  bobFindLog(index', q, gInitialTick, saved'.indexed)
                      = {t \in gInitialTick .. saved'.indexed :
                            ~Rejected(q) /\ ~Unindexed(q) /\ \E id \in LogsIn({t}) : Matches(LogAt[id], q)})
  OBVIOUS
<1>2. Init => IndexIsExact
  BY IndexInit
<1>3. StoreInv /\ IndexIsExact /\ [Next]_vars => IndexIsExact'
  BY IndexNext
<1> HIDE DEF Finds
<1> QED
  BY <1>0, <1>1, <1>2, <1>3, StoreInvariant, PTL DEF Spec, SearchIsExact

------------------------------------------------------------------------------
(* KVRocks is only written in its mode *)

Plain == {c \in Cmds : c.op \notin {"compressTickAndMoveToKVRocks", "vtick", "set"}}

KvrocksIsOff == mode.tick # "Kvrocks" => kvrocks = {} /\ gc.agenda \in Seq(Plain)

LEMMA PlainOne ==
    ASSUME NEW c \in Plain
    PROVE  <<c>> \in Seq(Plain)
<1> DEFINE X == Plain
<1>1. c \in X
  OBVIOUS
<1> HIDE DEF X
<1>2. <<c>> \in Seq(X)
  BY <1>1
<1> QED
  BY <1>2 DEF X

LEMMA PlainUnlink ==
    ASSUME NEW S, \A k \in S : k \in Keys
    PROVE  Unlink(S) \in Seq(Plain)
<1> DEFINE c == Cmd("unlink", 0, S)
<1>1. c.op = "unlink" /\ c.t = 0 /\ c.keys = S /\ Unlink(S) = <<c>>
  BY CmdFields DEF Unlink
<1>2. c \in [op : Ops, t : Int, keys : SUBSET Keys]
  BY DEF Cmd, Ops
<1> HIDE DEF c
<1>3. c \in Plain
  BY <1>1, <1>2 DEF Cmds, Plain
<1> QED
  BY <1>1, <1>3, PlainOne

LEMMA PlainCall ==
    ASSUME NEW t \in Ticks
    PROVE  Call("cleanTransactionLogs", t) \in Seq(Plain)
<1> DEFINE c == Cmd("cleanTransactionLogs", t, {})
<1>1. Call("cleanTransactionLogs", t) = <<c>> /\ c \in Cmds /\ c.op = "cleanTransactionLogs"
  BY CallType, CmdFields
<1> HIDE DEF c
<1>2. c \in Plain
  BY <1>1 DEF Plain
<1> QED
  BY <1>1, <1>2, PlainOne

LEMMA PlainSave ==
    ASSUME NEW t \in Int, t >= 1
    PROVE  SaveTick(t) \in Seq(Plain) /\ SaveTx(t) \in Seq(Plain)
<1>1. ASSUME NEW op \in {"saveTick", "saveTx"} PROVE Command(op, t, {}) \in Seq(Plain)
  <2> DEFINE c == Cmd(op, t, {})
  <2>1. Command(op, t, {}) = <<c>> /\ c \in Cmds /\ c.op = op
    BY SaveType, CmdFields
  <2> HIDE DEF c
  <2>2. c \in Plain
    BY <2>1 DEF Plain
  <2> QED
    BY <2>1, <2>2, PlainOne
<1> QED
  BY <1>1 DEF SaveTick, SaveTx

LEMMA PlainJoin ==
    ASSUME NEW a \in Seq(Plain), NEW b \in Seq(Plain)
    PROVE  a \o b \in Seq(Plain)
<1> DEFINE X == Plain
<1>1. a \in Seq(X) /\ b \in Seq(X)
  OBVIOUS
<1> HIDE DEF X
<1>2. a \o b \in Seq(X)
  BY <1>1, ConcatProperties
<1> QED
  BY <1>2 DEF X

LEMMA PlainConcat ==
    ASSUME NEW D, \A z \in D : z \in Int, IsFiniteSet(D), NEW f, DOMAIN f = D,
           f = [z \in D |-> f[z]], \A z \in D : f[z] \in Seq(Plain)
    PROVE  Concat(f) \in Seq(Plain)
<1> DEFINE X == Plain
<1>1. \A z \in D : f[z] \in Seq(X)
  OBVIOUS
<1> HIDE DEF X
<1>2. f \in [D -> Seq(X)]
  BY <1>1
<1>3. Concat(f) \in Seq(X)
  BY <1>2, ConcatType
<1> QED
  BY <1>3 DEF X

LEMMA PlainEmpty == << >> \in Seq(Plain)
<1> DEFINE X == Plain
<1>1. << >> \in Seq(X)
  <2> HIDE DEF X
  <2> QED
    BY EmptySeq
<1> QED
  BY <1>1 DEF X

\* One transaction is cleaned without KVRocks.
LEMMA PlainCleanOne ==
    ASSUME NEW t \in Ticks, NEW i \in TickTxs[t], ~kvOn
    PROVE  CleanOne(t, i) \in Seq(Plain)
<1> DEFINE D == Ids(t, i)
           none(id) == db_move_log_to_kvrocks(id)
           f == [id \in D |-> db_move_log_to_kvrocks(id)]
           g == [id \in D |-> Unlink({<<"log", id, 0>>})]
<1>1. /\ \A id \in D : id \in Int /\ id \in LogIds /\ LogAt[id].tick = t
      /\ from(t, i) \in Int /\ length(t, i) \in Int
  BY TxIndex
<1>2. IsFiniteSet(D)
  BY <1>1, FS_Interval DEF Ids
<1>3. \A id \in D : f[id] \in Seq(Plain)
  BY PlainEmpty DEF db_move_log_to_kvrocks
<1>4. \A id \in D : g[id] \in Seq(Plain)
  <2> SUFFICES ASSUME NEW id \in D PROVE Unlink({<<"log", id, 0>>}) \in Seq(Plain)
    OBVIOUS
  <2>1. <<"log", id, 0>> \in TickKeys[t]
    BY <1>1, ExecutedHas, TickKeysHas
  <2>2. \A k \in {<<"log", id, 0>>} : k \in Keys
    BY <2>1, KeysType
  <2> QED
    BY <2>2, PlainUnlink
<1>5. db_move_logs_to_kvrocks_by_range(D) = Concat(f) /\ db_delete_logs(D) = Concat(g)
  BY Zenon DEF db_move_logs_to_kvrocks_by_range, db_delete_logs
<1>6. DOMAIN f = D /\ DOMAIN g = D /\ f = [z \in D |-> f[z]] /\ g = [z \in D |-> g[z]]
  OBVIOUS
<1> HIDE DEF D, f, g
<1>7. Concat(f) \in Seq(Plain) /\ Concat(g) \in Seq(Plain)
  BY <1>1, <1>2, <1>3, <1>4, <1>6, PlainConcat
<1>8. db_copy_transaction_to_kvrocks(t, i) = << >>
  BY DEF db_copy_transaction_to_kvrocks
<1>9. db_delete_transaction(t, i) \in Seq(Plain)
  <2>1. <<"transaction", t, i>> \in TickKeys[t]
    BY ExecutedHas, TickKeysHas
  <2>2. \A k \in {<<"transaction", t, i>>} : k \in Keys
    BY <2>1, KeysType
  <2> QED
    BY <2>2, PlainUnlink DEF db_delete_transaction
<1> DEFINE a == IF mode.tx = "Kvrocks" THEN db_copy_transaction_to_kvrocks(t, i) ELSE << >>
           m == IF mode.tx = "Kvrocks" THEN db_move_logs_to_kvrocks_by_range(Ids(t, i)) ELSE << >>
           b == IF from(t, i) > 0 /\ length(t, i) > 0 THEN m \o db_delete_logs(Ids(t, i)) ELSE << >>
           d == db_delete_transaction(t, i)
<1>10. a \in Seq(Plain)
  BY <1>8, PlainEmpty
<1>11. m \in Seq(Plain) /\ db_delete_logs(Ids(t, i)) \in Seq(Plain)
  BY <1>5, <1>7, PlainEmpty DEF D
<1>12. CleanOne(t, i) = a \o b \o d
  BY Zenon DEF CleanOne
<1> HIDE DEF m
<1>13. b \in Seq(Plain)
  BY <1>11, PlainJoin, PlainEmpty
<1>14. d \in Seq(Plain)
  BY <1>9
<1> HIDE DEF a, b, d
<1>15. a \o b \in Seq(Plain)
  BY <1>10, <1>13, PlainJoin
<1> QED
  BY <1>12, <1>14, <1>15, PlainJoin

LEMMA PlainClean ==
    ASSUME NEW t \in Ticks, ~kvOn
    PROVE  cleanTransactionLogs(t) \in Seq(Plain)
<1> DEFINE D == IF <<"tick_data", t, 0>> \in keydb \cup kvrocks THEN TickTxs[t] ELSE {}
           f == [i \in D |-> CleanOne(t, i)]
           a == Unlink({<<"log_ranges", t, 0>>})
           b == Unlink({<<"tick_log_range", t, 0>>})
<1>1. (\A z \in D : z \in Int) /\ IsFiniteSet(D) /\ \A z \in D : z \in TickTxs[t]
  BY TxsFinite, FS_EmptySet
<1>2. cleanTransactionAndLogsAndSaveToDisk(t) = Concat(f)
  BY Zenon DEF cleanTransactionAndLogsAndSaveToDisk, CleanOne
<1>3. DOMAIN f = D /\ f = [z \in D |-> f[z]]
  OBVIOUS
<1>4. \A z \in D : f[z] \in Seq(Plain)
  BY <1>1, PlainCleanOne
<1>5. a \in Seq(Plain) /\ b \in Seq(Plain)
  <2>1. <<"log_ranges", t, 0>> \in Keys /\ <<"tick_log_range", t, 0>> \in Keys
    BY TickKeysHas, RangesHas, KeysType
  <2> QED
    BY <2>1, PlainUnlink
<1>6. db_delete_log_ranges(t) = a \o b
  BY DEF db_delete_log_ranges
<1> HIDE DEF D, f, a, b
<1>7. Concat(f) \in Seq(Plain)
  BY <1>1, <1>3, <1>4, PlainConcat
<1> DEFINE ab == a \o b
           c == Concat(f)
<1>8. ab \in Seq(Plain)
  BY <1>5, PlainJoin
<1>9. cleanTransactionLogs(t) = << >> \/ cleanTransactionLogs(t) = ab \o c
  BY <1>2, <1>6, Zenon DEF cleanTransactionLogs
<1> HIDE DEF ab, c
<1>10. ab \o c \in Seq(Plain)
  BY <1>7, <1>8, PlainJoin DEF c
<1> QED
  BY <1>9, <1>10, PlainEmpty

LEMMA PlainRaw ==
    ASSUME NEW t \in Ticks, NEW w \in BOOLEAN
    PROVE  cleanRawTick(t, w) \in Seq(Plain)
<1> DEFINE a == IF w THEN Call("cleanTransactionLogs", t) ELSE << >>
           b == db_delete_tick_data(t)
           c == db_delete_tick_vote(t)
<1>1. a \in Seq(Plain)
  BY PlainCall, PlainEmpty
<1>2. b \in Seq(Plain)
  <2>1. <<"tick_data", t, 0>> \in Keys
    BY KeysType DEF tickData
  <2> QED
    BY <2>1, PlainUnlink DEF db_delete_tick_data
<1>3. c \in Seq(Plain)
  <2>1. \A k \in db_insert_tick_vote(t) : k \in Keys
    BY TheVotes, TickKeysHas, KeysType
  <2> QED
    BY <2>1, PlainUnlink DEF db_delete_tick_vote
<1>4. cleanRawTick(t, w) = a \o b \o c
  BY DEF cleanRawTick
<1> HIDE DEF a, b, c
<1>5. a \o b \in Seq(Plain)
  BY <1>1, <1>2, PlainJoin
<1> QED
  BY <1>3, <1>4, <1>5, PlainJoin

LEMMA PlainTicks ==
    ASSUME NEW i \in Int, NEW j \in Int, 1 <= i, i <= j, j <= LastTick, NEW w \in BOOLEAN, mode.tick # "Kvrocks"
    PROVE  /\ CleanTicks(i, j, w) \in Seq(Plain)
           /\ Concat([t \in i .. j |-> Call("cleanTransactionLogs", t)]) \o SaveTx(j) \in Seq(Plain)
<1> DEFINE D == i .. j
           f == [t \in D |-> cleanRawTick(t, w)]
           g == [t \in D |-> Call("cleanTransactionLogs", t)]
<1>1. (\A t \in D : t \in Int /\ t \in Ticks) /\ IsFiniteSet(D)
  BY TicksAre, FS_Interval
<1>2. DOMAIN f = D /\ f = [z \in D |-> f[z]] /\ \A z \in D : f[z] = cleanRawTick(z, w)
  OBVIOUS
<1>3. DOMAIN g = D /\ g = [z \in D |-> g[z]] /\ \A z \in D : g[z] = Call("cleanTransactionLogs", z)
  OBVIOUS
<1>4. CleanTicks(i, j, w) = << >> \o Concat(f) \o SaveTick(j)
  BY Zenon DEF CleanTicks
<1> HIDE DEF D, f, g
<1>5. (\A z \in D : f[z] \in Seq(Plain)) /\ \A z \in D : g[z] \in Seq(Plain)
  BY <1>1, <1>2, <1>3, PlainRaw, PlainCall
<1>6. Concat(f) \in Seq(Plain) /\ Concat(g) \in Seq(Plain)
  BY <1>1, <1>2, <1>3, <1>5, PlainConcat
<1>7. SaveTick(j) \in Seq(Plain) /\ SaveTx(j) \in Seq(Plain)
  BY PlainSave
<1>8. << >> \o Concat(f) \in Seq(Plain)
  BY <1>6, PlainEmpty, PlainJoin
<1>9. << >> \o Concat(f) \o SaveTick(j) \in Seq(Plain)
  BY <1>7, <1>8, PlainJoin
<1>10. Concat(g) \o SaveTx(j) \in Seq(Plain)
  BY <1>6, <1>7, PlainJoin
<1> QED
  BY <1>4, <1>9, <1>10 DEF g, D

LEMMA GrowNext ==
    ASSUME StoreInv, [Next]_vars
    PROVE  Grow
<1>0. saved \in [indexed : 0 .. LastTick, tick : Int, tx : Int] /\ Cursors
  BY DEF StoreInv, StoreTypes
<1>1. ASSUME UNCHANGED <<mode, keydb, kvrocks, unsaved>>, saved'.indexed = saved.indexed, crashed => crashed',
             \A t \in overtaken : t \in overtaken', \A t \in swept : t \in swept'
      PROVE  Grow
  BY <1>0, <1>1 DEF Grow
<1>2. CASE TickIndexed
  <2>0. running /\ gCurrentIndexingTick < LastTick
    BY <1>0, <1>2 DEF TickIndexed, Cursors
  <2>1. /\ UNCHANGED <<mode, keydb, kvrocks, unsaved, crashed, overtaken, swept>>
        /\ running /\ gCurrentIndexingTick < LastTick
        /\ saved' = [saved EXCEPT !.indexed = db_update_last_indexed_tick(gCurrentIndexingTick + 1)]
    BY <1>2, <2>0 DEF TickIndexed, store, history
  <2>2. saved'.indexed = saved.indexed + 1
    BY <1>0, <2>1, CursorGrows DEF Cursors
  <2>3. saved.indexed < LastTick /\ LastTick \in Nat
    BY <1>0, <2>1, TicksAre DEF Cursors
  <2> QED
    BY <1>0, <2>1, <2>2, <2>3 DEF Grow
<1>3. CASE StartThreads \/ IndexTick \/ IndexerEnds \/ CleanerCalls
  BY <1>1, <1>3 DEF StartThreads, IndexTick, IndexerEnds, CleanerCalls, store, history
<1>13. CASE EndEpochLogged \/ UserStops
  BY <1>1, <1>13 DEF EndEpochLogged, UserStops, store, history
<1>4. CASE Crash \/ Restart
  BY <1>1, <1>4 DEF Crash, Restart, ProcessEnds, store
<1>5. CASE StoreVtick
  <2>1. gc.agenda # << >> /\ Next1.op = "vtick"
    BY <1>5 DEF StoreVtick, At
  <2>2. Next1 \in Cmds
    BY <2>1, NextCommand
  <2>3. Next1.keys = {vtick(Next1.t)} \cup Raw[Next1.t]
    BY <2>1, <2>2 DEF Cmds
  <2>4. \A k \in kvrocks : k \in kvrocks'
    BY <1>5, <2>3 DEF StoreVtick
  <2>5. UNCHANGED <<mode, keydb, saved, unsaved, crashed, overtaken, swept>>
    BY <1>5 DEF StoreVtick, history
  <2> QED
    BY <1>0, <2>4, <2>5 DEF Grow
<1>6. CASE StoreCopy
  BY <1>0, <1>6 DEF StoreCopy, history, Grow
<1>7. CASE KvrocksFails
  BY <1>0, <1>7 DEF KvrocksFails, store, Grow
<1>8. CASE DeleteKeys
  BY <1>0, <1>8 DEF DeleteKeys, history, Grow
<1>9. CASE db_insert_u32
  BY <1>0, <1>1, <1>9 DEF db_insert_u32, store, history
<1>10. CASE TickPass \/ CleanerExits
  BY <1>1, <1>10 DEF TickPass, CleanerExits, store, history
<1>14. CASE TxPass
  BY <1>1, <1>14 DEF TxPass, store
<1>15. CASE EndPass
  <2>1. \A t \in swept : t \in swept'
    BY <1>15 DEF EndPass
  <2> QED
    BY <1>1, <1>15, <2>1 DEF EndPass, store
<1>11. CASE Handler
  <2>h. ASSUME UNCHANGED <<mode, store, saved, history>> PROVE Grow
    BY <1>1, <2>h DEF store, history
  <2>1. CASE \E q \in Requests : Request(q)
    BY <2>h, <2>1 DEF Request
  <2>2. CASE ReadKeyDB \/ ReadKvrocks \/ ReadVotes
    BY <2>h, <2>2 DEF ReadKeyDB, ReadKvrocks, ReadVotes
  <2>3. CASE db_get_indexed_tx \/ Compute \/ Reply
    BY <2>h, <2>3 DEF db_get_indexed_tx, Compute, Reply
  <2> QED
    BY <1>11, <2>1, <2>2, <2>3 DEF Handler
<1>12. CASE UNCHANGED vars
  BY <1>1, <1>12 DEF vars, store, history
<1> QED
  BY <1>2, <1>3, <1>4, <1>5, <1>6, <1>7, <1>8, <1>9, <1>10, <1>11, <1>12, <1>13,
     <1>14, <1>15 DEF Next, Process, Cleaner, Commands, Indexer

LEMMA TargetsAre ==
    ASSUME gCurrentIndexingTick \in 0 .. LastTick
    PROVE  TickTarget \in Int /\ TickTarget <= LastTick /\ TxTarget \in Int /\ TxTarget <= LastTick
<1> DEFINE x == gCurrentIndexingTick - CLEAN_LAG
           y == gCurrentIndexingTick - 1 - gLastNTickStorage
           z == gCurrentIndexingTick - 1 - gTxTickToLive
<1>1. x \in Int /\ y \in Int /\ z \in Int /\ x <= LastTick /\ LastTick \in Int
  BY StoreAssumption
<1>2. TickTarget = (IF mode.tick = "LastNTick" THEN Min({x, y}) ELSE x) /\ TxTarget = Min({x, z})
  BY Zenon DEF TickTarget, TxTarget
<1> HIDE DEF x, y, z
<1>3. Min({x, y}) = (IF x <= y THEN x ELSE y) /\ Min({x, z}) = (IF x <= z THEN x ELSE z)
  BY <1>1, MinOfTwo
<1> QED
  BY <1>1, <1>2, <1>3

LEMMA OffNext ==
    ASSUME StoreInv, KvrocksIsOff, [Next]_vars
    PROVE  KvrocksIsOff'
<1> SUFFICES ASSUME mode'.tick # "Kvrocks" PROVE kvrocks' = {} /\ gc'.agenda \in Seq(Plain)
  BY DEF KvrocksIsOff
<1>m. mode.tick # "Kvrocks"
  BY GrowNext DEF Grow
<1>0. /\ kvrocks = {} /\ gc.agenda \in Seq(Plain)
      /\ gc \in [pc : {"off", "tick", "tx", "end", "exited"}, tick : Int, tx : Int, agenda : Seq(Cmds)]
      /\ gCurrentIndexingTick \in 0 .. LastTick /\ saved.tick \in Int /\ saved.tx \in Int /\ Cursors
  BY <1>m DEF KvrocksIsOff, StoreInv, StoreTypes
<1>u. ASSUME UNCHANGED <<kvrocks, gc>> PROVE kvrocks' = {} /\ gc'.agenda \in Seq(Plain)
  BY <1>0, <1>u
<1>h. ASSUME gc.agenda # << >>
      PROVE  /\ Next1.op \notin {"compressTickAndMoveToKVRocks", "vtick", "set"} /\ ~kvOn /\ Next1 \in Cmds
             /\ \A todo \in Seq(Plain) : Continue(todo).agenda \in Seq(Plain)
  <2> DEFINE X == Plain
             a == gc.agenda
  <2>1. a \in Seq(X) /\ a # << >>
    BY <1>0, <1>h
  <2>2. ~kvOn /\ Next1 \in Cmds
    BY <1>h, <1>m, NextCommand
  <2>3. \A todo : Continue(todo).agenda = todo \o Tail(a)
    BY <1>0 DEF Continue
  <2>4. Next1 = Head(a)
    BY DEF Next1
  <2>5. Head(a) \in X /\ Tail(a) \in Seq(X)
    <3> HIDE DEF X, a
    <3> QED
      BY <2>1, EmptySeq, HeadTailProperties
  <2>6. Tail(a) \in Seq(Plain) /\ Next1.op \notin {"compressTickAndMoveToKVRocks", "vtick", "set"}
    BY <2>4, <2>5 DEF Plain
  <2>7. ASSUME NEW todo \in Seq(Plain) PROVE Continue(todo).agenda \in Seq(Plain)
    <3> DEFINE b == Tail(a)
    <3>1. b \in Seq(Plain) /\ Continue(todo).agenda = todo \o b
      BY <2>3, <2>6
    <3> HIDE DEF b
    <3> QED
      BY <3>1, PlainJoin
  <2> QED
    BY <2>2, <2>6, <2>7
<1>c. ASSUME gc.pc # "off" PROVE gc.tick >= 1 /\ gc.tx >= 1
  <2>1. running
    BY <1>0, <1>c DEF Cursors, CleanerOff
  <2>2. gc.tick = Max({saved.tick, gInitialTick}) /\ gc.tx = Max({saved.tx, gInitialTick})
    BY <1>0, <2>1 DEF Cursors
  <2>3. gc.tick = (IF saved.tick >= 1 THEN saved.tick ELSE 1) /\ gc.tx = (IF saved.tx >= 1 THEN saved.tx ELSE 1)
    BY <1>0, <2>2, MaxWithOne
  <2> QED
    BY <1>0, <2>3
<1>p. ASSUME NEW c, gc'.agenda = c, c = << >> \/ c \in Seq(Plain), kvrocks' = kvrocks
      PROVE  kvrocks' = {} /\ gc'.agenda \in Seq(Plain)
  BY <1>0, <1>p, PlainEmpty
<1>1. CASE StartThreads \/ Crash \/ Restart
  <2>1. gc'.agenda = << >> /\ kvrocks' = kvrocks
    <3>1. CASE StartThreads
      <4>1. PICK pc, tick, tx : gc' = [CleanerOff EXCEPT !.pc = pc, !.tick = tick, !.tx = tx]
        BY <3>1, Zenon DEF StartThreads
      <4> QED
        BY <3>1, <4>1 DEF StartThreads, CleanerOff, store
    <3>2. CASE Crash \/ Restart
      BY <3>2 DEF Crash, Restart, ProcessEnds, CleanerOff, store
    <3> QED
      BY <1>1, <3>1, <3>2
  <2> QED
    BY <1>0, <2>1, PlainEmpty
<1>2. CASE Indexer
  BY <1>u, <1>2 DEF Indexer, IndexTick, TickIndexed, IndexerEnds, store
<1>13. CASE EndEpochLogged \/ UserStops
  BY <1>u, <1>13 DEF EndEpochLogged, UserStops, store
<1>3. CASE CleanerCalls
  <2>1. kvrocks' = {}
    BY <1>0, <1>3 DEF CleanerCalls, store
  <2>2. gc.agenda # << >> /\ Next1.op \in {"compressTickAndMoveToKVRocks", "cleanTransactionLogs"}
    BY <1>3 DEF CleanerCalls, At
  <2>3. Next1.op = "cleanTransactionLogs"
    BY <1>h, <2>2
  <2>4. gc' = Continue(cleanTransactionLogs(Next1.t))
    BY <1>3, <2>3 DEF CleanerCalls, At
  <2>5. Next1.t \in Ticks
    BY <1>h, <2>2 DEF Cmds
  <2>6. cleanTransactionLogs(Next1.t) \in Seq(Plain)
    BY <1>h, <2>2, <2>5, PlainClean
  <2> QED
    BY <1>h, <2>1, <2>2, <2>4, <2>6
<1>4. CASE StoreVtick \/ StoreCopy \/ KvrocksFails
  BY <1>h, <1>4 DEF StoreVtick, StoreCopy, KvrocksFails, At
<1>5. CASE DeleteKeys
  <2>1. kvrocks' = kvrocks /\ gc.agenda # << >> /\ gc' = Continue(<< >>)
    BY <1>5 DEF DeleteKeys, At
  <2> QED
    BY <1>0, <1>h, <2>1, PlainEmpty
<1>6. CASE db_insert_u32
  <2>1. kvrocks' = kvrocks /\ gc.agenda # << >> /\ gc'.agenda = Continue(<< >>).agenda
    BY <1>0, <1>6 DEF db_insert_u32, At, store, Continue
  <2> QED
    BY <1>0, <1>h, <2>1, PlainEmpty
<1>7. CASE TickPass
  <2>1. /\ gc.pc = "tick" /\ kvrocks' = kvrocks
        /\ gc'.agenda = IF mode.tick # "Free" /\ gc.tick < TickTarget
                        THEN CleanTicks(gc.tick + 1, TickTarget, mode.tx = "LastNTick") ELSE << >>
    BY <1>0, <1>7 DEF TickPass, store
  <2>2. gc.tick >= 1 /\ gc.tick \in Int
    BY <1>0, <1>c, <2>1
  <2>3. TickTarget \in Int /\ TickTarget <= LastTick
    BY <1>0, TargetsAre
  <2>4. ASSUME gc.tick < TickTarget PROVE CleanTicks(gc.tick + 1, TickTarget, mode.tx = "LastNTick") \in Seq(Plain)
    <3>1. PICK i \in Int : i = gc.tick + 1
      BY <2>2
    <3>2. PICK w \in BOOLEAN : w = (mode.tx = "LastNTick")
      OBVIOUS
    <3>3. 1 <= i /\ i <= TickTarget
      BY <2>2, <2>3, <2>4, <3>1
    <3>4. CleanTicks(i, TickTarget, w) \in Seq(Plain)
      BY <1>m, <2>3, <3>3, PlainTicks
    <3> QED
      BY <3>1, <3>2, <3>4
  <2> QED
    BY <1>p, <2>1, <2>4
<1>8. CASE EndPass
  <2> DEFINE j == gCurrentIndexingTick - 1
  <2>1. /\ gc.pc = "tick" /\ kvrocks' = kvrocks
        /\ gc'.agenda = IF gIsEndEpoch /\ mode.tick # "Free" /\ gc.tick < j
                        THEN CleanTicks(gc.tick + 1, j, TRUE) ELSE << >>
    BY <1>0, <1>8 DEF EndPass, store
  <2>2. gc.tick >= 1 /\ gc.tick \in Int
    BY <1>0, <1>c, <2>1
  <2>3. j \in Int /\ j <= LastTick
    BY <1>0, TicksAre
  <2> HIDE DEF j
  <2>4. ASSUME gc.tick < j PROVE CleanTicks(gc.tick + 1, j, TRUE) \in Seq(Plain)
    <3>1. PICK i \in Int : i = gc.tick + 1
      BY <2>2
    <3>2. PICK w \in BOOLEAN : w = TRUE
      OBVIOUS
    <3>3. 1 <= i /\ i <= j
      BY <2>2, <2>3, <2>4, <3>1
    <3>4. CleanTicks(i, j, w) \in Seq(Plain)
      BY <1>m, <2>3, <3>3, PlainTicks
    <3> QED
      BY <3>1, <3>2, <3>4
  <2> QED
    BY <1>p, <2>1, <2>4
<1>9. CASE TxPass
  <2> DEFINE j == TxTarget
             Agenda(i) == Concat([t \in i .. j |-> Call("cleanTransactionLogs", t)]) \o SaveTx(j)
  <2>1. /\ gc.pc = "tx" /\ kvrocks' = kvrocks
        /\ gc'.agenda = IF mode.tx = "Kvrocks" /\ gc.tx < j THEN Agenda(gc.tx + 1) ELSE << >>
    BY <1>0, <1>9 DEF TxPass, store
  <2>2. gc.tx >= 1 /\ gc.tx \in Int
    BY <1>0, <1>c, <2>1
  <2>3. j \in Int /\ j <= LastTick
    BY <1>0, TargetsAre
  <2>4. ASSUME gc.tx < j PROVE Agenda(gc.tx + 1) \in Seq(Plain)
    <3> HIDE DEF j
    <3>1. PICK i \in Int : i = gc.tx + 1
      BY <2>2
    <3>2. PICK w \in BOOLEAN : w = TRUE
      OBVIOUS
    <3>3. 1 <= i /\ i <= j
      BY <2>2, <2>3, <2>4, <3>1
    <3>4. Agenda(i) \in Seq(Plain)
      BY <1>m, <2>3, <3>3, PlainTicks
    <3> QED
      BY <3>1, <3>4
  <2> HIDE DEF Agenda
  <2> QED
    BY <1>p, <2>1, <2>4
<1>10. CASE CleanerExits
  <2>1. gc'.agenda = gc.agenda /\ kvrocks' = kvrocks
    BY <1>0, <1>10 DEF CleanerExits, store
  <2> QED
    BY <1>0, <2>1
<1>11. CASE Handler
  <2>h. ASSUME UNCHANGED <<store, gc>> PROVE kvrocks' = {} /\ gc'.agenda \in Seq(Plain)
    BY <1>u, <2>h DEF store
  <2>1. CASE \E q \in Requests : Request(q)
    BY <2>h, <2>1 DEF Request
  <2>2. CASE ReadKeyDB \/ ReadKvrocks \/ ReadVotes
    BY <2>h, <2>2 DEF ReadKeyDB, ReadKvrocks, ReadVotes
  <2>3. CASE db_get_indexed_tx \/ Compute \/ Reply
    BY <2>h, <2>3 DEF db_get_indexed_tx, Compute, Reply
  <2> QED
    BY <1>11, <2>1, <2>2, <2>3 DEF Handler
<1>12. CASE UNCHANGED vars
  BY <1>u, <1>12 DEF vars, store
<1> QED
  BY <1>1, <1>2, <1>3, <1>4, <1>5, <1>6, <1>7, <1>8, <1>9, <1>10, <1>11, <1>12, <1>13 DEF Next, Process, Cleaner, Commands

------------------------------------------------------------------------------
(* The handlers: what every request does *)

HandlerOf(q, todo, missed, td, lr, cursor, votes, out, fault, early) ==
    [q |-> q, todo |-> todo, missed |-> missed, td |-> td, lr |-> lr, cursor |-> cursor,
     votes |-> votes, out |-> out, fault |-> fault, early |-> early]

IsHandler(h) ==
    /\ h = HandlerOf(h.q, h.todo, h.missed, h.td, h.lr, h.cursor, h.votes, h.out, h.fault, h.early)
    /\ h.missed \in BOOLEAN /\ h.early \in BOOLEAN

\* The same request, at the same point of reading a key.
Same(h, g) == IsHandler(g) /\ g.q = h.q /\ g.missed = h.missed /\ g.early = h.early

LEMMA HandlerFields ==
    ASSUME NEW q, NEW todo, NEW missed \in BOOLEAN, NEW td, NEW lr, NEW cursor, NEW votes, NEW out, NEW fault,
           NEW early \in BOOLEAN
    PROVE  LET g == HandlerOf(q, todo, missed, td, lr, cursor, votes, out, fault, early)
           IN  /\ IsHandler(g) /\ g.q = q /\ g.todo = todo /\ g.missed = missed /\ g.td = td /\ g.lr = lr
               /\ g.votes = votes /\ g.out = out /\ g.fault = fault /\ g.early = early
BY DEF HandlerOf, IsHandler

\* A handler that has just begun.
Fresh(r, v) == [NewHandler(r) EXCEPT !.todo = v]

LEMMA NewIsHandler ==
    ASSUME NEW r, NEW v
    PROVE  /\ IsHandler(Fresh(r, v)) /\ Fresh(r, v).q = r /\ Fresh(r, v).todo = v
           /\ ~Fresh(r, v).missed /\ ~Fresh(r, v).early /\ ~Fresh(r, v).fault
           /\ Fresh(r, v).out = << >> /\ Fresh(r, v).votes = {} /\ Fresh(r, v).td = 0
<1> DEFINE g == Fresh(r, v)
           e == {}
           s == << >>
           no == FALSE
<1>1. NewHandler(r) = HandlerOf(r, s, no, 0, 0, 1, e, s, no, no)
  BY DEF NewHandler, HandlerOf
<1>2. no \in BOOLEAN
  OBVIOUS
<1> HIDE DEF e, s, no
<1>3. g = HandlerOf(r, v, no, 0, 0, 1, e, s, no, no)
  BY <1>1 DEF Fresh, HandlerOf
<1> HIDE DEF g
<1>4. /\ IsHandler(g) /\ g.q = r /\ g.todo = v /\ g.missed = no /\ g.early = no /\ g.fault = no
      /\ g.out = s /\ g.votes = e /\ g.td = 0
  BY <1>2, <1>3, HandlerFields
<1> QED
  BY <1>4 DEF g, e, s, no

LEMMA IdleIsHandler ==
    ASSUME NEW r
    PROVE  LET g == NewHandler(r) IN IsHandler(g) /\ g.q = r /\ g.missed = FALSE
<1> DEFINE g == NewHandler(r)
           e == {}
           s == << >>
           no == FALSE
<1>1. g = HandlerOf(r, s, no, 0, 0, 1, e, s, no, no)
  BY DEF NewHandler, HandlerOf
<1>2. no \in BOOLEAN
  OBVIOUS
<1> HIDE DEF g, e, s, no
<1>3. IsHandler(g) /\ g.q = r /\ g.missed = no
  BY <1>1, <1>2, HandlerFields
<1> QED
  BY <1>3 DEF g, no

LEMMA ExceptIsSame ==
    ASSUME NEW h, IsHandler(h), NEW v
    PROVE  /\ Same(h, [h EXCEPT !.todo = v])
           /\ Same(h, [h EXCEPT !.cursor = v])
           /\ Same(h, [h EXCEPT !.out = v])
           /\ Same(h, [h EXCEPT !.td = v])
           /\ Same(h, [h EXCEPT !.lr = v])
           /\ Same(h, [h EXCEPT !.votes = v])
           /\ Same(h, [h EXCEPT !.fault = v])
<1>1. h = HandlerOf(h.q, h.todo, h.missed, h.td, h.lr, h.cursor, h.votes, h.out, h.fault, h.early)
      /\ h.missed \in BOOLEAN /\ h.early \in BOOLEAN
  BY DEF IsHandler
<1>3. [h EXCEPT !.todo = v] = HandlerOf(h.q, v, h.missed, h.td, h.lr, h.cursor, h.votes, h.out, h.fault, h.early)
  BY <1>1 DEF HandlerOf
<1>4. [h EXCEPT !.cursor = v] = HandlerOf(h.q, h.todo, h.missed, h.td, h.lr, v, h.votes, h.out, h.fault, h.early)
  BY <1>1 DEF HandlerOf
<1>5. [h EXCEPT !.out = v] = HandlerOf(h.q, h.todo, h.missed, h.td, h.lr, h.cursor, h.votes, v, h.fault, h.early)
  BY <1>1 DEF HandlerOf
<1>6. [h EXCEPT !.td = v] = HandlerOf(h.q, h.todo, h.missed, v, h.lr, h.cursor, h.votes, h.out, h.fault, h.early)
  BY <1>1 DEF HandlerOf
<1>7. [h EXCEPT !.lr = v] = HandlerOf(h.q, h.todo, h.missed, h.td, v, h.cursor, h.votes, h.out, h.fault, h.early)
  BY <1>1 DEF HandlerOf
<1>8. [h EXCEPT !.votes = v] = HandlerOf(h.q, h.todo, h.missed, h.td, h.lr, h.cursor, v, h.out, h.fault, h.early)
  BY <1>1 DEF HandlerOf
<1>9. [h EXCEPT !.fault = v] = HandlerOf(h.q, h.todo, h.missed, h.td, h.lr, h.cursor, h.votes, h.out, v, h.early)
  BY <1>1 DEF HandlerOf
<1> QED
  BY <1>1, <1>3, <1>4, <1>5, <1>6, <1>7, <1>8, <1>9, HandlerFields DEF Same

LEMMA SameTwice ==
    ASSUME NEW h, NEW g, NEW f, Same(h, g), Same(g, f)
    PROVE  Same(h, f)
BY DEF Same

LEMMA EmitIsSame ==
    ASSUME NEW h, IsHandler(h), NEW id
    PROVE  Same(h, Emit(h, id))
<1> DEFINE order == IF h.lr = 0 THEN << >> ELSE sort(h.lr)
           behind == h.cursor <= Len(order)
                     /\ LookupId(h, id) >= from(h.lr, order[h.cursor]) + length(h.lr, order[h.cursor])
           next == IF ~behind THEN h.cursor
                   ELSE IF h.q.api \in {"catchUp", "catchUpByLogId"}
                        THEN scanTxId(h.lr, h.cursor + 1, LookupId(h, id))
                        ELSE h.cursor + 1
           g == [h EXCEPT !.cursor = next]
           stop == [h EXCEPT !.todo = << >>, !.fault = TRUE]
           take == [g EXCEPT !.out = Append(@, <<id, order[next], h.td>>)]
<1>1. Emit(h, id) = stop \/ Emit(h, id) = g \/ Emit(h, id) = take
  BY Zenon DEF Emit
<1> HIDE DEF order, behind, next
<1>2. Same(h, g)
  BY ExceptIsSame, Zenon
<1>3. Same(h, stop)
  <2> DEFINE s == << >>
             e == [h EXCEPT !.todo = s]
             f == [e EXCEPT !.fault = TRUE]
  <2>1. stop = f
    BY DEF IsHandler, HandlerOf
  <2> HIDE DEF s
  <2>2. Same(h, e)
    BY ExceptIsSame, Zenon
  <2> HIDE DEF e
  <2>3. IsHandler(e)
    BY <2>2 DEF Same
  <2>4. Same(e, f)
    BY <2>3, ExceptIsSame, Zenon
  <2> HIDE DEF f, stop
  <2> QED
    BY <2>1, <2>2, <2>4, SameTwice
<1>4. Same(h, take)
  <2> DEFINE v == Append(g.out, <<id, order[next], h.td>>)
             f == [g EXCEPT !.out = v]
  <2>1. take = f
    OBVIOUS
  <2>2. IsHandler(g)
    BY <1>2 DEF Same
  <2> HIDE DEF g, v
  <2>3. Same(g, f)
    BY <2>2, ExceptIsSame, Zenon
  <2> HIDE DEF f, take
  <2> QED
    BY <1>2, <2>1, <2>3, SameTwice
<1> QED
  BY <1>1, <1>2, <1>3, <1>4, Zenon

LEMMA VisitIsSame ==
    ASSUME NEW h, IsHandler(h), NEW id
    PROVE  Same(h, Visit(h, id))
<1> DEFINE v == TickAndRanges(LogAt[id].tick) \o <<<<"attribute", id, 0>>>> \o h.todo
           g == [h EXCEPT !.todo = v]
<1>1. Visit(h, id) = h \/ Visit(h, id) = Emit(h, id) \/ Visit(h, id) = g
  BY DEF Visit
<1>2. Same(h, h)
  BY DEF Same
<1> HIDE DEF v
<1>3. Same(h, g)
  BY ExceptIsSame, Zenon
<1> QED
  BY <1>1, <1>2, <1>3, EmitIsSame, Zenon

\* A handler after the next thing on its list.
Rest(h) == [h EXCEPT !.todo = Tail(@)]

LEMMA RestIsSame ==
    ASSUME NEW h, IsHandler(h)
    PROVE  Same(h, Rest(h))
<1> DEFINE v == Tail(h.todo)
           g == [h EXCEPT !.todo = v]
<1>1. Rest(h) = g
  BY DEF Rest
<1> HIDE DEF v
<1>2. Same(h, g)
  BY ExceptIsSame, Zenon
<1> QED
  BY <1>1, <1>2, Zenon

LEMMA AttributeIsSame ==
    ASSUME NEW h, IsHandler(h), NEW id
    PROVE  Same(h, Attribute(h, id))
<1> DEFINE c == IF h.lr = 0 THEN 1 ELSE scanTxId(h.lr, 1, LookupId(h, id))
           r == Rest(h)
           g == [r EXCEPT !.cursor = c]
           f == Emit(g, id)
<1>1. Same(h, r)
  BY RestIsSame
<1>2. g = [h EXCEPT !.todo = Tail(@), !.cursor = c]
  BY DEF IsHandler, HandlerOf, Rest
<1>3. Attribute(h, id) = f
  BY <1>2, Zenon DEF Attribute
<1> HIDE DEF r, c
<1>4. Same(r, g)
  <2>1. IsHandler(r)
    BY <1>1 DEF Same
  <2> QED
    BY <2>1, ExceptIsSame, Zenon
<1> HIDE DEF g
<1>5. Same(g, f)
  <2>1. IsHandler(g)
    BY <1>4 DEF Same
  <2> QED
    BY <2>1, EmitIsSame, Zenon
<1>6. Same(h, g)
  BY <1>1, <1>4, SameTwice, Zenon
<1> QED
  BY <1>3, <1>5, <1>6, SameTwice, Zenon

\* A handler once it has looked for a key.
Took(h) == [h EXCEPT !.todo = Tail(h.todo), !.missed = FALSE]
Moved(h, g) == IsHandler(g) /\ g.q = h.q /\ g.missed = FALSE /\ g.early = h.early

LEMMA TookIs ==
    ASSUME NEW h, IsHandler(h)
    PROVE  /\ IsHandler(Took(h)) /\ Took(h).q = h.q /\ Took(h).missed = FALSE /\ Took(h).early = h.early
           /\ Took(h).todo = Tail(h.todo) /\ Took(h).td = h.td /\ Took(h).out = h.out /\ Took(h).votes = h.votes
           /\ Took(h).fault = h.fault
<1> DEFINE g == Took(h)
           v == Tail(h.todo)
           no == FALSE
<1>1. h = HandlerOf(h.q, h.todo, h.missed, h.td, h.lr, h.cursor, h.votes, h.out, h.fault, h.early)
      /\ h.missed \in BOOLEAN /\ h.early \in BOOLEAN /\ no \in BOOLEAN
  BY DEF IsHandler
<1>2. g = [h EXCEPT !.todo = v, !.missed = no]
  BY DEF Took
<1> HIDE DEF v, no, g
<1>3. g = HandlerOf(h.q, v, no, h.td, h.lr, h.cursor, h.votes, h.out, h.fault, h.early)
  BY <1>1, <1>2 DEF HandlerOf
<1>4. /\ IsHandler(g) /\ g.q = h.q /\ g.todo = v /\ g.missed = no /\ g.early = h.early /\ g.td = h.td
      /\ g.out = h.out /\ g.votes = h.votes /\ g.fault = h.fault
  BY <1>1, <1>3, HandlerFields
<1> QED
  BY <1>4 DEF g, v, no

LEMMA MovedOn ==
    ASSUME NEW h, IsHandler(h), NEW f, Same(Took(h), f)
    PROVE  Moved(h, f)
BY TookIs DEF Same, Moved

LEMMA MovedBy ==
    ASSUME NEW h, IsHandler(h), NEW v
    PROVE  /\ Moved(h, Took(h))
           /\ Moved(h, [Took(h) EXCEPT !.todo = v])
           /\ Moved(h, [Took(h) EXCEPT !.td = v])
           /\ Moved(h, [Took(h) EXCEPT !.lr = v])
           /\ Moved(h, [Took(h) EXCEPT !.votes = v])
           /\ Moved(h, [Took(h) EXCEPT !.out = v])
<1> DEFINE g == Took(h)
<1>1. IsHandler(g) /\ Moved(h, g)
  BY TookIs DEF Moved
<1> HIDE DEF g
<1>2. /\ Same(g, [g EXCEPT !.todo = v]) /\ Same(g, [g EXCEPT !.td = v]) /\ Same(g, [g EXCEPT !.lr = v])
      /\ Same(g, [g EXCEPT !.votes = v]) /\ Same(g, [g EXCEPT !.out = v])
  BY <1>1, ExceptIsSame, Zenon
<1>3. ASSUME NEW f, Same(g, f) PROVE Moved(h, f)
  BY <1>3, MovedOn DEF g
<1>4. /\ Moved(h, [g EXCEPT !.todo = v]) /\ Moved(h, [g EXCEPT !.td = v]) /\ Moved(h, [g EXCEPT !.lr = v])
      /\ Moved(h, [g EXCEPT !.votes = v]) /\ Moved(h, [g EXCEPT !.out = v])
  BY <1>2, <1>3, Zenon
<1> QED
  BY <1>1, <1>4 DEF g

\* What is read of a tick, whoever reads it.
LEMMA TakeTickIsMove ==
    ASSUME NEW h, IsHandler(h), NEW k, NEW found \in BOOLEAN,
           k[1] \in {"tick_data", "log_ranges", "tick_vote", "vtick", "transaction"}
    PROVE  Moved(h, Take(h, k, found))
<1> DEFINE g == Took(h)
<1>1. CASE k[1] = "tick_data"
  <2> DEFINE held == IF found /\ k[2] \notin Empty THEN k[2] ELSE 0
             v == RangeLogs(h.lr) \o Tail(h.todo)
             e == [g EXCEPT !.td = held]
             f == [e EXCEPT !.todo = v]
  <2>1. Take(h, k, found) = f \/ Take(h, k, found) = e
    BY <1>1 DEF Take, Took
  <2> HIDE DEF held, v
  <2>2. Moved(h, e)
    BY MovedBy
  <2>3. IsHandler(e) /\ IsHandler(g)
    BY <2>2, TookIs DEF Moved
  <2>4. Same(g, e)
    BY <2>3, ExceptIsSame
  <2> HIDE DEF e, g
  <2>5. Same(e, f)
    BY <2>3, ExceptIsSame, Zenon
  <2> HIDE DEF f
  <2>6. Same(g, f)
    BY <2>4, <2>5, SameTwice, Zenon
  <2>7. Moved(h, f)
    BY <2>6, MovedOn DEF g
  <2> QED
    BY <2>1, <2>2, <2>7
<1>2. CASE k[1] = "log_ranges"
  <2> DEFINE v == IF found THEN k[2] ELSE 0
  <2>1. Take(h, k, found) = [g EXCEPT !.lr = v]
    BY <1>2 DEF Take, Took
  <2> HIDE DEF v
  <2>2. Moved(h, [g EXCEPT !.lr = v])
    BY MovedBy
  <2> QED
    BY <2>1, <2>2, Zenon
<1>3. CASE k[1] = "tick_vote"
  <2> DEFINE v == g.votes \cup {k[3]}
  <2>1. Take(h, k, found) = [g EXCEPT !.votes = v] \/ Take(h, k, found) = g
    BY <1>3 DEF Take, Took
  <2> HIDE DEF v
  <2>2. Moved(h, [g EXCEPT !.votes = v]) /\ Moved(h, g)
    BY MovedBy
  <2> QED
    BY <2>1, <2>2, Zenon
<1>4. CASE k[1] = "vtick"
  <2> DEFINE v == {b \in Batches : <<"tick_vote", k[2], b>> \in kvrocks}
  <2>1. Take(h, k, found) = [g EXCEPT !.votes = v] \/ Take(h, k, found) = g
    BY <1>4 DEF Take, Took
  <2> HIDE DEF v
  <2>2. Moved(h, [g EXCEPT !.votes = v]) /\ Moved(h, g)
    BY MovedBy
  <2> QED
    BY <2>1, <2>2, Zenon
<1>5. CASE k[1] = "transaction"
  <2> DEFINE v == <<"found">>
             w == << >>
  <2>1. Take(h, k, found) = [g EXCEPT !.out = v] \/ Take(h, k, found) = [g EXCEPT !.todo = w]
    BY <1>5 DEF Take, Took
  <2> HIDE DEF v, w
  <2>2. Moved(h, [g EXCEPT !.out = v]) /\ Moved(h, [g EXCEPT !.todo = w])
    BY MovedBy
  <2> QED
    BY <2>1, <2>2, Zenon
<1> QED
  BY <1>1, <1>2, <1>3, <1>4, <1>5

LEMMA TakeRangeIsMove ==
    ASSUME NEW h, IsHandler(h), NEW k, NEW found \in BOOLEAN, k[1] = "tick_log_range"
    PROVE  Moved(h, Take(h, k, found))
<1> DEFINE g == Took(h)
           rest == Tail(h.todo)
           o == Append(g.out, IF found THEN Hull[k[2]] ELSE {})
           u == KeysOf("log", Hull[k[2]]) \o rest
           v == << >>
           w == SelectSeq(rest, LAMBDA x : x[1] = "visit")
<1>1. \/ Take(h, k, found) = [g EXCEPT !.out = o]
      \/ Take(h, k, found) = [g EXCEPT !.todo = u]
      \/ Take(h, k, found) = [g EXCEPT !.todo = v]
      \/ Take(h, k, found) = [g EXCEPT !.todo = w]
  BY DEF Take, Took
<1> HIDE DEF o, u, v, w
<1>2. /\ Moved(h, [g EXCEPT !.out = o]) /\ Moved(h, [g EXCEPT !.todo = u])
      /\ Moved(h, [g EXCEPT !.todo = v]) /\ Moved(h, [g EXCEPT !.todo = w])
  BY MovedBy
<1> QED
  BY <1>1, <1>2, Zenon

LEMMA TakeLogIsMove ==
    ASSUME NEW h, IsHandler(h), NEW k, NEW found \in BOOLEAN, k[1] = "log", h.q.api \in Apis \ {"tick", "tx"}
    PROVE  Moved(h, Take(h, k, found))
<1> DEFINE g == Took(h)
           rest == Tail(h.todo)
<1>1. CASE h.q.api = "log"
  <2> DEFINE o == Append(g.out, <<k[2], -1, 0>>)
             f == Visit(g, k[2])
  <2>1. Take(h, k, found) = f \/ Take(h, k, found) = [g EXCEPT !.out = o]
    BY <1>1 DEF Take, Took, TransferApis
  <2> HIDE DEF o
  <2>2. Moved(h, [g EXCEPT !.out = o])
    BY MovedBy
  <2>3. IsHandler(g)
    BY TookIs
  <2>4. Same(g, f)
    <3> HIDE DEF g
    <3> QED
      BY <2>3, VisitIsSame
  <2> HIDE DEF f
  <2>5. Moved(h, f)
    BY <2>4, MovedOn
  <2> QED
    BY <2>1, <2>2, <2>5, Zenon
<1>2. CASE h.q.api \in {"getlogcustom", "catchUp", "catchUpByLogId"}
  <2> DEFINE v == Append(rest, <<"visit", k[2], 0>>)
  <2>1. Take(h, k, found) = [g EXCEPT !.todo = v] \/ Take(h, k, found) = g
    BY <1>2 DEF Take, Took, TransferApis
  <2> HIDE DEF v
  <2>2. Moved(h, [g EXCEPT !.todo = v]) /\ Moved(h, g)
    BY MovedBy
  <2> QED
    BY <2>1, <2>2, Zenon
<1>3. CASE h.q.api \in TransferApis
  <2> DEFINE incoming == ~\E i \in 1 .. Len(rest) : rest[i][1] = "incoming"
             entry == <<IF incoming THEN "in" ELSE "out", h.td, k[3]>>
             o == Append(g.out, entry)
  <2>1. Take(h, k, found) = [g EXCEPT !.out = o] \/ Take(h, k, found) = g
    BY <1>3 DEF Take, Took, TransferApis
  <2> HIDE DEF o
  <2>2. Moved(h, [g EXCEPT !.out = o]) /\ Moved(h, g)
    BY MovedBy
  <2> QED
    BY <2>1, <2>2, Zenon
<1> QED
  BY <1>1, <1>2, <1>3 DEF Apis

\* Every read of a key moves the handler on.
LEMMA TakeIsMove ==
    ASSUME NEW h, IsHandler(h), h.q.api \in Apis, NEW k, NEW found \in BOOLEAN,
           k[1] \in TieredKinds \cup {"tick_vote", "vtick"}, k[1] = "log" => h.q.api \notin {"tick", "tx"}
    PROVE  Moved(h, Take(h, k, found))
BY TakeTickIsMove, TakeRangeIsMove, TakeLogIsMove DEF TieredKinds

LEMMA EarlyIs ==
    ASSUME NEW h, IsHandler(h), NEW e \in BOOLEAN
    PROVE  LET g == [h EXCEPT !.early = @ \/ e]
           IN  /\ IsHandler(g) /\ g.q = h.q /\ g.todo = h.todo /\ g.missed = h.missed /\ g.td = h.td
               /\ g.votes = h.votes /\ g.out = h.out /\ g.fault = h.fault /\ g.early = (h.early \/ e)
<1> DEFINE g == [h EXCEPT !.early = @ \/ e]
           x == h.early \/ e
<1>1. h = HandlerOf(h.q, h.todo, h.missed, h.td, h.lr, h.cursor, h.votes, h.out, h.fault, h.early)
      /\ h.missed \in BOOLEAN /\ h.early \in BOOLEAN
  BY DEF IsHandler
<1>2. g = [h EXCEPT !.early = x] /\ x \in BOOLEAN
  OBVIOUS
<1> HIDE DEF x, g
<1>3. g = HandlerOf(h.q, h.todo, h.missed, h.td, h.lr, h.cursor, h.votes, h.out, h.fault, x)
  BY <1>1, <1>2 DEF HandlerOf
<1>4. /\ IsHandler(g) /\ g.q = h.q /\ g.todo = h.todo /\ g.missed = h.missed /\ g.td = h.td
      /\ g.votes = h.votes /\ g.out = h.out /\ g.fault = h.fault /\ g.early = x
  BY <1>1, <1>2, <1>3, HandlerFields
<1> QED
  BY <1>4 DEF g, x

\* The handler misses a key in KeyDB.
LEMMA MissIs ==
    ASSUME NEW h, IsHandler(h)
    PROVE  LET g == [h EXCEPT !.missed = TRUE]
           IN  /\ IsHandler(g) /\ g.q = h.q /\ g.todo = h.todo /\ g.missed = TRUE /\ g.td = h.td
               /\ g.votes = h.votes /\ g.out = h.out /\ g.fault = h.fault /\ g.early = h.early
<1> DEFINE g == [h EXCEPT !.missed = TRUE]
           x == TRUE
<1>1. h = HandlerOf(h.q, h.todo, h.missed, h.td, h.lr, h.cursor, h.votes, h.out, h.fault, h.early)
      /\ h.missed \in BOOLEAN /\ h.early \in BOOLEAN
  BY DEF IsHandler
<1>2. g = [h EXCEPT !.missed = x] /\ x \in BOOLEAN
  OBVIOUS
<1> HIDE DEF x, g
<1>3. g = HandlerOf(h.q, h.todo, x, h.td, h.lr, h.cursor, h.votes, h.out, h.fault, h.early)
  BY <1>1, <1>2 DEF HandlerOf
<1>4. /\ IsHandler(g) /\ g.q = h.q /\ g.todo = h.todo /\ g.missed = x /\ g.td = h.td
      /\ g.votes = h.votes /\ g.out = h.out /\ g.fault = h.fault /\ g.early = h.early
  BY <1>1, <1>2, <1>3, HandlerFields
<1> QED
  BY <1>4 DEF g, x

\* Fields of the handler after one of them was set.
LEMMA TookFields ==
    ASSUME NEW h, IsHandler(h), NEW v
    PROVE  /\ LET g == [Took(h) EXCEPT !.td = v]
              IN  g.todo = Tail(h.todo) /\ g.td = v /\ g.votes = h.votes /\ g.out = h.out /\ g.fault = h.fault
           /\ LET g == [Took(h) EXCEPT !.out = v]
              IN  g.todo = Tail(h.todo) /\ g.td = h.td /\ g.votes = h.votes /\ g.out = v /\ g.fault = h.fault
           /\ LET g == [Took(h) EXCEPT !.votes = v]
              IN  g.todo = Tail(h.todo) /\ g.td = h.td /\ g.votes = v /\ g.out = h.out /\ g.fault = h.fault
           /\ LET g == [Took(h) EXCEPT !.todo = v]
              IN  g.todo = v /\ g.td = h.td /\ g.votes = h.votes /\ g.out = h.out /\ g.fault = h.fault
<1> DEFINE t == Took(h)
           w == Tail(h.todo)
<1>1. /\ IsHandler(t) /\ t.todo = w /\ t.td = h.td /\ t.out = h.out /\ t.votes = h.votes
      /\ t.fault = h.fault
  BY TookIs
<1> HIDE DEF t, w
<1>2. t = HandlerOf(t.q, t.todo, t.missed, t.td, t.lr, t.cursor, t.votes, t.out, t.fault, t.early)
      /\ t.missed \in BOOLEAN /\ t.early \in BOOLEAN
  BY <1>1 DEF IsHandler
<1>3. LET g == [t EXCEPT !.td = v]
      IN  g.todo = w /\ g.td = v /\ g.votes = h.votes /\ g.out = h.out /\ g.fault = h.fault
  <2>1. [t EXCEPT !.td = v] = HandlerOf(t.q, t.todo, t.missed, v, t.lr, t.cursor, t.votes, t.out, t.fault, t.early)
    BY <1>2 DEF HandlerOf
  <2> QED
    BY <1>1, <1>2, <2>1, HandlerFields
<1>4. LET g == [t EXCEPT !.out = v]
      IN  g.todo = w /\ g.td = h.td /\ g.votes = h.votes /\ g.out = v /\ g.fault = h.fault
  <2>1. [t EXCEPT !.out = v] = HandlerOf(t.q, t.todo, t.missed, t.td, t.lr, t.cursor, t.votes, v, t.fault, t.early)
    BY <1>2 DEF HandlerOf
  <2> QED
    BY <1>1, <1>2, <2>1, HandlerFields
<1>5. LET g == [t EXCEPT !.votes = v]
      IN  g.todo = w /\ g.td = h.td /\ g.votes = v /\ g.out = h.out /\ g.fault = h.fault
  <2>1. [t EXCEPT !.votes = v] = HandlerOf(t.q, t.todo, t.missed, t.td, t.lr, t.cursor, v, t.out, t.fault, t.early)
    BY <1>2 DEF HandlerOf
  <2> QED
    BY <1>1, <1>2, <2>1, HandlerFields
<1>6. LET g == [t EXCEPT !.todo = v]
      IN  g.todo = v /\ g.td = h.td /\ g.votes = h.votes /\ g.out = h.out /\ g.fault = h.fault
  <2>1. [t EXCEPT !.todo = v] = HandlerOf(t.q, v, t.missed, t.td, t.lr, t.cursor, t.votes, t.out, t.fault, t.early)
    BY <1>2 DEF HandlerOf
  <2> QED
    BY <1>1, <1>2, <2>1, HandlerFields
<1> QED
  BY <1>3, <1>4, <1>5, <1>6 DEF t, w

\* The reads of a tick or a transaction.
LEMMA TakesData ==
    ASSUME NEW h, IsHandler(h), h.q.api = "tick", NEW k, k[1] = "tick_data", NEW found \in BOOLEAN
    PROVE  LET g == Take(h, k, found)
           IN  /\ g.todo = Tail(h.todo) /\ g.votes = h.votes /\ g.out = h.out /\ g.fault = h.fault
               /\ g.td = IF found /\ k[2] \notin Empty THEN k[2] ELSE 0
<1> DEFINE v == IF found /\ k[2] \notin Empty THEN k[2] ELSE 0
           w == Tail(h.todo)
           g == Take(h, k, found)
<1>1. g = [Took(h) EXCEPT !.td = v]
  BY DEF Take, Took, TransferApis
<1> HIDE DEF v, g
<1>2. g.todo = w /\ g.votes = h.votes /\ g.out = h.out /\ g.fault = h.fault /\ g.td = v
  BY <1>1, TookFields
<1> QED
  BY <1>2 DEF g, w, v

LEMMA TakesRange ==
    ASSUME NEW h, IsHandler(h), h.q.api = "tick", NEW k, k[1] = "tick_log_range", NEW found \in BOOLEAN
    PROVE  LET g == Take(h, k, found)
           IN  /\ g.todo = Tail(h.todo) /\ g.votes = h.votes /\ g.td = h.td /\ g.fault = h.fault
               /\ g.out = Append(h.out, IF found THEN Hull[k[2]] ELSE {})
<1> DEFINE v == Append(h.out, IF found THEN Hull[k[2]] ELSE {})
           w == Tail(h.todo)
           g == Take(h, k, found)
<1>1. Took(h).out = h.out
  BY TookIs
<1>2. g = [Took(h) EXCEPT !.out = v]
  BY <1>1 DEF Take, Took
<1> HIDE DEF v, g
<1>3. g.todo = w /\ g.votes = h.votes /\ g.td = h.td /\ g.fault = h.fault /\ g.out = v
  BY <1>2, TookFields
<1> QED
  BY <1>3 DEF g, w, v

LEMMA TakesVote ==
    ASSUME NEW h, IsHandler(h), NEW k, k[1] = "tick_vote", NEW found \in BOOLEAN
    PROVE  LET g == Take(h, k, found)
           IN  /\ g.todo = Tail(h.todo) /\ g.out = h.out /\ g.td = h.td /\ g.fault = h.fault
               /\ \A x : x \in g.votes <=> x \in h.votes \/ (found /\ x = k[3])
<1> DEFINE v == h.votes \cup {k[3]}
           w == Tail(h.todo)
           g == Take(h, k, found)
<1>1. /\ Took(h).votes = h.votes /\ Took(h).todo = w /\ Took(h).out = h.out /\ Took(h).td = h.td
      /\ Took(h).fault = h.fault
  BY TookIs
<1>2. g = IF found THEN [Took(h) EXCEPT !.votes = v] ELSE Took(h)
  BY <1>1 DEF Take, Took
<1> HIDE DEF v, g, w
<1>3. found => g.todo = w /\ g.out = h.out /\ g.td = h.td /\ g.fault = h.fault /\ g.votes = v
  BY <1>2, TookFields DEF w
<1>4. ~found => g.todo = w /\ g.out = h.out /\ g.td = h.td /\ g.fault = h.fault /\ g.votes = h.votes
  BY <1>1, <1>2
<1>5. \A x : x \in v <=> x \in h.votes \/ x = k[3]
  BY DEF v
<1> QED
  BY <1>3, <1>4, <1>5 DEF g, w

LEMMA TakesVtick ==
    ASSUME NEW h, IsHandler(h), NEW k, k[1] = "vtick", NEW found \in BOOLEAN
    PROVE  LET g == Take(h, k, found)
           IN  /\ g.todo = Tail(h.todo) /\ g.out = h.out /\ g.td = h.td /\ g.fault = h.fault
               /\ g.votes = IF h.votes = {} /\ found
                            THEN {b \in Batches : <<"tick_vote", k[2], b>> \in kvrocks} ELSE h.votes
<1> DEFINE v == {b \in Batches : <<"tick_vote", k[2], b>> \in kvrocks}
           w == Tail(h.todo)
           g == Take(h, k, found)
<1>1. /\ Took(h).votes = h.votes /\ Took(h).todo = w /\ Took(h).out = h.out /\ Took(h).td = h.td
      /\ Took(h).fault = h.fault
  BY TookIs
<1>2. g = IF h.votes = {} /\ found THEN [Took(h) EXCEPT !.votes = v] ELSE Took(h)
  BY DEF Take, Took
<1> HIDE DEF v, g, w
<1>3. h.votes = {} /\ found => g.todo = w /\ g.out = h.out /\ g.td = h.td /\ g.fault = h.fault /\ g.votes = v
  BY <1>2, TookFields DEF w
<1>4. ~(h.votes = {} /\ found) =>
          g.todo = w /\ g.out = h.out /\ g.td = h.td /\ g.fault = h.fault /\ g.votes = h.votes
  BY <1>1, <1>2
<1> QED
  BY <1>3, <1>4 DEF g, w, v

LEMMA TakesTransaction ==
    ASSUME NEW h, IsHandler(h), NEW k, k[1] = "transaction", NEW found \in BOOLEAN
    PROVE  LET g == Take(h, k, found)
           IN  /\ g.fault = h.fault
               /\ found => g.todo = Tail(h.todo) /\ g.out = <<"found">>
               /\ ~found => g.todo = << >>
<1> DEFINE v == <<"found">>
           u == << >>
           w == Tail(h.todo)
           g == Take(h, k, found)
<1>2. g = IF found THEN [Took(h) EXCEPT !.out = v] ELSE [Took(h) EXCEPT !.todo = u]
  BY DEF Take, Took
<1> HIDE DEF v, u, g
<1>3. found => g.todo = w /\ g.out = v /\ g.fault = h.fault
  BY <1>2, TookFields
<1>4. ~found => g.todo = u /\ g.fault = h.fault
  BY <1>2, TookFields
<1> QED
  BY <1>3, <1>4 DEF g, w, v, u

------------------------------------------------------------------------------
(* The handlers: a tick *)

\* The j-th key bobGetTick reads for the tick.
Count == Cardinality(Batches)
TickKey(t, j) ==
    IF j = 1 THEN tickData(t)
    ELSE IF j = 2 THEN <<"tick_log_range", t, 0>>
    ELSE IF j <= Count + 2 THEN <<"tick_vote", t, Ascending(Batches)[j - 2]>>
    ELSE vtick(t)

\* The first p of them are read.
Ahead(s, t, p) ==
    /\ s \in Seq(Keys) /\ Len(s) = Count + 3 - p
    /\ \A i \in 1 .. Len(s) : s[i] = TickKey(t, p + i)

LEMMA BatchesAre ==
    /\ Count \in Nat /\ Count >= 1
    /\ \A j \in 1 .. Count : Ascending(Batches)[j] \in Batches /\ Ascending(Batches)[j] \in Int
    /\ \A b \in Batches : \E j \in 1 .. Count : Ascending(Batches)[j] = b
<1>1. IsFiniteSet(Batches) /\ Batches # {} /\ \A b \in Batches : b \in Int
  BY LogAssumption
<1>2. /\ Count \in Nat /\ Ascending(Batches) \in [1 .. Count -> Batches]
      /\ \A b \in Batches : \E j \in 1 .. Count : Ascending(Batches)[j] = b
  BY <1>1, AscendingLists DEF Count
<1>3. Count >= 1
  BY <1>1, <1>2
<1> QED
  BY <1>1, <1>2, <1>3

LEMMA TickKeyIsKey ==
    ASSUME NEW t \in Ticks, NEW j \in 1 .. Count + 3
    PROVE  TickKey(t, j) \in Keys
<1>1. Count \in Nat /\ t \in Int /\ \A i \in 1 .. Count : Ascending(Batches)[i] \in Int
  BY BatchesAre, TicksAre
<1>2. CASE 2 < j /\ j <= Count + 2
  <2>1. Ascending(Batches)[j - 2] \in Int
    BY <1>1, <1>2
  <2> QED
    BY <1>1, <1>2, <2>1 DEF TickKey, Keys, KeyKinds
<1> QED
  BY <1>1, <1>2 DEF TickKey, Keys, KeyKinds, tickData, vtick

LEMMA PlanOfTick ==
    ASSUME NEW q, q.from \in Ticks
    PROVE  Ahead(bobGetTick(q), q.from, 0)
<1> DEFINE t == q.from
           X == Keys
           a == <<<<"tick_data", t, 0>>, <<"tick_log_range", t, 0>>>>
           b == [k \in 1 .. Cardinality(Batches) |-> <<"tick_vote", t, Ascending(Batches)[k]>>]
           c == <<<<"vtick", t, 0>>>>
           ab == a \o b
           s == ab \o c
<1>0. Count \in Nat /\ Count >= 1 /\ t \in Int /\ \A j \in 1 .. Count + 3 : TickKey(t, j) \in X
  BY BatchesAre, TicksAre, TickKeyIsKey
<1>1. /\ a \in Seq(X) /\ Len(a) = 2 /\ \A i \in 1 .. 2 : a[i] = TickKey(t, i)
  <2>1. <<"tick_data", t, 0>> = TickKey(t, 1) /\ <<"tick_log_range", t, 0>> = TickKey(t, 2)
    BY DEF TickKey, tickData
  <2>2. TickKey(t, 1) \in X /\ TickKey(t, 2) \in X
    BY <1>0
  <2> DEFINE u == TickKey(t, 1)
             v == TickKey(t, 2)
  <2>3. a = <<u, v>>
    BY <2>1
  <2> HIDE DEF a, u, v, X
  <2>4. a \in Seq(X) /\ Len(a) = 2 /\ a[1] = u /\ a[2] = v
    BY <2>2, <2>3 DEF u, v
  <2> QED
    BY <2>4 DEF u, v
<1>2. /\ b \in Seq(X) /\ Len(b) = Count /\ \A i \in 1 .. Count : b[i] = TickKey(t, 2 + i)
  <2>1. b \in [1 .. Count -> X] /\ \A i \in 1 .. Count : b[i] = TickKey(t, 2 + i)
    <3>1. \A i \in 1 .. Count : b[i] = <<"tick_vote", t, Ascending(Batches)[i]>>
      BY DEF Count
    <3>2. ASSUME NEW i \in 1 .. Count PROVE TickKey(t, 2 + i) = <<"tick_vote", t, Ascending(Batches)[i]>>
      <4> DEFINE j == 2 + i
      <4>1. j \in Int /\ j # 1 /\ j # 2 /\ j <= Count + 2 /\ j - 2 = i
        BY <1>0
      <4> HIDE DEF j
      <4>2. TickKey(t, j) = <<"tick_vote", t, Ascending(Batches)[j - 2]>>
        BY <4>1 DEF TickKey
      <4> QED
        BY <4>1, <4>2 DEF j
    <3>3. \A i \in 1 .. Count : TickKey(t, 2 + i) \in X
      BY <1>0
    <3>4. DOMAIN b = 1 .. Count /\ b = [i \in 1 .. Count |-> b[i]]
      BY DEF Count
    <3> HIDE DEF b, X
    <3> QED
      BY <3>1, <3>2, <3>3, <3>4
  <2> HIDE DEF b, X
  <2> QED
    BY <1>0, <2>1
<1>3. c \in Seq(X) /\ Len(c) = 1 /\ c[1] = TickKey(t, Count + 3)
  <2>1. <<"vtick", t, 0>> = TickKey(t, Count + 3)
    <3> DEFINE j == Count + 3
    <3>1. j # 1 /\ j # 2 /\ ~(j <= Count + 2)
      BY <1>0
    <3> HIDE DEF j
    <3> QED
      BY <3>1 DEF TickKey, vtick, j
  <2> DEFINE u == TickKey(t, Count + 3)
  <2>2. c = <<u>> /\ u \in X
    BY <1>0, <2>1
  <2> HIDE DEF c, u, X
  <2> QED
    BY <2>2 DEF u
<1>4. bobGetTick(q) = s
  BY DEF bobGetTick
<1> HIDE DEF a, b, c, X
<1>5. a \in Seq(X) /\ b \in Seq(X) /\ ab = a \o b
  BY <1>1, <1>2
<1> HIDE DEF ab
<1>6. /\ ab \in Seq(X) /\ Len(ab) = Len(a) + Len(b)
      /\ \A i \in 1 .. Len(a) + Len(b) : ab[i] = IF i <= Len(a) THEN a[i] ELSE b[i - Len(a)]
  BY <1>5, ConcatProperties
<1>7. Len(ab) = 2 + Count /\ \A i \in 1 .. 2 + Count : ab[i] = TickKey(t, i)
  <2>1. Len(ab) = 2 + Count
    BY <1>0, <1>1, <1>2, <1>6
  <2> SUFFICES ASSUME NEW i \in 1 .. 2 + Count PROVE ab[i] = TickKey(t, i)
    BY <2>1
  <2>2. CASE i <= 2
    BY <1>0, <1>1, <1>2, <1>6, <2>2
  <2>3. CASE i > 2
    <3>1. i - 2 \in 1 .. Count /\ 2 + (i - 2) = i
      BY <1>0, <2>3
    <3>2. ab[i] = b[i - 2]
      BY <1>0, <1>1, <1>2, <1>6, <2>3
    <3> QED
      BY <1>2, <3>1, <3>2
  <2> QED
    BY <1>0, <2>2, <2>3
<1>8. ab \in Seq(X) /\ c \in Seq(X) /\ s = ab \o c
  BY <1>3, <1>6
<1> HIDE DEF s
<1>9. /\ s \in Seq(X) /\ Len(s) = Len(ab) + Len(c)
       /\ \A i \in 1 .. Len(ab) + Len(c) : s[i] = IF i <= Len(ab) THEN ab[i] ELSE c[i - Len(ab)]
  BY <1>8, ConcatProperties
<1>10. /\ Len(s) = (2 + Count) + 1
      /\ \A i \in 1 .. (2 + Count) + 1 : s[i] = IF i <= 2 + Count THEN ab[i] ELSE c[i - (2 + Count)]
  BY <1>3, <1>7, <1>9
<1>11. Len(s) = Count + 3 - 0 /\ \A i \in 1 .. Len(s) : s[i] = TickKey(t, 0 + i)
  <2>1. Len(s) = Count + 3
    BY <1>0, <1>10
  <2> SUFFICES ASSUME NEW i \in 1 .. Count + 3 PROVE s[i] = TickKey(t, i)
    BY <1>0, <2>1
  <2>2. CASE i <= 2 + Count
    BY <1>0, <1>7, <1>10, <2>2
  <2>3. CASE i > 2 + Count
    <3>1. i = Count + 3 /\ i - (2 + Count) = 1
      BY <1>0, <2>3
    <3> QED
      BY <1>0, <1>3, <1>10, <3>1
  <2> QED
    BY <1>0, <2>2, <2>3
<1> QED
  BY <1>4, <1>9, <1>11 DEF Ahead, X

LEMMA AheadMoves ==
    ASSUME NEW s, NEW t, NEW p \in 0 .. Count + 3, Ahead(s, t, p), s # << >>
    PROVE  /\ p < Count + 3 /\ Head(s) = TickKey(t, p + 1)
           /\ Ahead(Tail(s), t, p + 1) /\ Len(Tail(s)) = Len(s) - 1
<1>0. Count \in Nat /\ Len(s) \in Nat /\ s \in Seq(Keys)
  BY BatchesAre DEF Ahead
<1> DEFINE X == Keys
           w == Tail(s)
<1>1. s \in Seq(X) /\ Head(s) = s[1]
  BY <1>0
<1> HIDE DEF X
<1>2. Len(s) >= 1
  BY <1>0, <1>1, EmptySeq
<1>3. w \in Seq(X) /\ Len(w) = Len(s) - 1 /\ \A i \in 1 .. Len(w) : w[i] = s[i + 1]
  BY <1>1, HeadTailProperties
<1> HIDE DEF w
<1>4. p < Count + 3 /\ Len(w) = Count + 3 - (p + 1)
  BY <1>0, <1>2, <1>3 DEF Ahead
<1>5. s[1] = TickKey(t, p + 1)
  BY <1>0, <1>2 DEF Ahead
<1>6. ASSUME NEW i \in 1 .. Len(w) PROVE w[i] = TickKey(t, (p + 1) + i)
  <2>1. i + 1 \in 1 .. Len(s) /\ p + (i + 1) = (p + 1) + i
    BY <1>0, <1>3
  <2>2. s[i + 1] = TickKey(t, p + (i + 1))
    BY <2>1 DEF Ahead
  <2> QED
    BY <1>3, <2>1, <2>2
<1>7. w \in Seq(Keys)
  BY <1>3 DEF X
<1> QED
  BY <1>1, <1>3, <1>4, <1>5, <1>6, <1>7 DEF Ahead, w

------------------------------------------------------------------------------
(* The handlers: a key that KeyDB has lost *)

\* What is left of bobGetTransaction.
TxAhead(s, q) == s = bobGetTransaction(q) \/ s = <<<<"itx", q.from, q.to>>>> \/ s = << >>

Shape(h) ==
    /\ IsHandler(h) /\ (h.q = NoRequest \/ h.q \in Requests)
    /\ h.q.api = "tick" => /\ Count + 3 - Len(h.todo) \in 0 .. Count + 3
                           /\ Ahead(h.todo, h.q.from, Count + 3 - Len(h.todo))
    /\ h.q.api = "tx" => TxAhead(h.todo, h.q)

LEMMA RequestIs ==
    ASSUME NEW h, Shape(h), h.q.api # "none"
    PROVE  h.q \in Requests /\ h.q.api \in Apis /\ (h.q.api \in {"tick", "tx"} => h.q.from \in Ticks)
<1>1. NoRequest.api = "none"
  BY DEF NoRequest
<1> QED
  BY <1>1, RequestAssumption DEF Shape

LEMMA ShapeSame ==
    ASSUME NEW h, NEW g, Shape(h), IsHandler(g), g.q = h.q, g.todo = h.todo \/ h.q.api \notin {"tick", "tx"}
    PROVE  Shape(g)
BY DEF Shape

\* The kinds of keys a tick or a transaction is read by.
LEMMA NextOfTick ==
    ASSUME NEW h, Shape(h), h.q.api = "tick", h.todo # << >>
    PROVE  LET p == Count + 3 - Len(h.todo)
           IN  /\ p \in 0 .. Count + 2 /\ Head(h.todo) = TickKey(h.q.from, p + 1)
               /\ Head(h.todo)[1] \in {"tick_data", "tick_log_range", "tick_vote", "vtick"}
               /\ Ahead(Tail(h.todo), h.q.from, p + 1) /\ Len(Tail(h.todo)) = Len(h.todo) - 1
               /\ Count + 3 - Len(Tail(h.todo)) = p + 1
<1> DEFINE p == Count + 3 - Len(h.todo)
           t == h.q.from
           s == h.todo
<1>1. p \in 0 .. Count + 3 /\ Ahead(s, t, p) /\ Count \in Nat
  BY BatchesAre DEF Shape
<1>2. Len(s) \in Nat
  BY <1>1 DEF Ahead
<1>3. s # << >>
  OBVIOUS
<1>4. p = Count + 3 - Len(s)
  OBVIOUS
<1> HIDE DEF p, t, s
<1>5. /\ p < Count + 3 /\ Head(s) = TickKey(t, p + 1)
      /\ Ahead(Tail(s), t, p + 1) /\ Len(Tail(s)) = Len(s) - 1
  BY <1>1, <1>3, AheadMoves
<1>6. TickKey(t, p + 1)[1] \in {"tick_data", "tick_log_range", "tick_vote", "vtick"}
  BY DEF TickKey, tickData, vtick
<1>7. p \in 0 .. Count + 2 /\ Count + 3 - Len(Tail(s)) = p + 1
  <2> DEFINE n == Len(s)
             m == Len(Tail(s))
             c == Count
  <2>1. n \in Nat /\ c \in Nat /\ m = n - 1 /\ p = c + 3 - n /\ p \in 0 .. c + 3 /\ p < c + 3
    BY <1>1, <1>2, <1>4, <1>5
  <2> HIDE DEF n, m, c
  <2>2. p \in 0 .. c + 2 /\ c + 3 - m = p + 1
    BY <2>1
  <2> QED
    BY <2>2 DEF m, c
<1> QED
  BY <1>5, <1>6, <1>7 DEF p, t, s

LEMMA NextOfTx ==
    ASSUME NEW h, Shape(h), h.q.api = "tx", h.todo # << >>
    PROVE  \/ /\ Head(h.todo) = <<"transaction", h.q.from, h.q.to>>
              /\ Tail(h.todo) = <<<<"itx", h.q.from, h.q.to>>>>
           \/ Head(h.todo) = <<"itx", h.q.from, h.q.to>> /\ h.todo = <<<<"itx", h.q.from, h.q.to>>>>
<1> DEFINE u == <<"transaction", h.q.from, h.q.to>>
           v == <<"itx", h.q.from, h.q.to>>
           s == h.todo
<1>1. s = <<u, v>> \/ s = <<v>>
  BY DEF Shape, TxAhead, bobGetTransaction
<1> HIDE DEF u, v, s
<1>2. Head(<<u, v>>) = u /\ Tail(<<u, v>>) = <<v>> /\ Head(<<v>>) = v
  OBVIOUS
<1>3. (Head(s) = u /\ Tail(s) = <<v>>) \/ (Head(s) = v /\ s = <<v>>)
  BY <1>1, <1>2, Zenon
<1> QED
  BY <1>3 DEF u, v, s

LEMMA ShapeRead ==
    ASSUME NEW h, Shape(h), h.q.api # "none", h.todo # << >>, NEW k, k = Head(h.todo),
           k[1] \in TieredKinds \cup {"tick_vote", "vtick"}, NEW found \in BOOLEAN
    PROVE  Shape(Take(h, k, found)) /\ Moved(h, Take(h, k, found))
<1> DEFINE g == Take(h, k, found)
<1>1. IsHandler(h) /\ h.q.api \in Apis
  BY RequestIs DEF Shape
<1>2. k[1] = "log" => h.q.api \notin {"tick", "tx"}
  BY NextOfTick, NextOfTx
<1>3. Moved(h, g)
  BY <1>1, <1>2, TakeIsMove
<1>4. IsHandler(g) /\ g.q = h.q
  BY <1>3 DEF Moved
<1>5. CASE h.q.api = "tick"
  <2>1. k[1] \in {"tick_data", "tick_log_range", "tick_vote", "vtick"}
    BY <1>5, NextOfTick
  <2>2. g.todo = Tail(h.todo)
    <3>1. CASE k[1] = "tick_data"
      BY <1>1, <1>5, <3>1, TakesData
    <3>2. CASE k[1] = "tick_log_range"
      BY <1>1, <1>5, <3>2, TakesRange
    <3>3. CASE k[1] = "tick_vote"
      BY <1>1, <1>5, <3>3, TakesVote, Zenon
    <3>4. CASE k[1] = "vtick"
      BY <1>1, <1>5, <3>4, TakesVtick
    <3> QED
      BY <2>1, <3>1, <3>2, <3>3, <3>4
  <2> HIDE DEF g
  <2> DEFINE p == Count + 3 - Len(h.todo)
  <2>3. p \in 0 .. Count + 2 /\ Ahead(g.todo, g.q.from, p + 1) /\ Count + 3 - Len(g.todo) = p + 1
    BY <1>4, <1>5, <2>2, NextOfTick
  <2>4. Count \in Nat /\ p \in 0 .. Count + 2
    BY <2>3, BatchesAre
  <2> HIDE DEF p
  <2>5. p + 1 \in 0 .. Count + 3
    BY <2>4
  <2> QED
    BY <1>3, <1>4, <1>5, <2>3, <2>5 DEF Shape, g
<1>6. CASE h.q.api = "tx"
  <2>1. k = <<"transaction", h.q.from, h.q.to>> /\ Tail(h.todo) = <<<<"itx", h.q.from, h.q.to>>>>
    <3>1. k[1] # "itx"
      BY DEF TieredKinds
    <3> QED
      BY <1>6, <3>1, NextOfTx
  <2>2. k[1] = "transaction"
    BY <2>1
  <2>3. g.todo = Tail(h.todo) \/ g.todo = << >>
    BY <1>1, <2>2, TakesTransaction
  <2>4. TxAhead(g.todo, g.q)
    BY <1>4, <2>1, <2>3 DEF TxAhead
  <2> HIDE DEF g
  <2> QED
    BY <1>3, <1>4, <1>6, <2>4 DEF Shape, g
<1>7. CASE h.q.api \notin {"tick", "tx"}
  <2> HIDE DEF g
  <2>1. Shape(g)
    BY <1>4, <1>7, ShapeSame
  <2> QED
    BY <1>3, <2>1 DEF g
<1> QED
  BY <1>5, <1>6, <1>7

Copied(t, k) == k \in Kept(t) => k \in kvrocks \/ k \in Excused(t)

\* What KeyDB does not have when a handler looks for it was copied before, if it is kept.
Missing ==
    rd.missed => /\ rd.todo # << >> /\ NextKey[1] \in TieredKinds
                 /\ \A t \in Ticks : Copied(t, DbKey(NextKey))

HandlerInv ==
    /\ Shape(rd) /\ Missing
    /\ rd.q.api \in {"tick", "tx"} => rd.q.from <= saved.indexed

LEMMA KeptIsOfTick ==
    ASSUME NEW t \in Ticks
    PROVE  \A k \in Kept(t) : k \in TickKeys[t]
BY KeptIs, TickKeysHas

LEMMA LostIsCopied ==
    ASSUME StoreInv, NEW t \in Ticks, NEW k, k \notin keydb
    PROVE  Copied(t, k)
<1>1. RetainedDataIsStored /\ Untouched /\ saved.indexed \in Int /\ t \in Int
  BY TicksAre DEF StoreInv, StoreTypes
<1>2. SUFFICES ASSUME k \in Kept(t) PROVE k \in kvrocks \/ k \in Excused(t)
  BY DEF Copied
<1>3. k \in TickKeys[t]
  BY <1>2, KeptIsOfTick
<1>4. t <= saved.indexed
  BY <1>1, <1>3 DEF Untouched
<1>5. Safe(t, k)
  BY <1>1, <1>3, <1>4, LostIsSafe
<1> QED
  BY <1>2, <1>5 DEF Safe

LEMMA CopiedStays ==
    ASSUME saved.indexed \in 0 .. LastTick, Grow, NEW t \in Ticks, NEW k, Copied(t, k)
    PROVE  Copied(t, k)'
<1>1. k \in Kept(t)' => k \in Kept(t)
  BY KeptShrinks
<1>2. k \in Excused(t) => k \in Excused(t)'
  BY DEF Excused, Grow
<1>3. k \in kvrocks => k \in kvrocks'
  BY DEF Grow
<1> QED
  BY <1>1, <1>2, <1>3 DEF Copied

LEMMA MissingStays ==
    ASSUME saved.indexed \in 0 .. LastTick, Grow, Missing, rd' = rd
    PROVE  Missing'
<1>1. SUFFICES ASSUME rd.missed
               PROVE  /\ rd'.todo # << >> /\ NextKey'[1] \in TieredKinds
                      /\ \A t \in Ticks : Copied(t, DbKey(NextKey))'
  BY DEF Missing, TieredKinds
<1>2. rd.todo # << >> /\ NextKey[1] \in TieredKinds /\ \A t \in Ticks : Copied(t, DbKey(NextKey))
  BY <1>1 DEF Missing
<1>3. PICK k : k = DbKey(NextKey)
  OBVIOUS
<1>4. DbKey(NextKey)' = k /\ NextKey' = NextKey
  BY <1>3 DEF DbKey, NextKey
<1>5. \A t \in Ticks : Copied(t, k)'
  BY <1>2, <1>3, CopiedStays
<1>6. \A t \in Ticks : Copied(t, DbKey(NextKey))'
  BY <1>4, <1>5 DEF Copied
<1> QED
  BY <1>2, <1>4, <1>6

\* Reads.
LEMMA ShapeOfReadKeyDB ==
    ASSUME StoreInv, Grow, Shape(rd), Missing, ReadKeyDB
    PROVE  Shape(rd)' /\ Missing' /\ rd'.q = rd.q
<1>1. PICK h : h = rd
  OBVIOUS
<1>2. PICK k : k = NextKey
  OBVIOUS
<1>3. PICK g : g = rd'
  OBVIOUS
<1>4. /\ h.q.api # "none" /\ h.todo # << >> /\ k[1] \in TieredKinds /\ ~h.missed /\ k = Head(h.todo)
  BY <1>1, <1>2 DEF ReadKeyDB, Reading, NextKey
<1>5. Shape(h) /\ IsHandler(h)
  BY <1>1 DEF Shape
<1>6. CASE DbKey(k) \in keydb
  <2>1. PICK found \in BOOLEAN : found = TRUE
    OBVIOUS
  <2>2. g = Take(h, k, found)
    BY <1>1, <1>2, <1>3, <1>6, <2>1 DEF ReadKeyDB
  <2>3. Shape(g) /\ Moved(h, g)
    BY <1>4, <1>5, <2>2, ShapeRead
  <2>4. g.q = h.q /\ ~g.missed
    BY <2>3 DEF Moved
  <2> QED
    BY <1>1, <1>3, <2>3, <2>4 DEF Missing
<1>7. CASE DbKey(k) \notin keydb
  <2>1. g = [h EXCEPT !.missed = TRUE]
    BY <1>1, <1>2, <1>3, <1>7 DEF ReadKeyDB
  <2>2. IsHandler(g) /\ g.q = h.q /\ g.todo = h.todo
    BY <1>5, <2>1, MissIs
  <2>3. Shape(g)
    BY <1>5, <2>2, ShapeSame
  <2>4. PICK d : d = DbKey(k)
    OBVIOUS
  <2>5. \A t \in Ticks : Copied(t, d)
    BY <1>7, <2>4, LostIsCopied
  <2>6. saved.indexed \in 0 .. LastTick
    BY DEF StoreInv, StoreTypes
  <2>7. \A t \in Ticks : Copied(t, d)'
    BY <2>5, <2>6, CopiedStays
  <2>8. NextKey' = k /\ DbKey(NextKey)' = d /\ rd'.todo # << >>
    BY <1>3, <1>4, <2>2, <2>4 DEF NextKey, DbKey
  <2>9. \A t \in Ticks : Copied(t, DbKey(NextKey))'
    BY <2>7, <2>8 DEF Copied
  <2>10. Missing'
    BY <1>4, <2>8, <2>9 DEF Missing, TieredKinds
  <2> QED
    BY <1>1, <1>3, <2>2, <2>3, <2>10
<1> QED
  BY <1>6, <1>7

LEMMA ShapeOfReadKvrocks ==
    ASSUME Shape(rd), ReadKvrocks, kvOn \in BOOLEAN
    PROVE  Shape(rd)' /\ Missing' /\ rd'.q = rd.q
<1>1. PICK h : h = rd
  OBVIOUS
<1>2. PICK k : k = NextKey
  OBVIOUS
<1>3. PICK g : g = rd'
  OBVIOUS
<1>4. PICK found \in BOOLEAN : found = Kvrocks(DbKey(NextKey))
  BY DEF Kvrocks
<1>5. PICK e \in BOOLEAN : e = (mode.tick = "Kvrocks" /\ ~kvOn)
  OBVIOUS
<1>6. PICK f : f = Take(h, k, found)
  OBVIOUS
<1>7. /\ h.q.api # "none" /\ h.todo # << >> /\ k[1] \in TieredKinds \cup {"tick_vote", "vtick"} /\ k = Head(h.todo)
  BY <1>1, <1>2 DEF ReadKvrocks, Reading, NextKey
<1>8. Shape(f) /\ Moved(h, f)
  BY <1>1, <1>6, <1>7, ShapeRead
<1>9. g = [f EXCEPT !.early = @ \/ e]
  <2>1. Take(rd, NextKey, Kvrocks(DbKey(NextKey))) = f
    BY <1>1, <1>2, <1>4, <1>6
  <2> QED
    BY <1>3, <1>5, <2>1 DEF ReadKvrocks
<1>10. IsHandler(f) /\ f.q = h.q /\ ~f.missed
  BY <1>8 DEF Moved
<1>11. IsHandler(g) /\ g.q = f.q /\ g.todo = f.todo /\ g.missed = f.missed
  BY <1>9, <1>10, EarlyIs
<1>12. Shape(g)
  BY <1>8, <1>11, ShapeSame
<1> QED
  BY <1>1, <1>3, <1>10, <1>11, <1>12 DEF Missing

LEMMA ShapeOfReadVotes ==
    ASSUME Shape(rd), ReadVotes
    PROVE  Shape(rd)' /\ Missing' /\ rd'.q = rd.q
<1>1. PICK h : h = rd
  OBVIOUS
<1>2. PICK k : k = NextKey
  OBVIOUS
<1> DEFINE b == NextKey \in keydb
<1>0. b \in BOOLEAN
  OBVIOUS
<1> HIDE DEF b
<1>3. PICK found \in BOOLEAN : found = b
  BY <1>0
<1>4. PICK g : g = Take(h, k, found)
  OBVIOUS
<1>5. /\ h.q.api # "none" /\ h.todo # << >> /\ k[1] \in TieredKinds \cup {"tick_vote", "vtick"} /\ k = Head(h.todo)
  BY <1>1, <1>2 DEF ReadVotes, Reading, NextKey
<1>6. Shape(g) /\ Moved(h, g)
  BY <1>1, <1>4, <1>5, ShapeRead
<1>7. rd' = g
  BY <1>1, <1>2, <1>3, <1>4 DEF ReadVotes, b
<1>8. g.q = h.q /\ ~g.missed
  BY <1>6 DEF Moved
<1> QED
  BY <1>1, <1>6, <1>7, <1>8 DEF Missing

\* What is not read from a tier is done while no key is missing.
LEMMA NotMissing ==
    ASSUME Missing, NextKey[1] \notin TieredKinds \/ rd.todo = << >>, NEW g, g = rd', g.missed = rd.missed
    PROVE  Missing'
BY DEF Missing

LEMMA ShapeOfIndexed ==
    ASSUME Shape(rd), Missing, db_get_indexed_tx
    PROVE  Shape(rd)' /\ Missing' /\ rd'.q = rd.q
<1>1. PICK h : h = rd
  OBVIOUS
<1>2. PICK k : k = NextKey
  OBVIOUS
<1>3. PICK g : g = rd'
  OBVIOUS
<1>4. h.q.api # "none" /\ h.todo # << >> /\ k[1] = "itx" /\ k = Head(h.todo)
  BY <1>1, <1>2 DEF db_get_indexed_tx, Reading, NextKey
<1>5. Shape(h) /\ IsHandler(h)
  BY <1>1 DEF Shape
<1>6. PICK v : v = h.out \o SetToSeq({p[1][4] : p \in {p \in index :
                                Len(p[1]) = 4 /\ p[1][2] = NextKey[2] /\ p[1][3] = NextKey[3]}})
  OBVIOUS
<1>7. PICK s : s = << >>
  OBVIOUS
<1>8. PICK e : e = [h EXCEPT !.todo = s]
  OBVIOUS
<1>9. g = [e EXCEPT !.out = v] /\ e.todo = s
  BY <1>1, <1>3, <1>5, <1>6, <1>7, <1>8 DEF db_get_indexed_tx, IsHandler, HandlerOf
<1>10. Same(h, e)
  BY <1>5, <1>8, ExceptIsSame
<1>11. IsHandler(e)
  BY <1>10 DEF Same
<1>12. Same(e, g) /\ g.todo = s
  <2>1. Same(e, g)
    BY <1>9, <1>11, ExceptIsSame
  <2> QED
    BY <1>9, <1>11, <2>1 DEF IsHandler, HandlerOf
<1>13. Same(h, g)
  BY <1>10, <1>12, SameTwice
<1>14. IsHandler(g) /\ g.q = h.q /\ g.missed = h.missed
  BY <1>13 DEF Same
<1>15. h.q.api # "tick"
  BY <1>4, <1>5, NextOfTick
<1>16. TxAhead(g.todo, g.q)
  BY <1>7, <1>12 DEF TxAhead
<1>17. Shape(g)
  BY <1>5, <1>14, <1>15, <1>16 DEF Shape
<1>18. Missing'
  <2>1. NextKey[1] \notin TieredKinds
    BY <1>2, <1>4 DEF TieredKinds
  <2> QED
    BY <1>1, <1>3, <1>14, <2>1, NotMissing
<1> QED
  BY <1>1, <1>3, <1>14, <1>17, <1>18

LEMMA ShapeOfCompute ==
    ASSUME Shape(rd), Missing, Compute
    PROVE  Shape(rd)' /\ Missing' /\ rd'.q = rd.q
<1>1. PICK h : h = rd
  OBVIOUS
<1>2. PICK k : k = NextKey
  OBVIOUS
<1>3. PICK g : g = rd'
  OBVIOUS
<1>4. h.q.api # "none" /\ h.todo # << >> /\ k[1] \in {"visit", "attribute", "incoming"} /\ k = Head(h.todo)
  BY <1>1, <1>2 DEF Compute, Reading, NextKey
<1>5. Shape(h) /\ IsHandler(h)
  BY <1>1 DEF Shape
<1>6. h.q.api # "tick" /\ h.q.api # "tx"
  <2>1. h.q.api # "tick"
    BY <1>4, <1>5, NextOfTick
  <2>2. h.q.api = "tx" => k = <<"transaction", h.q.from, h.q.to>> \/ k = <<"itx", h.q.from, h.q.to>>
    BY <1>4, <1>5, NextOfTx
  <2>3. h.q.api = "tx" => k[1] \in {"transaction", "itx"}
    BY <2>2
  <2> QED
    BY <1>4, <2>1, <2>3
<1>7. PICK r : r = Rest(h)
  OBVIOUS
<1>8. Same(h, r)
  BY <1>5, <1>7, RestIsSame
<1>9. IsHandler(r)
  BY <1>8 DEF Same
<1>10. g = Visit(r, k[2]) \/ g = Attribute(h, k[2]) \/ g = r
  BY <1>1, <1>2, <1>3, <1>4, <1>7 DEF Compute, Rest
<1>11. Same(h, g)
  <2>1. CASE g = Visit(r, k[2])
    <3>1. Same(r, g)
      BY <1>9, <2>1, VisitIsSame
    <3> QED
      BY <1>8, <3>1, SameTwice
  <2>2. CASE g = Attribute(h, k[2])
    BY <1>5, <2>2, AttributeIsSame
  <2> QED
    BY <1>8, <1>10, <2>1, <2>2
<1>12. IsHandler(g) /\ g.q = h.q /\ g.missed = h.missed
  BY <1>11 DEF Same
<1>13. Shape(g)
  BY <1>5, <1>6, <1>12, ShapeSame
<1>14. Missing'
  <2>1. NextKey[1] \notin TieredKinds
    BY <1>2, <1>4 DEF TieredKinds
  <2> QED
    BY <1>1, <1>3, <1>12, <2>1, NotMissing
<1> QED
  BY <1>1, <1>3, <1>12, <1>13, <1>14

LEMMA ShapeOfIdle ==
    ASSUME rd' = NewHandler(NoRequest)
    PROVE  HandlerInv'
<1>1. PICK g : g = rd'
  OBVIOUS
<1>2. IsHandler(g) /\ g.q = NoRequest /\ g.missed = FALSE
  BY <1>1, IdleIsHandler
<1>3. NoRequest.api = "none"
  BY DEF NoRequest
<1>4. Shape(g) /\ ~g.missed
  BY <1>2, <1>3 DEF Shape
<1> QED
  BY <1>1, <1>2, <1>3, <1>4 DEF HandlerInv, Missing

LEMMA ShapeOfRequest ==
    ASSUME NEW q \in Requests, Request(q)
    PROVE  HandlerInv' /\ rd'.q = q
<1>1. PICK g : g = rd'
  OBVIOUS
<1>2. PICK v : v = Plan(q)
  OBVIOUS
<1>3. g = Fresh(q, v)
  BY <1>1, <1>2 DEF Request, Fresh
<1>4. IsHandler(g) /\ g.q = q /\ g.todo = v /\ ~g.missed
  BY <1>3, NewIsHandler
<1>5. ASSUME q.api = "tick" PROVE Count + 3 - Len(v) \in 0 .. Count + 3 /\ Ahead(v, q.from, Count + 3 - Len(v))
  <2>1. v = bobGetTick(q)
    BY <1>2, <1>5 DEF Plan
  <2>2. q.from \in Ticks
    BY <1>5, RequestAssumption
  <2>3. Ahead(v, q.from, 0)
    BY <2>1, <2>2, PlanOfTick
  <2>4. Len(v) = Count + 3 - 0 /\ Count \in Nat
    BY <2>3, BatchesAre DEF Ahead
  <2>5. Count + 3 - Len(v) = 0
    BY <2>4
  <2> QED
    BY <2>3, <2>4, <2>5
<1>6. ASSUME q.api = "tx" PROVE TxAhead(v, q)
  BY <1>2, <1>6 DEF Plan, TxAhead
<1>7. Shape(g)
  BY <1>4, <1>5, <1>6 DEF Shape
<1>8. q.api \in {"tick", "tx"} => q.from <= saved'.indexed
  BY DEF Request, TicksOf
<1> QED
  BY <1>1, <1>4, <1>7, <1>8 DEF HandlerInv, Missing

LEMMA HandlerInit ==
    ASSUME Init
    PROVE  HandlerInv
<1>1. PICK g : g = rd
  OBVIOUS
<1>2. g = NewHandler(NoRequest)
  BY <1>1 DEF Init
<1>3. IsHandler(g) /\ g.q = NoRequest /\ g.missed = FALSE
  BY <1>2, IdleIsHandler
<1>4. NoRequest.api = "none"
  BY DEF NoRequest
<1>5. Shape(g) /\ ~g.missed
  BY <1>3, <1>4 DEF Shape
<1> QED
  BY <1>1, <1>3, <1>4, <1>5 DEF HandlerInv, Missing

LEMMA HandlerNext ==
    ASSUME StoreInv, HandlerInv, [Next]_vars
    PROVE  HandlerInv'
<1>0. /\ Grow /\ saved.indexed \in 0 .. LastTick /\ LastTick \in Nat /\ kvOn \in BOOLEAN
      /\ Shape(rd) /\ Missing /\ (rd.q.api \in {"tick", "tx"} => rd.q.from <= saved.indexed)
  BY GrowNext, TicksAre DEF StoreInv, StoreTypes, HandlerInv
<1>1. ASSUME rd'.q = rd.q PROVE rd'.q.api \in {"tick", "tx"} => rd'.q.from <= saved'.indexed
  <2>1. SUFFICES ASSUME rd.q.api \in {"tick", "tx"} PROVE rd.q.from <= saved'.indexed
    BY <1>1
  <2>2. PICK h : h = rd
    OBVIOUS
  <2>3. h.q.from \in Ticks
    BY <1>0, <2>1, <2>2, RequestIs
  <2>4. PICK t \in Int : t = rd.q.from
    BY <2>2, <2>3, TicksAre
  <2>5. t <= saved.indexed /\ saved.indexed <= saved'.indexed /\ saved'.indexed \in 0 .. LastTick
    BY <1>0, <2>1, <2>4 DEF Grow
  <2> QED
    BY <1>0, <2>4, <2>5
<1>2. ASSUME rd' = rd PROVE HandlerInv'
  BY <1>0, <1>1, <1>2, MissingStays DEF HandlerInv
<1>3. ASSUME Shape(rd)', Missing', rd'.q = rd.q PROVE HandlerInv'
  BY <1>1, <1>3 DEF HandlerInv
<1>4. CASE StartThreads \/ Indexer
  BY <1>2, <1>4 DEF StartThreads, Indexer, IndexTick, TickIndexed, IndexerEnds
<1>15. CASE EndEpochLogged \/ UserStops
  BY <1>2, <1>15 DEF EndEpochLogged, UserStops
<1>5. CASE Crash \/ Restart \/ Reply
  BY <1>5, ShapeOfIdle DEF Crash, Restart, ProcessEnds, Reply
<1>6. CASE TickPass \/ TxPass \/ EndPass \/ CleanerExits
  BY <1>2, <1>6 DEF TickPass, TxPass, EndPass, CleanerExits
<1>7. CASE Commands
  BY <1>2, <1>7 DEF Commands, CleanerCalls, StoreVtick, StoreCopy, KvrocksFails, DeleteKeys, db_insert_u32
<1>8. CASE \E q \in Requests : Request(q)
  BY <1>8, ShapeOfRequest
<1>9. CASE ReadKeyDB
  BY <1>0, <1>3, <1>9, ShapeOfReadKeyDB
<1>10. CASE ReadKvrocks
  BY <1>0, <1>3, <1>10, ShapeOfReadKvrocks
<1>11. CASE ReadVotes
  BY <1>0, <1>3, <1>11, ShapeOfReadVotes
<1>12. CASE db_get_indexed_tx
  BY <1>0, <1>3, <1>12, ShapeOfIndexed
<1>13. CASE Compute
  BY <1>0, <1>3, <1>13, ShapeOfCompute
<1>14. CASE UNCHANGED vars
  BY <1>2, <1>14 DEF vars
<1> QED
  BY <1>4, <1>5, <1>6, <1>7, <1>8, <1>9, <1>10, <1>11, <1>12, <1>13, <1>14, <1>15 DEF Next, Process, Cleaner, Handler

LEMMA OffInit ==
    ASSUME Init
    PROVE  KvrocksIsOff
<1>1. kvrocks = {} /\ gc.agenda = << >>
  BY DEF Init, CleanerOff
<1> QED
  BY <1>1, PlainEmpty DEF KvrocksIsOff

\* A key that is kept and not excused is found in KVRocks, once that is connected.
LEMMA CopiedIsFound ==
    ASSUME NEW t \in Ticks, NEW k, Copied(t, k), k \in Kept(t), k \notin Excused(t), KvrocksIsOff,
           mode.tick = "Kvrocks" => kvOn
    PROVE  Kvrocks(k) /\ mode.tick = "Kvrocks"
BY DEF Copied, KvrocksIsOff, Kvrocks

\* The db_try_get_* functions look in KeyDB first and then in KVRocks.  In between the
\* cleaner may move the key; what the handlers did not find in KeyDB they find in KVRocks,
\* once it is connected, if the modes keep it.
FallbackFinds ==
    [][ReadKvrocks /\ rd.missed /\ (mode.tick = "Kvrocks" => kvOn) =>
        \A t \in Ticks : DbKey(NextKey) \in Kept(t) \ Excused(t) => Kvrocks(DbKey(NextKey))]_vars

\* Every read of every REST handler that comes too late for KeyDB comes in time for KVRocks,
\* whatever the cleaner, the indexer and crashes do between the two commands.
THEOREM ReadsFall == Spec => FallbackFinds
<1> DEFINE Inv == StoreInv /\ HandlerInv /\ KvrocksIsOff
<1>1. Init => Inv
  BY StoreInit, HandlerInit, OffInit
<1>2. Inv /\ [Next]_vars => Inv'
  BY StoreNext, HandlerNext, OffNext
<1>3. Inv /\ [Next]_vars =>
          [ReadKvrocks /\ rd.missed /\ (mode.tick = "Kvrocks" => kvOn) =>
              \A t \in Ticks : DbKey(NextKey) \in Kept(t) \ Excused(t) => Kvrocks(DbKey(NextKey))]_vars
  <2> SUFFICES ASSUME Inv, rd.missed, mode.tick = "Kvrocks" => kvOn,
                      NEW t \in Ticks, DbKey(NextKey) \in Kept(t) \ Excused(t)
               PROVE  Kvrocks(DbKey(NextKey))
    OBVIOUS
  <2>1. PICK k : k = DbKey(NextKey)
    OBVIOUS
  <2>2. Copied(t, k)
    BY <2>1 DEF HandlerInv, Missing
  <2>3. k \in Kept(t) /\ k \notin Excused(t)
    BY <2>1
  <2> QED
    BY <2>1, <2>2, <2>3, CopiedIsFound
<1> QED
  BY <1>1, <1>2, <1>3, PTL DEF Spec, FallbackFinds

------------------------------------------------------------------------------
(* The handlers: the answer to a request for a tick *)

\* The modes keep the raw tick and its ranges.
TickWanted(t) == \A k : k \in Raw[t] \/ k \in LogRangeKeys[t] => k \in Kept(t) /\ k \notin Excused(t)

\* KeyDB has lost the votes of a batch.
VotesLost(t, b) == <<"tick_vote", t, b>> \notin keydb

\* What a handler holds that has read the first p keys.  Votes it did not find were
\* deleted, and KVRocks has the whole tick by then.
TickRead(h, p) ==
    LET t == h.q.from
    IN  /\ ~h.fault
        /\ p >= 1 => h.td = DataTick(t)
        /\ p < 2 => h.out = << >>
        /\ p >= 2 => h.out = <<Hull[t]>>
        /\ \A b \in h.votes : b \in Batches
        /\ p < Count + 3 =>
               \A j \in 1 .. Count : j + 2 <= p =>
                   Ascending(Batches)[j] \in h.votes \/ VotesLost(t, Ascending(Batches)[j])
        /\ p = Count + 3 =>
               \/ h.votes = Batches
               \/ /\ h.votes # {} /\ vtick(t) \in kvrocks
                  /\ \A b \in Batches : b \in h.votes \/ VotesLost(t, b)

\* The handler has read p keys.
HasRead(h, p) == p = Count + 3 - Len(h.todo)

\* The handler at work, if KVRocks was connected whenever it was asked.
TickInv ==
    \A h, t, p : h = rd /\ h.q.api = "tick" /\ ~h.early /\ t = h.q.from /\ TickWanted(t) /\ HasRead(h, p)
        => TickRead(h, p)

LEMMA WantedIsThere ==
    ASSUME StoreInv, KvrocksIsOff, NEW t \in Ticks, TickWanted(t), mode.tick = "Kvrocks" => kvOn,
           ~(Raw[t] \subseteq keydb)
    PROVE  Kvrocks(vtick(t)) /\ \A b \in Batches : <<"tick_vote", t, b>> \in kvrocks
<1>1. PICK k \in Raw[t] : k \notin keydb
  OBVIOUS
<1>2. Copied(t, k) /\ k \in Kept(t) /\ k \notin Excused(t)
  BY <1>1, LostIsCopied DEF TickWanted
<1>3. mode.tick = "Kvrocks" /\ kvOn
  BY <1>2, CopiedIsFound
<1>4. \A x \in Whole(t) : Safe(t, x)
  BY <1>3 DEF StoreInv, WholeIsSafe
<1>5. vtick(t) \in kvrocks
  <2>1. vtick(t) \in Whole(t)
    BY WholeHas
  <2>2. vtick(t) \in kvrocks \/ vtick(t) \in unsaved
    BY <1>4, <2>1 DEF Safe
  <2>3. vtick(t) \notin unsaved
    BY <1>1, <1>2 DEF Excused, vtick
  <2> QED
    BY <2>2, <2>3
<1>6. ASSUME NEW b \in Batches PROVE <<"tick_vote", t, b>> \in kvrocks
  <2> DEFINE v == <<"tick_vote", t, b>>
  <2>1. v \in Raw[t]
    BY RawHas
  <2> HIDE DEF v
  <2>2. v \in Whole(t) /\ v \in Kept(t) /\ v \notin Excused(t)
    BY <2>1, WholeHas DEF TickWanted
  <2>3. v \in kvrocks
    BY <1>4, <2>2 DEF Safe
  <2> QED
    BY <2>3 DEF v
<1> QED
  BY <1>3, <1>5, <1>6 DEF Kvrocks

\* The facts about a key just read that the answer rests on.
ReadRight(t, k, found) ==
    /\ k = tickData(t) => found \/ t \in Empty
    /\ k = <<"tick_log_range", t, 0>> => found
    /\ \A b \in Batches : k = <<"tick_vote", t, b>> => found \/ VotesLost(t, b)
    /\ k = vtick(t) /\ (\E b \in Batches : VotesLost(t, b)) =>
           found /\ vtick(t) \in kvrocks /\ \A b \in Batches : <<"tick_vote", t, b>> \in kvrocks

LEMMA TickReadOn ==
    ASSUME NEW h, Shape(h), h.q.api = "tick", h.todo # << >>, NEW p, HasRead(h, p),
           NEW t, t = h.q.from, TickRead(h, p), NEW k, k = Head(h.todo),
           NEW found \in BOOLEAN, NEW g, g = Take(h, k, found), ReadRight(t, k, found)
    PROVE  TickRead(g, p + 1) /\ HasRead(g, p + 1)
<1>0. p \in 0 .. Count + 2 /\ k = TickKey(t, p + 1) /\ Count + 3 - Len(Tail(h.todo)) = p + 1
  BY NextOfTick DEF HasRead
<1>1. p \in 0 .. Count + 2 /\ k = TickKey(t, p + 1) /\ (g.todo = Tail(h.todo) => HasRead(g, p + 1))
  BY <1>0 DEF HasRead
<1>2. IsHandler(h) /\ h.q.from = t
  BY DEF Shape
<1>3. Count \in Nat /\ Count >= 1 /\ p \in Int
  BY <1>1, BatchesAre
<1>4. Moved(h, g)
  BY RequestIs, NextOfTick, <1>2, TakeIsMove DEF TieredKinds
<1>5. g.q = h.q
  BY <1>4 DEF Moved
<1>6. CASE p = 0
  <2>1. k = tickData(t) /\ k[1] = "tick_data" /\ k[2] = t
    BY <1>1, <1>6 DEF TickKey, tickData
  <2>2. /\ g.todo = Tail(h.todo) /\ g.votes = h.votes /\ g.out = h.out /\ g.fault = h.fault
        /\ g.td = IF found /\ k[2] \notin Empty THEN k[2] ELSE 0
    BY <1>2, <2>1, TakesData
  <2>3. g.td = DataTick(t)
    BY <2>1, <2>2 DEF DataTick, ReadRight
  <2>4. /\ ~h.fault /\ h.out = << >> /\ \A b \in h.votes : b \in Batches
    BY <1>2, <1>6 DEF TickRead
  <2>5. p + 1 = 1 /\ 1 < Count + 3
    BY <1>3, <1>6
  <2>6. TickRead(g, 1)
    BY <1>2, <1>3, <1>5, <2>2, <2>3, <2>4 DEF TickRead
  <2> QED
    BY <1>1, <2>2, <2>5, <2>6
<1>7. CASE p = 1
  <2>1. k = <<"tick_log_range", t, 0>> /\ k[1] = "tick_log_range" /\ k[2] = t
    BY <1>1, <1>7 DEF TickKey
  <2>2. /\ g.todo = Tail(h.todo) /\ g.votes = h.votes /\ g.td = h.td /\ g.fault = h.fault
        /\ g.out = Append(h.out, IF found THEN Hull[k[2]] ELSE {})
    BY <1>2, <2>1, TakesRange
  <2>3. /\ ~h.fault /\ h.out = << >> /\ h.td = DataTick(t) /\ \A b \in h.votes : b \in Batches
    BY <1>2, <1>7 DEF TickRead
  <2>4. g.out = <<Hull[t]>>
    <3> DEFINE x == Hull[t]
    <3>1. g.out = Append(<< >>, x)
      BY <2>1, <2>2, <2>3 DEF ReadRight
    <3> HIDE DEF x
    <3> QED
      BY <3>1 DEF x
  <2>5. p + 1 = 2
    BY <1>7
  <2>6. TickRead(g, 2)
    BY <1>2, <1>3, <1>5, <2>2, <2>3, <2>4 DEF TickRead
  <2> QED
    BY <1>1, <2>2, <2>5, <2>6
<1>8. CASE 2 <= p /\ p < Count + 2
  <2> DEFINE i == p - 1
             b == Ascending(Batches)[i]
  <2>1. i \in 1 .. Count /\ (p + 1) - 2 = i
    BY <1>3, <1>8
  <2>2. b \in Batches
    BY <2>1, BatchesAre
  <2>3. k = <<"tick_vote", t, b>>
    <3>1. p + 1 # 1 /\ p + 1 # 2 /\ p + 1 <= Count + 2
      BY <1>3, <1>8
    <3> QED
      BY <1>1, <2>1, <3>1 DEF TickKey
  <2> HIDE DEF b
  <2>4. k[1] = "tick_vote" /\ k[3] = b
    BY <2>3
  <2>5. /\ g.todo = Tail(h.todo) /\ g.out = h.out /\ g.td = h.td /\ g.fault = h.fault
        /\ \A x : x \in g.votes <=> x \in h.votes \/ (found /\ x = k[3])
    BY <1>2, <2>4, TakesVote
  <2>6. (\A x : x \in g.votes <=> x \in h.votes \/ (found /\ x = b))
    BY <2>4, <2>5
  <2>7. /\ ~h.fault /\ h.out = <<Hull[t]>> /\ h.td = DataTick(t) /\ (\A x \in h.votes : x \in Batches)
        /\ \A j \in 1 .. Count : j + 2 <= p => Ascending(Batches)[j] \in h.votes \/ VotesLost(t, Ascending(Batches)[j])
    BY <1>2, <1>3, <1>8 DEF TickRead
  <2>8. found \/ VotesLost(t, b)
    BY <2>2, <2>3 DEF ReadRight
  <2>9. ASSUME NEW j \in 1 .. Count, j + 2 <= p + 1
        PROVE  Ascending(Batches)[j] \in g.votes \/ VotesLost(t, Ascending(Batches)[j])
    <3>1. CASE j = i
      BY <2>6, <2>8, <3>1 DEF b
    <3>2. CASE j # i
      <4>1. j + 2 <= p
        BY <1>3, <2>9, <3>2
      <4> QED
        BY <2>6, <2>7, <4>1
    <3> QED
      BY <3>1, <3>2
  <2>10. p + 1 >= 2 /\ p + 1 < Count + 3 /\ p + 1 \in Int
    BY <1>3, <1>8
  <2>11. \A x \in g.votes : x \in Batches
    BY <2>2, <2>6, <2>7
  <2> DEFINE n == p + 1
  <2>12. n >= 2 /\ n < Count + 3 /\ n \in Int
         /\ \A j \in 1 .. Count : j + 2 <= n => Ascending(Batches)[j] \in g.votes \/ VotesLost(t, Ascending(Batches)[j])
    BY <2>9, <2>10
  <2> HIDE DEF n
  <2>13. TickRead(g, n)
    BY <1>2, <1>3, <1>5, <2>5, <2>7, <2>11, <2>12 DEF TickRead
  <2> QED
    BY <1>1, <2>5, <2>13 DEF n
<1>9. CASE p = Count + 2
  <2>1. k = vtick(t) /\ k[1] = "vtick" /\ k[2] = t
    <3>1. p + 1 # 1 /\ p + 1 # 2 /\ ~(p + 1 <= Count + 2)
      BY <1>3, <1>9
    <3> QED
      BY <1>1, <3>1 DEF TickKey, vtick
  <2> DEFINE V == {b \in Batches : <<"tick_vote", k[2], b>> \in kvrocks}
  <2>2. /\ g.todo = Tail(h.todo) /\ g.out = h.out /\ g.td = h.td /\ g.fault = h.fault
        /\ g.votes = IF h.votes = {} /\ found THEN V ELSE h.votes
    BY <1>2, <2>1, TakesVtick, Zenon
  <2>3. /\ ~h.fault /\ h.out = <<Hull[t]>> /\ h.td = DataTick(t) /\ (\A x \in h.votes : x \in Batches)
        /\ \A j \in 1 .. Count : Ascending(Batches)[j] \in h.votes \/ VotesLost(t, Ascending(Batches)[j])
    BY <1>2, <1>3, <1>9 DEF TickRead
  <2> DEFINE Torn2 == /\ g.votes # {} /\ vtick(t) \in kvrocks
                      /\ \A b \in Batches : b \in g.votes \/ VotesLost(t, b)
             Right == g.votes = Batches \/ Torn2
  <2>0. \A b \in Batches : b \in h.votes \/ VotesLost(t, b)
    BY <2>3, BatchesAre
  <2>4. ASSUME ~\E b \in Batches : VotesLost(t, b) PROVE Right
    <3>1. \A b \in Batches : b \in h.votes
      BY <2>0, <2>4
    <3>2. h.votes = Batches /\ Batches # {}
      BY <2>3, <3>1, LogAssumption
    <3> HIDE DEF V
    <3> QED
      BY <2>2, <3>2
  <2>5. ASSUME \E b \in Batches : VotesLost(t, b) PROVE Right
    <3>1. found /\ vtick(t) \in kvrocks /\ \A b \in Batches : <<"tick_vote", t, b>> \in kvrocks
      BY <2>1, <2>5 DEF ReadRight
    <3>2. V = Batches
      BY <2>1, <3>1
    <3> HIDE DEF V
    <3> QED
      BY <2>0, <2>2, <3>1, <3>2
  <2>6. Right
    BY <2>4, <2>5
  <2>7. \A x \in g.votes : x \in Batches
    BY <2>2, <2>3
  <2> DEFINE n == p + 1
  <2>8. n >= 2 /\ n = Count + 3
    BY <1>3, <1>9
  <2> HIDE DEF n, V
  <2>9. TickRead(g, n)
    BY <1>2, <1>3, <1>5, <2>2, <2>3, <2>6, <2>7, <2>8 DEF TickRead
  <2> QED
    BY <1>1, <2>2, <2>9 DEF n
<1> QED
  BY <1>1, <1>3, <1>6, <1>7, <1>8, <1>9

LEMMA TickReadStays ==
    ASSUME Grow, NEW h, NEW p, TickRead(h, p)
    PROVE  TickRead(h, p)'
<1>1. (\A k \in kvrocks : k \in kvrocks') /\ \A k \in keydb' : k \in keydb
  BY DEF Grow
<1>2. \A b : VotesLost(h.q.from, b) => VotesLost(h.q.from, b)'
  BY <1>1 DEF VotesLost
<1>3. vtick(h.q.from) \in kvrocks => vtick(h.q.from) \in kvrocks'
  BY <1>1
<1> QED
  BY <1>2, <1>3 DEF TickRead

LEMMA WantedWas ==
    ASSUME saved.indexed \in 0 .. LastTick, Grow, NEW t \in Ticks, TickWanted(t)'
    PROVE  TickWanted(t)
<1>1. \A k \in Kept(t)' : k \in Kept(t)
  BY KeptShrinks
<1>2. ASSUME NEW k, k \in Excused(t) PROVE k \in Excused(t)'
  BY <1>2 DEF Excused, Grow
<1> QED
  BY <1>1, <1>2 DEF TickWanted

\* A handler g that, at work on a tick that is wanted, has read p keys.
TickStep(g) ==
    \A t, p : g.q.api = "tick" /\ ~g.early /\ t = g.q.from /\ t \in Ticks /\ TickWanted(t) /\ HasRead(g, p)
        => TickRead(g, p)

LEMMA TickGoesOn ==
    ASSUME saved.indexed \in 0 .. LastTick, Grow, NEW g, g = rd', Shape(g), TickStep(g)
    PROVE  TickInv'
<1>1. SUFFICES ASSUME NEW t, NEW p, g.q.api = "tick", ~g.early, t = g.q.from, TickWanted(t)', HasRead(g, p)
               PROVE  TickRead(g, p)'
  BY DEF TickInv
<1>2. t \in Ticks
  BY <1>1, RequestIs
<1>3. TickWanted(t)
  BY <1>1, <1>2, WantedWas
<1>4. TickRead(g, p)
  BY <1>1, <1>2, <1>3 DEF TickStep
<1> QED
  BY <1>4, TickReadStays

LEMMA TickOfSame ==
    ASSUME TickInv, NEW h, h = rd, NEW g, g.q = h.q, g.todo = h.todo, g.td = h.td, g.votes = h.votes,
           g.out = h.out, g.fault = h.fault, g.early = h.early
    PROVE  TickStep(g)
<1>1. SUFFICES ASSUME NEW t, NEW p, g.q.api = "tick", ~g.early, t = g.q.from, TickWanted(t), HasRead(g, p)
               PROVE  TickRead(g, p)
  BY DEF TickStep
<1>2. HasRead(h, p)
  BY <1>1 DEF HasRead
<1>3. TickRead(h, p)
  BY <1>1, <1>2 DEF TickInv
<1> QED
  BY <1>3 DEF TickRead

LEMMA TickOfRead ==
    ASSUME TickInv, NEW h, h = rd, Shape(h), h.q.api # "none", h.todo # << >>, NEW k, k = Head(h.todo),
           NEW found \in BOOLEAN, NEW f, f = Take(h, k, found),
           NEW g, g.q = h.q, g.todo = f.todo, g.td = f.td, g.votes = f.votes, g.out = f.out, g.fault = f.fault,
           g.early \in BOOLEAN, ~g.early => ~h.early,
           \A t : h.q.api = "tick" /\ ~g.early /\ t = h.q.from /\ t \in Ticks /\ TickWanted(t) => ReadRight(t, k, found)
    PROVE  TickStep(g)
<1>1. SUFFICES ASSUME NEW t, NEW n, g.q.api = "tick", ~g.early, t = g.q.from, t \in Ticks, TickWanted(t), HasRead(g, n)
               PROVE  TickRead(g, n)
  BY DEF TickStep
<1>2. h.q.api = "tick" /\ t = h.q.from
  BY <1>1
<1>3. PICK p : p = Count + 3 - Len(h.todo)
  OBVIOUS
<1>4. HasRead(h, p)
  BY <1>3 DEF HasRead
<1>5. TickRead(h, p)
  BY <1>1, <1>2, <1>4 DEF TickInv
<1>6. ReadRight(t, k, found)
  BY <1>1, <1>2
<1>8. TickRead(f, p + 1) /\ HasRead(f, p + 1)
  BY <1>2, <1>4, <1>5, <1>6, TickReadOn, Zenon
<1>9. n = p + 1
  BY <1>1, <1>8 DEF HasRead
<1>10. g.q = f.q
  <2>1. IsHandler(h) /\ k[1] \in TieredKinds \cup {"tick_vote", "vtick"}
    BY <1>2, NextOfTick DEF TieredKinds, Shape
  <2>2. Moved(h, f)
    BY <2>1, ShapeRead
  <2> QED
    BY <2>2 DEF Moved
<1> QED
  BY <1>8, <1>9, <1>10 DEF TickRead

LEMMA TickOfReadKeyDB ==
    ASSUME Shape(rd), TickInv, ReadKeyDB, NEW g, g = rd'
    PROVE  TickStep(g)
<1>1. PICK h : h = rd
  OBVIOUS
<1>2. PICK k : k = NextKey
  OBVIOUS
<1>3. h.q.api # "none" /\ h.todo # << >> /\ k[1] \in TieredKinds /\ k = Head(h.todo)
  BY <1>1, <1>2 DEF ReadKeyDB, Reading, NextKey
<1>4. IsHandler(h) /\ Shape(h)
  BY <1>1 DEF Shape
<1>5. CASE DbKey(k) \in keydb
  <2>1. PICK found \in BOOLEAN : found = TRUE
    OBVIOUS
  <2>2. g = Take(h, k, found)
    BY <1>1, <1>2, <1>5, <2>1 DEF ReadKeyDB
  <2>3. Moved(h, g)
    BY <1>3, <1>4, <2>2, ShapeRead
  <2>4. g.early = h.early /\ g.q = h.q /\ g.early \in BOOLEAN
    BY <2>3 DEF Moved, IsHandler
  <2>5. \A t : k # vtick(t)
    BY <1>3 DEF TieredKinds, vtick
  <2>6. \A t : ReadRight(t, k, found)
    BY <2>1, <2>5 DEF ReadRight
  <2> QED
    BY <1>1, <1>3, <1>4, <2>2, <2>4, <2>6, TickOfRead
<1>6. CASE DbKey(k) \notin keydb
  <2>1. g = [h EXCEPT !.missed = TRUE]
    BY <1>1, <1>2, <1>6 DEF ReadKeyDB
  <2>2. /\ g.q = h.q /\ g.todo = h.todo /\ g.td = h.td /\ g.votes = h.votes /\ g.out = h.out
        /\ g.fault = h.fault /\ g.early = h.early
    BY <1>4, <2>1, MissIs
  <2> QED
    BY <1>1, <2>2, TickOfSame
<1> QED
  BY <1>5, <1>6

LEMMA TickOfReadKvrocks ==
    ASSUME StoreInv, KvrocksIsOff, Shape(rd), Missing, TickInv, ReadKvrocks, NEW g, g = rd'
    PROVE  TickStep(g)
<1>1. PICK h : h = rd
  OBVIOUS
<1>2. PICK k : k = NextKey
  OBVIOUS
<1>3. PICK found \in BOOLEAN : found = Kvrocks(DbKey(NextKey))
  BY DEF Kvrocks, StoreInv, StoreTypes
<1>4. PICK e \in BOOLEAN : e = (mode.tick = "Kvrocks" /\ ~kvOn)
  OBVIOUS
<1>5. PICK f : f = Take(h, k, found)
  OBVIOUS
<1>6. /\ h.q.api # "none" /\ h.todo # << >> /\ k[1] \in TieredKinds \cup {"tick_vote", "vtick"} /\ k = Head(h.todo)
      /\ k[1] = "vtick" \/ h.missed
  BY <1>1, <1>2 DEF ReadKvrocks, Reading, NextKey
<1>7. Shape(f) /\ Moved(h, f)
  BY <1>1, <1>5, <1>6, ShapeRead
<1>8. g = [f EXCEPT !.early = @ \/ e]
  <2>1. Take(rd, NextKey, Kvrocks(DbKey(NextKey))) = f
    BY <1>1, <1>2, <1>3, <1>5
  <2> QED
    BY <1>4, <2>1 DEF ReadKvrocks
<1>9. IsHandler(f) /\ f.q = h.q /\ f.early = h.early
  BY <1>7 DEF Moved
<1>10. /\ IsHandler(g) /\ g.q = f.q /\ g.todo = f.todo /\ g.td = f.td
       /\ g.votes = f.votes /\ g.out = f.out /\ g.fault = f.fault /\ g.early = (f.early \/ e)
  BY <1>8, <1>9, EarlyIs
<1>11. g.q = h.q /\ g.early \in BOOLEAN /\ (~g.early => ~h.early /\ ~e)
  BY <1>9, <1>10 DEF IsHandler
<1>12. ASSUME NEW t, h.q.api = "tick", ~g.early, t = h.q.from, t \in Ticks, TickWanted(t)
       PROVE  ReadRight(t, k, found)
  <2>1. mode.tick = "Kvrocks" => kvOn
    BY <1>4, <1>11, <1>12
  <2>2. ASSUME k[1] \in TieredKinds, k \in Raw[t] \/ k \in LogRangeKeys[t], DbKey(k) = k PROVE found
    <3>1. k[1] # "vtick"
      BY <2>2 DEF TieredKinds
    <3>2. Copied(t, DbKey(NextKey))
      BY <1>1, <1>6, <1>12, <3>1 DEF Missing
    <3>3. Copied(t, k)
      BY <1>2, <2>2, <3>2
    <3>4. k \in Kept(t) /\ k \notin Excused(t)
      BY <1>12, <2>2 DEF TickWanted
    <3>5. Kvrocks(k)
      BY <1>12, <2>1, <3>3, <3>4, CopiedIsFound
    <3> QED
      BY <1>2, <1>3, <2>2, <3>5
  <2>3. k = tickData(t) => found \/ t \in Empty
    <3>1. SUFFICES ASSUME k = tickData(t), t \notin Empty PROVE found
      OBVIOUS
    <3>2. k \in Raw[t] /\ k[1] = "tick_data"
      BY <1>12, <3>1, RawHas DEF tickData
    <3> QED
      BY <2>2, <3>2 DEF DbKey, TieredKinds
  <2>4. k = <<"tick_log_range", t, 0>> => found
    <3>1. SUFFICES ASSUME k = <<"tick_log_range", t, 0>> PROVE found
      OBVIOUS
    <3>2. k \in LogRangeKeys[t] /\ k[1] = "tick_log_range"
      BY <1>12, <3>1 DEF LogRangeKeys, db_insert_log_range
    <3> QED
      BY <2>2, <3>2 DEF DbKey, TieredKinds
  <2>5. \A b \in Batches : k # <<"tick_vote", t, b>>
    BY <1>1, <1>6 DEF TieredKinds, Missing, NextKey
  <2>6. ASSUME k = vtick(t), \E b \in Batches : VotesLost(t, b)
        PROVE  found /\ vtick(t) \in kvrocks /\ \A b \in Batches : <<"tick_vote", t, b>> \in kvrocks
    <3>0. ~(Raw[t] \subseteq keydb)
      BY <1>12, <2>6, RawHas DEF VotesLost
    <3>1. Kvrocks(vtick(t)) /\ \A b \in Batches : <<"tick_vote", t, b>> \in kvrocks
      BY <1>12, <2>1, <3>0, WantedIsThere
    <3>2. DbKey(k) = vtick(t)
      BY <2>6 DEF DbKey, vtick
    <3> QED
      BY <1>2, <1>3, <3>1, <3>2 DEF Kvrocks
  <2> QED
    BY <2>3, <2>4, <2>5, <2>6 DEF ReadRight
<1>13. \A t : h.q.api = "tick" /\ ~g.early /\ t = h.q.from /\ t \in Ticks /\ TickWanted(t) => ReadRight(t, k, found)
  BY <1>12
<1>14. /\ g.q = h.q /\ g.todo = f.todo /\ g.td = f.td /\ g.votes = f.votes /\ g.out = f.out
       /\ g.fault = f.fault /\ g.early \in BOOLEAN /\ (~g.early => ~h.early)
  BY <1>10, <1>11
<1>15. Shape(h) /\ h.q.api # "none" /\ h.todo # << >> /\ k = Head(h.todo)
  BY <1>1, <1>6
<1> QED
  BY <1>1, <1>5, <1>13, <1>14, <1>15, TickOfRead

LEMMA TickOfReadVotes ==
    ASSUME Shape(rd), TickInv, ReadVotes, NEW g, g = rd'
    PROVE  TickStep(g)
<1>1. PICK h : h = rd
  OBVIOUS
<1>2. PICK k : k = NextKey
  OBVIOUS
<1> DEFINE b == NextKey \in keydb
<1>3. b \in BOOLEAN
  OBVIOUS
<1> HIDE DEF b
<1>4. PICK found \in BOOLEAN : found = b
  BY <1>3
<1>5. /\ h.q.api # "none" /\ h.todo # << >> /\ k[1] = "tick_vote" /\ k = Head(h.todo)
  BY <1>1, <1>2 DEF ReadVotes, Reading, NextKey
<1>6. g = Take(h, k, found)
  BY <1>1, <1>2, <1>4 DEF ReadVotes, b
<1>7. Moved(h, g)
  BY <1>1, <1>5, <1>6, ShapeRead
<1>8. g.q = h.q /\ g.early = h.early /\ g.early \in BOOLEAN
  BY <1>7 DEF Moved, IsHandler
<1>9. ASSUME NEW t \in Ticks PROVE ReadRight(t, k, found)
  <2>1. k # tickData(t) /\ k # <<"tick_log_range", t, 0>> /\ k # vtick(t)
    BY <1>5 DEF tickData, vtick
  <2>2. ASSUME NEW c \in Batches, k = <<"tick_vote", t, c>> PROVE found \/ VotesLost(t, c)
    BY <1>2, <1>4, <2>2 DEF b, VotesLost
  <2> QED
    BY <2>1, <2>2 DEF ReadRight
<1> QED
  BY <1>1, <1>5, <1>6, <1>8, <1>9, TickOfRead

LEMMA TickOfRequest ==
    ASSUME NEW q \in Requests, Request(q), NEW g, g = rd'
    PROVE  TickStep(g)
<1>1. PICK v : v = Plan(q)
  OBVIOUS
<1>2. g = Fresh(q, v)
  BY <1>1 DEF Request, Fresh
<1>3. g.q = q /\ g.todo = v /\ ~g.early /\ ~g.fault /\ g.out = << >> /\ g.votes = {}
  BY <1>2, NewIsHandler
<1>4. SUFFICES ASSUME NEW t, NEW p, q.api = "tick", t = q.from, t \in Ticks, HasRead(g, p)
               PROVE  TickRead(g, p)
  BY <1>3 DEF TickStep
<1>5. Ahead(v, t, 0)
  BY <1>1, <1>4, PlanOfTick DEF Plan
<1>6. p = 0 /\ Count \in Nat
  <2> DEFINE n == Len(v)
             c == Count
  <2>1. n = c + 3 - 0 /\ c \in Nat /\ p = c + 3 - n
    BY <1>3, <1>4, <1>5, BatchesAre DEF Ahead, HasRead
  <2> HIDE DEF n, c
  <2>2. p = 0
    BY <2>1
  <2> QED
    BY <2>1, <2>2 DEF c
<1>7. ~(0 >= 1) /\ ~(0 >= 2) /\ 0 # Count + 3
  BY <1>6
<1>8. \A j \in 1 .. Count : ~(j + 2 <= 0)
  BY <1>6
<1>9. \A b \in g.votes : b \in Batches
  BY <1>3
<1>10. TickRead(g, 0)
  BY <1>3, <1>7, <1>8, <1>9 DEF TickRead
<1> QED
  BY <1>6, <1>10

\* The idle handler, and one at work on another request.
LEMMA TickOfOther ==
    ASSUME NEW g, g.q.api # "tick"
    PROVE  TickStep(g)
BY DEF TickStep

LEMMA TickInit ==
    ASSUME Init
    PROVE  TickInv
<1>1. PICK g : g = rd
  OBVIOUS
<1>2. g.q = NoRequest
  BY <1>1, IdleIsHandler DEF Init
<1>3. g.q.api # "tick"
  BY <1>2 DEF NoRequest
<1> QED
  BY <1>1, <1>3 DEF TickInv

LEMMA TickNext ==
    ASSUME StoreInv, HandlerInv, KvrocksIsOff, TickInv, [Next]_vars
    PROVE  TickInv'
<1>1. /\ Grow /\ saved.indexed \in 0 .. LastTick /\ Shape(rd) /\ Missing /\ HandlerInv'
  BY GrowNext, HandlerNext DEF StoreInv, StoreTypes, HandlerInv
<1>2. PICK g : g = rd'
  OBVIOUS
<1>3. Shape(g)
  <2>1. Shape(rd)'
    BY <1>1 DEF HandlerInv
  <2> QED
    BY <1>2, <2>1 DEF Shape
<1>4. SUFFICES TickStep(g)
  BY <1>1, <1>2, <1>3, TickGoesOn
<1>5. ASSUME rd' = rd PROVE TickStep(g)
  <2>1. g = rd
    BY <1>2, <1>5
  <2> QED
    BY <2>1, TickOfSame
<1>6. ASSUME rd' = NewHandler(NoRequest) PROVE TickStep(g)
  <2>1. g.q = NoRequest
    BY <1>2, <1>6, IdleIsHandler
  <2>2. g.q.api # "tick"
    BY <2>1 DEF NoRequest
  <2> QED
    BY <2>2, TickOfOther
<1>7. CASE StartThreads \/ Indexer
  BY <1>5, <1>7 DEF StartThreads, Indexer, IndexTick, TickIndexed, IndexerEnds
<1>17. CASE EndEpochLogged \/ UserStops
  BY <1>5, <1>17 DEF EndEpochLogged, UserStops
<1>8. CASE Crash \/ Restart \/ Reply
  BY <1>6, <1>8 DEF Crash, Restart, ProcessEnds, Reply
<1>9. CASE TickPass \/ TxPass \/ EndPass \/ CleanerExits
  BY <1>5, <1>9 DEF TickPass, TxPass, EndPass, CleanerExits
<1>10. CASE Commands
  BY <1>5, <1>10 DEF Commands, CleanerCalls, StoreVtick, StoreCopy, KvrocksFails, DeleteKeys, db_insert_u32
<1>11. CASE \E q \in Requests : Request(q)
  BY <1>2, <1>11, TickOfRequest
<1>12. CASE ReadKeyDB
  BY <1>1, <1>2, <1>12, TickOfReadKeyDB
<1>13. CASE ReadKvrocks
  BY <1>1, <1>2, <1>13, TickOfReadKvrocks
<1>14. CASE ReadVotes
  BY <1>1, <1>2, <1>14, TickOfReadVotes
<1>15. CASE db_get_indexed_tx \/ Compute
  <2>1. PICK h : h = rd
    OBVIOUS
  <2>2. h.todo # << >> /\ Head(h.todo)[1] \in {"itx", "visit", "attribute", "incoming"} /\ Shape(h)
    BY <1>1, <1>15, <2>1 DEF db_get_indexed_tx, Compute, Reading, NextKey
  <2>3. h.q.api # "tick"
    BY <2>2, NextOfTick
  <2>4. g.q = h.q
    BY <1>1, <1>2, <1>15, <2>1, ShapeOfIndexed, ShapeOfCompute
  <2> QED
    BY <2>3, <2>4, TickOfOther
<1>16. CASE UNCHANGED vars
  BY <1>5, <1>16 DEF vars
<1> QED
  BY <1>7, <1>8, <1>9, <1>10, <1>11, <1>12, <1>13, <1>14, <1>15, <1>16, <1>17 DEF Next, Process, Cleaner, Handler

LEMMA TickAnswer ==
    ASSUME HandlerInv, TickInv, rd.q.api = "tick"
    PROVE  RepliesAreComplete
<1>1. SUFFICES ASSUME rd.todo = << >>, ~rd.early,
                      Needs(rd.q) \subseteq UNION {Kept(t) \ Excused(t) : t \in TicksOf(rd.q)}
               PROVE  ~rd.fault /\ AnswerIsRight(rd)
  BY DEF RepliesAreComplete
<1>2. PICK h : h = rd
  OBVIOUS
<1>3. PICK t : t = h.q.from
  OBVIOUS
<1>4. t \in Ticks /\ IsHandler(h)
  BY <1>2, <1>3, RequestIs DEF HandlerInv, Shape
<1>5. \A k : k \in Needs(h.q) <=> k \in Raw[t] \/ k \in LogRangeKeys[t]
  BY <1>2, <1>3, <1>4 DEF Needs, LogRangeKeys
<1>6. TicksOf(h.q) = {t}
  BY <1>2, <1>3 DEF TicksOf
<1>7. \A k \in Needs(h.q) : k \in Kept(t) /\ k \notin Excused(t)
  BY <1>1, <1>2, <1>6
<1>8. TickWanted(t)
  BY <1>5, <1>7 DEF TickWanted
<1>9. PICK p : p = Count + 3
  OBVIOUS
<1>10. HasRead(h, p) /\ p \in Int /\ p >= 2
  <2>1. Len(h.todo) = 0
    BY <1>1, <1>2
  <2>2. Count \in Nat
    BY BatchesAre
  <2> QED
    BY <1>9, <2>1, <2>2 DEF HasRead
<1>11. TickRead(h, p)
  BY <1>1, <1>2, <1>3, <1>8, <1>10 DEF TickInv
<1>12. /\ ~h.fault /\ h.td = DataTick(t) /\ h.out = <<Hull[t]>>
       /\ \/ h.votes = Batches
          \/ /\ h.votes # {} /\ vtick(t) \in kvrocks
             /\ \A b \in Batches : b \in h.votes \/ VotesLost(t, b)
  BY <1>3, <1>9, <1>10, <1>11 DEF TickRead
<1>13. h.votes = Batches \/ Torn(h)
  BY <1>3, <1>12 DEF Torn, VotesLost, vtick
<1> QED
  BY <1>2, <1>3, <1>12, <1>13 DEF AnswerIsRight

------------------------------------------------------------------------------
(* The handlers: the answer to a request for a transaction *)

\* A transaction without a record.
Unlisted(t, i) == length(t, i) > 0 /\ LogAt[from(t, i)].type = QU_TRANSFER /\ <<t, i>> \in Spam

\* p is the record of transaction i of tick t.
RecordOf(p, t, i) == Len(p[1]) = 4 /\ p[1][2] = t /\ p[1][3] = i

\* What is recorded of a transaction.
Listed(t, i, x) == ~Unlisted(t, i) /\ x = (<<t, i>> \in Matching)

\* The indexed transactions have one record, and it is right; so have those of the tick
\* after them once it is filed, or if a crash has left it behind.
RecordsAreExact ==
    \A t \in Ticks : \A i \in TickTxs[t] : \A x :
        /\ (\E p \in index : RecordOf(p, t, i) /\ x = p[1][4]) => t <= saved.indexed + 1 /\ Listed(t, i, x)
        /\ Listed(t, i, x) /\ (t <= saved.indexed \/ (filed /\ t = saved.indexed + 1))
               => \E p \in index : RecordOf(p, t, i) /\ x = p[1][4]

LEMMA SearchKeysAreShort ==
    ASSUME NEW x, NEW k \in IndexKeys(x)
    PROVE  Len(k) = 1 \/ Len(k) = 2 \/ Len(k) = 5
<1> DEFINE F(b) == [j \in 1 .. 3 |-> IF j \in b THEN Part(x.topics[j]) ELSE "ANY"]
<1>1. \A b : Triple(F(b))
  BY DEF Triple
<1>2. \A y : y \in TopicKeys(x) => \E b \in SUBSET (1 .. 3) : y = <<x.sc, x.logType>> \o F(b)
  BY Zenon DEF TopicKeys
<1>3. k = <<x.sc, x.logType>> \/ k = <<x.sc>> \/ k \in TopicKeys(x)
  BY DEF IndexKeys
<1> HIDE DEF F
<1>4. CASE k \in TopicKeys(x)
  <2>1. PICK b \in SUBSET (1 .. 3) : k = <<x.sc, x.logType>> \o F(b)
    BY <1>2, <1>4
  <2> DEFINE f == F(b)
  <2>2. Triple(f) /\ k = <<x.sc, x.logType>> \o f
    BY <1>1, <2>1
  <2> HIDE DEF f
  <2> QED
    BY <2>2, TopicKey
<1>5. Len(<<x.sc, x.logType>>) = 2 /\ Len(<<x.sc>>) = 1
  OBVIOUS
<1> QED
  BY <1>3, <1>4, <1>5, Zenon

LEMMA TransactionIsThere ==
    ASSUME NEW t \in Ticks, NEW i \in TickTxs[t], TickKeys[t] \subseteq keydb
    PROVE  /\ db_try_get_tick_data(t) /\ (NotIndexed(t, i) <=> Unlisted(t, i))
           /\ isExecuted(t, i) = (<<t, i>> \in Matching)
<1>1. t \notin Empty
  BY StoreAssumption
<1>2. db_try_get_tick_data(t)
  <2>1. tickData(t) \in keydb
    BY <1>1, RawHas, TickKeysHas
  <2> QED
    BY <2>1 DEF db_try_get_tick_data, db_get_tick_data, tickData
<1>3. db_try_get_transaction(t, i)
  <2>1. <<"transaction", t, i>> \in keydb
    BY ExecutedHas, TickKeysHas
  <2> QED
    BY <2>1 DEF db_try_get_transaction, db_get_transaction
<1>4. ASSUME length(t, i) > 0 PROVE db_try_get_log(from(t, i))
  <2>1. from(t, i) \in Int /\ length(t, i) \in Int
    BY TxIndex
  <2>2. from(t, i) \in Ids(t, i)
    BY <1>4, <2>1 DEF Ids
  <2>3. from(t, i) \in LogIds /\ LogAt[from(t, i)].tick = t
    BY <2>2, TxIndex
  <2>4. <<"log", from(t, i), 0>> \in keydb
    BY <2>3, ExecutedHas, TickKeysHas
  <2> QED
    BY <2>4 DEF db_try_get_log, db_get_log
<1>5. ASSUME <<t, i>> \in Matching PROVE length(t, i) > 0 /\ LogAt[from(t, i)].type = QU_TRANSFER
  <2> DEFINE p == <<t, i>>
  <2>1. p \in Matching /\ p[1] = t /\ p[2] = i
    BY <1>5
  <2> HIDE DEF p
  <2> QED
    BY <2>1, MatchingAssumption
<1>6. isExecuted(t, i) <=> <<t, i>> \in Matching
  BY <1>3, <1>4, <1>5, Zenon DEF isExecuted
<1>7. isExecuted(t, i) \in BOOLEAN
  BY DEF isExecuted
<1>8. NotIndexed(t, i) <=> Unlisted(t, i)
  BY <1>3, Zenon DEF NotIndexed, Unlisted
<1> QED
  BY <1>2, <1>6, <1>7, <1>8

\* A tick that is still in KeyDB gets the records of its transactions.
LEMMA TickIsRecorded ==
    ASSUME NEW t \in Ticks, TickKeys[t] \subseteq keydb, NEW u \in Ticks, NEW i \in TickTxs[u], NEW x
    PROVE  (\E p \in indexTick(t) : RecordOf(p, u, i) /\ x = p[1][4])
               <=> u = t /\ ~Unlisted(u, i) /\ x = (<<u, i>> \in Matching)
<1> DEFINE E == {LogAt[id] : id \in db_get_logs_by_tick_range(t)}
           T == IF db_try_get_tick_data(t) THEN TickTxs[t] ELSE {}
           A == {db_set_indexed_tx(t, j, isExecuted(t, j)) : j \in {j \in T : ~NotIndexed(t, j)}}
           B == {db_set_indexed_tx(t, j, TRUE) : j \in SC_INITIALIZE_TX .. SC_END_EPOCH_TX}
           L == IndexLogs(t, E)
<1>1. \A p : p \in indexTick(t) <=> p \in A \/ p \in B \/ p \in L
  BY Zenon DEF indexTick
<1>2. ASSUME NEW p \in L PROVE ~RecordOf(p, u, i)
  <2> DEFINE Of(e) == {db_add_indexer(key, t) : key \in IndexKeys(Indexed(e)[1])}
  <2>1. L = UNION {Of(e) : e \in {f \in E : Indexed(f) # << >>}}
    BY Zenon DEF IndexLogs
  <2>2. PICK e : p \in Of(e)
    <3> HIDE DEF E, Of, L
    <3> QED
      BY <1>2, <2>1, Zenon
  <2>3. PICK key \in IndexKeys(Indexed(e)[1]) : p = <<key, t>>
    BY <2>2, Zenon DEF db_add_indexer
  <2>4. Len(key) # 4 /\ p[1] = key
    BY <2>3, SearchKeysAreShort
  <2> QED
    BY <2>4 DEF RecordOf
<1>3. ASSUME NEW j, NEW b
      PROVE  LET p == db_set_indexed_tx(t, j, b)
             IN  (RecordOf(p, u, i) <=> t = u /\ j = i) /\ p[1][4] = b
  <2> DEFINE k == <<"itx", t, j, b>>
             p == <<k, t>>
  <2>1. Len(k) = 4 /\ k[2] = t /\ k[3] = j /\ k[4] = b
    OBVIOUS
  <2> HIDE DEF k
  <2>2. p[1] = k
    OBVIOUS
  <2>3. db_set_indexed_tx(t, j, b) = p
    BY DEF db_set_indexed_tx, k
  <2> HIDE DEF p
  <2> QED
    BY <2>1, <2>2, <2>3 DEF RecordOf
<1>4. ASSUME NEW p \in B PROVE ~RecordOf(p, u, i)
  <2>1. PICK j \in SC_INITIALIZE_TX .. SC_END_EPOCH_TX : p = db_set_indexed_tx(t, j, TRUE)
    BY <1>4
  <2>2. i \in TxIndices /\ NUMBER_OF_TRANSACTIONS_PER_TICK \in Nat
    BY StoreAssumption
  <2>3. j # i
    BY <2>1, <2>2 DEF TxIndices, SC_INITIALIZE_TX, SC_END_EPOCH_TX
  <2> DEFINE b == TRUE
  <2>4. p = db_set_indexed_tx(t, j, b)
    BY <2>1
  <2> HIDE DEF b
  <2> QED
    BY <1>3, <2>3, <2>4
<1> HIDE DEF L, B
<1>5. (\E p \in indexTick(t) : RecordOf(p, u, i) /\ x = p[1][4])
          <=> \E p \in A : RecordOf(p, u, i) /\ x = p[1][4]
  BY <1>1, <1>2, <1>4
<1>6. \A p : p \in A <=> \E j \in T : ~NotIndexed(t, j) /\ p = db_set_indexed_tx(t, j, isExecuted(t, j))
  <2> HIDE DEF T
  <2> QED
    BY Zenon
<1> HIDE DEF A
<1>7. (\E p \in A : RecordOf(p, u, i) /\ x = p[1][4])
          <=> u = t /\ i \in T /\ ~NotIndexed(t, i) /\ x = isExecuted(t, i)
  <2> HIDE DEF T
  <2>1. ASSUME NEW p \in A, RecordOf(p, u, i), x = p[1][4]
        PROVE  u = t /\ i \in T /\ ~NotIndexed(t, i) /\ x = isExecuted(t, i)
    <3>1. PICK j \in T : ~NotIndexed(t, j) /\ p = db_set_indexed_tx(t, j, isExecuted(t, j))
      BY <1>6, <2>1
    <3>2. PICK b : b = isExecuted(t, j)
      OBVIOUS
    <3>3. p = db_set_indexed_tx(t, j, b)
      BY <3>1, <3>2
    <3>4. t = u /\ j = i /\ p[1][4] = b
      BY <1>3, <2>1, <3>3
    <3> QED
      BY <2>1, <3>1, <3>2, <3>4
  <2>2. ASSUME u = t, i \in T, ~NotIndexed(t, i), x = isExecuted(t, i)
        PROVE  \E p \in A : RecordOf(p, u, i) /\ x = p[1][4]
    <3>1. PICK p : p = db_set_indexed_tx(t, i, x)
      OBVIOUS
    <3>2. p \in A
      BY <1>6, <2>2, <3>1
    <3>3. RecordOf(p, u, i) /\ p[1][4] = x
      BY <1>3, <2>2, <3>1
    <3> QED
      BY <3>2, <3>3
  <2> QED
    BY <2>1, <2>2, Zenon
<1>8. ASSUME u = t
      PROVE  i \in T /\ (NotIndexed(t, i) <=> Unlisted(u, i)) /\ isExecuted(t, i) = (<<u, i>> \in Matching)
  <2>1. i \in TickTxs[t]
    BY <1>8
  <2>2. /\ db_try_get_tick_data(t) /\ (NotIndexed(t, i) <=> Unlisted(t, i))
        /\ isExecuted(t, i) = (<<t, i>> \in Matching)
    BY <2>1, TransactionIsThere
  <2> QED
    BY <1>8, <2>1, <2>2
<1> HIDE DEF T
<1> QED
  BY <1>5, <1>7, <1>8

LEMMA RecordsInit ==
    ASSUME Init
    PROVE  RecordsAreExact
<1>1. index = {} /\ saved.indexed = 0 /\ ~filed
  BY DEF Init, gInitialTick
<1>2. \A t \in Ticks : ~(t <= saved.indexed)
  BY <1>1, TicksAre
<1> QED
  BY <1>1, <1>2 DEF RecordsAreExact

LEMMA RecordsNext ==
    ASSUME StoreInv, RecordsAreExact, [Next]_vars
    PROVE  RecordsAreExact'
<1>0. StoreTypes /\ Cursors /\ Untouched /\ saved.indexed \in 0 .. LastTick /\ LastTick \in Nat
  BY TicksAre DEF StoreInv, StoreTypes
<1>r. ASSUME NEW u \in Ticks, NEW i \in TickTxs[u], NEW x
      PROVE  /\ (\E p \in index : RecordOf(p, u, i) /\ x = p[1][4]) => u <= saved.indexed + 1 /\ Listed(u, i, x)
             /\ Listed(u, i, x) /\ (u <= saved.indexed \/ (filed /\ u = saved.indexed + 1))
                    => \E p \in index : RecordOf(p, u, i) /\ x = p[1][4]
  BY DEF RecordsAreExact
<1>1. ASSUME UNCHANGED index, saved'.indexed = saved.indexed, filed' => filed PROVE RecordsAreExact'
  <2>1. ASSUME NEW u \in Ticks, NEW i \in TickTxs[u], NEW x
        PROVE  /\ (\E p \in index' : RecordOf(p, u, i) /\ x = p[1][4])
                      => u <= saved'.indexed + 1 /\ Listed(u, i, x)
               /\ Listed(u, i, x) /\ (u <= saved'.indexed \/ (filed' /\ u = saved'.indexed + 1))
                      => \E p \in index' : RecordOf(p, u, i) /\ x = p[1][4]
    BY <1>1, <1>r
  <2> QED
    BY <2>1, Zenon DEF RecordsAreExact
<1>2. CASE IndexTick
  <2> DEFINE t == gCurrentIndexingTick + 1
  <2>2. /\ running /\ gCurrentIndexingTick < LastTick /\ index' = index \cup indexTick(t)
        /\ saved' = saved
    BY <1>2 DEF IndexTick
  <2>3. gCurrentIndexingTick = saved.indexed
    BY <1>0, <2>2 DEF Cursors
  <2>4. t \in Ticks /\ t > saved.indexed /\ t = saved.indexed + 1
    BY <1>0, <2>2, <2>3, TicksAre
  <2>5. TickKeys[t] \subseteq keydb
    BY <1>0, <2>4 DEF Untouched
  <2> HIDE DEF t
  <2>7. ASSUME NEW u \in Ticks, NEW i \in TickTxs[u], NEW x
        PROVE  /\ (\E p \in index' : RecordOf(p, u, i) /\ x = p[1][4])
                      => u <= saved'.indexed + 1 /\ Listed(u, i, x)
               /\ Listed(u, i, x) /\ (u <= saved'.indexed \/ (filed' /\ u = saved'.indexed + 1))
                      => \E p \in index' : RecordOf(p, u, i) /\ x = p[1][4]
    <3>1. (\E p \in indexTick(t) : RecordOf(p, u, i) /\ x = p[1][4]) <=> u = t /\ Listed(u, i, x)
      <4>1. PICK n : n = t
        OBVIOUS
      <4>2. n \in Ticks /\ TickKeys[n] \subseteq keydb
        BY <2>4, <2>5, <4>1
      <4>3. (\E p \in indexTick(n) : RecordOf(p, u, i) /\ x = p[1][4])
                <=> u = n /\ ~Unlisted(u, i) /\ x = (<<u, i>> \in Matching)
        BY <4>2, TickIsRecorded
      <4> QED
        BY <4>1, <4>3 DEF Listed
    <3>2. (\E p \in index' : RecordOf(p, u, i) /\ x = p[1][4])
              <=> \/ \E p \in index : RecordOf(p, u, i) /\ x = p[1][4]
                  \/ \E p \in indexTick(t) : RecordOf(p, u, i) /\ x = p[1][4]
      BY <2>2
    <3>3. u = t => u <= saved.indexed + 1
      BY <1>0, <2>4
    <3> QED
      BY <1>r, <2>2, <2>4, <3>1, <3>2, <3>3
  <2> QED
    BY <2>7, Zenon DEF RecordsAreExact
<1>8. CASE TickIndexed
  <2>1. filed /\ saved' = [saved EXCEPT !.indexed = db_update_last_indexed_tick(gCurrentIndexingTick + 1)]
        /\ index' = index /\ filed' = FALSE
    BY <1>8 DEF TickIndexed
  <2>2. gCurrentIndexingTick = saved.indexed
    BY <1>0, <2>1 DEF Cursors
  <2>3. saved'.indexed = saved.indexed + 1
    <3>1. db_update_last_indexed_tick(saved.indexed + 1) = saved.indexed + 1
      BY <1>0, CursorGrows
    <3> QED
      BY <1>0, <2>1, <2>2, <3>1 DEF StoreTypes
  <2>4. ASSUME NEW u \in Ticks, NEW i \in TickTxs[u], NEW x
        PROVE  /\ (\E p \in index' : RecordOf(p, u, i) /\ x = p[1][4])
                      => u <= saved'.indexed + 1 /\ Listed(u, i, x)
               /\ Listed(u, i, x) /\ (u <= saved'.indexed \/ (filed' /\ u = saved'.indexed + 1))
                      => \E p \in index' : RecordOf(p, u, i) /\ x = p[1][4]
    <3>1. /\ u <= saved.indexed + 1 => u <= saved'.indexed + 1
          /\ u <= saved'.indexed => u <= saved.indexed \/ u = saved.indexed + 1
      BY <1>0, <2>3, TicksAre
    <3> QED
      BY <1>r, <2>1, <3>1
  <2> QED
    BY <2>4, Zenon DEF RecordsAreExact
<1>3. CASE StartThreads \/ Crash \/ Restart
  BY <1>1, <1>3 DEF StartThreads, Crash, Restart, ProcessEnds
<1>9. CASE EndEpochLogged \/ UserStops \/ IndexerEnds
  BY <1>1, <1>9 DEF EndEpochLogged, UserStops, IndexerEnds
<1>4. CASE Commands
  <2>1. CASE db_insert_u32
    BY <1>1, <2>1 DEF db_insert_u32, StoreInv, StoreTypes, process
  <2>2. CASE CleanerCalls \/ StoreVtick \/ StoreCopy
    BY <1>1, <2>2 DEF CleanerCalls, StoreVtick, StoreCopy, process
  <2>3. CASE KvrocksFails \/ DeleteKeys
    BY <1>1, <2>3 DEF KvrocksFails, DeleteKeys, process
  <2> QED
    BY <1>4, <2>1, <2>2, <2>3 DEF Commands
<1>5. CASE TickPass \/ TxPass \/ EndPass \/ CleanerExits
  BY <1>1, <1>5 DEF TickPass, TxPass, EndPass, CleanerExits, process
<1>6. CASE Handler
  <2>1. CASE \E q \in Requests : Request(q)
    BY <1>1, <2>1 DEF Request, process
  <2>2. CASE ReadKeyDB \/ ReadKvrocks \/ ReadVotes
    BY <1>1, <2>2 DEF ReadKeyDB, ReadKvrocks, ReadVotes, process
  <2>3. CASE db_get_indexed_tx \/ Compute \/ Reply
    BY <1>1, <2>3 DEF db_get_indexed_tx, Compute, Reply, process
  <2> QED
    BY <1>6, <2>1, <2>2, <2>3 DEF Handler
<1>7. CASE UNCHANGED vars
  BY <1>1, <1>7 DEF vars, process
<1> QED
  BY <1>2, <1>3, <1>4, <1>5, <1>6, <1>7, <1>8, <1>9 DEF Next, Process, Cleaner, Indexer

\* The sequences of no element and of one.
LEMMA EmptyToSeq == SetToSeq({}) = << >>
<1> DEFINE S == {}
<1>1. Cardinality(S) = 0
  BY FS_EmptySet
<1>2. \A f \in [1 .. 0 -> S] : f = << >>
  OBVIOUS
<1>3. << >> \in [1 .. 0 -> S] /\ IsInjective(<< >>)
  BY DEF IsInjective
<1> HIDE DEF S
<1>4. SetToSeq(S) = CHOOSE f \in [1 .. 0 -> S] : IsInjective(f)
  BY <1>1 DEF SetToSeq
<1>5. SetToSeq(S) \in [1 .. 0 -> S]
  BY <1>3, <1>4
<1> QED
  BY <1>2, <1>5 DEF S

LEMMA OneToSeq ==
    ASSUME NEW x
    PROVE  SetToSeq({x}) = <<x>>
<1> DEFINE S == {x}
<1>1. Cardinality(S) = 1
  BY FS_Singleton
<1>2. 1 .. 1 = {1}
  OBVIOUS
<1>3. \A f \in [1 .. 1 -> S] : f = <<x>>
  <2> SUFFICES ASSUME NEW f \in [1 .. 1 -> S] PROVE f = <<x>>
    OBVIOUS
  <2>1. f[1] = x
    BY <1>2
  <2>2. f = [i \in 1 .. 1 |-> x]
    BY <1>2, <2>1
  <2>3. <<x>> = [i \in 1 .. 1 |-> x]
    BY <1>2
  <2> QED
    BY <2>2, <2>3
<1>4. <<x>> \in [1 .. 1 -> S]
  BY <1>2
<1>5. IsInjective(<<x>>)
  BY <1>2 DEF IsInjective
<1> HIDE DEF S
<1>6. SetToSeq(S) = CHOOSE f \in [1 .. 1 -> S] : IsInjective(f)
  BY <1>1 DEF SetToSeq
<1>7. SetToSeq(S) \in [1 .. 1 -> S]
  BY <1>4, <1>5, <1>6
<1> QED
  BY <1>3, <1>7 DEF S

TxAnswer(t, i) == <<"found">> \o IF Unlisted(t, i) THEN << >> ELSE <<<<t, i>> \in Matching>>

\* What db_get_indexed_tx adds to the answer.
LEMMA RecordIsRead ==
    ASSUME RecordsAreExact, NEW t \in Ticks, t <= saved.indexed, NEW i \in TickTxs[t]
    PROVE  SetToSeq({p[1][4] : p \in {p \in index : Len(p[1]) = 4 /\ p[1][2] = t /\ p[1][3] = i}})
               = IF Unlisted(t, i) THEN << >> ELSE <<<<t, i>> \in Matching>>
<1> DEFINE S == {p[1][4] : p \in {p \in index : Len(p[1]) = 4 /\ p[1][2] = t /\ p[1][3] = i}}
           m == <<t, i>> \in Matching
<1>1. \A x : x \in S <=> \E p \in index : RecordOf(p, t, i) /\ x = p[1][4]
  BY Zenon DEF RecordOf
<1>2. \A x : x \in S <=> ~Unlisted(t, i) /\ x = m
  <2>1. \A x : (\E p \in index : RecordOf(p, t, i) /\ x = p[1][4]) <=> Listed(t, i, x)
    BY DEF RecordsAreExact
  <2> QED
    BY <1>1, <2>1, Zenon DEF Listed
<1> HIDE DEF S, m
<1>3. CASE Unlisted(t, i)
  <2>1. S = {}
    BY <1>2, <1>3
  <2>2. SetToSeq(S) = << >>
    BY <2>1, EmptyToSeq, Zenon
  <2> QED
    BY <1>3, <2>2 DEF S
<1>4. CASE ~Unlisted(t, i)
  <2>1. S = {m}
    BY <1>2, <1>4
  <2>2. SetToSeq(S) = <<m>>
    BY <2>1, OneToSeq, Zenon
  <2> QED
    BY <1>4, <2>2, Zenon DEF S, m
<1> QED
  BY <1>3, <1>4

\* The modes keep the transaction.
TxWanted(t, i) == <<"transaction", t, i>> \in Kept(t) /\ <<"transaction", t, i>> \notin Excused(t)

\* What a handler holds that is at work on the transaction.
TxRead(h) ==
    /\ ~h.fault
    /\ h.todo = <<<<"itx", h.q.from, h.q.to>>>> => h.out = <<"found">>
    /\ h.todo = << >> => h.out = TxAnswer(h.q.from, h.q.to)

TxStep(g) ==
    \A t, i : g.q.api = "tx" /\ ~g.early /\ t = g.q.from /\ i = g.q.to /\ t \in Ticks /\ TxWanted(t, i) => TxRead(g)

\* The handler at work, if KVRocks was connected whenever it was asked.
TxInv ==
    \A h, t, i : h = rd /\ h.q.api = "tx" /\ ~h.early /\ t = h.q.from /\ i = h.q.to /\ TxWanted(t, i) => TxRead(h)

LEMMA TxWantedWas ==
    ASSUME saved.indexed \in 0 .. LastTick, Grow, NEW t \in Ticks, NEW i, TxWanted(t, i)'
    PROVE  TxWanted(t, i)
<1> DEFINE k == <<"transaction", t, i>>
<1>1. k \in Kept(t)' /\ k \notin Excused(t)'
  BY DEF TxWanted
<1> HIDE DEF k
<1>2. k \in Kept(t)
  BY <1>1, KeptShrinks
<1>3. k \in Excused(t) => k \in Excused(t)'
  BY DEF Excused, Grow
<1> QED
  BY <1>1, <1>2, <1>3 DEF TxWanted, k

LEMMA TxGoesOn ==
    ASSUME saved.indexed \in 0 .. LastTick, Grow, NEW g, g = rd', Shape(g), TxStep(g)
    PROVE  TxInv'
<1>1. SUFFICES ASSUME NEW t, NEW i, g.q.api = "tx", ~g.early, t = g.q.from, i = g.q.to, TxWanted(t, i)'
               PROVE  TxRead(g)
  BY DEF TxInv
<1>2. t \in Ticks
  BY <1>1, RequestIs
<1>3. TxWanted(t, i)
  BY <1>1, <1>2, TxWantedWas
<1> QED
  BY <1>1, <1>2, <1>3 DEF TxStep

LEMMA TxOfSame ==
    ASSUME TxInv, NEW h, h = rd, NEW g, g.q = h.q, g.todo = h.todo, g.out = h.out, g.fault = h.fault,
           g.early = h.early
    PROVE  TxStep(g)
<1>1. SUFFICES ASSUME NEW t, NEW i, g.q.api = "tx", ~g.early, t = g.q.from, i = g.q.to, TxWanted(t, i)
               PROVE  TxRead(g)
  BY DEF TxStep
<1>2. TxRead(h)
  BY <1>1 DEF TxInv
<1> QED
  BY <1>2 DEF TxRead

LEMMA TxOfOther ==
    ASSUME NEW g, g.q.api # "tx"
    PROVE  TxStep(g)
BY DEF TxStep

LEMMA TxOfRequest ==
    ASSUME NEW q \in Requests, Request(q), NEW g, g = rd'
    PROVE  TxStep(g)
<1>1. PICK v : v = Plan(q)
  OBVIOUS
<1>2. g = Fresh(q, v)
  BY <1>1 DEF Request, Fresh
<1>3. g.q = q /\ g.todo = v /\ ~g.fault
  BY <1>2, NewIsHandler
<1>4. SUFFICES ASSUME q.api = "tx" PROVE TxRead(g)
  BY <1>3 DEF TxStep
<1> DEFINE x == <<"transaction", q.from, q.to>>
           y == <<"itx", q.from, q.to>>
<1>5. v = <<x, y>>
  BY <1>1, <1>4 DEF Plan, bobGetTransaction
<1> HIDE DEF x, y
<1>6. Len(<<x, y>>) = 2 /\ Len(<<y>>) = 1 /\ Len(<< >>) = 0
  OBVIOUS
<1>7. v # <<y>> /\ v # << >>
  BY <1>5, <1>6
<1> QED
  BY <1>3, <1>7 DEF TxRead, y

\* The transaction is read.
LEMMA TxOfRead ==
    ASSUME TxInv, NEW h, h = rd, Shape(h), h.q.api # "none", h.todo # << >>, NEW k, k = Head(h.todo),
           k[1] \in TieredKinds \cup {"tick_vote", "vtick"},
           NEW found \in BOOLEAN, NEW f, f = Take(h, k, found),
           NEW g, g.q = h.q, g.todo = f.todo, g.out = f.out, g.fault = f.fault,
           g.early \in BOOLEAN, ~g.early => ~h.early,
           \A t, i : k = <<"transaction", t, i>> /\ ~g.early /\ t \in Ticks /\ TxWanted(t, i) => found
    PROVE  TxStep(g)
<1>1. SUFFICES ASSUME NEW t, NEW i, g.q.api = "tx", ~g.early, t = g.q.from, i = g.q.to, t \in Ticks, TxWanted(t, i)
               PROVE  TxRead(g)
  BY DEF TxStep
<1>2. h.q.api = "tx" /\ t = h.q.from /\ i = h.q.to /\ ~h.early /\ IsHandler(h)
  BY <1>1 DEF Shape
<1>3. TxRead(h)
  BY <1>1, <1>2 DEF TxInv
<1>4. k = <<"transaction", t, i>> /\ Tail(h.todo) = <<<<"itx", t, i>>>>
  <2>1. k[1] # "itx"
    BY DEF TieredKinds
  <2> QED
    BY <1>2, <2>1, NextOfTx
<1>5. found /\ k[1] = "transaction"
  BY <1>1, <1>4
<1>6. f.fault = h.fault /\ f.todo = Tail(h.todo) /\ f.out = <<"found">>
  <2>1. IsHandler(h) /\ k[1] = "transaction"
    BY <1>2, <1>5
  <2>2. LET x == Take(h, k, found)
        IN  /\ x.fault = h.fault
            /\ found => x.todo = Tail(h.todo) /\ x.out = <<"found">>
            /\ ~found => x.todo = << >>
    BY <2>1, TakesTransaction
  <2> QED
    BY <1>5, <2>2
<1> DEFINE y == <<"itx", t, i>>
<1>7. g.todo = <<y>> /\ g.out = <<"found">> /\ ~g.fault
  BY <1>3, <1>4, <1>6 DEF TxRead
<1> HIDE DEF y
<1>8. <<y>> # << >>
  OBVIOUS
<1>9. g.todo # << >>
  BY <1>7, <1>8
<1> QED
  BY <1>7, <1>9 DEF TxRead

LEMMA TxOfReadKeyDB ==
    ASSUME Shape(rd), TxInv, ReadKeyDB, NEW g, g = rd'
    PROVE  TxStep(g)
<1>1. PICK h : h = rd
  OBVIOUS
<1>2. PICK k : k = NextKey
  OBVIOUS
<1>3. h.q.api # "none" /\ h.todo # << >> /\ k[1] \in TieredKinds \cup {"tick_vote", "vtick"} /\ k = Head(h.todo)
  BY <1>1, <1>2 DEF ReadKeyDB, Reading, NextKey
<1>4. IsHandler(h) /\ Shape(h)
  BY <1>1 DEF Shape
<1>5. CASE DbKey(k) \in keydb
  <2>1. PICK found \in BOOLEAN : found = TRUE
    OBVIOUS
  <2>2. g = Take(h, k, found)
    BY <1>1, <1>2, <1>5, <2>1 DEF ReadKeyDB
  <2>3. Moved(h, g)
    BY <1>3, <1>4, <2>2, ShapeRead
  <2>4. g.early = h.early /\ g.q = h.q /\ g.early \in BOOLEAN
    BY <2>3 DEF Moved, IsHandler
  <2> QED
    BY <1>1, <1>3, <1>4, <2>1, <2>2, <2>4, TxOfRead
<1>6. CASE DbKey(k) \notin keydb
  <2>1. g = [h EXCEPT !.missed = TRUE]
    BY <1>1, <1>2, <1>6 DEF ReadKeyDB
  <2>2. g.q = h.q /\ g.todo = h.todo /\ g.out = h.out /\ g.fault = h.fault /\ g.early = h.early
    BY <1>4, <2>1, MissIs
  <2> QED
    BY <1>1, <2>2, TxOfSame
<1> QED
  BY <1>5, <1>6

LEMMA TxOfReadKvrocks ==
    ASSUME StoreInv, KvrocksIsOff, Shape(rd), Missing, TxInv, ReadKvrocks, NEW g, g = rd'
    PROVE  TxStep(g)
<1>1. PICK h : h = rd
  OBVIOUS
<1>2. PICK k : k = NextKey
  OBVIOUS
<1>3. PICK found \in BOOLEAN : found = Kvrocks(DbKey(NextKey))
  BY DEF Kvrocks, StoreInv, StoreTypes
<1>4. PICK e \in BOOLEAN : e = (mode.tick = "Kvrocks" /\ ~kvOn)
  OBVIOUS
<1>5. PICK f : f = Take(h, k, found)
  OBVIOUS
<1>6. /\ h.q.api # "none" /\ h.todo # << >> /\ k[1] \in TieredKinds \cup {"tick_vote", "vtick"} /\ k = Head(h.todo)
      /\ k[1] = "vtick" \/ h.missed
  BY <1>1, <1>2 DEF ReadKvrocks, Reading, NextKey
<1>7. Shape(f) /\ Moved(h, f)
  BY <1>1, <1>5, <1>6, ShapeRead
<1>8. g = [f EXCEPT !.early = @ \/ e]
  <2>1. Take(rd, NextKey, Kvrocks(DbKey(NextKey))) = f
    BY <1>1, <1>2, <1>3, <1>5
  <2> QED
    BY <1>4, <2>1 DEF ReadKvrocks
<1>9. IsHandler(f) /\ f.q = h.q /\ f.early = h.early
  BY <1>7 DEF Moved
<1>10. /\ IsHandler(g) /\ g.q = f.q /\ g.todo = f.todo /\ g.out = f.out /\ g.fault = f.fault
       /\ g.early = (f.early \/ e)
  BY <1>8, <1>9, EarlyIs
<1>11. g.q = h.q /\ g.early \in BOOLEAN /\ (~g.early => ~h.early /\ ~e)
  BY <1>9, <1>10 DEF IsHandler
<1>12. ASSUME NEW t, NEW i, k = <<"transaction", t, i>>, ~g.early, t \in Ticks, TxWanted(t, i)
       PROVE  found
  <2>1. mode.tick = "Kvrocks" => kvOn
    BY <1>4, <1>11, <1>12
  <2>2. k[1] = "transaction" /\ DbKey(k) = k
    BY <1>12 DEF DbKey
  <2>3. Copied(t, DbKey(NextKey))
    BY <1>1, <1>6, <1>12, <2>2 DEF Missing
  <2>4. Copied(t, k)
    BY <1>2, <2>2, <2>3
  <2>5. k \in Kept(t) /\ k \notin Excused(t)
    BY <1>12 DEF TxWanted
  <2>6. Kvrocks(k)
    BY <1>12, <2>1, <2>4, <2>5, CopiedIsFound
  <2> QED
    BY <1>2, <1>3, <2>2, <2>6
<1>13. \A t, i : k = <<"transaction", t, i>> /\ ~g.early /\ t \in Ticks /\ TxWanted(t, i) => found
  BY <1>12
<1>14. /\ g.q = h.q /\ g.todo = f.todo /\ g.out = f.out
       /\ g.fault = f.fault /\ g.early \in BOOLEAN /\ (~g.early => ~h.early)
  BY <1>10, <1>11
<1>15. Shape(h) /\ h.q.api # "none" /\ h.todo # << >> /\ k = Head(h.todo)
       /\ k[1] \in TieredKinds \cup {"tick_vote", "vtick"}
  BY <1>1, <1>6
<1> QED
  BY <1>1, <1>5, <1>13, <1>14, <1>15, TxOfRead

LEMMA WantedIsOfTick ==
    ASSUME NEW t \in Ticks, NEW i, TxWanted(t, i)
    PROVE  i \in TickTxs[t]
<1> DEFINE k == <<"transaction", t, i>>
<1>1. k \in TickKeys[t]
  BY KeptIsOfTick DEF TxWanted
<1>2. k \notin Raw[t] /\ k \notin LogRangeKeys[t] /\ \A l : k # <<"log", l, 0>>
  BY RawHas, RangesHas DEF tickData
<1>3. k \in Executed[t]
  BY <1>1, <1>2, TickKeysHas
<1>4. \E j \in TickTxs[t] : k = <<"transaction", t, j>>
  BY <1>2, <1>3, ExecutedHas
<1> QED
  BY <1>4

LEMMA TxOfIndexed ==
    ASSUME HandlerInv, RecordsAreExact, TxInv, db_get_indexed_tx, NEW g, g = rd'
    PROVE  TxStep(g)
<1>1. PICK h : h = rd
  OBVIOUS
<1>2. PICK k : k = NextKey
  OBVIOUS
<1>3. h.q.api # "none" /\ h.todo # << >> /\ k[1] = "itx" /\ k = Head(h.todo)
  BY <1>1, <1>2 DEF db_get_indexed_tx, Reading, NextKey
<1>4. Shape(h) /\ IsHandler(h)
  BY <1>1 DEF HandlerInv, Shape
<1>5. PICK w : w = SetToSeq({p[1][4] : p \in {p \in index :
                                Len(p[1]) = 4 /\ p[1][2] = k[2] /\ p[1][3] = k[3]}})
  OBVIOUS
<1>6. PICK v : v = h.out \o w
  OBVIOUS
<1>7. PICK s : s = << >>
  OBVIOUS
<1>8. PICK e : e = [h EXCEPT !.todo = s]
  OBVIOUS
<1>9. e.todo = s /\ e.fault = h.fault /\ e.out = h.out
  BY <1>4, <1>8 DEF IsHandler, HandlerOf
<1>10. g = [e EXCEPT !.out = v]
  BY <1>1, <1>2, <1>5, <1>6, <1>7, <1>8 DEF db_get_indexed_tx
<1>11. Same(h, e)
  BY <1>4, <1>8, ExceptIsSame
<1>12. IsHandler(e)
  BY <1>11 DEF Same
<1>13. Same(e, g) /\ g.todo = s /\ g.out = v /\ g.fault = h.fault
  <2>1. Same(e, g)
    <3>1. Same(e, [e EXCEPT !.out = v])
      BY <1>12, ExceptIsSame
    <3> QED
      BY <1>10, <3>1
  <2> QED
    BY <1>9, <1>10, <1>12, <2>1 DEF IsHandler, HandlerOf
<1>14. g.q = h.q /\ g.early = h.early
  BY <1>11, <1>13 DEF Same
<1>15. SUFFICES ASSUME NEW t, NEW i, g.q.api = "tx", ~g.early, t = g.q.from, i = g.q.to, t \in Ticks, TxWanted(t, i)
                PROVE  TxRead(g)
  BY DEF TxStep
<1>16. h.q.api = "tx" /\ t = h.q.from /\ i = h.q.to /\ ~h.early
  BY <1>14, <1>15
<1>17. TxRead(h)
  BY <1>1, <1>15, <1>16 DEF TxInv
<1>18. k = <<"itx", t, i>> /\ h.todo = <<<<"itx", t, i>>>>
  <2>1. k # <<"transaction", t, i>>
    BY <1>3
  <2> QED
    BY <1>3, <1>4, <1>16, <2>1, NextOfTx
<1>19. k[2] = t /\ k[3] = i
  BY <1>18
<1>20. h.out = <<"found">> /\ ~h.fault
  BY <1>16, <1>17, <1>18 DEF TxRead
<1>21. t <= saved.indexed /\ i \in TickTxs[t]
  BY <1>1, <1>15, <1>16, WantedIsOfTick DEF HandlerInv
<1>22. w = IF Unlisted(t, i) THEN << >> ELSE <<<<t, i>> \in Matching>>
  BY <1>5, <1>15, <1>19, <1>21, RecordIsRead
<1>23. g.out = TxAnswer(t, i)
  BY <1>6, <1>13, <1>20, <1>22, Zenon DEF TxAnswer
<1> DEFINE y == <<"itx", t, i>>
<1> HIDE DEF y
<1>24. <<y>> # << >>
  OBVIOUS
<1>25. g.todo # <<y>>
  BY <1>7, <1>13, <1>24
<1> QED
  BY <1>13, <1>15, <1>20, <1>23, <1>25 DEF TxRead, y

LEMMA TxInit ==
    ASSUME Init
    PROVE  TxInv
<1>1. PICK g : g = rd
  OBVIOUS
<1>2. g.q = NoRequest
  BY <1>1, IdleIsHandler DEF Init
<1>3. g.q.api # "tx"
  BY <1>2 DEF NoRequest
<1> QED
  BY <1>1, <1>3 DEF TxInv

LEMMA TxNext ==
    ASSUME StoreInv, HandlerInv, KvrocksIsOff, RecordsAreExact, TxInv, [Next]_vars
    PROVE  TxInv'
<1>1. /\ Grow /\ saved.indexed \in 0 .. LastTick /\ Shape(rd) /\ Missing /\ HandlerInv'
  BY GrowNext, HandlerNext DEF StoreInv, StoreTypes, HandlerInv
<1>2. PICK g : g = rd'
  OBVIOUS
<1>3. Shape(g)
  <2>1. Shape(rd)'
    BY <1>1 DEF HandlerInv
  <2> QED
    BY <1>2, <2>1 DEF Shape
<1>4. SUFFICES TxStep(g)
  BY <1>1, <1>2, <1>3, TxGoesOn
<1>5. ASSUME rd' = rd PROVE TxStep(g)
  <2>1. g = rd
    BY <1>2, <1>5
  <2> QED
    BY <2>1, TxOfSame
<1>6. ASSUME rd' = NewHandler(NoRequest) PROVE TxStep(g)
  <2>1. g.q = NoRequest
    BY <1>2, <1>6, IdleIsHandler
  <2>2. g.q.api # "tx"
    BY <2>1 DEF NoRequest
  <2> QED
    BY <2>2, TxOfOther
<1>7. CASE StartThreads \/ Indexer
  BY <1>5, <1>7 DEF StartThreads, Indexer, IndexTick, TickIndexed, IndexerEnds
<1>17. CASE EndEpochLogged \/ UserStops
  BY <1>5, <1>17 DEF EndEpochLogged, UserStops
<1>8. CASE Crash \/ Restart \/ Reply
  BY <1>6, <1>8 DEF Crash, Restart, ProcessEnds, Reply
<1>9. CASE TickPass \/ TxPass \/ EndPass \/ CleanerExits
  BY <1>5, <1>9 DEF TickPass, TxPass, EndPass, CleanerExits
<1>10. CASE Commands
  BY <1>5, <1>10 DEF Commands, CleanerCalls, StoreVtick, StoreCopy, KvrocksFails, DeleteKeys, db_insert_u32
<1>11. CASE \E q \in Requests : Request(q)
  BY <1>2, <1>11, TxOfRequest
<1>12. CASE ReadKeyDB
  BY <1>1, <1>2, <1>12, TxOfReadKeyDB
<1>13. CASE ReadKvrocks
  BY <1>1, <1>2, <1>13, TxOfReadKvrocks
<1>14. CASE db_get_indexed_tx
  BY <1>2, <1>14, TxOfIndexed
<1>15. CASE ReadVotes \/ Compute
  <2>1. PICK h : h = rd
    OBVIOUS
  <2>2. h.todo # << >> /\ Head(h.todo)[1] \in {"tick_vote", "visit", "attribute", "incoming"} /\ Shape(h)
    BY <1>1, <1>15, <2>1 DEF ReadVotes, Compute, Reading, NextKey
  <2>3. h.q.api # "tx"
    <3>1. h.q.api = "tx" => \/ Head(h.todo) = <<"transaction", h.q.from, h.q.to>>
                            \/ Head(h.todo) = <<"itx", h.q.from, h.q.to>>
      BY <2>2, NextOfTx
    <3> QED
      BY <2>2, <3>1
  <2>4. g.q = h.q
    BY <1>1, <1>2, <1>15, <2>1, ShapeOfReadVotes, ShapeOfCompute
  <2> QED
    BY <2>3, <2>4, TxOfOther
<1>16. CASE UNCHANGED vars
  BY <1>5, <1>16 DEF vars
<1> QED
  BY <1>7, <1>8, <1>9, <1>10, <1>11, <1>12, <1>13, <1>14, <1>15, <1>16, <1>17 DEF Next, Process, Cleaner, Handler

LEMMA TxIsAnswered ==
    ASSUME HandlerInv, TxInv, rd.q.api = "tx"
    PROVE  RepliesAreComplete
<1>1. SUFFICES ASSUME rd.todo = << >>, ~rd.early,
                      Needs(rd.q) \subseteq UNION {Kept(t) \ Excused(t) : t \in TicksOf(rd.q)}
               PROVE  ~rd.fault /\ AnswerIsRight(rd)
  BY DEF RepliesAreComplete
<1>2. PICK h : h = rd
  OBVIOUS
<1>3. PICK t : t = h.q.from
  OBVIOUS
<1>4. PICK i : i = h.q.to
  OBVIOUS
<1>5. <<"transaction", t, i>> \in Needs(h.q)
  BY <1>2, <1>3, <1>4 DEF Needs
<1>6. TicksOf(h.q) = {t}
  BY <1>2, <1>3 DEF TicksOf
<1>7. TxWanted(t, i)
  BY <1>1, <1>2, <1>5, <1>6 DEF TxWanted
<1>8. TxRead(h)
  BY <1>1, <1>2, <1>3, <1>4, <1>7 DEF TxInv
<1>9. ~h.fault /\ h.out = TxAnswer(t, i)
  BY <1>1, <1>2, <1>3, <1>4, <1>8 DEF TxRead
<1>10. h.out = <<"found">> \o
                 IF /\ <<t, i>> \in Spam /\ length(t, i) > 0
                    /\ LogAt[from(t, i)].type = QU_TRANSFER
                 THEN << >> ELSE <<<<t, i>> \in Matching>>
  <2>1. Unlisted(t, i) <=> /\ <<t, i>> \in Spam /\ length(t, i) > 0
                           /\ LogAt[from(t, i)].type = QU_TRANSFER
    BY DEF Unlisted
  <2> QED
    BY <1>9, <2>1, Zenon DEF TxAnswer
<1>11. h.q.api = "tx"
  BY <1>2
<1>12. AnswerIsRight(h)
  BY <1>3, <1>4, <1>10, <1>11, Zenon DEF AnswerIsRight
<1> QED
  BY <1>2, <1>9, <1>12

\* bobGetTick and bobGetTransaction, whatever the cleaner, the indexer, crashes and restarts
\* do while they read: the tick data, the range of log ids and the transaction the modes keep
\* are in the answer, the transaction with what indexTick recorded of it.  All votes are,
\* too, unless the read was torn: some batches came from KeyDB, the others were deleted from
\* it meanwhile, and the record in KVRocks that has them all was not asked (Torn).  A tick is
\* taken to have its tick data when it is indexed; indexVerifiedTicks does not check that.
THEOREM TickAndTxReplies == Spec => [](rd.q.api \in {"none", "tick", "tx"} => RepliesAreComplete)
<1> DEFINE Inv == /\ StoreInv /\ HandlerInv /\ KvrocksIsOff
                  /\ RecordsAreExact /\ TickInv /\ TxInv
<1>1. Init => Inv
  BY StoreInit, HandlerInit, OffInit, RecordsInit, TickInit, TxInit
<1>2. Inv /\ [Next]_vars => Inv'
  BY StoreNext, HandlerNext, OffNext, RecordsNext, TickNext, TxNext
<1>3. Inv => (rd.q.api \in {"none", "tick", "tx"} => RepliesAreComplete)
  <2> SUFFICES ASSUME Inv, rd.q.api \in {"none", "tick", "tx"} PROVE RepliesAreComplete
    OBVIOUS
  <2>1. CASE rd.q.api = "none"
    BY <2>1 DEF RepliesAreComplete
  <2>2. CASE rd.q.api = "tick"
    BY <2>2, TickAnswer
  <2>3. CASE rd.q.api = "tx"
    BY <2>3, TxIsAnswered
  <2> QED
    BY <2>1, <2>2, <2>3
<1> QED
  BY <1>1, <1>2, <1>3, PTL DEF Spec

==============================================================================
