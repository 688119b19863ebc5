----------------------------- MODULE LedgerProofs -----------------------------
(***************************************************************************)
(* Proofs about Ledger, for tables of every size, any homes of the keys    *)
(* and any sequence of logs.                                               *)
(*                                                                         *)
(* Both tables are open-addressing tables.  What keeps them searchable is  *)
(* one fact about any such table (Chained): the record at an index is the  *)
(* first that a probe for it meets, counted with the free slots.  It is    *)
(* proved once, for an arbitrary set of values, and used for the public    *)
(* keys of the spectrum and for the records of the universe.  Sums and     *)
(* rebuilt tables are recursive functions, whose values are followed step  *)
(* by step with Induct.                                                    *)
(***************************************************************************)
EXTENDS Ledger, FiniteSetTheorems, WellFoundedInduction, TLAPS

-------------------------------------------------------------------------------
(* Induction and recursion *)

\* A set of numbers that is not empty has a least member.
LEMMA Least ==
    ASSUME NEW T, T \subseteq Nat, T # {}
    PROVE  \E n \in T : \A m \in T : n <= m
<1>1. IsWellFoundedOn(OpToRel(<, Nat), Nat)
  BY NatLessThanWellFounded
<1>2. PICK n \in T : \A m \in T : ~(<<m, n>> \in OpToRel(<, Nat))
  BY <1>1, WFMin
<1>3. \A m \in T : ~(m < n)
  BY <1>2 DEF OpToRel
<1> QED
  BY <1>3

\* Induction over 0 .. n for the members of a set.
LEMMA Induct ==
    ASSUME NEW n \in Nat, NEW T, 0 \in T, \A k \in 1 .. n : k - 1 \in T => k \in T
    PROVE  \A k \in 0 .. n : k \in T
<1> DEFINE Bad == {k \in 0 .. n : k \notin T}
<1>1. SUFFICES ASSUME Bad # {} PROVE FALSE
  OBVIOUS
<1>2. PICK k \in Bad : \A m \in Bad : k <= m
  <2>1. Bad \subseteq Nat
    OBVIOUS
  <2> HIDE DEF Bad
  <2> QED
    BY <1>1, <2>1, Least
<1>3. k \in 1 .. n /\ k \notin T
  BY <1>2
<1>4. k - 1 \notin Bad
  BY <1>2, <1>3
<1> QED
  BY <1>3, <1>4

\* step[k] makes the value of a function at k from the one before.
Steps(n, S, step) == step \in [1 .. n -> [S -> S]]

Follows(f, n, S, a, step) ==
    /\ f \in [0 .. n -> S]
    /\ f[0] = a
    /\ \A k \in 1 .. n : f[k] = step[k][f[k - 1]]

\* A function defined by recursion over 0 .. n exists.
LEMMA Recursion ==
    ASSUME NEW n \in Nat, NEW S, NEW a \in S, NEW step, Steps(n, S, step)
    PROVE  \E f : Follows(f, n, S, a, step)
<1> USE DEF Steps
<1> DEFINE Upto(m) == \E f \in [0 .. m -> S] :
                         f[0] = a /\ \A k \in 1 .. m : f[k] = step[k][f[k - 1]]
           T == {m \in 0 .. n : Upto(m)}
<1>1. 0 \in T
  <2>1. Upto(0)
    <3> DEFINE f == [k \in 0 .. 0 |-> a]
    <3>1. f \in [0 .. 0 -> S] /\ f[0] = a /\ \A k \in 1 .. 0 : f[k] = step[k][f[k - 1]]
      OBVIOUS
    <3> QED
      BY <3>1
  <2> QED
    BY <2>1
<1>2. ASSUME NEW m \in 1 .. n, m - 1 \in T PROVE m \in T
  <2>1. PICK f \in [0 .. m - 1 -> S] :
           f[0] = a /\ \A k \in 1 .. m - 1 : f[k] = step[k][f[k - 1]]
    BY <1>2
  <2> DEFINE g == [k \in 0 .. m |-> IF k = m THEN step[m][f[m - 1]] ELSE f[k]]
  <2>2. step[m][f[m - 1]] \in S
    BY <2>1
  <2>3. g \in [0 .. m -> S]
    BY <2>1, <2>2
  <2>4. g[0] = a
    BY <2>1
  <2>5. ASSUME NEW k \in 1 .. m PROVE g[k] = step[k][g[k - 1]]
    BY <2>1
  <2> HIDE DEF g
  <2>6. Upto(m)
    BY <2>3, <2>4, <2>5
  <2> HIDE DEF Upto
  <2> QED
    BY <2>6
<1>3. n \in T
  <2> HIDE DEF T
  <2>1. \A k \in 0 .. n : k \in T
    BY <1>1, <1>2, Induct
  <2> QED
    BY <2>1
<1> QED
  BY <1>3 DEF Follows

-------------------------------------------------------------------------------
(* Sums *)

\* What SumBelow computes: the last value of the partial sums of f.
LEMMA PartialSums ==
    ASSUME NEW n \in Nat, NEW f \in [0 .. n - 1 -> Int]
    PROVE  \E s \in [0 .. n -> Int] :
              /\ SumBelow(f, n) = s[n]
              /\ s[0] = 0
              /\ \A k \in 1 .. n : s[k] = s[k - 1] + f[k - 1]
<1> DEFINE step == [k \in 1 .. n |-> [x \in Int |-> x + f[k - 1]]]
           Partial(s) == s = [k \in 0 .. n |-> IF k = 0 THEN 0 ELSE s[k - 1] + f[k - 1]]
<1>1. Steps(n, Int, step)
  BY DEF Steps
<1>2. PICK s : Follows(s, n, Int, 0, step)
  <2>1. 0 \in Int
    OBVIOUS
  <2> HIDE DEF step
  <2> QED
    BY <1>1, <2>1, Recursion, Zenon
<1>3. ASSUME NEW k \in 1 .. n PROVE s[k] = s[k - 1] + f[k - 1]
  <2>1. step[k] = [x \in Int |-> x + f[k - 1]] /\ s[k - 1] \in Int
    BY <1>2 DEF Follows
  <2> QED
    BY <1>2, <2>1 DEF Follows
<1>4. s \in [0 .. n -> Int] /\ s[0] = 0 /\ Partial(s)
  BY <1>2, <1>3 DEF Follows
<1> DEFINE c == CHOOSE t : Partial(t)
<1>5. Partial(c)
  BY <1>4
<1>6. SumBelow(f, n) = c[n]
  BY DEF SumBelow
<1> HIDE DEF c
<1>7. c[0] = 0 /\ \A k \in 1 .. n : c[k] = c[k - 1] + f[k - 1]
  BY <1>5
<1>8. DOMAIN c = 0 .. n /\ c = [k \in 0 .. n |-> c[k]]
  BY <1>5
<1>9. \A k \in 0 .. n : c[k] = s[k]
  <2> DEFINE T == {k \in 0 .. n : c[k] = s[k]}
  <2>1. 0 \in T
    BY <1>4, <1>7
  <2>2. ASSUME NEW k \in 1 .. n, k - 1 \in T PROVE k \in T
    BY <2>2, <1>3, <1>7
  <2>3. \A k \in 0 .. n : k \in T
    <3> HIDE DEF T
    <3> QED
      BY <2>1, <2>2, Induct
  <2> QED
    BY <2>3
<1>10. SumBelow(f, n) = s[n]
  BY <1>6, <1>9
<1> QED
  BY <1>4, <1>3, <1>10

\* A sum changes by as much as one of its terms.
LEMMA SumChanges ==
    ASSUME NEW n \in Nat, NEW f \in [0 .. n - 1 -> Int], NEW i \in 0 .. n - 1, NEW d \in Int,
           NEW g \in [0 .. n - 1 -> Int], g[i] = f[i] + d,
           \A j \in 0 .. n - 1 : j # i => g[j] = f[j]
    PROVE  SumBelow(g, n) = SumBelow(f, n) + d
<1>1. PICK s \in [0 .. n -> Int] :
         /\ SumBelow(f, n) = s[n]
         /\ s[0] = 0
         /\ \A k \in 1 .. n : s[k] = s[k - 1] + f[k - 1]
  BY PartialSums
<1>2. PICK t \in [0 .. n -> Int] :
         /\ SumBelow(g, n) = t[n]
         /\ t[0] = 0
         /\ \A k \in 1 .. n : t[k] = t[k - 1] + g[k - 1]
  BY PartialSums
<1> DEFINE T == {k \in 0 .. n : (i < k => t[k] = s[k] + d) /\ (i >= k => t[k] = s[k])}
<1>3. 0 \in T
  BY <1>1, <1>2
<1>4. ASSUME NEW k \in 1 .. n, k - 1 \in T PROVE k \in T
  <2>1. t[k - 1] \in Int /\ s[k - 1] \in Int /\ f[k - 1] \in Int /\ f[i] \in Int
    OBVIOUS
  <2>2. t[k] = t[k - 1] + g[k - 1] /\ s[k] = s[k - 1] + f[k - 1]
    BY <1>1, <1>2
  <2>3. CASE i = k - 1
    BY <2>1, <2>2, <2>3, <1>4
  <2>4. CASE i # k - 1
    <3>1. g[k - 1] = f[k - 1]
      BY <2>4
    <3>2. i < k <=> i < k - 1
      BY <2>4
    <3>3. CASE i < k
      <4>1. t[k - 1] = s[k - 1] + d
        BY <3>2, <3>3, <1>4
      <4> QED
        BY <2>1, <2>2, <3>1, <3>3, <4>1
    <3>4. CASE i >= k
      <4>1. t[k - 1] = s[k - 1]
        BY <3>4, <1>4
      <4> QED
        BY <2>1, <2>2, <3>1, <3>4, <4>1
    <3> QED
      BY <3>3, <3>4
  <2> QED
    BY <2>3, <2>4
<1>5. n \in T
  <2> HIDE DEF T
  <2>1. \A k \in 0 .. n : k \in T
    BY <1>3, <1>4, Induct
  <2> QED
    BY <2>1
<1>6. t[n] = s[n] + d
  BY <1>5
<1> QED
  BY <1>1, <1>2, <1>6

\* Sums of the same terms are equal.
LEMMA SumSame ==
    ASSUME NEW n \in Nat, NEW f, NEW g, f = g
    PROVE  SumBelow(g, n) = SumBelow(f, n)
OBVIOUS

-------------------------------------------------------------------------------
(* Probing *)

\* Index i is the first in stops on the way from home.
Reach(home, c, i, stops) ==
    \E j \in 0 .. (c - 1) :
        /\ i = (home + j) % c
        /\ i \in stops
        /\ \A h \in 0 .. (j - 1) : (home + h) % c \notin stops

LEMMA ModIn == ASSUME NEW a \in Nat, NEW c \in Nat, c > 0 PROVE a % c \in 0 .. c - 1
BY SMT

LEMMA DivMod == ASSUME NEW a \in Nat, NEW c \in Nat, c > 0
                PROVE  \E q \in Nat : a = q * c + (a % c)
BY SMT

LEMMA ModOf == ASSUME NEW q \in Nat, NEW r \in Nat, NEW c \in Nat, c > 0, r < c
               PROVE  (q * c + r) % c = r
BY SMT

\* A walk from home of fewer than c steps visits every index.
LEMMA WalkVisits ==
    ASSUME NEW home \in Nat, NEW c \in Nat, c > 0, NEW i \in 0 .. c - 1
    PROVE  \E j \in 0 .. c - 1 : (home + j) % c = i
<1>1. PICK q \in Nat : home = q * c + (home % c)
  BY DivMod
<1>2. home % c \in 0 .. c - 1
  BY ModIn
<1>3. CASE i >= home % c
  <2>1. home + (i - (home % c)) = q * c + i
    BY <1>1, <1>2
  <2>2. (q * c + i) % c = i
    BY ModOf
  <2>3. i - (home % c) \in 0 .. c - 1
    BY <1>2, <1>3
  <2> QED
    BY <2>1, <2>2, <2>3
<1>4. CASE i < home % c
  <2>1. home + (i - (home % c) + c) = (q + 1) * c + i
    BY <1>1, <1>2
  <2>2. ((q + 1) * c + i) % c = i
    BY ModOf
  <2>3. i - (home % c) + c \in 0 .. c - 1
    BY <1>2, <1>4
  <2> QED
    BY <2>1, <2>2, <2>3
<1> QED
  BY <1>2, <1>3, <1>4

\* A probe that has where to stop finds the first such index.
LEMMA ProbeReaches ==
    ASSUME NEW home \in Nat, NEW c \in Nat, c > 0,
           NEW stops, stops \subseteq 0 .. c - 1, stops # {}
    PROVE  Reach(home, c, Probe(home, c, stops), stops)
<1> DEFINE Hits == {j \in 0 .. c - 1 : (home + j) % c \in stops}
<1>1. Hits # {}
  <2>1. PICK i \in stops : TRUE
    OBVIOUS
  <2>2. \E j \in 0 .. c - 1 : (home + j) % c = i
    BY <2>1, WalkVisits
  <2> QED
    BY <2>1, <2>2
<1>2. PICK j \in Hits : \A m \in Hits : j <= m
  <2>1. Hits \subseteq Nat
    OBVIOUS
  <2> HIDE DEF Hits
  <2> QED
    BY <1>1, <2>1, Least
<1> DEFINE Good(k) == (home + k) % c \in stops /\ \A h \in 0 .. (k - 1) : (home + h) % c \notin stops
<1>3. Good(j)
  BY <1>2
<1> DEFINE k == CHOOSE x \in 0 .. c - 1 : Good(x)
<1>4. k \in 0 .. c - 1 /\ Good(k)
  BY <1>3
<1>5. Probe(home, c, stops) = (home + k) % c
  BY DEF Probe
<1> QED
  BY <1>4, <1>5 DEF Reach

\* There is only one first index.
LEMMA ReachOnce ==
    ASSUME NEW home \in Nat, NEW c \in Nat, NEW stops, NEW i, NEW k,
           Reach(home, c, i, stops), Reach(home, c, k, stops)
    PROVE  i = k
<1>1. PICK j \in 0 .. (c - 1) : /\ i = (home + j) % c
                                /\ i \in stops
                                /\ \A h \in 0 .. (j - 1) : (home + h) % c \notin stops
  BY DEF Reach
<1>2. PICK m \in 0 .. (c - 1) : /\ k = (home + m) % c
                                /\ k \in stops
                                /\ \A h \in 0 .. (m - 1) : (home + h) % c \notin stops
  BY DEF Reach
<1>3. ~(j < m) /\ ~(m < j)
  BY <1>1, <1>2
<1> QED
  BY <1>1, <1>2, <1>3

\* The index that a probe finds is the one that is reached.
LEMMA ProbeIs ==
    ASSUME NEW home \in Nat, NEW c \in Nat, c > 0, NEW i,
           NEW stops, stops \subseteq 0 .. c - 1, Reach(home, c, i, stops)
    PROVE  Probe(home, c, stops) = i
<1>1. stops # {}
  BY DEF Reach
<1> QED
  BY <1>1, ProbeReaches, ReachOnce

\* With fewer places to stop, an index that is still one of them is still reached.
LEMMA ReachShrinks ==
    ASSUME NEW home \in Nat, NEW c \in Nat, NEW i, NEW S, NEW T,
           Reach(home, c, i, S), T \subseteq S, i \in T
    PROVE  Reach(home, c, i, T)
BY DEF Reach

\* A walk may be resumed behind an index it got to without a stop.
LEMMA ReachOn ==
    ASSUME NEW home \in Nat, NEW c \in Nat, c > 0, NEW F, NEW i,
           NEW j \in 0 .. c - 1, \A h \in 0 .. j : (home + h) % c \notin F,
           Reach((((home + j) % c) + 1) % c, c, i, F)
    PROVE  Reach(home, c, i, F)
<1> DEFINE start == (((home + j) % c) + 1) % c
<1>1. PICK m \in 0 .. (c - 1) : /\ i = (start + m) % c
                                /\ i \in F
                                /\ \A h \in 0 .. (m - 1) : (start + h) % c \notin F
  BY DEF Reach
<1>2. ASSUME NEW h \in Nat PROVE (start + h) % c = (home + (j + 1 + h)) % c
  <2>0. home + j \in Nat
    OBVIOUS
  <2>1. PICK q \in Nat : home + j = q * c + ((home + j) % c)
    BY <2>0, DivMod
  <2>2. (home + j) % c \in 0 .. c - 1
    BY ModIn
  <2>3. PICK p \in Nat : ((home + j) % c) + 1 = p * c + start
    <3>1. ((home + j) % c) + 1 \in Nat
      BY <2>2
    <3> QED
      BY <3>1, DivMod
  <2>4. start \in 0 .. c - 1
    BY <2>2, ModIn
  <2>5. PICK r \in Nat : start + h = r * c + ((start + h) % c)
    <3>1. start + h \in Nat
      BY <2>4
    <3> HIDE DEF start
    <3> QED
      BY <3>1, DivMod
  <2>6. (start + h) % c \in 0 .. c - 1
    BY <2>4, ModIn
  <2> DEFINE x == (start + h) % c
  <2>7. home + (j + 1 + h) = (q * c + p * c + r * c) + x
    <3> HIDE DEF start
    <3>1. q * c \in Nat /\ p * c \in Nat /\ r * c \in Nat
      OBVIOUS
    <3> QED
      BY <2>1, <2>2, <2>3, <2>4, <2>5, <3>1
  <2>8. q * c + p * c + r * c = (q + p + r) * c
    OBVIOUS
  <2>9. ((q + p + r) * c + x) % c = x
    BY <2>6, ModOf
  <2> QED
    BY <2>7, <2>8, <2>9
<1> HIDE DEF start
<1>3. i = (home + (j + 1 + m)) % c
  BY <1>1, <1>2
<1>4. j + 1 + m < c
  <2> SUFFICES ASSUME j + 1 + m >= c PROVE FALSE
    OBVIOUS
  <2> DEFINE h == j + 1 + m - c
  <2>1. h \in 0 .. j
    OBVIOUS
  <2>2. PICK q \in Nat : home + h = q * c + ((home + h) % c)
    <3>1. home + h \in Nat
      BY <2>1
    <3> HIDE DEF h
    <3> QED
      BY <3>1, DivMod
  <2>3. (home + h) % c \in 0 .. c - 1
    BY <2>1, ModIn
  <2>4. home + (j + 1 + m) = (q + 1) * c + ((home + h) % c)
    BY <2>2, <2>3
  <2>5. ((q + 1) * c + ((home + h) % c)) % c = (home + h) % c
    BY <2>3, ModOf
  <2>6. (home + h) % c = i
    BY <2>4, <2>5, <1>3
  <2> QED
    BY <2>1, <2>6, <1>1
<1>5. ASSUME NEW h \in 0 .. (j + 1 + m) - 1 PROVE (home + h) % c \notin F
  <2>1. CASE h <= j
    <3>1. h \in 0 .. j
      BY <2>1
    <3> QED
      BY <3>1
  <2>2. CASE h > j
    <3>1. h - (j + 1) \in 0 .. (m - 1)
      BY <2>2
    <3>2. (start + (h - (j + 1))) % c = (home + h) % c
      BY <3>1, <1>2
    <3> QED
      BY <3>1, <3>2, <1>1
  <2> QED
    BY <2>1, <2>2
<1>6. j + 1 + m \in 0 .. (c - 1)
  BY <1>4
<1> QED
  BY <1>1, <1>3, <1>5, <1>6 DEF Reach

-------------------------------------------------------------------------------
(* Open addressing: a table K of values, of which free marks a free slot and   *)
(* H tells the home of the others.                                             *)

\* Where a search for x in table K stops.
Stops(K, c, x, free) == {j \in 0 .. (c - 1) : K[j] \in {x, free}}

\* Every value is what a search for it meets first.
Chained(K, c, free, H) ==
    \A i \in 0 .. (c - 1) :
        K[i] # free => H[K[i]] \in Nat /\ Reach(H[K[i]], c, i, Stops(K, c, K[i], free))

\* No value is stored twice.
LEMMA ChainedIsInjective ==
    ASSUME NEW c \in Nat, NEW K, NEW free, NEW H, Chained(K, c, free, H),
           NEW i \in 0 .. c - 1, NEW j \in 0 .. c - 1, K[i] = K[j], K[i] # free
    PROVE  i = j
<1>1. /\ H[K[i]] \in Nat
      /\ Reach(H[K[i]], c, i, Stops(K, c, K[i], free))
      /\ Reach(H[K[i]], c, j, Stops(K, c, K[i], free))
  BY DEF Chained
<1> QED
  BY <1>1, ReachOnce

\* A value put where the search for it stops leaves every chain whole.
LEMMA ChainedEnter ==
    ASSUME NEW c \in Nat, NEW K, NEW free, NEW H, Chained(K, c, free, H),
           NEW x, x # free, H[x] \in Nat,
           NEW i \in 0 .. c - 1, Reach(H[x], c, i, Stops(K, c, x, free)),
           NEW L, L[i] = x, \A j \in 0 .. c - 1 : j # i => L[j] = K[j]
    PROVE  Chained(L, c, free, H)
<1> SUFFICES ASSUME NEW m \in 0 .. c - 1, L[m] # free
             PROVE  H[L[m]] \in Nat /\ Reach(H[L[m]], c, m, Stops(L, c, L[m], free))
  BY DEF Chained
<1>1. m \in Stops(L, c, L[m], free)
  BY DEF Stops
<1>2. CASE m = i
  <2>1. Stops(L, c, x, free) \subseteq Stops(K, c, x, free)
    <3>1. i \in Stops(K, c, x, free)
      BY DEF Reach
    <3> QED
      BY <3>1 DEF Stops
  <2> QED
    BY <1>1, <1>2, <2>1, ReachShrinks
<1>3. CASE m # i
  <2>1. L[m] = K[m]
    BY <1>3
  <2>2. Reach(H[K[m]], c, m, Stops(K, c, K[m], free))
    BY <2>1 DEF Chained
  <2>3. H[K[m]] \in Nat
    BY <2>1 DEF Chained
  <2>4. K[m] # x
    <3> SUFFICES ASSUME K[m] = x PROVE FALSE
      OBVIOUS
    <3> QED
      BY <2>2, <2>3, <1>3, ReachOnce
  <2>5. Stops(L, c, K[m], free) \subseteq Stops(K, c, K[m], free)
    BY <2>4 DEF Stops
  <2> QED
    BY <1>1, <2>1, <2>2, <2>3, <2>5, ReachShrinks
<1> QED
  BY <1>2, <1>3

\* The same for a new value, put into the first free slot.
LEMMA ChainedEnterFree ==
    ASSUME NEW c \in Nat, NEW K, NEW free, NEW H, Chained(K, c, free, H),
           NEW x, x # free, H[x] \in Nat, \A j \in 0 .. c - 1 : K[j] # x,
           NEW i \in 0 .. c - 1, Reach(H[x], c, i, {j \in 0 .. (c - 1) : K[j] = free}),
           NEW L, L[i] = x, \A j \in 0 .. c - 1 : j # i => L[j] = K[j]
    PROVE  Chained(L, c, free, H)
<1>1. Stops(K, c, x, free) = {j \in 0 .. (c - 1) : K[j] = free}
  BY DEF Stops
<1>2. Reach(H[x], c, i, Stops(K, c, x, free))
  BY <1>1
<1> QED
  BY <1>2, ChainedEnter

-------------------------------------------------------------------------------
(* The spectrum *)

EntityRecords ==
    [publicKey : Keys, incomingAmount : Int, outgoingAmount : Int,
     latestIncomingTransferTick : Int, latestOutgoingTransferTick : Int]
SpectrumTables == [Entities -> EntityRecords]

KeyAt(sp) == [i \in Entities |-> sp[i].publicKey]
EnergyAt(sp) == [i \in Entities |-> energy(sp, i)]
Total(sp) == SumBelow(EnergyAt(sp), SPECTRUM_CAPACITY)

\* What every spectrum satisfies: its records are found, and a free slot holds
\* nothing that increaseEnergy, which does not clear it, could inherit.
SoundSpectrum(sp) ==
    /\ sp \in SpectrumTables
    /\ Chained(KeyAt(sp), SPECTRUM_CAPACITY, ZeroKey, Home)
    /\ \A i \in Entities : sp[i].publicKey = ZeroKey => sp[i] = NoEntity

LEMMA SpectrumFacts ==
    /\ SPECTRUM_CAPACITY \in Nat /\ SPECTRUM_CAPACITY > 0
    /\ Home \in [Keys -> Nat]
    /\ ZeroKey \in Keys /\ ZeroKey \notin PublicKeys /\ PublicKeys \subseteq Keys
    /\ Entities = 0 .. (SPECTRUM_CAPACITY - 1)
BY SpectrumAssumption DEF Keys, Entities

LEMMA KeyAtType ==
    ASSUME NEW sp \in SpectrumTables
    PROVE  /\ KeyAt(sp) \in [0 .. SPECTRUM_CAPACITY - 1 -> Keys]
           /\ \A i \in Entities : KeyAt(sp)[i] = sp[i].publicKey /\ sp[i].publicKey \in Keys
BY DEF KeyAt, SpectrumTables, EntityRecords, Entities

\* There are more slots than entities.
LEMMA FreeEntity ==
    ASSUME NEW sp, SoundSpectrum(sp)
    PROVE  \E i \in Entities : sp[i].publicKey = ZeroKey
<1> SUFFICES ASSUME \A i \in Entities : sp[i].publicKey # ZeroKey PROVE FALSE
  OBVIOUS
<1> DEFINE K == KeyAt(sp)
<1>1. K \in [Entities -> PublicKeys]
  BY KeyAtType DEF SoundSpectrum, KeyAt, Keys
<1>2. IsFiniteSet(Entities) /\ Cardinality(Entities) = SPECTRUM_CAPACITY
  BY SpectrumFacts, FS_Interval DEF Entities
<1>3. PICK i, j \in Entities : i # j /\ K[i] = K[j]
  <2> HIDE DEF K
  <2> QED
    BY <1>1, <1>2, SpectrumAssumption, FS_PigeonHole
<1>4. K[i] # ZeroKey
  BY <1>1, SpectrumFacts
<1>5. Chained(K, SPECTRUM_CAPACITY, ZeroKey, Home) /\ K \in [0 .. SPECTRUM_CAPACITY - 1 -> Keys]
  BY KeyAtType DEF SoundSpectrum
<1> HIDE DEF K
<1> QED
  BY <1>3, <1>4, <1>5, SpectrumFacts, ChainedIsInjective DEF Entities

\* A probe for a key ends at its record or at the first free slot.
LEMMA ProbeEntityReaches ==
    ASSUME NEW sp, SoundSpectrum(sp), NEW key \in Keys
    PROVE  /\ ProbeEntity(sp, key) \in Entities
           /\ sp[ProbeEntity(sp, key)].publicKey \in {key, ZeroKey}
           /\ Reach(Home[key], SPECTRUM_CAPACITY, ProbeEntity(sp, key),
                    Stops(KeyAt(sp), SPECTRUM_CAPACITY, key, ZeroKey))
<1> DEFINE S == {i \in Entities : sp[i].publicKey \in {key, ZeroKey}}
<1>1. S = Stops(KeyAt(sp), SPECTRUM_CAPACITY, key, ZeroKey)
  BY DEF Stops, KeyAt, Entities
<1>2. S # {} /\ S \subseteq 0 .. SPECTRUM_CAPACITY - 1
  BY FreeEntity DEF Entities
<1>3. ProbeEntity(sp, key) = Probe(Home[key], SPECTRUM_CAPACITY, S)
  BY DEF ProbeEntity
<1>4. Home[key] \in Nat
  BY SpectrumFacts
<1>5. Reach(Home[key], SPECTRUM_CAPACITY, ProbeEntity(sp, key), S)
  <2> HIDE DEF S
  <2> QED
    BY <1>2, <1>3, <1>4, SpectrumFacts, ProbeReaches
<1>6. ProbeEntity(sp, key) \in S
  BY <1>5 DEF Reach
<1> QED
  BY <1>1, <1>5, <1>6

\* spectrumIndex finds every record by its key.
LEMMA EntityIsFound ==
    ASSUME NEW sp, SoundSpectrum(sp), NEW i \in Entities, sp[i].publicKey # ZeroKey
    PROVE  spectrumIndex(sp, sp[i].publicKey) = i
<1> DEFINE key == sp[i].publicKey
           K == KeyAt(sp)
<1>1. key \in Keys /\ K[i] = key
  BY KeyAtType DEF SoundSpectrum
<1>2. Reach(Home[key], SPECTRUM_CAPACITY, i, Stops(K, SPECTRUM_CAPACITY, key, ZeroKey))
  BY <1>1 DEF SoundSpectrum, Chained, Entities
<1>3. Reach(Home[key], SPECTRUM_CAPACITY, ProbeEntity(sp, key),
            Stops(K, SPECTRUM_CAPACITY, key, ZeroKey))
  BY <1>1, ProbeEntityReaches
<1>4. ProbeEntity(sp, key) = i
  <2>1. Home[key] \in Nat
    BY <1>1, SpectrumFacts
  <2> HIDE DEF key, K
  <2> QED
    BY <2>1, <1>2, <1>3, SpectrumFacts, ReachOnce
<1> QED
  BY <1>4 DEF spectrumIndex

\* What spectrumIndex returns.
LEMMA IndexType ==
    ASSUME NEW sp, SoundSpectrum(sp), NEW key \in Keys
    PROVE  \/ spectrumIndex(sp, key) = -1
           \/ /\ spectrumIndex(sp, key) \in Entities
              /\ sp[spectrumIndex(sp, key)].publicKey = key
              /\ key # ZeroKey
BY ProbeEntityReaches DEF spectrumIndex

\* Records with new amounts and the keys they had leave a sound spectrum sound.
LEMMA SameKeys ==
    ASSUME NEW sp, SoundSpectrum(sp), NEW new \in SpectrumTables,
           \A i \in Entities : new[i].publicKey = sp[i].publicKey,
           \A i \in Entities : sp[i].publicKey = ZeroKey => new[i] = sp[i]
    PROVE  SoundSpectrum(new)
<1>1. KeyAt(new) = KeyAt(sp)
  BY DEF KeyAt
<1> QED
  BY <1>1 DEF SoundSpectrum

LEMMA EnergyType ==
    ASSUME NEW sp \in SpectrumTables
    PROVE  /\ EnergyAt(sp) \in [0 .. SPECTRUM_CAPACITY - 1 -> Int]
           /\ \A i \in Entities : EnergyAt(sp)[i] = energy(sp, i)
<1>1. \A i \in Entities : sp[i].incomingAmount \in Int /\ sp[i].outgoingAmount \in Int
  BY DEF SpectrumTables, EntityRecords
<1>2. \A i \in Entities : energy(sp, i) \in Int
  BY <1>1 DEF energy
<1> QED
  BY <1>2 DEF EnergyAt, Entities

\* The sum of the balances after one record has changed.
LEMMA TotalChanges ==
    ASSUME NEW sp \in SpectrumTables, NEW new \in SpectrumTables, NEW i \in Entities, NEW d \in Int,
           energy(new, i) = energy(sp, i) + d,
           \A j \in Entities : j # i => new[j] = sp[j]
    PROVE  Total(new) = Total(sp) + d
<1>1. /\ EnergyAt(sp) \in [0 .. SPECTRUM_CAPACITY - 1 -> Int]
      /\ EnergyAt(new) \in [0 .. SPECTRUM_CAPACITY - 1 -> Int]
  BY EnergyType
<1>2. /\ EnergyAt(new)[i] = EnergyAt(sp)[i] + d
      /\ \A j \in 0 .. SPECTRUM_CAPACITY - 1 : j # i => EnergyAt(new)[j] = EnergyAt(sp)[j]
  BY DEF EnergyAt, energy, Entities
<1>3. i \in 0 .. SPECTRUM_CAPACITY - 1
  BY DEF Entities
<1> QED
  BY <1>1, <1>2, <1>3, SpectrumFacts, SumChanges DEF Total

LEMMA TotalType ==
    ASSUME NEW sp \in SpectrumTables
    PROVE  Total(sp) \in Int
<1>1. EnergyAt(sp) \in [0 .. SPECTRUM_CAPACITY - 1 -> Int]
  BY EnergyType
<1> QED
  BY <1>1, SpectrumFacts, PartialSums DEF Total

\* The changes increaseEnergy makes.
LEMMA IncreaseIs ==
    ASSUME NEW sp, SoundSpectrum(sp), NEW key \in PublicKeys, NEW amount \in Nat, NEW t \in Int,
           NEW i, i = ProbeEntity(sp, key), NEW new, new = increaseEnergy(sp, key, amount, t)
    PROVE  /\ new \in SpectrumTables
           /\ i \in Entities
           /\ new[i].publicKey = key
           /\ energy(new, i) = energy(sp, i) + amount
           /\ \A j \in Entities : j # i => new[j] = sp[j]
<1>1. i \in Entities /\ sp[i].publicKey \in {key, ZeroKey}
  BY ProbeEntityReaches, SpectrumFacts
<1>2. sp[i] \in EntityRecords
  BY <1>1 DEF SoundSpectrum, SpectrumTables
<1>3. key # ZeroKey /\ key \in Keys
  BY SpectrumFacts
<1> DEFINE received == IF sp[i].publicKey = key THEN sp[i].incomingAmount ELSE 0
           r == [sp[i] EXCEPT !.publicKey = key, !.incomingAmount = received + amount,
                              !.latestIncomingTransferTick = t]
<1>4. new = [sp EXCEPT ![i] = r]
  BY <1>1, <1>3 DEF increaseEnergy, SoundSpectrum, SpectrumTables
<1>41. received = sp[i].incomingAmount
  <2>1. CASE sp[i].publicKey = key
    BY <2>1
  <2>2. CASE sp[i].publicKey = ZeroKey
    BY <2>2, <1>1, <1>3 DEF SoundSpectrum, NoEntity
  <2> QED
    BY <2>1, <2>2, <1>1
<1>42. received + amount \in Int
  BY <1>2, <1>41 DEF EntityRecords
<1>5. /\ r \in EntityRecords /\ r.publicKey = key /\ r.outgoingAmount = sp[i].outgoingAmount
      /\ r.incomingAmount = received + amount
  <2> HIDE DEF received
  <2> QED
    BY <1>2, <1>3, <1>42 DEF EntityRecords
<1>6. r.incomingAmount = sp[i].incomingAmount + amount
  BY <1>5, <1>41
<1> HIDE DEF r
<1>7. new \in SpectrumTables /\ new[i] = r /\ \A j \in Entities : j # i => new[j] = sp[j]
  BY <1>1, <1>4, <1>5 DEF SoundSpectrum, SpectrumTables
<1>8. energy(new, i) = energy(sp, i) + amount
  BY <1>2, <1>5, <1>6, <1>7 DEF energy, EntityRecords
<1> QED
  BY <1>1, <1>5, <1>7, <1>8

\* A credit keeps every probe chain and adds the amount to the balances.
LEMMA IncreaseKeeps ==
    ASSUME NEW sp, SoundSpectrum(sp), NEW key \in PublicKeys, NEW amount \in Nat, NEW t \in Int
    PROVE  /\ SoundSpectrum(increaseEnergy(sp, key, amount, t))
           /\ Total(increaseEnergy(sp, key, amount, t)) = Total(sp) + amount
<1> DEFINE i == ProbeEntity(sp, key)
           new == increaseEnergy(sp, key, amount, t)
<1>1. /\ new \in SpectrumTables
      /\ i \in Entities
      /\ new[i].publicKey = key
      /\ energy(new, i) = energy(sp, i) + amount
      /\ \A j \in Entities : j # i => new[j] = sp[j]
  BY IncreaseIs
<1>2. key \in Keys /\ key # ZeroKey /\ Home[key] \in Nat
  BY SpectrumFacts
<1>3. Reach(Home[key], SPECTRUM_CAPACITY, i, Stops(KeyAt(sp), SPECTRUM_CAPACITY, key, ZeroKey))
  BY <1>2, ProbeEntityReaches
<1>4. /\ KeyAt(new)[i] = key
      /\ \A j \in 0 .. SPECTRUM_CAPACITY - 1 : j # i => KeyAt(new)[j] = KeyAt(sp)[j]
  BY <1>1 DEF KeyAt, Entities
<1> HIDE DEF i, new
<1>5. Chained(KeyAt(new), SPECTRUM_CAPACITY, ZeroKey, Home)
  BY <1>1, <1>2, <1>3, <1>4, SpectrumFacts, ChainedEnter DEF SoundSpectrum
<1>6. \A j \in Entities : new[j].publicKey = ZeroKey => new[j] = NoEntity
  BY <1>1, <1>2 DEF SoundSpectrum
<1>7. Total(new) = Total(sp) + amount
  BY <1>1, TotalChanges DEF SoundSpectrum
<1> QED
  BY <1>1, <1>5, <1>6, <1>7 DEF SoundSpectrum, new

\* A debit of an entity that has the amount takes it from the balances.
LEMMA DebitKeeps ==
    ASSUME NEW sp, SoundSpectrum(sp), NEW key \in Keys, NEW amount \in Nat, NEW t \in Int
    PROVE  /\ SoundSpectrum(Debit(sp, key, amount, t))
           /\ key = ZeroKey => Debit(sp, key, amount, t) = sp
           /\ Balance(sp, key) >= amount /\ key # ZeroKey
                 => Total(Debit(sp, key, amount, t)) = Total(sp) - amount
<1> DEFINE i == spectrumIndex(sp, key)
           new == Debit(sp, key, amount, t)
<1>0. Total(sp) \in Int
  BY TotalType DEF SoundSpectrum
<1>1. CASE i = -1
  BY <1>0, <1>1 DEF Debit, Balance
<1>2. CASE i # -1
  <2>1. i \in Entities /\ sp[i].publicKey = key /\ key # ZeroKey
    BY <1>2, IndexType
  <2>2. sp[i] \in EntityRecords /\ energy(sp, i) \in Int
    BY <2>1 DEF SoundSpectrum, SpectrumTables, EntityRecords, energy
  <2>3. Balance(sp, key) = energy(sp, i) /\ new = decreaseEnergy(sp, i, amount, t)
    BY <1>2 DEF Balance, Debit
  <2>4. CASE energy(sp, i) < amount
    <3>1. new = sp
      BY <2>2, <2>3, <2>4 DEF decreaseEnergy
    <3>2. ~(Balance(sp, key) >= amount)
      BY <2>2, <2>3, <2>4
    <3> HIDE DEF i
    <3> QED
      BY <3>1, <3>2, <2>1
  <2>5. CASE energy(sp, i) >= amount
    <3> DEFINE r == [sp[i] EXCEPT !.outgoingAmount = sp[i].outgoingAmount + amount,
                                  !.latestOutgoingTransferTick = t]
    <3>1. new = [sp EXCEPT ![i] = r]
      BY <2>1, <2>2, <2>3, <2>5 DEF decreaseEnergy, SoundSpectrum, SpectrumTables
    <3>2. /\ r \in EntityRecords /\ r.publicKey = key
          /\ r.incomingAmount = sp[i].incomingAmount
          /\ r.outgoingAmount = sp[i].outgoingAmount + amount
      <4>1. sp[i].outgoingAmount + amount \in Int
        BY <2>2 DEF EntityRecords
      <4> HIDE DEF i
      <4> QED
        BY <2>1, <2>2, <4>1 DEF EntityRecords
    <3> HIDE DEF r
    <3>3. new \in SpectrumTables /\ new[i] = r /\ \A j \in Entities : j # i => new[j] = sp[j]
      BY <2>1, <3>1, <3>2 DEF SoundSpectrum, SpectrumTables
    <3>4. energy(new, i) = energy(sp, i) + (-amount)
      BY <2>2, <3>2, <3>3 DEF energy, EntityRecords
    <3> HIDE DEF i, new
    <3>5. SoundSpectrum(new)
      BY <2>1, <3>2, <3>3, SameKeys
    <3>6. Total(new) = Total(sp) + (-amount)
      BY <2>1, <3>3, <3>4, TotalChanges DEF SoundSpectrum
    <3> QED
      BY <2>1, <3>5, <3>6, <1>0 DEF new
  <2> QED
    BY <2>2, <2>4, <2>5
<1> QED
  BY <1>1, <1>2

Payments(n) == [1 .. n -> [destination : PublicKeys, amount : Nat]]
AmountAt(payments) == [k \in 0 .. Len(payments) - 1 |-> payments[k + 1].amount]

\* Credits, one after the other: the balances grow by the sum of the amounts.
LEMMA CreditsKeep ==
    ASSUME NEW sp, SoundSpectrum(sp), NEW n \in Nat, NEW payments \in Payments(n), NEW t \in Int
    PROVE  /\ SoundSpectrum(Credits(sp, payments, t))
           /\ Total(Credits(sp, payments, t)) = Total(sp) + SumBelow(AmountAt(payments), n)
<1> DEFINE S == {table \in SpectrumTables : SoundSpectrum(table)}
           Credit(table, k) == increaseEnergy(table, payments[k].destination, payments[k].amount, t)
           step == [k \in 1 .. n |-> [table \in S |-> Credit(table, k)]]
           Credited(f) == f = [k \in 0 .. n |-> IF k = 0 THEN sp ELSE Credit(f[k - 1], k)]
<1>1. Len(payments) = n
  BY DEF Payments
<1>2. \A k \in 1 .. n : payments[k].destination \in PublicKeys /\ payments[k].amount \in Nat
  BY DEF Payments
<1>3. ASSUME NEW table, SoundSpectrum(table), NEW k \in 1 .. n
      PROVE  /\ SoundSpectrum(Credit(table, k))
             /\ Total(Credit(table, k)) = Total(table) + payments[k].amount
  BY <1>2, <1>3, IncreaseKeeps
<1>4. \A table : table \in S <=> SoundSpectrum(table)
  BY DEF SoundSpectrum
<1> HIDE DEF S, Credit
<1>5. Steps(n, S, step)
  BY <1>3, <1>4 DEF Steps
<1>6. PICK f : Follows(f, n, S, sp, step)
  <2> HIDE DEF step
  <2> QED
    BY <1>4, <1>5, Recursion
<1>7. Credited(f)
  <2>1. f \in [0 .. n -> S] /\ f[0] = sp
    BY <1>6 DEF Follows
  <2>2. ASSUME NEW k \in 1 .. n PROVE f[k] = Credit(f[k - 1], k)
    <3>1. f[k] = step[k][f[k - 1]] /\ f[k - 1] \in S
      BY <1>6 DEF Follows
    <3> QED
      BY <3>1
  <2> QED
    BY <2>1, <2>2
<1> DEFINE c == CHOOSE g : Credited(g)
<1>8. Credited(c)
  BY <1>7
<1>9. Credits(sp, payments, t) = c[n]
  BY <1>1 DEF Credits, Credit
<1> HIDE DEF c
<1>10. c[0] = sp /\ \A k \in 1 .. n : c[k] = Credit(c[k - 1], k)
  BY <1>8
<1> HIDE DEF Credited
<1>11. AmountAt(payments) \in [0 .. n - 1 -> Int]
       /\ \A k \in 1 .. n : AmountAt(payments)[k - 1] = payments[k].amount
  BY <1>1, <1>2 DEF AmountAt
<1>12. PICK s \in [0 .. n -> Int] :
          /\ SumBelow(AmountAt(payments), n) = s[n]
          /\ s[0] = 0
          /\ \A k \in 1 .. n : s[k] = s[k - 1] + AmountAt(payments)[k - 1]
  BY <1>11, PartialSums
<1> DEFINE T == {k \in 0 .. n : SoundSpectrum(c[k]) /\ Total(c[k]) = Total(sp) + s[k]}
<1>13. Total(sp) \in Int
  BY TotalType DEF SoundSpectrum
<1>14. 0 \in T
  BY <1>10, <1>12, <1>13
<1>15. ASSUME NEW k \in 1 .. n, k - 1 \in T PROVE k \in T
  <2>1. SoundSpectrum(c[k]) /\ Total(c[k]) = Total(c[k - 1]) + payments[k].amount
    BY <1>3, <1>10, <1>15
  <2>2. s[k] = s[k - 1] + payments[k].amount /\ s[k - 1] \in Int
    BY <1>11, <1>12
  <2> QED
    BY <2>1, <2>2, <1>2, <1>13, <1>15
<1>16. n \in T
  <2> HIDE DEF T
  <2>1. \A k \in 0 .. n : k \in T
    BY <1>14, <1>15, Induct
  <2> QED
    BY <2>1
<1> QED
  BY <1>9, <1>12, <1>16

\* The table a rebuild begins with.
LEMMA EmptyIsSound == SoundSpectrum(EmptySpectrum) /\ Total(EmptySpectrum) = 0
<1>1. NoEntity \in EntityRecords /\ NoEntity.publicKey = ZeroKey
  BY SpectrumFacts DEF NoEntity, EntityRecords
<1>2. EmptySpectrum \in SpectrumTables /\ \A i \in Entities : EmptySpectrum[i] = NoEntity
  BY <1>1 DEF EmptySpectrum, SpectrumTables
<1>3. Chained(KeyAt(EmptySpectrum), SPECTRUM_CAPACITY, ZeroKey, Home)
  BY <1>1, <1>2 DEF Chained, KeyAt, Entities
<1>4. \A i \in Entities : EnergyAt(EmptySpectrum)[i] = 0
  BY <1>2 DEF EnergyAt, energy, NoEntity
<1>5. PICK s \in [0 .. SPECTRUM_CAPACITY -> Int] :
         /\ Total(EmptySpectrum) = s[SPECTRUM_CAPACITY]
         /\ s[0] = 0
         /\ \A k \in 1 .. SPECTRUM_CAPACITY : s[k] = s[k - 1] + EnergyAt(EmptySpectrum)[k - 1]
  BY <1>2, EnergyType, SpectrumFacts, PartialSums DEF Total
<1> DEFINE T == {k \in 0 .. SPECTRUM_CAPACITY : s[k] = 0}
<1>6. 0 \in T
  BY <1>5, SpectrumFacts
<1>7. ASSUME NEW k \in 1 .. SPECTRUM_CAPACITY, k - 1 \in T PROVE k \in T
  <2>1. k - 1 \in Entities
    BY SpectrumFacts DEF Entities
  <2> QED
    BY <1>4, <1>5, <1>7, <2>1
<1>8. s[SPECTRUM_CAPACITY] = 0
  <2>1. \A k \in 0 .. SPECTRUM_CAPACITY : k \in T
    <3> HIDE DEF T
    <3> QED
      BY <1>6, <1>7, SpectrumFacts, Induct
  <2> QED
    BY <2>1, SpectrumFacts
<1> QED
  BY <1>1, <1>2, <1>3, <1>5, <1>8 DEF SoundSpectrum

\* new holds the records at the first k indices of sp that have a balance.
Rebuilt(sp, new, k) ==
    /\ \A x \in Entities : new[x].publicKey # ZeroKey =>
          \E i \in Entities : i < k /\ energy(sp, i) # 0 /\ new[x] = sp[i]
    /\ \A i \in Entities : i < k /\ energy(sp, i) # 0 =>
          \E x \in Entities : new[x] = sp[i]

\* One more record is entered, where the search for its key will find it.
LEMMA ReenterKeeps ==
    ASSUME NEW sp, SoundSpectrum(sp), NEW new, SoundSpectrum(new),
           NEW i \in Entities, Rebuilt(sp, new, i)
    PROVE  /\ SoundSpectrum(Reenter(sp, new, i))
           /\ Total(Reenter(sp, new, i)) = Total(new) + energy(sp, i)
           /\ Rebuilt(sp, Reenter(sp, new, i), i + 1)
<1>0. Total(new) \in Int
  BY TotalType DEF SoundSpectrum
<1>01. i \in Int /\ \A j \in Entities : j \in Int
  BY SpectrumFacts
<1>1. CASE energy(sp, i) = 0
  <2>1. Reenter(sp, new, i) = new
    BY <1>1 DEF Reenter
  <2>2. Rebuilt(sp, new, i + 1)
    BY <1>1, <1>01 DEF Rebuilt
  <2> QED
    BY <2>1, <2>2, <1>0, <1>1
<1>2. CASE energy(sp, i) # 0
  <2> DEFINE key == sp[i].publicKey
             F == {j \in Entities : new[j].publicKey = ZeroKey}
             x == Probe(Home[key], SPECTRUM_CAPACITY, F)
             out == Reenter(sp, new, i)
  <2>1. sp[i] \in EntityRecords /\ key \in Keys /\ key # ZeroKey /\ energy(sp, i) \in Int
    <3>1. sp[i] \in EntityRecords
      BY DEF SoundSpectrum, SpectrumTables
    <3>2. CASE key = ZeroKey
      BY <1>2, <3>2 DEF SoundSpectrum, NoEntity, energy
    <3> QED
      BY <3>1, <3>2 DEF EntityRecords, energy
  <2>2. Home[key] \in Nat
    BY <2>1, SpectrumFacts
  <2>3. F # {} /\ F \subseteq 0 .. SPECTRUM_CAPACITY - 1
    BY FreeEntity DEF Entities
  <2>4. Reach(Home[key], SPECTRUM_CAPACITY, x, F)
    <3> HIDE DEF F, key
    <3> QED
      BY <2>2, <2>3, SpectrumFacts, ProbeReaches
  <2>5. x \in F
    BY <2>4 DEF Reach
  <2>6. out = [new EXCEPT ![x] = sp[i]]
    BY <1>2 DEF Reenter
  <2>7. F = {j \in 0 .. (SPECTRUM_CAPACITY - 1) : KeyAt(new)[j] = ZeroKey}
    BY DEF KeyAt, Entities
  <2>8. x \in Entities /\ new[x] = NoEntity
    BY <2>5 DEF SoundSpectrum
  <2> HIDE DEF x, out, F
  <2>9. out \in SpectrumTables /\ out[x] = sp[i] /\ \A j \in Entities : j # x => out[j] = new[j]
    BY <2>1, <2>6, <2>8 DEF SoundSpectrum, SpectrumTables
  <2>10. ASSUME NEW j \in Entities PROVE new[j].publicKey # key
    <3> SUFFICES ASSUME new[j].publicKey = key PROVE FALSE
      OBVIOUS
    <3>1. PICK m \in Entities : m < i /\ new[j] = sp[m]
      BY <2>1 DEF Rebuilt
    <3>2. spectrumIndex(sp, key) = m /\ spectrumIndex(sp, key) = i
      BY <2>1, <3>1, EntityIsFound
    <3> QED
      BY <3>1, <3>2, <1>01
  <2>11. Chained(KeyAt(out), SPECTRUM_CAPACITY, ZeroKey, Home)
    <3>1. /\ KeyAt(out)[x] = key
          /\ \A j \in 0 .. SPECTRUM_CAPACITY - 1 : j # x => KeyAt(out)[j] = KeyAt(new)[j]
      BY <2>8, <2>9 DEF KeyAt, Entities
    <3>2. \A j \in 0 .. SPECTRUM_CAPACITY - 1 : KeyAt(new)[j] # key
      BY <2>10 DEF KeyAt, Entities
    <3>3. x \in 0 .. SPECTRUM_CAPACITY - 1
      BY <2>8 DEF Entities
    <3>4. Chained(KeyAt(new), SPECTRUM_CAPACITY, ZeroKey, Home)
      BY DEF SoundSpectrum
    <3>5. Reach(Home[key], SPECTRUM_CAPACITY, x,
                {j \in 0 .. (SPECTRUM_CAPACITY - 1) : KeyAt(new)[j] = ZeroKey})
      BY <2>4, <2>7
    <3> HIDE DEF key
    <3> QED
      BY <2>1, <2>2, <3>1, <3>2, <3>3, <3>4, <3>5, SpectrumFacts, ChainedEnterFree
  <2>12. SoundSpectrum(out)
    BY <2>1, <2>9, <2>11 DEF SoundSpectrum
  <2>13. Total(out) = Total(new) + energy(sp, i)
    <3>1. energy(new, x) = 0 /\ energy(out, x) = energy(sp, i)
      BY <2>8, <2>9 DEF energy, NoEntity
    <3>2. energy(out, x) = energy(new, x) + energy(sp, i)
      BY <3>1, <2>1
    <3> QED
      BY <3>2, <2>1, <2>8, <2>9, TotalChanges DEF SoundSpectrum
  <2>14. Rebuilt(sp, out, i + 1)
    <3>1. ASSUME NEW y \in Entities, out[y].publicKey # ZeroKey
          PROVE  \E j \in Entities : j < i + 1 /\ energy(sp, j) # 0 /\ out[y] = sp[j]
      <4>1. CASE y = x
        BY <4>1, <2>9, <1>2, <1>01
      <4>2. CASE y # x
        <5>1. PICK j \in Entities : j < i /\ energy(sp, j) # 0 /\ new[y] = sp[j]
          BY <3>1, <4>2, <2>9 DEF Rebuilt
        <5> QED
          BY <5>1, <4>2, <2>9, <1>01
      <4> QED
        BY <4>1, <4>2
    <3>2. ASSUME NEW j \in Entities, j < i + 1, energy(sp, j) # 0
          PROVE  \E y \in Entities : out[y] = sp[j]
      <4>1. CASE j = i
        BY <4>1, <2>8, <2>9
      <4>2. CASE j # i
        <5>1. PICK y \in Entities : new[y] = sp[j]
          BY <3>2, <4>2, <1>01 DEF Rebuilt
        <5>2. y # x
          BY <5>1, <2>8, <3>2 DEF energy, NoEntity
        <5> QED
          BY <5>1, <5>2, <2>9
      <4> QED
        BY <4>1, <4>2
    <3> QED
      BY <3>1, <3>2 DEF Rebuilt
  <2> QED
    BY <2>12, <2>13, <2>14 DEF out
<1> QED
  BY <1>1, <1>2

\* The rebuild keeps the records that have a balance, findable, and the total.
LEMMA ReorganizeKeeps ==
    ASSUME NEW sp, SoundSpectrum(sp)
    PROVE  /\ SoundSpectrum(reorganizeSpectrum(sp))
           /\ Total(reorganizeSpectrum(sp)) = Total(sp)
           /\ Rebuilt(sp, reorganizeSpectrum(sp), SPECTRUM_CAPACITY)
<1> DEFINE n == SPECTRUM_CAPACITY
           S == {f \in SpectrumTables : SoundSpectrum(f)}
           \* Reenter needs a table that was built so far; any other stays.
           Step(new, k) == IF Rebuilt(sp, new, k - 1) THEN Reenter(sp, new, k - 1) ELSE new
           step == [k \in 1 .. n |-> [new \in S |-> Step(new, k)]]
           Built(f) == f = [k \in 0 .. n |->
                              IF k = 0 THEN EmptySpectrum ELSE Reenter(sp, f[k - 1], k - 1)]
<1>1. n \in Nat /\ n > 0 /\ Entities = 0 .. n - 1
  BY SpectrumFacts
<1>2. \A new : new \in S <=> SoundSpectrum(new)
  BY DEF SoundSpectrum
<1>3. ASSUME NEW new, SoundSpectrum(new), NEW k \in 1 .. n, Rebuilt(sp, new, k - 1)
      PROVE  /\ SoundSpectrum(Reenter(sp, new, k - 1))
             /\ Total(Reenter(sp, new, k - 1)) = Total(new) + energy(sp, k - 1)
             /\ Rebuilt(sp, Reenter(sp, new, k - 1), k)
  <2>1. k - 1 \in Entities /\ (k - 1) + 1 = k
    BY <1>1
  <2> QED
    BY <1>3, <2>1, ReenterKeeps
<1>4. \A new \in S : \A k \in 1 .. n : Step(new, k) \in S
  BY <1>2, <1>3
<1>5. EmptySpectrum \in S
  BY <1>2, EmptyIsSound
<1>6. Rebuilt(sp, EmptySpectrum, 0)
  BY <1>1 DEF Rebuilt, EmptySpectrum, NoEntity
<1> HIDE DEF S, n
<1>7. Steps(n, S, step)
  BY <1>4 DEF Steps
<1>8. PICK f : Follows(f, n, S, EmptySpectrum, step)
  <2> HIDE DEF step
  <2> QED
    BY <1>1, <1>5, <1>7, Recursion
<1>9. f \in [0 .. n -> S] /\ f[0] = EmptySpectrum
  BY <1>8 DEF Follows
<1>10. ASSUME NEW k \in 1 .. n PROVE f[k] = Step(f[k - 1], k)
  <2>1. f[k] = step[k][f[k - 1]] /\ f[k - 1] \in S
    BY <1>1, <1>8 DEF Follows
  <2> HIDE DEF Step
  <2> QED
    BY <2>1
<1>11. \A k \in 0 .. n : Rebuilt(sp, f[k], k)
  <2> DEFINE T == {k \in 0 .. n : Rebuilt(sp, f[k], k)}
  <2>1. 0 \in T
    BY <1>1, <1>6, <1>9
  <2>2. ASSUME NEW k \in 1 .. n, k - 1 \in T PROVE k \in T
    <3>1. f[k - 1] \in S /\ Rebuilt(sp, f[k - 1], k - 1)
      BY <1>1, <1>9, <2>2
    <3>2. f[k] = Reenter(sp, f[k - 1], k - 1)
      BY <3>1, <1>10
    <3>3. Rebuilt(sp, f[k], k)
      BY <3>1, <3>2, <1>2, <1>3
    <3> QED
      BY <3>3
  <2> HIDE DEF T
  <2>3. \A k \in 0 .. n : k \in T
    BY <1>1, <2>1, <2>2, Induct
  <2> QED
    BY <2>3 DEF T
<1>12. Built(f)
  <2>1. ASSUME NEW k \in 1 .. n PROVE f[k] = Reenter(sp, f[k - 1], k - 1)
    <3>1. Rebuilt(sp, f[k - 1], k - 1)
      BY <1>1, <1>11
    <3> QED
      BY <3>1, <1>10
  <2> QED
    BY <1>1, <1>9, <2>1
<1> DEFINE c == CHOOSE g : Built(g)
<1>13. Built(c)
  BY <1>12
<1>14. reorganizeSpectrum(sp) = c[n]
  BY DEF reorganizeSpectrum, n
<1> HIDE DEF c
<1>15. c[0] = EmptySpectrum /\ \A k \in 1 .. n : c[k] = Reenter(sp, c[k - 1], k - 1)
  BY <1>1, <1>13
<1> HIDE DEF Built, Step
<1>16. EnergyAt(sp) \in [0 .. n - 1 -> Int] /\ \A i \in Entities : EnergyAt(sp)[i] = energy(sp, i)
  BY EnergyType DEF n, SoundSpectrum
<1>17. PICK s \in [0 .. n -> Int] :
          /\ Total(sp) = s[n]
          /\ s[0] = 0
          /\ \A k \in 1 .. n : s[k] = s[k - 1] + EnergyAt(sp)[k - 1]
  BY <1>1, <1>16, PartialSums DEF Total, n
<1> DEFINE T == {k \in 0 .. n : SoundSpectrum(c[k]) /\ Rebuilt(sp, c[k], k) /\ Total(c[k]) = s[k]}
<1>18. 0 \in T
  BY <1>1, <1>6, <1>15, <1>17, EmptyIsSound
<1>19. ASSUME NEW k \in 1 .. n, k - 1 \in T PROVE k \in T
  <2>1. /\ SoundSpectrum(c[k]) /\ Rebuilt(sp, c[k], k)
        /\ Total(c[k]) = Total(c[k - 1]) + energy(sp, k - 1)
    BY <1>3, <1>15, <1>19
  <2>2. k - 1 \in Entities
    BY <1>1
  <2>3. Total(c[k]) = s[k]
    BY <2>1, <2>2, <1>16, <1>17, <1>19
  <2> QED
    BY <2>1, <2>3
<1>20. n \in T
  <2> HIDE DEF T
  <2>1. \A k \in 0 .. n : k \in T
    BY <1>1, <1>18, <1>19, Induct
  <2> QED
    BY <1>1, <2>1
<1> QED
  BY <1>14, <1>17, <1>20 DEF n

\* The balance of an entity is that of its record, and 0 without one.
LEMMA BalanceIs ==
    ASSUME NEW sp, SoundSpectrum(sp), NEW key \in PublicKeys
    PROVE  /\ \A i \in Entities : sp[i].publicKey = key => Balance(sp, key) = energy(sp, i)
           /\ (\A i \in Entities : sp[i].publicKey # key) => Balance(sp, key) = 0
<1>1. key \in Keys /\ key # ZeroKey /\ -1 \notin Entities
  BY SpectrumFacts
<1>2. ASSUME NEW i \in Entities, sp[i].publicKey = key PROVE Balance(sp, key) = energy(sp, i)
  <2>1. spectrumIndex(sp, key) = i
    BY <1>1, <1>2, EntityIsFound
  <2> QED
    BY <1>1, <2>1 DEF Balance
<1>3. ASSUME \A i \in Entities : sp[i].publicKey # key PROVE Balance(sp, key) = 0
  BY <1>1, <1>3, IndexType DEF Balance
<1> QED
  BY <1>2, <1>3

\* Nobody's balance changes when the spectrum is rebuilt.
LEMMA ReorganizeKeepsBalances ==
    ASSUME NEW sp, SoundSpectrum(sp), NEW key \in PublicKeys
    PROVE  Balance(reorganizeSpectrum(sp), key) = Balance(sp, key)
<1> DEFINE new == reorganizeSpectrum(sp)
<1>1. SoundSpectrum(new) /\ Rebuilt(sp, new, SPECTRUM_CAPACITY)
  BY ReorganizeKeeps
<1> HIDE DEF new
<1>2. key # ZeroKey /\ \A i \in Entities : i < SPECTRUM_CAPACITY
  BY SpectrumFacts
<1>3. CASE \E x \in Entities : new[x].publicKey = key
  <2>1. PICK x \in Entities : new[x].publicKey = key
    BY <1>3
  <2>2. PICK i \in Entities : new[x] = sp[i]
    BY <1>1, <1>2, <2>1 DEF Rebuilt
  <2>3. Balance(new, key) = energy(new, x) /\ Balance(sp, key) = energy(sp, i)
    BY <1>1, <2>1, <2>2, BalanceIs
  <2> QED
    BY <2>2, <2>3 DEF energy, new
<1>4. CASE \A x \in Entities : new[x].publicKey # key
  <2>1. Balance(new, key) = 0
    BY <1>1, <1>4, BalanceIs
  <2>2. CASE \E i \in Entities : sp[i].publicKey = key
    <3>1. PICK i \in Entities : sp[i].publicKey = key
      BY <2>2
    <3>2. energy(sp, i) = 0
      BY <1>1, <1>2, <1>4, <3>1 DEF Rebuilt
    <3> QED
      BY <2>1, <3>1, <3>2, BalanceIs DEF new
  <2>3. CASE \A i \in Entities : sp[i].publicKey # key
    BY <2>1, <2>3, BalanceIs DEF new
  <2> QED
    BY <2>2, <2>3
<1> QED
  BY <1>3, <1>4

-------------------------------------------------------------------------------
(* The spectrum along a behaviour *)

SpectrumInv ==
    /\ tick \in Nat
    /\ SoundSpectrum(spectrum)
    /\ Total(spectrum) = supply

LEMMA InitSpectrum == Init => SpectrumInv
<1> SUFFICES ASSUME Init PROVE SpectrumInv
  OBVIOUS
<1> DEFINE n == Cardinality(PublicKeys)
           order == SetToSeq(PublicKeys)
           payments == [k \in 1 .. n |-> [destination |-> order[k], amount |-> 1]]
<1>1. n \in Nat
  BY SpectrumAssumption, FS_CardinalityType
<1>2. order \in [1 .. n -> PublicKeys]
  <2>1. \E f \in [1 .. n -> PublicKeys] : IsInjective(f)
    <3>1. ExistsBijection(1 .. n, PublicKeys)
      BY SpectrumAssumption, FS_CardinalityType
    <3> QED
      BY <3>1 DEF ExistsBijection, Bijection, Injection
  <2> QED
    BY <2>1 DEF SetToSeq
<1> HIDE DEF order
<1>3. payments \in Payments(n)
  BY <1>2 DEF Payments
<1>4. Len(payments) = n /\ AmountAt(payments) = [k \in 0 .. n - 1 |-> 1]
  BY <1>1 DEF AmountAt
<1>5. SumBelow([k \in 0 .. n - 1 |-> 1], n) = n
  <2> DEFINE ones == [k \in 0 .. n - 1 |-> 1]
  <2>1. ones \in [0 .. n - 1 -> Int] /\ \A k \in 0 .. n - 1 : ones[k] = 1
    OBVIOUS
  <2> HIDE DEF ones, n
  <2>2. PICK s \in [0 .. n -> Int] :
           /\ SumBelow(ones, n) = s[n]
           /\ s[0] = 0
           /\ \A k \in 1 .. n : s[k] = s[k - 1] + ones[k - 1]
    BY <1>1, <2>1, PartialSums
  <2> DEFINE T == {k \in 0 .. n : s[k] = k}
  <2>3. 0 \in T
    BY <1>1, <2>2
  <2>4. ASSUME NEW k \in 1 .. n, k - 1 \in T PROVE k \in T
    <3>1. ones[k - 1] = 1
      BY <1>1, <2>1
    <3> QED
      BY <1>1, <2>2, <2>4, <3>1
  <2>5. \A k \in 0 .. n : k \in T
    <3> HIDE DEF T
    <3> QED
      BY <1>1, <2>3, <2>4, Induct
  <2> QED
    BY <1>1, <2>2, <2>5 DEF ones
<1>6. spectrum = Credits(EmptySpectrum, payments, 1)
  BY DEF Init, order
<1> HIDE DEF payments
<1>7. SoundSpectrum(spectrum) /\ Total(spectrum) = 0 + SumBelow(AmountAt(payments), n)
  BY <1>1, <1>3, <1>6, EmptyIsSound, CreditsKeep
<1> QED
  BY <1>1, <1>4, <1>5, <1>7 DEF SpectrumInv, Init

LEMMA QuTransferKeeps ==
    ASSUME SpectrumInv, NEW source \in Keys, NEW destination \in Keys, NEW amount \in Amounts,
           QuTransfer(source, destination, amount)
    PROVE  SpectrumInv'
<1> DEFINE paid == Debit(spectrum, source, amount, tick)
<1>1. amount \in Nat /\ tick \in Int /\ tick' = tick /\ Total(spectrum) \in Int
  BY LedgerAssumption, TotalType
     DEF SpectrumInv, QuTransfer, SpectrumEvent, ReplayEvent, batchVars, SoundSpectrum
<1>2. /\ source = ZeroKey \/ Balance(spectrum, source) >= amount
      /\ spectrum' = increaseEnergy(paid, destination, amount, tick)
      /\ supply' = supply + (IF source = ZeroKey THEN amount ELSE 0)
                          - (IF destination = ZeroKey THEN amount ELSE 0)
  BY DEF QuTransfer, SpectrumEvent, processQuTransfer
<1>3. /\ SoundSpectrum(paid)
      /\ source = ZeroKey => paid = spectrum
      /\ source # ZeroKey => Total(paid) = Total(spectrum) - amount
  BY <1>1, <1>2, DebitKeeps DEF SpectrumInv
<1> HIDE DEF paid
<1>4. CASE destination = ZeroKey
  <2>1. spectrum' = paid
    BY <1>2, <1>4 DEF increaseEnergy
  <2> QED
    BY <1>1, <1>2, <1>3, <1>4, <2>1 DEF SpectrumInv
<1>5. CASE destination # ZeroKey
  <2>1. destination \in PublicKeys
    BY <1>5 DEF Keys
  <2>2. SoundSpectrum(spectrum') /\ Total(spectrum') = Total(paid) + amount
    BY <1>1, <1>2, <1>3, <2>1, IncreaseKeeps
  <2>3. Total(spectrum') = supply'
    <3>1. CASE source = ZeroKey
      BY <1>1, <1>2, <1>3, <1>5, <2>2, <3>1 DEF SpectrumInv
    <3>2. CASE source # ZeroKey
      BY <1>1, <1>2, <1>3, <1>5, <2>2, <3>2 DEF SpectrumInv
    <3> QED
      BY <3>1, <3>2
  <2> QED
    BY <1>1, <2>2, <2>3 DEF SpectrumInv
<1> QED
  BY <1>4, <1>5

LEMMA DistributeDividendsKeeps ==
    ASSUME SpectrumInv, NEW source \in PublicKeys, NEW amount \in Amounts,
           NEW d1 \in PublicKeys, NEW d2 \in PublicKeys,
           DistributeDividends(source, <<d1, d2>>, amount)
    PROVE  SpectrumInv'
<1> DEFINE payees == <<d1, d2>>
           payments == [k \in DOMAIN payees |-> [destination |-> payees[k], amount |-> amount]]
           total == SumBelow(AmountAt(payments), 2)
           paid == Debit(spectrum, source, total, tick)
<1>1. amount \in Nat /\ tick \in Int /\ tick' = tick /\ Total(spectrum) \in Int
  BY LedgerAssumption, TotalType
     DEF SpectrumInv, DistributeDividends, SpectrumEvent, ReplayEvent, batchVars, SoundSpectrum
<1>2. payments \in Payments(2) /\ Len(payments) = 2 /\ payments # << >>
  BY <1>1 DEF Payments
<1>3. total = 2 * amount
  <2>1. /\ AmountAt(payments) \in [0 .. 1 -> Int]
        /\ AmountAt(payments)[0] = amount /\ AmountAt(payments)[1] = amount
    BY <1>1 DEF AmountAt
  <2> HIDE DEF payments
  <2> DEFINE n == 2
  <2>20. n = 2 /\ n \in Nat /\ AmountAt(payments) \in [0 .. n - 1 -> Int]
    BY <2>1
  <2> HIDE DEF n
  <2>2. PICK s \in [0 .. n -> Int] :
           /\ SumBelow(AmountAt(payments), n) = s[n]
           /\ s[0] = 0
           /\ \A k \in 1 .. n : s[k] = s[k - 1] + AmountAt(payments)[k - 1]
    BY <2>20, PartialSums
  <2>3. s[1] = s[0] + AmountAt(payments)[0] /\ s[2] = s[1] + AmountAt(payments)[1]
    BY <2>2, <2>20
  <2> QED
    BY <1>1, <2>1, <2>2, <2>20, <2>3
<1>4. /\ Balance(spectrum, source) >= 2 * amount
      /\ spectrum' = processDistributeDividends(spectrum, source, payments, tick)
      /\ spectrumIndex(spectrum, source) # -1
      /\ supply' = supply
  BY DEF DistributeDividends, SpectrumEvent
<1>5. spectrum' = Credits(paid, payments, tick)
  BY <1>2, <1>4 DEF processDistributeDividends, AmountAt
<1>6. SoundSpectrum(paid) /\ Total(paid) = Total(spectrum) - 2 * amount
  <2>1. 2 * amount \in Nat /\ source \in Keys /\ source # ZeroKey
    BY <1>1, SpectrumFacts
  <2> HIDE DEF total
  <2> QED
    BY <1>1, <1>3, <1>4, <2>1, DebitKeeps DEF SpectrumInv
<1>7. SoundSpectrum(spectrum') /\ Total(spectrum') = Total(paid) + total
  <2> HIDE DEF paid, payments
  <2> QED
    BY <1>1, <1>2, <1>5, <1>6, CreditsKeep
<1> HIDE DEF paid, total
<1> QED
  BY <1>1, <1>3, <1>4, <1>6, <1>7 DEF SpectrumInv

LEMMA QuBurnKeeps ==
    ASSUME SpectrumInv, NEW source \in PublicKeys, NEW amount \in Amounts, QuBurn(source, amount)
    PROVE  SpectrumInv'
<1>1. amount \in Nat /\ tick \in Int /\ tick' = tick
  BY LedgerAssumption DEF SpectrumInv, QuBurn, SpectrumEvent, ReplayEvent, batchVars
<1>2. /\ Balance(spectrum, source) >= amount
      /\ spectrum' = Debit(spectrum, source, amount, tick)
      /\ supply' = supply - amount
  BY DEF QuBurn, SpectrumEvent, processQuBurn
<1>3. source \in Keys /\ source # ZeroKey
  BY SpectrumFacts
<1> QED
  BY <1>1, <1>2, <1>3, DebitKeeps DEF SpectrumInv

LEMMA SpectrumStep == SpectrumInv /\ [Next]_vars => SpectrumInv'
<1> SUFFICES ASSUME SpectrumInv, [Next]_vars PROVE SpectrumInv'
  OBVIOUS
<1>0. ASSUME spectrum' = spectrum, supply' = supply, tick' \in Nat PROVE SpectrumInv'
  BY <1>0 DEF SpectrumInv
<1>01. tick \in Nat /\ tick + 1 \in Nat
  BY DEF SpectrumInv
<1>1. CASE LoadFiles
  BY <1>0, <1>01, <1>1 DEF LoadFiles
<1>2. CASE \E s, d \in Keys, a \in Amounts : QuTransfer(s, d, a)
  BY <1>2, QuTransferKeeps
<1>3. CASE \E s, d1, d2 \in PublicKeys, a \in Amounts : DistributeDividends(s, <<d1, d2>>, a)
  BY <1>3, DistributeDividendsKeeps
<1>4. CASE \E s \in PublicKeys, a \in Amounts : QuBurn(s, a)
  BY <1>4, QuBurnKeeps
<1>5. ASSUME NEW result, AssetEvent(result) PROVE SpectrumInv'
  BY <1>0, <1>01, <1>5 DEF AssetEvent, ReplayEvent, batchVars, spectrumVars
<1>6. CASE \E i \in Keys, n \in Names, a \in Amounts, c \in Contracts : IssueAsset(i, n, a, c)
  BY <1>5, <1>6 DEF IssueAsset
<1>7. CASE \E i, s, d \in Keys, n \in Names, a \in Amounts, c \in Contracts :
              ChangeOwnershipAndPossession(i, n, s, a, c, d)
  BY <1>5, <1>7 DEF ChangeOwnershipAndPossession
<1>8. CASE \E i, o \in Keys, n \in Names, a \in Amounts, c, e \in Contracts :
              ChangeManagingContract(i, n, o, a, c, e)
  BY <1>5, <1>8 DEF ChangeManagingContract
<1>9. CASE NextTick
  BY <1>0, <1>01, <1>9 DEF NextTick, spectrumVars
<1>10. CASE VerifyNodeStateDigest
  BY <1>0, <1>01, <1>10 DEF VerifyNodeStateDigest
<1>11. CASE EndEpoch
  <2>1. spectrum' = reorganizeSpectrum(spectrum) /\ supply' = supply /\ tick' = tick + 1
    BY <1>11 DEF EndEpoch
  <2> QED
    BY <1>01, <2>1, ReorganizeKeeps DEF SpectrumInv
<1>12. CASE UNCHANGED vars
  BY <1>0, <1>01, <1>12 DEF vars, spectrumVars, batchVars
<1> QED
  BY <1>1, <1>2, <1>3, <1>4, <1>6, <1>7, <1>8, <1>9, <1>10, <1>11, <1>12 DEF Next

\* The spectrum is sound in every reachable state.
THEOREM SpectrumInvariance == Spec => []SpectrumInv
BY InitSpectrum, SpectrumStep, PTL DEF Spec

\* spectrumIndex finds every record, whatever was credited, debited and rebuilt: no
\* probe chain is ever broken and no entity is stored twice.
THEOREM EntitiesCorrect == Spec => []EntitiesAreFound
<1>1. SpectrumInv => EntitiesAreFound
  BY EntityIsFound DEF SpectrumInv, EntitiesAreFound
<1> QED
  BY <1>1, SpectrumInvariance, PTL

\* The balances always add up to what was issued and not burnt.
THEOREM SupplyCorrect == Spec => []SupplyIsConserved
<1>1. SpectrumInv => SupplyIsConserved
  BY DEF SpectrumInv, SupplyIsConserved, Total, EnergyAt
<1> QED
  BY <1>1, SpectrumInvariance, PTL

===============================================================================
