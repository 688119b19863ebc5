------------------------------ MODULE DigestTree ------------------------------
(***************************************************************************)
(* The digest pyramid over a table of records that computeSpectrumDigest   *)
(* and getUniverseDigest keep up to date: digests 0 .. capacity - 1 are    *)
(* those of the records, the levels follow, the root is last.  One bit per *)
(* record says that its digest changed; while a level is computed the same *)
(* bits are reused, in place, for the level above it.                      *)
(*                                                                         *)
(* A digest is modelled by what it is computed from (no collisions): the   *)
(* digest of a record is the record, that of two digests is their pair.    *)
(***************************************************************************)
EXTENDS Naturals, SequencesExt

\* The number of levels above the records of a table of size capacity = 2^n.
Levels(capacity) == CHOOSE n \in 0 .. capacity : 2 ^ n = capacity

DigestIndices(capacity) == 0 .. (2 * capacity - 2)

\* No digest was computed yet (zero-initialised memory).
NoDigest == <<>>

\* The digest of two digests.
KangarooTwelve64To32(left, right) == <<left, right>>

\* One iteration of the inner loop: the node above positions i and i + 1 of
\* the level that starts at t.previousLevelBeginning.
UpdateNode(t, i) ==
    LET begin == t.previousLevelBeginning
        changed == {i, i + 1} \cap t.changeFlags # {}
    IN  [t EXCEPT
            !.digests = IF changed
                        THEN [@ EXCEPT ![t.digestIndex] =
                                KangarooTwelve64To32(t.digests[begin + i],
                                                     t.digests[begin + i + 1])]
                        ELSE @,
            !.changeFlags = IF changed THEN (@ \ {i, i + 1}) \cup {i \div 2} ELSE @,
            !.digestIndex = @ + 1]

\* One iteration of the outer loop.
UpdateLevel(t) ==
    LET evens == [k \in 1 .. (t.numberOfLeafs \div 2) |-> 2 * (k - 1)]
        done == FoldLeft(UpdateNode, t, evens)
    IN  [done EXCEPT !.previousLevelBeginning = @ + t.numberOfLeafs,
                     !.numberOfLeafs = @ \div 2]

\* Both loops.  The first word of the flags is cleared at the end.
UpdateTree(digests, changeFlags, capacity) ==
    LET start == [digests |-> digests, changeFlags |-> changeFlags,
                  previousLevelBeginning |-> 0, numberOfLeafs |-> capacity,
                  digestIndex |-> capacity]
        passes == [k \in 1 .. Levels(capacity) |-> k]
        done == FoldLeft(LAMBDA t, k : UpdateLevel(t), start, passes)
    IN  [digests |-> done.digests, changeFlags |-> done.changeFlags \ (0 .. 63)]

\* The digests after those of the given records were recomputed.
WithLeaves(digests, records, leaves) ==
    [i \in DOMAIN digests |-> IF i \in leaves THEN records[i] ELSE digests[i]]

Root(digests, capacity) == digests[2 * capacity - 2]

\* Reference: the root of the pyramid over the given records, from nothing.
TreeOf(records, capacity) ==
    LET node[level \in 0 .. Levels(capacity), pos \in 0 .. (capacity - 1)] ==
            IF level = 0 THEN records[pos]
            ELSE <<node[level - 1, 2 * pos], node[level - 1, 2 * pos + 1]>>
    IN  node[Levels(capacity), 0]
===============================================================================
