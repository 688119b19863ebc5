---------------------------- MODULE MCTickQuorum ----------------------------
(* Instances of TickQuorum: two ticks, four computors (226 and 451 of 676    *)
(* become 2 and 3 of 4), one transaction per tick data.                     *)
EXTENDS TickQuorum, TLC

CONSTANTS c1, c2, c3, c4, a1, b1, a2, x1, x2, y1

MCTickOf == [d \in Digests |-> IF d = a2 THEN 2 ELSE 1]
MCTxTick == [x \in Transactions |-> IF x = x2 THEN 2 ELSE 1]
MCTxsOf ==
    [d \in Digests |->
        Transactions \cap (CASE d = a1 -> {x1} [] d = b1 -> {y1} [] d = a2 -> {x2})]

\* Computors may vote for any tick data of the tick or for none, and may sign
\* several votes.
AnyVotes ==
    {[tick |-> t, computor |-> c, digest |-> d] :
        t \in Ticks, c \in Computors, d \in Digests \cup {Zero}}
OwnTick(v) == v.digest = Zero \/ MCTickOf[v.digest] = v.tick
MCVotes == {v \in AnyVotes : OwnTick(v)}

\* All computors agree on a1 and a2.
AgreedVotes == {v \in MCVotes : v.digest \in {a1, a2}}

Symmetry == Permutations(Computors)
=============================================================================
