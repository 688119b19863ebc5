-------------------------- MODULE TickQuorumProofs --------------------------
(***************************************************************************)
(* Proofs about TickQuorum, for every set of computors, every number of    *)
(* ticks and restarts and every choice of votes and tick datas.            *)
(*                                                                         *)
(* The argument: what is cached or concluded anywhere (in the verify       *)
(* thread, in a history of an earlier life of the process) is backed by    *)
(* votes that are still in the DB, since the DB keeps the first vote of    *)
(* each computor; and two different conclusions would need more votes than *)
(* there are computors.  For the filter of the data processors (last       *)
(* section): what it drops was decided before, and the tick data of a      *)
(* decision is neither overwritten nor deleted.                            *)
(***************************************************************************)
EXTENDS TickQuorum, FiniteSetTheorems, TLAPS

-----------------------------------------------------------------------------
(* The inductive invariant *)

\* The cached votes are votes of the DB for the tick being fetched.
CacheInv ==
    \A c \in Computors : votes[c] # None =>
        /\ gCurrentFetchingTick \in Ticks
        /\ votes[c] = tick_vote[gCurrentFetchingTick][c]

\* A digest with enough votes in the DB.
Backed(t, d) == Count(tick_vote[t], d) >= Threshold(d)

\* What the verify thread knows at each of its steps.
ThreadInv ==
    /\ pc # "votes" =>
          /\ gCurrentFetchingTick \in Ticks
          /\ maxDigest # None
          /\ Backed(gCurrentFetchingTick, maxDigest)
    /\ pc \in {"tickdata", "txs"} => maxDigest \in Digests
    /\ pc = "txs" => td = maxDigest
    /\ pc \in {"advance", "readback"} /\ maxDigest \in Digests =>
          TxsOf[maxDigest] \subseteq transaction
    /\ pc = "readback" => decided[gCurrentFetchingTick] = maxDigest

DecidedInv ==
    \A t \in Ticks : decided[t] # None => Backed(t, decided[t])

\* The voters of a tick that did not vote for an empty tick.
NonEmptyVoters(t) == {c \in Computors : tick_vote[t][c] \notin {Zero, None}}

VerdictInv ==
    \A t \in Ticks :
        /\ verdict[t] = "empty" => Count(tick_vote[t], Zero) >= EmptyQuorum
        /\ verdict[t] = "nonempty" => Cardinality(NonEmptyVoters(t)) >= Quorum

LatestInv == latest_tick <= gCurrentFetchingTick

IInv ==
    /\ TypeOK
    /\ CacheInv
    /\ ThreadInv
    /\ DecidedInv
    /\ VerdictInv
    /\ LatestInv
    /\ FetchedTickIsComplete

-----------------------------------------------------------------------------
(* Counting *)

\* A larger set of voters has at least as many votes.
LEMMA CardMono ==
    ASSUME NEW T \in SUBSET Computors, NEW S \in SUBSET T
    PROVE  /\ Cardinality(S) \in Nat
           /\ Cardinality(T) \in Nat
           /\ Cardinality(S) <= Cardinality(T)
<1>1. IsFiniteSet(T)
  BY FS_Subset, QuorumAssumption
<1>2. IsFiniteSet(S) /\ Cardinality(S) <= Cardinality(T)
  BY <1>1, FS_Subset
<1> QED
  BY <1>1, <1>2, FS_CardinalityType

\* Disjoint sets of voters cannot have more votes than there are computors.
LEMMA DisjointVoters ==
    ASSUME NEW S \in SUBSET Computors, NEW T \in SUBSET Computors,
           S \cap T = {}
    PROVE  Cardinality(S) + Cardinality(T) <= Cardinality(Computors)
<1>1. IsFiniteSet(S) /\ IsFiniteSet(T)
  BY FS_Subset, QuorumAssumption
<1>2. Cardinality(S \cup T) = Cardinality(S) + Cardinality(T) - Cardinality({})
  BY <1>1, FS_Union
<1>3. Cardinality({}) = 0
  BY FS_EmptySet
<1>4. Cardinality(S \cup T) <= Cardinality(Computors)
  BY CardMono
<1>5. Cardinality(S) \in Nat /\ Cardinality(T) \in Nat
  BY CardMono
<1> QED
  BY <1>2, <1>3, <1>4, <1>5

\* Of the digests a set of votes can hold, at most one reaches its threshold:
\* 226 + 451 and 451 + 451 both exceed 676.
LEMMA OneDigest ==
    ASSUME NEW vs, NEW d \in Digests \cup {Zero}, NEW e \in Digests \cup {Zero},
           Count(vs, d) >= Threshold(d), Count(vs, e) >= Threshold(e)
    PROVE  d = e
<1> SUFFICES ASSUME d # e PROVE FALSE
  OBVIOUS
<1> DEFINE D == {c \in Computors : vs[c] = d}
           E == {c \in Computors : vs[c] = e}
<1>1. D \cap E = {}
  OBVIOUS
<1>2. Cardinality(D) + Cardinality(E) <= Cardinality(Computors)
  BY <1>1, DisjointVoters
<1>3. Cardinality(D) \in Nat /\ Cardinality(E) \in Nat /\ Cardinality(Computors) \in Nat
  BY CardMono
<1>4. Cardinality(D) >= Threshold(d) /\ Cardinality(E) >= Threshold(e)
  BY DEF Count
<1>5. Threshold(d) + Threshold(e) > Cardinality(Computors)
  BY <1>3, QuorumAssumption DEF Threshold
<1>6. Threshold(d) \in Nat /\ Threshold(e) \in Nat
  BY QuorumAssumption DEF Threshold
<1> HIDE DEF D, E
<1> QED
  BY <1>2, <1>3, <1>4, <1>5, <1>6

\* Votes are only added: a digest keeps its votes when the new table agrees
\* with the old one wherever that had a vote.
LEMMA CountMono ==
    ASSUME NEW vs, NEW ws, NEW d, d # None,
           \A c \in Computors : vs[c] # None => ws[c] = vs[c]
    PROVE  Count(vs, d) <= Count(ws, d) /\ Count(vs, d) \in Nat /\ Count(ws, d) \in Nat
<1>1. {c \in Computors : vs[c] = d} \subseteq {c \in Computors : ws[c] = d}
  OBVIOUS
<1> QED
  BY <1>1, CardMono DEF Count

-----------------------------------------------------------------------------
(* The votes in the DB only grow *)

\* Every step keeps every vote that is already stored.
VotesKept ==
    \A t \in Ticks : \A c \in Computors :
        tick_vote[t][c] # None => tick_vote'[t][c] = tick_vote[t][c]

LEMMA VotesAreKept ==
    ASSUME TypeOK, [Next]_vars
    PROVE  VotesKept
<1>1. CASE UNCHANGED tick_vote
  BY <1>1 DEF VotesKept
<1>2. ASSUME NEW v \in Votes, processTickVote(v)
      PROVE  VotesKept
  <2>1. v.tick \in Ticks /\ v.computor \in Computors
    BY DataAssumption
  <2> QED
    BY <1>2, <2>1 DEF VotesKept, processTickVote, db_insert_tick_vote, TypeOK
<1>3. UNCHANGED tick_vote \/ \E v \in Votes : processTickVote(v)
  BY DEF Next, vars, db, processTickVote, processTickData, processTransaction,
         FetchVotes, IOVerifyStep, LoadTickData, DeleteTickData,
         CheckTransactions, UpdateLatestTick, AdvanceFetchingTick,
         LoadSnapshot, VerifyBatch, IndexTick, Restart
<1> QED
  BY <1>1, <1>2, <1>3

\* Hence what was backed by votes stays so.
LEMMA BackedIsStable ==
    ASSUME VotesKept, NEW t \in Ticks, NEW d \in Digests \cup {Zero}, Backed(t, d)
    PROVE  Backed(t, d)'
<1>1. d # None
  BY DataAssumption DEF Zero, None
<1>2. Count(tick_vote[t], d) <= Count(tick_vote'[t], d)
      /\ Count(tick_vote[t], d) \in Nat /\ Count(tick_vote'[t], d) \in Nat
  <2>1. \A c \in Computors : tick_vote[t][c] # None => tick_vote'[t][c] = tick_vote[t][c]
    BY DEF VotesKept
  <2> QED
    BY <1>1, <2>1, CountMono
<1>3. Threshold(d) \in Nat
  BY QuorumAssumption DEF Threshold
<1> QED
  BY <1>2, <1>3 DEF Backed, Threshold

-----------------------------------------------------------------------------
(* Type correctness *)

LEMMA ConsensusType ==
    ASSUME NEW vs, NEW d \in Consensus(vs)
    PROVE  d \in Digests \cup {Zero} /\ Count(vs, d) >= Threshold(d)
<1>1. \A e \in Reached(vs) : e \in Digests \cup {Zero} /\ Count(vs, e) >= Threshold(e)
  BY DEF Reached
<1>2. d \in Reached(vs)
  BY DEF Consensus
<1> QED
  BY <1>1, <1>2

LEMMA TypePreserved ==
    ASSUME TypeOK, ThreadInv, [Next]_vars
    PROVE  TypeOK'
<1> USE TickAssumption, DataAssumption DEF Ticks
<1>1. ASSUME NEW v \in Votes, processTickVote(v) PROVE TypeOK'
  <2>1. v.tick \in Ticks /\ v.computor \in Computors /\ v.digest \in Digests \cup {Zero}
    OBVIOUS
  <2>2. tick_vote' \in [Ticks -> [Computors -> Digests \cup {Zero, None}]]
    BY <1>1, <2>1 DEF processTickVote, db_insert_tick_vote, TypeOK
  <2> QED
    BY <1>1, <2>2 DEF processTickVote, ioVerify, logVerify, indexer, TypeOK
<1>2. ASSUME NEW d \in Digests, processTickData(d) PROVE TypeOK'
  BY <1>2 DEF processTickData, ioVerify, logVerify, indexer, TypeOK
<1>3. ASSUME NEW x \in Transactions, processTransaction(x) PROVE TypeOK'
  BY <1>3 DEF processTransaction, ioVerify, logVerify, indexer, TypeOK
<1>4. ASSUME NEW S \in SUBSET StoredVotes, FetchVotes(S) PROVE TypeOK'
  <2>1. gCurrentFetchingTick \in Ticks
    BY <1>4 DEF FetchVotes, TypeOK
  <2>2. votes' \in [Computors -> Digests \cup {Zero, None}]
    BY <1>4, <2>1 DEF FetchVotes, TypeOK
  <2>3. pc' \in {"votes", "tickdata", "advance"} /\ maxDigest' \in Digests \cup {Zero, None}
    BY <1>4, ConsensusType DEF FetchVotes, TypeOK
  <2> QED
    BY <1>4, <2>2, <2>3 DEF FetchVotes, db, logVerify, indexer, TypeOK
<1>5. CASE LoadTickData
  <2>1. td' \in Digests \cup {None}
    BY <1>5 DEF LoadTickData, ThreadInv, TypeOK
  <2>2. pc' \in {"votes", "delete", "txs"}
    BY <1>5 DEF LoadTickData
  <2> QED
    BY <1>5, <2>1, <2>2 DEF LoadTickData, db, logVerify, indexer, TypeOK
<1>6. CASE DeleteTickData
  BY <1>6 DEF DeleteTickData, logVerify, indexer, TypeOK
<1>7. CASE CheckTransactions
  BY <1>7 DEF CheckTransactions, db, logVerify, indexer, TypeOK
<1>8. CASE UpdateLatestTick
  BY <1>8 DEF UpdateLatestTick, ThreadInv, logVerify, indexer, TypeOK
<1>9. CASE AdvanceFetchingTick
  <2>1. gCurrentFetchingTick' \in gInitialTick .. (MaxTick + 1)
    BY <1>9 DEF AdvanceFetchingTick, ThreadInv, TypeOK
  <2>2. votes' \in [Computors -> Digests \cup {Zero, None}]
    BY <1>9 DEF AdvanceFetchingTick, NoVotes, TypeOK
  <2> QED
    BY <1>9, <2>1, <2>2 DEF AdvanceFetchingTick, db, logVerify, indexer, TypeOK
<1>10. CASE LoadSnapshot
  BY <1>10 DEF LoadSnapshot, db, ioVerify, indexer, TypeOK
<1>11. ASSUME NEW to \in Ticks, VerifyBatch(to) PROVE TypeOK'
  <2>1. HasTickData(to) \in {"empty", "nonempty", None}
    BY DEF HasTickData
  <2>2. verdict' \in [Ticks -> {"empty", "nonempty", None}]
    BY <1>11, <2>1 DEF VerifyBatch, TypeOK
  <2>3. /\ gCurrentVerifyLoggingTick' \in {0} \cup gInitialTick .. (MaxTick + 1)
        /\ latest_verified_tick' \in (gInitialTick - 1) .. MaxTick
    BY <1>11 DEF VerifyBatch, TypeOK
  <2> QED
    BY <1>11, <2>2, <2>3 DEF VerifyBatch, db, ioVerify, indexer, TypeOK
<1>12. CASE IndexTick
  <2>1. /\ last_indexed_tick + 1 \in Ticks
        /\ last_indexed_tick' = last_indexed_tick + 1
    BY <1>12 DEF IndexTick, TypeOK
  <2>2. indexed' \in [Ticks -> Digests \cup {Zero, None}]
    BY <1>12, <2>1 DEF IndexTick, TypeOK
  <2> QED
    BY <1>12, <2>1, <2>2 DEF IndexTick, db, ioVerify, logVerify, TypeOK
<1>13. CASE Restart
  <2>1. gCurrentFetchingTick' \in gInitialTick .. (MaxTick + 1)
    BY <1>13 DEF Restart, TypeOK
  <2>2. restarts' \in 0 .. MaxRestarts
    BY <1>13 DEF Restart, TypeOK
  <2> QED
    BY <1>13, <2>1, <2>2 DEF Restart, NoVotes, db, indexer, TypeOK
<1>14. CASE UNCHANGED vars
  BY <1>14 DEF vars, db, ioVerify, logVerify, indexer, TypeOK
<1> QED
  BY <1>1, <1>2, <1>3, <1>4, <1>5, <1>6, <1>7, <1>8, <1>9, <1>10, <1>11,
     <1>12, <1>13, <1>14 DEF Next, IOVerifyStep

-----------------------------------------------------------------------------
(* The other conjuncts are preserved *)

LEMMA CachePreserved ==
    ASSUME IInv, [Next]_vars
    PROVE  CacheInv'
<1> USE TickAssumption DEF Ticks
<1>0. TypeOK /\ CacheInv /\ VotesKept
  BY VotesAreKept DEF IInv
<1>1. CASE UNCHANGED <<votes, gCurrentFetchingTick>>
  BY <1>0, <1>1 DEF CacheInv, VotesKept
<1>2. ASSUME NEW S \in SUBSET StoredVotes, FetchVotes(S) PROVE CacheInv'
  <2>1. gCurrentFetchingTick \in Ticks
    BY <1>0, <1>2 DEF FetchVotes, TypeOK
  <2>2. UNCHANGED <<tick_vote, gCurrentFetchingTick>>
    BY <1>2 DEF FetchVotes, db
  <2>3. \A c \in Computors : votes'[c] = tick_vote[gCurrentFetchingTick][c] \/ votes'[c] = votes[c]
    BY <1>2 DEF FetchVotes
  <2> QED
    BY <1>0, <2>1, <2>2, <2>3 DEF CacheInv
<1>3. CASE votes' = NoVotes
  BY <1>3 DEF CacheInv, NoVotes
<1>4. \/ UNCHANGED <<votes, gCurrentFetchingTick>>
      \/ \E S \in SUBSET StoredVotes : FetchVotes(S)
      \/ votes' = NoVotes
  BY IInv DEF Next, vars, db, processTickVote, processTickData, processTransaction,
         IOVerifyStep, LoadTickData, DeleteTickData, ioVerify,
         CheckTransactions, UpdateLatestTick, AdvanceFetchingTick,
         LoadSnapshot, VerifyBatch, IndexTick, Restart
<1> QED
  BY <1>1, <1>2, <1>3, <1>4

LEMMA ThreadPreserved ==
    ASSUME IInv, [Next]_vars
    PROVE  ThreadInv'
<1> USE TickAssumption, DataAssumption
<1>0. TypeOK /\ CacheInv /\ ThreadInv /\ VotesKept
  BY VotesAreKept DEF IInv
<1>1. ASSUME UNCHANGED <<pc, maxDigest, gCurrentFetchingTick, td, decided>>,
             transaction \subseteq transaction'
      PROVE  ThreadInv'
  <2>1. ASSUME pc' # "votes"
        PROVE  Backed(gCurrentFetchingTick, maxDigest)'
    <3>1. /\ gCurrentFetchingTick \in Ticks
          /\ maxDigest \in Digests \cup {Zero}
          /\ Backed(gCurrentFetchingTick, maxDigest)
      BY <1>0, <1>1, <2>1 DEF ThreadInv, TypeOK
    <3>2. \A t \in Ticks : \A d \in Digests \cup {Zero} : Backed(t, d) => Backed(t, d)'
      BY <1>0, BackedIsStable
    <3> QED
      BY <1>1, <3>1, <3>2 DEF Backed, Count, Threshold
  <2> QED
    BY <1>0, <1>1, <2>1 DEF ThreadInv
<1>2. ASSUME NEW S \in SUBSET StoredVotes, FetchVotes(S) PROVE ThreadInv'
  <2>1. gCurrentFetchingTick \in Ticks
    BY <1>0, <1>2 DEF FetchVotes, TypeOK, Ticks
  <2>2. UNCHANGED <<tick_vote, gCurrentFetchingTick, transaction, decided>>
    BY <1>2 DEF FetchVotes, db
  <2>3. CASE UNCHANGED <<pc, maxDigest>>
    BY <1>2, <2>3 DEF FetchVotes, ThreadInv
  <2>4. ASSUME NEW d \in Consensus(votes'),
               maxDigest' = d, pc' = IF d = Zero THEN "advance" ELSE "tickdata"
        PROVE  ThreadInv'
    <3>1. d \in Digests \cup {Zero} /\ Count(votes', d) >= Threshold(d)
      BY ConsensusType
    <3>2. d # None
      BY <3>1 DEF Zero, None
    <3>3. \A c \in Computors : votes'[c] # None =>
              tick_vote[gCurrentFetchingTick][c] = votes'[c]
      BY CachePreserved, <2>2 DEF CacheInv
    <3>4. /\ Count(votes', d) <= Count(tick_vote[gCurrentFetchingTick], d)
          /\ Count(votes', d) \in Nat
          /\ Count(tick_vote[gCurrentFetchingTick], d) \in Nat
      BY <3>2, <3>3, CountMono
    <3>5. Threshold(d) \in Nat
      BY QuorumAssumption DEF Threshold
    <3>6. Count(tick_vote[gCurrentFetchingTick], d) >= Threshold(d)
      BY <3>1, <3>4, <3>5
    <3>7. Backed(gCurrentFetchingTick, maxDigest)'
      BY <3>6, <2>2, <2>4 DEF Backed, Count, Threshold
    <3> QED
      BY <2>1, <2>2, <2>4, <3>1, <3>2, <3>7 DEF ThreadInv, Zero
  <2> QED
    BY <1>2, <2>3, <2>4 DEF FetchVotes
<1> DEFINE Same == UNCHANGED <<tick_vote, maxDigest, gCurrentFetchingTick, transaction>>
<1>3. ASSUME Same, pc # "votes"
      PROVE  /\ gCurrentFetchingTick' \in Ticks
             /\ maxDigest' # None
             /\ Backed(gCurrentFetchingTick, maxDigest)'
  BY <1>0, <1>3 DEF ThreadInv, Backed, Count, Threshold
<1>4. CASE LoadTickData
  <2>1. Same /\ pc = "tickdata" /\ pc' \in {"votes", "delete", "txs"}
    BY <1>4 DEF LoadTickData, db
  <2>2. pc' = "txs" => td' = maxDigest'
    BY <1>4 DEF LoadTickData
  <2> QED
    BY <1>0, <1>3, <2>1, <2>2 DEF ThreadInv
<1>5. CASE DeleteTickData
  BY <1>5 DEF DeleteTickData, ThreadInv
<1>6. CASE CheckTransactions
  <2>1. Same /\ pc = "txs" /\ pc' \in {"votes", "advance"}
    BY <1>6 DEF CheckTransactions, db
  <2>2. pc' = "advance" => TxsOf[maxDigest'] \subseteq transaction'
    BY <1>0, <1>6, <2>1 DEF CheckTransactions, ThreadInv
  <2> QED
    BY <1>0, <1>3, <2>1, <2>2 DEF ThreadInv
<1>7. CASE UpdateLatestTick
  <2>1. Same /\ pc = "advance" /\ pc' = "readback"
    BY <1>7 DEF UpdateLatestTick
  <2>2. decided'[gCurrentFetchingTick] = maxDigest
    BY <1>0, <1>7, <2>1 DEF UpdateLatestTick, ThreadInv, TypeOK
  <2> QED
    BY <1>0, <1>3, <2>1, <2>2 DEF ThreadInv
<1>8. CASE AdvanceFetchingTick \/ Restart
  BY <1>8 DEF AdvanceFetchingTick, Restart, ThreadInv
<1>9. \/ /\ UNCHANGED <<pc, maxDigest, gCurrentFetchingTick, td, decided>>
         /\ transaction \subseteq transaction'
      \/ \E S \in SUBSET StoredVotes : FetchVotes(S)
      \/ LoadTickData \/ DeleteTickData \/ CheckTransactions
      \/ UpdateLatestTick \/ AdvanceFetchingTick \/ Restart
  BY DEF Next, vars, db, processTickVote, processTickData, processTransaction,
         IOVerifyStep, ioVerify, LoadSnapshot, VerifyBatch, IndexTick
<1> QED
  BY <1>1, <1>2, <1>4, <1>5, <1>6, <1>7, <1>8, <1>9

\* Besides UpdateLatestTick, no step touches the decisions.
LEMMA DecidedFrame ==
    ASSUME [Next]_vars
    PROVE  UNCHANGED decided \/ UpdateLatestTick
BY DEF Next, vars, db, processTickVote, processTickData, processTransaction,
       FetchVotes, IOVerifyStep, LoadTickData, DeleteTickData, ioVerify,
       CheckTransactions, AdvanceFetchingTick,
       LoadSnapshot, VerifyBatch, IndexTick, Restart

LEMMA DecidedPreserved ==
    ASSUME IInv, [Next]_vars
    PROVE  DecidedInv'
<1>0. TypeOK /\ ThreadInv /\ DecidedInv /\ VotesKept
  BY VotesAreKept DEF IInv
<1>1. ASSUME NEW t \in Ticks, decided'[t] # None
      PROVE  Backed(t, decided'[t])
  <2>1. CASE decided'[t] = decided[t]
    BY <1>0, <1>1, <2>1 DEF DecidedInv
  <2>2. CASE UpdateLatestTick
    <3>1. t # gCurrentFetchingTick => decided'[t] = decided[t]
      BY <1>0, <2>2 DEF UpdateLatestTick, TypeOK
    <3>2. t = gCurrentFetchingTick => decided'[t] = maxDigest
      BY <1>0, <2>2 DEF UpdateLatestTick, TypeOK
    <3>3. Backed(gCurrentFetchingTick, maxDigest)
      BY <1>0, <2>2 DEF UpdateLatestTick, ThreadInv
    <3> QED
      BY <2>1, <3>1, <3>2, <3>3
  <2> QED
    BY <2>1, <2>2, DecidedFrame
<1>2. \A t \in Ticks : decided'[t] \in Digests \cup {Zero, None}
  BY TypePreserved DEF IInv, TypeOK
<1>3. \A t \in Ticks : \A d \in Digests \cup {Zero} : Backed(t, d) => Backed(t, d)'
  BY <1>0, BackedIsStable
<1> QED
  BY <1>1, <1>2, <1>3 DEF DecidedInv, Backed, Count, Threshold

LEMMA VerdictPreserved ==
    ASSUME IInv, [Next]_vars
    PROVE  VerdictInv'
<1>0. TypeOK /\ VerdictInv /\ VotesKept
  BY VotesAreKept DEF IInv
<1>1. ASSUME NEW t \in Ticks
      PROVE  /\ Count(tick_vote[t], Zero) <= Count(tick_vote'[t], Zero)
             /\ Count(tick_vote[t], Zero) \in Nat
             /\ Count(tick_vote'[t], Zero) \in Nat
  <2>1. \A c \in Computors : tick_vote[t][c] # None => tick_vote'[t][c] = tick_vote[t][c]
    BY <1>0 DEF VotesKept
  <2>2. Zero # None
    BY DEF Zero, None
  <2> QED
    BY <2>1, <2>2, CountMono
<1>2. ASSUME NEW t \in Ticks
      PROVE  /\ Cardinality(NonEmptyVoters(t)) <= Cardinality(NonEmptyVoters(t)')
             /\ Cardinality(NonEmptyVoters(t)) \in Nat
             /\ Cardinality(NonEmptyVoters(t)') \in Nat
  <2>1. NonEmptyVoters(t) \subseteq NonEmptyVoters(t)'
    BY <1>0 DEF VotesKept, NonEmptyVoters
  <2>2. NonEmptyVoters(t)' \subseteq Computors
    BY DEF NonEmptyVoters
  <2> QED
    BY <2>1, <2>2, CardMono
<1>3. EmptyQuorum \in Nat /\ Quorum \in Nat
  BY QuorumAssumption
<1>4. ASSUME NEW t \in Ticks
      PROVE  /\ verdict'[t] = "empty" => Count(tick_vote[t], Zero) >= EmptyQuorum
             /\ verdict'[t] = "nonempty" => Cardinality(NonEmptyVoters(t)) >= Quorum
  <2>1. CASE verdict'[t] = verdict[t]
    BY <1>0, <2>1 DEF VerdictInv
  <2>2. ASSUME NEW to \in Ticks, VerifyBatch(to), verdict'[t] # verdict[t]
        PROVE  verdict'[t] = HasTickData(t)
    BY <1>0, <2>2 DEF VerifyBatch, TypeOK
  <2>3. CASE verdict'[t] = HasTickData(t)
    BY <2>3 DEF HasTickData, NonEmptyVoters, None
  <2>4. UNCHANGED verdict \/ \E to \in Ticks : VerifyBatch(to)
    BY DEF Next, vars, db, processTickVote, processTickData, processTransaction,
         FetchVotes, IOVerifyStep, LoadTickData, DeleteTickData, logVerify,
         CheckTransactions, UpdateLatestTick, AdvanceFetchingTick,
         LoadSnapshot, IndexTick, Restart
  <2> QED
    BY <2>1, <2>2, <2>3, <2>4
<1>5. ASSUME NEW t \in Ticks
      PROVE  /\ verdict'[t] = "empty" => Count(tick_vote'[t], Zero) >= EmptyQuorum
             /\ verdict'[t] = "nonempty" => Cardinality(NonEmptyVoters(t)') >= Quorum
  BY <1>1, <1>2, <1>3, <1>4
<1> QED
  BY <1>5 DEF VerdictInv, Count

LEMMA CompletePreserved ==
    ASSUME IInv, [Next]_vars
    PROVE  LatestInv' /\ FetchedTickIsComplete'
<1> USE TickAssumption, DataAssumption DEF Ticks
<1>0. TypeOK /\ ThreadInv /\ LatestInv /\ FetchedTickIsComplete
  BY DEF IInv
<1>1. CASE UpdateLatestTick
  <2>1. /\ gCurrentFetchingTick \in Ticks /\ maxDigest # None
        /\ maxDigest \in Digests => TxsOf[maxDigest] \subseteq transaction
    BY <1>0, <1>1 DEF UpdateLatestTick, ThreadInv
  <2>2. UNCHANGED <<gCurrentFetchingTick, transaction>>
    BY <1>1 DEF UpdateLatestTick
  <2>3. \A t \in Ticks : decided'[t] = IF t = gCurrentFetchingTick THEN maxDigest ELSE decided[t]
    BY <1>0, <1>1 DEF UpdateLatestTick, TypeOK
  <2>4. LatestInv'
    BY <1>0, <1>1 DEF UpdateLatestTick, LatestInv, TypeOK
  <2> QED
    BY <1>0, <2>1, <2>2, <2>3, <2>4 DEF FetchedTickIsComplete
<1>2. CASE AdvanceFetchingTick
  <2>1. decided[gCurrentFetchingTick] # None /\ gCurrentFetchingTick \in Ticks
    BY <1>0, <1>2 DEF AdvanceFetchingTick, ThreadInv
  <2>2. UNCHANGED <<decided, transaction, latest_tick>>
    BY <1>2 DEF AdvanceFetchingTick, db
  <2>3. gCurrentFetchingTick' \in {gCurrentFetchingTick, gCurrentFetchingTick + 1}
    BY <1>2 DEF AdvanceFetchingTick
  <2> QED
    BY <1>0, <2>1, <2>2, <2>3 DEF LatestInv, FetchedTickIsComplete, TypeOK
<1>3. CASE Restart
  <2>1. UNCHANGED <<decided, transaction, latest_tick>>
    BY <1>3 DEF Restart, db
  <2>2. gCurrentFetchingTick' <= gCurrentFetchingTick /\ latest_tick <= gCurrentFetchingTick'
    BY <1>0, <1>3 DEF Restart, LatestInv, TypeOK
  <2>3. gCurrentFetchingTick' \in Nat /\ gCurrentFetchingTick \in Nat /\ latest_tick \in Nat
    BY <1>0, <1>3 DEF Restart, TypeOK
  <2> QED
    BY <1>0, <2>1, <2>2, <2>3 DEF LatestInv, FetchedTickIsComplete
<1>4. ASSUME UNCHANGED <<decided, latest_tick, gCurrentFetchingTick>>,
             transaction \subseteq transaction'
      PROVE  LatestInv' /\ FetchedTickIsComplete'
  BY <1>0, <1>4 DEF LatestInv, FetchedTickIsComplete
<1>5. \/ UpdateLatestTick \/ AdvanceFetchingTick \/ Restart
      \/ /\ UNCHANGED <<decided, latest_tick, gCurrentFetchingTick>>
         /\ transaction \subseteq transaction'
  BY DEF Next, vars, db, processTickVote, processTickData, processTransaction,
         FetchVotes, IOVerifyStep, LoadTickData, DeleteTickData, ioVerify,
         CheckTransactions, LoadSnapshot, VerifyBatch, IndexTick
<1> QED
  BY <1>1, <1>2, <1>3, <1>4, <1>5

-----------------------------------------------------------------------------
(* Theorems *)

LEMMA InitIInv == Init => IInv
<1> SUFFICES ASSUME Init PROVE IInv
  OBVIOUS
<1> USE TickAssumption, DataAssumption DEF Init, Ticks, NoVotes
<1>1. TypeOK
  BY DEF TypeOK
<1>2. CacheInv /\ ThreadInv /\ DecidedInv /\ LatestInv /\ FetchedTickIsComplete
  BY DEF CacheInv, ThreadInv, DecidedInv, LatestInv, FetchedTickIsComplete
<1>3. VerdictInv
  BY DEF VerdictInv, None
<1> QED
  BY <1>1, <1>2, <1>3 DEF IInv

LEMMA NextIInv == IInv /\ [Next]_vars => IInv'
<1> SUFFICES ASSUME IInv, [Next]_vars PROVE IInv'
  OBVIOUS
<1> QED
  BY TypePreserved, CachePreserved, ThreadPreserved, DecidedPreserved,
     VerdictPreserved, CompletePreserved DEF IInv

\* The inductive invariant holds in every state of every behaviour.
THEOREM Invariance == Spec => []IInv
  BY InitIInv, NextIInv, PTL DEF Spec

\* Type correctness of the cursors, the DB and the caches.
THEOREM TypeCorrect == Spec => []TypeOK
<1>1. IInv => TypeOK
  BY DEF IInv
<1> QED
  BY <1>1, Invariance, PTL

\* verifyQuorum and verifyNodeStateDigest never disagree on whether a tick is
\* empty, whenever each of them looks at the votes, restarts included.
THEOREM Agreement == Spec => []FetcherAndVerifierAgree
<1>1. IInv => FetcherAndVerifierAgree
  <2> SUFFICES ASSUME IInv, NEW t \in Ticks, decided[t] # None, verdict[t] # None
               PROVE  decided[t] = Zero <=> verdict[t] = "empty"
    BY DEF FetcherAndVerifierAgree
  <2>0. /\ decided[t] \in Digests \cup {Zero}
        /\ verdict[t] \in {"empty", "nonempty"}
        /\ Backed(t, decided[t])
    BY DEF IInv, TypeOK, DecidedInv
  <2>1. ASSUME decided[t] # Zero, verdict[t] = "empty" PROVE FALSE
    <3>1. Count(tick_vote[t], Zero) >= Threshold(Zero)
      BY <2>1 DEF IInv, VerdictInv, Threshold
    <3> QED
      BY <2>0, <2>1, <3>1, OneDigest DEF Backed
  <2>2. ASSUME decided[t] = Zero, verdict[t] = "nonempty" PROVE FALSE
    <3> DEFINE E == {c \in Computors : tick_vote[t][c] = Zero}
    <3>1. Cardinality(NonEmptyVoters(t)) >= Quorum
      BY <2>2 DEF IInv, VerdictInv
    <3>2. Cardinality(E) >= EmptyQuorum
      BY <2>0, <2>2 DEF Backed, Count, Threshold
    <3>3. E \cap NonEmptyVoters(t) = {} /\ NonEmptyVoters(t) \subseteq Computors
      BY DEF NonEmptyVoters
    <3>4. Cardinality(E) + Cardinality(NonEmptyVoters(t)) <= Cardinality(Computors)
      BY <3>3, DisjointVoters
    <3>5. Cardinality(E) \in Nat /\ Cardinality(NonEmptyVoters(t)) \in Nat
          /\ Cardinality(Computors) \in Nat
      BY <3>3, CardMono
    <3> HIDE DEF E
    <3> QED
      BY <3>1, <3>2, <3>4, <3>5, QuorumAssumption
  <2> QED
    BY <2>0, <2>1, <2>2
<1> QED
  BY <1>1, Invariance, PTL

\* A tick behind the fetching cursor was fetched with a digest all of whose
\* transactions are stored.
THEOREM Completeness == Spec => []FetchedTickIsComplete
<1>1. IInv => FetchedTickIsComplete
  BY DEF IInv
<1> QED
  BY <1>1, Invariance, PTL

\* Fetching a tick again after a restart never gives another digest.
THEOREM Finality == Spec => FetchedDigestIsFinal
<1>1. ASSUME IInv, [Next]_vars
      PROVE  [\A t \in Ticks : decided[t] # None => decided'[t] = decided[t]]_vars
  <2> SUFFICES ASSUME NEW t \in Ticks, decided[t] # None
               PROVE  decided'[t] = decided[t]
    OBVIOUS
  <2>1. CASE UNCHANGED decided
    BY <2>1
  <2>2. CASE UpdateLatestTick
    <3>1. decided'[t] = IF t = gCurrentFetchingTick THEN maxDigest ELSE decided[t]
      BY <1>1, <2>2 DEF UpdateLatestTick, IInv, TypeOK
    <3>2. /\ maxDigest \in Digests \cup {Zero}
          /\ Backed(gCurrentFetchingTick, maxDigest)
      BY <1>1, <2>2 DEF UpdateLatestTick, IInv, TypeOK, ThreadInv
    <3>3. decided[t] \in Digests \cup {Zero} /\ Backed(t, decided[t])
      BY <1>1 DEF IInv, TypeOK, DecidedInv
    <3>4. t = gCurrentFetchingTick => maxDigest = decided[t]
      BY <3>2, <3>3, OneDigest DEF Backed
    <3> QED
      BY <3>1, <3>4
  <2> QED
    BY <1>1, <2>1, <2>2, DecidedFrame
<1> QED
  BY <1>1, Invariance, PTL DEF Spec, FetchedDigestIsFinal

-----------------------------------------------------------------------------
(* The filter of the data processors *)

\* No tick has two tick datas: its leader signed one.
OneTickDataPerTick == \A d, e \in Digests : TickOf[d] = TickOf[e] => d = e

\* There are enough votes to be evaluated.
Enough(t) == Cardinality({c \in Computors : tick_vote[t][c] # None}) >= MinVotes

EnoughInv ==
    /\ pc # "votes" => Enough(gCurrentFetchingTick)
    /\ \A t \in Ticks : decided[t] # None => Enough(t)

\* The cached tick data is the stored one, unless it lost the vote and was deleted.
HeldInv ==
    /\ td # None /\ TickOf[td] = gCurrentFetchingTick =>
          \/ tick_data[gCurrentFetchingTick] = td
          \/ \E e \in Digests \cup {Zero} : e # td /\ Backed(gCurrentFetchingTick, e)
    /\ pc = "delete" => td # None /\ TickOf[td] = gCurrentFetchingTick /\ td # maxDigest

\* Tick data is stored under its tick; the cached one is not for a later tick.
OwnTickInv ==
    /\ \A t \in Ticks : tick_data[t] # None => TickOf[tick_data[t]] = t
    /\ td # None => TickOf[td] <= gCurrentFetchingTick

\* The tick data of a decision is for its tick and stays stored.
StoredInv ==
    /\ pc \in {"txs", "advance", "readback"} /\ maxDigest \in Digests =>
          /\ TickOf[maxDigest] = gCurrentFetchingTick
          /\ tick_data[gCurrentFetchingTick] = maxDigest
    /\ \A t \in Ticks : decided[t] \in Digests =>
          TickOf[decided[t]] = t /\ tick_data[t] = decided[t]

\* What the filter drops, now or once the snapshot is loaded, was fetched before.
PassedInv ==
    \A t \in Ticks :
        t < latest_verified_tick
        \/ (gCurrentVerifyLoggingTick # 0 /\ t < gCurrentVerifyLoggingTick - 1)
           => decided[t] # None

FilterInv ==
    /\ EnoughInv
    /\ OwnTickInv
    /\ HeldInv
    /\ StoredInv
    /\ PassedInv

\* Votes only grow in number.
LEMMA EnoughIsStable ==
    ASSUME VotesKept, NEW t \in Ticks, Enough(t)
    PROVE  Enough(t)'
<1> DEFINE S == {c \in Computors : tick_vote[t][c] # None}
           T == {c \in Computors : tick_vote'[t][c] # None}
<1>1. S \subseteq T /\ T \subseteq Computors
  BY DEF VotesKept
<1>2. Cardinality(S) \in Nat /\ Cardinality(T) \in Nat /\ Cardinality(S) <= Cardinality(T)
  BY <1>1, CardMono
<1> HIDE DEF S, T
<1>3. Cardinality(T) >= MinVotes
  <2>1. Cardinality(S) >= MinVotes
    BY DEF Enough, S
  <2> QED
    BY <1>2, <2>1, QuorumAssumption
<1> QED
  BY <1>3 DEF Enough, T

LEMMA EnoughPreserved ==
    ASSUME IInv, FilterInv, [Next]_vars
    PROVE  EnoughInv'
<1>0. TypeOK /\ ThreadInv /\ VotesKept /\ EnoughInv
  BY VotesAreKept DEF IInv, FilterInv
<1>1. \A t \in Ticks : Enough(t) => Enough(t)'
  BY <1>0, EnoughIsStable
<1>2. \A t \in Ticks : decided'[t] # None => Enough(t)'
  <2>1. CASE UNCHANGED decided
    BY <1>0, <1>1, <2>1 DEF EnoughInv
  <2>2. CASE UpdateLatestTick
    <3>1. \A t \in Ticks : t # gCurrentFetchingTick => decided'[t] = decided[t]
      BY <1>0, <2>2 DEF UpdateLatestTick, TypeOK
    <3>2. Enough(gCurrentFetchingTick)
      BY <1>0, <2>2 DEF UpdateLatestTick, EnoughInv
    <3> QED
      BY <1>0, <1>1, <3>1, <3>2 DEF EnoughInv
  <2> QED
    BY <2>1, <2>2, DecidedFrame
<1>3. pc' # "votes" => Enough(gCurrentFetchingTick)'
  <2>1. ASSUME NEW S \in SUBSET StoredVotes, FetchVotes(S), pc' # "votes"
        PROVE  Enough(gCurrentFetchingTick)'
    <3>1. UNCHANGED <<tick_vote, gCurrentFetchingTick>> /\ Consensus(votes') # {}
      BY <2>1 DEF FetchVotes, db
    <3> DEFINE A == {c \in Computors : votes'[c] # None}
               B == {c \in Computors : tick_vote[gCurrentFetchingTick][c] # None}
    <3>2. ~(Cardinality(A) < MinVotes)
      BY <3>1 DEF Consensus, Reached
    <3>3. A \subseteq B /\ B \subseteq Computors
      BY <3>1, CachePreserved DEF CacheInv
    <3>4. Cardinality(A) \in Nat /\ Cardinality(B) \in Nat /\ Cardinality(A) <= Cardinality(B)
      BY <3>3, CardMono
    <3> HIDE DEF A, B
    <3>5. Cardinality(B) >= MinVotes
      BY <3>2, <3>4, QuorumAssumption
    <3> QED
      BY <3>1, <3>5 DEF Enough, B
  <2>2. CASE UNCHANGED gCurrentFetchingTick /\ (pc' # "votes" => pc # "votes")
    <3>1. pc' # "votes" => gCurrentFetchingTick \in Ticks /\ Enough(gCurrentFetchingTick)
      BY <1>0, <2>2 DEF ThreadInv, EnoughInv
    <3> QED
      BY <1>1, <2>2, <3>1 DEF Enough
  <2>3. \/ \E S \in SUBSET StoredVotes : FetchVotes(S)
        \/ UNCHANGED gCurrentFetchingTick /\ (pc' # "votes" => pc # "votes")
        \/ pc' = "votes"
    BY DEF Next, vars, db, processTickVote, processTickData, processTransaction,
           IOVerifyStep, LoadTickData, DeleteTickData, ioVerify, CheckTransactions,
           UpdateLatestTick, AdvanceFetchingTick, LoadSnapshot, VerifyBatch, IndexTick,
           Restart
  <2> QED
    BY <2>1, <2>2, <2>3
<1> QED
  BY <1>2, <1>3 DEF EnoughInv

\* A decision is not taken back, so what was passed stays passed.
LEMMA PassedPreserved ==
    ASSUME IInv, FilterInv, [Next]_vars
    PROVE  PassedInv'
<1> USE TickAssumption
<1>0. TypeOK /\ ThreadInv /\ FetchedTickIsComplete /\ PassedInv
  BY DEF IInv, FilterInv
<1>1. \A t \in Ticks : decided[t] # None => decided'[t] # None
  <2>1. CASE UpdateLatestTick
    BY <1>0, <2>1 DEF UpdateLatestTick, ThreadInv, TypeOK
  <2> QED
    BY <2>1, DecidedFrame
<1>2. CASE UNCHANGED <<latest_verified_tick, gCurrentVerifyLoggingTick>>
  BY <1>0, <1>1, <1>2 DEF PassedInv
<1>3. CASE LoadSnapshot
  <2>1. /\ latest_verified_tick' = latest_verified_tick
        /\ gCurrentVerifyLoggingTick' - 1 = latest_verified_tick
    BY <1>0, <1>3 DEF LoadSnapshot, TypeOK
  <2> QED
    BY <1>0, <1>1, <2>1 DEF PassedInv
<1>4. ASSUME NEW to \in Ticks, VerifyBatch(to)
      PROVE  PassedInv'
  <2>1. /\ to \in Int /\ gCurrentFetchingTick \in Int /\ to <= gCurrentFetchingTick
        /\ gCurrentVerifyLoggingTick' - 1 = to
        /\ latest_verified_tick' \in {to, latest_verified_tick}
    BY <1>0, <1>4 DEF VerifyBatch, TypeOK, Ticks
  <2>2. \A t \in Ticks : t < to => decided[t] # None
    <3>1. \A t \in Ticks : t \in Int /\ (t < to => t < gCurrentFetchingTick)
      BY <2>1 DEF Ticks
    <3> QED
      BY <1>0, <3>1 DEF FetchedTickIsComplete
  <2> QED
    BY <1>0, <1>1, <2>1, <2>2 DEF PassedInv
<1>5. CASE Restart
  BY <1>0, <1>1, <1>5 DEF Restart, PassedInv
<1>6. \/ UNCHANGED <<latest_verified_tick, gCurrentVerifyLoggingTick>>
      \/ LoadSnapshot \/ Restart
      \/ \E to \in Ticks : VerifyBatch(to)
  BY DEF Next, vars, processTickVote, processTickData, processTransaction, FetchVotes,
         IOVerifyStep, LoadTickData, DeleteTickData, CheckTransactions, logVerify,
         UpdateLatestTick, AdvanceFetchingTick, IndexTick
<1> QED
  BY <1>2, <1>3, <1>4, <1>5, <1>6

\* Of two digests only one is backed.
LEMMA OneBacked ==
    ASSUME NEW t, NEW d \in Digests \cup {Zero}, NEW e \in Digests \cup {Zero},
           Backed(t, d), Backed(t, e)
    PROVE  d = e
BY OneDigest DEF Backed

LEMMA OwnTickPreserved ==
    ASSUME IInv, FilterInv, [Next]_vars
    PROVE  OwnTickInv'
<1> USE DataAssumption, TickAssumption
<1>0. TypeOK /\ ThreadInv /\ OwnTickInv
  BY DEF IInv, FilterInv
<1>1. CASE UNCHANGED <<td, gCurrentFetchingTick, tick_data>>
  BY <1>0, <1>1 DEF OwnTickInv
<1>2. ASSUME NEW d \in Digests, processTickData(d)
      PROVE  OwnTickInv'
  BY <1>0, <1>2 DEF processTickData, ioVerify, OwnTickInv, TypeOK
<1>3. CASE LoadTickData
  <2>1. UNCHANGED <<gCurrentFetchingTick, tick_data>> /\ gCurrentFetchingTick \in Ticks
    BY <1>0, <1>3 DEF LoadTickData, ThreadInv, db
  <2>2. td' = td \/ (td' = tick_data[gCurrentFetchingTick] /\ td' # None)
    BY <1>3 DEF LoadTickData
  <2>3. gCurrentFetchingTick <= gCurrentFetchingTick
    BY <2>1 DEF Ticks
  <2> QED
    BY <1>0, <2>1, <2>2, <2>3 DEF OwnTickInv
<1>4. CASE DeleteTickData
  BY <1>0, <1>4 DEF DeleteTickData, OwnTickInv, TypeOK
<1>5. CASE AdvanceFetchingTick
  <2>1. /\ UNCHANGED <<td, tick_data>> /\ gCurrentFetchingTick \in Int
        /\ gCurrentFetchingTick' \in {gCurrentFetchingTick, gCurrentFetchingTick + 1}
        /\ td # None => TickOf[td] \in Int
    BY <1>0, <1>5 DEF AdvanceFetchingTick, TypeOK, db, Ticks
  <2> QED
    BY <1>0, <2>1 DEF OwnTickInv
<1>6. CASE Restart
  BY <1>0, <1>6 DEF Restart, OwnTickInv, db
<1>7. \/ UNCHANGED <<td, gCurrentFetchingTick, tick_data>>
      \/ \E d \in Digests : processTickData(d)
      \/ LoadTickData \/ DeleteTickData \/ AdvanceFetchingTick \/ Restart
  BY DEF Next, vars, db, processTickVote, processTransaction, FetchVotes, IOVerifyStep,
         ioVerify, CheckTransactions, UpdateLatestTick, LoadSnapshot, VerifyBatch, IndexTick
<1> QED
  BY <1>1, <1>2, <1>3, <1>4, <1>5, <1>6, <1>7

\* What the tick data in the cache and in the DB owe to each other.
LEMMA DataPreserved ==
    ASSUME OneTickDataPerTick, IInv, FilterInv, [Next]_vars
    PROVE  HeldInv' /\ StoredInv'
<1> USE DataAssumption, TickAssumption
<1>0. /\ TypeOK /\ ThreadInv /\ VotesKept /\ DecidedInv
      /\ OwnTickInv /\ HeldInv /\ StoredInv
  BY VotesAreKept DEF IInv, FilterInv
<1>1. \A t \in Ticks : \A d \in Digests \cup {Zero} : Backed(t, d) => Backed(t, d)'
  BY <1>0, BackedIsStable
<1>2. ASSUME UNCHANGED <<td, gCurrentFetchingTick, pc, maxDigest, decided>>,
             \A t \in Ticks : tick_data'[t] = tick_data[t]
                              \/ (tick_data'[t] \in Digests /\ TickOf[tick_data'[t]] = t)
      PROVE  HeldInv' /\ StoredInv'
  <2>1. ASSUME td # None, TickOf[td] = gCurrentFetchingTick
        PROVE  \/ tick_data'[gCurrentFetchingTick] = td
               \/ \E e \in Digests \cup {Zero} : e # td /\ Backed(gCurrentFetchingTick, e)'
    <3>1. td \in Digests /\ gCurrentFetchingTick \in Ticks
      BY <1>0, <2>1 DEF TypeOK
    <3>2. CASE tick_data[gCurrentFetchingTick] = td
      BY <1>2, <2>1, <3>1, <3>2 DEF OneTickDataPerTick
    <3>3. ASSUME NEW e \in Digests \cup {Zero}, e # td, Backed(gCurrentFetchingTick, e)
          PROVE  Backed(gCurrentFetchingTick, e)'
      BY <1>1, <1>2, <3>1, <3>3 DEF Backed
    <3> QED
      BY <1>0, <2>1, <3>2, <3>3 DEF HeldInv
  <2>2. HeldInv'
    BY <1>0, <1>2, <2>1 DEF HeldInv, Backed
  <2>3. \A t \in Ticks : \A d \in Digests :
           TickOf[d] = t /\ tick_data[t] = d => tick_data'[t] = d
    BY <1>2 DEF OneTickDataPerTick
  <2>4. pc # "votes" => gCurrentFetchingTick \in Ticks
    BY <1>0 DEF ThreadInv
  <2>5. StoredInv'
    BY <1>0, <1>2, <2>3, <2>4 DEF StoredInv
  <2> QED
    BY <2>2, <2>5
<1>3. ASSUME NEW d \in Digests, processTickData(d)
      PROVE  HeldInv' /\ StoredInv'
  <2>1. UNCHANGED <<td, gCurrentFetchingTick, pc, maxDigest, decided>>
    BY <1>3 DEF processTickData, ioVerify
  <2>2. \A t \in Ticks : tick_data'[t] = tick_data[t]
                         \/ (tick_data'[t] \in Digests /\ TickOf[tick_data'[t]] = t)
    BY <1>0, <1>3 DEF processTickData, TypeOK
  <2> QED
    BY <1>2, <2>1, <2>2
<1>4. ASSUME NEW S \in SUBSET StoredVotes, FetchVotes(S)
      PROVE  HeldInv' /\ StoredInv'
  <2>1. /\ UNCHANGED <<td, gCurrentFetchingTick, decided, tick_data, tick_vote>>
        /\ \/ UNCHANGED <<pc, maxDigest>>
           \/ pc' = "tickdata"
           \/ pc' = "advance" /\ maxDigest' = Zero
        /\ pc = "votes"
    BY <1>4 DEF FetchVotes, db
  <2> QED
    BY <1>0, <2>1 DEF HeldInv, StoredInv, Backed, Count, Threshold
<1>5. CASE LoadTickData
  <2>1. /\ pc = "tickdata" /\ gCurrentFetchingTick \in Ticks /\ maxDigest \in Digests
        /\ Backed(gCurrentFetchingTick, maxDigest)
        /\ UNCHANGED <<gCurrentFetchingTick, decided, tick_data, tick_vote, maxDigest>>
    BY <1>0, <1>5 DEF LoadTickData, ThreadInv, db
  <2>2. td' = td \/ td' = tick_data[gCurrentFetchingTick]
    BY <1>5 DEF LoadTickData
  <2>3. /\ pc' \in {"votes", "delete", "txs"}
        /\ pc' = "delete" => /\ td' # None /\ TickOf[td'] = gCurrentFetchingTick
                             /\ td' # maxDigest
        /\ pc' = "txs" => td' # None /\ TickOf[td'] = gCurrentFetchingTick /\ td' = maxDigest
    BY <1>5 DEF LoadTickData
  <2>4. td' # None /\ TickOf[td'] = gCurrentFetchingTick =>
          \/ tick_data[gCurrentFetchingTick] = td'
          \/ \E e \in Digests \cup {Zero} : e # td' /\ Backed(gCurrentFetchingTick, e)
    BY <1>0, <2>2 DEF HeldInv
  <2>5. HeldInv'
    BY <2>1, <2>3, <2>4 DEF HeldInv, Backed, Count, Threshold
  <2>6. pc' = "txs" => tick_data[gCurrentFetchingTick] = maxDigest
    BY <2>1, <2>3, <2>4, OneBacked
  <2>7. StoredInv'
    BY <1>0, <2>1, <2>3, <2>6 DEF StoredInv
  <2> QED
    BY <2>5, <2>7
<1>6. CASE DeleteTickData
  <2>1. /\ pc = "delete" /\ gCurrentFetchingTick \in Ticks
        /\ maxDigest \in Digests \cup {Zero} /\ Backed(gCurrentFetchingTick, maxDigest)
        /\ td \in Digests /\ TickOf[td] = gCurrentFetchingTick /\ td # maxDigest
        /\ pc' = "votes"
        /\ UNCHANGED <<td, gCurrentFetchingTick, decided, tick_vote, maxDigest>>
    BY <1>0, <1>6 DEF DeleteTickData, ThreadInv, HeldInv, TypeOK
  <2>2. HeldInv'
    BY <2>1 DEF HeldInv, Backed, Count, Threshold
  <2>3. \A t \in Ticks : t # gCurrentFetchingTick => tick_data'[t] = tick_data[t]
    BY <1>0, <1>6 DEF DeleteTickData, TypeOK
  <2>4. decided[gCurrentFetchingTick] \notin Digests
    <3> SUFFICES ASSUME decided[gCurrentFetchingTick] \in Digests PROVE FALSE
      OBVIOUS
    <3>1. TickOf[decided[gCurrentFetchingTick]] = gCurrentFetchingTick
      BY <1>0, <2>1 DEF StoredInv
    <3>2. Backed(gCurrentFetchingTick, decided[gCurrentFetchingTick])
      BY <1>0, <2>1 DEF DecidedInv
    <3>3. decided[gCurrentFetchingTick] = maxDigest
      BY <2>1, <3>2, OneBacked
    <3>4. decided[gCurrentFetchingTick] = td
      BY <2>1, <3>1 DEF OneTickDataPerTick
    <3> QED
      BY <2>1, <3>3, <3>4
  <2>5. StoredInv'
    BY <1>0, <2>1, <2>3, <2>4 DEF StoredInv
  <2> QED
    BY <2>2, <2>5
<1>7. CASE CheckTransactions
  <2>1. /\ pc = "txs" /\ pc' \in {"votes", "advance"}
        /\ UNCHANGED <<td, gCurrentFetchingTick, decided, tick_vote, tick_data, maxDigest>>
    BY <1>7 DEF CheckTransactions, db
  <2> QED
    BY <1>0, <2>1 DEF HeldInv, StoredInv, Backed, Count, Threshold
<1>8. CASE UpdateLatestTick
  <2>1. /\ pc = "advance" /\ pc' = "readback" /\ gCurrentFetchingTick \in Ticks
        /\ UNCHANGED <<td, gCurrentFetchingTick, tick_vote, tick_data, maxDigest>>
    BY <1>0, <1>8 DEF UpdateLatestTick, ThreadInv
  <2>2. \A t \in Ticks : decided'[t] = IF t = gCurrentFetchingTick THEN maxDigest ELSE decided[t]
    BY <1>0, <1>8 DEF UpdateLatestTick, TypeOK
  <2> QED
    BY <1>0, <2>1, <2>2 DEF HeldInv, StoredInv, Backed, Count, Threshold
<1>9. CASE AdvanceFetchingTick
  <2>1. /\ pc' = "votes" /\ UNCHANGED <<td, decided, tick_vote, tick_data>>
        /\ pc = "readback" /\ decided[gCurrentFetchingTick] = maxDigest
        /\ gCurrentFetchingTick \in Ticks /\ Backed(gCurrentFetchingTick, maxDigest)
        /\ maxDigest \in Digests \cup {Zero}
        /\ gCurrentFetchingTick' \in {gCurrentFetchingTick, gCurrentFetchingTick + 1}
    BY <1>0, <1>9 DEF AdvanceFetchingTick, ThreadInv, TypeOK, db
  <2>2. CASE gCurrentFetchingTick' = gCurrentFetchingTick
    BY <1>0, <2>1, <2>2 DEF HeldInv, StoredInv, Backed, Count, Threshold
  <2>3. CASE gCurrentFetchingTick' = gCurrentFetchingTick + 1
    <3>1. td # None => TickOf[td] \in Int /\ TickOf[td] <= gCurrentFetchingTick
      BY <1>0 DEF OwnTickInv, TypeOK, Ticks
    <3>2. gCurrentFetchingTick \in Int
      BY <2>1 DEF Ticks
    <3>3. td # None => TickOf[td] # gCurrentFetchingTick'
      BY <2>3, <3>1, <3>2
    <3> QED
      BY <1>0, <2>1, <3>3 DEF HeldInv, StoredInv
  <2> QED
    BY <2>1, <2>2, <2>3
<1>10. CASE Restart
  <2>1. pc' = "votes" /\ td' = None /\ UNCHANGED <<decided, tick_data>>
    BY <1>10 DEF Restart, db
  <2> QED
    BY <1>0, <2>1 DEF HeldInv, StoredInv
<1>11. CASE UNCHANGED <<td, gCurrentFetchingTick, pc, maxDigest, decided, tick_data>>
  BY <1>2, <1>11
<1>12. \/ UNCHANGED <<td, gCurrentFetchingTick, pc, maxDigest, decided, tick_data>>
       \/ \E d \in Digests : processTickData(d)
       \/ \E S \in SUBSET StoredVotes : FetchVotes(S)
       \/ LoadTickData \/ DeleteTickData \/ CheckTransactions
       \/ UpdateLatestTick \/ AdvanceFetchingTick \/ Restart
  BY DEF Next, vars, db, processTickVote, processTransaction,
         IOVerifyStep, ioVerify, LoadSnapshot, VerifyBatch, IndexTick
<1> QED
  BY <1>3, <1>4, <1>5, <1>6, <1>7, <1>8, <1>9, <1>10, <1>11, <1>12

LEMMA InitFilter == Init => FilterInv
<1> SUFFICES ASSUME Init PROVE FilterInv
  OBVIOUS
<1> USE DataAssumption, TickAssumption
<1>1. EnoughInv /\ OwnTickInv /\ HeldInv /\ StoredInv
  BY DEF Init, EnoughInv, OwnTickInv, HeldInv, StoredInv
<1>2. PassedInv
  <2>1. \A t \in Ticks : ~(t < gInitialTick - 1)
    BY DEF Ticks
  <2> QED
    BY <2>1 DEF Init, PassedInv
<1> QED
  BY <1>1, <1>2 DEF FilterInv

\* What the data processors drop as already verified, the fetcher does not need any
\* more, also when a restart has set it back behind the verifier: the decided digest
\* is still backed by the stored votes, and its tick data was neither overwritten
\* nor deleted.
THEOREM FilterCorrect ==
    ASSUME OneTickDataPerTick
    PROVE  Spec => []FilterDropsNothingNeeded
<1>1. IInv /\ FilterInv /\ [Next]_vars => FilterInv'
  BY EnoughPreserved, OwnTickPreserved, DataPreserved, PassedPreserved DEF FilterInv
<1>2. IInv /\ FilterInv => FilterDropsNothingNeeded
  <2> SUFFICES ASSUME IInv, FilterInv, gCurrentVerifyLoggingTick # 0,
                      NEW t \in Ticks, ~NotYetVerified(t)
               PROVE  Complete(t)
    BY DEF FilterDropsNothingNeeded
  <2> DEFINE V == gCurrentVerifyLoggingTick - 1
  <2>1. V \in Nat /\ V < Word /\ Word \in Nat /\ t \in Nat
    BY TickAssumption DEF IInv, TypeOK, Ticks
  <2>2. ~(t >= V % Word)
    BY DEF NotYetVerified
  <2>3. t < V
    <3> HIDE DEF V
    <3>1. V % Word = V
      BY <2>1
    <3> QED
      BY <2>1, <2>2, <3>1
  <2>4. decided[t] # None
    BY <2>3 DEF FilterInv, PassedInv
  <2> DEFINE d == decided[t]
  <2>5. d \in Digests \cup {Zero} /\ Backed(t, d) /\ Enough(t)
    BY <2>4 DEF IInv, TypeOK, DecidedInv, FilterInv, EnoughInv
  <2>6. d \in Reached(tick_vote[t])
    <3>1. ~(Cardinality({c \in Computors : tick_vote[t][c] # None}) < MinVotes)
      <4>1. Cardinality({c \in Computors : tick_vote[t][c] # None}) \in Nat
        BY CardMono
      <4> QED
        BY <2>5, <4>1, QuorumAssumption DEF Enough
    <3> QED
      BY <2>5, <3>1 DEF Reached, Backed
  <2>7. d \in Consensus(tick_vote[t])
    <3>1. ASSUME Zero \in Reached(tick_vote[t]) PROVE d = Zero
      <4>1. Backed(t, Zero)
        BY <3>1 DEF Reached, Backed
      <4> QED
        BY <2>5, <4>1, OneBacked
    <3> QED
      BY <2>6, <3>1 DEF Consensus
  <2>8. d \in Digests => tick_data[t] = d /\ TxsOf[d] \subseteq transaction
    BY DEF FilterInv, StoredInv, IInv, FetchedTickIsComplete
  <2> QED
    BY <2>5, <2>7, <2>8 DEF Complete
<1>3. Spec => []FilterInv
  BY <1>1, InitFilter, Invariance, PTL DEF Spec
<1> QED
  BY <1>2, <1>3, Invariance, PTL
=============================================================================
