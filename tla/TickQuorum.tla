----------------------------- MODULE TickQuorum -----------------------------
(***************************************************************************)
(* How bob decides that a tick is fetched, verified and indexed.           *)
(*                                                                         *)
(* Data processor threads store the votes, tick data and transactions the  *)
(* peers send (DataProcessors.cpp); IOVerifyThread moves                   *)
(* gCurrentFetchingTick past a tick once the stored votes reach a quorum   *)
(* and the tick's data is complete (IOProcessor.cpp); verifyLoggingEvent   *)
(* counts the same votes again to accept the replayed state                *)
(* (LoggingEventProcessor.cpp); indexVerifiedTicks follows it              *)
(* (QubicIndexer.cpp).  KeyDB survives a crash, everything else does not.  *)
(*                                                                         *)
(* Data abstraction.  A tick data is identified with its K12 digest, so    *)
(* Digests are the tick datas that exist and TickOf the tick each one      *)
(* names.  A packet of another epoch or with a bad signature is dropped on *)
(* arrival without effect and is not enumerated.  The wire (buffers,       *)
(* requests, retries) only decides when a packet arrives: any packet may   *)
(* arrive at any time, in any order, more than once, or never.             *)
(***************************************************************************)
EXTENDS Integers, FiniteSets

CONSTANTS
    Computors,          \* the voters of the epoch (676 in the code)
    EmptyQuorum,        \* votes that decide an empty tick (226)
    Quorum,             \* votes that decide a non-empty tick (451)
    MinVotes,           \* fewer votes than this: nothing to evaluate (225)
    gInitialTick,       \* first tick of the epoch
    MaxTick,            \* bound: last tick the peers produce
    Word,               \* 2^32 in the code: ticks are uint32_t
    BATCH_VERIFICATION, \* 64
    SAVE_PERIOD,        \* 1000
    MAX_AHEAD,          \* nothing is requested further ahead of the verifier (1000)
    MaxRestarts,        \* bound: number of crashes
    Digests,            \* tick datas, named by their digest
    TickOf,             \* the tick a tick data is for
    Transactions,
    TxTick,             \* the tick a transaction is for
    TxsOf,              \* the transactions a tick data lists
    Votes               \* the votes computors sign: [tick, computor, digest]

\* The all-zero transactionDigest: a vote for an empty tick.
Zero == "zero"
\* Nothing stored, cached or decided.
None == "none"

Ticks == gInitialTick .. MaxTick

ASSUME QuorumAssumption ==
    /\ IsFiniteSet(Computors)
    /\ EmptyQuorum \in Nat \ {0}
    /\ Quorum \in Nat \ {0}
    /\ MinVotes \in Nat
    /\ EmptyQuorum + Quorum > Cardinality(Computors)
    /\ Quorum + Quorum > Cardinality(Computors)

ASSUME TickAssumption ==
    /\ gInitialTick \in Nat \ {0}
    /\ MaxTick \in Nat
    /\ gInitialTick <= MaxTick
    /\ Word \in Nat
    /\ MaxTick + 2 < Word
    /\ BATCH_VERIFICATION \in Nat
    /\ SAVE_PERIOD \in Nat
    /\ MAX_AHEAD \in Nat
    /\ MaxRestarts \in Nat

ASSUME DataAssumption ==
    /\ Zero \notin Digests /\ None \notin Digests
    /\ TickOf \in [Digests -> Ticks]
    /\ TxTick \in [Transactions -> Ticks]
    /\ TxsOf \in [Digests -> SUBSET Transactions]
    /\ Votes \subseteq [tick : Ticks, computor : Computors,
                        digest : Digests \cup {Zero}]

VARIABLES
    tick_vote,    \* DB tick_vote:<tick>:<i>, the digest voted or None
    tick_data,    \* DB tick_data:<tick>
    transaction,  \* DB transaction:<hash>, the set of stored transactions
    latest_tick,  \* DB db_status latest_tick, 0 if absent
    latest_verified_tick, \* DB, the tick of the last snapshot
    last_indexed_tick,    \* DB, and gCurrentIndexingTick
    gCurrentFetchingTick,
    gCurrentVerifyLoggingTick, \* 0 until the verifier has loaded a snapshot
    pc,           \* where IOVerifyThread is
    votes,        \* its cached votes of gCurrentFetchingTick
    td,           \* its cached tick data
    maxDigest,    \* the digest verifyQuorum settled on
    restarts,
    decided,      \* history: the digest a tick was fetched with
    verdict,      \* history: hasTickData as verifyLoggingEvent decided it
    indexed       \* history: the tick data indexTick was given

db == <<tick_vote, tick_data, transaction, latest_tick>>
ioVerify == <<pc, votes, td, maxDigest, gCurrentFetchingTick, decided>>
logVerify == <<gCurrentVerifyLoggingTick, latest_verified_tick, verdict>>
indexer == <<last_indexed_tick, indexed>>
vars == <<db, ioVerify, logVerify, indexer, restarts>>

NoVotes == [c \in Computors |-> None]

\* The cursors of bob start at the first tick of the epoch.
Init ==
    /\ tick_vote = [t \in Ticks |-> NoVotes]
    /\ tick_data = [t \in Ticks |-> None]
    /\ transaction = {}
    /\ latest_tick = 0
    /\ latest_verified_tick = gInitialTick - 1
    /\ last_indexed_tick = gInitialTick - 1
    /\ gCurrentFetchingTick = gInitialTick
    /\ gCurrentVerifyLoggingTick = 0
    /\ pc = "votes"
    /\ votes = NoVotes
    /\ td = None
    /\ maxDigest = None
    /\ restarts = 0
    /\ decided = [t \in Ticks |-> None]
    /\ verdict = [t \in Ticks |-> None]
    /\ indexed = [t \in Ticks |-> None]

-----------------------------------------------------------------------------
(* Data processor threads *)

\* Mutant: ticks below gCurrentVerifyLoggingTick itself are dropped.
NotYetVerified_OffByOne(t) == t >= gCurrentVerifyLoggingTick

\* The complement of "tick < gCurrentVerifyLoggingTick - 1: already verified".
\* The subtraction is unsigned: before the snapshot is loaded it wraps, and
\* everything is dropped.
NotYetVerified(t) == t >= (gCurrentVerifyLoggingTick - 1) % Word

\* Mutant: a later vote of the same computor replaces the stored one.
db_insert_tick_vote_Overwrites(v) ==
    tick_vote' = [tick_vote EXCEPT ![v.tick][v.computor] = v.digest]

\* db_insert_tick_vote writes with NOT_EXIST: the first vote stays.
db_insert_tick_vote(v) ==
    tick_vote' = IF tick_vote[v.tick][v.computor] = None
                 THEN [tick_vote EXCEPT ![v.tick][v.computor] = v.digest]
                 ELSE tick_vote

processTickVote(v) ==
    /\ NotYetVerified(v.tick)
    /\ db_insert_tick_vote(v)
    /\ UNCHANGED <<tick_data, transaction, latest_tick>>
    /\ UNCHANGED <<ioVerify, logVerify, indexer, restarts>>

\* db_insert_tick_data overwrites: the last tick data stays.
processTickData(d) ==
    /\ NotYetVerified(TickOf[d])
    /\ tick_data' = [tick_data EXCEPT ![TickOf[d]] = d]
    /\ UNCHANGED <<tick_vote, transaction, latest_tick>>
    /\ UNCHANGED <<ioVerify, logVerify, indexer, restarts>>

\* A transaction is kept only when the stored tick data lists it.
processTransaction(x) ==
    /\ NotYetVerified(TxTick[x])
    /\ tick_data[TxTick[x]] # None
    /\ x \in TxsOf[tick_data[TxTick[x]]]
    /\ transaction' = transaction \cup {x}
    /\ UNCHANGED <<tick_vote, tick_data, latest_tick>>
    /\ UNCHANGED <<ioVerify, logVerify, indexer, restarts>>

-----------------------------------------------------------------------------
(* IOVerifyThread *)

Count(vs, d) == Cardinality({c \in Computors : vs[c] = d})

\* Mutant: the empty-tick threshold is used for every digest.
Threshold_AlwaysEmpty(d) == EmptyQuorum

Threshold(d) == IF d = Zero THEN EmptyQuorum ELSE Quorum

\* The digests whose group of votes is large enough.
Reached(vs) ==
    IF Cardinality({c \in Computors : vs[c] # None}) < MinVotes
    THEN {}
    ELSE {d \in Digests \cup {Zero} : Count(vs, d) >= Threshold(d)}

\* The groups are visited in memcmp order and the first large enough is taken:
\* the zero digest comes before all others.
Consensus(vs) ==
    IF Zero \in Reached(vs) THEN {Zero} ELSE Reached(vs)

\* First half of verifyQuorum: read the votes not yet cached, one key at a time
\* while others are inserted (S are those stored before their turn), and
\* look for a consensus among the cached votes.
StoredVotes ==
    {c \in Computors : /\ gCurrentFetchingTick \in Ticks
                       /\ tick_vote[gCurrentFetchingTick][c] # None}

FetchVotes(S) ==
    /\ pc = "votes"
    /\ gCurrentFetchingTick <= MaxTick
    /\ votes' = [c \in Computors |->
                    IF votes[c] = None /\ c \in S
                    THEN tick_vote[gCurrentFetchingTick][c]
                    ELSE votes[c]]
    /\ \/ /\ Consensus(votes') = {}
          /\ UNCHANGED <<pc, maxDigest>>
       \/ \E d \in Consensus(votes') :
             /\ maxDigest' = d
             /\ pc' = IF d = Zero THEN "advance" ELSE "tickdata"
    /\ UNCHANGED <<td, gCurrentFetchingTick, decided>>
    /\ UNCHANGED <<db, logVerify, indexer, restarts>>

\* The tick data is loaded unless the cached one is already for this tick,
\* then its hash is compared with the consensus.
LoadTickData ==
    /\ pc = "tickdata"
    /\ td' = IF td # None /\ TickOf[td] = gCurrentFetchingTick
             THEN td
             ELSE IF tick_data[gCurrentFetchingTick] # None
                  THEN tick_data[gCurrentFetchingTick]
                  ELSE td
    /\ pc' = IF td' = None \/ TickOf[td'] # gCurrentFetchingTick THEN "votes"
             ELSE IF td' # maxDigest THEN "delete"
             ELSE "txs"
    /\ UNCHANGED <<votes, maxDigest, gCurrentFetchingTick, decided>>
    /\ UNCHANGED <<db, logVerify, indexer, restarts>>

\* A mismatched tick data is deleted from the DB; the cached copy stays.
DeleteTickData ==
    /\ pc = "delete"
    /\ tick_data' = [tick_data EXCEPT ![gCurrentFetchingTick] = None]
    /\ pc' = "votes"
    /\ UNCHANGED <<votes, td, maxDigest, gCurrentFetchingTick, decided>>
    /\ UNCHANGED <<tick_vote, transaction, latest_tick>>
    /\ UNCHANGED <<logVerify, indexer, restarts>>

\* Mutant: the transactions are not checked.
CheckTransactions_Skipped ==
    /\ pc = "txs"
    /\ pc' = "advance"
    /\ UNCHANGED <<votes, td, maxDigest, gCurrentFetchingTick, decided>>
    /\ UNCHANGED <<db, logVerify, indexer, restarts>>

\* Every transaction the tick data lists must be stored.
CheckTransactions ==
    /\ pc = "txs"
    /\ pc' = IF TxsOf[td] \subseteq transaction THEN "advance" ELSE "votes"
    /\ UNCHANGED <<votes, td, maxDigest, gCurrentFetchingTick, decided>>
    /\ UNCHANGED <<db, logVerify, indexer, restarts>>

\* Mutant: the next tick is stored as the latest one.
UpdateLatestTick_Next ==
    /\ pc = "advance"
    /\ latest_tick' = gCurrentFetchingTick + 1
    /\ pc' = "readback"
    /\ decided' = [decided EXCEPT ![gCurrentFetchingTick] = maxDigest]
    /\ UNCHANGED <<votes, td, maxDigest, gCurrentFetchingTick>>
    /\ UNCHANGED <<tick_vote, tick_data, transaction>>
    /\ UNCHANGED <<logVerify, indexer, restarts>>

\* db_update_latest_tick_and_epoch only raises the stored tick.
UpdateLatestTick ==
    /\ pc = "advance"
    /\ latest_tick' = IF gCurrentFetchingTick > latest_tick
                      THEN gCurrentFetchingTick ELSE latest_tick
    /\ pc' = "readback"
    /\ decided' = [decided EXCEPT ![gCurrentFetchingTick] = maxDigest]
    /\ UNCHANGED <<votes, td, maxDigest, gCurrentFetchingTick>>
    /\ UNCHANGED <<tick_vote, tick_data, transaction>>
    /\ UNCHANGED <<logVerify, indexer, restarts>>

\* The stored tick is read back; the cursor moves only if it is the same.
\* Cached votes carry their tick, so those of the old tick no longer count.
AdvanceFetchingTick ==
    /\ pc = "readback"
    /\ pc' = "votes"
    /\ IF latest_tick = gCurrentFetchingTick
       THEN /\ gCurrentFetchingTick' = gCurrentFetchingTick + 1
            /\ votes' = NoVotes
       ELSE UNCHANGED <<gCurrentFetchingTick, votes>>
    /\ maxDigest' = None
    /\ UNCHANGED <<td, decided>>
    /\ UNCHANGED <<db, logVerify, indexer, restarts>>

-----------------------------------------------------------------------------
(* verifyLoggingEvent, as far as it depends on the votes *)

\* The snapshot of latest_verified_tick is loaded.
LoadSnapshot ==
    /\ gCurrentVerifyLoggingTick = 0
    /\ gCurrentVerifyLoggingTick' = latest_verified_tick + 1
    /\ UNCHANGED <<latest_verified_tick, verdict>>
    /\ UNCHANGED <<db, ioVerify, indexer, restarts>>

\* hasTickData from the stored votes of a tick; None while there are too few.
HasTickData(t) ==
    IF Count(tick_vote[t], Zero) >= EmptyQuorum THEN "empty"
    ELSE IF Cardinality({c \in Computors :
                            tick_vote[t][c] \notin {Zero, None}}) >= Quorum
    THEN "nonempty"
    ELSE None

\* The replayed batch gCurrentVerifyLoggingTick .. to matches the quorum of the
\* votes at its last tick.  The verifier waits only while the batch starts at
\* the tick being fetched; the event thread keeps
\* gCurrentFetchingLogTick <= gCurrentFetchingTick + 1, so "to" may be the
\* tick that is still being fetched.
VerifyBatch(to) ==
    /\ gCurrentVerifyLoggingTick # 0
    /\ gCurrentVerifyLoggingTick # gCurrentFetchingTick
    /\ to \in gCurrentVerifyLoggingTick .. gCurrentFetchingTick
    /\ to <= gCurrentVerifyLoggingTick + BATCH_VERIFICATION
    /\ to <= MaxTick
    /\ HasTickData(to) # None
    /\ verdict' = [verdict EXCEPT ![to] = HasTickData(to)]
    /\ latest_verified_tick' = IF to - latest_verified_tick >= SAVE_PERIOD
                               THEN to ELSE latest_verified_tick
    /\ gCurrentVerifyLoggingTick' = to + 1
    /\ UNCHANGED <<db, ioVerify, indexer, restarts>>

-----------------------------------------------------------------------------
(* indexVerifiedTicks *)

IndexTick ==
    LET nextTick == last_indexed_tick + 1 IN
    /\ nextTick < gCurrentVerifyLoggingTick
    /\ indexed' = [indexed EXCEPT ![nextTick] =
                      IF tick_data[nextTick] = None THEN Zero
                      ELSE tick_data[nextTick]]
    /\ last_indexed_tick' = nextTick
    /\ UNCHANGED <<db, ioVerify, logVerify, restarts>>

-----------------------------------------------------------------------------
\* A crash loses the cursors and the caches.  main() restores
\* gCurrentFetchingTick from latest_tick, the verifier loads its snapshot later.
Restart ==
    /\ restarts < MaxRestarts
    /\ restarts' = restarts + 1
    /\ gCurrentFetchingTick' = IF latest_tick > gInitialTick
                               THEN latest_tick ELSE gInitialTick
    /\ gCurrentVerifyLoggingTick' = 0
    /\ pc' = "votes"
    /\ votes' = NoVotes
    /\ td' = None
    /\ maxDigest' = None
    /\ UNCHANGED <<decided, latest_verified_tick, verdict, db, indexer>>

IOVerifyStep ==
    \/ LoadTickData
    \/ DeleteTickData
    \/ CheckTransactions
    \/ UpdateLatestTick
    \/ AdvanceFetchingTick

Next ==
    \/ \E v \in Votes : processTickVote(v)
    \/ \E d \in Digests : processTickData(d)
    \/ \E x \in Transactions : processTransaction(x)
    \/ \E S \in SUBSET StoredVotes : FetchVotes(S)
    \/ IOVerifyStep
    \/ LoadSnapshot
    \/ \E to \in Ticks : VerifyBatch(to)
    \/ IndexTick
    \/ Restart

Spec == Init /\ [][Next]_vars

-----------------------------------------------------------------------------
(* Type invariant *)

\* Every cursor, DB value, cache and history entry has its type.
TypeOK ==
    /\ tick_vote \in [Ticks -> [Computors -> Digests \cup {Zero, None}]]
    /\ tick_data \in [Ticks -> Digests \cup {None}]
    /\ transaction \in SUBSET Transactions
    /\ latest_tick \in Ticks \cup {0}
    /\ latest_verified_tick \in (gInitialTick - 1) .. MaxTick
    /\ last_indexed_tick \in (gInitialTick - 1) .. MaxTick
    /\ gCurrentFetchingTick \in gInitialTick .. (MaxTick + 1)
    /\ gCurrentVerifyLoggingTick \in {0} \cup gInitialTick .. (MaxTick + 1)
    /\ pc \in {"votes", "tickdata", "delete", "txs", "advance", "readback"}
    /\ votes \in [Computors -> Digests \cup {Zero, None}]
    /\ td \in Digests \cup {None}
    /\ maxDigest \in Digests \cup {Zero, None}
    /\ restarts \in 0 .. MaxRestarts
    /\ decided \in [Ticks -> Digests \cup {Zero, None}]
    /\ verdict \in [Ticks -> {"empty", "nonempty", None}]
    /\ indexed \in [Ticks -> Digests \cup {Zero, None}]

(* Safety *)

\* The fetcher (verifyQuorum, over its cached votes) and the verifier
\* (verifyNodeStateDigest, over the votes in the DB at another time, perhaps
\* before the fetcher, perhaps in another life of the process) never disagree
\* on whether a tick is empty.
FetcherAndVerifierAgree ==
    \A t \in Ticks :
        decided[t] # None /\ verdict[t] # None =>
            (decided[t] = Zero <=> verdict[t] = "empty")

\* A tick once fetched with one digest is never fetched again with another:
\* IOVerifyThread re-verifies latest_tick after each restart.
FetchedDigestIsFinal ==
    [][\A t \in Ticks : decided[t] # None => decided'[t] = decided[t]]_vars

\* Every tick behind gCurrentFetchingTick has been fetched with some digest and
\* all transactions of that tick data are stored, although the tick data of the
\* DB may be overwritten or deleted while verifyQuorum works.
FetchedTickIsComplete ==
    \A t \in Ticks :
        /\ t < gCurrentFetchingTick => decided[t] # None
        /\ decided[t] \in Digests => TxsOf[decided[t]] \subseteq transaction

\* The votes, tick data and transactions the fetcher will find for a tick are
\* enough to move past it.
Complete(t) ==
    \E d \in Consensus(tick_vote[t]) :
        d = Zero \/ (tick_data[t] = d /\ TxsOf[d] \subseteq transaction)

\* The "already verified" filter of processTickVote, processTickData and
\* processTransaction never drops what the fetcher still needs: a tick it has
\* to pass and that is filtered is complete.  A restart sets the fetcher back
\* by one tick and the verifier may be one ahead, so both ends are tight.
\* Holds as long as no tick has two tick datas.
FilterDropsNothingNeeded ==
    gCurrentVerifyLoggingTick # 0 =>
        \A t \in Ticks :
            t >= gCurrentFetchingTick /\ ~NotYetVerified(t) => Complete(t)

\* "Only proceed when the verified-compressed record exists"
\* (QubicIndexer.cpp:307): a tick verified as non-empty is indexed with its
\* tick data.
IndexedWithTickData ==
    \A t \in Ticks :
        indexed[t] # None /\ verdict[t] = "nonempty" => indexed[t] \in Digests

-----------------------------------------------------------------------------
(* Liveness *)

\* Mutant: the tick being verified counts as ahead of the verifier, so that a
\* fetcher that waits for the verifier is waited for by it.
MayRequest_OffByOne == gCurrentFetchingTick < gCurrentVerifyLoggingTick + MAX_AHEAD

\* "Don't need to fetch too far if not yet verifying": until the verifier has
\* caught up, and loaded its snapshot, IORequestThread asks for nothing.
MayRequest == gCurrentFetchingTick <= gCurrentVerifyLoggingTick + MAX_AHEAD

\* What IORequestThread keeps asking for the tick being fetched: its missing
\* tick data, votes, and the missing transactions of the tick data it has.
\* Peers answer again and again, so what is asked for often enough arrives.
RequestedVote(v) ==
    /\ MayRequest
    /\ v.tick = gCurrentFetchingTick /\ tick_vote[v.tick][v.computor] = None
RequestedTickData(d) ==
    /\ MayRequest
    /\ TickOf[d] = gCurrentFetchingTick /\ tick_data[TickOf[d]] = None
RequestedTransaction(x) ==
    /\ MayRequest
    /\ TxTick[x] = gCurrentFetchingTick /\ x \notin transaction

Fairness ==
    /\ WF_vars(IOVerifyStep)
    /\ WF_vars(FetchVotes(Computors))
    /\ WF_vars(LoadSnapshot)
    /\ WF_vars(\E to \in Ticks : VerifyBatch(to))
    /\ SF_vars(\E v \in Votes : RequestedVote(v) /\ processTickVote(v))
    /\ \A d \in Digests : SF_vars(RequestedTickData(d) /\ processTickData(d))
    /\ SF_vars(\E x \in Transactions :
                  RequestedTransaction(x) /\ processTransaction(x))

FairSpec == Spec /\ Fairness

\* Every tick is passed: the fetcher is never stuck on a tick that the
\* computors agree on and whose data peers keep sending.  Requests stop while
\* the fetcher is MAX_AHEAD ticks ahead, so this also needs the verifier to be
\* able to pass every tick the fetcher has passed.
EveryTickIsFetched == <>[](gCurrentFetchingTick > MaxTick)
=============================================================================
