----------------------------- MODULE TickStore -----------------------------
(***************************************************************************)
(* The two tiers of the database (KeyDB in memory, KVRocks on disk), the   *)
(* threads that move an indexed tick through them and the REST handlers    *)
(* that read from both: indexVerifiedTicks (QubicIndexer.cpp),             *)
(* garbageCleaner (garbageCleaner.cpp), db.cpp, bobAPI.cpp and the         *)
(* attribution of logs to transactions in the catch-up of                  *)
(* LogSubscriptionManager.cpp.                                             *)
(*                                                                         *)
(* Values never change once they are stored, so a tier is the set of its   *)
(* keys.  A vtick record of KVRocks is written with one SET and stands for *)
(* its own key and the keys of the tick data and votes inside it.          *)
(*                                                                         *)
(* Every command of the cleaner and of a handler is one step: the cleaner  *)
(* works through an agenda of calls (replaced by what the function does)   *)
(* and commands, a handler through the keys it still has to read, in KeyDB *)
(* first and in KVRocks if KeyDB has no such key.  The indexer takes two   *)
(* steps a tick: all index commands, then the cursor.  The cleaner keeps   *)
(* behind the cursor and the commands can be repeated, so what they read   *)
(* and leave does not depend on the steps between them.  A crash may fall  *)
(* between any two steps.                                                  *)
(*                                                                         *)
(* Assumed: the tick data of a tick is stored when the tick is indexed.    *)
(* The indexer does not check it (run tick_index); what becomes of a tick  *)
(* indexed without it is not modelled here.                                *)
(***************************************************************************)
EXTENDS Integers, Sequences, FiniteSets, SequencesExt, FiniteSetsExt, LogIndex

CONSTANTS
    LastTick,           \* last tick of the epoch; the first is gInitialTick
    Empty,              \* ticks without tick data, by the votes of the computors
    NUMBER_OF_TRANSACTIONS_PER_TICK,
    TickTxs,            \* per tick: indices of its non-zero transaction digests
    LogRanges,          \* per tick and index: <<fromLogId, length>>, -1 if none
    LogAt,              \* per log id: the log event
    Spam, Matching,     \* transactions, as <<tick, index>>: below gSpamThreshold; equal to the transfer they log first
    Batches,            \* the MGETs that read the votes of a tick (6)
    CLEAN_LAG,          \* ticks kept behind the indexer (5)
    gLastNTickStorage, gTxTickToLive,
    Requests, Queries,  \* what clients ask for; what they search for
    MaxFaults           \* bound: crashes, stops by the user and failed writes to KVRocks

gInitialTick == 1
Ticks == gInitialTick .. LastTick
TxIndices == 0 .. NUMBER_OF_TRANSACTIONS_PER_TICK - 1
SC_INITIALIZE_TX == NUMBER_OF_TRANSACTIONS_PER_TICK
SC_BEGIN_EPOCH_TX == NUMBER_OF_TRANSACTIONS_PER_TICK + 1
SC_BEGIN_TICK_TX == NUMBER_OF_TRANSACTIONS_PER_TICK + 2
SC_END_TICK_TX == NUMBER_OF_TRANSACTIONS_PER_TICK + 3
SC_END_EPOCH_TX == NUMBER_OF_TRANSACTIONS_PER_TICK + 4
LogIndices == 0 .. SC_END_EPOCH_TX

ASSUME StoreAssumption ==
    /\ LastTick \in Nat /\ Empty \subseteq Ticks
    /\ NUMBER_OF_TRANSACTIONS_PER_TICK \in Nat
    /\ TickTxs \in [Ticks -> SUBSET TxIndices]
    /\ \A t \in Empty : TickTxs[t] = {}
    /\ CLEAN_LAG \in Nat /\ gLastNTickStorage \in Nat /\ gTxTickToLive \in Nat
    /\ MaxFaults \in Nat

\* The pairs of modes the configuration accepts (Config.cpp).
ValidModes ==
    {m \in [tick : {"LastNTick", "Kvrocks", "Free"}, tx : {"LastNTick", "Kvrocks", "Free"}] :
        /\ m.tick = "LastNTick" => m.tx \in {"LastNTick", "Free"}
        /\ m.tick = "Kvrocks" => m.tx \in {"Kvrocks", "Free"}}

VARIABLES
    mode,       \* gTickStorageMode, gTxStorageMode
    keydb,      \* keys in KeyDB
    kvrocks,    \* keys in KVRocks
    index,      \* search index and itx records in KeyDB
    saved,      \* cursors in KeyDB: last_indexed_tick, last_clean_tick_data, last_clean_tx_tick
    gCurrentIndexingTick,
    filed,      \* the indexer has indexed the next tick, its cursor is not saved yet
    running,    \* the threads have been started
    kvOn,       \* g_kvrocks is connected
    gIsEndEpoch,
    stopFlag,   \* set by the indexer at the end of the epoch, or by the user
    gc,         \* the cleaner: pc, its cursors, agenda
    rd,         \* the REST handler at work
    faults,     \* number of crashes, stops by the user and failed writes to KVRocks
    unsaved,    \* history: keys KVRocks failed to store
    crashed,    \* history: there was a crash
    overtaken,  \* history: ticks whose log ranges were deleted before they were copied
    swept       \* history: ticks cleaned at the end of the epoch

store == <<keydb, kvrocks>>
process == <<gCurrentIndexingTick, filed, running, kvOn, gIsEndEpoch, stopFlag>>
history == <<unsaved, crashed, overtaken, swept>>
vars == <<mode, store, index, saved, process, gc, rd, faults, history>>

-----------------------------------------------------------------------------
(* Keys.  db_insert_*: what the data processors and the event thread store. *)

from(t, i) == LogRanges[t][i][1]
length(t, i) == LogRanges[t][i][2]
Ids(t, i) == from(t, i) .. from(t, i) + length(t, i) - 1
LogIds == DOMAIN LogAt
\* The members of a finite set of numbers in their order.
Rank(S, x) == Cardinality({y \in S : y <= x})
Ascending(S) == [k \in 1 .. Cardinality(S) |-> CHOOSE x \in S : Rank(S, x) = k]

db_insert_tick_data(t) == IF t \in Empty THEN {} ELSE {<<"tick_data", t, 0>>}
db_insert_tick_vote(t) == {<<"tick_vote", t, b>> : b \in Batches}
db_insert_transaction(t) == {<<"transaction", t, i>> : i \in TickTxs[t]}
db_insert_log(t) == {<<"log", l, 0>> : l \in {l \in LogIds : LogAt[l].tick = t}}

\* log_ranges and its summary tick_log_range, the hull of the ranges.
Hull == [t \in Ticks |->
    LET used == {i \in LogIndices : from(t, i) # -1 /\ length(t, i) # -1}
    IN  IF used = {} THEN {}
        ELSE Min({from(t, i) : i \in used}) .. Max({from(t, i) + length(t, i) : i \in used}) - 1]
db_insert_log_range(t) == {<<"log_ranges", t, 0>>, <<"tick_log_range", t, 0>>}

\* The ranges of a tick hold logs of that tick, and their hull all of them.
ASSUME LogAssumption ==
    /\ IsFiniteSet(Batches) /\ Batches # {} /\ \A b \in Batches : b \in Nat
    /\ \A id \in LogIds : id \in Nat
    /\ LogRanges \in [Ticks -> [LogIndices -> Int \X Int]]
    /\ \A t \in Ticks, i \in LogIndices : \A id \in Ids(t, i) :
           id \in LogIds /\ LogAt[id].tick = t
    /\ \A t \in Ticks : Hull[t] = {id \in LogIds : LogAt[id].tick = t}

\* A transaction equal to the transfer it logs first has logged one.
ASSUME MatchingAssumption ==
    \A p \in Matching : length(p[1], p[2]) > 0 /\ LogAt[from(p[1], p[2])].type = QU_TRANSFER

\* "ANY" stands for no topic.  No topic is written like that: db_search_log takes
\* identities of 60 letters, and indexTick writes every topic as one.
ASSUME TopicAssumption ==
    /\ \A q \in Queries : \A j \in 1 .. 3 : q.topics[j] # "ANY"
    /\ \A id \in LogIds :
           /\ "ANY" \notin {LogAt[id].source, LogAt[id].destination, LogAt[id].asset,
                           LogAt[id].name, LogAt[id].contract}
           /\ LogAt[id].scLogType \in Nat

Raw == [t \in Ticks |-> db_insert_tick_data(t) \cup db_insert_tick_vote(t)]
Executed == [t \in Ticks |-> db_insert_transaction(t) \cup db_insert_log(t)]
LogRangeKeys == [t \in Ticks |-> db_insert_log_range(t)]
TickKeys == [t \in Ticks |-> Raw[t] \cup Executed[t] \cup LogRangeKeys[t]]

\* The order of the log ranges of a tick; the position of a log in it.
sort(t) ==
    SelectSeq(<<SC_INITIALIZE_TX, SC_BEGIN_EPOCH_TX, SC_BEGIN_TICK_TX>>
              \o [i \in 1 .. NUMBER_OF_TRANSACTIONS_PER_TICK |-> i - 1]
              \o <<SC_END_TICK_TX, SC_END_EPOCH_TX>>,
              LAMBDA i : from(t, i) # -1)
scanTxId(t, startFrom, id) ==
    LET hits == {k \in startFrom .. Len(sort(t)) : id \in Ids(t, sort(t)[k])}
    IN  IF hits = {} THEN 1 ELSE Min(hits)

-----------------------------------------------------------------------------
(* Reads *)

Kvrocks(k) == kvOn /\ k \in kvrocks

db_get_tick_data(t) == <<"tick_data", t, 0>> \in keydb
db_get_tick_votes(t) == {b \in Batches : <<"tick_vote", t, b>> \in keydb}
db_get_vtick_from_kvrocks(t) == Kvrocks(<<"vtick", t, 0>>)
db_try_get_tick_data(t) == db_get_tick_data(t) \/ db_get_vtick_from_kvrocks(t)
db_get_log_ranges(t) == <<"log_ranges", t, 0>> \in keydb
db_get_cLogRange_from_kvrocks(t) == Kvrocks(<<"log_ranges", t, 0>>)
db_try_get_log_ranges(t) == db_get_log_ranges(t) \/ db_get_cLogRange_from_kvrocks(t)
db_try_get_log_range_for_tick(t) ==
    \/ <<"tick_log_range", t, 0>> \in keydb
    \/ Kvrocks(<<"tick_log_range", t, 0>>)
db_get_log(id) == <<"log", id, 0>> \in keydb
db_try_get_log(id) == db_get_log(id) \/ Kvrocks(<<"log", id, 0>>)
db_try_get_logs(ids) == {id \in ids : db_try_get_log(id)}
db_get_transaction(t, i) == <<"transaction", t, i>> \in keydb
db_try_get_transaction(t, i) == db_get_transaction(t, i) \/ Kvrocks(<<"transaction", t, i>>)

-----------------------------------------------------------------------------
(* Commands of the cleaner *)

Command(op, t, keys) == <<[op |-> op, t |-> t, keys |-> keys]>>
Call(function, t) == Command(function, t, {})
Unlink(keys) == Command("unlink", 0, keys)
Copy(keys) == Command("set", 0, keys)

\* The sequences f[x] one after the other, in the order of the numbers x.
Concat(f) == FlattenSeq([k \in 1 .. Cardinality(DOMAIN f) |-> f[Ascending(DOMAIN f)[k]]])

db_delete_tick_data(t) == Unlink({<<"tick_data", t, 0>>})
db_delete_tick_vote(t) == Unlink(db_insert_tick_vote(t))
db_delete_transaction(t, i) == Unlink({<<"transaction", t, i>>})
db_delete_logs(ids) == Concat([id \in ids |-> Unlink({<<"log", id, 0>>})])
db_delete_log_ranges(t) == Unlink({<<"log_ranges", t, 0>>}) \o Unlink({<<"tick_log_range", t, 0>>})

db_copy_transaction_to_kvrocks(t, i) ==
    IF kvOn /\ db_get_transaction(t, i) THEN Copy({<<"transaction", t, i>>}) ELSE << >>
db_move_log_to_kvrocks(id) ==
    IF kvOn /\ db_get_log(id) THEN Copy({<<"log", id, 0>>}) ELSE << >>
db_move_logs_to_kvrocks_by_range(ids) == Concat([id \in ids |-> db_move_log_to_kvrocks(id)])

\* The record holds the votes that were read and the tick data, if there is one.
db_insert_vtick_to_kvrocks(t, votes) ==
    Command("vtick", t, {<<"vtick", t, 0>>} \cup {<<"tick_vote", t, b>> : b \in votes}
                        \cup {k \in {<<"tick_data", t, 0>>} : k \in keydb})
db_insert_cLogRange_to_kvrocks(t) == Copy({<<"log_ranges", t, 0>>})
db_insert_TickLogRange_to_kvrocks(t) == Copy({<<"tick_log_range", t, 0>>})

compressTickAndMoveToKVRocks(t) ==
    LET votes == db_get_tick_votes(t)
    IN  IF db_get_tick_data(t) \/ (t \in Empty /\ votes = Batches)
        THEN db_insert_vtick_to_kvrocks(t, votes)
        ELSE << >>

\* The rest of compressTickAndMoveToKVRocks, once the record is stored.
CompressRanges(t) ==
    (IF db_try_get_log_ranges(t) THEN db_insert_cLogRange_to_kvrocks(t) ELSE << >>)
    \o (IF db_try_get_log_range_for_tick(t) THEN db_insert_TickLogRange_to_kvrocks(t) ELSE << >>)

cleanTransactionAndLogsAndSaveToDisk(t) ==
    Concat([i \in IF <<"tick_data", t, 0>> \in keydb \cup kvrocks THEN TickTxs[t] ELSE {} |->
            (IF mode.tx = "Kvrocks" THEN db_copy_transaction_to_kvrocks(t, i) ELSE << >>)
            \o (IF from(t, i) > 0 /\ length(t, i) > 0
                THEN (IF mode.tx = "Kvrocks" THEN db_move_logs_to_kvrocks_by_range(Ids(t, i))
                      ELSE << >>)
                     \o db_delete_logs(Ids(t, i))
                ELSE << >>)
            \o db_delete_transaction(t, i)])

cleanTransactionLogs(t) ==
    IF db_try_get_tick_data(t) /\ db_try_get_log_ranges(t)
    THEN db_delete_log_ranges(t) \o cleanTransactionAndLogsAndSaveToDisk(t)
    ELSE << >>

\* Mutant: the votes are deleted before the tick data.
VotesFirst(t, withTransactions) ==
    (IF withTransactions THEN Call("cleanTransactionLogs", t) ELSE << >>)
    \o db_delete_tick_vote(t)
    \o db_delete_tick_data(t)

cleanRawTick(t, withTransactions) ==
    (IF withTransactions THEN Call("cleanTransactionLogs", t) ELSE << >>)
    \o db_delete_tick_data(t)
    \o db_delete_tick_vote(t)

-----------------------------------------------------------------------------
(* Start and crash *)

NoRequest == [api |-> "none", from |-> 0, to |-> 0, sc |-> 0, logType |-> 0,
              topics |-> <<Zero, Zero, Zero>>, sub |-> {}]

\* A handler: its request; the keys and local steps ahead; whether KeyDB has
\* missed the first key; the tick data and log ranges it holds (their tick, or 0);
\* its position in sort(); votes; the logs of db_get_logs_by_tick_range; its
\* answer; whether it used an index out of bounds; whether it looked for a key
\* before KVRocks was connected.
NewHandler(r) ==
    [q |-> r, todo |-> << >>, missed |-> FALSE, td |-> 0, lr |-> 0, cursor |-> 1,
     votes |-> {}, out |-> << >>, fault |-> FALSE, early |-> FALSE]

CleanerOff == [pc |-> "off", tick |-> 0, tx |-> 0, agenda |-> << >>]

Init ==
    /\ mode \in ValidModes
    /\ keydb = UNION {TickKeys[t] : t \in Ticks}
    /\ kvrocks = {}
    /\ index = {}
    /\ saved = [indexed |-> gInitialTick - 1, tick |-> 0, tx |-> 0]
    /\ gCurrentIndexingTick = 0
    /\ filed = FALSE
    /\ running = FALSE
    /\ kvOn = FALSE
    /\ gIsEndEpoch = FALSE
    /\ stopFlag = FALSE
    /\ gc = CleanerOff
    /\ rd = NewHandler(NoRequest)
    /\ faults = 0
    /\ unsaved = {}
    /\ crashed = FALSE
    /\ overtaken = {}
    /\ swept = {}

\* KVRocks is connected and the threads start; the REST server is up before that.
\* The cleaner sleeps before it first looks at the indexer's cursor: the indexer
\* has loaded it by then.
StartThreads ==
    /\ ~running
    /\ kvOn' = (mode.tick = "Kvrocks")
    /\ running' = TRUE
    /\ gCurrentIndexingTick' = saved.indexed
    /\ gc' = [CleanerOff EXCEPT
                !.pc = IF mode.tick = "Free" /\ mode.tx = "Free" THEN "off" ELSE "tick",
                !.tick = Max({saved.tick, gInitialTick}),
                !.tx = Max({saved.tx, gInitialTick})]
    /\ UNCHANGED <<mode, store, index, saved, filed, gIsEndEpoch, stopFlag, rd, faults, history>>

\* What is left when the process has ended.
ProcessEnds ==
    /\ gCurrentIndexingTick' = 0
    /\ filed' = FALSE
    /\ running' = FALSE
    /\ kvOn' = FALSE
    /\ gIsEndEpoch' = FALSE
    /\ stopFlag' = FALSE
    /\ gc' = CleanerOff
    /\ rd' = NewHandler(NoRequest)
    /\ UNCHANGED <<mode, store, index, saved, unsaved, overtaken, swept>>

Crash ==
    /\ faults < MaxFaults /\ gc.pc # "exited"
    /\ faults' = faults + 1
    /\ crashed' = TRUE
    /\ ProcessEnds

\* The event thread meets the log of the end of the epoch; the indexer may be behind.
EndEpochLogged ==
    /\ running /\ ~gIsEndEpoch
    /\ gIsEndEpoch' = TRUE
    /\ UNCHANGED <<mode, store, index, saved, gCurrentIndexingTick, filed, running, kvOn,
                   stopFlag, gc, rd, faults, history>>

\* A signal.
UserStops ==
    /\ running /\ ~stopFlag
    /\ faults < MaxFaults
    /\ faults' = faults + 1
    /\ stopFlag' = TRUE
    /\ UNCHANGED <<mode, store, index, saved, gCurrentIndexingTick, filed, running, kvOn,
                   gIsEndEpoch, gc, rd, history>>

\* All threads have returned and the program is started again before the epoch is done.
Restart ==
    /\ stopFlag /\ ~filed /\ gCurrentIndexingTick < LastTick
    /\ gc.pc \in {"off", "exited"} /\ rd.q.api = "none"
    /\ ProcessEnds
    /\ UNCHANGED <<faults, crashed>>

-----------------------------------------------------------------------------
(* The indexer *)

\* db_get_logs_by_tick_range for one tick.
db_get_logs_by_tick_range(t) ==
    IF db_try_get_log_range_for_tick(t) THEN db_try_get_logs(Hull[t]) ELSE {}

\* Transactions without a record: spam that logged a transfer.
NotIndexed(t, i) ==
    /\ length(t, i) > 0
    /\ LogAt[from(t, i)].type = QU_TRANSFER
    /\ db_try_get_transaction(t, i)
    /\ <<t, i>> \in Spam

isExecuted(t, i) ==
    /\ length(t, i) > 0
    /\ db_try_get_log(from(t, i)) /\ LogAt[from(t, i)].type = QU_TRANSFER
    /\ db_try_get_transaction(t, i) /\ <<t, i>> \in Matching

db_set_indexed_tx(t, i, executed) == <<<<"itx", t, i, executed>>, t>>

\* The itx records and search keys of a tick.
indexTick(t) ==
    {db_set_indexed_tx(t, i, isExecuted(t, i)) :
        i \in {i \in IF db_try_get_tick_data(t) THEN TickTxs[t] ELSE {} : ~NotIndexed(t, i)}}
    \cup {db_set_indexed_tx(t, i, TRUE) : i \in SC_INITIALIZE_TX .. SC_END_EPOCH_TX}
    \cup IndexLogs(t, {LogAt[id] : id \in db_get_logs_by_tick_range(t)})

\* The cursor only grows.
db_update_last_indexed_tick(t) == Max({saved.indexed, t})

IndexTick ==
    /\ running /\ ~stopFlag /\ ~filed
    /\ gCurrentIndexingTick < LastTick
    /\ index' = index \cup indexTick(gCurrentIndexingTick + 1)
    /\ filed' = TRUE
    /\ UNCHANGED <<mode, store, saved, gCurrentIndexingTick, running, kvOn, gIsEndEpoch,
                   stopFlag, gc, rd, faults, history>>

\* The cursor is saved, whether or not the indexer is to stop.
TickIndexed ==
    /\ filed
    /\ saved' = [saved EXCEPT !.indexed = db_update_last_indexed_tick(gCurrentIndexingTick + 1)]
    /\ gCurrentIndexingTick' = gCurrentIndexingTick + 1
    /\ filed' = FALSE
    /\ UNCHANGED <<mode, store, index, running, kvOn, gIsEndEpoch, stopFlag, gc, rd,
                   faults, history>>

\* The last tick of the epoch is indexed.
IndexerEnds ==
    /\ running /\ ~stopFlag /\ ~filed
    /\ gCurrentIndexingTick = LastTick /\ gIsEndEpoch
    /\ stopFlag' = TRUE
    /\ UNCHANGED <<mode, store, index, saved, gCurrentIndexingTick, filed, running, kvOn,
                   gIsEndEpoch, gc, rd, faults, history>>

-----------------------------------------------------------------------------
(* The cleaner *)

SaveTick(t) == Command("saveTick", t, {})
SaveTx(t) == Command("saveTx", t, {})

\* Mutant: the cursor is saved before the ticks are deleted.
SaveThenClean(first, last, withTransactions) ==
    (IF mode.tick = "Kvrocks"
     THEN Concat([t \in first .. last |-> Call("compressTickAndMoveToKVRocks", t)]) ELSE << >>)
    \o SaveTick(last)
    \o Concat([t \in first .. last |-> cleanRawTick(t, withTransactions)])

\* From one tick to another: copy to KVRocks if that is the mode, delete, save.
CleanTicks(first, last, withTransactions) ==
    (IF mode.tick = "Kvrocks"
     THEN Concat([t \in first .. last |-> Call("compressTickAndMoveToKVRocks", t)]) ELSE << >>)
    \o Concat([t \in first .. last |-> cleanRawTick(t, withTransactions)])
    \o SaveTick(last)

TickTarget ==
    IF mode.tick = "LastNTick"
    THEN Min({gCurrentIndexingTick - CLEAN_LAG, gCurrentIndexingTick - 1 - gLastNTickStorage})
    ELSE gCurrentIndexingTick - CLEAN_LAG
TxTarget == Min({gCurrentIndexingTick - CLEAN_LAG, gCurrentIndexingTick - 1 - gTxTickToLive})

\* One round of the loop of garbageCleaner: first the ticks, then the transactions.
TickPass ==
    /\ gc.pc = "tick" /\ gc.agenda = << >> /\ ~stopFlag
    /\ gc' = [gc EXCEPT
                !.pc = "tx",
                !.agenda = IF mode.tick # "Free" /\ gc.tick < TickTarget
                           THEN CleanTicks(gc.tick + 1, TickTarget, mode.tx = "LastNTick")
                           ELSE << >>]
    /\ UNCHANGED <<mode, store, index, saved, process, rd, faults, history>>

\* The pass over the transactions looks at the indexer anew.  Ticks beyond the pass
\* over the ticks are overtaken: their log ranges go before KVRocks has them.
TxPass ==
    /\ gc.pc = "tx" /\ gc.agenda = << >>
    /\ gc' = [gc EXCEPT
                !.pc = "tick",
                !.agenda = IF mode.tx = "Kvrocks" /\ gc.tx < TxTarget
                           THEN Concat([t \in gc.tx + 1 .. TxTarget |-> Call("cleanTransactionLogs", t)])
                                \o SaveTx(TxTarget)
                           ELSE << >>]
    /\ overtaken' = overtaken \cup
           {t \in gc.tx + 1 .. TxTarget : mode.tick = "Kvrocks" /\ mode.tx = "Kvrocks" /\ t > gc.tick}
    /\ UNCHANGED <<mode, store, index, saved, process, rd, faults, unsaved, crashed, swept>>

\* The loop ends; if the epoch has ended, everything but the last indexed tick goes,
\* whether the indexer is done or the user stops the program before it is.
EndPass ==
    /\ gc.pc = "tick" /\ gc.agenda = << >> /\ stopFlag
    /\ LET all == gIsEndEpoch /\ mode.tick # "Free" /\ gc.tick < gCurrentIndexingTick - 1
       IN  /\ gc' = [gc EXCEPT
                       !.pc = "end",
                       !.agenda = IF all THEN CleanTicks(gc.tick + 1, gCurrentIndexingTick - 1, TRUE)
                                  ELSE << >>]
           /\ swept' = IF all THEN swept \cup (gc.tick + 1 .. gCurrentIndexingTick - 1) ELSE swept
    /\ UNCHANGED <<mode, store, index, saved, process, rd, faults, unsaved, crashed, overtaken>>

CleanerExits ==
    /\ gc.pc = "end" /\ gc.agenda = << >>
    /\ gc' = [gc EXCEPT !.pc = "exited"]
    /\ UNCHANGED <<mode, store, index, saved, process, rd, faults, history>>

Next1 == Head(gc.agenda)
At(op) == gc.agenda # << >> /\ Next1.op = op
Continue(todo) == [gc EXCEPT !.agenda = todo \o Tail(@)]

\* A function is entered.
CleanerCalls ==
    /\ \/ /\ At("compressTickAndMoveToKVRocks")
          /\ gc' = Continue(compressTickAndMoveToKVRocks(Next1.t))
       \/ /\ At("cleanTransactionLogs")
          /\ gc' = Continue(cleanTransactionLogs(Next1.t))
    /\ UNCHANGED <<mode, store, index, saved, process, rd, faults, history>>

\* A record replaces the one stored before.
StoreVtick ==
    /\ At("vtick")
    /\ kvrocks' = (kvrocks \ Raw[Next1.t]) \cup Next1.keys
    /\ gc' = Continue(CompressRanges(Next1.t))
    /\ UNCHANGED <<mode, keydb, index, saved, process, rd, faults, history>>

StoreCopy ==
    /\ At("set")
    /\ kvrocks' = kvrocks \cup Next1.keys
    /\ gc' = Continue(<< >>)
    /\ UNCHANGED <<mode, keydb, index, saved, process, rd, faults, history>>

\* KVRocks does not answer: the function logs it and returns; its callers go on.
KvrocksFails ==
    /\ At("vtick") \/ At("set")
    /\ faults < MaxFaults
    /\ faults' = faults + 1
    /\ unsaved' = unsaved \cup Next1.keys
    /\ gc' = Continue(<< >>)
    /\ UNCHANGED <<mode, store, index, saved, process, rd, crashed, overtaken, swept>>

DeleteKeys ==
    /\ At("unlink")
    /\ keydb' = keydb \ Next1.keys
    /\ gc' = Continue(<< >>)
    /\ UNCHANGED <<mode, kvrocks, index, saved, process, rd, faults, history>>

db_insert_u32 ==
    /\ \/ /\ At("saveTick")
          /\ saved' = [saved EXCEPT !.tick = Next1.t]
          /\ gc' = [Continue(<< >>) EXCEPT !.tick = Next1.t]
       \/ /\ At("saveTx")
          /\ saved' = [saved EXCEPT !.tx = Next1.t]
          /\ gc' = [Continue(<< >>) EXCEPT !.tx = Next1.t]
    /\ UNCHANGED <<mode, store, index, process, rd, faults, history>>

-----------------------------------------------------------------------------
(* The REST handlers *)

KeysOf(kind, S) == [k \in 1 .. Cardinality(S) |-> <<kind, Ascending(S)[k], 0>>]
TickAndRanges(t) == <<<<"tick_data", t, 0>>, <<"log_ranges", t, 0>>>>
TransferApis == {"quTransfers", "assetTransfers", "allAssetTransfers"}
Apis == {"tick", "tx", "log", "getlogcustom", "catchUp", "catchUpByLogId"} \cup TransferApis

\* A tick or a transaction is asked for by a tick of the epoch.
ASSUME RequestAssumption ==
    \A q \in Requests : q.api \in Apis /\ (q.api \in {"tick", "tx"} => q.from \in Ticks)

\* bobGetTick: tick data, range of log ids, then db_try_get_tick_vote.
bobGetTick(q) ==
    <<<<"tick_data", q.from, 0>>, <<"tick_log_range", q.from, 0>>>>
    \o [k \in 1 .. Cardinality(Batches) |-> <<"tick_vote", q.from, Ascending(Batches)[k]>>]
    \o <<<<"vtick", q.from, 0>>>>
bobGetTransaction(q) == <<<<"transaction", q.from, q.to>>, <<"itx", q.from, q.to>>>>
bobGetLog(q) == KeysOf("log", q.from .. q.to)
\* The logs of all ticks are read first, then attributed one after the other.
getCustomLog(q) == KeysOf("tick_log_range", q.from .. q.to)
performCatchUp(q) == KeysOf("tick_log_range", q.from .. q.to)
performCatchUpByLogId(q) == KeysOf("log", q.from .. q.to)

\* The ticks the search finds, those of outgoing transfers before the incoming ones.
Search(q, sc, type, topics) ==
    LET found == db_search_log(index, [sc |-> sc, logType |-> type, topics |-> topics], q.from, q.to)
        ticks == Ascending(found)
    IN  [k \in 1 .. 2 * Len(ticks) |->
            <<IF k % 2 = 1 THEN "log_ranges" ELSE "tick_data", ticks[(k + 1) \div 2], 0>>]
getQuTransfersForIdentity(q) ==
    Search(q, 0, QU_TRANSFER, <<q.topics[1], Zero, Zero>>)
    \o <<<<"incoming", 0, 0>>>>
    \o Search(q, 0, QU_TRANSFER, <<Zero, q.topics[1], Zero>>)
getAssetTransfersForIdentity(q) ==
    Search(q, 0, ASSET_OWNERSHIP_CHANGE, <<q.topics[1], Zero, q.topics[3]>>)
    \o <<<<"incoming", 0, 0>>>>
    \o Search(q, 0, ASSET_OWNERSHIP_CHANGE, <<Zero, q.topics[1], q.topics[3]>>)
getAllAssetTransfers(q) ==
    Search(q, 0, ASSET_OWNERSHIP_CHANGE, <<Zero, Zero, q.topics[3]>>)
    \o <<<<"incoming", 0, 0>>>>

Plan(q) ==
    CASE q.api = "tick" -> bobGetTick(q)
      [] q.api = "tx" -> bobGetTransaction(q)
      [] q.api = "log" -> bobGetLog(q)
      [] q.api = "getlogcustom" -> getCustomLog(q)
      [] q.api = "catchUp" -> performCatchUp(q)
      [] q.api = "catchUpByLogId" -> performCatchUpByLogId(q)
      [] q.api = "quTransfers" -> getQuTransfersForIdentity(q)
      [] q.api = "assetTransfers" -> getAssetTransfersForIdentity(q)
      [] q.api = "allAssetTransfers" -> getAllAssetTransfers(q)

\* The ticks a request touches.
TicksOf(q) ==
    CASE q.api \in {"tick", "tx"} -> {q.from}
      [] q.api \in {"log", "catchUpByLogId"} -> {LogAt[id].tick : id \in q.from .. q.to}
      [] OTHER -> q.from .. q.to

Request(q) ==
    /\ rd.q.api = "none" /\ gc.pc # "exited"
    /\ \A t \in TicksOf(q) : t <= saved.indexed
    /\ rd' = [NewHandler(q) EXCEPT !.todo = Plan(q)]
    /\ UNCHANGED <<mode, store, index, saved, process, gc, faults, history>>

\* The filter of getCustomLog: it ignores the topics of a protocol log and the log
\* type of a contract's.
CustomMatch(q, e) ==
    \/ q.sc = 0 /\ ~isSCType(e) /\ e.type = q.logType
    \/ /\ isSCType(e) /\ e.sc = q.sc
       /\ \A j \in 1 .. 3 : q.topics[j] \in {Zero, <<e.source, e.destination, e.asset>>[j]}

\* Whether a log is a transfer the request asks for.
TransferMatch(q, incoming, e) ==
    LET party == IF incoming THEN e.destination ELSE e.source
    IN  IF q.api = "quTransfers" THEN e.type = QU_TRANSFER /\ party = q.topics[1]
        ELSE /\ e.type \in {ASSET_OWNERSHIP_CHANGE, ASSET_POSSESSION_CHANGE}
             /\ e.asset = q.topics[3]
             /\ q.api = "assetTransfers" => party = q.topics[1]

\* The logs of the ranges held, range by range.
RangeLogs(t) ==
    Concat([i \in {i \in LogIndices : from(t, i) # -1} |->
        [k \in 1 .. length(t, i) |-> <<"log", from(t, i) + k - 1, i>>]])

\* The id by which a log's transaction is looked up: catch-up by log id takes the
\* first id of the batch.
LookupId(h, id) == IF h.q.api = "catchUpByLogId" THEN h.q.from ELSE id

\* Mutant: the cursor stays where it is once the logs of its range are done.
EmitStays(h, id) ==
    LET order == IF h.lr = 0 THEN << >> ELSE sort(h.lr)
    IN  IF h.cursor > Len(order) THEN [h EXCEPT !.todo = << >>, !.fault = TRUE]
        ELSE IF h.q.api = "getlogcustom" /\ ~CustomMatch(h.q, LogAt[id]) THEN h
        ELSE [h EXCEPT !.out = Append(@, <<id, order[h.cursor], h.td>>)]

\* Take the transaction at the cursor, or at the next position if the log lies
\* behind its range; catch-up searches for that position.  Positions outside sort()
\* are read out of bounds.
Emit(h, id) ==
    LET order == IF h.lr = 0 THEN << >> ELSE sort(h.lr)
        behind == h.cursor <= Len(order)
                  /\ LookupId(h, id) >= from(h.lr, order[h.cursor]) + length(h.lr, order[h.cursor])
        next == IF ~behind THEN h.cursor
                ELSE IF h.q.api \in {"catchUp", "catchUpByLogId"}
                     THEN scanTxId(h.lr, h.cursor + 1, LookupId(h, id))
                     ELSE h.cursor + 1
        g == [h EXCEPT !.cursor = next]
    IN  IF next > Len(order) THEN [h EXCEPT !.todo = << >>, !.fault = TRUE]
        ELSE IF h.q.api = "getlogcustom" /\ ~CustomMatch(h.q, LogAt[id]) THEN g
        ELSE [g EXCEPT !.out = Append(@, <<id, order[next], h.td>>)]

\* Find the log in the ranges just read.
Attribute(h, id) ==
    Emit([h EXCEPT !.todo = Tail(@),
                   !.cursor = IF h.lr = 0 THEN 1 ELSE scanTxId(h.lr, 1, LookupId(h, id))], id)

\* The next log: if the handler holds the data of another tick, read tick data and
\* ranges first.  Catch-up skips logs of other subscriptions.
Visit(h, id) ==
    IF h.q.api \in {"catchUp", "catchUpByLogId"} /\ id \notin h.q.sub THEN h
    ELSE IF LogAt[id].tick = h.td THEN Emit(h, id)
    ELSE [h EXCEPT !.todo = TickAndRanges(LogAt[id].tick) \o <<<<"attribute", id, 0>>>> \o @]

\* The handler h has looked for its first key k; found: the database had it.
Take(h, k, found) ==
    LET rest == Tail(h.todo)
        g == [h EXCEPT !.todo = rest, !.missed = FALSE]
        q == h.q
    IN  CASE k[1] = "tick_data" ->
                 LET held == IF found /\ k[2] \notin Empty THEN k[2] ELSE 0
                 IN  IF q.api \in TransferApis /\ held # 0 /\ h.lr # 0
                     THEN [g EXCEPT !.td = held, !.todo = RangeLogs(h.lr) \o rest]
                     ELSE [g EXCEPT !.td = held]
          [] k[1] = "log_ranges" -> [g EXCEPT !.lr = IF found THEN k[2] ELSE 0]
          [] k[1] = "tick_log_range" /\ q.api = "tick" ->
                 [g EXCEPT !.out = Append(@, IF found THEN Hull[k[2]] ELSE {})]
          [] k[1] = "tick_log_range" /\ q.api # "tick" ->
                 IF found THEN [g EXCEPT !.todo = KeysOf("log", Hull[k[2]]) \o rest]
                 ELSE IF q.api = "catchUp" THEN [g EXCEPT !.todo = << >>]
                 ELSE [g EXCEPT !.todo = SelectSeq(rest, LAMBDA x : x[1] = "visit")]
          [] k[1] = "tick_vote" -> IF found THEN [g EXCEPT !.votes = @ \cup {k[3]}] ELSE g
          [] k[1] = "vtick" ->
                 IF h.votes = {} /\ found
                 THEN [g EXCEPT !.votes = {b \in Batches : <<"tick_vote", k[2], b>> \in kvrocks}]
                 ELSE g
          [] k[1] = "transaction" ->
                 IF found THEN [g EXCEPT !.out = <<"found">>] ELSE [g EXCEPT !.todo = << >>]
          [] k[1] = "log" /\ q.api = "log" ->
                 IF found THEN Visit(g, k[2])
                 ELSE [g EXCEPT !.out = Append(@, <<k[2], -1, 0>>)]
          [] k[1] = "log" /\ q.api \in {"getlogcustom", "catchUp", "catchUpByLogId"} ->
                 IF found THEN [g EXCEPT !.todo = Append(rest, <<"visit", k[2], 0>>)] ELSE g
          [] k[1] = "log" /\ q.api \in TransferApis ->
                 LET incoming == ~\E i \in 1 .. Len(rest) : rest[i][1] = "incoming"
                     entry == <<IF incoming THEN "in" ELSE "out", h.td, k[3]>>
                 IN  IF found /\ TransferMatch(q, incoming, LogAt[k[2]]) /\ ~Contains(h.out, entry)
                     THEN [g EXCEPT !.out = Append(@, entry)]
                     ELSE g

NextKey == Head(rd.todo)
Reading(kinds) == rd.q.api # "none" /\ rd.todo # << >> /\ NextKey[1] \in kinds
TieredKinds == {"tick_data", "log_ranges", "tick_log_range", "log", "transaction"}
\* The key in the database; a log is read for a range index of its tick.
DbKey(k) == IF k[1] = "log" THEN <<"log", k[2], 0>> ELSE k

ReadKeyDB ==
    /\ Reading(TieredKinds) /\ ~rd.missed
    /\ rd' = IF DbKey(NextKey) \in keydb THEN Take(rd, NextKey, TRUE)
             ELSE [rd EXCEPT !.missed = TRUE]
    /\ UNCHANGED <<mode, store, index, saved, process, gc, faults, history>>

ReadKvrocks ==
    /\ \/ Reading(TieredKinds) /\ rd.missed
       \/ Reading({"vtick"})
    /\ rd' = [Take(rd, NextKey, Kvrocks(DbKey(NextKey)))
                EXCEPT !.early = @ \/ (mode.tick = "Kvrocks" /\ ~kvOn)]
    /\ UNCHANGED <<mode, store, index, saved, process, gc, faults, history>>

\* One MGET of db_get_tick_votes; db_get_indexed_tx.  KeyDB only.
ReadVotes ==
    /\ Reading({"tick_vote"})
    /\ rd' = Take(rd, NextKey, NextKey \in keydb)
    /\ UNCHANGED <<mode, store, index, saved, process, gc, faults, history>>

db_get_indexed_tx ==
    /\ Reading({"itx"})
    /\ rd' = [rd EXCEPT
                !.todo = << >>,
                !.out = @ \o SetToSeq({p[1][4] : p \in {p \in index :
                                Len(p[1]) = 4 /\ p[1][2] = NextKey[2] /\ p[1][3] = NextKey[3]}})]
    /\ UNCHANGED <<mode, store, index, saved, process, gc, faults, history>>

Compute ==
    /\ Reading({"visit", "attribute", "incoming"})
    /\ rd' = CASE NextKey[1] = "visit" -> Visit([rd EXCEPT !.todo = Tail(@)], NextKey[2])
               [] NextKey[1] = "attribute" -> Attribute(rd, NextKey[2])
               [] OTHER -> [rd EXCEPT !.todo = Tail(@)]
    /\ UNCHANGED <<mode, store, index, saved, process, gc, faults, history>>

Reply ==
    /\ rd.q.api # "none" /\ rd.todo = << >>
    /\ rd' = NewHandler(NoRequest)
    /\ UNCHANGED <<mode, store, index, saved, process, gc, faults, history>>

-----------------------------------------------------------------------------

Indexer == IndexTick \/ TickIndexed \/ IndexerEnds
Process == StartThreads \/ Crash \/ EndEpochLogged \/ UserStops \/ Restart
Commands == CleanerCalls \/ StoreVtick \/ StoreCopy \/ KvrocksFails \/ DeleteKeys \/ db_insert_u32
Cleaner == TickPass \/ TxPass \/ EndPass \/ CleanerExits \/ Commands
Handler ==
    \/ \E q \in Requests : Request(q)
    \/ ReadKeyDB \/ ReadKvrocks \/ ReadVotes \/ db_get_indexed_tx \/ Compute \/ Reply

Next == Process \/ Indexer \/ Cleaner \/ Handler

Spec == Init /\ [][Next]_vars

-----------------------------------------------------------------------------
(* Properties *)

Recent(t, n) == t > saved.indexed - 1 - n

\* What the configuration promises of an indexed tick: the last ticks, or all ticks.
\* ("free ... Implies no garbage cleaner", CONFIG_FILE.MD; "leave cleanup to keydb",
\* Config.cpp; "how long transactions stay in RAM", Config.h.)
Promised(t) ==
    LET tx == mode.tick = "LastNTick" /\ mode.tx = "LastNTick" => Recent(t, gLastNTickStorage)
    IN  (IF mode.tick = "LastNTick" => Recent(t, gLastNTickStorage) THEN Raw[t] ELSE {})
        \cup (IF mode.tick = "Kvrocks" \/ tx THEN LogRangeKeys[t] ELSE {})
        \cup (IF tx THEN Executed[t] ELSE {})

\* What the cleaner deletes all the same and copies nowhere: the ticks it goes over
\* at the end of the epoch, the transactions with mode free too; and, with ticks
\* "free" and transactions "kvrocks", the transactions past their time to live,
\* since KVRocks is only connected with ticks "kvrocks".
Dropped(t) ==
    (IF t \in swept /\ mode.tick = "LastNTick" THEN Raw[t] \cup LogRangeKeys[t] ELSE {})
    \cup (IF t \in swept /\ mode.tx # "Kvrocks" THEN Executed[t] ELSE {})
    \cup (IF mode.tick = "Free" /\ mode.tx = "Kvrocks" /\ ~Recent(t, gTxTickToLive)
          THEN LogRangeKeys[t] \cup Executed[t] ELSE {})

Kept(t) == Promised(t) \ Dropped(t)

\* A key KVRocks failed to store is lost; without its record, so are the ranges.  The
\* ranges of an overtaken tick are lost.
Excused(t) ==
    unsaved
    \cup (IF <<"vtick", t, 0>> \in unsaved THEN Raw[t] \cup db_insert_log_range(t) ELSE {})
    \cup (IF t \in overtaken THEN db_insert_log_range(t) ELSE {})

\* Four things are lost of what the configuration promises, and no more, whatever was
\* interrupted: what the cleaner drops at the end of the epoch or for want of KVRocks
\* (Dropped), what KVRocks failed to store, and the log ranges of ticks the pass over
\* the transactions overtook (Excused).  Every other key of an indexed tick is in
\* KeyDB or in KVRocks.
RetainedDataIsStored ==
    \A t \in gInitialTick .. saved.indexed : \A k \in Kept(t) :
        k \in keydb \/ k \in kvrocks \/ k \in Excused(t)

\* Logs of transactions; the range that starts with log 0 and those of special events
\* stay in KeyDB.
TxLogs(t) == {<<"log", id, 0>> : id \in UNION {Ids(t, i) : i \in {j \in TickTxs[t] : from(t, j) # 0}}}
TxKeys(t) == db_insert_log_range(t) \cup db_insert_transaction(t) \cup TxLogs(t)

\* Below its cursors the cleaner leaves nothing behind in KeyDB: no raw tick, and no
\* transaction, log or range where the modes clean them.  A crash may leave some
\* where there is no copy of the ranges to repeat the work from (an overtaken tick has
\* none in KVRocks either), and so may a record KVRocks failed to store.  Ranges of an
\* empty tick stay unless KVRocks has its record first: without KVRocks, or overtaken.
CleanedTicksAreGone ==
    \A t \in gInitialTick + 1 .. LastTick :
        /\ t <= saved.tick => Raw[t] \cap keydb = {}
        /\ t <= saved.tick /\ mode.tick = "LastNTick" /\ mode.tx = "LastNTick"
           /\ t \notin Empty /\ ~crashed => TxKeys(t) \cap keydb = {}
        /\ t <= saved.tx /\ mode.tick = "Kvrocks" /\ (t \in overtaken => ~crashed /\ t \notin Empty)
           /\ unsaved \cap (TickKeys[t] \cup {<<"vtick", t, 0>>}) = {} => TxKeys(t) \cap keydb = {}

\* The answer the stored data gives to a request.
IndexOf(id) == CHOOSE i \in LogIndices : id \in Ids(LogAt[id].tick, i)
DataTick(t) == IF t \in Empty THEN 0 ELSE t
Attributed(ids) ==
    [k \in 1 .. Cardinality(ids) |->
        LET id == Ascending(ids)[k] IN <<id, IndexOf(id), DataTick(LogAt[id].tick)>>]
LogsIn(ticks) == {id \in LogIds : LogAt[id].tick \in ticks}

\* Slots whose logs have such a transfer.
Transfers(q, incoming) ==
    {<<IF incoming THEN "in" ELSE "out", LogAt[id].tick, IndexOf(id)>> :
        id \in {id \in LogsIn(TicksOf(q)) : TransferMatch(q, incoming, LogAt[id])}}

\* The logs getlogcustom is asked for: those of the contract (0: the protocol), of the
\* type and with the topics.
CustomAsked(q, e) ==
    \E x \in {Indexed(e)[i] : i \in 1 .. Len(Indexed(e))} :
        /\ x.sc = q.sc /\ x.logType = q.logType
        /\ \A j \in 1 .. 3 : q.topics[j] \in {Zero, x.topics[j]}

\* The four exceptions.  Torn: some votes were read from KeyDB, the others are gone
\* from it since.  NoTickData: a transfer in a tick without tick data.  NotCompared:
\* getlogcustom ignores the topics of a protocol log and the log type of a contract's.
\* ByFirstId: catch-up by log id attributes every log of a batch by the first id.
Torn(h) ==
    /\ h.votes # {}
    /\ <<"vtick", h.q.from, 0>> \in kvrocks
    /\ \A b \in Batches \ h.votes : <<"tick_vote", h.q.from, b>> \notin keydb
NoTickData == {x \in {"in", "out"} \X Ticks \X LogIndices : x[2] \in Empty}
NotCompared(q, e) == CustomMatch(q, e) /\ ~CustomAsked(q, e)
ByFirstId(q, id) == id \notin Ids(LogAt[q.from].tick, IndexOf(q.from))

AnswerIsRight(h) ==
    LET q == h.q
    IN  CASE q.api = "tick" ->
                 /\ h.td = DataTick(q.from)
                 /\ h.out = <<Hull[q.from]>>
                 /\ h.votes = Batches \/ Torn(h)
          [] q.api = "tx" ->
                 h.out = <<"found">> \o
                    IF /\ <<q.from, q.to>> \in Spam /\ length(q.from, q.to) > 0
                       /\ LogAt[from(q.from, q.to)].type = QU_TRANSFER
                    THEN << >> ELSE <<<<q.from, q.to>> \in Matching>>
          [] q.api = "log" -> h.out = Attributed(q.from .. q.to)
          [] q.api = "getlogcustom" ->
                 h.out = Attributed({id \in LogsIn(q.from .. q.to) :
                                        CustomAsked(q, LogAt[id]) \/ NotCompared(q, LogAt[id])})
          [] q.api = "catchUp" -> h.out = Attributed(LogsIn(q.from .. q.to) \cap q.sub)
          [] q.api = "catchUpByLogId" ->
                 /\ [k \in 1 .. Len(h.out) |-> h.out[k][1]]
                        = Ascending((q.from .. q.to) \cap q.sub)
                 /\ \A k \in 1 .. Len(h.out) :
                        ByFirstId(q, h.out[k][1]) \/ h.out[k][2] = IndexOf(h.out[k][1])
          [] q.api = "allAssetTransfers" -> ToSet(h.out) = Transfers(q, FALSE) \ NoTickData
          [] OTHER -> ToSet(h.out) = (Transfers(q, FALSE) \cup Transfers(q, TRUE)) \ NoTickData

\* The keys of the ticks of a request that its answer depends on.
Needs(q) ==
    LET t == TicksOf(q)
    IN  CASE q.api = "tick" -> Raw[q.from] \cup db_insert_log_range(q.from)
          [] q.api = "tx" -> {<<"transaction", q.from, q.to>>}
          [] OTHER -> UNION {TickKeys[x] : x \in t}

\* A handler that reads while the cleaner moves the same tick from KeyDB to KVRocks
\* finds everything the modes keep, gives each log the transaction that produced it
\* and stays in bounds.  Exceptions: before KVRocks is connected a handler cannot see
\* it; the votes of a tick, read in several commands, are torn if the tick is cleaned in
\* between (Torn); transfers in ticks without tick data are left out (NoTickData);
\* getlogcustom answers with more than it is asked for (NotCompared); a log of another
\* transaction than the first of its batch is given a wrong one in the catch-up by log
\* id (ByFirstId).  (Tick data is assumed to be stored when the tick is indexed.)
RepliesAreComplete ==
    rd.q.api # "none" /\ rd.todo = << >> /\ ~rd.early
    /\ Needs(rd.q) \subseteq UNION {Kept(t) \ Excused(t) : t \in TicksOf(rd.q)}
        => ~rd.fault /\ AnswerIsRight(rd)

\* bobFindLog finds exactly the indexed ticks with a log the query matches, and
\* nothing for queries with an empty topic or without a key in the index, also if the
\* tick was indexed once before and the cursor lost in a crash.  (Handlers play no part.)
SearchIsExact ==
    [][saved'.indexed # saved.indexed /\ rd.q.api = "none" =>
        \A q \in Queries :
            bobFindLog(index', q, gInitialTick, saved'.indexed)
                = {t \in gInitialTick .. saved'.indexed :
                      ~Rejected(q) /\ ~Unindexed(q) /\ \E id \in LogsIn({t}) : Matches(LogAt[id], q)}]_vars

=============================================================================
