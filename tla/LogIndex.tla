------------------------------ MODULE LogIndex ------------------------------
(***************************************************************************)
(* The search index over log events: the keys indexTick (QubicIndexer.cpp) *)
(* files a tick under for each of its logs, and the key db_search_log      *)
(* (db.cpp) looks a query up by.  An index is a set of <<key, tick>> pairs *)
(* (one sorted set of ticks per key in KeyDB).                             *)
(*                                                                         *)
(* A log event is a record of its type, its tick and the fields that       *)
(* become topics.  A topic is a 256-bit value; Zero is m256i::zero(), whose*)
(* identity "aaa...fxib" is also the wildcard of a query.                  *)
(***************************************************************************)
EXTENDS Integers, Sequences, FiniteSets

QU_TRANSFER == 0
ASSET_ISSUANCE == 1
ASSET_OWNERSHIP_CHANGE == 2
ASSET_POSSESSION_CHANGE == 3
CONTRACT_MESSAGES == 4 .. 7 \* error, warning, information, debug
BURNING == 8
ASSET_MANAGING_CONTRACT_CHANGES == {11, 12} \* of ownership, of possession
CONTRACT_RESERVE_DEDUCTION == 13
NoType == -1                \* 0xffffffff: no log type in a query
MIN_INDEXED_SC_TYPE == 100000

Zero == "zero"
NoTopic == ""               \* an empty string for a topic of a query
Part(topic) == IF topic = Zero THEN "ANY" ELSE topic

isSCType(e) == e.type \in CONTRACT_MESSAGES

\* What the switch of indexTick takes from a log: the contract, the log type and
\* three topics.  The empty sequence: the log is not indexed.
Indexed(e) ==
    LET protocol(topics) == <<[sc |-> 0, logType |-> e.type, topics |-> topics]>>
    IN  CASE e.type = QU_TRANSFER -> protocol(<<e.source, e.destination, Zero>>)
          [] e.type = ASSET_ISSUANCE -> protocol(<<e.source, e.name, Zero>>)
          [] e.type \in {ASSET_OWNERSHIP_CHANGE, ASSET_POSSESSION_CHANGE} ->
                 protocol(<<e.source, e.destination, e.asset>>)
          [] e.type \in ASSET_MANAGING_CONTRACT_CHANGES ->
                 protocol(<<e.source, e.asset, Zero>>)
          [] e.type = BURNING -> protocol(<<e.source, e.contract, Zero>>)
          [] e.type = CONTRACT_RESERVE_DEDUCTION ->
                 protocol(<<e.contract, Zero, Zero>>)
          [] isSCType(e) /\ e.scLogType >= MIN_INDEXED_SC_TYPE ->
                 <<[sc |-> e.sc, logType |-> e.scLogType,
                    topics |-> <<e.source, e.destination, e.asset>>]>>
          [] OTHER -> << >>

\* Mutant: the last choice, that of all three topics, is left out.
TopicKeysShort(x) ==
    {<<x.sc, x.logType>> \o
        [j \in 1 .. 3 |-> IF j \in bits THEN Part(x.topics[j]) ELSE "ANY"] :
        bits \in {b \in SUBSET (1 .. 3) : b # 1 .. 3 /\ \E j \in b : x.topics[j] # Zero}}

\* The non-empty choices of topics to keep; a zero topic is ANY either way, and a
\* choice that keeps no topic gives no key.
TopicKeys(x) ==
    {<<x.sc, x.logType>> \o
        [j \in 1 .. 3 |-> IF j \in bits THEN Part(x.topics[j]) ELSE "ANY"] :
        bits \in {b \in SUBSET (1 .. 3) : \E j \in b : x.topics[j] # Zero}}

IndexKeys(x) ==
    (IF x.sc = 0 /\ x.logType = 0 THEN {} ELSE {<<x.sc, x.logType>>})
    \cup (IF x.sc # 0 THEN {<<x.sc>>} ELSE {})
    \cup TopicKeys(x)

db_add_indexer(key, tickNumber) == <<key, tickNumber>>

\* The pairs indexTick adds for the logs in events.
IndexLogs(tick, events) ==
    UNION {{db_add_indexer(key, tick) : key \in IndexKeys(Indexed(e)[1])} :
            e \in {f \in events : Indexed(f) # << >>}}

-----------------------------------------------------------------------------

\* db_search_log: the ticks from .. to under the key of the query.  bobFindLog lets
\* empty topics through; db_search_log rejects every topic that is not 60 letters.
SearchKey(q) ==
    IF \A j \in 1 .. 3 : q.topics[j] = Zero
    THEN IF q.logType = NoType THEN <<q.sc>> ELSE <<q.sc, q.logType>>
    ELSE <<q.sc, q.logType>> \o [j \in 1 .. 3 |-> Part(q.topics[j])]

Rejected(q) == \E j \in 1 .. 3 : q.topics[j] = NoTopic

db_search_log(index, q, from, to) ==
    IF Rejected(q) THEN {} ELSE {t \in from .. to : <<SearchKey(q), t>> \in index}

bobFindLog(index, q, from, to) == IF from > to THEN {} ELSE db_search_log(index, q, from, to)

-----------------------------------------------------------------------------

\* The reference: the logs a query asks for.
Matches(e, q) ==
    \E x \in {Indexed(e)[i] : i \in 1 .. Len(Indexed(e))} :
        /\ x.sc = q.sc
        /\ q.logType \in {NoType, x.logType}
        /\ \A j \in 1 .. 3 : q.topics[j] \in {Zero, x.topics[j]}

\* Queries the index has no key for, and so answers with nothing: all events of
\* the protocol, all transfers, and topics without a log type.
Unindexed(q) ==
    LET wild == \A j \in 1 .. 3 : q.topics[j] = Zero
    IN  \/ wild /\ q.sc = 0 /\ q.logType \in {NoType, QU_TRANSFER}
        \/ ~wild /\ q.logType = NoType

=============================================================================
