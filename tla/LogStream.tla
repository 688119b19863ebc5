----------------------------- MODULE LogStream -----------------------------
(***************************************************************************)
(* The WebSocket log stream: LogSubscriptionManager and LogWebSocket, fed  *)
(* by the verifier thread (LoggingEventProcessor.cpp, "Push verified logs  *)
(* to WebSocket subscribers").                                             *)
(*                                                                         *)
(* The verifier pushes the logs of a verified batch tick by tick and then  *)
(* moves gCurrentVerifyLoggingTick (V) past the batch.  Messages of one    *)
(* connection are handled one at a time by its event loop; the handler of  *)
(* a subscribe message takes the manager's mutex once per step: cursor,    *)
(* filter, each key, start and end of the catch-up.  Pushed messages go    *)
(* through the queue of loop 0.                                            *)
(*                                                                         *)
(* Data abstraction: a log is its id; LogTick and LogKey give its tick and *)
(* the key extractSubscriptionKey maps it to (NoKey: none); Small holds    *)
(* the QU_TRANSFERs below the minimum amount a client may ask for.         *)
(***************************************************************************)
EXTENDS Integers, Sequences, FiniteSets, FiniteSetsExt

CONSTANTS
    Clients, Keys, NoKey,
    initialTick, LastTick, \* the ticks of the epoch
    MaxLogId, LogTick, LogKey, Small,
    Deletable,             \* the logs the cleaner deletes with their tick
    BATCH_VERIFICATION,    \* ticks per verified batch, 64
    BATCH_SIZE,            \* ticks (100) or ids (1000) per catch-up batch
    Messages,              \* the subscribe messages clients send
    MaxMessages            \* bound: subscribe and unsubscribe messages

Logs == 0 .. MaxLogId
Ticks == initialTick .. LastTick

\* The cursor of a subscribe message: none (live), a tick, a log id, or a value
\* of the wrong type for a tick (keep) or for a log id (badId).
Message ==
    [keys : SUBSET Keys, mode : {"live", "tick", "keep", "logId", "badId"},
     cursor : Nat \cup {-1}, min : {"absent", "on", "off"}]

ASSUME StreamAssumption ==
    /\ Messages \subseteq Message
    /\ initialTick \in Nat \ {0} /\ LastTick \in Nat
    /\ MaxLogId \in Nat
    /\ LogTick \in [Logs -> Ticks]
    /\ \A l, m \in Logs : l < m => LogTick[l] <= LogTick[m]
    /\ LogKey \in [Logs -> Keys \cup {NoKey}]
    /\ NoKey \notin Keys
    /\ Small \subseteq Logs /\ Deletable \subseteq Logs
    /\ BATCH_VERIFICATION \in Nat \ {0} /\ BATCH_SIZE \in Nat \ {0}
    /\ MaxMessages \in Nat

VARIABLES
    V,          \* gCurrentVerifyLoggingTick, 0 until the verifier has loaded
    stored,     \* logs that were inserted into the database
    latest_log_id,
    cleaned,    \* ticks whose log ranges can no longer be read
    batch,      \* the verifier: idle, push or advance, its batch, its next tick
    connected,  \* clients whose socket is open
    registered, \* the keys of clients_
    clients_,   \* the ClientState of each client
    subscriptionIndex_,
    loop,       \* sends queued in loop 0, each a sequence of logs per client
    handler,    \* per connection: what its event loop is doing
    inbox,      \* messages the client received, in order
    messages,   \* number of messages handled
    claimed,    \* history: logs the client said it has
    excused     \* history: logs whose loss LostOnlyAroundSubscribe tolerates

log_db == <<stored, latest_log_id, cleaned>>
manager == <<registered, clients_, subscriptionIndex_>>
history == <<claimed, excused>>
vars == <<V, log_db, batch, connected, manager, loop, handler, inbox, messages,
          history>>

ClientState ==
    [subscriptions |-> {}, lastTick |-> 0, lastLogId |-> -1,
     catchUpInProgress |-> FALSE, transferMinAmount |-> FALSE]

\* pc: closed, idle, filter, subscribe, begin, replay, gone; msg: the message
\* being handled; todo: its keys not yet subscribed; target: toTick or toLogId;
\* next: the next tick or id to replay; keys: the copy of the subscriptions;
\* has (history): the logs the client has according to msg.
NewHandler ==
    [pc |-> "closed", todo |-> {}, target |-> 0, next |-> 0, keys |-> {}, has |-> {},
     msg |-> [keys |-> {}, mode |-> "keep", cursor |-> 0, min |-> "absent"]]

Init ==
    /\ V = 0
    /\ stored = {}
    /\ latest_log_id = -1
    /\ cleaned = {}
    /\ batch = [pc |-> "idle", to |-> 0, tick |-> 0]
    /\ connected = {}
    /\ registered = {}
    /\ clients_ = [c \in Clients |-> ClientState]
    /\ subscriptionIndex_ = [k \in Keys |-> {}]
    /\ loop = << >>
    /\ handler = [c \in Clients |-> NewHandler]
    /\ inbox = [c \in Clients |-> << >>]
    /\ messages = 0
    /\ claimed = [c \in Clients |-> {}]
    /\ excused = [c \in Clients |-> {}]

LogsOf(from, to) == {l \in Logs : LogTick[l] \in from .. to}

\* The logs of S in the order of their ids.
Ascending(S) ==
    CHOOSE q \in [1 .. Cardinality(S) -> S] : \A i, j \in DOMAIN q : i < j => q[i] < q[j]

-----------------------------------------------------------------------------
(* Data processors and verifier *)

\* Replies to log requests arrive in any order.  Logs stay from an earlier run of
\* the process.
db_insert_log(l) ==
    /\ l \notin stored
    /\ stored' = stored \cup {l}
    /\ UNCHANGED <<V, latest_log_id, cleaned, batch, connected, manager, loop,
                   handler, inbox, messages, history>>

\* Only after all logs of a reply were inserted.
db_update_latest_log_id(l) ==
    /\ l \in stored /\ l > latest_log_id
    /\ latest_log_id' = l
    /\ UNCHANGED <<V, stored, cleaned, batch, connected, manager, loop, handler,
                   inbox, messages, history>>

\* The garbage cleaner works behind the verifier, from the second tick on, and
\* passes over a tick whose data it does not find.  It deletes the ranges of the
\* tick and the logs of its transactions; what KVRocks has stays readable, and
\* then nothing is lost here.
cleanTransactionLogs(t) ==
    /\ initialTick < t /\ t < V
    /\ \A u \in cleaned : u < t
    /\ cleaned' = cleaned \cup {t}
    /\ UNCHANGED <<V, stored, latest_log_id, batch, connected, manager, loop, handler,
                   inbox, messages, history>>

Handling(c) == handler[c].pc \notin {"closed", "idle", "gone"}

\* The verifier has loaded the state before tick t, up to which it verified in
\* an earlier run.  Clients that subscribed before got no catch-up.
LoadVerifier(t) ==
    /\ V = 0 /\ batch.pc = "idle"
    /\ LogsOf(initialTick, t - 1) \subseteq stored
    /\ V' = t
    /\ excused' = [c \in Clients |->
                    excused[c] \cup IF clients_[c].subscriptions # {} \/ Handling(c)
                                   THEN LogsOf(initialTick, t - 1) ELSE {}]
    /\ UNCHANGED <<log_db, batch, connected, manager, loop, handler, inbox, messages,
                   claimed>>

\* Logs of the batch the verifier is working on.
BatchLogs == IF batch.pc = "idle" THEN {} ELSE LogsOf(V, batch.to)

\* A batch is verified; whether its logs are pushed is decided once.
VerifyBatch(to) ==
    /\ V # 0 /\ batch.pc = "idle"
    /\ to \in V .. LastTick /\ to < V + BATCH_VERIFICATION
    /\ LogsOf(V, to) \subseteq stored
    /\ batch' = [pc |-> IF registered # {} /\ LogsOf(V, to) # {} THEN "push" ELSE "advance",
                 to |-> to, tick |-> V]
    /\ excused' = [c \in Clients |->
                    excused[c] \cup IF Handling(c) THEN LogsOf(V, to) ELSE {}]
    /\ UNCHANGED <<V, log_db, connected, manager, loop, handler, inbox, messages,
                   claimed>>

Filtered(c, l) == l \in Small /\ clients_[c].transferMinAmount

\* The logs of tick t that pushVerifiedLogs sends to c.
Pushed(c, t) ==
    {l \in LogsOf(t, t) :
        /\ LogKey[l] \in Keys /\ c \in subscriptionIndex_[LogKey[l]]
        /\ ~ clients_[c].catchUpInProgress
        /\ clients_[c].lastTick < t
        /\ clients_[c].lastLogId < l
        /\ ~ Filtered(c, l)}

\* One call per tick; a tick without logs is not called for and sends nothing.
pushVerifiedLogs ==
    LET t == batch.tick
        sends == [c \in Clients |-> Ascending(Pushed(c, t))]
    IN
    /\ batch.pc = "push"
    /\ loop' = IF \E c \in Clients : sends[c] # << >> THEN Append(loop, sends)
               ELSE loop
    /\ batch' = [batch EXCEPT !.tick = t + 1,
                              !.pc = IF t = batch.to THEN "advance" ELSE "push"]
    /\ excused' = [c \in Clients |-> excused[c] \cup {l \in LogsOf(t, t) : Filtered(c, l)}]
    /\ UNCHANGED <<V, log_db, connected, manager, handler, inbox, messages, claimed>>

\* Mutant: the last tick of the batch is verified and pushed once more.
AdvanceVerifier_Overlap ==
    /\ batch.pc = "advance"
    /\ V' = IF batch.to > V THEN batch.to ELSE batch.to + 1
    /\ batch' = [batch EXCEPT !.pc = "idle"]
    /\ UNCHANGED <<log_db, connected, manager, loop, handler, inbox, messages, history>>

AdvanceVerifier ==
    /\ batch.pc = "advance"
    /\ V' = batch.to + 1
    /\ batch' = [batch EXCEPT !.pc = "idle"]
    /\ UNCHANGED <<log_db, connected, manager, loop, handler, inbox, messages, history>>

\* The messages a client gets for a sequence of logs.
Mail(logs, kind) == [i \in 1 .. Len(logs) |-> <<logs[i], kind>>]

\* Loop 0 runs the oldest queued sends.
RunLoop ==
    /\ loop # << >>
    /\ inbox' = [c \in Clients |->
        IF c \in connected THEN inbox[c] \o Mail(Head(loop)[c], "live") ELSE inbox[c]]
    /\ loop' = Tail(loop)
    /\ UNCHANGED <<V, log_db, batch, connected, manager, handler, messages, history>>

-----------------------------------------------------------------------------
(* Connections *)

\* Each element of Clients connects once: a reconnect is another client.
addClient(c) ==
    /\ handler[c].pc = "closed"
    /\ messages < MaxMessages
    /\ connected' = connected \cup {c}
    /\ registered' = registered \cup {c}
    /\ clients_' = [clients_ EXCEPT ![c] = ClientState]
    /\ handler' = [handler EXCEPT ![c].pc = "idle"]
    /\ UNCHANGED <<V, log_db, batch, subscriptionIndex_, loop, inbox, messages, history>>

Disconnect(c) ==
    /\ c \in connected
    /\ connected' = connected \ {c}
    /\ UNCHANGED <<V, log_db, batch, manager, loop, handler, inbox, messages, history>>

\* Subscriptions K of c end: in the state of c and in the index.
Unsubscribed(c, K) ==
    /\ clients_' = [clients_ EXCEPT ![c].subscriptions = @ \ K]
    /\ subscriptionIndex_' = [k \in Keys |->
                                subscriptionIndex_[k] \ IF k \in K THEN {c} ELSE {}]

\* Mutant: the index keeps the connection.
removeClient_LeavesIndex(c) ==
    /\ handler[c].pc = "idle" /\ c \notin connected
    /\ registered' = registered \ {c}
    /\ clients_' = [clients_ EXCEPT ![c].subscriptions = {}]
    /\ handler' = [handler EXCEPT ![c].pc = "gone"]
    /\ UNCHANGED <<V, log_db, batch, connected, subscriptionIndex_, loop, inbox,
                   messages, history>>

removeClient(c) ==
    /\ handler[c].pc = "idle" /\ c \notin connected
    /\ registered' = registered \ {c}
    /\ Unsubscribed(c, clients_[c].subscriptions)
    /\ handler' = [handler EXCEPT ![c].pc = "gone"]
    /\ UNCHANGED <<V, log_db, batch, connected, loop, inbox, messages, history>>

-----------------------------------------------------------------------------
(* Messages of a client *)

NextMessage(c) ==
    /\ handler[c].pc = "idle" /\ c \in connected
    /\ messages < MaxMessages
    /\ messages' = messages + 1

\* One subscribed key, or all of them with unsubscribeAll.
unsubscribe(c, K) ==
    /\ NextMessage(c)
    /\ K # {} /\ K \subseteq clients_[c].subscriptions
    /\ Cardinality(K) = 1 \/ K = clients_[c].subscriptions
    /\ Unsubscribed(c, K)
    /\ UNCHANGED <<V, log_db, batch, connected, registered, loop, handler, inbox, history>>

\* The logs a client has, as its cursor tells; -1 is no log id.
HasLogs(c, m) ==
    CASE m.mode = "tick" -> LogsOf(initialTick, m.cursor)
      [] m.mode = "logId" /\ m.cursor >= 0 -> {l \in Logs : l <= m.cursor}
      [] m.mode = "live" \/ (m.mode = "logId" /\ m.cursor < 0) -> LogsOf(initialTick, V - 1)
      [] OTHER -> LogsOf(initialTick, clients_[c].lastTick)
                    \cup {l \in Logs : m.mode = "keep" /\ l <= clients_[c].lastLogId}

\* The first step of handleSubscribe: the cursor.  Without one the client
\* starts at the current tick; a tick of the wrong type is ignored, and a log
\* id of the wrong type unsets the log id.
SetCursor(c, m) ==
    /\ NextMessage(c)
    /\ clients_' = [clients_ EXCEPT
        ![c].lastTick = CASE m.mode = "live" -> V
                          [] m.mode = "tick" -> m.cursor
                          [] OTHER -> @,
        ![c].lastLogId = CASE m.mode = "logId" -> m.cursor
                           [] m.mode = "keep" -> @
                           [] OTHER -> -1]
    /\ handler' = [handler EXCEPT ![c].pc = "filter", ![c].msg = m,
                                  ![c].has = HasLogs(c, m)]
    /\ claimed' = [claimed EXCEPT ![c] = @ \cup HasLogs(c, m)]
    /\ excused' = [excused EXCEPT ![c] = @ \cup BatchLogs]
    /\ UNCHANGED <<V, log_db, batch, connected, registered, subscriptionIndex_, loop,
                   inbox>>

setClientTransferMinAmount(c) ==
    /\ handler[c].pc = "filter"
    /\ clients_' = [clients_ EXCEPT ![c].transferMinAmount =
                        IF handler[c].msg.min = "absent" THEN @
                        ELSE handler[c].msg.min = "on"]
    /\ handler' = [handler EXCEPT ![c].pc = "subscribe", ![c].todo = handler[c].msg.keys]
    /\ UNCHANGED <<V, log_db, batch, connected, registered, subscriptionIndex_, loop,
                   inbox, messages, history>>

\* History: a message answered without a catch-up leaves its cursor set.
BehindCursor(c) == LogsOf(initialTick, clients_[c].lastTick)

KeptCursor(c) == excused' = [excused EXCEPT ![c] = @ \cup BehindCursor(c)]

\* A message without a key and without a list of keys is answered with an
\* error, after its cursor was set.
RejectSubscribe(c) ==
    /\ handler[c].pc = "subscribe" /\ handler[c].msg.keys = {}
    /\ handler' = [handler EXCEPT ![c].pc = "idle"]
    /\ KeptCursor(c)
    /\ UNCHANGED <<V, log_db, batch, connected, manager, loop, inbox, messages, claimed>>

subscribe(c, k) ==
    /\ handler[c].pc = "subscribe" /\ k \in handler[c].todo
    /\ clients_' = [clients_ EXCEPT ![c].subscriptions = @ \cup {k}]
    /\ subscriptionIndex_' = [subscriptionIndex_ EXCEPT ![k] = @ \cup {c}]
    /\ handler' = [handler EXCEPT ![c].todo = @ \ {k}]
    /\ UNCHANGED <<V, log_db, batch, connected, registered, loop, inbox, messages,
                   history>>

ById(c) == handler[c].msg.mode = "logId"

\* Mutant: the tick that is being verified is replayed too.
CatchUpTarget_Current(c) == IF ById(c) THEN latest_log_id ELSE V

CatchUpTarget(c) == IF ById(c) THEN latest_log_id ELSE V - 1

\* No catch-up before anything is stored or verified.
NothingYet(c) == IF ById(c) THEN latest_log_id <= 0 ELSE V = 0

\* History: a catch-up by id ends at latest_log_id, which may be behind what is
\* stored and verified.
AboveLatest(c) == {l \in LogsOf(initialTick, V - 1) : ById(c) /\ l > latest_log_id}

\* The target is read before the mutex is taken again.
ReadTarget(c) ==
    /\ handler[c].pc = "subscribe" /\ handler[c].todo = {}
    /\ handler' = [handler EXCEPT
        ![c].target = CatchUpTarget(c),
        ![c].pc = IF NothingYet(c) THEN "idle" ELSE "begin"]
    /\ excused' = [excused EXCEPT ![c] = @ \cup AboveLatest(c) \cup
                        IF NothingYet(c) THEN BehindCursor(c) ELSE {}]
    /\ UNCHANGED <<V, log_db, batch, connected, manager, loop, inbox, messages, claimed>>

\* Mutant: the tick after the cursor is skipped.
FirstToReplay_Skips(c) ==
    IF ById(c) THEN clients_[c].lastLogId + 1
    ELSE Max({clients_[c].lastTick + 2, initialTick})

FirstToReplay(c) ==
    IF ById(c) THEN clients_[c].lastLogId + 1
    ELSE Max({clients_[c].lastTick + 1, initialTick})

\* Nothing to do without subscriptions or without a log id.
NothingToReplay(c) ==
    clients_[c].subscriptions = {} \/ (ById(c) /\ clients_[c].lastLogId < 0)

BeginCatchUp(c) ==
    /\ handler[c].pc = "begin"
    /\ IF NothingToReplay(c)
       THEN /\ handler' = [handler EXCEPT ![c].pc = "idle"]
            /\ KeptCursor(c)
            /\ UNCHANGED <<clients_, claimed>>
       ELSE /\ handler' = [handler EXCEPT ![c].pc = "replay",
                                          ![c].next = FirstToReplay(c),
                                          ![c].keys = clients_[c].subscriptions]
            /\ clients_' = [clients_ EXCEPT ![c].catchUpInProgress = TRUE]
            /\ claimed' = [claimed EXCEPT ![c] = handler[c].has]
            /\ UNCHANGED excused
    /\ UNCHANGED <<V, log_db, batch, connected, registered, subscriptionIndex_, loop,
                   inbox, messages>>

\* The end of the next catch-up batch, and its logs, stored or not.
BatchEnd(c) == Min({handler[c].next + BATCH_SIZE - 1, handler[c].target})

CatchUpRange(c) ==
    IF ById(c) THEN {l \in Logs : l \in handler[c].next .. BatchEnd(c)}
    ELSE LogsOf(handler[c].next, BatchEnd(c))

Deleted == {l \in Deletable : LogTick[l] \in cleaned}

\* The logs that are read: none of a batch of ticks when the range of one of
\* them is missing.
Fetched(c) ==
    {l \in CatchUpRange(c) \cap (stored \ Deleted) :
        ById(c) \/ cleaned \cap (handler[c].next .. BatchEnd(c)) = {}}

\* The amount filter is not applied.  A closed connection ends the catch-up
\* where it is noticed, with catchUpInProgress still set.
CatchUpBatch(c) ==
    LET sent == Ascending({l \in Fetched(c) : LogKey[l] \in handler[c].keys})
    IN
    /\ handler[c].pc = "replay" /\ handler[c].next <= handler[c].target
    /\ inbox' = IF c \in connected
                THEN [inbox EXCEPT ![c] = @ \o Mail(sent, IF ById(c) THEN "id" ELSE "tick")]
                ELSE inbox
    /\ handler' = [handler EXCEPT
        ![c].next = @ + BATCH_SIZE,
        ![c].pc = IF c \notin connected /\ (ById(c) \/ Fetched(c) # {}) THEN "idle" ELSE @]
    /\ excused' = [excused EXCEPT ![c] = @ \cup (CatchUpRange(c) \ Fetched(c))]
    /\ UNCHANGED <<V, log_db, batch, connected, manager, loop, messages, claimed>>

\* Mutant: a catch-up that had nothing to replay leaves without the reset.
CaughtUp_Muted(c) ==
    [clients_[c] EXCEPT
        !.catchUpInProgress = FirstToReplay(c) > handler[c].target,
        !.lastTick = IF ById(c) THEN @ ELSE handler[c].target,
        !.lastLogId = IF ById(c) THEN handler[c].target ELSE @]

CaughtUp(c) ==
    [clients_[c] EXCEPT
        !.catchUpInProgress = FALSE,
        !.lastTick = IF ById(c) THEN @ ELSE handler[c].target,
        !.lastLogId = IF ById(c) THEN handler[c].target ELSE @]

\* Also at once, when the cursor is not behind the target.
FinishCatchUp(c) ==
    /\ handler[c].pc = "replay" /\ handler[c].next > handler[c].target
    /\ clients_' = [clients_ EXCEPT ![c] = CaughtUp(c)]
    /\ handler' = [handler EXCEPT ![c].pc = "idle"]
    /\ UNCHANGED <<V, log_db, batch, connected, registered, subscriptionIndex_, loop,
                   inbox, messages, history>>

-----------------------------------------------------------------------------

Next ==
    \/ \E l \in Logs : db_insert_log(l) \/ db_update_latest_log_id(l)
    \/ \E t \in Ticks : cleanTransactionLogs(t) \/ LoadVerifier(t)
    \/ \E to \in Ticks : VerifyBatch(to)
    \/ pushVerifiedLogs
    \/ AdvanceVerifier
    \/ RunLoop
    \/ \E c \in Clients :
        \/ addClient(c)
        \/ Disconnect(c)
        \/ removeClient(c)
        \/ \E K \in SUBSET Keys : unsubscribe(c, K)
        \/ \E m \in Messages : SetCursor(c, m)
        \/ setClientTransferMinAmount(c)
        \/ RejectSubscribe(c)
        \/ \E k \in Keys : subscribe(c, k)
        \/ ReadTarget(c)
        \/ BeginCatchUp(c)
        \/ CatchUpBatch(c)
        \/ FinishCatchUp(c)

Spec == Init /\ [][Next]_vars

-----------------------------------------------------------------------------
(* Properties *)

\* The index that routes pushed logs and the subscriptions of the clients are
\* two views of the same relation, and nobody who left is in it.
IndexMatchesSubscriptions ==
    /\ \A k \in Keys : subscriptionIndex_[k] = {c \in Clients : k \in clients_[c].subscriptions}
    /\ \A c \in Clients \ registered : clients_[c].subscriptions = {}

\* A client whose connection is open is never left with catchUpInProgress set,
\* which would silence its stream for good.
NotLeftMuted ==
    \A c \in connected : clients_[c].catchUpInProgress => handler[c].pc = "replay"

\* Logs handed to client c or on their way to it.
Sent(c) ==
    {inbox[c][i][1] : i \in 1 .. Len(inbox[c])}
        \cup UNION {{loop[i][c][j] : j \in 1 .. Len(loop[i][c])} : i \in 1 .. Len(loop)}

\* Live logs reach a client in the order of their ids and once, whatever
\* subscriptions and catch-ups happen between them.
LiveInOrder ==
    \A c \in Clients : \A i, j \in 1 .. Len(inbox[c]) :
        i < j /\ inbox[c][i][2] = "live" /\ inbox[c][j][2] = "live"
            => inbox[c][i][1] < inbox[c][j][1]

\* Pushed logs and logs replayed from a tick cursor belong to verified ticks.
\* (Replay from a log id goes up to latest_log_id, verified or not.)
TickStreamIsVerified ==
    \A c \in Clients : \A i \in 1 .. Len(inbox[c]) :
        inbox[c][i][2] # "id" => LogTick[inbox[c][i][1]] < V \/ inbox[c][i][1] \in BatchLogs

Owed(c) ==
    {l \in LogsOf(initialTick, V - 1) : LogKey[l] \in clients_[c].subscriptions} \ claimed[c]

Settled(c) == c \in connected /\ handler[c].pc = "idle"

\* A subscribed client that is not being handled got every verified log after
\* its cursor, except
\*  - logs its own amount filter rejected,
\*  - logs of a batch that was being verified while a subscribe message was
\*    handled,
\*  - logs behind the cursor of a message that was answered without a catch-up,
\*  - logs of ticks verified in an earlier run, when a subscribe message was
\*    handled before the verifier had loaded (currentTick is 0: no catch-up),
\*  - logs above latest_log_id when it was read for a catch-up by id,
\*  - logs that were not stored when a catch-up by id passed them, or that the
\*    garbage cleaner had deleted when a catch-up passed them,
\*  - all logs of a batch of ticks in a catch-up by tick in which the cleaner had
\*    deleted the range of one.
\* LOG_EVENT_STREAM.MD:44 promises what was missed without any exception.
LostOnlyAroundSubscribe ==
    \A c \in Clients : Settled(c) => Owed(c) \subseteq Sent(c) \cup excused[c]
=============================================================================
