---------------------------- MODULE LogStreamProofs ----------------------------
(***************************************************************************)
(* Proofs about LogStream, for every epoch, set of logs, clients, keys and *)
(* messages, every batch size and every interleaving of the verifier, the  *)
(* event loops and loop 0.                                                 *)
(*                                                                         *)
(* The argument for the order of the stream: the verifier pushes tick by   *)
(* tick, so that what is already queued or delivered belongs to ticks      *)
(* before the one it pushes next (Frontier), and ids grow with ticks; the  *)
(* queue of loop 0 keeps the order.  A replay from a tick stops before the *)
(* tick that was current when its target was read, and V only grows.       *)
(*                                                                         *)
(* The argument for its completeness (last section): while a message is    *)
(* handled, what is behind the cursors is what the client has, what is     *)
(* beyond the target of the catch-up is excused, and what the catch-up has *)
(* passed is sent; so that the cursor the catch-up leaves hides nothing.   *)
(***************************************************************************)
EXTENDS LogStream, FiniteSetTheorems, SequenceTheorems, WellFoundedInduction, TLAPS

--------------------------------------------------------------------------------
(* The inductive invariant *)

ClientStates ==
    [subscriptions : SUBSET Keys, lastTick : Int, lastLogId : Int,
     catchUpInProgress : BOOLEAN, transferMinAmount : BOOLEAN]

Handlers ==
    [pc : {"closed", "idle", "filter", "subscribe", "begin", "replay", "gone"},
     todo : SUBSET Keys, target : Int, next : Int, keys : SUBSET Keys,
     has : SUBSET Logs, msg : Message]

Letters == Logs \X {"live", "tick", "id"}

StreamType ==
    /\ V \in Int
    /\ stored \subseteq Logs /\ latest_log_id \in Logs \cup {-1}
    /\ batch \in [pc : {"idle", "push", "advance"}, to : Int, tick : Int]
    /\ connected \subseteq Clients
    /\ clients_ \in [Clients -> ClientStates]
    /\ subscriptionIndex_ \in [Keys -> SUBSET Clients]
    /\ loop \in Seq([Clients -> Seq(Logs)])
    /\ handler \in [Clients -> Handlers]
    /\ inbox \in [Clients -> Seq(Letters)]

\* Who is registered has connected and has not been removed.
RegisteredInv ==
    \A c \in Clients : c \in registered <=> handler[c].pc \notin {"closed", "gone"}

BatchInv ==
    /\ batch.pc # "idle" => V <= batch.to
    /\ batch.pc = "push" => batch.tick \in V .. batch.to

\* The first tick whose logs have not been pushed.
Frontier ==
    IF batch.pc = "push" THEN batch.tick
    ELSE IF batch.pc = "advance" THEN batch.to + 1 ELSE V

\* A replay from a tick ends before the tick that is verified next.
TargetInv ==
    \A c \in Clients : handler[c].pc \in {"begin", "replay"} /\ ~ById(c) =>
        handler[c].target < V

\* What the queue of loop 0 holds for c, and what c has received from it, are
\* logs of ticks before the frontier, in the order of their ids.
Before(l) == LogTick[l] < Frontier

LoopInv ==
    \A c \in Clients : \A i \in 1 .. Len(loop) : \A p \in 1 .. Len(loop[i][c]) :
        /\ Before(loop[i][c][p])
        /\ \A j \in 1 .. Len(loop) : \A q \in 1 .. Len(loop[j][c]) :
              i < j \/ (i = j /\ p < q) => loop[i][c][p] < loop[j][c][q]

InboxInv ==
    \A c \in Clients : \A n \in 1 .. Len(inbox[c]) :
        /\ inbox[c][n][2] = "live" => Before(inbox[c][n][1])
        /\ inbox[c][n][2] = "tick" => LogTick[inbox[c][n][1]] < V

InboxBeforeLoop ==
    \A c \in Clients : \A n \in 1 .. Len(inbox[c]) : inbox[c][n][2] = "live" =>
        \A i \in 1 .. Len(loop) : \A p \in 1 .. Len(loop[i][c]) :
            inbox[c][n][1] < loop[i][c][p]

IInv ==
    /\ StreamType
    /\ RegisteredInv
    /\ IndexMatchesSubscriptions
    /\ NotLeftMuted
    /\ BatchInv
    /\ TargetInv
    /\ LoopInv
    /\ InboxInv
    /\ InboxBeforeLoop
    /\ LiveInOrder

--------------------------------------------------------------------------------
(* Sorting *)

\* A set of numbers that is not empty has a least member.
LEMMA Least ==
    ASSUME NEW T, T \subseteq Nat, T # {}
    PROVE  \E n \in T : \A m \in T : n <= m
<1>1. IsWellFoundedOn(OpToRel(<, Nat), Nat)
  BY NatLessThanWellFounded
<1>2. PICK n \in T : \A m \in T : ~(<<m, n>> \in OpToRel(<, Nat))
  BY <1>1, WFMin
<1>3. \A m \in T : ~(m < n)
  BY <1>2 DEF OpToRel
<1> QED
  BY <1>3

Increasing(q) == \A i, j \in DOMAIN q : i < j => q[i] < q[j]

\* Every set of logs can be sorted, by induction over an upper bound of its ids:
\* the least bound for which it fails would not be one.
LEMMA SortExists ==
    ASSUME NEW S \in SUBSET Logs
    PROVE  /\ Cardinality(S) \in Nat
           /\ \E q \in [1 .. Cardinality(S) -> S] : Increasing(q)
<1> DEFINE Low(n) == {l \in S : l < n}
           Sorts(q, n) == q \in [1 .. Cardinality(Low(n)) -> Low(n)] /\ Increasing(q)
           Bad == {n \in Nat : \A q : ~Sorts(q, n)}
<1>0. MaxLogId \in Nat /\ \A l \in S : l \in Nat /\ l <= MaxLogId
  BY StreamAssumption DEF Logs
<1>1. IsFiniteSet(S)
  <2>1. IsFiniteSet(0 .. MaxLogId)
    BY <1>0, FS_Interval
  <2> QED
    BY <2>1, FS_Subset DEF Logs
<1>2. \A n : IsFiniteSet(Low(n)) /\ Cardinality(Low(n)) \in Nat
  BY <1>1, FS_Subset, FS_CardinalityType
<1>3. 0 \notin Bad
  <2>1. Low(0) = {}
    <3>1. \A l \in S : ~(l < 0)
      BY <1>0
    <3> QED
      BY <3>1
  <2>2. Cardinality(Low(0)) = 0
    BY <2>1, FS_EmptySet
  <2>3. << >> \in [1 .. 0 -> {}] /\ Increasing(<< >>)
    BY DEF Increasing
  <2>4. Sorts(<< >>, 0)
    BY <2>1, <2>2, <2>3
  <2> QED
    BY <2>4
<1>4. ASSUME NEW n \in Nat, n # 0, n - 1 \notin Bad
      PROVE  n \notin Bad
  <2>0. n - 1 \in Nat
    BY <1>4
  <2> DEFINE k == Cardinality(Low(n - 1))
  <2>1. PICK q : Sorts(q, n - 1)
    BY <1>4, <2>0
  <2>2. k \in Nat
    BY <1>2
  <2>3. CASE n - 1 \in S
    <3>1. Low(n) = Low(n - 1) \cup {n - 1} /\ n - 1 \notin Low(n - 1)
      <4>1. \A l \in S : l < n <=> l < n - 1 \/ l = n - 1
        BY <1>0, <2>0
      <4>2. n - 1 < n /\ ~(n - 1 < n - 1)
        BY <2>0
      <4> QED
        BY <2>3, <4>1, <4>2
    <3>2. Cardinality(Low(n)) = k + 1
      BY <1>2, <3>1, FS_AddElement
    <3> DEFINE r == [i \in 1 .. k + 1 |-> IF i <= k THEN q[i] ELSE n - 1]
    <3>3. q \in [1 .. k -> Low(n - 1)] /\ Increasing(q)
      BY <2>1
    <3>4. \A i \in 1 .. k : q[i] \in Low(n - 1) /\ q[i] < n - 1
      BY <3>3
    <3> HIDE DEF k, Low
    <3>5. r \in [1 .. k + 1 -> Low(n)]
      BY <2>2, <3>1, <3>4
    <3>6. Increasing(r)
      BY <1>4, <2>2, <3>3, <3>4 DEF Increasing
    <3> HIDE DEF r
    <3>7. Sorts(r, n)
      BY <3>2, <3>5, <3>6
    <3> QED
      BY <3>7
  <2>4. CASE n - 1 \notin S
    <3>1. Low(n) = Low(n - 1)
      <4>1. \A l \in S : l < n <=> l < n - 1
        BY <1>0, <2>0, <2>4
      <4> QED
        BY <4>1
    <3>2. Sorts(q, n)
      BY <2>1, <3>1
    <3> QED
      BY <3>2
  <2> QED
    BY <2>3, <2>4
<1>5. Bad = {}
  <2> HIDE DEF Sorts
  <2> SUFFICES ASSUME Bad # {} PROVE FALSE
    OBVIOUS
  <2>1. PICK n \in Bad : \A m \in Bad : n <= m
    BY Least
  <2>2. n \in Nat /\ n # 0
    BY <1>3, <2>1
  <2>3. n - 1 \notin Bad
    <3> HIDE DEF Bad
    <3> QED
      BY <2>1, <2>2
  <2> QED
    BY <1>4, <2>1, <2>2, <2>3
<1>6. MaxLogId + 1 \in Nat /\ Low(MaxLogId + 1) = S
  <2>1. \A l \in S : l < MaxLogId + 1
    BY <1>0
  <2> QED
    BY <1>0, <2>1
<1>7. \E q : Sorts(q, MaxLogId + 1)
  BY <1>5, <1>6
<1> QED
  BY <1>1, <1>6, <1>7, FS_CardinalityType

\* Ascending lists exactly the members of the set, in order: a list of that length
\* without repetition has them all.
LEMMA AscendingSorts ==
    ASSUME NEW S \in SUBSET Logs
    PROVE  /\ Ascending(S) \in Seq(S)
           /\ Ascending(S) \in Seq(Logs)
           /\ \A i \in 1 .. Len(Ascending(S)) : Ascending(S)[i] \in S
           /\ \A l \in S : \E i \in 1 .. Len(Ascending(S)) : Ascending(S)[i] = l
           /\ \A i, j \in 1 .. Len(Ascending(S)) : i < j => Ascending(S)[i] < Ascending(S)[j]
<1>1. /\ Cardinality(S) \in Nat
      /\ \E q \in [1 .. Cardinality(S) -> S] : \A i, j \in DOMAIN q : i < j => q[i] < q[j]
  BY SortExists DEF Increasing
<1>2. /\ Ascending(S) \in [1 .. Cardinality(S) -> S]
      /\ \A i, j \in DOMAIN Ascending(S) : i < j => Ascending(S)[i] < Ascending(S)[j]
  BY <1>1 DEF Ascending
<1>3. Ascending(S) \in Seq(S) /\ Len(Ascending(S)) = Cardinality(S)
  BY <1>1, <1>2, LenProperties, IsASeq
<1>4. Ascending(S) \in Seq(Logs)
  BY <1>3, SeqMonotonic
<1> DEFINE q == Ascending(S)
           n == Cardinality(S)
<1>5. q \in Surjection(1 .. n, S)
  <2>1. IsFiniteSet(S)
    <3>1. IsFiniteSet(0 .. MaxLogId)
      BY StreamAssumption, FS_Interval
    <3> QED
      BY <3>1, FS_Subset DEF Logs
  <2>2. \A i \in 1 .. n : q[i] \in Int
    <3>1. \A l \in S : l \in Int
      BY DEF Logs
    <3> HIDE DEF q
    <3>2. q \in [1 .. n -> S]
      BY <1>2 DEF q
    <3> QED
      BY <3>1, <3>2
  <2>3. DOMAIN q = 1 .. n
    BY <1>2
  <2> HIDE DEF q
  <2>4. IsInjective(q)
    BY <1>2, <2>2, <2>3 DEF IsInjective, q
  <2>5. q \in Injection(1 .. n, S)
    BY <1>2, <2>4 DEF Injection, q
  <2>6. IsFiniteSet(1 .. n) /\ Cardinality(1 .. n) = n
    BY <1>1, FS_Interval
  <2> HIDE DEF n
  <2>7. q \in Surjection(1 .. n, S)
    BY <2>1, <2>5, <2>6, FS_Injection DEF n
  <2> QED
    BY <2>7
<1>6. \A l \in S : \E i \in 1 .. n : q[i] = l
  BY <1>5 DEF Surjection
<1> QED
  BY <1>1, <1>2, <1>3, <1>4, <1>6

--------------------------------------------------------------------------------
(* Frames *)

\* What the verifier, the queue and the inboxes owe to each other is not touched
\* by an action that leaves them alone.
StreamInv ==
    /\ BatchInv
    /\ LoopInv
    /\ InboxInv
    /\ InboxBeforeLoop
    /\ LiveInOrder

LEMMA StreamFrame ==
    ASSUME StreamInv, UNCHANGED <<V, batch, loop, inbox>>
    PROVE  StreamInv'
BY DEF StreamInv, BatchInv, LoopInv, InboxInv, InboxBeforeLoop, LiveInOrder, Before,
       Frontier

\* The part of the invariant about the connections.
ClientInv ==
    /\ RegisteredInv
    /\ IndexMatchesSubscriptions
    /\ NotLeftMuted
    /\ TargetInv

\* The types of the state of the connections.
ClientType ==
    /\ connected \subseteq Clients
    /\ clients_ \in [Clients -> ClientStates]
    /\ handler \in [Clients -> Handlers]

\* A step of one connection, given what it does to the state of its own client.
LEMMA OneClient ==
    ASSUME ClientInv, connected \subseteq Clients, V' = V,
           NEW c \in Clients,
           handler' \in [Clients -> Handlers],
           clients_' \in [Clients -> ClientStates],
           \A d \in Clients \ {c} : handler'[d] = handler[d] /\ clients_'[d] = clients_[d],
           registered' \ {c} = registered \ {c},
           connected' \ {c} \subseteq connected,
           c \in registered' <=> handler'[c].pc \notin {"closed", "gone"},
           c \notin registered' => clients_'[c].subscriptions = {},
           \A k \in Keys : subscriptionIndex_'[k] =
              IF k \in clients_'[c].subscriptions THEN subscriptionIndex_[k] \cup {c}
              ELSE subscriptionIndex_[k] \ {c},
           c \in connected' /\ clients_'[c].catchUpInProgress => handler'[c].pc = "replay",
           handler'[c].pc \in {"begin", "replay"} /\ handler'[c].msg.mode # "logId"
              => handler'[c].target < V
    PROVE  ClientInv'
<1>1. RegisteredInv'
  BY DEF ClientInv, RegisteredInv
<1>2. IndexMatchesSubscriptions'
  <2>1. ASSUME NEW k \in Keys
        PROVE  subscriptionIndex_'[k] = {d \in Clients : k \in clients_'[d].subscriptions}
    <3>1. subscriptionIndex_[k] = {d \in Clients : k \in clients_[d].subscriptions}
      BY DEF ClientInv, IndexMatchesSubscriptions
    <3>2. \A d \in Clients \ {c} : clients_'[d] = clients_[d]
      OBVIOUS
    <3>3. subscriptionIndex_'[k] =
              IF k \in clients_'[c].subscriptions THEN subscriptionIndex_[k] \cup {c}
              ELSE subscriptionIndex_[k] \ {c}
      OBVIOUS
    <3> QED
      BY <3>1, <3>2, <3>3
  <2>2. ASSUME NEW d \in Clients \ registered'
        PROVE  clients_'[d].subscriptions = {}
    BY <2>2 DEF ClientInv, IndexMatchesSubscriptions
  <2> QED
    BY <2>1, <2>2 DEF IndexMatchesSubscriptions
<1>3. NotLeftMuted'
  <2>1. \A d \in connected' \ {c} : d \in connected /\ d \in Clients
    OBVIOUS
  <2> QED
    BY <2>1 DEF ClientInv, NotLeftMuted
<1>4. TargetInv'
  BY DEF ClientInv, TargetInv, ById
<1> QED
  BY <1>1, <1>2, <1>3, <1>4 DEF ClientInv

\* The same for a step that keeps the subscriptions and who is registered.
LEMMA SameSubscriptions ==
    ASSUME ClientInv, connected \subseteq Clients, V' = V,
           NEW c \in Clients,
           handler' \in [Clients -> Handlers],
           clients_' \in [Clients -> ClientStates],
           \A d \in Clients \ {c} : handler'[d] = handler[d] /\ clients_'[d] = clients_[d],
           UNCHANGED <<registered, connected, subscriptionIndex_>>,
           handler[c].pc \notin {"closed", "gone"},
           handler'[c].pc \notin {"closed", "gone"},
           clients_'[c].subscriptions = clients_[c].subscriptions,
           c \in connected' /\ clients_'[c].catchUpInProgress => handler'[c].pc = "replay",
           handler'[c].pc \in {"begin", "replay"} /\ handler'[c].msg.mode # "logId"
              => handler'[c].target < V
    PROVE  ClientInv'
<1>1. c \in registered
  BY DEF ClientInv, RegisteredInv
<1>2. \A k \in Keys : subscriptionIndex_'[k] =
              IF k \in clients_'[c].subscriptions THEN subscriptionIndex_[k] \cup {c}
              ELSE subscriptionIndex_[k] \ {c}
  BY DEF ClientInv, IndexMatchesSubscriptions
<1> QED
  BY <1>1, <1>2, OneClient

\* What an update of the state of one client leaves.
LEMMA OneHandler ==
    ASSUME handler \in [Clients -> Handlers], NEW c \in Clients, NEW h \in Handlers,
           handler' = [handler EXCEPT ![c] = h]
    PROVE  /\ handler' \in [Clients -> Handlers]
           /\ handler'[c] = h
           /\ \A d \in Clients \ {c} : handler'[d] = handler[d]
OBVIOUS

LEMMA OneState ==
    ASSUME clients_ \in [Clients -> ClientStates], NEW c \in Clients,
           NEW s \in ClientStates, clients_' = [clients_ EXCEPT ![c] = s]
    PROVE  /\ clients_' \in [Clients -> ClientStates]
           /\ clients_'[c] = s
           /\ \A d \in Clients \ {c} : clients_'[d] = clients_[d]
OBVIOUS

--------------------------------------------------------------------------------
(* The steps of a connection *)

\* The first step of a subscribe message leaves the subscriptions alone and no
\* catch-up running on an open connection.
LEMMA SetCursorStep ==
    ASSUME StreamType, ClientInv, NEW c \in Clients, NEW m \in Messages, SetCursor(c, m)
    PROVE  StreamType' /\ ClientInv'
<1> DEFINE tick == CASE m.mode = "live" -> V
                     [] m.mode = "tick" -> m.cursor
                     [] OTHER -> clients_[c].lastTick
           id == CASE m.mode = "logId" -> m.cursor
                   [] m.mode = "keep" -> clients_[c].lastLogId
                   [] OTHER -> -1
           h == [handler[c] EXCEPT !.pc = "filter", !.msg = m, !.has = HasLogs(c, m)]
           s == [clients_[c] EXCEPT !.lastTick = tick, !.lastLogId = id]
<1>1. handler' = [handler EXCEPT ![c] = h]
  BY DEF SetCursor, StreamType
<1>2. clients_' = [clients_ EXCEPT ![c] = s]
  BY DEF SetCursor, StreamType
<1>3. handler[c] \in Handlers /\ clients_[c] \in ClientStates /\ V \in Int
  BY DEF StreamType
<1>4. h \in Handlers
  <2>1. HasLogs(c, m) \subseteq Logs
    BY DEF HasLogs, LogsOf
  <2>2. m \in Message
    BY StreamAssumption
  <2> QED
    BY <1>3, <2>1, <2>2 DEF Handlers
<1>5. s \in ClientStates
  <2>1. m.cursor \in Int
    BY StreamAssumption DEF Message
  <2>2. clients_[c].lastTick \in Int /\ clients_[c].lastLogId \in Int
    BY <1>3 DEF ClientStates
  <2>3. tick \in Int /\ id \in Int
    BY <1>3, <2>1, <2>2
  <2> HIDE DEF tick, id
  <2> QED
    BY <1>3, <2>3 DEF ClientStates
<1>6. h.pc = "filter" /\ s.subscriptions = clients_[c].subscriptions
      /\ s.catchUpInProgress = clients_[c].catchUpInProgress
  BY <1>3 DEF Handlers, ClientStates
<1>7. handler[c].pc = "idle" /\ c \in connected
  BY DEF SetCursor, NextMessage
<1>8. ~ clients_[c].catchUpInProgress
  BY <1>7 DEF ClientInv, NotLeftMuted
<1>9. UNCHANGED <<V, log_db, batch, connected, registered, subscriptionIndex_, loop, inbox>>
  BY DEF SetCursor
<1> HIDE DEF h, s
<1>10. /\ handler' \in [Clients -> Handlers] /\ handler'[c] = h
       /\ clients_' \in [Clients -> ClientStates] /\ clients_'[c] = s
       /\ \A d \in Clients \ {c} : handler'[d] = handler[d] /\ clients_'[d] = clients_[d]
  BY <1>1, <1>2, <1>4, <1>5, OneHandler, OneState DEF StreamType
<1>11. ClientInv'
  BY <1>6, <1>7, <1>8, <1>9, <1>10, SameSubscriptions DEF StreamType
<1> QED
  BY <1>9, <1>10, <1>11 DEF StreamType, log_db

\* A client that connects is in no set of the index yet.
LEMMA AddClientStep ==
    ASSUME StreamType, ClientInv, NEW c \in Clients,
           addClient(c)
    PROVE  StreamType' /\ ClientInv'
<1> DEFINE h == [handler[c] EXCEPT !.pc = "idle"]
<1>1. handler' = [handler EXCEPT ![c] = h] /\ clients_' = [clients_ EXCEPT ![c] = ClientState]
  BY DEF addClient, StreamType
<1>2. handler[c] \in Handlers
  BY DEF StreamType
<1>3. h \in Handlers /\ h.pc = "idle"
  BY <1>2 DEF Handlers
<1>4. ClientState \in ClientStates
  BY DEF ClientState, ClientStates
<1>5. /\ handler[c].pc = "closed"
      /\ connected' = connected \cup {c} /\ registered' = registered \cup {c}
      /\ UNCHANGED <<V, log_db, batch, subscriptionIndex_, loop, inbox>>
  BY DEF addClient
<1>6. clients_[c].subscriptions = {}
  BY <1>5 DEF ClientInv, RegisteredInv, IndexMatchesSubscriptions
<1>7. \A k \in Keys : c \notin subscriptionIndex_[k]
  BY <1>6 DEF ClientInv, IndexMatchesSubscriptions
<1>8. ClientState.subscriptions = {} /\ ~ ClientState.catchUpInProgress
  BY DEF ClientState
<1> HIDE DEF h
<1>9. /\ handler' \in [Clients -> Handlers] /\ handler'[c] = h
      /\ clients_' \in [Clients -> ClientStates] /\ clients_'[c] = ClientState
      /\ \A d \in Clients \ {c} : handler'[d] = handler[d] /\ clients_'[d] = clients_[d]
  BY <1>1, <1>3, <1>4, OneHandler, OneState DEF StreamType
<1>10. \A k \in Keys : subscriptionIndex_'[k] =
              IF k \in clients_'[c].subscriptions THEN subscriptionIndex_[k] \cup {c}
              ELSE subscriptionIndex_[k] \ {c}
  BY <1>5, <1>7, <1>8, <1>9
<1>11. ClientInv'
  BY <1>3, <1>5, <1>8, <1>9, <1>10, OneClient DEF StreamType
<1> QED
  BY <1>5, <1>9, <1>11 DEF StreamType, log_db

\* A connection that closes.
LEMMA DisconnectStep ==
    ASSUME StreamType, ClientInv, NEW c \in Clients,
           Disconnect(c)
    PROVE  StreamType' /\ ClientInv'
BY DEF Disconnect, StreamType, log_db, ClientInv, RegisteredInv, IndexMatchesSubscriptions,
       NotLeftMuted, TargetInv, ById, manager

\* Unsubscribed drops c from the index for exactly the keys it drops from c.
LEMMA UnsubscribedState ==
    ASSUME StreamType, ClientInv, NEW c \in Clients, NEW K, Unsubscribed(c, K)
    PROVE  /\ clients_' \in [Clients -> ClientStates]
           /\ \A d \in Clients \ {c} : clients_'[d] = clients_[d]
           /\ clients_'[c].subscriptions = clients_[c].subscriptions \ K
           /\ clients_'[c].catchUpInProgress = clients_[c].catchUpInProgress
           /\ subscriptionIndex_' \in [Keys -> SUBSET Clients]
           /\ \A k \in Keys : subscriptionIndex_'[k] =
                 IF k \in clients_'[c].subscriptions THEN subscriptionIndex_[k] \cup {c}
                 ELSE subscriptionIndex_[k] \ {c}
<1> DEFINE s == [clients_[c] EXCEPT !.subscriptions = @ \ K]
<1>1. clients_' = [clients_ EXCEPT ![c] = s]
  BY DEF Unsubscribed, StreamType
<1>2. clients_[c] \in ClientStates
  BY DEF StreamType
<1>3. /\ s \in ClientStates /\ s.subscriptions = clients_[c].subscriptions \ K
      /\ s.catchUpInProgress = clients_[c].catchUpInProgress
  BY <1>2 DEF ClientStates
<1> HIDE DEF s
<1>4. /\ clients_' \in [Clients -> ClientStates] /\ clients_'[c] = s
      /\ \A d \in Clients \ {c} : clients_'[d] = clients_[d]
  BY <1>1, <1>3, OneState DEF StreamType
<1>5. ASSUME NEW k \in Keys
      PROVE  /\ subscriptionIndex_'[k] =
                  IF k \in clients_'[c].subscriptions THEN subscriptionIndex_[k] \cup {c}
                  ELSE subscriptionIndex_[k] \ {c}
             /\ subscriptionIndex_'[k] \subseteq Clients
  <2>1. subscriptionIndex_'[k] = subscriptionIndex_[k] \ IF k \in K THEN {c} ELSE {}
    BY DEF Unsubscribed
  <2>2. subscriptionIndex_[k] = {d \in Clients : k \in clients_[d].subscriptions}
    BY DEF ClientInv, IndexMatchesSubscriptions
  <2> QED
    BY <1>3, <1>4, <2>1, <2>2
<1>6. subscriptionIndex_' \in [Keys -> SUBSET Clients]
  <2>1. subscriptionIndex_' = [k \in Keys |-> subscriptionIndex_'[k]]
    BY DEF Unsubscribed
  <2> QED
    BY <1>5, <2>1
<1> QED
  BY <1>3, <1>4, <1>5, <1>6

\* A client that is removed leaves the index.
LEMMA RemoveClientStep ==
    ASSUME StreamType, ClientInv, NEW c \in Clients,
           removeClient(c)
    PROVE  StreamType' /\ ClientInv'
<1> DEFINE h == [handler[c] EXCEPT !.pc = "gone"]
<1>1. handler' = [handler EXCEPT ![c] = h]
  BY DEF removeClient, StreamType
<1>2. handler[c] \in Handlers
  BY DEF StreamType
<1>3. h \in Handlers /\ h.pc = "gone"
  BY <1>2 DEF Handlers
<1> HIDE DEF h
<1>4. /\ handler' \in [Clients -> Handlers] /\ handler'[c] = h
      /\ \A d \in Clients \ {c} : handler'[d] = handler[d]
  BY <1>1, <1>3, OneHandler DEF StreamType
<1>5. /\ c \notin connected /\ registered' = registered \ {c}
      /\ Unsubscribed(c, clients_[c].subscriptions)
      /\ UNCHANGED <<V, log_db, batch, connected, loop, inbox>>
  BY DEF removeClient
<1>6. /\ clients_' \in [Clients -> ClientStates]
      /\ \A d \in Clients \ {c} : clients_'[d] = clients_[d]
      /\ clients_'[c].subscriptions
            = clients_[c].subscriptions \ clients_[c].subscriptions
      /\ subscriptionIndex_' \in [Keys -> SUBSET Clients]
      /\ \A k \in Keys : subscriptionIndex_'[k] =
            IF k \in clients_'[c].subscriptions THEN subscriptionIndex_[k] \cup {c}
            ELSE subscriptionIndex_[k] \ {c}
  BY <1>5, UnsubscribedState
<1>7. ClientInv'
  BY <1>3, <1>4, <1>5, <1>6, OneClient DEF StreamType
<1> QED
  BY <1>4, <1>5, <1>6, <1>7 DEF StreamType, log_db

\* An unsubscribe message.
LEMMA UnsubscribeStep ==
    ASSUME StreamType, ClientInv, NEW c \in Clients, NEW K \in SUBSET Keys,
           unsubscribe(c, K)
    PROVE  StreamType' /\ ClientInv'
<1>1. /\ handler[c].pc = "idle" /\ c \in connected /\ Unsubscribed(c, K)
      /\ UNCHANGED <<V, log_db, batch, connected, registered, loop, handler, inbox>>
  BY DEF unsubscribe, NextMessage
<1>2. /\ clients_' \in [Clients -> ClientStates]
      /\ \A d \in Clients \ {c} : clients_'[d] = clients_[d]
      /\ clients_'[c].catchUpInProgress = clients_[c].catchUpInProgress
      /\ subscriptionIndex_' \in [Keys -> SUBSET Clients]
      /\ \A k \in Keys : subscriptionIndex_'[k] =
            IF k \in clients_'[c].subscriptions THEN subscriptionIndex_[k] \cup {c}
            ELSE subscriptionIndex_[k] \ {c}
  BY <1>1, UnsubscribedState
<1>3. ~ clients_[c].catchUpInProgress /\ c \in registered
  BY <1>1 DEF ClientInv, NotLeftMuted, RegisteredInv
<1>4. handler' \in [Clients -> Handlers] /\ connected \subseteq Clients
  BY <1>1 DEF StreamType
<1>5. ClientInv'
  BY <1>1, <1>2, <1>3, <1>4, OneClient
<1> QED
  BY <1>1, <1>2, <1>5 DEF StreamType, log_db

\* One key is subscribed, in the state of c and in the index.
LEMMA SubscribeStep ==
    ASSUME StreamType, ClientInv, NEW c \in Clients, NEW k \in Keys,
           subscribe(c, k)
    PROVE  StreamType' /\ ClientInv'
<1> DEFINE h == [handler[c] EXCEPT !.todo = @ \ {k}]
           s == [clients_[c] EXCEPT !.subscriptions = @ \cup {k}]
<1>1. handler' = [handler EXCEPT ![c] = h] /\ clients_' = [clients_ EXCEPT ![c] = s]
  BY DEF subscribe, StreamType
<1>2. handler[c] \in Handlers /\ clients_[c] \in ClientStates
  BY DEF StreamType
<1>3. h \in Handlers /\ h.pc = handler[c].pc
  BY <1>2 DEF Handlers
<1>4. /\ s \in ClientStates /\ s.subscriptions = clients_[c].subscriptions \cup {k}
      /\ s.catchUpInProgress = clients_[c].catchUpInProgress
  BY <1>2 DEF ClientStates
<1> HIDE DEF h, s
<1>5. /\ handler' \in [Clients -> Handlers] /\ handler'[c] = h
      /\ clients_' \in [Clients -> ClientStates] /\ clients_'[c] = s
      /\ \A d \in Clients \ {c} : handler'[d] = handler[d] /\ clients_'[d] = clients_[d]
  BY <1>1, <1>3, <1>4, OneHandler, OneState DEF StreamType
<1>6. /\ handler[c].pc = "subscribe"
      /\ subscriptionIndex_' = [subscriptionIndex_ EXCEPT ![k] = @ \cup {c}]
      /\ UNCHANGED <<V, log_db, batch, connected, registered, loop, inbox>>
  BY DEF subscribe
<1>7. subscriptionIndex_' \in [Keys -> SUBSET Clients]
  BY <1>6 DEF StreamType
<1>8. ASSUME NEW e \in Keys
      PROVE  subscriptionIndex_'[e] =
                IF e \in clients_'[c].subscriptions THEN subscriptionIndex_[e] \cup {c}
                ELSE subscriptionIndex_[e] \ {c}
  <2>1. subscriptionIndex_'[e] = IF e = k THEN subscriptionIndex_[e] \cup {c}
                                 ELSE subscriptionIndex_[e]
    BY <1>6 DEF StreamType
  <2>2. c \in subscriptionIndex_[e] <=> e \in clients_[c].subscriptions
    BY DEF ClientInv, IndexMatchesSubscriptions
  <2> QED
    BY <1>4, <1>5, <2>1, <2>2
<1>9. c \in registered /\ ~(c \in connected /\ clients_[c].catchUpInProgress)
  BY <1>6 DEF ClientInv, NotLeftMuted, RegisteredInv
<1>10. ClientInv'
  BY <1>3, <1>4, <1>5, <1>6, <1>8, <1>9, OneClient DEF StreamType
<1> QED
  BY <1>5, <1>6, <1>7, <1>10 DEF StreamType, log_db

\* The amount filter is set.
LEMMA FilterStep ==
    ASSUME StreamType, ClientInv, NEW c \in Clients,
           setClientTransferMinAmount(c)
    PROVE  StreamType' /\ ClientInv'
<1> DEFINE h == [handler[c] EXCEPT !.pc = "subscribe", !.todo = handler[c].msg.keys]
           s == [clients_[c] EXCEPT !.transferMinAmount =
                    IF handler[c].msg.min = "absent" THEN @ ELSE handler[c].msg.min = "on"]
<1>1. handler' = [handler EXCEPT ![c] = h] /\ clients_' = [clients_ EXCEPT ![c] = s]
  BY DEF setClientTransferMinAmount, StreamType, manager
<1>2. handler[c] \in Handlers /\ clients_[c] \in ClientStates
  BY DEF StreamType
<1>3. h \in Handlers /\ h.pc = "subscribe"
  BY <1>2 DEF Handlers, Message
<1>4. s \in ClientStates /\ s.subscriptions = clients_[c].subscriptions
      /\ s.catchUpInProgress = clients_[c].catchUpInProgress
  BY <1>2 DEF ClientStates
<1> HIDE DEF h, s
<1>5. /\ handler' \in [Clients -> Handlers] /\ handler'[c] = h
      /\ clients_' \in [Clients -> ClientStates] /\ clients_'[c] = s
      /\ \A d \in Clients \ {c} : handler'[d] = handler[d] /\ clients_'[d] = clients_[d]
  BY <1>1, <1>3, <1>4, OneHandler, OneState DEF StreamType
<1>6. handler[c].pc = "filter" /\ UNCHANGED <<V, log_db, batch, connected, registered, subscriptionIndex_, loop, inbox>>
  BY DEF setClientTransferMinAmount, manager
<1>7. ~(c \in connected /\ clients_[c].catchUpInProgress) \/ handler[c].pc = "replay"
  BY DEF ClientInv, NotLeftMuted
<1>9. ClientInv'
  BY <1>1, <1>3, <1>4, <1>5, <1>6, <1>7, SameSubscriptions DEF StreamType
<1> QED
  BY <1>5, <1>6, <1>9 DEF StreamType, log_db

\* A message without keys is rejected.
LEMMA RejectStep ==
    ASSUME StreamType, ClientInv, NEW c \in Clients,
           RejectSubscribe(c)
    PROVE  StreamType' /\ ClientInv'
<1> DEFINE h == [handler[c] EXCEPT !.pc = "idle"]
<1>1. handler' = [handler EXCEPT ![c] = h] /\ clients_' = clients_
  BY DEF RejectSubscribe, StreamType, manager
<1>2. handler[c] \in Handlers /\ clients_[c] \in ClientStates
  BY DEF StreamType
<1>3. h \in Handlers /\ h.pc = "idle"
  BY <1>2 DEF Handlers
<1> HIDE DEF h
<1>5. /\ handler' \in [Clients -> Handlers] /\ handler'[c] = h
      /\ clients_' \in [Clients -> ClientStates]
      /\ \A d \in Clients \ {c} : handler'[d] = handler[d] /\ clients_'[d] = clients_[d]
  BY <1>1, <1>3, OneHandler DEF StreamType
<1>6. handler[c].pc = "subscribe" /\ UNCHANGED <<V, log_db, batch, connected, registered, subscriptionIndex_, loop, inbox>>
  BY DEF RejectSubscribe, manager
<1>7. ~(c \in connected /\ clients_[c].catchUpInProgress) \/ handler[c].pc = "replay"
  BY DEF ClientInv, NotLeftMuted
<1>9. ClientInv'
  BY <1>1, <1>3, <1>5, <1>6, <1>7, SameSubscriptions DEF StreamType
<1> QED
  BY <1>5, <1>6, <1>9 DEF StreamType, log_db

\* The target of a replay from a tick is before the current tick.
LEMMA ReadTargetStep ==
    ASSUME StreamType, ClientInv, NEW c \in Clients,
           ReadTarget(c)
    PROVE  StreamType' /\ ClientInv'
<1> DEFINE h == [handler[c] EXCEPT !.target = CatchUpTarget(c),
                                   !.pc = IF NothingYet(c) THEN "idle" ELSE "begin"]
<1>1. handler' = [handler EXCEPT ![c] = h] /\ clients_' = clients_
  BY DEF ReadTarget, StreamType, manager
<1>2. handler[c] \in Handlers /\ clients_[c] \in ClientStates
  BY DEF StreamType
<1>3. h \in Handlers /\ h.pc \in {"idle", "begin"}
      /\ (h.msg.mode # "logId" => h.target < V)
  <2>1. V \in Int /\ latest_log_id \in Int
    BY DEF StreamType, Logs
  <2>3. CatchUpTarget(c) \in Int /\ (~ById(c) => CatchUpTarget(c) < V)
    BY <2>1 DEF CatchUpTarget
  <2> QED
    BY <1>2, <2>3 DEF Handlers, ById
<1> HIDE DEF h
<1>5. /\ handler' \in [Clients -> Handlers] /\ handler'[c] = h
      /\ clients_' \in [Clients -> ClientStates]
      /\ \A d \in Clients \ {c} : handler'[d] = handler[d] /\ clients_'[d] = clients_[d]
  BY <1>1, <1>3, OneHandler DEF StreamType
<1>6. handler[c].pc = "subscribe" /\ UNCHANGED <<V, log_db, batch, connected, registered, subscriptionIndex_, loop, inbox>>
  BY DEF ReadTarget, manager
<1>7. ~(c \in connected /\ clients_[c].catchUpInProgress) \/ handler[c].pc = "replay"
  BY DEF ClientInv, NotLeftMuted
<1>9. ClientInv'
  BY <1>1, <1>3, <1>5, <1>6, <1>7, SameSubscriptions DEF StreamType
<1> QED
  BY <1>5, <1>6, <1>9 DEF StreamType, log_db

\* A catch-up that ends clears the flag.
LEMMA FinishStep ==
    ASSUME StreamType, ClientInv, NEW c \in Clients,
           FinishCatchUp(c)
    PROVE  StreamType' /\ ClientInv'
<1> DEFINE h == [handler[c] EXCEPT !.pc = "idle"]
           s == [clients_[c] EXCEPT !.catchUpInProgress = FALSE,
                                    !.lastTick = IF ById(c) THEN @ ELSE handler[c].target,
                                    !.lastLogId = IF ById(c) THEN handler[c].target ELSE @]
<1>1. handler' = [handler EXCEPT ![c] = h] /\ clients_' = [clients_ EXCEPT ![c] = s]
  BY DEF FinishCatchUp, CaughtUp, StreamType, manager
<1>2. handler[c] \in Handlers /\ clients_[c] \in ClientStates
  BY DEF StreamType
<1>3. h \in Handlers /\ h.pc = "idle"
  BY <1>2 DEF Handlers
<1>4. s \in ClientStates /\ s.subscriptions = clients_[c].subscriptions
      /\ ~ s.catchUpInProgress
  BY <1>2 DEF ClientStates, Handlers
<1> HIDE DEF h, s
<1>5. /\ handler' \in [Clients -> Handlers] /\ handler'[c] = h
      /\ clients_' \in [Clients -> ClientStates] /\ clients_'[c] = s
      /\ \A d \in Clients \ {c} : handler'[d] = handler[d] /\ clients_'[d] = clients_[d]
  BY <1>1, <1>3, <1>4, OneHandler, OneState DEF StreamType
<1>6. handler[c].pc = "replay" /\ UNCHANGED <<V, log_db, batch, connected, registered, subscriptionIndex_, loop, inbox>>
  BY DEF FinishCatchUp, CaughtUp, manager
<1>7. ~(c \in connected /\ clients_[c].catchUpInProgress) \/ handler[c].pc = "replay"
  BY DEF ClientInv, NotLeftMuted
<1>9. ClientInv'
  BY <1>1, <1>3, <1>4, <1>5, <1>6, <1>7, SameSubscriptions DEF StreamType
<1> QED
  BY <1>5, <1>6, <1>9 DEF StreamType, log_db

\* A catch-up starts: the flag is set together with the state of the handler.
LEMMA BeginStep ==
    ASSUME StreamType, ClientInv, NEW c \in Clients,
           BeginCatchUp(c)
    PROVE  StreamType' /\ ClientInv'
<1>0. handler[c] \in Handlers /\ clients_[c] \in ClientStates /\ connected \subseteq Clients
  BY DEF StreamType
<1>1. /\ handler[c].pc = "begin"
      /\ UNCHANGED <<V, log_db, batch, connected, registered, subscriptionIndex_, loop, inbox>>
  BY DEF BeginCatchUp
<1>2. ~(c \in connected /\ clients_[c].catchUpInProgress)
  BY <1>1 DEF ClientInv, NotLeftMuted
<1>3. CASE NothingToReplay(c)
  <2> DEFINE h == [handler[c] EXCEPT !.pc = "idle"]
  <2>1. handler' = [handler EXCEPT ![c] = h] /\ clients_' = clients_
    BY <1>3 DEF BeginCatchUp, StreamType
  <2>2. h \in Handlers /\ h.pc = "idle"
    BY <1>0 DEF Handlers
  <2> HIDE DEF h
  <2>3. /\ handler' \in [Clients -> Handlers] /\ handler'[c] = h
        /\ clients_' \in [Clients -> ClientStates]
        /\ \A d \in Clients \ {c} : handler'[d] = handler[d] /\ clients_'[d] = clients_[d]
    BY <2>1, <2>2, OneHandler DEF StreamType
  <2>4. ClientInv'
    BY <1>0, <1>1, <1>2, <2>1, <2>2, <2>3, SameSubscriptions
  <2> QED
    BY <1>1, <2>3, <2>4 DEF StreamType, log_db
<1>4. CASE ~NothingToReplay(c)
  <2> DEFINE h == [handler[c] EXCEPT !.pc = "replay", !.next = FirstToReplay(c),
                                     !.keys = clients_[c].subscriptions]
             s == [clients_[c] EXCEPT !.catchUpInProgress = TRUE]
  <2>1. handler' = [handler EXCEPT ![c] = h] /\ clients_' = [clients_ EXCEPT ![c] = s]
    BY <1>4 DEF BeginCatchUp, StreamType
  <2>2. FirstToReplay(c) \in Int
    <3>1. clients_[c].lastLogId + 1 \in Int /\ clients_[c].lastTick + 1 \in Int
      BY <1>0 DEF ClientStates
    <3>2. \A x, y \in Int : Max({x, y}) \in Int
      <4> TAKE x, y \in Int
      <4>1. \E z \in {x, y} : \A v \in {x, y} : z >= v
        OBVIOUS
      <4> QED
        BY <4>1 DEF Max
    <3> QED
      BY <3>1, <3>2, StreamAssumption DEF FirstToReplay
  <2>3. /\ h \in Handlers /\ h.pc = "replay"
        /\ h.msg = handler[c].msg /\ h.target = handler[c].target
    BY <1>0, <2>2 DEF Handlers, ClientStates
  <2>4. s \in ClientStates /\ s.subscriptions = clients_[c].subscriptions
    BY <1>0 DEF ClientStates
  <2> HIDE DEF h, s
  <2>5. /\ handler' \in [Clients -> Handlers] /\ handler'[c] = h
        /\ clients_' \in [Clients -> ClientStates] /\ clients_'[c] = s
        /\ \A d \in Clients \ {c} : handler'[d] = handler[d] /\ clients_'[d] = clients_[d]
    BY <2>1, <2>3, <2>4, OneHandler, OneState DEF StreamType
  <2>6. handler[c].msg.mode # "logId" => handler[c].target < V
    BY <1>1 DEF ClientInv, TargetInv, ById
  <2>7. ClientInv'
    BY <1>0, <1>1, <2>3, <2>4, <2>5, <2>6, SameSubscriptions
  <2> QED
    BY <1>1, <2>5, <2>7 DEF StreamType, log_db
<1> QED
  BY <1>3, <1>4

\* A batch of a catch-up goes on or ends; it ends early on a closed connection only.
LEMMA CatchUpClient ==
    ASSUME StreamType, ClientInv, NEW c \in Clients, CatchUpBatch(c)
    PROVE  ClientInv' /\ handler' \in [Clients -> Handlers]
<1> DEFINE pc == IF c \notin connected /\ (ById(c) \/ Fetched(c) # {}) THEN "idle"
                 ELSE handler[c].pc
           h == [handler[c] EXCEPT !.next = @ + BATCH_SIZE, !.pc = pc]
<1>0. handler[c] \in Handlers /\ clients_[c] \in ClientStates /\ connected \subseteq Clients
  BY DEF StreamType
<1>1. /\ handler[c].pc = "replay"
      /\ UNCHANGED <<V, clients_, connected, registered, subscriptionIndex_>>
  BY DEF CatchUpBatch, manager
<1>2. handler' = [handler EXCEPT ![c] = h]
  BY DEF CatchUpBatch, StreamType
<1>3. pc \in {"idle", "replay"} /\ (c \in connected => pc = "replay")
  BY <1>1
<1> HIDE DEF pc
<1>4. /\ h \in Handlers /\ h.pc = pc
      /\ h.msg = handler[c].msg /\ h.target = handler[c].target
  <2>1. handler[c].next + BATCH_SIZE \in Int
    BY <1>0, StreamAssumption DEF Handlers
  <2> QED
    BY <1>0, <1>3, <2>1 DEF Handlers
<1> HIDE DEF h
<1>5. /\ handler' \in [Clients -> Handlers] /\ handler'[c] = h
      /\ \A d \in Clients \ {c} : handler'[d] = handler[d]
  BY <1>2, <1>4, OneHandler DEF StreamType
<1>6. handler[c].msg.mode # "logId" => handler[c].target < V
  BY <1>1 DEF ClientInv, TargetInv, ById
<1>7. clients_' \in [Clients -> ClientStates]
  BY <1>1 DEF StreamType
<1> QED
  BY <1>0, <1>1, <1>3, <1>4, <1>5, <1>6, <1>7, SameSubscriptions

--------------------------------------------------------------------------------
(* The steps of the verifier and of the queue *)

\* Members of the queue and of the inboxes are logs, and their ticks are numbers.
LEMMA Members ==
    ASSUME StreamType
    PROVE  /\ \A l \in Logs : l \in Int /\ LogTick[l] \in Int
           /\ Len(loop) \in Nat
           /\ \A c \in Clients : \A i \in 1 .. Len(loop) :
                 /\ loop[i][c] \in Seq(Logs)
                 /\ \A p \in 1 .. Len(loop[i][c]) : loop[i][c][p] \in Logs
           /\ \A c \in Clients : \A n \in 1 .. Len(inbox[c]) :
                 inbox[c][n][1] \in Logs
<1>1. \A l \in Logs : l \in Int /\ LogTick[l] \in Int
  BY StreamAssumption DEF Logs, Ticks
<1>2. Len(loop) \in Nat
  BY LenProperties DEF StreamType
<1>3. ASSUME NEW c \in Clients, NEW i \in 1 .. Len(loop)
      PROVE  loop[i][c] \in Seq(Logs)
  <2>1. loop[i] \in [Clients -> Seq(Logs)]
    BY <1>3, ElementOfSeq DEF StreamType
  <2> QED
    BY <2>1
<1>4. ASSUME NEW c \in Clients, NEW i \in 1 .. Len(loop), NEW p \in 1 .. Len(loop[i][c])
      PROVE  loop[i][c][p] \in Logs
  BY <1>3, <1>4, ElementOfSeq
<1>5. ASSUME NEW c \in Clients, NEW n \in 1 .. Len(inbox[c])
      PROVE  inbox[c][n][1] \in Logs
  <2>1. inbox[c][n] \in Letters
    BY <1>5, ElementOfSeq DEF StreamType
  <2> QED
    BY <2>1 DEF Letters
<1> QED
  BY <1>1, <1>2, <1>3, <1>4, <1>5

\* The frontier is a number and not behind V.
LEMMA FrontierType ==
    ASSUME StreamType, BatchInv
    PROVE  Frontier \in Int /\ V \in Int /\ V <= Frontier
BY DEF StreamType, BatchInv, Frontier

\* A verifier step that sends nothing moves V and the frontier forward.
LEMMA FrontierGrows ==
    ASSUME StreamType, StreamInv, BatchInv', V' \in Int, V <= V',
           Frontier' \in Int, Frontier <= Frontier', UNCHANGED <<loop, inbox>>
    PROVE  StreamInv'
<1>0. Frontier \in Int /\ V \in Int
  BY FrontierType DEF StreamInv
<1>1. \A l \in Logs : LogTick[l] \in Int
  BY Members
<1>2. \A l \in Logs : Before(l) => Before(l)'
  BY <1>0, <1>1 DEF Before
<1>3. LoopInv'
  BY <1>2, Members DEF StreamInv, LoopInv
<1>4. \A l \in Logs : LogTick[l] < V => LogTick[l] < V'
  BY <1>0, <1>1
<1>5. InboxInv'
  BY <1>2, <1>4, Members DEF StreamInv, InboxInv
<1>6. InboxBeforeLoop' /\ LiveInOrder'
  BY DEF StreamInv, InboxBeforeLoop, LiveInOrder
<1> QED
  BY <1>3, <1>5, <1>6 DEF StreamInv

LEMMA VerifyStep ==
    ASSUME StreamType, ClientInv, StreamInv, NEW to \in Ticks, VerifyBatch(to)
    PROVE  StreamType' /\ ClientInv' /\ StreamInv'
<1>1. /\ batch.pc = "idle" /\ to \in Int /\ V \in Int /\ V <= to
      /\ batch' = [pc |-> IF registered # {} /\ LogsOf(V, to) # {} THEN "push"
                          ELSE "advance", to |-> to, tick |-> V]
      /\ UNCHANGED <<V, log_db, connected, manager, loop, handler, inbox>>
  BY DEF VerifyBatch, StreamType, Ticks
<1>2. /\ batch'.pc \in {"push", "advance"} /\ batch'.to = to /\ batch'.tick = V
      /\ batch' \in [pc : {"idle", "push", "advance"}, to : Int, tick : Int]
  BY <1>1
<1>3. BatchInv'
  BY <1>1, <1>2 DEF BatchInv
<1>4. Frontier = V /\ Frontier' \in Int /\ V <= Frontier'
  BY <1>1, <1>2 DEF Frontier
<1>5. StreamInv'
  BY <1>1, <1>3, <1>4, FrontierGrows
<1>6. StreamType'
  BY <1>1, <1>2 DEF StreamType, log_db, manager
<1>7. ClientInv'
  BY <1>1 DEF ClientInv, RegisteredInv, IndexMatchesSubscriptions, NotLeftMuted, TargetInv,
             ById, manager
<1> QED
  BY <1>5, <1>6, <1>7

LEMMA AdvanceStep ==
    ASSUME StreamType, ClientInv, StreamInv, AdvanceVerifier
    PROVE  StreamType' /\ ClientInv' /\ StreamInv'
<1>1. /\ batch.pc = "advance" /\ batch.to \in Int /\ V \in Int /\ V <= batch.to
      /\ V' = batch.to + 1 /\ batch' = [batch EXCEPT !.pc = "idle"]
      /\ UNCHANGED <<log_db, connected, manager, loop, handler, inbox>>
  BY DEF AdvanceVerifier, StreamType, StreamInv, BatchInv
<1>2. /\ batch'.pc = "idle"
      /\ batch' \in [pc : {"idle", "push", "advance"}, to : Int, tick : Int]
  BY <1>1 DEF StreamType
<1>3. BatchInv'
  BY <1>2 DEF BatchInv
<1>4. Frontier = batch.to + 1 /\ Frontier' = V' /\ V' \in Int /\ V < V'
  BY <1>1, <1>2 DEF Frontier
<1>5. StreamInv'
  BY <1>1, <1>3, <1>4, FrontierGrows
<1>6. StreamType'
  BY <1>1, <1>2, <1>4 DEF StreamType, log_db, manager
<1>7. TargetInv'
  <2>1. \A c \in Clients : handler[c].target \in Int
    BY DEF StreamType, Handlers
  <2> QED
    BY <1>1, <1>4, <2>1 DEF ClientInv, TargetInv, ById
<1>8. RegisteredInv' /\ IndexMatchesSubscriptions' /\ NotLeftMuted'
  BY <1>1 DEF ClientInv, RegisteredInv, IndexMatchesSubscriptions, NotLeftMuted, manager
<1> QED
  BY <1>5, <1>6, <1>7, <1>8 DEF ClientInv

\* The verifier loads before it verifies anything.
LEMMA LoadStep ==
    ASSUME StreamType, ClientInv, StreamInv, NEW t \in Ticks, LoadVerifier(t)
    PROVE  StreamType' /\ ClientInv' /\ StreamInv'
<1>1. /\ batch.pc = "idle" /\ V = 0 /\ V' = t /\ t \in Int /\ 0 < t
      /\ UNCHANGED <<log_db, batch, connected, manager, loop, handler, inbox>>
  BY StreamAssumption DEF LoadVerifier, Ticks
<1>2. BatchInv'
  BY <1>1 DEF BatchInv
<1>3. Frontier = 0 /\ Frontier' = t
  BY <1>1 DEF Frontier
<1>4. StreamInv'
  BY <1>1, <1>2, <1>3, FrontierGrows
<1>5. StreamType'
  BY <1>1 DEF StreamType, manager, log_db
<1>6. TargetInv'
  <2>1. \A c \in Clients : handler[c].target \in Int
    BY DEF StreamType, Handlers
  <2> QED
    BY <1>1, <2>1 DEF ClientInv, TargetInv, ById
<1>7. RegisteredInv' /\ IndexMatchesSubscriptions' /\ NotLeftMuted'
  BY <1>1 DEF ClientInv, RegisteredInv, IndexMatchesSubscriptions, NotLeftMuted, manager
<1> QED
  BY <1>4, <1>5, <1>6, <1>7 DEF ClientInv

\* Ids grow with ticks.
LEMMA EarlierTick ==
    ASSUME NEW l \in Logs, NEW m \in Logs, LogTick[l] < LogTick[m]
    PROVE  l < m
<1>1. l \in Int /\ m \in Int /\ LogTick[l] \in Int /\ LogTick[m] \in Int
  BY StreamAssumption DEF Logs, Ticks
<1>2. m < l => LogTick[m] <= LogTick[l]
  BY StreamAssumption
<1> QED
  BY <1>1, <1>2

\* pushVerifiedLogs appends the logs of the tick at the frontier, sorted, and moves
\* the frontier past it.
LEMMA PushStep ==
    ASSUME StreamType, ClientInv, StreamInv, pushVerifiedLogs
    PROVE  StreamType' /\ ClientInv' /\ StreamInv'
<1> DEFINE t == batch.tick
           sends == [c \in Clients |-> Ascending(Pushed(c, t))]
           n == Len(loop)
<1>1. /\ batch.pc = "push"
      /\ loop' = Append(loop, sends) \/ loop' = loop
      /\ batch' = [batch EXCEPT !.tick = t + 1,
                                !.pc = IF t = batch.to THEN "advance" ELSE "push"]
      /\ UNCHANGED <<V, log_db, connected, manager, handler, inbox>>
  BY DEF pushVerifiedLogs
<1>2. t \in Int /\ batch.to \in Int /\ V \in Int /\ V <= t /\ t <= batch.to
  BY <1>1 DEF StreamType, StreamInv, BatchInv
<1>3. /\ batch'.pc = (IF t = batch.to THEN "advance" ELSE "push")
      /\ batch'.tick = t + 1 /\ batch'.to = batch.to
      /\ batch' \in [pc : {"idle", "push", "advance"}, to : Int, tick : Int]
  <2>1. batch \in [pc : {"idle", "push", "advance"}, to : Int, tick : Int]
    BY DEF StreamType
  <2> DEFINE pc == IF t = batch.to THEN "advance" ELSE "push"
  <2>2. batch' = [batch EXCEPT !.tick = t + 1, !.pc = pc] /\ pc \in {"push", "advance"}
    BY <1>1
  <2>3. t + 1 \in Int
    BY <1>2
  <2> HIDE DEF t, pc
  <2>4. /\ batch'.pc = pc /\ batch'.tick = t + 1 /\ batch'.to = batch.to
        /\ batch' \in [pc : {"idle", "push", "advance"}, to : Int, tick : Int]
    BY <2>1, <2>2, <2>3
  <2> QED
    BY <2>4 DEF pc
<1>4. BatchInv'
  BY <1>1, <1>2, <1>3 DEF BatchInv
<1>5. Frontier = t /\ Frontier' = t + 1
  BY <1>1, <1>3 DEF Frontier
<1>6. ASSUME NEW c \in Clients
      PROVE  /\ sends[c] \in Seq(Logs) /\ Len(sends[c]) \in Nat
             /\ \A p \in 1 .. Len(sends[c]) : sends[c][p] \in Logs /\ LogTick[sends[c][p]] = t
             /\ \A p, q \in 1 .. Len(sends[c]) : p < q => sends[c][p] < sends[c][q]
  <2>1. Pushed(c, t) \in SUBSET Logs /\ \A l \in Pushed(c, t) : LogTick[l] = t
    <3>1. \A l \in Logs : LogTick[l] \in Int
      BY Members
    <3> QED
      BY <1>2, <3>1 DEF Pushed, LogsOf
  <2>2. sends[c] = Ascending(Pushed(c, t))
    OBVIOUS
  <2> HIDE DEF sends, t
  <2>3. sends[c] \in Seq(Logs)
    BY <2>1, <2>2, AscendingSorts
  <2>4. \A p \in 1 .. Len(sends[c]) : sends[c][p] \in Pushed(c, t)
    BY <2>1, <2>2, AscendingSorts
  <2>5. \A p, q \in 1 .. Len(sends[c]) : p < q => sends[c][p] < sends[c][q]
    BY <2>1, <2>2, AscendingSorts
  <2> QED
    BY <2>1, <2>3, <2>4, <2>5, LenProperties
<1>7. sends \in [Clients -> Seq(Logs)]
  BY <1>6
<1> HIDE DEF sends, t
<1>8. loop' \in Seq([Clients -> Seq(Logs)])
  <2>1. loop \in Seq([Clients -> Seq(Logs)])
    BY DEF StreamType
  <2>2. Append(loop, sends) \in Seq([Clients -> Seq(Logs)])
    BY <1>7, <2>1, AppendProperties
  <2> QED
    BY <1>1, <2>1, <2>2
<1>9. StreamType'
  BY <1>1, <1>3, <1>8 DEF StreamType, log_db, manager
<1>10. ClientInv'
  BY <1>1 DEF ClientInv, RegisteredInv, IndexMatchesSubscriptions, NotLeftMuted, TargetInv,
              ById, manager
<1>11. StreamInv'
  <2>1. CASE loop' = loop
    BY <1>1, <1>2, <1>4, <1>5, <2>1, FrontierGrows
  <2>2. CASE loop' = Append(loop, sends)
    <3>1. n \in Nat
      BY Members
    <3>2. /\ Len(loop') = n + 1 /\ loop'[n + 1] = sends
          /\ \A i \in 1 .. n : loop'[i] = loop[i]
      BY <1>7, <2>2, AppendProperties DEF StreamType
    <3>3. \A l \in Logs : LogTick[l] \in Int
      BY Members
    <3>4. \A l \in Logs : (Before(l) <=> LogTick[l] < t) /\ (Before(l)' <=> LogTick[l] < t + 1)
      BY <1>5 DEF Before
    <3>5. \A l, m \in Logs : Before(l) /\ LogTick[m] = t => l < m
      BY <3>4, EarlierTick
    <3>6. ASSUME NEW c \in Clients, NEW i \in 1 .. n, NEW p \in 1 .. Len(loop[i][c])
          PROVE  loop[i][c][p] \in Logs /\ Before(loop[i][c][p])
      BY <3>6, Members DEF StreamInv, LoopInv
    <3> HIDE DEF n
    <3>7. LoopInv'
      <4> SUFFICES ASSUME NEW c \in Clients, NEW i \in 1 .. n + 1,
                          NEW p \in 1 .. Len(loop'[i][c])
                   PROVE  /\ LogTick[loop'[i][c][p]] < t + 1
                          /\ \A j \in 1 .. n + 1 : \A q \in 1 .. Len(loop'[j][c]) :
                                i < j \/ (i = j /\ p < q) => loop'[i][c][p] < loop'[j][c][q]
        BY <1>5, <3>2 DEF LoopInv, Before
      <4>1. CASE i \in 1 .. n
        <5>1. loop'[i][c][p] = loop[i][c][p] /\ p \in 1 .. Len(loop[i][c])
          BY <3>2, <4>1
        <5>2. loop[i][c][p] \in Logs /\ Before(loop[i][c][p])
          BY <3>6, <4>1, <5>1
        <5>3. LogTick[loop'[i][c][p]] < t + 1
          BY <1>2, <3>3, <3>4, <5>1, <5>2
        <5>4. ASSUME NEW j \in 1 .. n + 1, NEW q \in 1 .. Len(loop'[j][c]),
                     i < j \/ (i = j /\ p < q)
              PROVE  loop'[i][c][p] < loop'[j][c][q]
          <6>1. CASE j \in 1 .. n
            BY <3>2, <4>1, <5>1, <5>4, <6>1 DEF StreamInv, LoopInv, n
          <6>2. CASE j = n + 1
            BY <1>6, <3>2, <3>5, <5>1, <5>2, <5>4, <6>2
          <6> QED
            BY <3>1, <6>1, <6>2
        <5> QED
          BY <5>3, <5>4
      <4>2. CASE i = n + 1
        <5>1. loop'[i][c] = sends[c]
          BY <3>2, <4>2
        <5>2. LogTick[loop'[i][c][p]] < t + 1
          BY <1>2, <1>6, <3>4, <5>1
        <5>3. ASSUME NEW j \in 1 .. n + 1, NEW q \in 1 .. Len(loop'[j][c]),
                     i < j \/ (i = j /\ p < q)
              PROVE  loop'[i][c][p] < loop'[j][c][q]
          <6>1. j = n + 1 /\ p < q
            BY <3>1, <4>2, <5>3
          <6> QED
            BY <1>6, <4>2, <5>1, <6>1
        <5> QED
          BY <5>2, <5>3
      <4> QED
        BY <3>1, <4>1, <4>2
    <3>8. InboxInv'
      BY <1>1, <1>2, <3>3, <3>4, Members DEF StreamInv, InboxInv
    <3>9. InboxBeforeLoop'
      <4> SUFFICES ASSUME NEW c \in Clients, NEW k \in 1 .. Len(inbox[c]),
                          inbox[c][k][2] = "live",
                          NEW i \in 1 .. n + 1, NEW p \in 1 .. Len(loop'[i][c])
                   PROVE  inbox[c][k][1] < loop'[i][c][p]
        BY <1>1, <3>2 DEF InboxBeforeLoop
      <4>1. CASE i \in 1 .. n
        BY <3>2, <4>1 DEF StreamInv, InboxBeforeLoop, n
      <4>2. CASE i = n + 1
        <5>1. inbox[c][k][1] \in Logs /\ Before(inbox[c][k][1])
          BY Members DEF StreamInv, InboxInv
        <5> QED
          BY <1>6, <3>2, <3>5, <4>2, <5>1
      <4> QED
        BY <3>1, <4>1, <4>2
    <3>10. LiveInOrder'
      BY <1>1 DEF StreamInv, LiveInOrder
    <3> QED
      BY <1>4, <3>7, <3>8, <3>9, <3>10 DEF StreamInv
  <2> QED
    BY <1>1, <2>1, <2>2
<1> QED
  BY <1>9, <1>10, <1>11

\* b is a with the mail for the logs of q after it.
Extends(b, a, q, kind) ==
    /\ b \in Seq(Letters)
    /\ \A n \in 1 .. Len(b) :
          \/ n \in 1 .. Len(a) /\ b[n] = a[n]
          \/ /\ n > Len(a) /\ n - Len(a) \in 1 .. Len(q)
             /\ b[n][1] = q[n - Len(a)]
             /\ b[n][2] = kind

LEMMA Extended ==
    ASSUME NEW a \in Seq(Letters), NEW q \in Seq(Logs), NEW kind \in {"live", "tick", "id"}
    PROVE  Extends(a \o Mail(q, kind), a, q, kind)
<1> DEFINE b == a \o Mail(q, kind)
<1>1. Len(a) \in Nat /\ Len(q) \in Nat
  BY LenProperties
<1>2. \A i \in 1 .. Len(q) : <<q[i], kind>> \in Letters
  BY ElementOfSeq DEF Letters
<1> DEFINE m == [i \in 1 .. Len(q) |-> <<q[i], kind>>]
<1>3. m \in Seq(Letters) /\ Len(m) = Len(q) /\ Mail(q, kind) = m
  BY <1>1, <1>2 DEF Mail
<1>4. \A i \in 1 .. Len(q) : m[i][1] = q[i] /\ m[i][2] = kind
  OBVIOUS
<1> HIDE DEF m
<1>5. /\ b \in Seq(Letters) /\ Len(b) = Len(a) + Len(q)
      /\ \A n \in 1 .. Len(a) + Len(q) :
            b[n] = IF n <= Len(a) THEN a[n] ELSE m[n - Len(a)]
  <2>1. b = a \o m
    BY <1>3
  <2>2. m \in Seq(Letters) /\ Len(m) = Len(q)
    BY <1>3
  <2>3. a \o m \in Seq(Letters) /\ Len(a \o m) = Len(a) + Len(m)
    BY <2>2, ConcatProperties
  <2>4. \A n \in 1 .. Len(a) + Len(m) :
            (a \o m)[n] = IF n <= Len(a) THEN a[n] ELSE m[n - Len(a)]
    BY <2>2, ConcatProperties
  <2> QED
    BY <2>1, <2>2, <2>3, <2>4
<1> HIDE DEF b
<1>6. \A n \in 1 .. Len(a) : b[n] = a[n]
  BY <1>1, <1>5
<1>7. ASSUME NEW n \in 1 .. Len(b), n \notin 1 .. Len(a)
      PROVE  /\ n > Len(a) /\ n - Len(a) \in 1 .. Len(q)
             /\ b[n][1] = q[n - Len(a)] /\ b[n][2] = kind
  <2>1. n > Len(a) /\ n - Len(a) \in 1 .. Len(q)
    BY <1>1, <1>5, <1>7
  <2>2. b[n] = m[n - Len(a)]
    BY <1>1, <1>5, <1>7, <2>1
  <2> QED
    BY <1>4, <2>1, <2>2
<1> QED
  <2>1. Extends(b, a, q, kind)
    BY <1>1, <1>5, <1>6, <1>7 DEF Extends
  <2> QED
    BY <2>1 DEF b

\* Loop 0 delivers the oldest sends: what is delivered comes after what c has and
\* before what stays in the queue.
LEMMA RunLoopStep ==
    ASSUME StreamType, ClientInv, StreamInv, RunLoop
    PROVE  StreamType' /\ ClientInv' /\ StreamInv'
<1>1. /\ loop # << >> /\ loop' = Tail(loop)
      /\ inbox' = [c \in Clients |-> IF c \in connected
                                     THEN inbox[c] \o Mail(Head(loop)[c], "live")
                                     ELSE inbox[c]]
      /\ UNCHANGED <<V, log_db, batch, connected, manager, handler>>
  BY DEF RunLoop
<1>2. loop \in Seq([Clients -> Seq(Logs)])
  BY DEF StreamType
<1>3. /\ loop' \in Seq([Clients -> Seq(Logs)]) /\ Len(loop) \in Nat /\ Len(loop) >= 1
      /\ Len(loop') = Len(loop) - 1 /\ Head(loop) = loop[1]
      /\ \A i \in 1 .. Len(loop') : i + 1 \in 1 .. Len(loop) /\ loop'[i] = loop[i + 1]
  <2>1. Len(loop) \in Nat /\ Len(loop) >= 1
    BY <1>1, <1>2, EmptySeq
  <2>2. /\ Tail(loop) \in Seq([Clients -> Seq(Logs)]) /\ Len(Tail(loop)) = Len(loop) - 1
        /\ \A i \in 1 .. Len(Tail(loop)) : Tail(loop)[i] = loop[i + 1]
    BY <1>1, <1>2, HeadTailProperties
  <2>3. Head(loop) = loop[1]
    BY <1>2
  <2> QED
    BY <1>1, <2>1, <2>2, <2>3
<1>4. ASSUME NEW c \in Clients
      PROVE  /\ inbox'[c] \in Seq(Letters)
             /\ \A n \in 1 .. Len(inbox'[c]) :
                   \/ n \in 1 .. Len(inbox[c]) /\ inbox'[c][n] = inbox[c][n]
                   \/ /\ n > Len(inbox[c])
                      /\ n - Len(inbox[c]) \in 1 .. Len(loop[1][c])
                      /\ inbox'[c][n][1] = loop[1][c][n - Len(inbox[c])]
                      /\ inbox'[c][n][2] = "live"
  <2>1. inbox[c] \in Seq(Letters) /\ loop[1][c] \in Seq(Logs)
    BY <1>3, Members DEF StreamType
  <2>2. CASE c \in connected
    <3>1. inbox'[c] = inbox[c] \o Mail(loop[1][c], "live")
      BY <1>1, <1>3, <2>2
    <3>2. Extends(inbox'[c], inbox[c], loop[1][c], "live")
      BY <2>1, <3>1, Extended
    <3> QED
      BY <3>2 DEF Extends
  <2>3. CASE c \notin connected
    BY <1>1, <2>1, <2>3
  <2> QED
    BY <2>2, <2>3
<1>5. StreamType'
  <2>1. inbox' \in [Clients -> Seq(Letters)]
    <3>1. inbox' = [c \in Clients |-> inbox'[c]]
      BY <1>1
    <3> QED
      BY <1>4, <3>1
  <2> QED
    BY <1>1, <1>3, <2>1 DEF StreamType, log_db, manager
<1>6. ClientInv'
  BY <1>1 DEF ClientInv, RegisteredInv, IndexMatchesSubscriptions, NotLeftMuted, TargetInv,
              ById, manager
<1>7. BatchInv' /\ Frontier' = Frontier
  BY <1>1 DEF StreamInv, BatchInv, Frontier
<1>8. LoopInv'
  <2> SUFFICES ASSUME NEW c \in Clients, NEW i \in 1 .. Len(loop'),
                      NEW p \in 1 .. Len(loop'[i][c])
               PROVE  /\ LogTick[loop'[i][c][p]] < Frontier
                      /\ \A j \in 1 .. Len(loop') : \A q \in 1 .. Len(loop'[j][c]) :
                            i < j \/ (i = j /\ p < q) => loop'[i][c][p] < loop'[j][c][q]
    BY <1>7 DEF LoopInv, Before
  <2>1. i + 1 \in 1 .. Len(loop) /\ loop'[i] = loop[i + 1]
    BY <1>3
  <2>2. ASSUME NEW j \in 1 .. Len(loop'), NEW q \in 1 .. Len(loop'[j][c]),
               i < j \/ (i = j /\ p < q)
        PROVE  loop'[i][c][p] < loop'[j][c][q]
    <3>1. j + 1 \in 1 .. Len(loop) /\ loop'[j] = loop[j + 1]
      BY <1>3
    <3>2. i + 1 < j + 1 \/ (i + 1 = j + 1 /\ p < q)
      BY <2>2
    <3> QED
      BY <2>1, <3>1, <3>2 DEF StreamInv, LoopInv
  <2> QED
    BY <2>1, <2>2 DEF StreamInv, LoopInv, Before
<1>9. ASSUME NEW c \in Clients, NEW i \in 1 .. Len(loop), NEW p \in 1 .. Len(loop[i][c])
      PROVE  /\ Before(loop[i][c][p])
             /\ \A j \in 1 .. Len(loop) : \A q \in 1 .. Len(loop[j][c]) :
                   i < j \/ (i = j /\ p < q) => loop[i][c][p] < loop[j][c][q]
  BY <1>9 DEF StreamInv, LoopInv
<1>10. InboxInv'
  <2> SUFFICES ASSUME NEW c \in Clients, NEW n \in 1 .. Len(inbox'[c])
               PROVE  /\ inbox'[c][n][2] = "live" => LogTick[inbox'[c][n][1]] < Frontier
                      /\ inbox'[c][n][2] = "tick" => LogTick[inbox'[c][n][1]] < V
    BY <1>1, <1>7 DEF InboxInv, Before
  <2>1. CASE n \in 1 .. Len(inbox[c]) /\ inbox'[c][n] = inbox[c][n]
    BY <2>1 DEF StreamInv, InboxInv, Before
  <2>2. CASE /\ n - Len(inbox[c]) \in 1 .. Len(loop[1][c])
             /\ inbox'[c][n][1] = loop[1][c][n - Len(inbox[c])]
             /\ inbox'[c][n][2] = "live"
    <3>1. 1 \in 1 .. Len(loop)
      BY <1>3
    <3> QED
      BY <1>9, <2>2, <3>1 DEF Before
  <2> QED
    BY <1>4, <2>1, <2>2
<1>11. InboxBeforeLoop'
  <2> SUFFICES ASSUME NEW c \in Clients, NEW n \in 1 .. Len(inbox'[c]),
                      inbox'[c][n][2] = "live",
                      NEW i \in 1 .. Len(loop'), NEW p \in 1 .. Len(loop'[i][c])
               PROVE  inbox'[c][n][1] < loop'[i][c][p]
    BY DEF InboxBeforeLoop
  <2>1. i + 1 \in 1 .. Len(loop) /\ loop'[i] = loop[i + 1] /\ 1 < i + 1
    BY <1>3
  <2>2. CASE n \in 1 .. Len(inbox[c]) /\ inbox'[c][n] = inbox[c][n]
    BY <2>1, <2>2 DEF StreamInv, InboxBeforeLoop
  <2>3. CASE /\ n - Len(inbox[c]) \in 1 .. Len(loop[1][c])
             /\ inbox'[c][n][1] = loop[1][c][n - Len(inbox[c])]
    <3>1. 1 \in 1 .. Len(loop)
      BY <1>3
    <3> QED
      BY <1>9, <2>1, <2>3, <3>1
  <2> QED
    BY <1>4, <2>2, <2>3
<1>12. LiveInOrder'
  <2> SUFFICES ASSUME NEW c \in Clients, NEW i \in 1 .. Len(inbox'[c]),
                      NEW j \in 1 .. Len(inbox'[c]), i < j,
                      inbox'[c][i][2] = "live", inbox'[c][j][2] = "live"
               PROVE  inbox'[c][i][1] < inbox'[c][j][1]
    BY DEF LiveInOrder
  <2> DEFINE k == Len(inbox[c])
             New(n) == /\ n > k /\ n - k \in 1 .. Len(loop[1][c])
                       /\ inbox'[c][n][1] = loop[1][c][n - k]
             Old(n) == n \in 1 .. k /\ inbox'[c][n] = inbox[c][n]
  <2>0. k \in Nat /\ 1 \in 1 .. Len(loop)
    BY <1>3, LenProperties DEF StreamType
  <2>1. (Old(i) \/ New(i)) /\ (Old(j) \/ New(j))
    BY <1>4
  <2>2. CASE Old(i) /\ Old(j)
    BY <2>2 DEF StreamInv, LiveInOrder
  <2>3. CASE Old(i) /\ New(j)
    BY <2>0, <2>3 DEF StreamInv, InboxBeforeLoop
  <2>4. CASE New(i) /\ New(j)
    <3>1. i - k < j - k
      BY <2>0
    <3> QED
      BY <1>9, <2>0, <2>4, <3>1
  <2>5. ~(New(i) /\ Old(j))
    BY <2>0
  <2> QED
    BY <2>1, <2>2, <2>3, <2>4, <2>5
<1> QED
  BY <1>5, <1>6, <1>7, <1>8, <1>10, <1>11, <1>12 DEF StreamInv

\* A batch replayed from a tick holds logs of verified ticks only.
LEMMA ReplayedTicks ==
    ASSUME StreamType, ClientInv, NEW c \in Clients, handler[c].pc = "replay", ~ById(c)
    PROVE  \A l \in CatchUpRange(c) : LogTick[l] < V
<1> DEFINE x == handler[c].next + BATCH_SIZE - 1
           y == handler[c].target
<1>1. x \in Int /\ y \in Int /\ V \in Int /\ y < V
  <2>1. handler[c] \in Handlers /\ V \in Int
    BY DEF StreamType
  <2> QED
    BY <2>1, StreamAssumption DEF Handlers, ClientInv, TargetInv
<1> HIDE DEF x, y
<1>2. Min({x, y}) \in Int /\ Min({x, y}) <= y
  <2>1. \E z \in {x, y} : \A v \in {x, y} : z <= v
    BY <1>1
  <2>2. Min({x, y}) \in {x, y} /\ \A v \in {x, y} : Min({x, y}) <= v
    BY <2>1 DEF Min
  <2> QED
    BY <1>1, <2>2
<1>3. CatchUpRange(c) = LogsOf(handler[c].next, Min({x, y}))
  BY DEF CatchUpRange, BatchEnd, x, y
<1>4. \A l \in Logs : LogTick[l] \in Int
  BY Members
<1> QED
  BY <1>1, <1>2, <1>3, <1>4 DEF LogsOf

\* A catch-up batch adds replayed letters, which are not live ones, to one inbox.
LEMMA CatchUpStep ==
    ASSUME StreamType, ClientInv, StreamInv, NEW c \in Clients, CatchUpBatch(c)
    PROVE  StreamType' /\ ClientInv' /\ StreamInv'
<1> DEFINE logs == {l \in Fetched(c) : LogKey[l] \in handler[c].keys}
           sent == Ascending(logs)
           kind == IF ById(c) THEN "id" ELSE "tick"
<1>1. /\ handler[c].pc = "replay"
      /\ inbox' = IF c \in connected
                  THEN [inbox EXCEPT ![c] = inbox[c] \o Mail(sent, kind)] ELSE inbox
      /\ UNCHANGED <<V, log_db, batch, connected, manager, loop>>
  BY DEF CatchUpBatch
<1>2. logs \in SUBSET Logs
  BY DEF StreamType, Fetched
<1>3. kind = "tick" => \A l \in logs : LogTick[l] < V
  BY <1>1, ReplayedTicks DEF Fetched
<1>4. kind \in {"id", "tick"}
  OBVIOUS
<1> HIDE DEF logs, kind
<1>5. /\ sent \in Seq(Logs)
      /\ \A p \in 1 .. Len(sent) : sent[p] \in logs
  BY <1>2, AscendingSorts
<1> HIDE DEF sent
<1>6. ASSUME NEW d \in Clients
      PROVE  /\ inbox'[d] \in Seq(Letters)
             /\ \A n \in 1 .. Len(inbox'[d]) :
                   \/ n \in 1 .. Len(inbox[d]) /\ inbox'[d][n] = inbox[d][n]
                   \/ /\ inbox'[d][n][2] \in {"id", "tick"}
                      /\ inbox'[d][n][2] = "tick" => LogTick[inbox'[d][n][1]] < V
  <2>1. inbox[d] \in Seq(Letters) /\ inbox \in [Clients -> Seq(Letters)]
    BY DEF StreamType
  <2>2. CASE d = c /\ c \in connected
    <3>1. inbox'[d] = inbox[d] \o Mail(sent, kind)
      BY <1>1, <2>1, <2>2
    <3>2. Extends(inbox'[d], inbox[d], sent, kind)
      BY <1>4, <1>5, <2>1, <3>1, Extended
    <3> QED
      BY <1>3, <1>4, <1>5, <3>2 DEF Extends
  <2>3. CASE d # c \/ c \notin connected
    BY <1>1, <2>1, <2>3
  <2> QED
    BY <2>2, <2>3
<1>7. StreamType'
  <2>1. inbox' \in [Clients -> Seq(Letters)]
    <3>1. inbox' = [d \in Clients |-> inbox'[d]]
      BY <1>1 DEF StreamType
    <3> QED
      BY <1>6, <3>1
  <2>2. handler' \in [Clients -> Handlers]
    BY CatchUpClient
  <2> QED
    BY <1>1, <2>1, <2>2 DEF StreamType, log_db, manager
<1>8. BatchInv' /\ LoopInv'
  BY <1>1 DEF StreamInv, BatchInv, LoopInv, Before, Frontier
<1>9. Frontier' = Frontier
  BY <1>1 DEF Frontier
<1>10. InboxInv'
  <2> SUFFICES ASSUME NEW d \in Clients, NEW n \in 1 .. Len(inbox'[d])
               PROVE  /\ inbox'[d][n][2] = "live" => LogTick[inbox'[d][n][1]] < Frontier
                      /\ inbox'[d][n][2] = "tick" => LogTick[inbox'[d][n][1]] < V
    BY <1>1, <1>9 DEF InboxInv, Before
  <2>1. CASE n \in 1 .. Len(inbox[d]) /\ inbox'[d][n] = inbox[d][n]
    BY <2>1 DEF StreamInv, InboxInv, Before
  <2>2. CASE /\ inbox'[d][n][2] \in {"id", "tick"}
             /\ inbox'[d][n][2] = "tick" => LogTick[inbox'[d][n][1]] < V
    BY <2>2
  <2> QED
    BY <1>6, <2>1, <2>2
<1>11. InboxBeforeLoop'
  <2> SUFFICES ASSUME NEW d \in Clients, NEW n \in 1 .. Len(inbox'[d]),
                      inbox'[d][n][2] = "live",
                      NEW i \in 1 .. Len(loop), NEW p \in 1 .. Len(loop[i][d])
               PROVE  inbox'[d][n][1] < loop[i][d][p]
    BY <1>1 DEF InboxBeforeLoop
  <2>1. n \in 1 .. Len(inbox[d]) /\ inbox'[d][n] = inbox[d][n]
    BY <1>6
  <2> QED
    BY <2>1 DEF StreamInv, InboxBeforeLoop
<1>12. LiveInOrder'
  <2>1. ASSUME NEW d \in Clients, NEW n \in 1 .. Len(inbox'[d]), inbox'[d][n][2] = "live"
        PROVE  n \in 1 .. Len(inbox[d]) /\ inbox'[d][n] = inbox[d][n]
    BY <1>6, <2>1
  <2> QED
    BY <2>1 DEF StreamInv, LiveInOrder
<1> QED
  BY <1>7, <1>8, <1>10, <1>11, <1>12, CatchUpClient DEF StreamInv

--------------------------------------------------------------------------------
(* The theorems *)

LEMMA InitIInv == Init => IInv
<1> SUFFICES ASSUME Init PROVE IInv
  OBVIOUS
<1> USE DEF Init
<1>1. StreamType
  <2>1. ClientState \in ClientStates
    BY DEF ClientState, ClientStates
  <2>2. NewHandler \in Handlers
    BY DEF NewHandler, Handlers, Message
  <2>3. << >> \in Seq([Clients -> Seq(Logs)]) /\ << >> \in Seq(Letters)
    BY EmptySeq
  <2> QED
    BY <2>1, <2>2, <2>3, StreamAssumption DEF StreamType
<1>2. RegisteredInv
  BY DEF RegisteredInv, NewHandler
<1>3. IndexMatchesSubscriptions
  BY DEF IndexMatchesSubscriptions, ClientState
<1>4. NotLeftMuted /\ BatchInv
  BY DEF NotLeftMuted, BatchInv
<1>5. TargetInv
  BY DEF TargetInv, NewHandler
<1>6. Len(loop) = 0 /\ \A c \in Clients : Len(inbox[c]) = 0
  BY EmptySeq
<1>7. LoopInv /\ InboxInv /\ InboxBeforeLoop /\ LiveInOrder
  BY <1>6 DEF LoopInv, InboxInv, InboxBeforeLoop, LiveInOrder
<1> QED
  BY <1>1, <1>2, <1>3, <1>4, <1>5, <1>7 DEF IInv

LEMMA IInvStep ==
    ASSUME IInv, [Next]_vars
    PROVE  IInv'
<1> SUFFICES StreamType' /\ ClientInv' /\ StreamInv'
  BY DEF IInv, ClientInv, StreamInv
<1>0. StreamType /\ ClientInv /\ StreamInv
  BY DEF IInv, ClientInv, StreamInv
<1> USE <1>0
<1>1. ASSUME NEW l \in Logs, db_insert_log(l)
      PROVE  StreamType' /\ ClientInv' /\ StreamInv'
  <2>1. StreamType'
    BY <1>1 DEF db_insert_log, StreamType, manager
  <2>2. ClientInv'
    BY <1>1 DEF db_insert_log, ClientInv, RegisteredInv, IndexMatchesSubscriptions,
                NotLeftMuted, TargetInv, ById, manager
  <2>3. UNCHANGED <<V, batch, loop, inbox>>
    BY <1>1 DEF db_insert_log
  <2> QED
    BY <2>1, <2>2, <2>3, StreamFrame
<1>1a. ASSUME NEW l \in Logs, db_update_latest_log_id(l)
       PROVE  StreamType' /\ ClientInv' /\ StreamInv'
  <2>1. StreamType'
    BY <1>1a DEF db_update_latest_log_id, StreamType, manager
  <2>2. ClientInv'
    BY <1>1a DEF db_update_latest_log_id, ClientInv, RegisteredInv,
                 IndexMatchesSubscriptions, NotLeftMuted, TargetInv, ById, manager
  <2>3. UNCHANGED <<V, batch, loop, inbox>>
    BY <1>1a DEF db_update_latest_log_id
  <2> QED
    BY <2>1, <2>2, <2>3, StreamFrame
<1>1b. ASSUME NEW t \in Ticks, cleanTransactionLogs(t)
       PROVE  StreamType' /\ ClientInv' /\ StreamInv'
  <2>1. StreamType'
    BY <1>1b DEF cleanTransactionLogs, StreamType, manager
  <2>2. ClientInv'
    BY <1>1b DEF cleanTransactionLogs, ClientInv, RegisteredInv,
                 IndexMatchesSubscriptions, NotLeftMuted, TargetInv, ById, manager
  <2>3. UNCHANGED <<V, batch, loop, inbox>>
    BY <1>1b DEF cleanTransactionLogs
  <2> QED
    BY <2>1, <2>2, <2>3, StreamFrame
<1>1c. ASSUME NEW t \in Ticks, LoadVerifier(t)
       PROVE  StreamType' /\ ClientInv' /\ StreamInv'
  BY <1>1c, LoadStep
<1>2. ASSUME NEW to \in Ticks, VerifyBatch(to)
      PROVE  StreamType' /\ ClientInv' /\ StreamInv'
  BY <1>2, VerifyStep
<1>3. CASE pushVerifiedLogs
  BY <1>3, PushStep
<1>4. CASE AdvanceVerifier
  BY <1>4, AdvanceStep
<1>5. CASE RunLoop
  BY <1>5, RunLoopStep
<1>6. ASSUME NEW c \in Clients, addClient(c)
      PROVE  StreamType' /\ ClientInv' /\ StreamInv'
  <2>1. UNCHANGED <<V, batch, loop, inbox>>
    BY <1>6 DEF addClient
  <2> QED
    BY <1>6, <2>1, AddClientStep, StreamFrame
<1>7. ASSUME NEW c \in Clients, Disconnect(c)
      PROVE  StreamType' /\ ClientInv' /\ StreamInv'
  <2>1. UNCHANGED <<V, batch, loop, inbox>>
    BY <1>7 DEF Disconnect
  <2> QED
    BY <1>7, <2>1, DisconnectStep, StreamFrame
<1>8. ASSUME NEW c \in Clients, removeClient(c)
      PROVE  StreamType' /\ ClientInv' /\ StreamInv'
  <2>1. UNCHANGED <<V, batch, loop, inbox>>
    BY <1>8 DEF removeClient
  <2> QED
    BY <1>8, <2>1, RemoveClientStep, StreamFrame
<1>9. ASSUME NEW c \in Clients, NEW K \in SUBSET Keys, unsubscribe(c, K)
      PROVE  StreamType' /\ ClientInv' /\ StreamInv'
  <2>1. UNCHANGED <<V, batch, loop, inbox>>
    BY <1>9 DEF unsubscribe
  <2> QED
    BY <1>9, <2>1, UnsubscribeStep, StreamFrame
<1>10. ASSUME NEW c \in Clients, NEW m \in Messages, SetCursor(c, m)
       PROVE  StreamType' /\ ClientInv' /\ StreamInv'
  <2>1. UNCHANGED <<V, batch, loop, inbox>>
    BY <1>10 DEF SetCursor
  <2> QED
    BY <1>10, <2>1, SetCursorStep, StreamFrame
<1>11. ASSUME NEW c \in Clients, setClientTransferMinAmount(c)
       PROVE  StreamType' /\ ClientInv' /\ StreamInv'
  <2>1. UNCHANGED <<V, batch, loop, inbox>>
    BY <1>11 DEF setClientTransferMinAmount
  <2> QED
    BY <1>11, <2>1, FilterStep, StreamFrame
<1>12. ASSUME NEW c \in Clients, RejectSubscribe(c)
       PROVE  StreamType' /\ ClientInv' /\ StreamInv'
  <2>1. UNCHANGED <<V, batch, loop, inbox>>
    BY <1>12 DEF RejectSubscribe
  <2> QED
    BY <1>12, <2>1, RejectStep, StreamFrame
<1>13. ASSUME NEW c \in Clients, NEW k \in Keys, subscribe(c, k)
       PROVE  StreamType' /\ ClientInv' /\ StreamInv'
  <2>1. UNCHANGED <<V, batch, loop, inbox>>
    BY <1>13 DEF subscribe
  <2> QED
    BY <1>13, <2>1, SubscribeStep, StreamFrame
<1>14. ASSUME NEW c \in Clients, ReadTarget(c)
       PROVE  StreamType' /\ ClientInv' /\ StreamInv'
  <2>1. UNCHANGED <<V, batch, loop, inbox>>
    BY <1>14 DEF ReadTarget
  <2> QED
    BY <1>14, <2>1, ReadTargetStep, StreamFrame
<1>15. ASSUME NEW c \in Clients, BeginCatchUp(c)
       PROVE  StreamType' /\ ClientInv' /\ StreamInv'
  <2>1. UNCHANGED <<V, batch, loop, inbox>>
    BY <1>15 DEF BeginCatchUp
  <2> QED
    BY <1>15, <2>1, BeginStep, StreamFrame
<1>16. ASSUME NEW c \in Clients, CatchUpBatch(c)
       PROVE  StreamType' /\ ClientInv' /\ StreamInv'
  BY <1>16, CatchUpStep
<1>17. ASSUME NEW c \in Clients, FinishCatchUp(c)
       PROVE  StreamType' /\ ClientInv' /\ StreamInv'
  <2>1. UNCHANGED <<V, batch, loop, inbox>>
    BY <1>17 DEF FinishCatchUp
  <2> QED
    BY <1>17, <2>1, FinishStep, StreamFrame
<1>18. CASE UNCHANGED vars
  <2>1. StreamType' /\ ClientInv'
    BY <1>18 DEF vars, manager, StreamType, log_db, ClientInv, RegisteredInv,
                 IndexMatchesSubscriptions, NotLeftMuted, TargetInv, ById
  <2>2. UNCHANGED <<V, batch, loop, inbox>>
    BY <1>18 DEF vars
  <2> QED
    BY <2>1, <2>2, StreamFrame
<1> QED
  BY <1>1, <1>1a, <1>1b, <1>1c, <1>2, <1>3, <1>4, <1>5, <1>6, <1>7, <1>8, <1>9, <1>10, <1>11,
     <1>12, <1>13,
     <1>14, <1>15, <1>16, <1>17, <1>18 DEF Next

\* The inductive invariant holds in every reachable state.
THEOREM Invariance == Spec => []IInv
BY InitIInv, IInvStep, PTL DEF Spec

\* The index that routes pushed logs agrees with the subscriptions of the clients
\* through every subscribe, unsubscribe, connect and disconnect.
THEOREM IndexCorrect == Spec => []IndexMatchesSubscriptions
<1>1. IInv => IndexMatchesSubscriptions
  BY DEF IInv
<1> QED
  BY <1>1, Invariance, PTL

\* No interleaving of a catch-up with its connection leaves an open connection
\* silenced by catchUpInProgress.
THEOREM NeverMuted == Spec => []NotLeftMuted
<1>1. IInv => NotLeftMuted
  BY DEF IInv
<1> QED
  BY <1>1, Invariance, PTL

\* Pushed logs reach every client in the order of their ids and once.
THEOREM OrderCorrect == Spec => []LiveInOrder
<1>1. IInv => LiveInOrder
  BY DEF IInv
<1> QED
  BY <1>1, Invariance, PTL

\* A client gets no log of an unverified tick, by push or by a replay from a tick.
THEOREM VerifiedOnly == Spec => []TickStreamIsVerified
<1>1. IInv => TickStreamIsVerified
  <2> SUFFICES ASSUME IInv, NEW c \in Clients, NEW i \in 1 .. Len(inbox[c]),
                      inbox[c][i][2] # "id"
               PROVE  LogTick[inbox[c][i][1]] < V \/ inbox[c][i][1] \in BatchLogs
    BY DEF TickStreamIsVerified
  <2> DEFINE l == inbox[c][i][1]
  <2>1. inbox[c][i] \in Letters
    BY ElementOfSeq DEF IInv, StreamType
  <2>2. l \in Logs /\ LogTick[l] \in Int /\ inbox[c][i][2] \in {"live", "tick"}
    BY <2>1, Members DEF Letters, IInv
  <2>3. (inbox[c][i][2] = "tick" => LogTick[l] < V)
        /\ (inbox[c][i][2] = "live" => LogTick[l] < Frontier)
    BY DEF IInv, InboxInv, Before
  <2>4. V \in Int /\ batch.to \in Int /\ batch.tick \in Int
        /\ (batch.pc = "push" => batch.tick <= batch.to)
    BY DEF IInv, StreamType, BatchInv
  <2> HIDE DEF l
  <2>5. LogTick[l] < Frontier => LogTick[l] < V \/ l \in BatchLogs
    BY <2>2, <2>4 DEF Frontier, BatchLogs, LogsOf
  <2> QED
    BY <2>2, <2>3, <2>5 DEF l
<1> QED
  BY <1>1, Invariance, PTL

--------------------------------------------------------------------------------
(* Completeness of the stream *)

\* What a client needs no more: what it said it has, what it was sent, and what
\* LostOnlyAroundSubscribe excuses.
Covered(c) == claimed[c] \cup Sent(c) \cup excused[c]
Wanted(c, l) == LogKey[l] \in clients_[c].subscriptions

\* While a message is handled, the logs of the current batch are excused and what
\* the message says the client has is claimed.
Busy(c) ==
    Handling(c) => BatchLogs \subseteq excused[c] /\ handler[c].has \subseteq claimed[c]

\* The tick cursor hides no log that is still to be pushed.
TickCursorSafe(c) ==
    \A l \in Logs : LogTick[l] <= clients_[c].lastTick => LogTick[l] < V \/ l \in excused[c]

\* A client at rest is complete up to the frontier and up to its cursors.
AtRest(c) ==
    handler[c].pc = "idle" =>
        /\ TickCursorSafe(c)
        /\ \A l \in Logs :
              Wanted(c, l) /\ (LogTick[l] < Frontier \/ l <= clients_[c].lastLogId)
                 => l \in Covered(c)

\* A message whose catch-up has not begun: what is behind its cursors is what the
\* client has.
Asking(c) ==
    handler[c].pc \in {"filter", "subscribe", "begin"} =>
        \A l \in Logs :
            /\ l <= clients_[c].lastLogId => l \in handler[c].has
            /\ ~ById(c) /\ LogTick[l] <= clients_[c].lastTick /\ LogTick[l] < V =>
                  l \in handler[c].has \cup excused[c]
            /\ ById(c) /\ clients_[c].lastLogId < 0 /\ LogTick[l] < V =>
                  l \in claimed[c] \cup excused[c]

\* A message without keys takes nothing away.
Keyless(c) ==
    handler[c].pc \in {"filter", "subscribe"} /\ handler[c].msg.keys = {} =>
        /\ handler[c].pc = "subscribe" => handler[c].todo = {}
        /\ \A l \in Logs : Wanted(c, l) /\ LogTick[l] < V => l \in Covered(c)

\* A message with a log id keeps the tick cursor.
KeepsTick(c) == Handling(c) /\ ById(c) => TickCursorSafe(c)

\* Where a log stands in a catch-up.
At(c, l) == IF ById(c) THEN l ELSE LogTick[l]

\* What is verified beyond the target of a catch-up is excused.
Beyond(c) ==
    handler[c].pc \in {"begin", "replay"} =>
        \A l \in Logs : LogTick[l] < V /\ At(c, l) > handler[c].target => l \in excused[c]

\* What a catch-up has passed is covered.
Replaying(c) ==
    handler[c].pc = "replay" =>
        /\ handler[c].keys = clients_[c].subscriptions
        /\ \A l \in Logs :
              /\ Wanted(c, l) /\ At(c, l) < handler[c].next /\ At(c, l) <= handler[c].target
                    => l \in Covered(c)
              /\ ~ById(c) /\ l <= clients_[c].lastLogId => l \in claimed[c]

Complete(c) ==
    c \in connected =>
        /\ c \in registered
        /\ Busy(c)
        /\ AtRest(c)
        /\ Asking(c)
        /\ Keyless(c)
        /\ KeepsTick(c)
        /\ Beyond(c)
        /\ Replaying(c)

HistoryType ==
    /\ claimed \in [Clients -> SUBSET Logs]
    /\ excused \in [Clients -> SUBSET Logs]

LossInv ==
    /\ HistoryType
    /\ \A c \in Clients : Complete(c)

LEMMA SentMembers ==
    ASSUME NEW c, NEW l
    PROVE  l \in Sent(c) <=>
              \/ \E i \in 1 .. Len(inbox[c]) : inbox[c][i][1] = l
              \/ \E i \in 1 .. Len(loop) : \E j \in 1 .. Len(loop[i][c]) : loop[i][c][j] = l
BY DEF Sent

\* A client whose own state stays, and of whose logs none is forgotten, keeps what
\* does not depend on the batch.
LEMMA OwnState ==
    ASSUME NEW c \in Clients, c \in connected, Complete(c), V' = V,
           handler'[c] = handler[c], clients_'[c] = clients_[c],
           claimed'[c] = claimed[c], excused[c] \subseteq excused'[c],
           Sent(c) \subseteq Sent(c)'
    PROVE  /\ (Asking(c) /\ Keyless(c) /\ KeepsTick(c) /\ Beyond(c) /\ Replaying(c))'
           /\ (Handling(c)' <=> Handling(c)) /\ (\A l : Wanted(c, l)' <=> Wanted(c, l))
           /\ Covered(c) \subseteq Covered(c)'
           /\ TickCursorSafe(c) => TickCursorSafe(c)'
<1>0. Asking(c) /\ Keyless(c) /\ KeepsTick(c) /\ Beyond(c) /\ Replaying(c)
  BY DEF Complete
<1>1. /\ (Handling(c)' <=> Handling(c)) /\ (ById(c)' <=> ById(c))
      /\ (\A l : Wanted(c, l)' <=> Wanted(c, l))
      /\ Covered(c) \subseteq Covered(c)'
  BY DEF Handling, ById, Wanted, Covered
<1>2. TickCursorSafe(c) => TickCursorSafe(c)'
  BY DEF TickCursorSafe
<1>3. Asking(c)'
  BY <1>0, <1>1 DEF Asking
<1>4. Keyless(c)'
  BY <1>0, <1>1 DEF Keyless
<1>5. KeepsTick(c)'
  BY <1>0, <1>1, <1>2 DEF KeepsTick
<1>6. Beyond(c)'
  BY <1>0, <1>1 DEF Beyond, At
<1>7. Replaying(c)'
  BY <1>0, <1>1 DEF Replaying, At
<1> QED
  BY <1>1, <1>2, <1>3, <1>4, <1>5, <1>6, <1>7

\* The frame of a step of another client or of the queue.
LEMMA OtherClient ==
    ASSUME NEW c \in Clients, Complete(c), UNCHANGED <<V, batch>>,
           handler'[c] = handler[c], clients_'[c] = clients_[c],
           c \in connected' => c \in connected,
           c \in registered => c \in registered',
           claimed'[c] = claimed[c], excused[c] \subseteq excused'[c],
           c \in connected => Sent(c) \subseteq Sent(c)'
    PROVE  Complete(c)'
<1> SUFFICES ASSUME c \in connected'
             PROVE  /\ c \in registered'
                    /\ (Busy(c) /\ AtRest(c) /\ Asking(c) /\ Keyless(c) /\ KeepsTick(c)
                        /\ Beyond(c) /\ Replaying(c))'
  BY DEF Complete
<1>0. c \in connected /\ c \in registered' /\ Busy(c) /\ AtRest(c)
  BY DEF Complete
<1>1. /\ (Asking(c) /\ Keyless(c) /\ KeepsTick(c) /\ Beyond(c) /\ Replaying(c))'
      /\ (Handling(c)' <=> Handling(c)) /\ (\A l : Wanted(c, l)' <=> Wanted(c, l))
      /\ Covered(c) \subseteq Covered(c)'
      /\ TickCursorSafe(c) => TickCursorSafe(c)'
  BY <1>0, OwnState
<1>2. BatchLogs' = BatchLogs /\ Frontier' = Frontier
  BY DEF BatchLogs, Frontier
<1>3. Busy(c)'
  BY <1>0, <1>1, <1>2 DEF Busy
<1>4. AtRest(c)'
  BY <1>0, <1>1, <1>2 DEF AtRest
<1> QED
  BY <1>0, <1>1, <1>3, <1>4

LEMMA SameSent ==
    ASSUME NEW c, inbox'[c] = inbox[c], loop' = loop
    PROVE  Sent(c)' = Sent(c)
BY DEF Sent

Lists(q, l) == \E i \in 1 .. Len(q) : q[i] = l
Received(a, l) == \E i \in 1 .. Len(a) : a[i][1] = l

\* Mail for some logs loses nothing and holds them all.
LEMMA ExtendedHas ==
    ASSUME NEW a \in Seq(Letters), NEW q \in Seq(Logs), NEW kind \in {"live", "tick", "id"},
           NEW l
    PROVE  Received(a, l) \/ Lists(q, l) => Received(a \o Mail(q, kind), l)
<1>1. Len(a) \in Nat /\ Len(q) \in Nat
  BY LenProperties
<1>2. \A i \in 1 .. Len(q) : <<q[i], kind>> \in Letters
  BY ElementOfSeq DEF Letters
<1> DEFINE m == [i \in 1 .. Len(q) |-> <<q[i], kind>>]
           b == a \o m
<1>3. m \in Seq(Letters) /\ Len(m) = Len(q) /\ Mail(q, kind) = m
  BY <1>1, <1>2 DEF Mail
<1>4. \A i \in 1 .. Len(q) : m[i][1] = q[i]
  OBVIOUS
<1> HIDE DEF m
<1>5. Len(b) = Len(a) + Len(q)
  <2>1. m \in Seq(Letters) /\ Len(m) = Len(q)
    BY <1>3
  <2>2. Len(a \o m) = Len(a) + Len(m)
    BY <2>1, ConcatProperties
  <2> QED
    BY <2>1, <2>2
<1>6. \A n \in 1 .. Len(a) + Len(q) : b[n] = IF n <= Len(a) THEN a[n] ELSE m[n - Len(a)]
  <2>1. \A n \in 1 .. Len(a) + Len(m) :
            (a \o m)[n] = IF n <= Len(a) THEN a[n] ELSE m[n - Len(a)]
    BY <1>3, ConcatProperties
  <2> QED
    BY <1>3, <2>1
<1> HIDE DEF b
<1>7. ASSUME NEW i \in 1 .. Len(a)
      PROVE  i \in 1 .. Len(b) /\ b[i] = a[i]
  BY <1>1, <1>5, <1>6
<1>8. ASSUME NEW i \in 1 .. Len(q)
      PROVE  Len(a) + i \in 1 .. Len(b) /\ b[Len(a) + i][1] = q[i]
  <2>1. Len(a) + i \in 1 .. Len(a) + Len(q) /\ Len(a) + i > Len(a) /\ (Len(a) + i) - Len(a) = i
    BY <1>1
  <2>2. b[Len(a) + i] = m[i]
    BY <1>1, <1>6, <2>1
  <2> QED
    BY <1>4, <1>5, <2>1, <2>2
<1>9. Received(a, l) \/ Lists(q, l) => Received(b, l)
  BY <1>7, <1>8 DEF Received, Lists
<1> QED
  BY <1>3, <1>9 DEF b

\* Pushing and advancing: the steps that concern every client.
LEMMA VerifyLoss ==
    ASSUME IInv, LossInv, NEW to \in Ticks, VerifyBatch(to)
    PROVE  LossInv'
<1>0. HistoryType /\ StreamType
  BY DEF IInv, LossInv
<1>1. /\ batch.pc = "idle" /\ to \in Int /\ V \in Int /\ V <= to
      /\ batch' = [pc |-> IF registered # {} /\ LogsOf(V, to) # {} THEN "push"
                          ELSE "advance", to |-> to, tick |-> V]
      /\ UNCHANGED <<V, connected, manager, loop, handler, inbox, claimed>>
  BY <1>0 DEF VerifyBatch, StreamType, Ticks
<1>2. excused' = [c \in Clients |-> excused[c] \cup IF Handling(c) THEN LogsOf(V, to) ELSE {}]
  BY DEF VerifyBatch
<1>3. /\ batch'.pc = (IF registered # {} /\ LogsOf(V, to) # {} THEN "push" ELSE "advance")
      /\ batch'.to = to /\ batch'.tick = V
  BY <1>1
<1>4. BatchLogs = {} /\ BatchLogs' = LogsOf(V, to) /\ Frontier = V
  BY <1>1, <1>3 DEF BatchLogs, LogsOf, Frontier
<1>6. HistoryType'
  BY <1>0, <1>1, <1>2 DEF HistoryType, LogsOf
<1>7. ASSUME NEW c \in Clients
      PROVE  Complete(c)'
  <2> SUFFICES ASSUME c \in connected
               PROVE  /\ c \in registered
                      /\ (Busy(c) /\ AtRest(c) /\ Asking(c) /\ Keyless(c) /\ KeepsTick(c)
                          /\ Beyond(c) /\ Replaying(c))'
    BY <1>1 DEF Complete, manager
  <2>0. Complete(c) /\ c \in registered /\ Busy(c) /\ AtRest(c)
    BY DEF LossInv, Complete
  <2>1. /\ excused'[c] = excused[c] \cup (IF Handling(c) THEN LogsOf(V, to) ELSE {})
        /\ handler' = handler /\ clients_' = clients_ /\ claimed' = claimed
    BY <1>1, <1>2 DEF manager
  <2>2. Sent(c)' = Sent(c)
    BY <1>1, SameSent
  <2>3. /\ (Asking(c) /\ Keyless(c) /\ KeepsTick(c) /\ Beyond(c) /\ Replaying(c))'
        /\ (Handling(c)' <=> Handling(c)) /\ (\A l : Wanted(c, l)' <=> Wanted(c, l))
        /\ Covered(c) \subseteq Covered(c)'
        /\ TickCursorSafe(c) => TickCursorSafe(c)'
    BY <1>1, <2>0, <2>1, <2>2, OwnState
  <2>4. Busy(c)'
    BY <1>4, <2>0, <2>1, <2>3 DEF Busy
  <2>5. \A l \in Logs : LogTick[l] < Frontier' => LogTick[l] < Frontier
    <3>1. \A l \in Logs : LogTick[l] \in Int
      BY <1>0, Members
    <3>2. CASE LogsOf(V, to) # {}
      BY <1>3, <1>4, <2>0, <3>2 DEF Frontier
    <3>3. CASE LogsOf(V, to) = {}
      <4>1. Frontier' = to + 1
        BY <1>3, <3>3 DEF Frontier
      <4>2. \A l \in Logs : ~(V <= LogTick[l] /\ LogTick[l] <= to)
        BY <1>1, <3>1, <3>3 DEF LogsOf
      <4> QED
        BY <1>1, <1>4, <3>1, <4>1, <4>2
    <3> QED
      BY <3>2, <3>3
  <2>6. AtRest(c)'
    BY <2>0, <2>1, <2>3, <2>5 DEF AtRest
  <2> QED
    BY <2>0, <2>3, <2>4, <2>6
<1> QED
  BY <1>6, <1>7 DEF LossInv

LEMMA AdvanceLoss ==
    ASSUME IInv, LossInv, AdvanceVerifier
    PROVE  LossInv'
<1>0. HistoryType /\ StreamType /\ BatchInv
  BY DEF IInv, LossInv
<1>1. /\ batch.pc = "advance" /\ batch.to \in Int /\ V \in Int /\ V <= batch.to
      /\ V' = batch.to + 1 /\ batch' = [batch EXCEPT !.pc = "idle"]
      /\ UNCHANGED <<connected, manager, loop, handler, inbox, history>>
  BY <1>0 DEF AdvanceVerifier, StreamType, BatchInv
<1>2. batch'.pc = "idle"
  BY <1>0, <1>1 DEF StreamType
<1>3. /\ BatchLogs = LogsOf(V, batch.to) /\ BatchLogs' = {}
      /\ Frontier = V' /\ Frontier' = V'
  BY <1>1, <1>2 DEF BatchLogs, Frontier
<1>4. \A l \in Logs : LogTick[l] < V' => LogTick[l] < V \/ l \in BatchLogs
  <2>1. \A l \in Logs : LogTick[l] \in Int
    BY <1>0, Members
  <2> QED
    BY <1>1, <1>3, <2>1 DEF LogsOf
<1>6. HistoryType'
  BY <1>0, <1>1 DEF HistoryType, history
<1>7. ASSUME NEW c \in Clients
      PROVE  Complete(c)'
  <2> SUFFICES ASSUME c \in connected
               PROVE  /\ c \in registered
                      /\ (Busy(c) /\ AtRest(c) /\ Asking(c) /\ Keyless(c) /\ KeepsTick(c)
                          /\ Beyond(c) /\ Replaying(c))'
    BY <1>1 DEF Complete, manager
  <2>0. /\ c \in registered /\ Busy(c) /\ AtRest(c) /\ Asking(c) /\ Keyless(c)
        /\ KeepsTick(c) /\ Beyond(c) /\ Replaying(c)
    BY DEF LossInv, Complete
  <2>1. /\ handler' = handler /\ clients_' = clients_ /\ claimed' = claimed
        /\ excused' = excused
    BY <1>1 DEF manager, history
  <2>2. Sent(c)' = Sent(c)
    BY <1>1, SameSent
  <2>3. /\ (Handling(c)' <=> Handling(c)) /\ (ById(c)' <=> ById(c))
        /\ (\A l : Wanted(c, l)' <=> Wanted(c, l)) /\ Covered(c)' = Covered(c)
        /\ excused[c] \subseteq Covered(c)
    BY <2>1, <2>2 DEF Handling, ById, Wanted, Covered
  <2>4. Handling(c) => BatchLogs \subseteq excused[c]
    BY <2>0 DEF Busy
  <2>5. TickCursorSafe(c) => TickCursorSafe(c)'
    <3>1. \A l \in Logs : LogTick[l] \in Int /\ (LogTick[l] < V => LogTick[l] < V')
      BY <1>0, <1>1, Members
    <3> QED
      BY <2>1, <3>1 DEF TickCursorSafe
  <2>6. Busy(c)'
    BY <1>3, <2>0, <2>1, <2>3 DEF Busy
  <2>7. AtRest(c)'
    BY <1>3, <2>0, <2>1, <2>3, <2>5 DEF AtRest
  <2>8. handler[c].pc \in {"filter", "subscribe", "begin", "replay"} => Handling(c)
    BY DEF Handling
  <2>9. Asking(c)'
    BY <1>4, <2>0, <2>1, <2>3, <2>4, <2>8 DEF Asking
  <2>10. Keyless(c)'
    BY <1>4, <2>0, <2>1, <2>3, <2>4, <2>8 DEF Keyless
  <2>11. KeepsTick(c)'
    BY <2>0, <2>1, <2>3, <2>5 DEF KeepsTick
  <2>12. Beyond(c)'
    BY <1>4, <2>0, <2>1, <2>3, <2>4, <2>8 DEF Beyond, At
  <2>13. Replaying(c)'
    BY <2>0, <2>1, <2>3 DEF Replaying, At
  <2> QED
    BY <2>0, <2>6, <2>7, <2>9, <2>10, <2>11, <2>12, <2>13
<1> QED
  BY <1>6, <1>7 DEF LossInv

\* A client at rest is sent what it wants of the pushed tick, unless a cursor or its
\* filter is in the way, and then the log is covered already.
LEMMA PushLoss ==
    ASSUME IInv, LossInv, pushVerifiedLogs
    PROVE  LossInv'
<1> DEFINE t == batch.tick
           sends == [c \in Clients |-> Ascending(Pushed(c, t))]
<1>0. /\ HistoryType /\ StreamType /\ BatchInv /\ NotLeftMuted
      /\ IndexMatchesSubscriptions
  BY DEF IInv, LossInv
<1>1. /\ batch.pc = "push"
      /\ loop' = IF \E c \in Clients : sends[c] # << >> THEN Append(loop, sends) ELSE loop
      /\ batch' = [batch EXCEPT !.tick = t + 1,
                                !.pc = IF t = batch.to THEN "advance" ELSE "push"]
      /\ excused' = [c \in Clients |-> excused[c] \cup {l \in LogsOf(t, t) : Filtered(c, l)}]
      /\ UNCHANGED <<V, connected, manager, handler, inbox, messages, claimed>>
  BY DEF pushVerifiedLogs
<1>2. t \in Int /\ batch.to \in Int /\ V \in Int /\ V <= t /\ t <= batch.to
  BY <1>0, <1>1 DEF StreamType, BatchInv
<1>3. /\ batch'.pc = (IF t = batch.to THEN "advance" ELSE "push")
      /\ batch'.tick = t + 1 /\ batch'.to = batch.to
  BY <1>0, <1>1, <1>2 DEF StreamType
<1>4. Frontier = t /\ Frontier' = t + 1 /\ BatchLogs' = BatchLogs
  BY <1>1, <1>3 DEF Frontier, BatchLogs, LogsOf
<1>5. \A l \in Logs : LogTick[l] \in Int
  BY <1>0, Members
<1>7. HistoryType'
  BY <1>0, <1>1 DEF HistoryType, LogsOf
<1>8. ASSUME NEW c \in Clients
      PROVE  Sent(c) \subseteq Sent(c)' /\ Pushed(c, t) \subseteq Sent(c)'
  <2>1. Pushed(c, t) \in SUBSET Logs
    BY DEF Pushed, LogsOf
  <2>2. sends[c] = Ascending(Pushed(c, t))
    OBVIOUS
  <2>3. \A l \in Pushed(c, t) : \E j \in 1 .. Len(sends[c]) : sends[c][j] = l
    BY <2>1, <2>2, AscendingSorts
  <2>4. sends \in [Clients -> Seq(Logs)]
    <3>1. \A d \in Clients : Ascending(Pushed(d, t)) \in Seq(Logs)
      <4> TAKE d \in Clients
      <4>1. Pushed(d, t) \in SUBSET Logs
        BY DEF Pushed, LogsOf
      <4> QED
        BY <4>1, AscendingSorts
    <3> QED
      BY <3>1
  <2>5. inbox' = inbox
    BY <1>1
  <2> HIDE DEF sends, t
  <2>6. CASE loop' = loop /\ sends[c] = << >>
    <3>1. Pushed(c, t) = {}
      BY <2>3, <2>6, EmptySeq
    <3> QED
      BY <2>5, <2>6, <3>1, SameSent
  <2>7. CASE loop' = Append(loop, sends)
    <3>1. /\ Len(loop) \in Nat /\ Len(loop') = Len(loop) + 1
          /\ loop'[Len(loop) + 1] = sends
          /\ \A i \in 1 .. Len(loop) : loop'[i] = loop[i]
      BY <1>0, <2>4, <2>7, AppendProperties, LenProperties DEF StreamType
    <3>2. ASSUME NEW l, l \in Sent(c)
          PROVE  l \in Sent(c)'
      <4>1. CASE \E i \in 1 .. Len(inbox[c]) : inbox[c][i][1] = l
        BY <2>5, <4>1 DEF Sent
      <4>2. CASE \E i \in 1 .. Len(loop) : \E j \in 1 .. Len(loop[i][c]) : loop[i][c][j] = l
        <5>1. PICK i \in 1 .. Len(loop) : \E j \in 1 .. Len(loop[i][c]) : loop[i][c][j] = l
          BY <4>2
        <5>2. i \in 1 .. Len(loop') /\ \E j \in 1 .. Len(loop'[i][c]) : loop'[i][c][j] = l
          BY <3>1, <5>1
        <5> QED
          BY <5>2 DEF Sent
      <4> QED
        BY <3>2, <4>1, <4>2, SentMembers
    <3>3. ASSUME NEW l \in Pushed(c, t)
          PROVE  l \in Sent(c)'
      <4>1. /\ Len(loop) + 1 \in 1 .. Len(loop')
            /\ \E j \in 1 .. Len(loop'[Len(loop) + 1][c]) : loop'[Len(loop) + 1][c][j] = l
        BY <2>3, <3>1
      <4> QED
        BY <4>1 DEF Sent
    <3> QED
      BY <3>2, <3>3
  <2> QED
    BY <1>1, <2>6, <2>7
<1> HIDE DEF sends, t
<1>9. ASSUME NEW c \in Clients
      PROVE  Complete(c)'
  <2> SUFFICES ASSUME c \in connected
               PROVE  /\ c \in registered
                      /\ (Busy(c) /\ AtRest(c) /\ Asking(c) /\ Keyless(c) /\ KeepsTick(c)
                          /\ Beyond(c) /\ Replaying(c))'
    BY <1>1 DEF Complete, manager
  <2>0. Complete(c) /\ c \in registered /\ Busy(c) /\ AtRest(c)
    BY DEF LossInv, Complete
  <2>1. /\ excused'[c] = excused[c] \cup {l \in LogsOf(t, t) : Filtered(c, l)}
        /\ handler' = handler /\ clients_' = clients_ /\ claimed' = claimed
    BY <1>1 DEF manager
  <2>2. Sent(c) \subseteq Sent(c)' /\ Pushed(c, t) \subseteq Sent(c)'
    BY <1>8
  <2>3. /\ (Asking(c) /\ Keyless(c) /\ KeepsTick(c) /\ Beyond(c) /\ Replaying(c))'
        /\ (Handling(c)' <=> Handling(c)) /\ (\A l : Wanted(c, l)' <=> Wanted(c, l))
        /\ Covered(c) \subseteq Covered(c)'
        /\ TickCursorSafe(c) => TickCursorSafe(c)'
    BY <1>1, <2>0, <2>1, <2>2, OwnState
  <2>4. Busy(c)'
    BY <1>4, <2>0, <2>1, <2>3 DEF Busy
  <2>5. ASSUME handler[c].pc = "idle", NEW l \in Logs, Wanted(c, l), LogTick[l] = t
        PROVE  l \in Covered(c)'
    <3>1. ~ clients_[c].catchUpInProgress
      BY <1>0, <2>5 DEF NotLeftMuted
    <3>2. LogKey[l] \in Keys /\ c \in subscriptionIndex_[LogKey[l]]
      <4>1. clients_[c].subscriptions \subseteq Keys
        BY <1>0 DEF StreamType, ClientStates
      <4> QED
        BY <1>0, <2>5, <4>1 DEF Wanted, IndexMatchesSubscriptions
    <3>3. l \in LogsOf(t, t)
      BY <1>2, <2>5 DEF LogsOf
    <3>4. clients_[c].lastTick \in Int /\ clients_[c].lastLogId \in Int /\ l \in Int
      BY <1>0 DEF StreamType, ClientStates, Logs
    <3>5. CASE l \in Pushed(c, t)
      BY <2>2, <3>5 DEF Covered
    <3>6. CASE Filtered(c, l)
      BY <2>1, <3>3, <3>6 DEF Covered
    <3>7. CASE l <= clients_[c].lastLogId
      BY <2>0, <2>3, <2>5, <3>7 DEF AtRest
    <3>8. CASE t <= clients_[c].lastTick
      <4>1. l \in excused[c]
        BY <1>2, <2>0, <2>5, <3>8 DEF AtRest, TickCursorSafe
      <4> QED
        BY <2>1, <4>1 DEF Covered
    <3> QED
      BY <1>2, <3>1, <3>2, <3>3, <3>4, <3>5, <3>6, <3>7, <3>8 DEF Pushed
  <2>6. AtRest(c)'
    <3>1. \A l \in Logs : LogTick[l] < Frontier' => LogTick[l] < Frontier \/ LogTick[l] = t
      BY <1>2, <1>4, <1>5
    <3> QED
      BY <2>0, <2>1, <2>3, <2>5, <3>1 DEF AtRest
  <2> QED
    BY <2>0, <2>3, <2>4, <2>6
<1> QED
  BY <1>7, <1>9 DEF LossInv

\* Loop 0 hands on what was queued for the open connections.
LEMMA RunLoopLoss ==
    ASSUME IInv, LossInv, RunLoop
    PROVE  LossInv'
<1>0. HistoryType /\ StreamType
  BY DEF IInv, LossInv
<1>1. /\ loop # << >> /\ loop' = Tail(loop)
      /\ UNCHANGED <<V, batch, connected, manager, handler, messages, history>>
  BY DEF RunLoop
<1>2. /\ Head(loop) = loop[1] /\ Len(loop') = Len(loop) - 1 /\ Len(loop) \in Nat \ {0}
      /\ \A i \in 1 .. Len(loop) - 1 : loop'[i] = loop[i + 1]
  BY <1>0, <1>1, HeadTailProperties, EmptySeq, LenProperties DEF StreamType
<1>3. ASSUME NEW c \in Clients, c \in connected, NEW l \in Sent(c)
      PROVE  l \in Sent(c)'
  <2>1. inbox[c] \in Seq(Letters) /\ loop[1][c] \in Seq(Logs)
    <3>1. 1 \in 1 .. Len(loop)
      BY <1>2
    <3> QED
      BY <1>0, <3>1, Members DEF StreamType
  <2> DEFINE a == inbox[c]
             q == loop[1][c]
  <2>2. inbox'[c] = a \o Mail(q, "live")
    BY <1>2, <1>3 DEF RunLoop
  <2>3. a \in Seq(Letters) /\ q \in Seq(Logs) /\ "live" \in {"live", "tick", "id"}
    BY <2>1
  <2> HIDE DEF a, q
  <2>4. Received(a, l) \/ Lists(q, l) => Received(a \o Mail(q, "live"), l)
    BY <2>3, ExtendedHas
  <2>5. Received(inbox[c], l) \/ Lists(loop[1][c], l) => Received(inbox'[c], l)
    BY <2>2, <2>4 DEF a, q
  <2>6. CASE \E i \in 1 .. Len(inbox[c]) : inbox[c][i][1] = l
    BY <2>5, <2>6 DEF Sent, Received
  <2>7. CASE \E i \in 1 .. Len(loop) : \E j \in 1 .. Len(loop[i][c]) : loop[i][c][j] = l
    <3>1. PICK i \in 1 .. Len(loop) : \E j \in 1 .. Len(loop[i][c]) : loop[i][c][j] = l
      BY <2>7
    <3>2. CASE i = 1
      BY <2>5, <3>1, <3>2 DEF Sent, Received, Lists
    <3>3. CASE i # 1
      <4>1. i - 1 \in 1 .. Len(loop') /\ loop'[i - 1] = loop[i]
        BY <1>2, <3>3
      <4>2. \E j \in 1 .. Len(loop'[i - 1][c]) : loop'[i - 1][c][j] = l
        BY <3>1, <4>1
      <4> QED
        BY <4>1, <4>2 DEF Sent
    <3> QED
      BY <3>2, <3>3
  <2> QED
    BY <1>3, <2>6, <2>7, SentMembers
<1>4. ASSUME NEW c \in Clients
      PROVE  Complete(c)'
  <2>1. /\ handler' = handler /\ clients_' = clients_ /\ claimed' = claimed
        /\ excused' = excused /\ connected' = connected /\ registered' = registered
        /\ UNCHANGED <<V, batch>>
    BY <1>1 DEF manager, history
  <2>2. c \in connected => Sent(c) \subseteq Sent(c)'
    BY <1>3
  <2>3. Complete(c)
    BY DEF LossInv
  <2> QED
    BY <2>1, <2>2, <2>3, OtherClient
<1>5. HistoryType'
  BY <1>0, <1>1 DEF HistoryType, history
<1> QED
  BY <1>4, <1>5 DEF LossInv

LEMMA InsertLoss ==
    ASSUME LossInv, NEW l \in Logs, db_insert_log(l)
    PROVE  LossInv'
<1>1. /\ handler' = handler /\ clients_' = clients_ /\ claimed' = claimed
      /\ excused' = excused /\ connected' = connected /\ registered' = registered
      /\ inbox' = inbox /\ loop' = loop /\ UNCHANGED <<V, batch>>
  BY DEF db_insert_log, manager, history
<1>2. ASSUME NEW c \in Clients
      PROVE  Complete(c)'
  <2>1. Complete(c) /\ Sent(c)' = Sent(c)
    BY <1>1, SameSent DEF LossInv
  <2> QED
    BY <1>1, <2>1, OtherClient
<1> QED
  BY <1>1, <1>2 DEF LossInv, HistoryType

LEMMA LatestLoss ==
    ASSUME LossInv, NEW l \in Logs, db_update_latest_log_id(l)
    PROVE  LossInv'
<1>1. /\ handler' = handler /\ clients_' = clients_ /\ claimed' = claimed
      /\ excused' = excused /\ connected' = connected /\ registered' = registered
      /\ inbox' = inbox /\ loop' = loop /\ UNCHANGED <<V, batch>>
  BY DEF db_update_latest_log_id, manager, history
<1>2. ASSUME NEW c \in Clients
      PROVE  Complete(c)'
  <2>1. Complete(c) /\ Sent(c)' = Sent(c)
    BY <1>1, SameSent DEF LossInv
  <2> QED
    BY <1>1, <2>1, OtherClient
<1> QED
  BY <1>1, <1>2 DEF LossInv, HistoryType

LEMMA CleanLoss ==
    ASSUME LossInv, NEW t \in Ticks, cleanTransactionLogs(t)
    PROVE  LossInv'
<1>1. /\ handler' = handler /\ clients_' = clients_ /\ claimed' = claimed
      /\ excused' = excused /\ connected' = connected /\ registered' = registered
      /\ inbox' = inbox /\ loop' = loop /\ UNCHANGED <<V, batch>>
  BY DEF cleanTransactionLogs, manager, history
<1>2. ASSUME NEW c \in Clients
      PROVE  Complete(c)'
  <2>1. Complete(c) /\ Sent(c)' = Sent(c)
    BY <1>1, SameSent DEF LossInv
  <2> QED
    BY <1>1, <2>1, OtherClient
<1> QED
  BY <1>1, <1>2 DEF LossInv, HistoryType

\* Before the verifier has loaded no tick is verified; what it then counts as
\* verified at once is excused for everyone who has subscribed or is about to.
LEMMA LoadLoss ==
    ASSUME IInv, LossInv, NEW t \in Ticks, LoadVerifier(t)
    PROVE  LossInv'
<1>0. HistoryType /\ StreamType
  BY DEF IInv, LossInv
<1> DEFINE early(c) == IF clients_[c].subscriptions # {} \/ Handling(c)
                       THEN LogsOf(initialTick, t - 1) ELSE {}
<1>1. /\ batch.pc = "idle" /\ V = 0 /\ V' = t /\ t \in Int
      /\ excused' = [c \in Clients |-> excused[c] \cup early(c)]
      /\ UNCHANGED <<batch, connected, manager, loop, handler, inbox, claimed>>
  BY StreamAssumption DEF LoadVerifier, Ticks
<1>2. \A l \in Logs : /\ LogTick[l] \in Int /\ ~(LogTick[l] < V)
                      /\ LogTick[l] < t => l \in LogsOf(initialTick, t - 1)
  <2>1. \A l \in Logs : LogTick[l] \in Int /\ initialTick \in Int /\ initialTick <= LogTick[l]
                        /\ 0 < initialTick
    BY StreamAssumption DEF Ticks
  <2> QED
    BY <1>1, <2>1 DEF LogsOf
<1>3. BatchLogs = {} /\ BatchLogs' = {} /\ Frontier' = t
  BY <1>1 DEF BatchLogs, Frontier
<1>4. HistoryType'
  BY <1>0, <1>1 DEF HistoryType, LogsOf
<1>5. ASSUME NEW c \in Clients
      PROVE  Complete(c)'
  <2> SUFFICES ASSUME c \in connected
               PROVE  /\ c \in registered
                      /\ (Busy(c) /\ AtRest(c) /\ Asking(c) /\ Keyless(c) /\ KeepsTick(c)
                          /\ Beyond(c) /\ Replaying(c))'
    BY <1>1 DEF Complete, manager
  <2>0. /\ c \in registered /\ Busy(c) /\ AtRest(c) /\ Asking(c) /\ Keyless(c)
        /\ KeepsTick(c) /\ Beyond(c) /\ Replaying(c)
    BY DEF LossInv, Complete
  <2>1. /\ handler' = handler /\ clients_' = clients_ /\ claimed' = claimed
        /\ excused'[c] = excused[c] \cup early(c)
    BY <1>1 DEF manager
  <2>2. Sent(c)' = Sent(c)
    BY <1>1, SameSent
  <2>3. /\ (Handling(c)' <=> Handling(c)) /\ (ById(c)' <=> ById(c))
        /\ (\A l : Wanted(c, l)' <=> Wanted(c, l))
        /\ Covered(c) \cup excused'[c] \subseteq Covered(c)'
    BY <2>1, <2>2 DEF Handling, ById, Wanted, Covered
  <2>4. \A l \in Logs : LogTick[l] < V' /\ (Wanted(c, l) \/ Handling(c)) => l \in excused'[c]
    BY <1>1, <1>2, <2>1 DEF Wanted
  <2>5. excused[c] \subseteq excused'[c]
    BY <2>1
  <2> HIDE DEF early
  <2>6. TickCursorSafe(c) => TickCursorSafe(c)'
    BY <1>2, <2>1, <2>5 DEF TickCursorSafe
  <2>7. Busy(c)'
    BY <1>3, <2>0, <2>1, <2>3 DEF Busy
  <2>8. AtRest(c)'
    BY <1>1, <1>3, <2>0, <2>1, <2>3, <2>4, <2>6 DEF AtRest
  <2>9. handler[c].pc \in {"filter", "subscribe", "begin", "replay"} => Handling(c)
    BY DEF Handling
  <2>10. Asking(c)'
    BY <2>0, <2>1, <2>3, <2>4, <2>9 DEF Asking
  <2>11. Keyless(c)'
    BY <2>0, <2>1, <2>3, <2>4, <2>9 DEF Keyless
  <2>12. KeepsTick(c)'
    BY <2>0, <2>1, <2>3, <2>6 DEF KeepsTick
  <2>13. Beyond(c)'
    BY <2>1, <2>4, <2>9 DEF Beyond
  <2>14. Replaying(c)'
    BY <2>0, <2>1, <2>3 DEF Replaying, At
  <2> QED
    BY <2>0, <2>7, <2>8, <2>10, <2>11, <2>12, <2>13, <2>14
<1> QED
  BY <1>4, <1>5 DEF LossInv

\* A step of one connection, given what it does for its own client.
LEMMA ClientLoss ==
    ASSUME LossInv, UNCHANGED <<V, batch>>, NEW c \in Clients,
           \A d \in Clients \ {c} :
              /\ handler'[d] = handler[d] /\ clients_'[d] = clients_[d]
              /\ claimed'[d] = claimed[d] /\ excused'[d] = excused[d]
              /\ inbox'[d] = inbox[d],
           loop' = loop,
           connected' \ {c} \subseteq connected,
           registered \ {c} \subseteq registered',
           HistoryType', Complete(c)'
    PROVE  LossInv'
<1>1. ASSUME NEW d \in Clients \ {c}
      PROVE  Complete(d)'
  <2>1. Complete(d) /\ Sent(d)' = Sent(d)
    BY SameSent DEF LossInv
  <2> QED
    BY <2>1, OtherClient
<1> QED
  BY <1>1 DEF LossInv

LEMMA DisconnectLoss ==
    ASSUME LossInv, NEW c \in Clients, Disconnect(c)
    PROVE  LossInv'
<1>1. /\ handler' = handler /\ clients_' = clients_ /\ claimed' = claimed
      /\ excused' = excused /\ connected' = connected \ {c} /\ registered' = registered
      /\ inbox' = inbox /\ loop' = loop /\ UNCHANGED <<V, batch>>
  BY DEF Disconnect, manager, history
<1>2. Complete(c)'
  BY <1>1 DEF Complete
<1>3. HistoryType'
  BY <1>1 DEF LossInv, HistoryType
<1> QED
  BY <1>1, <1>2, <1>3, ClientLoss

LEMMA RemoveLoss ==
    ASSUME IInv, LossInv, NEW c \in Clients, removeClient(c)
    PROVE  LossInv'
<1>1. /\ claimed' = claimed /\ excused' = excused /\ connected' = connected
      /\ c \notin connected /\ registered' = registered \ {c}
      /\ inbox' = inbox /\ loop' = loop /\ UNCHANGED <<V, batch>>
  BY DEF removeClient, history
<1>2. \A d \in Clients \ {c} : handler'[d] = handler[d] /\ clients_'[d] = clients_[d]
  BY DEF removeClient, Unsubscribed, IInv, StreamType
<1>3. Complete(c)'
  BY <1>1 DEF Complete
<1>4. HistoryType'
  BY <1>1 DEF LossInv, HistoryType
<1> QED
  BY <1>1, <1>2, <1>3, <1>4, ClientLoss

\* A new client has no subscription, and a cursor before the epoch.
LEMMA AddLoss ==
    ASSUME IInv, LossInv, NEW c \in Clients, addClient(c)
    PROVE  LossInv'
<1> DEFINE h == [handler[c] EXCEPT !.pc = "idle"]
<1>0. StreamType
  BY DEF IInv
<1>1. handler' = [handler EXCEPT ![c] = h] /\ clients_' = [clients_ EXCEPT ![c] = ClientState]
  BY <1>0 DEF addClient, StreamType
<1>2. handler[c] \in Handlers
  BY <1>0 DEF StreamType
<1>3. h \in Handlers /\ h.pc = "idle"
  BY <1>2 DEF Handlers
<1>4. ClientState \in ClientStates
  BY DEF ClientState, ClientStates
<1>5. /\ connected' = connected \cup {c} /\ registered' = registered \cup {c}
      /\ claimed' = claimed /\ excused' = excused
      /\ inbox' = inbox /\ loop' = loop /\ UNCHANGED <<V, batch>>
  BY DEF addClient, history
<1> HIDE DEF h
<1>6. /\ handler'[c] = h /\ clients_'[c] = ClientState
      /\ \A d \in Clients \ {c} : handler'[d] = handler[d] /\ clients_'[d] = clients_[d]
  BY <1>0, <1>1, <1>3, <1>4, OneHandler, OneState DEF StreamType
<1>7. handler'[c].pc = "idle" /\ clients_'[c].subscriptions = {} /\ clients_'[c].lastTick = 0
  BY <1>3, <1>6 DEF ClientState
<1>8. AtRest(c)'
  <2>1. \A l \in Logs : LogTick[l] \in Int /\ LogTick[l] > 0
    BY StreamAssumption DEF Ticks
  <2>2. \A l \in Logs : ~(LogTick[l] <= 0)
    BY <2>1
  <2> QED
    BY <1>7, <2>2 DEF AtRest, TickCursorSafe, Wanted
<1>9. Complete(c)'
  BY <1>5, <1>7, <1>8 DEF Complete, Busy, Handling, Asking, Keyless, KeepsTick, Beyond,
                          Replaying
<1>10. HistoryType'
  BY <1>5 DEF LossInv, HistoryType
<1> QED
  BY <1>5, <1>6, <1>9, <1>10, ClientLoss

LEMMA UnsubscribeLoss ==
    ASSUME IInv, LossInv, NEW c \in Clients, NEW K \in SUBSET Keys, unsubscribe(c, K)
    PROVE  LossInv'
<1>0. StreamType
  BY DEF IInv
<1>1. /\ handler[c].pc = "idle" /\ c \in connected
      /\ handler' = handler /\ claimed' = claimed /\ excused' = excused
      /\ connected' = connected /\ registered' = registered
      /\ inbox' = inbox /\ loop' = loop /\ UNCHANGED <<V, batch>>
  BY DEF unsubscribe, NextMessage, history
<1>2. clients_' = [clients_ EXCEPT ![c].subscriptions = @ \ K]
  BY DEF unsubscribe, Unsubscribed
<1>3. /\ \A d \in Clients \ {c} : clients_'[d] = clients_[d]
      /\ clients_'[c].subscriptions = clients_[c].subscriptions \ K
      /\ clients_'[c].lastTick = clients_[c].lastTick
      /\ clients_'[c].lastLogId = clients_[c].lastLogId
  BY <1>0, <1>2 DEF StreamType, ClientStates
<1>4. Complete(c) /\ Sent(c)' = Sent(c)
  BY <1>1, SameSent DEF LossInv
<1>5. Frontier' = Frontier
  BY <1>1 DEF Frontier
<1>6. AtRest(c)'
  <2>1. \A l : Wanted(c, l)' => Wanted(c, l)
    BY <1>3 DEF Wanted
  <2>2. Covered(c)' = Covered(c)
    BY <1>1, <1>4 DEF Covered
  <2>3. TickCursorSafe(c) => TickCursorSafe(c)'
    BY <1>1, <1>3 DEF TickCursorSafe
  <2>4. AtRest(c)
    BY <1>1, <1>4 DEF Complete
  <2> QED
    BY <1>1, <1>3, <1>5, <2>1, <2>2, <2>3, <2>4 DEF AtRest
<1>7. Complete(c)'
  BY <1>1, <1>4, <1>6 DEF Complete, Busy, Handling, Asking, Keyless, KeepsTick, Beyond,
                          Replaying
<1>8. HistoryType'
  BY <1>1 DEF LossInv, HistoryType
<1> QED
  BY <1>1, <1>3, <1>7, <1>8, ClientLoss

\* What a subscribe message says of the logs behind its cursors.
LEMMA HasMembers ==
    ASSUME StreamType, NEW c \in Clients, NEW m \in Messages, NEW l \in Logs
    PROVE  /\ HasLogs(c, m) \subseteq Logs
           /\ m.mode = "tick" /\ LogTick[l] <= m.cursor => l \in HasLogs(c, m)
           /\ m.mode = "logId" /\ l <= m.cursor => l \in HasLogs(c, m)
           /\ m.mode = "live" /\ LogTick[l] < V => l \in HasLogs(c, m)
           /\ m.mode = "logId" /\ m.cursor < 0 /\ LogTick[l] < V => l \in HasLogs(c, m)
           /\ m.mode \in {"keep", "badId"} /\ LogTick[l] <= clients_[c].lastTick =>
                 l \in HasLogs(c, m)
           /\ m.mode = "keep" /\ l <= clients_[c].lastLogId => l \in HasLogs(c, m)
<1>1. /\ LogTick[l] \in Int /\ initialTick \in Int /\ initialTick <= LogTick[l]
      /\ l \in Int /\ l >= 0
  BY StreamAssumption DEF Logs, Ticks
<1>2. V \in Int /\ clients_[c].lastTick \in Int /\ clients_[c].lastLogId \in Int
  BY DEF StreamType, ClientStates
<1>3. m.cursor \in Int /\ m.mode \in {"live", "tick", "keep", "logId", "badId"}
  BY StreamAssumption DEF Message
<1>4. CASE m.mode = "tick"
  <2>1. HasLogs(c, m) = LogsOf(initialTick, m.cursor)
    BY <1>4 DEF HasLogs
  <2> QED
    BY <1>1, <1>3, <1>4, <2>1 DEF LogsOf
<1>5. CASE m.mode = "logId" /\ m.cursor >= 0
  <2>1. HasLogs(c, m) = {k \in Logs : k <= m.cursor}
    BY <1>3, <1>5 DEF HasLogs
  <2> QED
    BY <1>1, <1>3, <1>5, <2>1
<1>6. CASE m.mode = "live" \/ (m.mode = "logId" /\ m.cursor < 0)
  <2>1. HasLogs(c, m) = LogsOf(initialTick, V - 1)
    BY <1>3, <1>6 DEF HasLogs
  <2> QED
    BY <1>1, <1>2, <1>3, <1>6, <2>1 DEF LogsOf
<1>7. CASE m.mode \in {"keep", "badId"}
  <2>1. HasLogs(c, m) = LogsOf(initialTick, clients_[c].lastTick)
                          \cup {k \in Logs : m.mode = "keep" /\ k <= clients_[c].lastLogId}
    BY <1>7 DEF HasLogs
  <2> QED
    BY <1>1, <1>2, <1>7, <2>1 DEF LogsOf
<1> QED
  BY <1>3, <1>4, <1>5, <1>6, <1>7

LEMMA SetCursorLoss ==
    ASSUME IInv, LossInv, NEW c \in Clients, NEW m \in Messages, SetCursor(c, m)
    PROVE  LossInv'
<1> DEFINE tick == CASE m.mode = "live" -> V
                     [] m.mode = "tick" -> m.cursor
                     [] OTHER -> clients_[c].lastTick
           id == CASE m.mode = "logId" -> m.cursor
                   [] m.mode = "keep" -> clients_[c].lastLogId
                   [] OTHER -> -1
           has == HasLogs(c, m)
           h == [handler[c] EXCEPT !.pc = "filter", !.msg = m, !.has = has]
           s == [clients_[c] EXCEPT !.lastTick = tick, !.lastLogId = id]
<1>0. StreamType /\ BatchInv /\ HistoryType
  BY DEF IInv, LossInv
<1>1. handler' = [handler EXCEPT ![c] = h] /\ clients_' = [clients_ EXCEPT ![c] = s]
  BY <1>0 DEF SetCursor, StreamType
<1>2. handler[c] \in Handlers /\ clients_[c] \in ClientStates /\ V \in Int
  BY <1>0 DEF StreamType
<1>3. h.pc = "filter" /\ h.msg = m /\ h.has = has
  BY <1>2 DEF Handlers
<1>4. s.subscriptions = clients_[c].subscriptions /\ s.lastTick = tick /\ s.lastLogId = id
  BY <1>2 DEF ClientStates
<1>5. m.cursor \in Int /\ m.mode \in {"live", "tick", "keep", "logId", "badId"}
  BY StreamAssumption DEF Message
<1>6. /\ m.mode = "live" => tick = V
      /\ m.mode = "tick" => tick = m.cursor
      /\ m.mode \in {"keep", "badId", "logId"} => tick = clients_[c].lastTick
      /\ m.mode = "logId" => id = m.cursor
      /\ m.mode = "keep" => id = clients_[c].lastLogId
      /\ m.mode \in {"live", "tick", "badId"} => id = -1
  OBVIOUS
<1> HIDE DEF h, s, tick, id
<1>7. /\ handler'[c] = h /\ clients_'[c] = s
      /\ \A d \in Clients \ {c} : handler'[d] = handler[d] /\ clients_'[d] = clients_[d]
  BY <1>0, <1>1 DEF StreamType
<1>8. /\ claimed' = [claimed EXCEPT ![c] = @ \cup has]
      /\ excused' = [excused EXCEPT ![c] = @ \cup BatchLogs]
      /\ connected' = connected /\ registered' = registered
      /\ inbox' = inbox /\ loop' = loop /\ UNCHANGED <<V, batch>>
      /\ handler[c].pc = "idle" /\ c \in connected
  BY DEF SetCursor, NextMessage
<1>9. \A l \in Logs :
         /\ m.mode = "tick" /\ LogTick[l] <= m.cursor => l \in has
         /\ m.mode = "logId" /\ l <= m.cursor => l \in has
         /\ m.mode = "live" /\ LogTick[l] < V => l \in has
         /\ m.mode = "logId" /\ m.cursor < 0 /\ LogTick[l] < V => l \in has
         /\ m.mode \in {"keep", "badId"} /\ LogTick[l] <= clients_[c].lastTick => l \in has
         /\ m.mode = "keep" /\ l <= clients_[c].lastLogId => l \in has
  BY <1>0, HasMembers
<1>10. has \subseteq Logs
  BY DEF HasLogs, LogsOf
<1> HIDE DEF has
<1>11. /\ claimed'[c] = claimed[c] \cup has /\ excused'[c] = excused[c] \cup BatchLogs
       /\ \A d \in Clients \ {c} : claimed'[d] = claimed[d] /\ excused'[d] = excused[d]
       /\ HistoryType'
  BY <1>0, <1>8, <1>10 DEF HistoryType, BatchLogs, LogsOf
<1>12. Complete(c) /\ AtRest(c) /\ c \in registered /\ Sent(c)' = Sent(c)
  BY <1>8, SameSent DEF LossInv, Complete
<1>13. \A l \in Logs : LogTick[l] \in Int /\ l \in Int /\ l >= 0
  BY StreamAssumption DEF Logs, Ticks
<1>14. BatchLogs' = BatchLogs /\ handler'[c].pc = "filter"
       /\ (ById(c)' <=> m.mode = "logId")
  BY <1>3, <1>7, <1>8 DEF BatchLogs, ById
<1>15. Busy(c)'
  BY <1>3, <1>7, <1>11, <1>14 DEF Busy
<1>16. Asking(c)'
  <2> SUFFICES ASSUME NEW l \in Logs
               PROVE  /\ l <= id => l \in has
                      /\ m.mode # "logId" /\ LogTick[l] <= tick /\ LogTick[l] < V =>
                            l \in has
                      /\ m.mode = "logId" /\ id < 0 /\ LogTick[l] < V => l \in has
    BY <1>3, <1>4, <1>7, <1>8, <1>11, <1>14 DEF Asking
  <2> QED
    BY <1>5, <1>6, <1>9, <1>13
<1>17. Keyless(c)'
  <2>1. \A l : Wanted(c, l)' <=> Wanted(c, l)
    BY <1>4, <1>7 DEF Wanted
  <2>2. Covered(c) \subseteq Covered(c)'
    BY <1>11, <1>12 DEF Covered
  <2>3. \A l \in Logs : LogTick[l] < V => LogTick[l] < Frontier
    BY <1>0, <1>13, FrontierType
  <2>4. \A l \in Logs : Wanted(c, l) /\ LogTick[l] < V => l \in Covered(c)
    BY <1>8, <1>12, <2>3 DEF AtRest
  <2> QED
    BY <1>8, <1>14, <2>1, <2>2, <2>4 DEF Keyless
<1>18. KeepsTick(c)'
  <2>1. TickCursorSafe(c)
    BY <1>8, <1>12 DEF AtRest
  <2>2. m.mode = "logId" => clients_'[c].lastTick = clients_[c].lastTick
    BY <1>4, <1>6, <1>7
  <2> QED
    BY <1>8, <1>11, <1>14, <2>1, <2>2 DEF KeepsTick, TickCursorSafe
<1>19. Complete(c)'
  BY <1>8, <1>12, <1>14, <1>15, <1>16, <1>17, <1>18
     DEF Complete, AtRest, Beyond, Replaying
<1> QED
  BY <1>7, <1>8, <1>11, <1>19, ClientLoss

LEMMA FilterLoss ==
    ASSUME IInv, LossInv, NEW c \in Clients, setClientTransferMinAmount(c)
    PROVE  LossInv'
<1> DEFINE min == IF handler[c].msg.min = "absent" THEN clients_[c].transferMinAmount
                  ELSE handler[c].msg.min = "on"
           h == [handler[c] EXCEPT !.pc = "subscribe", !.todo = handler[c].msg.keys]
           s == [clients_[c] EXCEPT !.transferMinAmount = min]
<1>0. StreamType
  BY DEF IInv
<1>1. handler' = [handler EXCEPT ![c] = h] /\ clients_' = [clients_ EXCEPT ![c] = s]
  BY <1>0 DEF setClientTransferMinAmount, StreamType
<1>2. handler[c] \in Handlers /\ clients_[c] \in ClientStates
  BY <1>0 DEF StreamType
<1> HIDE DEF min
<1>3. /\ h.pc = "subscribe" /\ h.msg = handler[c].msg /\ h.has = handler[c].has
      /\ h.todo = handler[c].msg.keys
  BY <1>2 DEF Handlers
<1>4. /\ s.subscriptions = clients_[c].subscriptions /\ s.lastTick = clients_[c].lastTick
      /\ s.lastLogId = clients_[c].lastLogId
  BY <1>2 DEF ClientStates
<1> HIDE DEF h, s
<1>5. /\ handler'[c] = h /\ clients_'[c] = s
      /\ \A d \in Clients \ {c} : handler'[d] = handler[d] /\ clients_'[d] = clients_[d]
  BY <1>0, <1>1 DEF StreamType
<1>6. /\ claimed' = claimed /\ excused' = excused
      /\ connected' = connected /\ registered' = registered
      /\ inbox' = inbox /\ loop' = loop /\ UNCHANGED <<V, batch>>
      /\ handler[c].pc = "filter"
  BY DEF setClientTransferMinAmount, history
<1>7. HistoryType'
  BY <1>6 DEF LossInv, HistoryType
<1>8. ASSUME c \in connected
      PROVE  Complete(c)'
  <2>1. /\ c \in registered /\ Sent(c)' = Sent(c)
        /\ Busy(c) /\ Asking(c) /\ Keyless(c) /\ KeepsTick(c)
    BY <1>6, <1>8, SameSent DEF LossInv, Complete
  <2>2. /\ BatchLogs' = BatchLogs /\ handler'[c].pc = "subscribe"
        /\ (ById(c)' <=> ById(c)) /\ (Handling(c)' <=> Handling(c))
        /\ (\A l : Wanted(c, l)' <=> Wanted(c, l)) /\ Covered(c)' = Covered(c)
    BY <1>3, <1>4, <1>5, <1>6, <2>1 DEF BatchLogs, ById, Handling, Wanted, Covered
  <2>3. Busy(c)'
    BY <1>3, <1>5, <1>6, <2>1, <2>2 DEF Busy
  <2>4. Asking(c)'
    BY <1>3, <1>4, <1>5, <1>6, <2>1, <2>2 DEF Asking
  <2>5. Keyless(c)'
    BY <1>3, <1>5, <1>6, <2>1, <2>2 DEF Keyless
  <2>6. KeepsTick(c)'
    BY <1>4, <1>5, <1>6, <2>1, <2>2 DEF KeepsTick, TickCursorSafe
  <2> QED
    BY <1>6, <2>1, <2>2, <2>3, <2>4, <2>5, <2>6 DEF Complete, AtRest, Beyond, Replaying
<1>9. Complete(c)'
  BY <1>6, <1>8 DEF Complete
<1> QED
  BY <1>5, <1>6, <1>7, <1>9, ClientLoss

LEMMA SubscribeLoss ==
    ASSUME IInv, LossInv, NEW c \in Clients, NEW k \in Keys, subscribe(c, k)
    PROVE  LossInv'
<1> DEFINE h == [handler[c] EXCEPT !.todo = @ \ {k}]
           s == [clients_[c] EXCEPT !.subscriptions = @ \cup {k}]
<1>0. StreamType
  BY DEF IInv
<1>1. handler' = [handler EXCEPT ![c] = h] /\ clients_' = [clients_ EXCEPT ![c] = s]
  BY <1>0 DEF subscribe, StreamType
<1>2. handler[c] \in Handlers /\ clients_[c] \in ClientStates
  BY <1>0 DEF StreamType
<1>3. h.pc = handler[c].pc /\ h.msg = handler[c].msg /\ h.has = handler[c].has
  BY <1>2 DEF Handlers
<1>4. s.lastTick = clients_[c].lastTick /\ s.lastLogId = clients_[c].lastLogId
  BY <1>2 DEF ClientStates
<1> HIDE DEF h, s
<1>5. /\ handler'[c] = h /\ clients_'[c] = s
      /\ \A d \in Clients \ {c} : handler'[d] = handler[d] /\ clients_'[d] = clients_[d]
  BY <1>0, <1>1 DEF StreamType
<1>6. /\ claimed' = claimed /\ excused' = excused
      /\ connected' = connected /\ registered' = registered
      /\ inbox' = inbox /\ loop' = loop /\ UNCHANGED <<V, batch>>
      /\ handler[c].pc = "subscribe" /\ handler[c].todo # {}
  BY DEF subscribe, history
<1>7. HistoryType'
  BY <1>6 DEF LossInv, HistoryType
<1>8. ASSUME c \in connected
      PROVE  Complete(c)'
  <2>1. /\ c \in registered
        /\ Busy(c) /\ Asking(c) /\ Keyless(c) /\ KeepsTick(c)
    BY <1>6, <1>8 DEF LossInv, Complete
  <2>2. /\ BatchLogs' = BatchLogs /\ handler'[c].pc = "subscribe"
        /\ (ById(c)' <=> ById(c)) /\ (Handling(c)' <=> Handling(c))
    BY <1>3, <1>5, <1>6 DEF BatchLogs, ById, Handling
  <2>3. Busy(c)'
    BY <1>3, <1>5, <1>6, <2>1, <2>2 DEF Busy
  <2>4. Asking(c)'
    BY <1>3, <1>4, <1>5, <1>6, <2>1, <2>2 DEF Asking
  <2>5. handler'[c].msg.keys # {}
    BY <1>3, <1>5, <1>6, <2>1 DEF Keyless
  <2>6. KeepsTick(c)'
    BY <1>4, <1>5, <1>6, <2>1, <2>2 DEF KeepsTick, TickCursorSafe
  <2> QED
    BY <1>6, <2>1, <2>2, <2>3, <2>4, <2>5, <2>6
       DEF Complete, AtRest, Beyond, Replaying, Keyless
<1>9. Complete(c)'
  BY <1>6, <1>8 DEF Complete
<1> QED
  BY <1>5, <1>6, <1>7, <1>9, ClientLoss

\* A log before the frontier is verified or in the batch that is being pushed.
LEMMA PassedLogs ==
    ASSUME StreamType, BatchInv, NEW l \in Logs, LogTick[l] < Frontier
    PROVE  LogTick[l] < V \/ l \in BatchLogs
<1>1. LogTick[l] \in Int
  BY Members
<1>2. /\ V \in Int /\ batch.to \in Int /\ batch.tick \in Int
      /\ batch.pc = "push" => batch.tick <= batch.to
  BY DEF StreamType, BatchInv
<1> QED
  BY <1>1, <1>2 DEF Frontier, BatchLogs, LogsOf

\* A message that is answered without a catch-up leaves a client at rest, if what
\* is verified and what is behind its log id is covered or excused now, and so is
\* what is behind its tick cursor.
LEMMA Answered ==
    ASSUME IInv, LossInv, NEW c \in Clients, NEW h,
           handler' = [handler EXCEPT ![c] = h], h.pc = "idle",
           Handling(c),
           NEW X \in SUBSET Logs, excused' = [excused EXCEPT ![c] = @ \cup X],
           BehindCursor(c) \subseteq X,
           UNCHANGED <<V, batch, connected, registered, clients_, loop, inbox, claimed>>,
           c \in connected =>
              \A l \in Logs : Wanted(c, l) /\ (LogTick[l] < V \/ l <= clients_[c].lastLogId)
                 => l \in Covered(c) \cup X
    PROVE  LossInv'
<1>0. StreamType /\ BatchInv /\ HistoryType
  BY DEF IInv, LossInv
<1>1. handler'[c].pc = "idle" /\ \A d \in Clients \ {c} : handler'[d] = handler[d]
  BY <1>0 DEF StreamType
<1>2. /\ excused'[c] = excused[c] \cup X
      /\ \A d \in Clients \ {c} : excused'[d] = excused[d]
      /\ HistoryType'
  BY <1>0 DEF HistoryType
<1>3. ASSUME c \in connected
      PROVE  AtRest(c)' /\ c \in registered
  <2>1. Busy(c) /\ c \in registered /\ Sent(c)' = Sent(c)
    BY <1>3, SameSent DEF LossInv, Complete
  <2>2. \A l \in Logs : LogTick[l] <= clients_[c].lastTick => l \in excused'[c]
    <3>1. \A l \in Logs : LogTick[l] \in Int /\ initialTick <= LogTick[l]
      BY StreamAssumption DEF Ticks
    <3>2. clients_[c].lastTick \in Int /\ initialTick \in Int
      BY <1>0, StreamAssumption DEF StreamType, ClientStates
    <3> QED
      BY <1>2, <3>1, <3>2 DEF BehindCursor, LogsOf
  <2>3. TickCursorSafe(c)'
    BY <2>2 DEF TickCursorSafe
  <2>4. (\A l : Wanted(c, l)' <=> Wanted(c, l)) /\ Covered(c) \cup X \subseteq Covered(c)'
    BY <1>2, <2>1 DEF Wanted, Covered
  <2>5. Frontier' = Frontier
    BY DEF Frontier
  <2>6. BatchLogs \subseteq Covered(c)'
    BY <1>2, <2>1 DEF Busy, Covered
  <2>7. ASSUME NEW l \in Logs, Wanted(c, l),
               LogTick[l] < Frontier \/ l <= clients_[c].lastLogId
        PROVE  l \in Covered(c)'
    <3>1. CASE LogTick[l] < V \/ l <= clients_[c].lastLogId
      BY <1>3, <2>4, <2>7, <3>1
    <3>2. CASE LogTick[l] < Frontier
      BY <1>0, <2>6, <3>1, <3>2, PassedLogs
    <3> QED
      BY <2>7, <3>1, <3>2
  <2>8. AtRest(c)'
    BY <2>3, <2>4, <2>5, <2>7 DEF AtRest
  <2> QED
    BY <2>1, <2>8
<1>4. Complete(c)'
  BY <1>1, <1>3 DEF Complete, Busy, Handling, Asking, Keyless, KeepsTick, Beyond, Replaying
<1> QED
  BY <1>1, <1>2, <1>4, ClientLoss

LEMMA RejectLoss ==
    ASSUME IInv, LossInv, NEW c \in Clients, RejectSubscribe(c)
    PROVE  LossInv'
<1> DEFINE h == [handler[c] EXCEPT !.pc = "idle"]
<1>0. StreamType
  BY DEF IInv
<1>1. handler' = [handler EXCEPT ![c] = h] /\ KeptCursor(c)
  BY <1>0 DEF RejectSubscribe, StreamType
<1>2. h.pc = "idle"
  BY <1>0 DEF StreamType, Handlers
<1>3. /\ handler[c].pc = "subscribe" /\ handler[c].msg.keys = {}
      /\ UNCHANGED <<V, batch, connected, registered, clients_, loop, inbox, claimed>>
  BY DEF RejectSubscribe, manager
<1>4. Handling(c)
  BY <1>3 DEF Handling
<1>5. c \in connected =>
        \A l \in Logs : Wanted(c, l) /\ (LogTick[l] < V \/ l <= clients_[c].lastLogId)
           => l \in Covered(c)
  BY <1>3, <1>4 DEF LossInv, Complete, Keyless, Asking, Busy, Covered
<1>6. BehindCursor(c) \in SUBSET Logs /\ excused' = [excused EXCEPT ![c] = @ \cup BehindCursor(c)]
  BY <1>1 DEF KeptCursor, BehindCursor, LogsOf
<1> HIDE DEF h
<1> QED
  BY <1>1, <1>2, <1>3, <1>4, <1>5, <1>6, Answered

\* What is verified beyond the target is above latest_log_id, and then excused.
LEMMA ReadTargetLoss ==
    ASSUME IInv, LossInv, NEW c \in Clients, ReadTarget(c)
    PROVE  LossInv'
<1> DEFINE pc == IF NothingYet(c) THEN "idle" ELSE "begin"
           h == [handler[c] EXCEPT !.target = CatchUpTarget(c), !.pc = pc]
           X == AboveLatest(c) \cup IF NothingYet(c) THEN BehindCursor(c) ELSE {}
<1>0. StreamType /\ HistoryType
  BY DEF IInv, LossInv
<1>1. handler' = [handler EXCEPT ![c] = h]
  BY <1>0 DEF ReadTarget, StreamType
<1>2. /\ handler[c].pc = "subscribe" /\ Handling(c)
      /\ excused' = [excused EXCEPT ![c] = @ \cup X]
      /\ UNCHANGED <<V, batch, connected, registered, clients_, loop, inbox, claimed>>
  BY DEF ReadTarget, manager, Handling
<1>3. /\ h.pc = pc /\ h.target = CatchUpTarget(c)
      /\ h.msg = handler[c].msg /\ h.has = handler[c].has
  BY <1>0 DEF StreamType, Handlers
<1>4. X \in SUBSET Logs
  BY DEF AboveLatest, BehindCursor, LogsOf
<1>5. V \in Int /\ latest_log_id \in Int
      /\ \A l \in Logs : l \in Int /\ l >= 0 /\ LogTick[l] \in Int /\ initialTick <= LogTick[l]
      /\ 0 < initialTick /\ initialTick \in Int
  BY <1>0, StreamAssumption DEF Logs, StreamType, Ticks
<1>6. \A l \in Logs : LogTick[l] < V /\ ById(c) /\ l > latest_log_id => l \in X
  BY <1>5 DEF AboveLatest, LogsOf
<1>7. CASE NothingYet(c)
  <2>1. h.pc = "idle" /\ BehindCursor(c) \subseteq X
    BY <1>3, <1>7
  <2> HIDE DEF X
  <2>2. ASSUME c \in connected, NEW l \in Logs,
               LogTick[l] < V \/ l <= clients_[c].lastLogId
        PROVE  l \in Covered(c) \cup X
    <3>1. clients_[c].lastLogId \in Int
      BY <1>0 DEF StreamType, ClientStates
    <3>2. Asking(c) /\ handler[c].has \subseteq claimed[c]
      BY <1>2, <2>2 DEF LossInv, Complete, Busy
    <3>3. CASE l <= clients_[c].lastLogId
      BY <1>2, <3>2, <3>3 DEF Asking, Covered
    <3>4. CASE LogTick[l] < V
      <4>1. ById(c) /\ latest_log_id <= 0
        BY <1>5, <1>7, <3>4 DEF NothingYet
      <4>2. CASE clients_[c].lastLogId < 0
        BY <1>2, <3>2, <3>4, <4>1, <4>2 DEF Asking, Covered
      <4>3. CASE clients_[c].lastLogId >= 0 /\ ~(l > latest_log_id)
        <5>1. l <= clients_[c].lastLogId
          BY <1>5, <3>1, <4>1, <4>3
        <5> QED
          BY <3>3, <5>1
      <4>4. CASE l > latest_log_id
        BY <1>6, <3>4, <4>1, <4>4
      <4> QED
        BY <3>1, <4>2, <4>3, <4>4
    <3> QED
      BY <2>2, <3>3, <3>4
  <2> HIDE DEF h
  <2> QED
    BY <1>1, <1>2, <1>4, <2>1, <2>2, Answered
<1>8. CASE ~NothingYet(c)
  <2>1. h.pc = "begin"
    BY <1>3, <1>8
  <2> HIDE DEF h, pc, X
  <2>2. /\ handler'[c] = h /\ excused'[c] = excused[c] \cup X
        /\ \A d \in Clients \ {c} : handler'[d] = handler[d] /\ excused'[d] = excused[d]
    BY <1>0, <1>1, <1>2 DEF StreamType, HistoryType
  <2>3. ASSUME c \in connected
        PROVE  Complete(c)'
    <3>1. /\ c \in registered /\ Busy(c) /\ Asking(c) /\ KeepsTick(c)
      BY <2>3 DEF LossInv, Complete
    <3>2. /\ BatchLogs' = BatchLogs /\ handler'[c].pc = "begin"
          /\ (ById(c)' <=> ById(c)) /\ Handling(c)'
      BY <1>2, <1>3, <2>1, <2>2 DEF BatchLogs, ById, Handling
    <3>3. Busy(c)'
      BY <1>2, <1>3, <2>1, <2>2, <3>1, <3>2 DEF Busy
    <3>4. Asking(c)'
      BY <1>2, <1>3, <2>1, <2>2, <3>1, <3>2 DEF Asking
    <3>5. KeepsTick(c)'
      BY <1>2, <1>3, <2>1, <2>2, <3>1, <3>2 DEF KeepsTick, TickCursorSafe
    <3>6. Beyond(c)'
      <4>2. CASE ById(c)
        <5>1. handler'[c].target = latest_log_id
          BY <1>3, <2>2, <4>2 DEF CatchUpTarget
        <5>2. \A l \in Logs : LogTick[l] < V /\ l > latest_log_id => l \in excused'[c]
          BY <1>6, <2>2, <4>2
        <5> QED
          BY <1>2, <3>2, <4>2, <5>1, <5>2 DEF Beyond, At
      <4>3. CASE ~ById(c)
        <5>1. handler'[c].target = V - 1
          BY <1>3, <2>2, <4>3 DEF CatchUpTarget
        <5>2. \A l \in Logs : LogTick[l] < V => ~(LogTick[l] > V - 1)
          BY <1>5
        <5> QED
          BY <1>2, <3>2, <4>3, <5>1, <5>2 DEF Beyond, At
      <4> QED
        BY <4>2, <4>3
    <3> QED
      BY <1>2, <3>1, <3>2, <3>3, <3>4, <3>5, <3>6
         DEF Complete, AtRest, Keyless, Replaying
  <2>4. Complete(c)'
    BY <1>2, <2>3 DEF Complete
  <2>5. HistoryType'
    BY <1>0, <1>2, <1>4 DEF HistoryType
  <2> QED
    BY <1>2, <2>1, <2>2, <2>4, <2>5, ClientLoss
<1> QED
  BY <1>7, <1>8

LEMMA MaxOfTwo ==
    ASSUME NEW x \in Int, NEW y \in Int
    PROVE  Max({x, y}) \in {x, y} /\ x <= Max({x, y}) /\ y <= Max({x, y})
<1>1. \E z \in {x, y} : \A v \in {x, y} : z >= v
  OBVIOUS
<1>2. Max({x, y}) \in {x, y} /\ \A v \in {x, y} : Max({x, y}) >= v
  BY <1>1 DEF Max
<1> QED
  BY <1>2

LEMMA MinOfTwo ==
    ASSUME NEW x \in Int, NEW y \in Int
    PROVE  Min({x, y}) \in {x, y} /\ Min({x, y}) <= x /\ Min({x, y}) <= y
<1>1. \E z \in {x, y} : \A v \in {x, y} : z <= v
  OBVIOUS
<1>2. Min({x, y}) \in {x, y} /\ \A v \in {x, y} : Min({x, y}) <= v
  BY <1>1 DEF Min
<1> QED
  BY <1>2

\* A catch-up starts after the cursor of the message, so that what it passes over
\* is what the message says the client has.
LEMMA BeginLoss ==
    ASSUME IInv, LossInv, NEW c \in Clients, BeginCatchUp(c)
    PROVE  LossInv'
<1>0. StreamType /\ TargetInv /\ HistoryType
  BY DEF IInv, LossInv
<1>1. /\ handler[c].pc = "begin" /\ Handling(c)
      /\ UNCHANGED <<V, batch, connected, registered, loop, inbox>>
  BY DEF BeginCatchUp, Handling
<1>2. CASE NothingToReplay(c)
  <2> DEFINE h == [handler[c] EXCEPT !.pc = "idle"]
  <2>1. /\ handler' = [handler EXCEPT ![c] = h] /\ KeptCursor(c)
        /\ UNCHANGED <<clients_, claimed>>
    BY <1>0, <1>2 DEF BeginCatchUp, StreamType
  <2>2. h.pc = "idle"
    BY <1>0 DEF StreamType, Handlers
  <2>3. ASSUME c \in connected, NEW l \in Logs, Wanted(c, l),
               LogTick[l] < V \/ l <= clients_[c].lastLogId
        PROVE  l \in Covered(c)
    <3>1. Asking(c) /\ handler[c].has \subseteq claimed[c]
      BY <1>1, <2>3 DEF LossInv, Complete, Busy
    <3>2. ById(c) /\ clients_[c].lastLogId < 0
      BY <1>2, <2>3 DEF NothingToReplay, Wanted
    <3> QED
      BY <1>1, <2>3, <3>1, <3>2 DEF Asking, Covered
  <2>4. BehindCursor(c) \in SUBSET Logs /\ excused' = [excused EXCEPT ![c] = @ \cup BehindCursor(c)]
    BY <2>1 DEF KeptCursor, BehindCursor, LogsOf
  <2> HIDE DEF h
  <2> QED
    BY <1>1, <2>1, <2>2, <2>3, <2>4, Answered
<1>3. CASE ~NothingToReplay(c)
  <2> DEFINE h == [handler[c] EXCEPT !.pc = "replay", !.next = FirstToReplay(c),
                                     !.keys = clients_[c].subscriptions]
             s == [clients_[c] EXCEPT !.catchUpInProgress = TRUE]
  <2>1. /\ handler' = [handler EXCEPT ![c] = h] /\ clients_' = [clients_ EXCEPT ![c] = s]
        /\ claimed' = [claimed EXCEPT ![c] = handler[c].has] /\ excused' = excused
    BY <1>0, <1>3 DEF BeginCatchUp, StreamType
  <2>2. handler[c] \in Handlers /\ clients_[c] \in ClientStates
    BY <1>0 DEF StreamType
  <2>3. /\ h.pc = "replay" /\ h.next = FirstToReplay(c) /\ h.keys = clients_[c].subscriptions
        /\ h.msg = handler[c].msg /\ h.target = handler[c].target /\ h.has = handler[c].has
    BY <2>2 DEF Handlers
  <2>4. /\ s.subscriptions = clients_[c].subscriptions /\ s.lastTick = clients_[c].lastTick
        /\ s.lastLogId = clients_[c].lastLogId
    BY <2>2 DEF ClientStates
  <2> HIDE DEF h, s
  <2>5. /\ handler'[c] = h /\ clients_'[c] = s
        /\ \A d \in Clients \ {c} : handler'[d] = handler[d] /\ clients_'[d] = clients_[d]
    BY <1>0, <2>1 DEF StreamType
  <2>6. handler[c].has \subseteq Logs
    BY <2>2 DEF Handlers
  <2>7. /\ claimed'[c] = handler[c].has
        /\ \A d \in Clients \ {c} : claimed'[d] = claimed[d] /\ excused'[d] = excused[d]
        /\ HistoryType'
    BY <1>0, <2>1, <2>6 DEF HistoryType
  <2>8. ASSUME c \in connected
        PROVE  Complete(c)'
    <3>1. /\ c \in registered /\ Busy(c) /\ Asking(c) /\ KeepsTick(c) /\ Beyond(c)
      BY <2>8 DEF LossInv, Complete
    <3>2. /\ BatchLogs' = BatchLogs /\ handler'[c].pc = "replay"
          /\ (ById(c)' <=> ById(c)) /\ Handling(c)' /\ (\A l : Wanted(c, l)' <=> Wanted(c, l))
          /\ \A l : At(c, l)' = At(c, l)
      BY <1>1, <2>3, <2>4, <2>5 DEF BatchLogs, ById, Handling, Wanted, At
    <3>3. Busy(c)'
      BY <1>1, <2>1, <2>3, <2>5, <2>7, <3>1, <3>2 DEF Busy
    <3>4. KeepsTick(c)'
      BY <1>1, <2>1, <2>4, <2>5, <3>1, <3>2 DEF KeepsTick, TickCursorSafe
    <3>5. Beyond(c)'
      BY <1>1, <2>1, <2>3, <2>5, <3>1, <3>2 DEF Beyond
    <3>6. ASSUME NEW l \in Logs
          PROVE  /\ At(c, l) < FirstToReplay(c) /\ At(c, l) <= handler[c].target
                       => l \in Covered(c)'
                 /\ ~ById(c) /\ l <= clients_[c].lastLogId => l \in claimed'[c]
      <4>1. l \in Int /\ LogTick[l] \in Int /\ initialTick \in Int /\ initialTick <= LogTick[l]
        BY StreamAssumption DEF Logs, Ticks
      <4>2. /\ clients_[c].lastLogId \in Int /\ clients_[c].lastTick \in Int /\ V \in Int
            /\ handler[c].target \in Int
        BY <1>0, <2>2 DEF StreamType, ClientStates, Handlers
      <4>3. l <= clients_[c].lastLogId => l \in claimed'[c] /\ l \in Covered(c)'
        BY <1>1, <2>7, <3>1 DEF Asking, Covered
      <4>4. CASE ById(c)
        <5>1. FirstToReplay(c) = clients_[c].lastLogId + 1 /\ At(c, l) = l
          BY <4>4 DEF FirstToReplay, At
        <5> QED
          BY <4>1, <4>2, <4>3, <4>4, <5>1
      <4>5. CASE ~ById(c)
        <5>1. /\ FirstToReplay(c) = Max({clients_[c].lastTick + 1, initialTick})
              /\ At(c, l) = LogTick[l] /\ handler[c].target < V
          BY <1>0, <1>1, <4>5 DEF FirstToReplay, At, TargetInv
        <5>2. FirstToReplay(c) \in {clients_[c].lastTick + 1, initialTick}
          <6>1. clients_[c].lastTick + 1 \in Int /\ initialTick \in Int
            BY <4>1, <4>2
          <6> QED
            BY <5>1, <6>1, MaxOfTwo
        <5>3. LogTick[l] <= clients_[c].lastTick /\ LogTick[l] < V => l \in Covered(c)'
          BY <1>1, <2>1, <2>7, <3>1, <4>5 DEF Asking, Covered
        <5>4. LogTick[l] < FirstToReplay(c) /\ LogTick[l] <= handler[c].target =>
                 LogTick[l] <= clients_[c].lastTick /\ LogTick[l] < V
          BY <4>1, <4>2, <5>1, <5>2
        <5> QED
          BY <4>3, <5>1, <5>3, <5>4
      <4> QED
        BY <4>4, <4>5
    <3>7. Replaying(c)'
      BY <2>3, <2>4, <2>5, <3>2, <3>6 DEF Replaying
    <3> QED
      BY <1>1, <3>1, <3>2, <3>3, <3>4, <3>5, <3>7
         DEF Complete, AtRest, Asking, Keyless
  <2>9. Complete(c)'
    BY <1>1, <2>8 DEF Complete
  <2> QED
    BY <1>1, <2>5, <2>7, <2>9, ClientLoss
<1> QED
  BY <1>2, <1>3

\* A batch sends what can be read of its range and excuses the rest.
LEMMA CatchUpLoss ==
    ASSUME IInv, LossInv, NEW c \in Clients, CatchUpBatch(c)
    PROVE  LossInv'
<1> DEFINE mine == {l \in Fetched(c) : LogKey[l] \in handler[c].keys}
           sent == Ascending(mine)
           kind == IF ById(c) THEN "id" ELSE "tick"
           pc == IF c \notin connected /\ (ById(c) \/ Fetched(c) # {}) THEN "idle"
                 ELSE handler[c].pc
           h == [handler[c] EXCEPT !.next = @ + BATCH_SIZE, !.pc = pc]
<1>0. StreamType /\ HistoryType
  BY DEF IInv, LossInv
<1>1. /\ handler[c].pc = "replay" /\ handler[c].next <= handler[c].target
      /\ inbox' = IF c \in connected
                  THEN [inbox EXCEPT ![c] = inbox[c] \o Mail(sent, kind)] ELSE inbox
      /\ excused' = [excused EXCEPT ![c] = @ \cup (CatchUpRange(c) \ Fetched(c))]
      /\ UNCHANGED <<V, batch, connected, registered, clients_, loop, claimed>>
  BY DEF CatchUpBatch, manager
<1>2. handler' = [handler EXCEPT ![c] = h]
  BY <1>0 DEF CatchUpBatch, StreamType
<1> HIDE DEF pc
<1>3. /\ h.pc = pc /\ h.next = handler[c].next + BATCH_SIZE /\ h.target = handler[c].target
      /\ h.keys = handler[c].keys /\ h.msg = handler[c].msg /\ h.has = handler[c].has
  BY <1>0 DEF StreamType, Handlers
<1> HIDE DEF h
<1>4. handler'[c] = h /\ \A d \in Clients \ {c} : handler'[d] = handler[d]
  BY <1>0, <1>2 DEF StreamType
<1>5. CatchUpRange(c) \subseteq Logs
  BY DEF CatchUpRange, LogsOf
<1>6. /\ excused'[c] = excused[c] \cup (CatchUpRange(c) \ Fetched(c))
      /\ \A d \in Clients \ {c} : excused'[d] = excused[d]
      /\ HistoryType'
  BY <1>0, <1>1, <1>5 DEF HistoryType
<1>7. \A d \in Clients \ {c} : inbox'[d] = inbox[d]
  BY <1>0, <1>1 DEF StreamType
<1>8. ASSUME c \in connected
      PROVE  Complete(c)'
  <2>1. /\ c \in registered /\ Busy(c) /\ KeepsTick(c) /\ Beyond(c) /\ Replaying(c)
    BY <1>8 DEF LossInv, Complete
  <2>2. pc = "replay"
    BY <1>1, <1>8 DEF pc
  <2>3. ASSUME NEW l \in Sent(c) \cup mine
        PROVE  l \in Sent(c)'
    <3>1. mine \in SUBSET Logs
      BY <1>5 DEF Fetched
    <3> HIDE DEF mine
    <3>2. sent \in Seq(Logs) /\ (l \in mine => Lists(sent, l))
      BY <3>1, AscendingSorts DEF Lists
    <3>3. inbox[c] \in Seq(Letters) /\ kind \in {"live", "tick", "id"}
      BY <1>0 DEF StreamType
    <3>4. inbox'[c] = inbox[c] \o Mail(sent, kind)
      BY <1>0, <1>1, <1>8 DEF StreamType
    <3> HIDE DEF sent, kind
    <3>5. Received(inbox[c], l) \/ Lists(sent, l) => Received(inbox'[c], l)
      BY <3>2, <3>3, <3>4, ExtendedHas
    <3>6. CASE Received(inbox'[c], l)
      BY <3>6 DEF Sent, Received
    <3>7. CASE \E i \in 1 .. Len(loop) : \E j \in 1 .. Len(loop[i][c]) : loop[i][c][j] = l
      BY <1>1, <3>7 DEF Sent
    <3> QED
      BY <2>3, <3>2, <3>5, <3>6, <3>7, SentMembers DEF Received
  <2>4. /\ BatchLogs' = BatchLogs /\ handler'[c].pc = "replay"
        /\ (ById(c)' <=> ById(c)) /\ Handling(c)' /\ Handling(c)
        /\ (\A l : Wanted(c, l)' <=> Wanted(c, l))
        /\ (\A l : At(c, l)' = At(c, l)) /\ Covered(c) \subseteq Covered(c)'
    BY <1>1, <1>3, <1>4, <1>6, <2>2, <2>3 DEF BatchLogs, ById, Handling, Wanted, At, Covered
  <2>5. Busy(c)'
    BY <1>1, <1>3, <1>4, <1>6, <2>1, <2>4 DEF Busy
  <2>6. KeepsTick(c)'
    BY <1>1, <1>6, <2>1, <2>4 DEF KeepsTick, TickCursorSafe
  <2>7. Beyond(c)'
    BY <1>1, <1>3, <1>4, <1>6, <2>1, <2>4 DEF Beyond
  <2>8. ASSUME NEW l \in Logs, Wanted(c, l), At(c, l) < handler[c].next + BATCH_SIZE,
               At(c, l) <= handler[c].target
        PROVE  l \in Covered(c)'
    <3>1. CASE At(c, l) < handler[c].next
      BY <1>1, <2>1, <2>4, <2>8, <3>1 DEF Replaying
    <3>2. CASE ~(At(c, l) < handler[c].next)
      <4> DEFINE x == handler[c].next + BATCH_SIZE - 1
                 y == handler[c].target
      <4>1. /\ At(c, l) \in Int /\ handler[c].next \in Int /\ x \in Int /\ y \in Int
            /\ BATCH_SIZE \in Int
        <5>1. l \in Int /\ LogTick[l] \in Int /\ BATCH_SIZE \in Int
          BY <1>0, Members, StreamAssumption
        <5>2. handler[c].next \in Int /\ handler[c].target \in Int
          BY <1>0 DEF StreamType, Handlers
        <5> QED
          BY <5>1, <5>2 DEF At
      <4>2. handler[c].next <= At(c, l) /\ At(c, l) <= x /\ At(c, l) <= y
        BY <2>8, <3>2, <4>1
      <4> HIDE DEF x, y
      <4>3. Min({x, y}) \in {x, y}
        BY <4>1, MinOfTwo
      <4>4. Min({x, y}) \in Int /\ At(c, l) <= Min({x, y})
        BY <4>1, <4>2, <4>3
      <4>5. At(c, l) \in handler[c].next .. Min({x, y})
        BY <4>1, <4>2, <4>4
      <4>6. l \in CatchUpRange(c)
        BY <4>5 DEF CatchUpRange, BatchEnd, LogsOf, At, x, y
      <4>7. LogKey[l] \in handler[c].keys
        BY <1>1, <2>1, <2>8 DEF Replaying, Wanted
      <4>8. CASE l \in Fetched(c)
        BY <2>3, <4>6, <4>7, <4>8 DEF Covered
      <4>9. CASE l \notin Fetched(c)
        BY <1>6, <4>6, <4>9 DEF Covered
      <4> QED
        BY <4>8, <4>9
    <3> QED
      BY <3>1, <3>2
  <2>9. Replaying(c)'
    BY <1>1, <1>3, <1>4, <2>1, <2>4, <2>8 DEF Replaying
  <2> QED
    BY <1>1, <2>1, <2>4, <2>5, <2>6, <2>7, <2>9
       DEF Complete, AtRest, Asking, Keyless
<1>9. Complete(c)'
  BY <1>1, <1>8 DEF Complete
<1> HIDE DEF sent, kind, mine
<1> QED
  BY <1>1, <1>4, <1>6, <1>7, <1>9, ClientLoss

\* The cursor jumps to the target, which hides nothing that the catch-up has not
\* passed.
LEMMA FinishLoss ==
    ASSUME IInv, LossInv, NEW c \in Clients, FinishCatchUp(c)
    PROVE  LossInv'
<1> DEFINE tick == IF ById(c) THEN clients_[c].lastTick ELSE handler[c].target
           id == IF ById(c) THEN handler[c].target ELSE clients_[c].lastLogId
           h == [handler[c] EXCEPT !.pc = "idle"]
           s == [clients_[c] EXCEPT !.catchUpInProgress = FALSE, !.lastTick = tick,
                                    !.lastLogId = id]
<1>0. StreamType /\ BatchInv /\ TargetInv
  BY DEF IInv
<1>1. handler' = [handler EXCEPT ![c] = h] /\ clients_' = [clients_ EXCEPT ![c] = s]
  BY <1>0 DEF FinishCatchUp, CaughtUp, StreamType
<1>2. handler[c] \in Handlers /\ clients_[c] \in ClientStates
  BY <1>0 DEF StreamType
<1>3. /\ handler[c].pc = "replay" /\ handler[c].next > handler[c].target
      /\ claimed' = claimed /\ excused' = excused
      /\ connected' = connected /\ registered' = registered
      /\ inbox' = inbox /\ loop' = loop /\ UNCHANGED <<V, batch>>
  BY DEF FinishCatchUp, history
<1>4. /\ ById(c) => tick = clients_[c].lastTick /\ id = handler[c].target
      /\ ~ById(c) => tick = handler[c].target /\ id = clients_[c].lastLogId
  OBVIOUS
<1> HIDE DEF tick, id
<1>5. h.pc = "idle"
  BY <1>2 DEF Handlers
<1>6. s.subscriptions = clients_[c].subscriptions /\ s.lastTick = tick /\ s.lastLogId = id
  BY <1>2 DEF ClientStates
<1> HIDE DEF h, s
<1>7. /\ handler'[c] = h /\ clients_'[c] = s
      /\ \A d \in Clients \ {c} : handler'[d] = handler[d] /\ clients_'[d] = clients_[d]
  BY <1>0, <1>1 DEF StreamType
<1>8. HistoryType'
  BY <1>3 DEF LossInv, HistoryType
<1>9. ASSUME c \in connected
      PROVE  Complete(c)'
  <2>1. /\ c \in registered /\ Busy(c) /\ KeepsTick(c) /\ Beyond(c) /\ Replaying(c)
        /\ Handling(c) /\ Sent(c)' = Sent(c)
    BY <1>3, <1>9, SameSent DEF LossInv, Complete, Handling
  <2>2. /\ V \in Int /\ handler[c].target \in Int /\ handler[c].next \in Int
        /\ \A l \in Logs : l \in Int /\ LogTick[l] \in Int
    BY <1>0, <1>2, Members DEF StreamType, Handlers
  <2>3. TickCursorSafe(c)'
    <3>1. CASE ById(c)
      BY <1>3, <1>4, <1>6, <1>7, <2>1, <3>1 DEF KeepsTick, TickCursorSafe
    <3>2. CASE ~ById(c)
      <4>1. handler[c].target < V /\ clients_'[c].lastTick = handler[c].target
        BY <1>0, <1>3, <1>4, <1>6, <1>7, <3>2 DEF TargetInv
      <4>2. \A l \in Logs : LogTick[l] <= handler[c].target => LogTick[l] < V
        BY <2>2, <4>1
      <4> QED
        BY <1>3, <4>1, <4>2 DEF TickCursorSafe
    <3> QED
      BY <3>1, <3>2
  <2>4. (\A l : Wanted(c, l)' <=> Wanted(c, l)) /\ Covered(c)' = Covered(c)
        /\ Frontier' = Frontier
    BY <1>3, <1>6, <1>7, <2>1 DEF Wanted, Covered, Frontier
  <2>5. ASSUME NEW l \in Logs, Wanted(c, l), LogTick[l] < Frontier \/ l <= id
        PROVE  l \in Covered(c)
    <3>1. At(c, l) \in Int
      BY <2>2 DEF At
    <3>2. CASE At(c, l) <= handler[c].target
      <4>1. At(c, l) < handler[c].next
        BY <1>3, <2>2, <3>1, <3>2
      <4> QED
        BY <1>3, <2>1, <2>5, <3>2, <4>1 DEF Replaying
    <3>3. CASE At(c, l) > handler[c].target /\ LogTick[l] < V
      BY <1>3, <2>1, <3>3 DEF Beyond, Covered
    <3>4. CASE LogTick[l] < Frontier
      <4>1. LogTick[l] < V \/ l \in BatchLogs
        BY <1>0, <3>4, PassedLogs
      <4>2. CASE l \in BatchLogs
        BY <2>1, <4>2 DEF Busy, Covered
      <4> QED
        BY <2>2, <3>1, <3>2, <3>3, <4>1, <4>2
    <3>5. CASE l <= id /\ ById(c)
      BY <1>4, <3>2, <3>5 DEF At
    <3>6. CASE l <= id /\ ~ById(c)
      BY <1>3, <1>4, <2>1, <3>6 DEF Replaying, Covered
    <3> QED
      BY <2>5, <3>4, <3>5, <3>6
  <2>6. AtRest(c)'
    BY <1>6, <1>7, <2>3, <2>4, <2>5 DEF AtRest
  <2>7. handler'[c].pc = "idle"
    BY <1>5, <1>7
  <2> QED
    BY <1>3, <2>1, <2>6, <2>7
       DEF Complete, Busy, Handling, Asking, Keyless, KeepsTick, Beyond, Replaying
<1>10. Complete(c)'
  BY <1>3, <1>9 DEF Complete
<1> QED
  BY <1>3, <1>7, <1>8, <1>10, ClientLoss

LEMMA InitLoss == Init => LossInv
<1> SUFFICES ASSUME Init PROVE LossInv
  OBVIOUS
<1>1. HistoryType /\ \A c \in Clients : Complete(c)
  BY DEF Init, HistoryType, Complete
<1> QED
  BY <1>1 DEF LossInv

LEMMA LossStep ==
    ASSUME IInv, LossInv, [Next]_vars
    PROVE  LossInv'
<1>1. CASE UNCHANGED vars
  <2>1. /\ handler' = handler /\ clients_' = clients_ /\ claimed' = claimed
        /\ excused' = excused /\ connected' = connected /\ registered' = registered
        /\ inbox' = inbox /\ loop' = loop /\ UNCHANGED <<V, batch>>
    BY <1>1 DEF vars, manager, history
  <2>2. ASSUME NEW c \in Clients
        PROVE  Complete(c)'
    <3>1. Complete(c) /\ Sent(c)' = Sent(c)
      BY <2>1, SameSent DEF LossInv
    <3> QED
      BY <2>1, <3>1, OtherClient
  <2> QED
    BY <2>1, <2>2 DEF LossInv, HistoryType
<1> QED
  BY <1>1, InsertLoss, LatestLoss, CleanLoss, LoadLoss, VerifyLoss, PushLoss, AdvanceLoss, RunLoopLoss, AddLoss,
     DisconnectLoss, RemoveLoss, UnsubscribeLoss, SetCursorLoss, FilterLoss, RejectLoss,
     SubscribeLoss, ReadTargetLoss, BeginLoss, CatchUpLoss, FinishLoss DEF Next

\* A client that has caught up got every verified log it is subscribed to and did
\* not say it has, whatever subscribes, replays, pushes and disconnects came between;
\* the exceptions are the ones LostOnlyAroundSubscribe names.
THEOREM NothingElseIsLost == Spec => []LostOnlyAroundSubscribe
<1>1. IInv /\ LossInv => LostOnlyAroundSubscribe
  <2> SUFFICES ASSUME IInv, LossInv, NEW c \in Clients, c \in connected,
                      handler[c].pc = "idle", NEW l \in Owed(c)
               PROVE  l \in Sent(c) \cup excused[c]
    BY DEF LostOnlyAroundSubscribe, Settled
  <2>1. AtRest(c) /\ StreamType /\ BatchInv
    BY DEF LossInv, Complete, IInv
  <2>2. l \in Logs /\ LogTick[l] \in initialTick .. V - 1 /\ Wanted(c, l) /\ l \notin claimed[c]
    BY DEF Owed, LogsOf, Wanted
  <2>3. LogTick[l] < Frontier
    <3>1. V \in Int /\ Frontier \in Int /\ V <= Frontier /\ initialTick \in Int
      BY <2>1, FrontierType, StreamAssumption
    <3> QED
      BY <2>2, <3>1
  <2>4. l \in Covered(c)
    BY <2>1, <2>2, <2>3 DEF AtRest
  <2> QED
    BY <2>2, <2>4 DEF Covered
<1>2. Spec => []LossInv
  BY InitLoss, Invariance, LossStep, PTL DEF Spec
<1> QED
  BY <1>1, <1>2, Invariance, PTL
================================================================================
