------------------------------ MODULE PeerServer ------------------------------
(***************************************************************************)
(* The connections of the node and the packets they bring: QubicServer     *)
(* accepts peers within limits and runs one receiver thread for each       *)
(* (connReceiver), and so does runBob for every connection of its own      *)
(* pool.  Data go through MRB_Data to the threads of DataProcessorThread,  *)
(* requests through MRB_Request to those of RequestProcessorThread, which  *)
(* find the connection in requestMapperTo and put the reply into its ring; *)
(* a send thread per connection empties it.  On the way out runBob joins   *)
(* the receivers of the pool, wakes and joins the threads behind the two   *)
(* rings, and stops the server after them, while its peers go on sending.  *)
(*                                                                         *)
(* Data abstraction: a client is one connection attempt; a request is its  *)
(* dejavu; packets of data and of replies are not told apart.  The rings   *)
(* are queues (PacketQueue) with a capacity in packets; the tokens that    *)
(* wake the threads at the end (8 of 64 MB each) take no room of it.  What *)
(* is done with data, what a reply contains and requestMapperFrom are left *)
(* out.  Of the sockets and send rings of the pool only that one may be    *)
(* lost matters here, with a thread that asks the network waiting for room *)
(* in its ring: those threads are joined first.  The garbage cleaner,      *)
(* joined before the server is stopped, waits for none of the parts here.  *)
(***************************************************************************)
EXTENDS Integers, Sequences, FiniteSets

CONSTANTS
    Clients, Ips, IpOf,
    Pool,               \* connPool, the connections the node made itself
    max_global_, max_per_ip_,
    Dejavus,
    Senders, Askers,    \* bound: the connections that bring data, and each of the dejavus
    Workers,            \* the threads of RequestProcessorThread
    DataThreads,        \* the threads of DataProcessorThread
    Tokens,             \* wake_count: tokens put into each of the two rings
    DataCapacity,       \* bound: packets in MRB_Data
    RequestCapacity,    \* bound: packets in MRB_Request
    SendCapacity,       \* bound: packets in the ring of a connection
    ReplyPackets,       \* bound: packets of a reply, the end packet included
    MaxPackets          \* bound: packets received

None == "none"

ASSUME ServerAssumption ==
    /\ IpOf \in [Clients -> Ips]
    /\ max_global_ \in Nat /\ max_per_ip_ \in Nat
    /\ DataCapacity \in Nat \ {0} /\ RequestCapacity \in Nat \ {0}
    /\ SendCapacity \in Nat \ {0}
    /\ ReplyPackets \in Nat \ {0} /\ MaxPackets \in Nat /\ Tokens \in Nat
    /\ Clients \cap Pool = {} /\ Senders \subseteq Clients \cup Pool
    /\ Askers \in [Dejavus -> SUBSET (Clients \cup Pool)]
    /\ None \notin Clients \cup Pool \cup Dejavus

Conns == Clients \cup Pool

VARIABLES
    stop,               \* progress of runBob and QubicServer::stop() on the way out
    woken,              \* tokens that runBob has put into the two rings
    cleanup,            \* the thread of cleanupThreadFunc
    accept,             \* the accept loop: where it is and with which client
    clients_,
    ip_connections_, total_connections_,   \* the ConnectionLimiter
    sock,               \* the socket of a client
    thread,             \* the receiver thread of a connection
    th,                 \* ClientCtx::th, the handle of that thread
    stopFlag,           \* the clients whose stopFlag is set
    packet,             \* the request a receiver thread holds
    MRB_Data,
    MRB_Request,
    requestMapperTo,
    data,               \* the threads of DataProcessorThread
    worker,
    lost,               \* the connections of the pool that are gone with a full ring
    mBuffer,            \* the send ring of a client: its number of packets
    terminated,         \* the process died: std::terminate or a pointer that is gone
    received,           \* bound: packets received so far
    asked               \* history: the dejavus each connection used

limiter == <<ip_connections_, total_connections_>>
main == <<stop, woken>>
server == <<main, cleanup, accept, clients_, limiter, th, terminated>>
rings == <<MRB_Data, MRB_Request, requestMapperTo, mBuffer>>
handlers == <<data, worker, lost>>
receivers == <<thread, stopFlag, packet, received, asked>>
vars == <<server, rings, handlers, receivers, sock>>

NoWork == [pc |-> "idle", client |-> None, dejavu |-> None, conn |-> None, left |-> 0]

Init ==
    /\ stop = "running"
    /\ woken = 0
    /\ cleanup = "looping"
    /\ accept = [pc |-> "accept", client |-> None]
    /\ clients_ = {}
    /\ ip_connections_ = [i \in Ips |-> 0]
    /\ total_connections_ = 0
    /\ sock = [c \in Clients |-> "none"]
    /\ thread = [c \in Conns |-> IF c \in Pool THEN "receive" ELSE "none"]
    /\ th = [c \in Clients |-> "none"]
    /\ stopFlag = {}
    /\ packet = [c \in Conns |-> None]
    /\ MRB_Data = << >>
    /\ MRB_Request = << >>
    /\ requestMapperTo = [d \in Dejavus |-> None]
    /\ data = [t \in DataThreads |-> "waiting"]
    /\ worker = [w \in Workers |-> NoWork]
    /\ lost = {}
    /\ mBuffer = [c \in Clients |-> 0]
    /\ terminated = FALSE
    /\ received = 0
    /\ asked = [c \in Conns |-> {}]

-------------------------------------------------------------------------------
(* The accept loop *)

\* running_ of the server: set until QubicServer::stop clears it.
Running == stop \in {"running", "exiting", "waking"}

\* Mutant: an address may have all connections.
tryAccept_GlobalOnly(ip) == total_connections_ < max_global_

tryAccept(ip) ==
    /\ total_connections_ < max_global_
    /\ ip_connections_[ip] < max_per_ip_

\* Mutant: the connections of the address stay counted.
release_TotalOnly(cs) ==
    /\ ip_connections_' = ip_connections_
    /\ total_connections_' = total_connections_ - Cardinality(cs)

\* The connections of the given clients leave the limiter.
release(cs) ==
    /\ ip_connections_' =
          [i \in Ips |-> ip_connections_[i] - Cardinality({c \in cs : IpOf[c] = i})]
    /\ total_connections_' = total_connections_ - Cardinality(cs)

\* A connection is taken from the listen socket and counted, or rejected.
AcceptConnection(c) ==
    /\ Running /\ accept.pc = "accept" /\ sock[c] = "none"
    /\ IF tryAccept(IpOf[c])
       THEN /\ sock' = [sock EXCEPT ![c] = "open"]
            /\ accept' = [pc |-> "create", client |-> c]
            /\ ip_connections_' = [ip_connections_ EXCEPT ![IpOf[c]] = @ + 1]
            /\ total_connections_' = total_connections_ + 1
       ELSE /\ sock' = [sock EXCEPT ![c] = "closed"]
            /\ UNCHANGED <<accept, limiter>>
    /\ UNCHANGED <<main, cleanup, clients_, th, terminated, rings, handlers, receivers>>

\* make_qc_by_socket throws.
CreateFails ==
    /\ accept.pc = "create"
    /\ sock' = [sock EXCEPT ![accept.client] = "closed"]
    /\ release({accept.client})
    /\ accept' = [pc |-> "accept", client |-> None]
    /\ UNCHANGED <<main, cleanup, clients_, th, terminated, rings, handlers, receivers>>

\* The client is listed and its thread runs, before it is assigned to ctx->th.
SpawnReceiver ==
    /\ accept.pc = "create"
    /\ clients_' = clients_ \cup {accept.client}
    /\ thread' = [thread EXCEPT ![accept.client] = "handshake"]
    /\ accept' = [accept EXCEPT !.pc = "assign"]
    /\ UNCHANGED <<main, cleanup, limiter, th, terminated, rings, handlers, stopFlag, packet,
                   received, asked, sock>>

\* If the clean-up has dropped the client meanwhile, the last reference to it
\* goes away with a thread that nobody joined: std::terminate.
AssignThread ==
    /\ accept.pc = "assign"
    /\ th' = [th EXCEPT ![accept.client] = "running"]
    /\ terminated' = (accept.client \notin clients_)
    /\ accept' = [pc |-> "accept", client |-> None]
    /\ UNCHANGED <<main, cleanup, clients_, limiter, rings, handlers, receivers, sock>>

\* The listen socket is closed and running_ is false.
AcceptLoopExits ==
    /\ ~Running /\ accept.pc = "accept"
    /\ accept' = [accept EXCEPT !.pc = "exited"]
    /\ UNCHANGED <<main, cleanup, clients_, limiter, th, terminated, rings, handlers, receivers, sock>>

-------------------------------------------------------------------------------
(* A receiver thread *)

Goto(c, l) == thread' = [thread EXCEPT ![c] = l]

\* The top of the loop of connReceiver; "receive" is its blocking recv.  The
\* receivers of the pool look at the stopFlag of the process.
LoopTop(c) ==
    IF c \in Pool THEN IF stop = "running" THEN "receive" ELSE "finished"
    ELSE IF c \in stopFlag THEN "return" ELSE "receive"

\* The handshake is one packet to the peer; nothing is awaited.  The ring of a
\* new connection has room for it.
SendHandshake(c) == mBuffer' = [mBuffer EXCEPT ![c] = @ + 1]

HandshakeDone(c) ==
    /\ thread[c] = "handshake"
    /\ SendHandshake(c)
    /\ Goto(c, LoopTop(c))
    /\ UNCHANGED <<server, MRB_Data, MRB_Request, requestMapperTo, handlers, stopFlag, packet,
                   received, asked, sock>>

\* The thread returns without the clean-up at its end.
HandshakeTimeout(c) ==
    /\ thread[c] = "handshake"
    /\ SendHandshake(c)
    /\ Goto(c, "timedout")
    /\ stopFlag' = stopFlag \cup {c}
    /\ UNCHANGED <<server, MRB_Data, MRB_Request, requestMapperTo, handlers, packet, received,
                   asked, sock>>

\* A packet of the peer was received as a whole; what it sent before it went
\* away can still be received.
Receive(c) ==
    /\ thread[c] = "receive"
    /\ IF c \in Pool THEN stop = "running" /\ c \notin lost
       ELSE sock[c] \in {"open", "hungup"}
    /\ received < MaxPackets
    /\ received' = received + 1

ReceiveRequest(c, d) ==
    /\ c \in Askers[d]
    /\ Receive(c)
    /\ packet' = [packet EXCEPT ![c] = d]
    /\ asked' = [asked EXCEPT ![c] = @ \cup {d}]
    /\ Goto(c, "enqueue")
    /\ UNCHANGED <<server, rings, handlers, stopFlag, sock>>

ReceiveData(c) ==
    /\ c \in Senders
    /\ Receive(c)
    /\ Goto(c, "data")
    /\ UNCHANGED <<server, rings, handlers, stopFlag, packet, asked, sock>>

\* What a ring holds: a packet of data, a request or a token.
Data == [kind |-> "data", client |-> None, dejavu |-> None]
Request(c, d) == [kind |-> "request", client |-> c, dejavu |-> d]
Token == [kind |-> "token", client |-> None, dejavu |-> None]

IsPacket(p) == p.kind # "token"

\* EnqueuePacket waits for room.
DataFull == Len(SelectSeq(MRB_Data, IsPacket)) >= DataCapacity
RequestFull == Len(SelectSeq(MRB_Request, IsPacket)) >= RequestCapacity

EnqueueData(c) ==
    /\ thread[c] = "data"
    /\ ~DataFull
    /\ MRB_Data' = Append(MRB_Data, Data)
    /\ Goto(c, LoopTop(c))
    /\ UNCHANGED <<server, MRB_Request, requestMapperTo, mBuffer, handlers, stopFlag, packet,
                   received, asked, sock>>

EnqueueRequest(c) ==
    /\ thread[c] = "enqueue"
    /\ ~RequestFull
    /\ MRB_Request' = Append(MRB_Request, Request(c, packet[c]))
    /\ Goto(c, "map")
    /\ UNCHANGED <<server, MRB_Data, requestMapperTo, mBuffer, handlers, stopFlag, packet,
                   received, asked, sock>>

\* Mutant: one connection is remembered, not one per dejavu.
Added_OneEntry(d, c) == [e \in Dejavus |-> c]

\* RequestMap::add: the latest connection that used a dejavu has it.
Added(d, c) == [requestMapperTo EXCEPT ![d] = c]

MapRequest(c) ==
    /\ thread[c] = "map"
    /\ requestMapperTo' = Added(packet[c], c)
    /\ packet' = [packet EXCEPT ![c] = None]
    /\ Goto(c, LoopTop(c))
    /\ UNCHANGED <<server, MRB_Data, MRB_Request, mBuffer, handlers, stopFlag, received, asked,
                   sock>>

\* connReceiver returns at stopFlag, or when nothing more can be received, and
\* the thread disconnects.
ReceiverReturns(c) ==
    /\ thread[c] = "return" \/ (thread[c] = "receive" /\ sock[c] # "open")
    /\ sock' = [sock EXCEPT ![c] = "closed"]
    /\ Goto(c, "reset")
    /\ UNCHANGED <<server, rings, handlers, stopFlag, packet, received, asked>>

\* A peer that sends nothing for two seconds is disconnected likewise.
ReceiveTimesOut(c) ==
    /\ thread[c] = "receive" /\ sock[c] = "open"
    /\ sock' = [sock EXCEPT ![c] = "closed"]
    /\ Goto(c, "reset")
    /\ UNCHANGED <<server, rings, handlers, stopFlag, packet, received, asked>>

\* Mutant: the thread ends without telling the clean-up.
ReceiverFinishes_NotFlagged(c) ==
    /\ thread[c] = "reset"
    /\ Goto(c, "ended")
    /\ UNCHANGED <<server, rings, handlers, stopFlag, packet, received, asked, sock>>

\* It drops its connection and sets finished.
ReceiverFinishes(c) ==
    /\ thread[c] = "reset"
    /\ Goto(c, "finished")
    /\ UNCHANGED <<server, rings, handlers, stopFlag, packet, received, asked, sock>>

\* A receiver of the pool that cannot receive connects again, in vain or not,
\* and returns at stopFlag.
PoolReturns(p) ==
    /\ thread[p] = "receive" /\ stop # "running"
    /\ Goto(p, "finished")
    /\ UNCHANGED <<server, rings, handlers, stopFlag, packet, received, asked, sock>>

\* A connection of the pool is gone for good, its ring full, and a thread waits
\* for room in it: one that is to be joined and chose it to ask the network
\* while its socket was valid, or a worker.
PoolLost(p) ==
    /\ p \notin lost
    /\ stop = "exiting" \/ \E w \in Workers : worker[w].pc = "reply" /\ worker[w].conn = p
    /\ lost' = lost \cup {p}
    /\ UNCHANGED <<server, rings, data, worker, receivers, sock>>

\* The peer closes its end.
PeerCloses(c) ==
    /\ sock[c] = "open"
    /\ sock' = [sock EXCEPT ![c] = "hungup"]
    /\ UNCHANGED <<server, rings, handlers, receivers>>

-------------------------------------------------------------------------------
(* Clean-up and stop *)

\* Threads that can be joined are joined; th of a client whose handle is not
\* assigned yet is not joinable.
Joined(cs) == [c \in Clients |-> IF c \in cs /\ th[c] = "running" THEN "joined" ELSE th[c]]

\* One pass of the clean-up thread, the last one if running_ is cleared.
cleanupFinishedClients ==
    LET done == {c \in clients_ : thread[c] = "finished"}
    IN  /\ cleanup = "looping"
        /\ done # {}
        /\ clients_' = clients_ \ done
        /\ th' = Joined(done)
        /\ release(done)
        /\ cleanup' = IF Running THEN "looping" ELSE "exited"
        /\ UNCHANGED <<main, accept, terminated, rings, handlers, receivers, sock>>

\* Its last pass finds nothing, or running_ is cleared before it.
CleanupExits ==
    /\ cleanup = "looping" /\ ~Running
    /\ cleanup' = "exited"
    /\ UNCHANGED <<main, accept, clients_, limiter, th, terminated, rings, handlers, receivers, sock>>

\* stopFlag of the process is set and the pool is disconnected.
ExitRequested ==
    /\ stop = "running"
    /\ stop' = "exiting"
    /\ UNCHANGED <<woken, cleanup, accept, clients_, limiter, th, terminated, rings, handlers,
                   receivers, sock>>

\* The threads that ask the network and the receivers of the pool are joined.
JoinProducers ==
    /\ stop = "exiting"
    /\ lost = {}
    /\ \A p \in Pool : thread[p] = "finished"
    /\ stop' = "waking"
    /\ UNCHANGED <<woken, cleanup, accept, clients_, limiter, th, terminated, rings, handlers,
                   receivers, sock>>

\* The tokens go into the two rings by turns and wait for room like packets.
WakeData ==
    /\ stop = "waking" /\ woken < 2 * Tokens /\ woken % 2 = 0
    /\ ~DataFull
    /\ MRB_Data' = Append(MRB_Data, Token)
    /\ woken' = woken + 1
    /\ UNCHANGED <<stop, cleanup, accept, clients_, limiter, th, terminated, MRB_Request,
                   requestMapperTo, mBuffer, handlers, receivers, sock>>


WakeRequest ==
    /\ stop = "waking" /\ woken < 2 * Tokens /\ woken % 2 = 1
    /\ ~RequestFull
    /\ MRB_Request' = Append(MRB_Request, Token)
    /\ woken' = woken + 1
    /\ UNCHANGED <<stop, cleanup, accept, clients_, limiter, th, terminated, MRB_Data,
                   requestMapperTo, mBuffer, handlers, receivers, sock>>

\* The threads behind the rings are joined, and StopQubicServer clears running_
\* and closes the listen socket.
StopBegins ==
    /\ stop = "waking" /\ woken = 2 * Tokens
    /\ \A t \in DataThreads : data[t] = "exited"
    /\ \A w \in Workers : worker[w].pc = "exited"
    /\ stop' = "stopping"
    /\ UNCHANGED <<woken, cleanup, accept, clients_, limiter, th, terminated, rings, handlers,
                   receivers, sock>>

\* The accept and the clean-up thread are joined.  A receiver that drops its
\* connection at that moment races with the use of the same pointer here.
StopSignals ==
    /\ stop = "stopping" /\ accept.pc = "exited" /\ cleanup = "exited"
    /\ stop' = "joining"
    /\ stopFlag' = stopFlag \cup clients_
    /\ sock' = [c \in Clients |-> IF c \in clients_ THEN "closed" ELSE sock[c]]
    /\ terminated' \in {FALSE, \E c \in clients_ : thread[c] = "reset"}
    /\ UNCHANGED <<woken, cleanup, accept, clients_, limiter, th, rings, handlers, thread,
                   packet, received, asked>>

StopJoins ==
    /\ stop = "joining"
    /\ \A c \in clients_ : thread[c] \in {"finished", "timedout"}
    /\ stop' = "stopped"
    /\ th' = Joined(clients_)
    /\ clients_' = {}
    /\ UNCHANGED <<woken, cleanup, accept, limiter, terminated, rings, handlers, receivers,
                   sock>>

-------------------------------------------------------------------------------
(* Data and replies *)

\* A data thread takes a packet or a token, and when it is done with it looks
\* at stopFlag.
TakeData(t) ==
    /\ data[t] = "waiting"
    /\ MRB_Data # << >>
    /\ MRB_Data' = Tail(MRB_Data)
    /\ data' = [data EXCEPT ![t] = "busy"]
    /\ UNCHANGED <<server, MRB_Request, requestMapperTo, mBuffer, worker, lost, receivers,
                   sock>>

DataDone(t) ==
    /\ data[t] = "busy"
    /\ data' = [data EXCEPT ![t] = IF stop = "running" THEN "waiting" ELSE "exited"]
    /\ UNCHANGED <<server, rings, worker, lost, receivers, sock>>

\* A worker that is done with a request looks at stopFlag.
Done == [NoWork EXCEPT !.pc = IF stop = "running" THEN "idle" ELSE "exited"]

\* A token has a random dejavu, of no connection.
TakeRequest(w) ==
    /\ worker[w].pc = "idle"
    /\ MRB_Request # << >>
    /\ worker' = [worker EXCEPT ![w] =
                    IF Head(MRB_Request).kind = "token" THEN Done
                    ELSE [NoWork EXCEPT !.pc = "lookup",
                                        !.client = Head(MRB_Request).client,
                                        !.dejavu = Head(MRB_Request).dejavu]]
    /\ MRB_Request' = Tail(MRB_Request)
    /\ UNCHANGED <<server, MRB_Data, requestMapperTo, mBuffer, data, lost, receivers, sock>>

\* A request whose connection is not found is dropped; a reply has any number
\* of packets.
LookupConnection(w) ==
    /\ worker[w].pc = "lookup"
    /\ \E n \in 1 .. ReplyPackets :
          LET conn == requestMapperTo[worker[w].dejavu]
          IN  worker' = [worker EXCEPT ![w] =
                           IF conn = None THEN Done
                           ELSE [@ EXCEPT !.pc = "reply", !.conn = conn, !.left = n]]
    /\ UNCHANGED <<server, rings, data, lost, receivers, sock>>


\* A connection of the pool that is not lost has room before long.
HasRoom(c) == IF c \in Pool THEN c \notin lost ELSE mBuffer[c] < SendCapacity

\* One packet of the reply; enqueueSend waits for room, open socket or not.
EnqueueSend(w) ==
    LET c == worker[w].conn
    IN  /\ worker[w].pc = "reply"
        /\ HasRoom(c)
        /\ mBuffer' = IF c \in Pool THEN mBuffer ELSE [mBuffer EXCEPT ![c] = @ + 1]
        /\ worker' = IF worker[w].left = 1 THEN [worker EXCEPT ![w] = Done]
                     ELSE [worker EXCEPT ![w].left = @ - 1]
        /\ UNCHANGED <<server, MRB_Data, MRB_Request, requestMapperTo, data, lost,
                       receivers, sock>>

\* The send thread takes nothing out once the socket is closed; a send to a
\* peer that has gone may fail, and then disconnects.
SendThread(c) ==
    /\ sock[c] \in {"open", "hungup"}
    /\ mBuffer[c] > 0
    /\ mBuffer' = [mBuffer EXCEPT ![c] = @ - 1]
    /\ \E s \in {sock[c], IF sock[c] = "hungup" THEN "closed" ELSE sock[c]} :
          sock' = [sock EXCEPT ![c] = s]
    /\ UNCHANGED <<server, MRB_Data, MRB_Request, requestMapperTo, handlers, receivers>>

\* RequestMap::clean, called by the status loop of runBob: an entry is older
\* than its period.
CleanEntry(d) ==
    /\ stop = "running"
    /\ requestMapperTo[d] # None
    /\ requestMapperTo' = [requestMapperTo EXCEPT ![d] = None]
    /\ UNCHANGED <<server, MRB_Data, MRB_Request, mBuffer, handlers, receivers, sock>>

-------------------------------------------------------------------------------
AcceptStep ==
    CreateFails \/ SpawnReceiver \/ AssignThread \/ AcceptLoopExits

\* Steps of the receiver of a client that wait for nobody but the rings.
ReceiverStep(c) ==
    \/ HandshakeDone(c)
    \/ HandshakeTimeout(c)
    \/ EnqueueData(c)
    \/ EnqueueRequest(c)
    \/ MapRequest(c)
    \/ ReceiverReturns(c)
    \/ ReceiverFinishes(c)

PoolStep(p) ==
    EnqueueData(p) \/ EnqueueRequest(p) \/ MapRequest(p) \/ PoolReturns(p)

WorkerStep(w) ==
    TakeRequest(w) \/ LookupConnection(w) \/ EnqueueSend(w)

CleanupStep == cleanupFinishedClients \/ CleanupExits

StopStep ==
    JoinProducers \/ WakeData \/ WakeRequest \/ StopBegins \/ StopSignals \/ StopJoins

\* Nothing happens once the process has died.
Next ==
    /\ ~terminated
    /\ \/ \E c \in Clients : AcceptConnection(c)
       \/ AcceptStep
       \/ \E c \in Clients : ReceiverStep(c)
       \/ \E p \in Pool : PoolStep(p)
       \/ \E c \in Conns, d \in Dejavus : ReceiveRequest(c, d)
       \/ \E c \in Conns : ReceiveData(c)
       \/ \E c \in Clients : ReceiveTimesOut(c)
       \/ \E p \in Pool : PoolLost(p)
       \/ \E c \in Clients : PeerCloses(c)
       \/ \E c \in Clients : SendThread(c)
       \/ CleanupStep
       \/ ExitRequested
       \/ StopStep
       \/ \E t \in DataThreads : TakeData(t) \/ DataDone(t)
       \/ \E w \in Workers : WorkerStep(w)
       \/ \E d \in Dejavus : CleanEntry(d)

\* Every thread is scheduled and peers read what they are sent or go away.
\* Nothing is assumed of when peers connect, send or go, and of the age of
\* entries in the map.
Fairness ==
    /\ WF_vars(~terminated /\ AcceptStep)
    /\ \A c \in Clients : WF_vars(~terminated /\ ReceiverStep(c))
    /\ \A p \in Pool : WF_vars(~terminated /\ PoolStep(p))
    /\ \A c \in Clients : WF_vars(~terminated /\ SendThread(c))
    /\ \A t \in DataThreads : WF_vars(~terminated /\ (TakeData(t) \/ DataDone(t)))
    /\ \A w \in Workers : WF_vars(~terminated /\ WorkerStep(w))
    /\ WF_vars(~terminated /\ CleanupStep)
    /\ WF_vars(~terminated /\ StopStep)

Spec == Init /\ [][Next]_vars /\ Fairness

-------------------------------------------------------------------------------
(* Properties *)

\* Type invariant of the server, the limiter, the threads and the rings.
TypeOK ==
    /\ stop \in {"running", "exiting", "waking", "stopping", "joining", "stopped"}
    /\ woken \in 0 .. 2 * Tokens
    /\ cleanup \in {"looping", "exited"}
    /\ accept \in [pc : {"accept", "create", "assign", "exited"},
                   client : Clients \cup {None}]
    /\ clients_ \subseteq Clients
    /\ ip_connections_ \in [Ips -> 0 .. max_per_ip_]
    /\ total_connections_ \in 0 .. max_global_
    /\ sock \in [Clients -> {"none", "open", "hungup", "closed"}]
    /\ thread \in [Conns -> {"none", "handshake", "timedout", "receive", "data", "enqueue",
                             "map", "return", "reset", "finished"}]
    /\ th \in [Clients -> {"none", "running", "joined"}]
    /\ stopFlag \subseteq Clients
    /\ packet \in [Conns -> Dejavus \cup {None}]
    /\ requestMapperTo \in [Dejavus -> Conns \cup {None}]
    /\ data \in [DataThreads -> {"waiting", "busy", "exited"}]
    /\ lost \subseteq Pool
    /\ mBuffer \in [Clients -> 0 .. SendCapacity]

\* The clients that hold a slot of the limiter.
Holders == clients_ \cup (IF accept.pc = "create" THEN {accept.client} ELSE {})

\* The ConnectionLimiter counts exactly the connections that are being accepted
\* or listed, in total and per address, whatever fails on the way: no slot is
\* released twice and none is kept by a connection that is no longer listed.
SlotsAreAccounted ==
    stop # "stopped" =>
        /\ total_connections_ = Cardinality(Holders)
        /\ \A i \in Ips : ip_connections_[i] = Cardinality({c \in Holders : IpOf[c] = i})

\* A worker waits for room in the ring of a connection that is closed.
Stuck(w) ==
    LET c == worker[w].conn
    IN  worker[w].pc = "reply" /\ ~HasRoom(c) /\ (c \in Pool \/ sock[c] = "closed")

\* A receiver, or runBob with its token, waits for room in MRB_Request, which no
\* worker will make.
RequestsBlocked ==
    /\ RequestFull
    /\ \A w \in Workers : Stuck(w) \/ worker[w].pc = "exited"
    /\ \/ \E c \in Conns : thread[c] = "enqueue"
       \/ stop = "waking" /\ woken < 2 * Tokens

\* The same in MRB_Data, whose threads have all returned.
DataBlocked ==
    /\ DataFull
    /\ \A t \in DataThreads : data[t] = "exited"
    /\ \/ \E c \in Conns : thread[c] = "data"
       \/ stop = "waking" /\ woken < 2 * Tokens

\* The slot of a peer that goes away comes back.  The exceptions: its handshake
\* timed out (the early return of the thread sets no finished flag), or no
\* thread is left to make room for the packet of a receiver.
SlotsComeBack ==
    \/ \A c \in Clients :
          []<>(sock[c] \in {"hungup", "closed"} =>
                  c \notin Holders \/ thread[c] = "timedout" \/ terminated)
    \/ <>[]RequestsBlocked
    \/ <>[]DataBlocked



\* A reply goes to the connection that made the request, or to another one that
\* used the same dejavu: entries of requestMapperTo outlive the requests and
\* the connections they were made for.
RepliesReachTheAsker ==
    \A w \in Workers :
        worker[w].pc = "reply" =>
            \/ worker[w].conn = worker[w].client
            \/ worker[w].dejavu \in asked[worker[w].conn]
===============================================================================
