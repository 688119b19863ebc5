--------------------------- MODULE PeerServerProofs ---------------------------
(***************************************************************************)
(* Proofs about PeerServer, for every number of connection attempts,       *)
(* addresses, workers and requests, every limit and every capacity.        *)
(*                                                                         *)
(* The argument: a connection is counted when it is accepted and stays a   *)
(* holder of its slot through the create step, the list of clients and its *)
(* clean-up, which drop it from exactly one of them each; a socket is      *)
(* accepted once, so no client is counted twice.  A reply goes to a        *)
(* connection found in requestMapperTo, where only the connection that     *)
(* used a dejavu is entered for it.                                        *)
(***************************************************************************)
EXTENDS PeerServer, FiniteSetTheorems, SequenceTheorems, TLAPS

-------------------------------------------------------------------------------
(* The inductive invariant *)

Requests == [kind : {"request"}, client : Conns, dejavu : Dejavus] \cup {Token}
Work == [pc : {"idle", "lookup", "reply", "exited"}, client : Conns \cup {None},
         dejavu : Dejavus \cup {None}, conn : Conns \cup {None}, left : Nat]

\* Types of the queues and the workers.
RoutingType ==
    /\ MRB_Request \in Seq(Requests)
    /\ worker \in [Workers -> Work]
    /\ asked \in [Conns -> SUBSET Dejavus]

\* The accept loop and the list of clients: a client is new at the create step and
\* comes from an accepted socket.
AcceptInv ==
    /\ accept.pc \in {"create", "assign"} => accept.client \in Clients
    /\ accept.pc = "create" =>
          /\ accept.client \notin clients_
          /\ sock[accept.client] # "none"
          /\ thread[accept.client] = "none"
    /\ \A c \in Clients : c \in clients_ \/ thread[c] # "none" => sock[c] # "none"
    /\ stop \in {"joining", "stopped"} => accept.pc = "exited" /\ cleanup = "exited"
    /\ IsFiniteSet(clients_)

\* A connection that has not finished its handshake has asked nothing and is sent
\* nothing.
FreshInv ==
    \A c \in Clients : thread[c] \in {"none", "handshake"} =>
        asked[c] = {} /\ mBuffer[c] = 0

\* Who is known for a dejavu has used it.
AskedInv ==
    /\ \A c \in Conns : thread[c] \in {"enqueue", "map"} =>
          packet[c] \in Dejavus /\ packet[c] \in asked[c]
    /\ \A d \in Dejavus : requestMapperTo[d] # None => d \in asked[requestMapperTo[d]]
    /\ \A w \in Workers :
          /\ worker[w].pc \in {"lookup", "reply"} => worker[w].dejavu \in Dejavus
          /\ worker[w].pc = "reply" =>
                /\ worker[w].conn \in Conns
                /\ worker[w].dejavu \in asked[worker[w].conn]
                /\ worker[w].left >= 1

IInv ==
    /\ TypeOK
    /\ RoutingType
    /\ AcceptInv
    /\ SlotsAreAccounted
    /\ FreshInv
    /\ AskedInv

-------------------------------------------------------------------------------
(* The limiter *)

\* The connections of the given ones that come from an address.
From(cs, i) == {c \in cs : IpOf[c] = i}

\* Taking some members out of a finite set takes their number off its size.
LEMMA Dropped ==
    ASSUME NEW S, IsFiniteSet(S), NEW D, D \subseteq S
    PROVE  /\ IsFiniteSet(S \ D)
           /\ Cardinality(S) \in Nat /\ Cardinality(D) \in Nat
           /\ Cardinality(S \ D) \in Nat
           /\ Cardinality(S \ D) = Cardinality(S) - Cardinality(D)
<1>1. IsFiniteSet(D)
  BY FS_Subset
<1>2. S \cap D = D
  OBVIOUS
<1>3. IsFiniteSet(S \ D) /\ Cardinality(S \ D) = Cardinality(S) - Cardinality(D)
  BY <1>2, FS_Difference
<1>4. Cardinality(S) \in Nat /\ Cardinality(D) \in Nat /\ Cardinality(S \ D) \in Nat
  BY <1>1, <1>3, FS_CardinalityType
<1> QED
  BY <1>3, <1>4

\* release, given connections that are counted: the counters are those of the
\* connections that stay, and no counter wraps below zero.
LEMMA Release ==
    ASSUME TypeOK, SlotsAreAccounted, stop # "stopped", IsFiniteSet(Holders),
           NEW cs, cs \subseteq Holders, release(cs)
    PROVE  /\ total_connections_' \in 0 .. max_global_
           /\ total_connections_' = Cardinality(Holders \ cs)
           /\ ip_connections_' \in [Ips -> 0 .. max_per_ip_]
           /\ \A i \in Ips : ip_connections_'[i] = Cardinality(From(Holders \ cs, i))
<1>1. /\ total_connections_ = Cardinality(Holders)
      /\ \A i \in Ips : ip_connections_[i] = Cardinality(From(Holders, i))
  BY DEF SlotsAreAccounted, From
<1>2. /\ total_connections_ \in 0 .. max_global_
      /\ ip_connections_ \in [Ips -> 0 .. max_per_ip_]
  BY DEF TypeOK
<1>3. /\ total_connections_' = total_connections_ - Cardinality(cs)
      /\ ip_connections_' = [i \in Ips |-> ip_connections_[i] - Cardinality(From(cs, i))]
  BY DEF release, From
<1>4. /\ Cardinality(cs) \in Nat /\ Cardinality(Holders \ cs) \in Nat
      /\ Cardinality(Holders \ cs) = Cardinality(Holders) - Cardinality(cs)
  BY Dropped
<1>5. ASSUME NEW i \in Ips
      PROVE  /\ ip_connections_'[i] = Cardinality(From(Holders \ cs, i))
             /\ ip_connections_'[i] \in 0 .. max_per_ip_
  <2>1. From(cs, i) \subseteq From(Holders, i)
    BY DEF From
  <2>2. IsFiniteSet(From(Holders, i))
    BY FS_Subset DEF From
  <2>3. From(Holders \ cs, i) = From(Holders, i) \ From(cs, i)
    BY DEF From
  <2>4. /\ Cardinality(From(cs, i)) \in Nat
        /\ Cardinality(From(Holders \ cs, i)) \in Nat
        /\ Cardinality(From(Holders \ cs, i))
              = Cardinality(From(Holders, i)) - Cardinality(From(cs, i))
    BY <2>1, <2>2, <2>3, Dropped
  <2>5. ip_connections_'[i] = ip_connections_[i] - Cardinality(From(cs, i))
    BY <1>3
  <2>6. ip_connections_[i] \in 0 .. max_per_ip_
    BY <1>2
  <2> QED
    BY <1>1, <2>4, <2>5, <2>6, ServerAssumption
<1>6. total_connections_' \in 0 .. max_global_
  BY <1>1, <1>2, <1>3, <1>4, ServerAssumption
<1>7. ip_connections_' \in [Ips -> 0 .. max_per_ip_]
  BY <1>3, <1>5
<1> QED
  BY <1>1, <1>3, <1>4, <1>5, <1>6, <1>7

\* tryAccept: one more connection is counted, within the limits.
LEMMA Accept ==
    ASSUME TypeOK, SlotsAreAccounted, stop # "stopped", IsFiniteSet(Holders),
           NEW c \in Clients, c \notin Holders, tryAccept(IpOf[c]),
           ip_connections_' = [ip_connections_ EXCEPT ![IpOf[c]] = @ + 1],
           total_connections_' = total_connections_ + 1
    PROVE  /\ total_connections_' \in 0 .. max_global_
           /\ total_connections_' = Cardinality(Holders \cup {c})
           /\ ip_connections_' \in [Ips -> 0 .. max_per_ip_]
           /\ \A i \in Ips : ip_connections_'[i] = Cardinality(From(Holders \cup {c}, i))
<1>1. /\ total_connections_ = Cardinality(Holders)
      /\ \A i \in Ips : ip_connections_[i] = Cardinality(From(Holders, i))
  BY DEF SlotsAreAccounted, From
<1>2. /\ total_connections_ \in 0 .. max_global_
      /\ ip_connections_ \in [Ips -> 0 .. max_per_ip_]
      /\ IpOf[c] \in Ips
  BY ServerAssumption DEF TypeOK
<1>3. Cardinality(Holders \cup {c}) = Cardinality(Holders) + 1
  BY FS_AddElement
<1>4. ASSUME NEW i \in Ips
      PROVE  ip_connections_'[i] = Cardinality(From(Holders \cup {c}, i))
  <2>1. IsFiniteSet(From(Holders, i))
    BY FS_Subset DEF From
  <2>2. CASE i = IpOf[c]
    <3>1. From(Holders \cup {c}, i) = From(Holders, i) \cup {c}
      BY <2>2 DEF From
    <3>2. c \notin From(Holders, i)
      BY DEF From
    <3>3. Cardinality(From(Holders, i) \cup {c}) = Cardinality(From(Holders, i)) + 1
      BY <2>1, <3>2, FS_AddElement
    <3> QED
      BY <1>1, <1>2, <2>2, <3>1, <3>3
  <2>3. CASE i # IpOf[c]
    <3>1. From(Holders \cup {c}, i) = From(Holders, i)
      BY <2>3 DEF From
    <3> QED
      BY <1>1, <1>2, <2>3, <3>1
  <2> QED
    BY <2>2, <2>3
<1>5. total_connections_' \in 0 .. max_global_
  BY <1>2, ServerAssumption DEF tryAccept
<1>6. ip_connections_' \in [Ips -> 0 .. max_per_ip_]
  BY <1>2, ServerAssumption DEF tryAccept
<1> QED
  BY <1>1, <1>3, <1>4, <1>5, <1>6

\* The counters after an action that keeps who is counted, or that drops or adds
\* the given connections.
LEMMA Counted ==
    ASSUME NEW H, Holders' = H,
           total_connections_' = Cardinality(H),
           \A i \in Ips : ip_connections_'[i] = Cardinality(From(H, i))
    PROVE  SlotsAreAccounted'
BY DEF SlotsAreAccounted, From

\* Who holds a slot, and that they are finitely many.
LEMMA HoldersFinite ==
    ASSUME TypeOK, AcceptInv
    PROVE  /\ IsFiniteSet(Holders)
           /\ accept.pc # "create" => Holders = clients_
           /\ accept.pc = "create" => Holders = clients_ \cup {accept.client}
<1>1. IsFiniteSet(clients_) /\ IsFiniteSet(clients_ \cup {accept.client})
  BY FS_AddElement DEF AcceptInv
<1> QED
  BY <1>1 DEF Holders

\* Each step of the three operations that change who is counted.
LEMMA AcceptCounts ==
    ASSUME IInv, NEW c \in Clients, AcceptConnection(c), tryAccept(IpOf[c])
    PROVE  /\ total_connections_' \in 0 .. max_global_
           /\ ip_connections_' \in [Ips -> 0 .. max_per_ip_]
           /\ SlotsAreAccounted'
<1>0. TypeOK /\ AcceptInv /\ SlotsAreAccounted
  BY DEF IInv
<1>1. /\ accept.pc = "accept" /\ sock[c] = "none" /\ stop # "stopped"
      /\ accept' = [pc |-> "create", client |-> c]
      /\ ip_connections_' = [ip_connections_ EXCEPT ![IpOf[c]] = @ + 1]
      /\ total_connections_' = total_connections_ + 1
      /\ clients_' = clients_
  BY DEF AcceptConnection, Running
<1>2. Holders = clients_ /\ IsFiniteSet(Holders)
  BY <1>0, <1>1, HoldersFinite
<1>3. c \notin Holders
  BY <1>0, <1>1, <1>2 DEF AcceptInv
<1>4. Holders' = Holders \cup {c}
  BY <1>1, <1>2 DEF Holders
<1>5. /\ total_connections_' \in 0 .. max_global_
      /\ total_connections_' = Cardinality(Holders \cup {c})
      /\ ip_connections_' \in [Ips -> 0 .. max_per_ip_]
      /\ \A i \in Ips : ip_connections_'[i] = Cardinality(From(Holders \cup {c}, i))
  BY <1>0, <1>1, <1>2, <1>3, Accept
<1>6. SlotsAreAccounted'
  BY <1>4, <1>5, Counted
<1> QED
  BY <1>5, <1>6

LEMMA CreateFailsCounts ==
    ASSUME IInv, CreateFails
    PROVE  /\ total_connections_' \in 0 .. max_global_
           /\ ip_connections_' \in [Ips -> 0 .. max_per_ip_]
           /\ SlotsAreAccounted'
<1>0. TypeOK /\ AcceptInv /\ SlotsAreAccounted
  BY DEF IInv
<1>1. /\ accept.pc = "create" /\ release({accept.client})
      /\ accept' = [pc |-> "accept", client |-> None]
      /\ clients_' = clients_
  BY DEF CreateFails
<1>2. /\ Holders = clients_ \cup {accept.client} /\ IsFiniteSet(Holders)
      /\ accept.client \notin clients_ /\ stop # "stopped"
  BY <1>0, <1>1, HoldersFinite DEF AcceptInv
<1>3. Holders' = Holders \ {accept.client}
  BY <1>1, <1>2 DEF Holders
<1>4. {accept.client} \subseteq Holders
  BY <1>2
<1>5. /\ total_connections_' \in 0 .. max_global_
      /\ total_connections_' = Cardinality(Holders \ {accept.client})
      /\ ip_connections_' \in [Ips -> 0 .. max_per_ip_]
      /\ \A i \in Ips :
            ip_connections_'[i] = Cardinality(From(Holders \ {accept.client}, i))
  BY <1>0, <1>1, <1>2, <1>4, Release
<1>6. SlotsAreAccounted'
  BY <1>3, <1>5, Counted
<1> QED
  BY <1>5, <1>6

LEMMA CleanupCounts ==
    ASSUME IInv, cleanupFinishedClients
    PROVE  /\ total_connections_' \in 0 .. max_global_
           /\ ip_connections_' \in [Ips -> 0 .. max_per_ip_]
           /\ SlotsAreAccounted'
<1> DEFINE done == {c \in clients_ : thread[c] = "finished"}
<1>0. TypeOK /\ AcceptInv /\ SlotsAreAccounted
  BY DEF IInv
<1>1. /\ cleanup = "looping" /\ release(done)
      /\ clients_' = clients_ \ done /\ accept' = accept
  BY DEF cleanupFinishedClients
<1>2. IsFiniteSet(Holders) /\ stop # "stopped" /\ done \subseteq Holders
  BY <1>0, <1>1, HoldersFinite DEF AcceptInv, Holders
<1>3. accept.pc = "create" => accept.client \notin done
  BY <1>0 DEF AcceptInv
<1>4. Holders' = Holders \ done
  <2> HIDE DEF done
  <2> QED
    BY <1>1, <1>3 DEF Holders
<1> HIDE DEF done
<1>5. /\ total_connections_' \in 0 .. max_global_
      /\ total_connections_' = Cardinality(Holders \ done)
      /\ ip_connections_' \in [Ips -> 0 .. max_per_ip_]
      /\ \A i \in Ips : ip_connections_'[i] = Cardinality(From(Holders \ done, i))
  BY <1>0, <1>1, <1>2, Release
<1>6. SlotsAreAccounted'
  BY <1>4, <1>5, Counted
<1> QED
  BY <1>5, <1>6

-------------------------------------------------------------------------------
(* The steps *)

\* Every step keeps the types.
LEMMA TypeOKStep ==
    ASSUME IInv, [Next]_vars
    PROVE  TypeOK'
<1> USE ServerAssumption
    DEF server, main, limiter, rings, handlers, receivers, Conns,
        TypeOK
<1>0. TypeOK /\ RoutingType /\ AcceptInv /\ SlotsAreAccounted /\ FreshInv /\ AskedInv
  BY DEF IInv
<1>1. ASSUME NEW c \in Clients, AcceptConnection(c)
      PROVE  TypeOK'
  <2>1. CASE tryAccept(IpOf[c])
    <3>1. /\ total_connections_' \in 0 .. max_global_
          /\ ip_connections_' \in [Ips -> 0 .. max_per_ip_]
      BY <1>1, <2>1, AcceptCounts
    <3>2. /\ accept' \in [pc : {"accept", "create", "assign", "exited"},
                          client : Clients \cup {None}]
          /\ sock' \in [Clients -> {"none", "open", "hungup", "closed"}]
      <4>1. /\ accept' = [pc |-> "create", client |-> c]
            /\ sock' = [sock EXCEPT ![c] = "open"]
        BY <1>1, <2>1 DEF AcceptConnection
      <4> QED
        BY <1>0, <4>1
    <3>3. UNCHANGED <<main, cleanup, clients_, th, terminated, rings, handlers, receivers>>
      BY <1>1 DEF AcceptConnection
    <3> QED
      BY <1>0, <3>1, <3>2, <3>3
  <2>2. CASE ~tryAccept(IpOf[c])
    BY <1>0, <1>1, <2>2 DEF AcceptConnection
  <2> QED
    BY <2>1, <2>2
<1>2. CASE CreateFails
  <2>1. /\ total_connections_' \in 0 .. max_global_
        /\ ip_connections_' \in [Ips -> 0 .. max_per_ip_]
    BY <1>2, CreateFailsCounts
  <2>2. accept.client \in Clients
    BY <1>0, <1>2 DEF CreateFails, AcceptInv
  <2> QED
    BY <1>0, <1>2, <2>1, <2>2 DEF CreateFails
<1>3. CASE SpawnReceiver
  <2>1. accept.client \in Clients
    BY <1>0, <1>3 DEF SpawnReceiver, AcceptInv
  <2>2. accept' \in [pc : {"accept", "create", "assign", "exited"},
                     client : Clients \cup {None}]
    BY <1>0, <1>3 DEF SpawnReceiver
  <2> QED
    BY <1>0, <1>3, <2>1, <2>2 DEF SpawnReceiver
<1>4. CASE AssignThread
  BY <1>0, <1>4 DEF AssignThread
<1>5. CASE AcceptLoopExits
  BY <1>0, <1>5 DEF AcceptLoopExits, Running
<1>6. ASSUME NEW c \in Clients, HandshakeDone(c)
      PROVE  TypeOK'
  <2>1. mBuffer[c] = 0
    BY <1>0, <1>6 DEF HandshakeDone, FreshInv
  <2>2. mBuffer' \in [Clients -> 0 .. SendCapacity]
    BY <1>0, <1>6, <2>1 DEF HandshakeDone, SendHandshake
  <2> QED
    BY <1>0, <1>6, <2>2 DEF HandshakeDone, Goto, LoopTop
<1>7. ASSUME NEW c \in Clients, HandshakeTimeout(c)
      PROVE  TypeOK'
  <2>1. mBuffer[c] = 0
    BY <1>0, <1>7 DEF HandshakeTimeout, FreshInv
  <2>2. mBuffer' \in [Clients -> 0 .. SendCapacity]
    BY <1>0, <1>7, <2>1 DEF HandshakeTimeout, SendHandshake
  <2> QED
    BY <1>0, <1>7, <2>2 DEF HandshakeTimeout, Goto, LoopTop
<1>8. ASSUME NEW c \in Conns, NEW d \in Dejavus, ReceiveRequest(c, d)
      PROVE  TypeOK'
  BY <1>0, <1>8 DEF ReceiveRequest, Receive, Goto
<1>9. ASSUME NEW c \in Conns, EnqueueRequest(c)
      PROVE  TypeOK'
  BY <1>0, <1>9 DEF EnqueueRequest, Request, Goto
<1>10. ASSUME NEW c \in Conns, MapRequest(c)
      PROVE  TypeOK'
  BY <1>0, <1>10 DEF MapRequest, Added, Goto, LoopTop
<1>11. ASSUME NEW c \in Clients, ReceiverReturns(c)
      PROVE  TypeOK'
  BY <1>0, <1>11 DEF ReceiverReturns, Goto
<1>12. ASSUME NEW c \in Clients, ReceiverFinishes(c)
      PROVE  TypeOK'
  BY <1>0, <1>12 DEF ReceiverFinishes, Goto
<1>13. ASSUME NEW c \in Clients, PeerCloses(c)
      PROVE  TypeOK'
  BY <1>0, <1>13 DEF PeerCloses
<1>14. CASE cleanupFinishedClients
  <2>1. /\ total_connections_' \in 0 .. max_global_
        /\ ip_connections_' \in [Ips -> 0 .. max_per_ip_]
    BY <1>14, CleanupCounts
  <2> QED
    BY <1>0, <1>14, <2>1 DEF cleanupFinishedClients, Joined
<1>15. CASE CleanupExits
  BY <1>0, <1>15 DEF CleanupExits
<1>16. CASE ExitRequested
  BY <1>0, <1>16 DEF ExitRequested
<1>17. CASE StopBegins
  BY <1>0, <1>17 DEF StopBegins
<1>18. CASE StopSignals
  BY <1>0, <1>18 DEF StopSignals
<1>19. CASE StopJoins
  BY <1>0, <1>19 DEF StopJoins, Joined
<1>20. ASSUME NEW w \in Workers, TakeRequest(w)
      PROVE  TypeOK'
  BY <1>0, <1>20 DEF TakeRequest, Done, NoWork
<1>21. ASSUME NEW w \in Workers, LookupConnection(w)
      PROVE  TypeOK'
  BY <1>0, <1>21 DEF LookupConnection, Done, NoWork
<1>22. ASSUME NEW w \in Workers, EnqueueSend(w)
      PROVE  TypeOK'
  <2>1. worker[w].conn \in Conns
    BY <1>0, <1>22 DEF EnqueueSend, AskedInv
  <2>2. mBuffer' \in [Clients -> 0 .. SendCapacity]
    <3>1. CASE worker[w].conn \in Pool
      BY <1>0, <1>22, <3>1 DEF EnqueueSend
    <3>2. CASE worker[w].conn \notin Pool
      <4>1. worker[w].conn \in Clients /\ mBuffer[worker[w].conn] < SendCapacity
        BY <1>22, <2>1, <3>2 DEF EnqueueSend, HasRoom
      <4>2. mBuffer' = [mBuffer EXCEPT ![worker[w].conn] = @ + 1]
        BY <1>22, <3>2 DEF EnqueueSend
      <4> QED
        BY <1>0, <4>1, <4>2
    <3> QED
      BY <3>1, <3>2
  <2> QED
    BY <1>0, <1>22, <2>2 DEF EnqueueSend
<1>23. ASSUME NEW c \in Conns, ReceiveData(c)
      PROVE  TypeOK'
  BY <1>0, <1>23 DEF ReceiveData, Receive, Goto
<1>24. ASSUME NEW c \in Clients, SendThread(c)
      PROVE  TypeOK'
  BY <1>0, <1>24 DEF SendThread
<1>25. ASSUME NEW d \in Dejavus, CleanEntry(d)
      PROVE  TypeOK'
  BY <1>0, <1>25 DEF CleanEntry
<1>26. CASE UNCHANGED vars
  BY <1>0, <1>26 DEF vars
<1>27. ASSUME NEW c \in Conns, EnqueueData(c)
      PROVE  TypeOK'
  BY <1>0, <1>27 DEF EnqueueData, Goto, LoopTop
<1>28. ASSUME NEW c \in Clients, ReceiveTimesOut(c)
      PROVE  TypeOK'
  BY <1>0, <1>28 DEF ReceiveTimesOut, Goto
<1>29. ASSUME NEW p \in Pool, PoolReturns(p)
      PROVE  TypeOK'
  BY <1>0, <1>29 DEF PoolReturns, Goto
<1>30. ASSUME NEW p \in Pool, PoolLost(p)
      PROVE  TypeOK'
  BY <1>0, <1>30 DEF PoolLost
<1>31. CASE JoinProducers
  BY <1>0, <1>31 DEF JoinProducers
<1>32. CASE WakeData
  BY <1>0, <1>32 DEF WakeData
<1>33. CASE WakeRequest
  BY <1>0, <1>33 DEF WakeRequest
<1>34. ASSUME NEW t \in DataThreads, TakeData(t)
      PROVE  TypeOK'
  BY <1>0, <1>34 DEF TakeData
<1>35. ASSUME NEW t \in DataThreads, DataDone(t)
      PROVE  TypeOK'
  BY <1>0, <1>35 DEF DataDone
<1> QED
  BY <1>1, <1>2, <1>3, <1>4, <1>5, <1>6, <1>7, <1>8, <1>9, <1>10, <1>11, <1>12,
     <1>13, <1>14, <1>15, <1>16, <1>17, <1>18, <1>19, <1>20, <1>21, <1>22, <1>23,
     <1>24, <1>25, <1>26, <1>27, <1>28, <1>29, <1>30, <1>31, <1>32, <1>33, <1>34,
     <1>35 DEF Next, Conns, AcceptStep, ReceiverStep, PoolStep, WorkerStep,
     CleanupStep, StopStep

\* Every step keeps the types of the queues and the workers.
LEMMA RoutingStep ==
    ASSUME IInv, [Next]_vars
    PROVE  RoutingType'
<1> USE ServerAssumption
    DEF server, main, limiter, rings, handlers, receivers, Conns,
        TypeOK, RoutingType, Requests, Work, AskedInv
<1>0. TypeOK /\ RoutingType /\ AcceptInv /\ SlotsAreAccounted /\ FreshInv /\ AskedInv
  BY DEF IInv
<1>1. ASSUME NEW c \in Clients, AcceptConnection(c)
      PROVE  RoutingType'
  BY <1>0, <1>1 DEF AcceptConnection, tryAccept, Running
<1>2. CASE CreateFails
  BY <1>0, <1>2 DEF CreateFails, release
<1>3. CASE SpawnReceiver
  BY <1>0, <1>3 DEF SpawnReceiver
<1>4. CASE AssignThread
  BY <1>0, <1>4 DEF AssignThread
<1>5. CASE AcceptLoopExits
  BY <1>0, <1>5 DEF AcceptLoopExits, Running
<1>6. ASSUME NEW c \in Clients, HandshakeDone(c)
      PROVE  RoutingType'
  BY <1>0, <1>6 DEF HandshakeDone, SendHandshake, Goto, LoopTop
<1>7. ASSUME NEW c \in Clients, HandshakeTimeout(c)
      PROVE  RoutingType'
  BY <1>0, <1>7 DEF HandshakeTimeout, SendHandshake, Goto
<1>8. ASSUME NEW c \in Conns, NEW d \in Dejavus, ReceiveRequest(c, d)
      PROVE  RoutingType'
  BY <1>0, <1>8 DEF ReceiveRequest, Receive, Goto
<1>9. ASSUME NEW c \in Conns, EnqueueRequest(c)
      PROVE  RoutingType'
  BY <1>0, <1>9 DEF EnqueueRequest, Request, Goto
<1>10. ASSUME NEW c \in Conns, MapRequest(c)
      PROVE  RoutingType'
  BY <1>0, <1>10 DEF MapRequest, Added, Goto, LoopTop
<1>11. ASSUME NEW c \in Clients, ReceiverReturns(c)
      PROVE  RoutingType'
  BY <1>0, <1>11 DEF ReceiverReturns, Goto
<1>12. ASSUME NEW c \in Clients, ReceiverFinishes(c)
      PROVE  RoutingType'
  BY <1>0, <1>12 DEF ReceiverFinishes, Goto
<1>13. ASSUME NEW c \in Clients, PeerCloses(c)
      PROVE  RoutingType'
  BY <1>0, <1>13 DEF PeerCloses
<1>14. CASE cleanupFinishedClients
  BY <1>0, <1>14 DEF cleanupFinishedClients, Joined, release
<1>15. CASE CleanupExits
  BY <1>0, <1>15 DEF CleanupExits
<1>16. CASE ExitRequested
  BY <1>0, <1>16 DEF ExitRequested
<1>17. CASE StopBegins
  BY <1>0, <1>17 DEF StopBegins
<1>18. CASE StopSignals
  BY <1>0, <1>18 DEF StopSignals
<1>19. CASE StopJoins
  BY <1>0, <1>19 DEF StopJoins, Joined
<1>20. ASSUME NEW w \in Workers, TakeRequest(w)
      PROVE  RoutingType'
  <2>1. Head(MRB_Request) \in Requests /\ Tail(MRB_Request) \in Seq(Requests)
    BY <1>0, <1>20, HeadTailProperties DEF TakeRequest
  <2>2. worker'[w] \in Work
    <3>1. CASE Head(MRB_Request).kind = "token"
      BY <1>0, <1>20, <3>1 DEF TakeRequest, Done, NoWork, Work
    <3>2. CASE Head(MRB_Request).kind # "token"
      <4>1. Head(MRB_Request).client \in Conns /\ Head(MRB_Request).dejavu \in Dejavus
        BY <2>1, <3>2 DEF Requests, Token
      <4> QED
        BY <1>0, <1>20, <3>2, <4>1 DEF TakeRequest, NoWork, Work
    <3> QED
      BY <3>1, <3>2
  <2>3. worker' \in [Workers -> Work]
    BY <1>0, <1>20, <2>2 DEF TakeRequest
  <2> QED
    BY <1>0, <1>20, <2>1, <2>3 DEF TakeRequest
<1>21. ASSUME NEW w \in Workers, LookupConnection(w)
      PROVE  RoutingType'
  <2>1. worker[w] \in Work /\ worker[w].dejavu \in Dejavus
    BY <1>0, <1>21 DEF LookupConnection, AskedInv
  <2>2. requestMapperTo[worker[w].dejavu] \in Conns \cup {None}
    BY <1>0, <2>1 DEF TypeOK
  <2>3. PICK n \in 1 .. ReplyPackets :
           worker' = [worker EXCEPT ![w] =
                        IF requestMapperTo[worker[w].dejavu] = None THEN Done
                        ELSE [@ EXCEPT !.pc = "reply",
                                       !.conn = requestMapperTo[worker[w].dejavu],
                                       !.left = n]]
    BY <1>21 DEF LookupConnection
  <2>4. n \in Nat /\ Done \in Work
    BY DEF Done, NoWork, Work
  <2>5. worker'[w] \in Work
    <3>1. CASE requestMapperTo[worker[w].dejavu] = None
      BY <1>0, <2>3, <2>4, <3>1
    <3>2. CASE requestMapperTo[worker[w].dejavu] # None
      <4> DEFINE conn == requestMapperTo[worker[w].dejavu]
      <4>1. worker'[w] = [worker[w] EXCEPT !.pc = "reply", !.conn = conn, !.left = n]
        BY <1>0, <2>3, <3>2
      <4>2. conn \in Conns
        BY <2>2, <3>2
      <4> HIDE DEF conn
      <4> QED
        BY <2>1, <2>4, <4>1, <4>2 DEF Work
    <3> QED
      BY <3>1, <3>2
  <2>6. worker' \in [Workers -> Work]
    BY <1>0, <2>3, <2>5
  <2> QED
    BY <1>0, <1>21, <2>6 DEF LookupConnection
<1>22. ASSUME NEW w \in Workers, EnqueueSend(w)
      PROVE  RoutingType'
  <2>1. /\ worker[w] \in Work /\ worker[w].dejavu \in Dejavus
        /\ worker[w].conn \in Conns /\ worker[w].left >= 1
    BY <1>0, <1>22 DEF EnqueueSend, AskedInv
  <2>2. worker[w].left \in Nat
    BY <2>1 DEF Work
  <2>3. worker'[w] \in Work
    <3>1. CASE worker[w].left = 1
      BY <1>0, <1>22, <3>1 DEF EnqueueSend, Done, NoWork, Work
    <3>2. CASE worker[w].left # 1
      <4>1. worker'[w] = [worker[w] EXCEPT !.left = @ - 1]
        BY <1>0, <1>22, <3>2 DEF EnqueueSend
      <4>2. worker[w].left - 1 \in Nat
        BY <2>1, <2>2
      <4> QED
        BY <2>1, <4>1, <4>2 DEF Work
    <3> QED
      BY <3>1, <3>2
  <2>4. worker' \in [Workers -> Work]
    BY <1>0, <1>22, <2>3 DEF EnqueueSend
  <2> QED
    BY <1>0, <1>22, <2>4 DEF EnqueueSend
<1>23. ASSUME NEW c \in Conns, ReceiveData(c)
      PROVE  RoutingType'
  BY <1>0, <1>23 DEF ReceiveData, Receive, Goto
<1>24. ASSUME NEW c \in Clients, SendThread(c)
      PROVE  RoutingType'
  BY <1>0, <1>24 DEF SendThread
<1>25. ASSUME NEW d \in Dejavus, CleanEntry(d)
      PROVE  RoutingType'
  BY <1>0, <1>25 DEF CleanEntry
<1>26. CASE UNCHANGED vars
  BY <1>0, <1>26 DEF vars
<1>27. ASSUME NEW c \in Conns, EnqueueData(c)
      PROVE  RoutingType'
  BY <1>0, <1>27 DEF EnqueueData, Goto, LoopTop
<1>28. ASSUME NEW c \in Clients, ReceiveTimesOut(c)
      PROVE  RoutingType'
  BY <1>0, <1>28 DEF ReceiveTimesOut, Goto
<1>29. ASSUME NEW p \in Pool, PoolReturns(p)
      PROVE  RoutingType'
  BY <1>0, <1>29 DEF PoolReturns, Goto
<1>30. ASSUME NEW p \in Pool, PoolLost(p)
      PROVE  RoutingType'
  BY <1>0, <1>30 DEF PoolLost
<1>31. CASE JoinProducers
  BY <1>0, <1>31 DEF JoinProducers
<1>32. CASE WakeData
  BY <1>0, <1>32 DEF WakeData
<1>33. CASE WakeRequest
  BY <1>0, <1>33 DEF WakeRequest
<1>34. ASSUME NEW t \in DataThreads, TakeData(t)
      PROVE  RoutingType'
  BY <1>0, <1>34 DEF TakeData
<1>35. ASSUME NEW t \in DataThreads, DataDone(t)
      PROVE  RoutingType'
  BY <1>0, <1>35 DEF DataDone
<1> QED
  BY <1>1, <1>2, <1>3, <1>4, <1>5, <1>6, <1>7, <1>8, <1>9, <1>10, <1>11, <1>12,
     <1>13, <1>14, <1>15, <1>16, <1>17, <1>18, <1>19, <1>20, <1>21, <1>22, <1>23,
     <1>24, <1>25, <1>26, <1>27, <1>28, <1>29, <1>30, <1>31, <1>32, <1>33, <1>34,
     <1>35 DEF Next, Conns, AcceptStep, ReceiverStep, PoolStep, WorkerStep,
     CleanupStep, StopStep

\* Every step keeps the accept loop in order.
LEMMA AcceptStepKeeps ==
    ASSUME IInv, [Next]_vars
    PROVE  AcceptInv'
<1> USE ServerAssumption
    DEF server, main, limiter, rings, handlers, receivers, Conns,
        TypeOK, AcceptInv
<1>0. TypeOK /\ RoutingType /\ AcceptInv /\ SlotsAreAccounted /\ FreshInv /\ AskedInv
  BY DEF IInv
<1>1. ASSUME NEW c \in Clients, AcceptConnection(c)
      PROVE  AcceptInv'
  BY <1>0, <1>1 DEF AcceptConnection, tryAccept, Running
<1>2. CASE CreateFails
  BY <1>0, <1>2 DEF CreateFails, release
<1>3. CASE SpawnReceiver
  <2>1. IsFiniteSet(clients_ \cup {accept.client})
    BY <1>0, FS_AddElement
  <2> QED
    BY <1>0, <1>3, <2>1 DEF SpawnReceiver
<1>4. CASE AssignThread
  BY <1>0, <1>4 DEF AssignThread
<1>5. CASE AcceptLoopExits
  BY <1>0, <1>5 DEF AcceptLoopExits, Running
<1>6. ASSUME NEW c \in Clients, HandshakeDone(c)
      PROVE  AcceptInv'
  BY <1>0, <1>6 DEF HandshakeDone, SendHandshake, Goto, LoopTop
<1>7. ASSUME NEW c \in Clients, HandshakeTimeout(c)
      PROVE  AcceptInv'
  BY <1>0, <1>7 DEF HandshakeTimeout, SendHandshake, Goto
<1>8. ASSUME NEW c \in Conns, NEW d \in Dejavus, ReceiveRequest(c, d)
      PROVE  AcceptInv'
  BY <1>0, <1>8 DEF ReceiveRequest, Receive, Goto
<1>9. ASSUME NEW c \in Conns, EnqueueRequest(c)
      PROVE  AcceptInv'
  BY <1>0, <1>9 DEF EnqueueRequest, Request, Goto
<1>10. ASSUME NEW c \in Conns, MapRequest(c)
      PROVE  AcceptInv'
  BY <1>0, <1>10 DEF MapRequest, Added, Goto, LoopTop
<1>11. ASSUME NEW c \in Clients, ReceiverReturns(c)
      PROVE  AcceptInv'
  BY <1>0, <1>11 DEF ReceiverReturns, Goto
<1>12. ASSUME NEW c \in Clients, ReceiverFinishes(c)
      PROVE  AcceptInv'
  BY <1>0, <1>12 DEF ReceiverFinishes, Goto
<1>13. ASSUME NEW c \in Clients, PeerCloses(c)
      PROVE  AcceptInv'
  BY <1>0, <1>13 DEF PeerCloses
<1>14. CASE cleanupFinishedClients
  <2>1. IsFiniteSet(clients_') /\ clients_' \subseteq clients_
    BY <1>0, <1>14, FS_Subset DEF cleanupFinishedClients
  <2> QED
    BY <1>0, <1>14, <2>1 DEF cleanupFinishedClients
<1>15. CASE CleanupExits
  BY <1>0, <1>15 DEF CleanupExits
<1>16. CASE ExitRequested
  BY <1>0, <1>16 DEF ExitRequested
<1>17. CASE StopBegins
  BY <1>0, <1>17 DEF StopBegins
<1>18. CASE StopSignals
  BY <1>0, <1>18 DEF StopSignals
<1>19. CASE StopJoins
  <2>1. IsFiniteSet(clients_')
    BY <1>19, FS_EmptySet DEF StopJoins
  <2> QED
    BY <1>0, <1>19, <2>1 DEF StopJoins
<1>20. ASSUME NEW w \in Workers, TakeRequest(w)
      PROVE  AcceptInv'
  BY <1>0, <1>20 DEF TakeRequest, Done, NoWork
<1>21. ASSUME NEW w \in Workers, LookupConnection(w)
      PROVE  AcceptInv'
  BY <1>0, <1>21 DEF LookupConnection, Done, NoWork
<1>22. ASSUME NEW w \in Workers, EnqueueSend(w)
      PROVE  AcceptInv'
  BY <1>0, <1>22 DEF EnqueueSend, HasRoom, Done, NoWork
<1>23. ASSUME NEW c \in Conns, ReceiveData(c)
      PROVE  AcceptInv'
  BY <1>0, <1>23 DEF ReceiveData, Receive, Goto
<1>24. ASSUME NEW c \in Clients, SendThread(c)
      PROVE  AcceptInv'
  BY <1>0, <1>24 DEF SendThread
<1>25. ASSUME NEW d \in Dejavus, CleanEntry(d)
      PROVE  AcceptInv'
  BY <1>0, <1>25 DEF CleanEntry
<1>26. CASE UNCHANGED vars
  BY <1>0, <1>26 DEF vars
<1>27. ASSUME NEW c \in Conns, EnqueueData(c)
      PROVE  AcceptInv'
  BY <1>0, <1>27 DEF EnqueueData, Goto, LoopTop
<1>28. ASSUME NEW c \in Clients, ReceiveTimesOut(c)
      PROVE  AcceptInv'
  BY <1>0, <1>28 DEF ReceiveTimesOut, Goto
<1>29. ASSUME NEW p \in Pool, PoolReturns(p)
      PROVE  AcceptInv'
  BY <1>0, <1>29 DEF PoolReturns, Goto
<1>30. ASSUME NEW p \in Pool, PoolLost(p)
      PROVE  AcceptInv'
  BY <1>0, <1>30 DEF PoolLost
<1>31. CASE JoinProducers
  BY <1>0, <1>31 DEF JoinProducers
<1>32. CASE WakeData
  BY <1>0, <1>32 DEF WakeData
<1>33. CASE WakeRequest
  BY <1>0, <1>33 DEF WakeRequest
<1>34. ASSUME NEW t \in DataThreads, TakeData(t)
      PROVE  AcceptInv'
  BY <1>0, <1>34 DEF TakeData
<1>35. ASSUME NEW t \in DataThreads, DataDone(t)
      PROVE  AcceptInv'
  BY <1>0, <1>35 DEF DataDone
<1> QED
  BY <1>1, <1>2, <1>3, <1>4, <1>5, <1>6, <1>7, <1>8, <1>9, <1>10, <1>11, <1>12,
     <1>13, <1>14, <1>15, <1>16, <1>17, <1>18, <1>19, <1>20, <1>21, <1>22, <1>23,
     <1>24, <1>25, <1>26, <1>27, <1>28, <1>29, <1>30, <1>31, <1>32, <1>33, <1>34,
     <1>35 DEF Next, Conns, AcceptStep, ReceiverStep, PoolStep, WorkerStep,
     CleanupStep, StopStep

\* Every step keeps the limiter equal to the connections that are held.
LEMMA SlotsStep ==
    ASSUME IInv, [Next]_vars
    PROVE  SlotsAreAccounted'
<1> USE ServerAssumption
    DEF server, main, limiter, rings, handlers, receivers, Conns,
        TypeOK, AcceptInv, SlotsAreAccounted, Holders
<1>0. TypeOK /\ RoutingType /\ AcceptInv /\ SlotsAreAccounted /\ FreshInv /\ AskedInv
  BY DEF IInv
<1>1. ASSUME NEW c \in Clients, AcceptConnection(c)
      PROVE  SlotsAreAccounted'
  <2>1. CASE tryAccept(IpOf[c])
    BY <1>1, <2>1, AcceptCounts
  <2>2. CASE ~tryAccept(IpOf[c])
    <3>1. UNCHANGED <<accept, clients_, total_connections_, ip_connections_, stop>>
      BY <1>1, <2>2 DEF AcceptConnection
    <3> QED
      BY <1>0, <3>1 DEF SlotsAreAccounted, Holders
  <2> QED
    BY <2>1, <2>2
<1>2. CASE CreateFails
  BY <1>2, CreateFailsCounts
<1>3. CASE SpawnReceiver
  BY <1>0, <1>3 DEF SpawnReceiver
<1>4. CASE AssignThread
  BY <1>0, <1>4 DEF AssignThread
<1>5. CASE AcceptLoopExits
  BY <1>0, <1>5 DEF AcceptLoopExits, Running
<1>6. ASSUME NEW c \in Clients, HandshakeDone(c)
      PROVE  SlotsAreAccounted'
  BY <1>0, <1>6 DEF HandshakeDone, SendHandshake, Goto, LoopTop
<1>7. ASSUME NEW c \in Clients, HandshakeTimeout(c)
      PROVE  SlotsAreAccounted'
  BY <1>0, <1>7 DEF HandshakeTimeout, SendHandshake, Goto
<1>8. ASSUME NEW c \in Conns, NEW d \in Dejavus, ReceiveRequest(c, d)
      PROVE  SlotsAreAccounted'
  BY <1>0, <1>8 DEF ReceiveRequest, Receive, Goto
<1>9. ASSUME NEW c \in Conns, EnqueueRequest(c)
      PROVE  SlotsAreAccounted'
  BY <1>0, <1>9 DEF EnqueueRequest, Request, Goto
<1>10. ASSUME NEW c \in Conns, MapRequest(c)
      PROVE  SlotsAreAccounted'
  BY <1>0, <1>10 DEF MapRequest, Added, Goto, LoopTop
<1>11. ASSUME NEW c \in Clients, ReceiverReturns(c)
      PROVE  SlotsAreAccounted'
  BY <1>0, <1>11 DEF ReceiverReturns, Goto
<1>12. ASSUME NEW c \in Clients, ReceiverFinishes(c)
      PROVE  SlotsAreAccounted'
  BY <1>0, <1>12 DEF ReceiverFinishes, Goto
<1>13. ASSUME NEW c \in Clients, PeerCloses(c)
      PROVE  SlotsAreAccounted'
  BY <1>0, <1>13 DEF PeerCloses
<1>14. CASE cleanupFinishedClients
  BY <1>14, CleanupCounts
<1>15. CASE CleanupExits
  BY <1>0, <1>15 DEF CleanupExits
<1>16. CASE ExitRequested
  BY <1>0, <1>16 DEF ExitRequested
<1>17. CASE StopBegins
  BY <1>0, <1>17 DEF StopBegins
<1>18. CASE StopSignals
  BY <1>0, <1>18 DEF StopSignals
<1>19. CASE StopJoins
  BY <1>0, <1>19 DEF StopJoins, Joined
<1>20. ASSUME NEW w \in Workers, TakeRequest(w)
      PROVE  SlotsAreAccounted'
  BY <1>0, <1>20 DEF TakeRequest, Done, NoWork
<1>21. ASSUME NEW w \in Workers, LookupConnection(w)
      PROVE  SlotsAreAccounted'
  BY <1>0, <1>21 DEF LookupConnection, Done, NoWork
<1>22. ASSUME NEW w \in Workers, EnqueueSend(w)
      PROVE  SlotsAreAccounted'
  BY <1>0, <1>22 DEF EnqueueSend, HasRoom, Done, NoWork
<1>23. ASSUME NEW c \in Conns, ReceiveData(c)
      PROVE  SlotsAreAccounted'
  BY <1>0, <1>23 DEF ReceiveData, Receive, Goto
<1>24. ASSUME NEW c \in Clients, SendThread(c)
      PROVE  SlotsAreAccounted'
  BY <1>0, <1>24 DEF SendThread
<1>25. ASSUME NEW d \in Dejavus, CleanEntry(d)
      PROVE  SlotsAreAccounted'
  BY <1>0, <1>25 DEF CleanEntry
<1>26. CASE UNCHANGED vars
  BY <1>0, <1>26 DEF vars
<1>27. ASSUME NEW c \in Conns, EnqueueData(c)
      PROVE  SlotsAreAccounted'
  BY <1>0, <1>27 DEF EnqueueData, Goto, LoopTop
<1>28. ASSUME NEW c \in Clients, ReceiveTimesOut(c)
      PROVE  SlotsAreAccounted'
  BY <1>0, <1>28 DEF ReceiveTimesOut, Goto
<1>29. ASSUME NEW p \in Pool, PoolReturns(p)
      PROVE  SlotsAreAccounted'
  BY <1>0, <1>29 DEF PoolReturns, Goto
<1>30. ASSUME NEW p \in Pool, PoolLost(p)
      PROVE  SlotsAreAccounted'
  BY <1>0, <1>30 DEF PoolLost
<1>31. CASE JoinProducers
  BY <1>0, <1>31 DEF JoinProducers
<1>32. CASE WakeData
  BY <1>0, <1>32 DEF WakeData
<1>33. CASE WakeRequest
  BY <1>0, <1>33 DEF WakeRequest
<1>34. ASSUME NEW t \in DataThreads, TakeData(t)
      PROVE  SlotsAreAccounted'
  BY <1>0, <1>34 DEF TakeData
<1>35. ASSUME NEW t \in DataThreads, DataDone(t)
      PROVE  SlotsAreAccounted'
  BY <1>0, <1>35 DEF DataDone
<1> QED
  BY <1>1, <1>2, <1>3, <1>4, <1>5, <1>6, <1>7, <1>8, <1>9, <1>10, <1>11, <1>12,
     <1>13, <1>14, <1>15, <1>16, <1>17, <1>18, <1>19, <1>20, <1>21, <1>22, <1>23,
     <1>24, <1>25, <1>26, <1>27, <1>28, <1>29, <1>30, <1>31, <1>32, <1>33, <1>34,
     <1>35 DEF Next, Conns, AcceptStep, ReceiverStep, PoolStep, WorkerStep,
     CleanupStep, StopStep

\* Every step keeps new connections silent.
LEMMA FreshStep ==
    ASSUME IInv, [Next]_vars
    PROVE  FreshInv'
<1> USE ServerAssumption
    DEF server, main, limiter, rings, handlers, receivers, Conns,
        TypeOK, RoutingType, AcceptInv, FreshInv, AskedInv
<1>0. TypeOK /\ RoutingType /\ AcceptInv /\ SlotsAreAccounted /\ FreshInv /\ AskedInv
  BY DEF IInv
<1>1. ASSUME NEW c \in Clients, AcceptConnection(c)
      PROVE  FreshInv'
  BY <1>0, <1>1 DEF AcceptConnection, tryAccept, Running
<1>2. CASE CreateFails
  BY <1>0, <1>2 DEF CreateFails, release
<1>3. CASE SpawnReceiver
  BY <1>0, <1>3 DEF SpawnReceiver
<1>4. CASE AssignThread
  BY <1>0, <1>4 DEF AssignThread
<1>5. CASE AcceptLoopExits
  BY <1>0, <1>5 DEF AcceptLoopExits, Running
<1>6. ASSUME NEW c \in Clients, HandshakeDone(c)
      PROVE  FreshInv'
  BY <1>0, <1>6 DEF HandshakeDone, SendHandshake, Goto, LoopTop
<1>7. ASSUME NEW c \in Clients, HandshakeTimeout(c)
      PROVE  FreshInv'
  BY <1>0, <1>7 DEF HandshakeTimeout, SendHandshake, Goto
<1>8. ASSUME NEW c \in Conns, NEW d \in Dejavus, ReceiveRequest(c, d)
      PROVE  FreshInv'
  BY <1>0, <1>8 DEF ReceiveRequest, Receive, Goto
<1>9. ASSUME NEW c \in Conns, EnqueueRequest(c)
      PROVE  FreshInv'
  BY <1>0, <1>9 DEF EnqueueRequest, Request, Goto
<1>10. ASSUME NEW c \in Conns, MapRequest(c)
      PROVE  FreshInv'
  BY <1>0, <1>10 DEF MapRequest, Added, Goto, LoopTop
<1>11. ASSUME NEW c \in Clients, ReceiverReturns(c)
      PROVE  FreshInv'
  BY <1>0, <1>11 DEF ReceiverReturns, Goto
<1>12. ASSUME NEW c \in Clients, ReceiverFinishes(c)
      PROVE  FreshInv'
  BY <1>0, <1>12 DEF ReceiverFinishes, Goto
<1>13. ASSUME NEW c \in Clients, PeerCloses(c)
      PROVE  FreshInv'
  BY <1>0, <1>13 DEF PeerCloses
<1>14. CASE cleanupFinishedClients
  BY <1>0, <1>14 DEF cleanupFinishedClients, Joined, release
<1>15. CASE CleanupExits
  BY <1>0, <1>15 DEF CleanupExits
<1>16. CASE ExitRequested
  BY <1>0, <1>16 DEF ExitRequested
<1>17. CASE StopBegins
  BY <1>0, <1>17 DEF StopBegins
<1>18. CASE StopSignals
  BY <1>0, <1>18 DEF StopSignals
<1>19. CASE StopJoins
  BY <1>0, <1>19 DEF StopJoins, Joined
<1>20. ASSUME NEW w \in Workers, TakeRequest(w)
      PROVE  FreshInv'
  BY <1>0, <1>20 DEF TakeRequest, Done, NoWork
<1>21. ASSUME NEW w \in Workers, LookupConnection(w)
      PROVE  FreshInv'
  BY <1>0, <1>21 DEF LookupConnection, Done, NoWork
<1>22. ASSUME NEW w \in Workers, EnqueueSend(w)
      PROVE  FreshInv'
  BY <1>0, <1>22 DEF EnqueueSend, HasRoom, Done, NoWork
<1>23. ASSUME NEW c \in Conns, ReceiveData(c)
      PROVE  FreshInv'
  BY <1>0, <1>23 DEF ReceiveData, Receive, Goto
<1>24. ASSUME NEW c \in Clients, SendThread(c)
      PROVE  FreshInv'
  BY <1>0, <1>24 DEF SendThread
<1>25. ASSUME NEW d \in Dejavus, CleanEntry(d)
      PROVE  FreshInv'
  BY <1>0, <1>25 DEF CleanEntry
<1>26. CASE UNCHANGED vars
  BY <1>0, <1>26 DEF vars
<1>27. ASSUME NEW c \in Conns, EnqueueData(c)
      PROVE  FreshInv'
  BY <1>0, <1>27 DEF EnqueueData, Goto, LoopTop
<1>28. ASSUME NEW c \in Clients, ReceiveTimesOut(c)
      PROVE  FreshInv'
  BY <1>0, <1>28 DEF ReceiveTimesOut, Goto
<1>29. ASSUME NEW p \in Pool, PoolReturns(p)
      PROVE  FreshInv'
  BY <1>0, <1>29 DEF PoolReturns, Goto
<1>30. ASSUME NEW p \in Pool, PoolLost(p)
      PROVE  FreshInv'
  BY <1>0, <1>30 DEF PoolLost
<1>31. CASE JoinProducers
  BY <1>0, <1>31 DEF JoinProducers
<1>32. CASE WakeData
  BY <1>0, <1>32 DEF WakeData
<1>33. CASE WakeRequest
  BY <1>0, <1>33 DEF WakeRequest
<1>34. ASSUME NEW t \in DataThreads, TakeData(t)
      PROVE  FreshInv'
  BY <1>0, <1>34 DEF TakeData
<1>35. ASSUME NEW t \in DataThreads, DataDone(t)
      PROVE  FreshInv'
  BY <1>0, <1>35 DEF DataDone
<1> QED
  BY <1>1, <1>2, <1>3, <1>4, <1>5, <1>6, <1>7, <1>8, <1>9, <1>10, <1>11, <1>12,
     <1>13, <1>14, <1>15, <1>16, <1>17, <1>18, <1>19, <1>20, <1>21, <1>22, <1>23,
     <1>24, <1>25, <1>26, <1>27, <1>28, <1>29, <1>30, <1>31, <1>32, <1>33, <1>34,
     <1>35 DEF Next, Conns, AcceptStep, ReceiverStep, PoolStep, WorkerStep,
     CleanupStep, StopStep

\* Every step keeps replies on their way to a connection that asked.
LEMMA AskedStep ==
    ASSUME IInv, [Next]_vars
    PROVE  AskedInv'
<1> USE ServerAssumption
    DEF server, main, limiter, rings, handlers, receivers, Conns,
        TypeOK, RoutingType, Requests, Work, AskedInv
<1>0. TypeOK /\ RoutingType /\ AcceptInv /\ SlotsAreAccounted /\ FreshInv /\ AskedInv
  BY DEF IInv
<1>1. ASSUME NEW c \in Clients, AcceptConnection(c)
      PROVE  AskedInv'
  BY <1>0, <1>1 DEF AcceptConnection, tryAccept, Running
<1>2. CASE CreateFails
  BY <1>0, <1>2 DEF CreateFails, release
<1>3. CASE SpawnReceiver
  BY <1>0, <1>3 DEF SpawnReceiver
<1>4. CASE AssignThread
  BY <1>0, <1>4 DEF AssignThread
<1>5. CASE AcceptLoopExits
  BY <1>0, <1>5 DEF AcceptLoopExits, Running
<1>6. ASSUME NEW c \in Clients, HandshakeDone(c)
      PROVE  AskedInv'
  BY <1>0, <1>6 DEF HandshakeDone, SendHandshake, Goto, LoopTop
<1>7. ASSUME NEW c \in Clients, HandshakeTimeout(c)
      PROVE  AskedInv'
  BY <1>0, <1>7 DEF HandshakeTimeout, SendHandshake, Goto
<1>8. ASSUME NEW c \in Conns, NEW d \in Dejavus, ReceiveRequest(c, d)
      PROVE  AskedInv'
  BY <1>0, <1>8 DEF ReceiveRequest, Receive, Goto
<1>9. ASSUME NEW c \in Conns, EnqueueRequest(c)
      PROVE  AskedInv'
  BY <1>0, <1>9 DEF EnqueueRequest, Request, Goto
<1>10. ASSUME NEW c \in Conns, MapRequest(c)
      PROVE  AskedInv'
  BY <1>0, <1>10 DEF MapRequest, Added, Goto, LoopTop
<1>11. ASSUME NEW c \in Clients, ReceiverReturns(c)
      PROVE  AskedInv'
  BY <1>0, <1>11 DEF ReceiverReturns, Goto
<1>12. ASSUME NEW c \in Clients, ReceiverFinishes(c)
      PROVE  AskedInv'
  BY <1>0, <1>12 DEF ReceiverFinishes, Goto
<1>13. ASSUME NEW c \in Clients, PeerCloses(c)
      PROVE  AskedInv'
  BY <1>0, <1>13 DEF PeerCloses
<1>14. CASE cleanupFinishedClients
  BY <1>0, <1>14 DEF cleanupFinishedClients, Joined, release
<1>15. CASE CleanupExits
  BY <1>0, <1>15 DEF CleanupExits
<1>16. CASE ExitRequested
  BY <1>0, <1>16 DEF ExitRequested
<1>17. CASE StopBegins
  BY <1>0, <1>17 DEF StopBegins
<1>18. CASE StopSignals
  BY <1>0, <1>18 DEF StopSignals
<1>19. CASE StopJoins
  BY <1>0, <1>19 DEF StopJoins, Joined
<1>20. ASSUME NEW w \in Workers, TakeRequest(w)
      PROVE  AskedInv'
  <2>1. Head(MRB_Request) \in Requests
    BY <1>0, <1>20, HeadTailProperties DEF TakeRequest, RoutingType
  <2>2. /\ worker'[w].pc \in {"idle", "lookup", "exited"}
        /\ worker'[w].pc = "lookup" => worker'[w].dejavu \in Dejavus
    BY <1>0, <1>20, <2>1 DEF TakeRequest, Done, NoWork, Token, Requests, RoutingType
  <2>3. \A v \in Workers \ {w} : worker'[v] = worker[v]
    BY <1>0, <1>20 DEF TakeRequest, RoutingType
  <2> QED
    BY <1>0, <1>20, <2>2, <2>3 DEF TakeRequest
<1>21. ASSUME NEW w \in Workers, LookupConnection(w)
      PROVE  AskedInv'
  BY <1>0, <1>21 DEF LookupConnection, Done, NoWork
<1>22. ASSUME NEW w \in Workers, EnqueueSend(w)
      PROVE  AskedInv'
  <2>1. worker[w] \in Work /\ worker[w].left \in Nat /\ worker[w].left >= 1
    BY <1>0, <1>22 DEF EnqueueSend, RoutingType, Work
  <2>2. CASE worker[w].left = 1
    BY <1>0, <1>22, <2>2 DEF EnqueueSend, Done, NoWork, RoutingType
  <2>3. CASE worker[w].left # 1
    <3>1. /\ worker'[w].pc = "reply" /\ worker'[w].conn = worker[w].conn
          /\ worker'[w].dejavu = worker[w].dejavu /\ worker'[w].left >= 1
      <4>1. worker'[w] = [worker[w] EXCEPT !.left = @ - 1]
        BY <1>0, <1>22, <2>3 DEF EnqueueSend, RoutingType
      <4>2. worker[w].left - 1 >= 1
        BY <2>1, <2>3
      <4>3. worker[w].pc = "reply"
        BY <1>22 DEF EnqueueSend
      <4> QED
        BY <2>1, <4>1, <4>2, <4>3 DEF Work
    <3>2. \A v \in Workers \ {w} : worker'[v] = worker[v]
      BY <1>0, <1>22 DEF EnqueueSend, RoutingType
    <3> QED
      BY <1>0, <1>22, <3>1, <3>2 DEF EnqueueSend
  <2> QED
    BY <2>2, <2>3
<1>23. ASSUME NEW c \in Conns, ReceiveData(c)
      PROVE  AskedInv'
  BY <1>0, <1>23 DEF ReceiveData, Receive, Goto
<1>24. ASSUME NEW c \in Clients, SendThread(c)
      PROVE  AskedInv'
  BY <1>0, <1>24 DEF SendThread
<1>25. ASSUME NEW d \in Dejavus, CleanEntry(d)
      PROVE  AskedInv'
  BY <1>0, <1>25 DEF CleanEntry
<1>26. CASE UNCHANGED vars
  BY <1>0, <1>26 DEF vars
<1>27. ASSUME NEW c \in Conns, EnqueueData(c)
      PROVE  AskedInv'
  BY <1>0, <1>27 DEF EnqueueData, Goto, LoopTop
<1>28. ASSUME NEW c \in Clients, ReceiveTimesOut(c)
      PROVE  AskedInv'
  BY <1>0, <1>28 DEF ReceiveTimesOut, Goto
<1>29. ASSUME NEW p \in Pool, PoolReturns(p)
      PROVE  AskedInv'
  BY <1>0, <1>29 DEF PoolReturns, Goto
<1>30. ASSUME NEW p \in Pool, PoolLost(p)
      PROVE  AskedInv'
  BY <1>0, <1>30 DEF PoolLost
<1>31. CASE JoinProducers
  BY <1>0, <1>31 DEF JoinProducers
<1>32. CASE WakeData
  BY <1>0, <1>32 DEF WakeData
<1>33. CASE WakeRequest
  BY <1>0, <1>33 DEF WakeRequest
<1>34. ASSUME NEW t \in DataThreads, TakeData(t)
      PROVE  AskedInv'
  BY <1>0, <1>34 DEF TakeData
<1>35. ASSUME NEW t \in DataThreads, DataDone(t)
      PROVE  AskedInv'
  BY <1>0, <1>35 DEF DataDone
<1> QED
  BY <1>1, <1>2, <1>3, <1>4, <1>5, <1>6, <1>7, <1>8, <1>9, <1>10, <1>11, <1>12,
     <1>13, <1>14, <1>15, <1>16, <1>17, <1>18, <1>19, <1>20, <1>21, <1>22, <1>23,
     <1>24, <1>25, <1>26, <1>27, <1>28, <1>29, <1>30, <1>31, <1>32, <1>33, <1>34,
     <1>35 DEF Next, Conns, AcceptStep, ReceiverStep, PoolStep, WorkerStep,
     CleanupStep, StopStep

-------------------------------------------------------------------------------
(* The theorems *)

LEMMA InitIInv == Init => IInv
<1> SUFFICES ASSUME Init PROVE IInv
  OBVIOUS
<1> USE ServerAssumption DEF Init, NoWork, Conns
<1>1. TypeOK
  BY DEF TypeOK, Conns
<1>2. RoutingType
  BY EmptySeq DEF RoutingType, Requests, Work
<1>3. AcceptInv
  BY FS_EmptySet DEF AcceptInv
<1>4. SlotsAreAccounted
  <2>1. Holders = {}
    BY DEF Holders
  <2>2. Cardinality({}) = 0
    BY FS_EmptySet
  <2>3. \A i \in Ips : From({}, i) = {}
    BY DEF From
  <2> QED
    BY <2>1, <2>2, <2>3 DEF SlotsAreAccounted, From
<1>5. FreshInv
  BY DEF FreshInv
<1>6. AskedInv
  BY DEF AskedInv
<1> QED
  BY <1>1, <1>2, <1>3, <1>4, <1>5, <1>6 DEF IInv

\* The inductive invariant holds in every reachable state, whatever peers do.
THEOREM Invariance == Spec => []IInv
<1>1. ASSUME IInv, [Next]_vars PROVE IInv'
  BY <1>1, TypeOKStep, RoutingStep, AcceptStepKeeps, SlotsStep, FreshStep, AskedStep
     DEF IInv
<1> QED
  BY <1>1, InitIInv, PTL DEF Spec

\* The counters of the limiter stay within its limits and no send ring grows past
\* its capacity, the handshake that is put into one without waiting included.
THEOREM TypeCorrect == Spec => []TypeOK
<1>1. IInv => TypeOK
  BY DEF IInv
<1> QED
  BY <1>1, Invariance, PTL

\* Until the server has stopped, the limiter counts exactly the connections that
\* hold a slot, in total and per address: neither the create step that fails nor
\* the clean-up of finished clients releases a slot twice or keeps one.
THEOREM SlotsCorrect == Spec => []SlotsAreAccounted
<1>1. IInv => SlotsAreAccounted
  BY DEF IInv
<1> QED
  BY <1>1, Invariance, PTL

\* A reply only goes to a connection that used the dejavu of the request.
THEOREM RepliesCorrect == Spec => []RepliesReachTheAsker
<1>1. IInv => RepliesReachTheAsker
  BY DEF IInv, AskedInv, RepliesReachTheAsker
<1> QED
  BY <1>1, Invariance, PTL
===============================================================================
