---------------------------- MODULE RoundBuffer ----------------------------
(***************************************************************************)
(* MutexRoundBuffer (SpecialBufferStructs.h): the byte ring between the    *)
(* receiver threads and the data processor threads (MRB_Data), the request *)
(* processor threads (MRB_Request), the smart contract thread (MRB_SC) and *)
(* between enqueueSend and the send thread of a connection (mBuffer).      *)
(*                                                                         *)
(* Every method holds mtx_ from its first to its last access except while  *)
(* it waits, so the code between two waits is one action.  A condition     *)
(* variable is the set of threads in its wait; notify_one moves one of     *)
(* them to "woken", from where it competes for the mutex with the others   *)
(* and tests its predicate again.  Wakeups may be spurious.  GetPacket     *)
(* waits twice, for a header and then for the packet; need tells which.    *)
(*                                                                         *)
(* Data abstraction: byte i of packet p is <<p, i>>; its first HEADER      *)
(* bytes carry the length of the packet.                                   *)
(***************************************************************************)
EXTENDS Integers, Sequences

CONSTANTS
    Producers,  \* threads that call EnqueuePacket
    Consumers,  \* threads that call GetPacket
    Pollers,    \* threads that call TryGetPacket
    Packets,
    Len_,       \* the length of a packet
    capacity_,
    HEADER,     \* sizeof(RequestResponseHeader), 8
    MaxPackets  \* bound: packets enqueued

ASSUME BufferAssumption ==
    /\ capacity_ \in Nat \ {0}
    /\ HEADER \in Nat \ {0}
    /\ Len_ \in [Packets -> Nat]
    /\ \A p \in Packets : HEADER <= Len_[p]
    /\ MaxPackets \in Nat
    /\ Producers \cap (Consumers \cup Pollers) = {}
    /\ Consumers \cap Pollers = {}

Threads == Producers \cup Consumers \cup Pollers
Slots == 0 .. (capacity_ - 1)
Bytes == {b \in Packets \X Nat : 1 <= b[2] /\ b[2] <= Len_[b[1]]}
Unset == <<"unset", 0>>
None == "none"

VARIABLES
    buffer_, size_, head_, tail_,
    pc,       \* per thread: idle, enter (about to lock mtx_), wait, woken
    packet,   \* the packet a producer is enqueueing
    need,     \* packet_size a consumer waits for; 0: it waits for a header
    out,      \* the bytes the last call of a thread copied out
    enqueued  \* number of calls of EnqueuePacket

ring == <<buffer_, size_, head_, tail_>>
vars == <<ring, pc, packet, need, out, enqueued>>

Init ==
    /\ buffer_ = [k \in Slots |-> Unset]
    /\ size_ = 0 /\ head_ = 0 /\ tail_ = 0
    /\ pc = [t \in Threads |-> "idle"]
    /\ packet = [t \in Producers |-> None]
    /\ need = [t \in Consumers |-> 0]
    /\ out = [t \in Consumers \cup Pollers |-> << >>]
    /\ enqueued = 0

PacketBytes(p) == [i \in 1 .. Len_[p] |-> <<p, i>>]

-----------------------------------------------------------------------------
(* The ring *)

\* Mutant: the second chunk of a wrapped packet repeats its last byte.
Written_ChunkOverlap(p) ==
    [k \in Slots |->
        CASE tail_ <= k /\ k < tail_ + Len_[p] -> <<p, k - tail_ + 1>>
          [] k < tail_ + Len_[p] - capacity_ -> <<p, capacity_ - tail_ + k>>
          [] OTHER -> buffer_[k]]

\* The contents once p is copied in at tail_, in one chunk or, when it wraps,
\* in two: the slots up to the end of the ring and the rest from slot 0.
Written(p) ==
    [k \in Slots |->
        CASE tail_ <= k /\ k < tail_ + Len_[p] -> <<p, k - tail_ + 1>>
          [] k < tail_ + Len_[p] - capacity_ -> <<p, capacity_ - tail_ + k + 1>>
          [] OTHER -> buffer_[k]]

\* The n bytes from head_, likewise.
peek_data(n) ==
    [i \in 1 .. n |->
        IF head_ + i <= capacity_ THEN buffer_[head_ + i - 1]
        ELSE buffer_[head_ + i - 1 - capacity_]]

\* header.size() of the header at head_, which may wrap too (no packet of the model
\* is smaller than a header, so that bytes which are no header read as size HEADER).
PeekedSize ==
    LET header == peek_data(HEADER)
        p == header[1][1]
    IN  IF p \in Packets /\ \A i \in 1 .. HEADER : header[i] = <<p, i>> THEN Len_[p]
        ELSE HEADER

-----------------------------------------------------------------------------
(* Condition variables *)

cv_not_full_ == {t \in Producers : pc[t] = "wait"}
cv_not_empty_ == {t \in Consumers : pc[t] = "wait"}

\* Mutant: a thread leaves its call without a notification.
ReturnAndNotifyOne_Silent(t, waiting) == pc' = [pc EXCEPT ![t] = "idle"]

\* Thread t leaves its call and one of the waiting threads is woken.
ReturnAndNotifyOne(t, waiting) ==
    IF waiting = {}
    THEN pc' = [pc EXCEPT ![t] = "idle"]
    ELSE \E w \in waiting : pc' = [pc EXCEPT ![t] = "idle", ![w] = "woken"]

SpuriousWakeup(t) ==
    /\ t \in cv_not_full_ \cup cv_not_empty_
    /\ pc' = [pc EXCEPT ![t] = "woken"]
    /\ UNCHANGED <<ring, packet, need, out, enqueued>>

-----------------------------------------------------------------------------
(* EnqueuePacket *)

\* A packet larger than the ring is refused before the mutex is taken.
CallEnqueue(t, p) ==
    /\ pc[t] = "idle"
    /\ Len_[p] <= capacity_
    /\ enqueued < MaxPackets
    /\ enqueued' = enqueued + 1
    /\ packet' = [packet EXCEPT ![t] = p]
    /\ pc' = [pc EXCEPT ![t] = "enter"]
    /\ UNCHANGED <<ring, need, out>>

\* Mutant: the free space is compared off by one, so that a full ring is
\* overwritten by one byte.
Fits_OffByOne(p) == capacity_ - size_ + 1 >= Len_[p]

Fits(p) == capacity_ - size_ >= Len_[p]

EnqueuePacket(t) ==
    LET p == packet[t] IN
    /\ pc[t] \in {"enter", "woken"}
    /\ IF Fits(p)
       THEN /\ buffer_' = Written(p)
            /\ tail_' = (tail_ + Len_[p]) % capacity_
            /\ size_' = size_ + Len_[p]
            /\ packet' = [packet EXCEPT ![t] = None]
            /\ ReturnAndNotifyOne(t, cv_not_empty_)
       ELSE /\ pc' = [pc EXCEPT ![t] = "wait"]
            /\ UNCHANGED <<buffer_, tail_, size_, packet>>
    /\ UNCHANGED <<head_, need, out, enqueued>>

-----------------------------------------------------------------------------
(* GetPacket, TryGetPacket *)

\* Mutant: the header that was peeked stays in the ring.
Take_LeavesHeader(t, n) ==
    /\ out' = [out EXCEPT ![t] = peek_data(n)]
    /\ head_' = (head_ + n - HEADER) % capacity_
    /\ size_' = size_ - (n - HEADER)
    /\ ReturnAndNotifyOne(t, cv_not_full_)
    /\ UNCHANGED <<buffer_, tail_>>

Take(t, n) ==
    /\ out' = [out EXCEPT ![t] = peek_data(n)]
    /\ head_' = (head_ + n) % capacity_
    /\ size_' = size_ - n
    /\ ReturnAndNotifyOne(t, cv_not_full_)
    /\ UNCHANGED <<buffer_, tail_>>

CallGet(t) ==
    /\ pc[t] = "idle"
    /\ pc' = [pc EXCEPT ![t] = "enter"]
    /\ UNCHANGED <<ring, packet, need, out, enqueued>>

\* The bytes t waits for: a header, then the packet whose header it peeked.
Awaited(t) ==
    IF need[t] # 0 THEN need[t]
    ELSE IF size_ >= HEADER THEN PeekedSize
    ELSE HEADER

GetPacket(t) ==
    /\ pc[t] \in {"enter", "woken"}
    /\ IF size_ >= Awaited(t)
       THEN /\ Take(t, Awaited(t))
            /\ need' = [need EXCEPT ![t] = 0]
       ELSE /\ pc' = [pc EXCEPT ![t] = "wait"]
            /\ need' = [need EXCEPT ![t] = IF size_ >= HEADER THEN Awaited(t) ELSE @]
            /\ UNCHANGED <<ring, out>>
    /\ UNCHANGED <<packet, enqueued>>

\* Fails without effect unless a whole packet is there.
TryGetPacket(t) ==
    /\ size_ >= HEADER /\ size_ >= PeekedSize
    /\ Take(t, PeekedSize)
    /\ UNCHANGED <<packet, need, enqueued>>

-----------------------------------------------------------------------------

Next ==
    \/ \E t \in Producers, p \in Packets : CallEnqueue(t, p)
    \/ \E t \in Producers : EnqueuePacket(t)
    \/ \E t \in Consumers : CallGet(t)
    \/ \E t \in Consumers : GetPacket(t)
    \/ \E t \in Pollers : TryGetPacket(t)
    \/ \E t \in Threads : SpuriousWakeup(t)

\* The threads are scheduled and consumers come back for the next packet.
\* Nothing is assumed of which waiter a notification wakes, of pollers and of
\* spurious wakeups.
Fairness ==
    /\ \A t \in Producers : WF_vars(EnqueuePacket(t))
    /\ \A t \in Consumers : WF_vars(CallGet(t)) /\ WF_vars(GetPacket(t))

Spec == Init /\ [][Next]_vars /\ Fairness

-----------------------------------------------------------------------------
(* Properties *)

\* Type invariant: the counters of the ring stay in range at every offset.
TypeOK ==
    /\ buffer_ \in [Slots -> Bytes \cup {Unset}]
    /\ size_ \in 0 .. capacity_
    /\ head_ \in Slots /\ tail_ \in Slots
    /\ pc \in [Threads -> {"idle", "enter", "wait", "woken"}]
    /\ packet \in [Producers -> Packets \cup {None}]
    /\ need \in [Consumers -> Nat]
    /\ out \in [Consumers \cup Pollers -> Seq(Bytes \cup {Unset})]
    /\ enqueued \in 0 .. MaxPackets

\* Byte i of the bytes in the ring, counted from head_.
Content(i) == peek_data(size_)[i]

\* The bytes between head_ and tail_ are whole packets one after the other:
\* they start with a header, every byte is followed by the next byte of its
\* packet, and only the last byte of a packet is followed by a header or by
\* the end.  So a header that GetPacket peeks is a real one, whatever wrapped.
RingHoldsWholePackets ==
    \A i \in 1 .. size_ :
        /\ Content(i) \in Bytes
        /\ i = 1 => Content(i)[2] = 1
        /\ IF Content(i)[2] < Len_[Content(i)[1]]
           THEN i < size_ /\ Content(i + 1) = <<Content(i)[1], Content(i)[2] + 1>>
           ELSE i < size_ => Content(i + 1)[2] = 1

\* No wakeup is lost: every call of EnqueuePacket returns, although notify_one
\* may wake a producer whose packet does not fit while another's would.
EnqueueReturns ==
    \A t \in Producers : pc[t] # "idle" ~> pc[t] = "idle"

\* What is put in the ring is taken out.
PacketsAreTaken == size_ > 0 ~> size_ = 0
=============================================================================
