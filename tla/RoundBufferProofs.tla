-------------------------- MODULE RoundBufferProofs --------------------------
(***************************************************************************)
(* Proofs about RoundBuffer, for every capacity of the ring, every set of  *)
(* packets of any lengths and every number of producers, consumers and     *)
(* pollers.                                                                *)
(*                                                                         *)
(* The argument: every byte in the ring lies in a packet that is there as  *)
(* a whole.  So a header at head_ is the header of a packet that can be    *)
(* taken at once, and a consumer never waits for the rest of a packet.     *)
(***************************************************************************)
EXTENDS RoundBuffer, SequenceTheorems, TLAPS

-----------------------------------------------------------------------------
(* The inductive invariant *)

\* The slot of byte i from slot h.
Slot(h, i) == IF h + i <= capacity_ THEN h + i - 1 ELSE h + i - 1 - capacity_
\* Byte i of the ring in buffer b, from slot h.
Byte(b, h, i) == b[Slot(h, i)]

\* tail_ is the slot after the last byte.
TailInv ==
    tail_ = IF head_ + size_ < capacity_ THEN head_ + size_ ELSE head_ + size_ - capacity_

\* Producers in a call have a packet that fits into an empty ring.
ProducerInv ==
    \A t \in Producers :
        pc[t] # "idle" => packet[t] \in Packets /\ Len_[packet[t]] <= capacity_

\* No consumer waits for the rest of a packet.
NeedInv == \A t \in Consumers : need[t] = 0

\* Byte i of n bytes from slot h of buffer b is a byte of a packet, and the whole
\* packet lies around it.
WholeAt(b, h, n, i) ==
    LET x == Byte(b, h, i)
        start == i - x[2]
    IN  /\ x \in Bytes
        /\ 0 <= start /\ start + Len_[x[1]] <= n
        /\ \A j \in 1 .. Len_[x[1]] : Byte(b, h, start + j) = <<x[1], j>>

WholeInv == \A i \in 1 .. size_ : WholeAt(buffer_, head_, size_, i)

IInv ==
    /\ TypeOK
    /\ TailInv
    /\ ProducerInv
    /\ NeedInv
    /\ WholeInv

-----------------------------------------------------------------------------
(* Arithmetic of the ring *)

\* An index that went past the end once comes back to the start.
LEMMA ModOnce ==
    ASSUME NEW k \in Nat, k < 2 * capacity_
    PROVE  k % capacity_ = IF k < capacity_ THEN k ELSE k - capacity_
  BY BufferAssumption

LEMMA SlotFacts ==
    ASSUME NEW h \in Slots, NEW i \in 1 .. capacity_
    PROVE  /\ Slot(h, i) \in Slots
           /\ \A j \in 1 .. capacity_ : Slot(h, i) = Slot(h, j) => i = j
  BY BufferAssumption DEF Slot, Slots

\* The bytes peek_data copies.
LEMMA PeekBytes ==
    ASSUME NEW n \in Nat
    PROVE  /\ \A i \in 1 .. n : peek_data(n)[i] = Byte(buffer_, head_, i)
           /\ DOMAIN peek_data(n) = 1 .. n
  BY DEF peek_data, Byte, Slot

\* A packet of the ring is not empty.
LEMMA PacketLen ==
    ASSUME NEW p \in Packets
    PROVE  Len_[p] \in Nat /\ Len_[p] >= 1 /\ HEADER <= Len_[p]
  BY BufferAssumption

-----------------------------------------------------------------------------
(* The ring holds whole packets *)

\* Copying a packet in at tail_ leaves the bytes of the ring and appends those of
\* the packet, whether it wraps or not.
LEMMA WrittenBytes ==
    ASSUME TypeOK, TailInv, NEW p \in Packets, Fits(p)
    PROVE  /\ \A i \in 1 .. size_ : Byte(Written(p), head_, i) = Byte(buffer_, head_, i)
           /\ \A i \in 1 .. Len_[p] : Byte(Written(p), head_, size_ + i) = <<p, i>>
           /\ Written(p) \in [Slots -> Bytes \cup {Unset}]
<1> USE BufferAssumption, PacketLen
<1>0. /\ head_ \in Nat /\ head_ < capacity_
      /\ tail_ \in Nat /\ tail_ < capacity_
      /\ size_ \in Nat
      /\ size_ + Len_[p] <= capacity_
  BY DEF TypeOK, Fits, Slots
<1>1. \A k \in Slots :
         /\ tail_ <= k /\ k < tail_ + Len_[p] => Written(p)[k] = <<p, k - tail_ + 1>>
         /\ k < tail_ + Len_[p] - capacity_ =>
               Written(p)[k] = <<p, capacity_ - tail_ + k + 1>>
         /\ k >= tail_ + Len_[p] - capacity_ /\ (k < tail_ \/ k >= tail_ + Len_[p]) =>
               Written(p)[k] = buffer_[k]
  <2> SUFFICES ASSUME NEW k \in Slots
               PROVE  /\ tail_ <= k /\ k < tail_ + Len_[p] =>
                            Written(p)[k] = <<p, k - tail_ + 1>>
                      /\ k < tail_ + Len_[p] - capacity_ =>
                            Written(p)[k] = <<p, capacity_ - tail_ + k + 1>>
                      /\ k >= tail_ + Len_[p] - capacity_
                            /\ (k < tail_ \/ k >= tail_ + Len_[p]) =>
                            Written(p)[k] = buffer_[k]
    OBVIOUS
  <2>1. k \in Nat /\ k < capacity_
    BY DEF Slots
  <2>2. ~(tail_ <= k /\ k < tail_ + Len_[p] /\ k < tail_ + Len_[p] - capacity_)
    BY <1>0, <2>1
  <2>3. Written(p)[k] =
           CASE tail_ <= k /\ k < tail_ + Len_[p] -> <<p, k - tail_ + 1>>
             [] k < tail_ + Len_[p] - capacity_ -> <<p, capacity_ - tail_ + k + 1>>
             [] OTHER -> buffer_[k]
    BY DEF Written
  <2> QED
    BY <1>0, <2>1, <2>2, <2>3
<1>2. ASSUME NEW i \in 1 .. size_
      PROVE  Byte(Written(p), head_, i) = Byte(buffer_, head_, i)
  <2> DEFINE k == Slot(head_, i)
  <2>1. k \in Slots
    BY <1>0 DEF Slot, Slots
  <2>2. k >= tail_ + Len_[p] - capacity_ /\ (k < tail_ \/ k >= tail_ + Len_[p])
    BY <1>0 DEF TailInv, Slot
  <2> QED
    BY <1>1, <2>1, <2>2 DEF Byte
<1>3. ASSUME NEW i \in 1 .. Len_[p]
      PROVE  Byte(Written(p), head_, size_ + i) = <<p, i>>
  <2> DEFINE k == Slot(head_, size_ + i)
  <2>1. k \in Slots
    BY <1>0 DEF Slot, Slots
  <2>2. \/ tail_ <= k /\ k < tail_ + Len_[p] /\ k - tail_ + 1 = i
        \/ k < tail_ + Len_[p] - capacity_ /\ capacity_ - tail_ + k + 1 = i
    BY <1>0 DEF TailInv, Slot
  <2> QED
    BY <1>1, <2>1, <2>2 DEF Byte
<1>4. Written(p) \in [Slots -> Bytes \cup {Unset}]
  <2>1. ASSUME NEW k \in Slots PROVE Written(p)[k] \in Bytes \cup {Unset}
    <3>1. k \in Nat /\ k < capacity_
      BY DEF Slots
    <3>2. \A i \in 1 .. Len_[p] : <<p, i>> \in Bytes
      BY DEF Bytes
    <3>3. buffer_[k] \in Bytes \cup {Unset}
      BY DEF TypeOK
    <3>4. CASE tail_ <= k /\ k < tail_ + Len_[p]
      <4>1. k - tail_ + 1 \in 1 .. Len_[p]
        BY <1>0, <3>1, <3>4
      <4> QED
        BY <1>1, <3>2, <3>4, <4>1
    <3>5. CASE k < tail_ + Len_[p] - capacity_
      <4>1. capacity_ - tail_ + k + 1 \in 1 .. Len_[p]
        BY <1>0, <3>1, <3>5
      <4> QED
        BY <1>1, <3>2, <3>5, <4>1
    <3> QED
      BY <1>0, <1>1, <3>1, <3>3, <3>4, <3>5
  <2>2. Written(p) = [k \in Slots |-> Written(p)[k]]
    BY DEF Written
  <2> QED
    BY <2>1, <2>2
<1> QED
  BY <1>2, <1>3, <1>4

\* The packet at head_ is there as a whole.
LEMMA PacketAtHead ==
    ASSUME TypeOK, WholeInv, size_ >= 1
    PROVE  /\ buffer_[head_][1] \in Packets
           /\ PeekedSize = Len_[buffer_[head_][1]]
           /\ PeekedSize \in Nat /\ PeekedSize >= HEADER /\ PeekedSize <= size_
           /\ \A j \in 1 .. PeekedSize :
                 Byte(buffer_, head_, j) = <<buffer_[head_][1], j>>
<1> USE BufferAssumption, PacketLen
<1>1. WholeAt(buffer_, head_, size_, 1)
  BY DEF TypeOK, WholeInv
<1>2. Byte(buffer_, head_, 1) = buffer_[head_]
  BY DEF TypeOK, Byte, Slot, Slots
<1>3. buffer_[head_] \in Bytes
  BY <1>1, <1>2 DEF WholeAt
<1>4. /\ buffer_[head_][1] \in Packets
      /\ buffer_[head_][2] \in Nat /\ buffer_[head_][2] >= 1
  BY <1>3 DEF Bytes
<1>5. 1 - buffer_[head_][2] >= 0
  BY <1>1, <1>2 DEF WholeAt
<1>6. 1 - buffer_[head_][2] = 0
  BY <1>4, <1>5
<1> DEFINE p == buffer_[head_][1]
<1>7. \A j \in 1 .. Len_[p] : Byte(buffer_, head_, j) = <<p, j>>
  BY <1>1, <1>2, <1>6 DEF WholeAt
<1>8. Len_[p] \in Nat /\ HEADER <= Len_[p] /\ HEADER \in Nat /\ HEADER >= 1
  BY <1>4
<1>9. \A i \in 1 .. HEADER : peek_data(HEADER)[i] = <<p, i>>
  BY <1>7, <1>8, PeekBytes
<1>10. peek_data(HEADER)[1][1] = p
  BY <1>8, <1>9
<1>11. PeekedSize = Len_[p]
  BY <1>4, <1>9, <1>10 DEF PeekedSize
<1>12. Len_[p] <= size_
  <2>1. 1 - buffer_[head_][2] + Len_[p] <= size_
    BY <1>1, <1>2 DEF WholeAt
  <2> QED
    BY <1>6, <1>8, <2>1
<1> QED
  BY <1>4, <1>7, <1>8, <1>11, <1>12

\* Appending a packet.
LEMMA EnqueueRing ==
    ASSUME IInv, NEW p \in Packets, Fits(p),
           buffer_' = Written(p), tail_' = (tail_ + Len_[p]) % capacity_,
           size_' = size_ + Len_[p], head_' = head_
    PROVE  /\ buffer_' \in [Slots -> Bytes \cup {Unset}]
           /\ size_' \in 0 .. capacity_
           /\ head_' \in Slots /\ tail_' \in Slots
           /\ TailInv' /\ WholeInv'
<1> USE BufferAssumption, PacketLen
<1>0. TypeOK /\ TailInv /\ WholeInv
  BY DEF IInv
<1>1. /\ head_ \in Nat /\ head_ < capacity_
      /\ tail_ \in Nat /\ tail_ < capacity_
      /\ size_ \in Nat /\ size_ + Len_[p] <= capacity_
  BY <1>0 DEF TypeOK, Fits, Slots
<1>2. tail_' = IF tail_ + Len_[p] < capacity_ THEN tail_ + Len_[p]
               ELSE tail_ + Len_[p] - capacity_
  BY <1>1, ModOnce
<1>3. tail_' \in Slots /\ TailInv'
  BY <1>0, <1>1, <1>2 DEF TailInv, Slots
<1>4. WholeInv'
  <2> SUFFICES ASSUME NEW i \in 1 .. (size_ + Len_[p])
               PROVE  WholeAt(Written(p), head_, size_ + Len_[p], i)
    BY <1>1 DEF WholeInv
  <2>1. CASE i <= size_
    <3> DEFINE x == Byte(buffer_, head_, i)
    <3>1. Byte(Written(p), head_, i) = x
      BY <1>0, <1>1, <2>1, WrittenBytes
    <3>2. /\ x \in Bytes
          /\ 0 <= i - x[2] /\ i - x[2] + Len_[x[1]] <= size_
          /\ \A j \in 1 .. Len_[x[1]] : Byte(buffer_, head_, i - x[2] + j) = <<x[1], j>>
      BY <1>0, <1>1, <2>1 DEF WholeInv, WholeAt
    <3>3. x[1] \in Packets /\ x[2] \in Nat
      BY <3>2 DEF Bytes
    <3>4. \A j \in 1 .. Len_[x[1]] :
             Byte(Written(p), head_, i - x[2] + j) = Byte(buffer_, head_, i - x[2] + j)
      <4> TAKE j \in 1 .. Len_[x[1]]
      <4>1. i - x[2] + j \in 1 .. size_
        BY <1>1, <3>2, <3>3
      <4> QED
        BY <1>0, <4>1, WrittenBytes
    <3> HIDE DEF x
    <3>5. i - x[2] + Len_[x[1]] <= size_ + Len_[p]
      BY <1>1, <3>2, <3>3
    <3> QED
      BY <3>1, <3>2, <3>4, <3>5 DEF WholeAt
  <2>2. CASE i > size_
    <3>1. i - size_ \in 1 .. Len_[p] /\ size_ + (i - size_) = i
      BY <1>1, <2>2
    <3>2. \A j \in 1 .. Len_[p] : Byte(Written(p), head_, size_ + j) = <<p, j>>
      BY <1>0, WrittenBytes
    <3>3. Byte(Written(p), head_, i) = <<p, i - size_>>
      BY <3>1, <3>2
    <3>4. <<p, i - size_>> \in Bytes
      BY <3>1 DEF Bytes
    <3>5. i - (i - size_) = size_
      BY <1>1
    <3> QED
      BY <1>1, <3>2, <3>3, <3>4, <3>5 DEF WholeAt
  <2> QED
    BY <1>1, <2>1, <2>2
<1> QED
  BY <1>0, <1>1, <1>3, <1>4, WrittenBytes DEF TypeOK

\* Taking the packet at head_ out.
LEMMA TakeRing ==
    ASSUME IInv, size_ >= 1,
           head_' = (head_ + PeekedSize) % capacity_, size_' = size_ - PeekedSize,
           UNCHANGED <<buffer_, tail_>>
    PROVE  /\ size_' \in 0 .. capacity_
           /\ head_' \in Slots
           /\ TailInv' /\ WholeInv'
           /\ \A i \in 1 .. size_' :
                 Byte(buffer_, head_', i) = Byte(buffer_, head_, i + PeekedSize)
<1> USE BufferAssumption, PacketLen
<1> DEFINE n == PeekedSize
           p == buffer_[head_][1]
<1>0. TypeOK /\ TailInv /\ WholeInv
  BY DEF IInv
<1>1. /\ head_ \in Nat /\ head_ < capacity_
      /\ tail_ \in Nat /\ tail_ < capacity_
      /\ size_ \in Nat /\ size_ <= capacity_
  BY <1>0 DEF TypeOK, Slots
<1>2. /\ n \in Nat /\ 1 <= n /\ n <= size_
      /\ p \in Packets /\ n = Len_[p]
      /\ \A j \in 1 .. n : Byte(buffer_, head_, j) = <<p, j>>
  BY <1>0, PacketAtHead
<1> HIDE DEF n, p
<1>3. head_' = (head_ + n) % capacity_ /\ size_' = size_ - n
  BY DEF n
<1>4. head_' = IF head_ + n < capacity_ THEN head_ + n ELSE head_ + n - capacity_
  BY <1>1, <1>2, <1>3, ModOnce
<1>5. size_' \in 0 .. capacity_ /\ head_' \in Slots /\ TailInv'
  BY <1>0, <1>1, <1>2, <1>3, <1>4 DEF TailInv, Slots
<1>6. \A i \in 1 .. (size_ - n) : Byte(buffer_, head_', i) = Byte(buffer_, head_, i + n)
  <2> TAKE i \in 1 .. (size_ - n)
  <2>1. Slot(head_', i) = Slot(head_, i + n)
    BY <1>1, <1>2, <1>4 DEF Slot
  <2> QED
    BY <2>1 DEF Byte
<1>7. WholeInv'
  <2> SUFFICES ASSUME NEW i \in 1 .. (size_ - n)
               PROVE  WholeAt(buffer_, head_', size_ - n, i)
    BY <1>3 DEF WholeInv
  <2> DEFINE k == i + n
             x == Byte(buffer_, head_, k)
  <2>0. k \in 1 .. size_
    BY <1>1, <1>2
  <2> HIDE DEF k
  <2>1. /\ x \in Bytes
        /\ 0 <= k - x[2] /\ k - x[2] + Len_[x[1]] <= size_
        /\ \A j \in 1 .. Len_[x[1]] : Byte(buffer_, head_, k - x[2] + j) = <<x[1], j>>
    BY <1>0, <2>0 DEF WholeInv, WholeAt
  <2>2. x[1] \in Packets /\ x[2] \in Nat /\ 1 <= x[2] /\ x[2] <= Len_[x[1]]
    BY <2>1 DEF Bytes
  <2> HIDE DEF x
  \* The packet of x does not begin before the one that is taken has ended.
  <2>3. i - x[2] >= 0
    <3> SUFFICES ASSUME i - x[2] < 0 PROVE FALSE
      BY <2>2
    <3>1. x[2] - i \in 1 .. Len_[x[1]] /\ k - x[2] + (x[2] - i) = n
      BY <1>2, <2>2 DEF k
    <3>2. Byte(buffer_, head_, n) = <<x[1], x[2] - i>>
      BY <2>1, <3>1
    <3>3. Byte(buffer_, head_, n) = <<p, n>>
      BY <1>2
    <3>4. x[1] = p /\ x[2] - i = n
      BY <3>2, <3>3
    <3> QED
      BY <1>2, <2>2, <3>4
  <2>4. Byte(buffer_, head_', i) = x
    BY <1>6 DEF x, k
  <2>5. \A j \in 1 .. Len_[x[1]] : Byte(buffer_, head_', i - x[2] + j) = <<x[1], j>>
    <3> TAKE j \in 1 .. Len_[x[1]]
    <3>1. /\ i - x[2] + j \in 1 .. (size_ - n)
          /\ i - x[2] + j + n = k - x[2] + j
      BY <1>1, <1>2, <2>1, <2>2, <2>3 DEF k
    <3> QED
      BY <1>6, <2>1, <3>1
  <2>6. i - x[2] + Len_[x[1]] <= size_ - n
    BY <1>1, <1>2, <2>1, <2>2 DEF k
  <2> QED
    BY <2>1, <2>3, <2>4, <2>5, <2>6 DEF WholeAt
<1> QED
  BY <1>3, <1>5, <1>6, <1>7 DEF n

-----------------------------------------------------------------------------
(* The calls *)

\* Leaving a call wakes at most one waiting thread and changes no other.
LEMMA NotifyOne ==
    ASSUME TypeOK, NEW t \in Threads, NEW waiting \in SUBSET Threads,
           t \notin waiting, \A w \in waiting : pc[w] = "wait",
           ReturnAndNotifyOne(t, waiting)
    PROVE  /\ pc' \in [Threads -> {"idle", "enter", "wait", "woken"}]
           /\ pc'[t] = "idle"
           /\ \A u \in Threads : pc'[u] # "idle" => pc[u] # "idle"
<1>1. CASE waiting = {}
  BY <1>1 DEF TypeOK, ReturnAndNotifyOne
<1>2. CASE waiting # {}
  <2>1. PICK w \in waiting : pc' = [pc EXCEPT ![t] = "idle", ![w] = "woken"]
    BY <1>2 DEF ReturnAndNotifyOne
  <2> QED
    BY <2>1 DEF TypeOK
<1> QED
  BY <1>1, <1>2

\* A consumer or poller that takes the packet at head_.
LEMMA TakeStep ==
    ASSUME IInv, size_ >= 1, NEW t \in Consumers \cup Pollers, Take(t, PeekedSize),
           need' \in [Consumers -> Nat], NeedInv', UNCHANGED <<packet, enqueued>>
    PROVE  IInv'
<1> USE BufferAssumption
<1>0. TypeOK /\ TailInv /\ ProducerInv /\ NeedInv /\ WholeInv
  BY DEF IInv
<1>1. /\ size_' \in 0 .. capacity_
      /\ head_' \in Slots
      /\ TailInv' /\ WholeInv'
  BY TakeRing DEF Take
<1>2. PeekedSize \in Nat /\ PeekedSize <= size_
  BY <1>0, PacketAtHead
<1>3. out' \in [Consumers \cup Pollers -> Seq(Bytes \cup {Unset})]
  <2>1. \A i \in 1 .. PeekedSize : peek_data(PeekedSize)[i] \in Bytes \cup {Unset}
    <3> TAKE i \in 1 .. PeekedSize
    <3>1. i \in 1 .. capacity_
      BY <1>0, <1>2 DEF TypeOK
    <3>2. Slot(head_, i) \in Slots
      BY <1>0, <3>1, SlotFacts DEF TypeOK
    <3> QED
      BY <1>0, <1>2, <3>2, PeekBytes DEF TypeOK, Byte
  <2>2. peek_data(PeekedSize) = [i \in 1 .. PeekedSize |-> peek_data(PeekedSize)[i]]
    BY DEF peek_data
  <2>3. peek_data(PeekedSize) \in Seq(Bytes \cup {Unset})
    BY <1>2, <2>1, <2>2
  <2> QED
    BY <1>0, <2>3 DEF TypeOK, Take
<1>4. /\ pc' \in [Threads -> {"idle", "enter", "wait", "woken"}]
      /\ \A u \in Threads : pc'[u] # "idle" => pc[u] # "idle"
  <2>1. t \in Threads /\ cv_not_full_ \subseteq Threads /\ t \notin cv_not_full_
    BY DEF Threads, cv_not_full_
  <2>2. \A w \in cv_not_full_ : pc[w] = "wait"
    BY DEF cv_not_full_
  <2> QED
    BY <1>0, <2>1, <2>2, NotifyOne DEF Take
<1>5. ProducerInv'
  BY <1>0, <1>4 DEF ProducerInv, Threads
<1>6. TypeOK'
  BY <1>0, <1>1, <1>3, <1>4 DEF TypeOK, Take
<1> QED
  BY <1>1, <1>5, <1>6 DEF IInv

LEMMA EnqueueStep ==
    ASSUME IInv, NEW t \in Producers, EnqueuePacket(t)
    PROVE  IInv'
<1> USE BufferAssumption
<1> DEFINE p == packet[t]
<1>0. TypeOK /\ TailInv /\ ProducerInv /\ NeedInv /\ WholeInv
  BY DEF IInv
<1>1. p \in Packets
  BY <1>0 DEF ProducerInv, EnqueuePacket
<1>2. CASE Fits(p)
  <2>1. /\ buffer_' = Written(p)
        /\ tail_' = (tail_ + Len_[p]) % capacity_
        /\ size_' = size_ + Len_[p]
        /\ packet' = [packet EXCEPT ![t] = None]
        /\ ReturnAndNotifyOne(t, cv_not_empty_)
        /\ UNCHANGED <<head_, need, out, enqueued>>
    BY <1>2 DEF EnqueuePacket
  <2>2. /\ buffer_' \in [Slots -> Bytes \cup {Unset}]
        /\ size_' \in 0 .. capacity_
        /\ head_' \in Slots /\ tail_' \in Slots
        /\ TailInv' /\ WholeInv'
    BY <1>1, <1>2, <2>1, EnqueueRing
  <2>3. /\ pc' \in [Threads -> {"idle", "enter", "wait", "woken"}]
        /\ pc'[t] = "idle"
        /\ \A u \in Threads : pc'[u] # "idle" => pc[u] # "idle"
    <3>1. t \in Threads /\ cv_not_empty_ \subseteq Threads /\ t \notin cv_not_empty_
      BY DEF Threads, cv_not_empty_
    <3>2. \A w \in cv_not_empty_ : pc[w] = "wait"
      BY DEF cv_not_empty_
    <3> QED
      BY <1>0, <2>1, <3>1, <3>2, NotifyOne
  <2>4. ProducerInv'
    BY <1>0, <2>1, <2>3 DEF TypeOK, ProducerInv, Threads
  <2>5. TypeOK'
    BY <1>0, <2>1, <2>2, <2>3 DEF TypeOK
  <2> QED
    BY <1>0, <2>1, <2>2, <2>4, <2>5 DEF IInv, NeedInv
<1>3. CASE ~Fits(p)
  <2>1. /\ pc' = [pc EXCEPT ![t] = "wait"] /\ pc[t] # "idle"
        /\ UNCHANGED <<ring, packet, need, out, enqueued>>
    BY <1>3 DEF EnqueuePacket, ring
  <2>2. TypeOK' /\ ProducerInv'
    BY <1>0, <2>1 DEF TypeOK, ProducerInv, Threads, ring
  <2> QED
    BY <1>0, <2>1, <2>2 DEF IInv, TailInv, NeedInv, WholeInv, ring
<1> QED
  BY <1>2, <1>3

LEMMA GetStep ==
    ASSUME IInv, NEW t \in Consumers, GetPacket(t)
    PROVE  IInv'
<1> USE BufferAssumption
<1>0. TypeOK /\ NeedInv /\ WholeInv
  BY DEF IInv
<1>1. need[t] = 0
  BY <1>0 DEF NeedInv
<1>2. size_ >= HEADER => Awaited(t) = PeekedSize /\ PeekedSize <= size_ /\ size_ >= 1
  <2>1. size_ >= HEADER => size_ >= 1
    BY <1>0 DEF TypeOK
  <2> QED
    BY <1>0, <1>1, <2>1, PacketAtHead DEF Awaited
<1>3. CASE size_ >= HEADER
  <2>1. Take(t, PeekedSize) /\ need' = [need EXCEPT ![t] = 0] /\ UNCHANGED <<packet, enqueued>>
    BY <1>0, <1>2, <1>3, PacketAtHead DEF GetPacket, TypeOK
  <2>2. need' \in [Consumers -> Nat] /\ NeedInv'
    BY <1>0, <2>1 DEF TypeOK, NeedInv
  <2> QED
    BY <1>2, <1>3, <2>1, <2>2, TakeStep
<1>4. CASE ~(size_ >= HEADER)
  <2>1. Awaited(t) = HEADER
    BY <1>1, <1>4 DEF Awaited
  <2>2. /\ pc' = [pc EXCEPT ![t] = "wait"] /\ need' = [need EXCEPT ![t] = @]
        /\ UNCHANGED <<ring, packet, out, enqueued>>
    BY <1>4, <2>1 DEF GetPacket, ring
  <2>3. need' = need
    BY <1>0, <2>2 DEF TypeOK
  <2>4. TypeOK'
    BY <1>0, <2>2, <2>3 DEF TypeOK, ring
  <2>5. ProducerInv'
    BY <2>2 DEF IInv, TypeOK, ProducerInv, Threads
  <2> QED
    BY <1>0, <2>2, <2>3, <2>4, <2>5 DEF IInv, TailInv, NeedInv, WholeInv, ring
<1> QED
  BY <1>3, <1>4

\* Every step keeps the invariant.
LEMMA IInvStep ==
    ASSUME IInv, [Next]_vars
    PROVE  IInv'
<1> USE BufferAssumption
<1>0. TypeOK /\ TailInv /\ ProducerInv /\ NeedInv /\ WholeInv
  BY DEF IInv
<1>1. ASSUME NEW t \in Producers, NEW p \in Packets, CallEnqueue(t, p)
      PROVE  IInv'
  <2>1. TypeOK' /\ ProducerInv'
    BY <1>0, <1>1 DEF CallEnqueue, TypeOK, ProducerInv, Threads, ring
  <2> QED
    BY <1>0, <1>1, <2>1 DEF CallEnqueue, IInv, TailInv, NeedInv, WholeInv, ring
<1>2. ASSUME NEW t \in Producers, EnqueuePacket(t)
      PROVE  IInv'
  BY <1>2, EnqueueStep
<1>3. ASSUME NEW t \in Consumers, CallGet(t)
      PROVE  IInv'
  <2>1. TypeOK' /\ ProducerInv'
    BY <1>0, <1>3 DEF CallGet, TypeOK, ProducerInv, Threads, ring
  <2> QED
    BY <1>0, <1>3, <2>1 DEF CallGet, IInv, TailInv, NeedInv, WholeInv, ring
<1>4. ASSUME NEW t \in Consumers, GetPacket(t)
      PROVE  IInv'
  BY <1>4, GetStep
<1>5. ASSUME NEW t \in Pollers, TryGetPacket(t)
      PROVE  IInv'
  <2>1. size_ >= 1
    BY <1>0, <1>5 DEF TypeOK, TryGetPacket
  <2>2. need' \in [Consumers -> Nat] /\ NeedInv'
    BY <1>0, <1>5 DEF TypeOK, NeedInv, TryGetPacket
  <2> QED
    BY <1>5, <2>1, <2>2, TakeStep DEF TryGetPacket
<1>6. ASSUME NEW t \in Threads, SpuriousWakeup(t)
      PROVE  IInv'
  <2>1. pc[t] = "wait"
    BY <1>6 DEF SpuriousWakeup, cv_not_full_, cv_not_empty_
  <2>2. TypeOK' /\ ProducerInv'
    BY <1>0, <1>6, <2>1 DEF SpuriousWakeup, TypeOK, ProducerInv, Threads, ring
  <2> QED
    BY <1>0, <1>6, <2>2 DEF SpuriousWakeup, IInv, TailInv, NeedInv, WholeInv, ring
<1>7. ASSUME UNCHANGED vars
      PROVE  IInv'
  <2>1. TypeOK' /\ ProducerInv'
    BY <1>0, <1>7 DEF vars, TypeOK, ProducerInv, ring
  <2> QED
    BY <1>0, <1>7, <2>1 DEF vars, IInv, TailInv, NeedInv, WholeInv, ring
<1> QED
  BY <1>1, <1>2, <1>3, <1>4, <1>5, <1>6, <1>7 DEF Next

LEMMA InitIInv ==
    ASSUME Init PROVE IInv
<1> USE BufferAssumption DEF Init
<1>1. buffer_ \in [Slots -> Bytes \cup {Unset}] /\ head_ \in Slots /\ tail_ \in Slots
  BY DEF Slots
<1>2. out \in [Consumers \cup Pollers -> Seq(Bytes \cup {Unset})]
  BY DEF Init
<1>3. TypeOK
  BY <1>1, <1>2 DEF TypeOK
<1>4. TailInv /\ ProducerInv /\ NeedInv
  BY DEF TailInv, ProducerInv, NeedInv, Threads
<1>5. WholeInv
  BY DEF WholeInv
<1> QED
  BY <1>3, <1>4, <1>5 DEF IInv

-----------------------------------------------------------------------------
(* The theorems *)

\* The inductive invariant; NeedInv in it says that the second wait of GetPacket
\* never waits, since packets are enqueued as a whole.
THEOREM Invariance == Spec => []IInv
<1>1. Init => IInv
  BY InitIInv
<1>2. IInv /\ [Next]_vars => IInv'
  BY IInvStep
<1> QED
  BY <1>1, <1>2, PTL DEF Spec

\* The counters of the ring stay in range at every offset and for every capacity.
THEOREM TypeCorrect == Spec => []TypeOK
<1>1. IInv => TypeOK
  BY DEF IInv
<1> QED
  BY <1>1, Invariance, PTL

\* The bytes between head_ and tail_ are whole packets one after the other,
\* wherever EnqueuePacket wraps and whoever takes them out.
THEOREM RingCorrect == Spec => []RingHoldsWholePackets
<1>1. IInv => RingHoldsWholePackets
  <2> SUFFICES ASSUME IInv, NEW i \in 1 .. size_
               PROVE  /\ Content(i) \in Bytes
                      /\ i = 1 => Content(i)[2] = 1
                      /\ IF Content(i)[2] < Len_[Content(i)[1]]
                         THEN /\ i < size_
                              /\ Content(i + 1) = <<Content(i)[1], Content(i)[2] + 1>>
                         ELSE i < size_ => Content(i + 1)[2] = 1
    BY DEF RingHoldsWholePackets
  <2> USE BufferAssumption, PacketLen
  <2>0. TypeOK /\ WholeInv /\ size_ \in Nat
    BY DEF IInv, TypeOK
  <2> DEFINE x == Byte(buffer_, head_, i)
             y == Byte(buffer_, head_, i + 1)
  <2>1. /\ Content(i) = x
        /\ i < size_ => Content(i + 1) = y
    BY <2>0, PeekBytes DEF Content
  <2>2. /\ x \in Bytes
        /\ 0 <= i - x[2] /\ i - x[2] + Len_[x[1]] <= size_
        /\ \A j \in 1 .. Len_[x[1]] : Byte(buffer_, head_, i - x[2] + j) = <<x[1], j>>
    BY <2>0 DEF WholeInv, WholeAt
  <2>3. x[1] \in Packets /\ x[2] \in Nat /\ 1 <= x[2] /\ x[2] <= Len_[x[1]]
    BY <2>2 DEF Bytes
  <2>4. ASSUME i < size_
        PROVE  /\ y \in Bytes
               /\ 0 <= i + 1 - y[2]
               /\ \A j \in 1 .. Len_[y[1]] :
                     Byte(buffer_, head_, i + 1 - y[2] + j) = <<y[1], j>>
               /\ y[1] \in Packets /\ y[2] \in Nat /\ 1 <= y[2] /\ y[2] <= Len_[y[1]]
    <3>1. WholeAt(buffer_, head_, size_, i + 1)
      BY <2>0, <2>4 DEF WholeInv
    <3>2. y \in Bytes
      BY <3>1 DEF WholeAt
    <3> QED
      BY <3>1, <3>2 DEF WholeAt, Bytes
  <2> HIDE DEF x
  <2>5. i = 1 => x[2] = 1
    BY <2>2, <2>3
  <2>6. ASSUME x[2] < Len_[x[1]]
        PROVE  i < size_ /\ y = <<x[1], x[2] + 1>>
    <3>1. x[2] + 1 \in 1 .. Len_[x[1]] /\ i - x[2] + (x[2] + 1) = i + 1
      BY <2>3, <2>6
    <3>2. Byte(buffer_, head_, i + 1) = <<x[1], x[2] + 1>>
      BY <2>2, <3>1
    <3> QED
      BY <2>0, <2>2, <2>3, <2>6, <3>2
  <2>7. ASSUME ~(x[2] < Len_[x[1]]), i < size_
        PROVE  y[2] = 1
    <3> HIDE DEF y
    <3> SUFFICES ASSUME y[2] # 1 PROVE FALSE
      OBVIOUS
    <3>1. y[2] - 1 \in 1 .. Len_[y[1]] /\ i + 1 - y[2] + (y[2] - 1) = i
      BY <2>4, <2>7
    <3>2. x = <<y[1], y[2] - 1>>
      BY <2>4, <2>7, <3>1 DEF x
    <3> QED
      BY <2>4, <2>7, <3>2
  <2> HIDE DEF y
  <2> QED
    BY <2>0, <2>1, <2>2, <2>5, <2>6, <2>7
<1> QED
  BY <1>1, Invariance, PTL

-----------------------------------------------------------------------------
(* The ring implements PacketQueue: whoever takes a packet gets the oldest one, *)
(* whole.  Two history variables go along with the steps of RoundBuffer and     *)
(* change none of them: the packets in the ring, oldest first, and the position *)
(* of the first byte of each, counted from head_.                               *)

VARIABLES
    queue,  \* history: the packets in the ring
    first   \* history: where each of them begins

history == <<queue, first>>
hvars == <<vars, history>>

HInit == Init /\ queue = << >> /\ first = [k \in {} |-> 0]

Enqueued(p) ==
    /\ queue' = Append(queue, p)
    /\ first' = [k \in 1 .. (Len(queue) + 1) |->
                  IF k <= Len(queue) THEN first[k] ELSE size_ + 1]

Taken(n) ==
    /\ queue' = Tail(queue)
    /\ first' = [k \in 1 .. (Len(queue) - 1) |-> first[k + 1] - n]

HEnqueuePacket(t) ==
    /\ EnqueuePacket(t)
    /\ IF Fits(packet[t]) THEN Enqueued(packet[t]) ELSE UNCHANGED history

HGetPacket(t) ==
    /\ GetPacket(t)
    /\ IF size_ >= Awaited(t) THEN Taken(Awaited(t)) ELSE UNCHANGED history

HTryGetPacket(t) == TryGetPacket(t) /\ Taken(PeekedSize)

HNext ==
    \/ \E t \in Producers, p \in Packets : CallEnqueue(t, p) /\ UNCHANGED history
    \/ \E t \in Producers : HEnqueuePacket(t)
    \/ \E t \in Consumers : CallGet(t) /\ UNCHANGED history
    \/ \E t \in Consumers : HGetPacket(t)
    \/ \E t \in Pollers : HTryGetPacket(t)
    \/ \E t \in Threads : SpuriousWakeup(t) /\ UNCHANGED history

HSpec == HInit /\ [][HNext]_hvars

\* What the last call of each reader handed out, if it is a packet.
received ==
    [t \in Consumers \cup Pollers |->
        IF out[t] = << >> THEN None
        ELSE IF out[t] = PacketBytes(out[t][1][1]) THEN out[t][1][1]
        ELSE "garbled"]

Queue == INSTANCE PacketQueue WITH Consumers <- Consumers \cup Pollers

-------------------------------------------------------------------------------
(* The invariant that relates the history to the ring *)

\* Packet k of the queue lies in the ring from byte first[k] on.
PacketAt(k) ==
    /\ first[k] + Len_[queue[k]] = IF k = Len(queue) THEN size_ + 1 ELSE first[k + 1]
    /\ \A i \in 1 .. Len_[queue[k]] :
          Byte(buffer_, head_, first[k] + i - 1) = <<queue[k], i>>

QueueInv ==
    /\ queue \in Seq(Packets)
    /\ first \in [1 .. Len(queue) -> 1 .. size_]
    /\ queue = << >> <=> size_ = 0
    /\ queue # << >> => first[1] = 1
    /\ \A k \in 1 .. Len(queue) : PacketAt(k)
    /\ \A k, l \in 1 .. Len(queue) : k < l => first[k] + Len_[queue[k]] <= first[l]

HInv == IInv /\ QueueInv

-------------------------------------------------------------------------------
(* Steps *)

\* The history follows steps of the ring.
LEMMA HNextIsNext ==
    ASSUME [HNext]_hvars PROVE [Next]_vars
  BY DEF HNext, hvars, HEnqueuePacket, HGetPacket, HTryGetPacket, Next

\* A packet is appended to the queue.
LEMMA EnqueuedInv ==
    ASSUME HInv, NEW p \in Packets, Fits(p), Enqueued(p),
           buffer_' = Written(p), size_' = size_ + Len_[p], head_' = head_
    PROVE  QueueInv'
<1> USE BufferAssumption, PacketLen
<1>0. TypeOK /\ TailInv /\ QueueInv /\ size_ \in Nat
  BY DEF HInv, IInv, TypeOK
<1> DEFINE m == Len(queue)
<1>1. /\ queue \in Seq(Packets) /\ m \in Nat
      /\ queue \in [1 .. m -> Packets]
      /\ first \in [1 .. m -> 1 .. size_]
  BY <1>0, LenProperties DEF QueueInv
<1>2. /\ queue' \in Seq(Packets) /\ Len(queue') = m + 1
      /\ \A k \in 1 .. m : queue'[k] = queue[k]
      /\ queue'[m + 1] = p
  BY <1>1 DEF Enqueued
<1>3. first' = [k \in 1 .. (m + 1) |-> IF k <= m THEN first[k] ELSE size_ + 1]
  BY DEF Enqueued
<1>4. /\ first' \in [1 .. (m + 1) -> 1 .. size_']
      /\ \A k \in 1 .. m : first'[k] = first[k]
      /\ first'[m + 1] = size_ + 1
  <2> HIDE DEF m
  <2>1. \A k \in 1 .. (m + 1) : first'[k] \in 1 .. size_'
    BY <1>0, <1>1, <1>3
  <2> QED
    BY <1>1, <1>3, <2>1
<1> HIDE DEF m
<1>5. queue' # << >> /\ size_' # 0
  BY <1>0, <1>1, <1>2
<1>6. first'[1] = 1
  <2>1. CASE m = 0
    BY <1>0, <1>1, <1>4, <2>1 DEF QueueInv, m
  <2>2. CASE m # 0
    BY <1>0, <1>1, <1>4, <2>2 DEF QueueInv, m
  <2> QED
    BY <2>1, <2>2
<1>7. ASSUME NEW k \in 1 .. m
      PROVE  /\ queue[k] \in Packets /\ first[k] \in 1 .. size_
             /\ first[k] + Len_[queue[k]] <= size_ + 1
             /\ first[k] + Len_[queue[k]] = IF k = m THEN size_ + 1 ELSE first[k + 1]
             /\ \A i \in 1 .. Len_[queue[k]] :
                   Byte(buffer_, head_, first[k] + i - 1) = <<queue[k], i>>
  <2>1. queue[k] \in Packets /\ first[k] \in 1 .. size_
    BY <1>1
  <2>2. PacketAt(k)
    BY <1>0 DEF QueueInv, m
  <2>3. k # m => first[k + 1] \in 1 .. size_
    BY <1>1
  <2> QED
    BY <1>0, <2>1, <2>2, <2>3 DEF PacketAt, m
<1>8. ASSUME NEW k \in 1 .. (m + 1)
      PROVE  PacketAt(k)'
  <2>1. CASE k \in 1 .. m
    <3>1. queue'[k] = queue[k] /\ first'[k] = first[k]
      BY <1>2, <1>4, <2>1
    <3>2. first[k] + Len_[queue[k]] = first'[k + 1]
      <4>1. k # m => k + 1 \in 1 .. m
        BY <1>1, <2>1
      <4>2. first[k] + Len_[queue[k]] = IF k = m THEN size_ + 1 ELSE first[k + 1]
        BY <1>7, <2>1
      <4> QED
        BY <1>4, <4>1, <4>2
    <3>3. \A i \in 1 .. Len_[queue[k]] :
             Byte(Written(p), head_, first[k] + i - 1) = <<queue[k], i>>
      <4> TAKE i \in 1 .. Len_[queue[k]]
      <4>1. first[k] + i - 1 \in 1 .. size_
        BY <1>0, <1>7, <2>1
      <4> QED
        BY <1>0, <1>7, <2>1, <4>1, WrittenBytes
    <3>4. k # m + 1
      BY <1>1, <2>1
    <3> QED
      BY <1>2, <3>1, <3>2, <3>3, <3>4 DEF PacketAt
  <2>2. CASE k = m + 1
    <3>1. queue'[k] = p /\ first'[k] = size_ + 1
      BY <1>2, <1>4, <2>2
    <3>2. first'[k] + Len_[p] = size_' + 1
      BY <1>0, <3>1
    <3>3. \A i \in 1 .. Len_[p] : Byte(Written(p), head_, size_ + 1 + i - 1) = <<p, i>>
      <4> TAKE i \in 1 .. Len_[p]
      <4>1. size_ + 1 + i - 1 = size_ + i
        BY <1>0
      <4> QED
        BY <1>0, <4>1, WrittenBytes
    <3> QED
      BY <1>2, <2>2, <3>1, <3>2, <3>3 DEF PacketAt
  <2> QED
    BY <1>1, <2>1, <2>2
<1>9. ASSUME NEW k \in 1 .. (m + 1), NEW l \in 1 .. (m + 1), k < l
      PROVE  first'[k] + Len_[queue'[k]] <= first'[l]
  <2>1. k \in 1 .. m
    BY <1>1, <1>9
  <2>2. CASE l = m + 1
    BY <1>2, <1>4, <1>7, <2>1, <2>2
  <2>3. CASE l \in 1 .. m
    <3>1. first[k] + Len_[queue[k]] <= first[l]
      BY <1>0, <1>9, <2>1, <2>3 DEF QueueInv, m
    <3> QED
      BY <1>2, <1>4, <2>1, <2>3, <3>1
  <2> QED
    BY <1>1, <2>2, <2>3
<1> QED
  BY <1>2, <1>4, <1>5, <1>6, <1>8, <1>9 DEF QueueInv

\* The packet at head_ is the oldest of the queue.
LEMMA OldestPacket ==
    ASSUME HInv, size_ >= 1
    PROVE  /\ queue # << >> /\ queue[1] \in Packets
           /\ buffer_[head_][1] = queue[1]
           /\ PeekedSize = Len_[queue[1]]
           /\ peek_data(PeekedSize) = PacketBytes(queue[1])
<1> USE BufferAssumption, PacketLen
<1>0. TypeOK /\ WholeInv /\ QueueInv /\ size_ \in Nat
  BY DEF HInv, IInv, TypeOK
<1>1. queue # << >> /\ queue \in Seq(Packets)
  BY <1>0 DEF QueueInv
<1>2. 1 \in 1 .. Len(queue) /\ queue[1] \in Packets
  BY <1>1, EmptySeq, ElementOfSeq
<1>3. first[1] = 1 /\ PacketAt(1)
  BY <1>0, <1>1, <1>2 DEF QueueInv
<1>4. Byte(buffer_, head_, 1) = <<queue[1], 1>>
  <2>1. 1 \in 1 .. Len_[queue[1]] /\ first[1] + 1 - 1 = 1
    BY <1>2, <1>3
  <2> QED
    BY <1>3, <2>1 DEF PacketAt
<1>5. Byte(buffer_, head_, 1) = buffer_[head_]
  BY <1>0 DEF TypeOK, Byte, Slot, Slots
<1>6. buffer_[head_][1] = queue[1] /\ PeekedSize = Len_[queue[1]]
  BY <1>0, <1>4, <1>5, PacketAtHead
<1>7. \A i \in 1 .. PeekedSize : peek_data(PeekedSize)[i] = <<queue[1], i>>
  BY <1>0, <1>6, PacketAtHead, PeekBytes
<1>8. /\ peek_data(PeekedSize) = [i \in 1 .. PeekedSize |-> peek_data(PeekedSize)[i]]
      /\ PacketBytes(queue[1]) = [i \in 1 .. Len_[queue[1]] |-> <<queue[1], i>>]
  BY DEF peek_data, PacketBytes
<1> QED
  BY <1>1, <1>2, <1>6, <1>7, <1>8

\* The oldest packet is taken out of the queue.
LEMMA TakenInv ==
    ASSUME HInv, size_ >= 1, Taken(PeekedSize),
           head_' = (head_ + PeekedSize) % capacity_, size_' = size_ - PeekedSize,
           UNCHANGED <<buffer_, tail_>>
    PROVE  QueueInv'
<1> USE BufferAssumption, PacketLen
<1> DEFINE m == Len(queue)
           n == Len_[queue[1]]
<1>0. TypeOK /\ QueueInv /\ size_ \in Nat
  BY DEF HInv, IInv, TypeOK
<1>1. queue # << >> /\ queue[1] \in Packets /\ n = PeekedSize
  BY OldestPacket
<1>2. n \in Nat /\ n >= 1
  BY <1>1
<1>3. /\ queue \in Seq(Packets) /\ m \in Nat /\ m >= 1
      /\ queue \in [1 .. m -> Packets]
      /\ first \in [1 .. m -> 1 .. size_]
  BY <1>0, <1>1, LenProperties, EmptySeq DEF QueueInv
<1>4. /\ queue' \in Seq(Packets) /\ Len(queue') = m - 1
      /\ \A k \in 1 .. (m - 1) : queue'[k] = queue[k + 1]
  BY <1>1, <1>3, HeadTailProperties DEF Taken
<1>5. first' = [k \in 1 .. (m - 1) |-> first[k + 1] - n] /\ size_' = size_ - n
  BY <1>1 DEF Taken
<1>6. \A i \in 1 .. (size_ - n) : Byte(buffer_, head_', i) = Byte(buffer_, head_, i + n)
  BY <1>1, TakeRing DEF HInv
<1>7. /\ first[1] = 1
      /\ \A k \in 1 .. m : PacketAt(k)
      /\ \A k, l \in 1 .. m : k < l => first[k] + Len_[queue[k]] <= first[l]
  BY <1>0, <1>1 DEF QueueInv
<1>8. \A k \in 1 .. m : first[k] + Len_[queue[k]] = IF k = m THEN size_ + 1 ELSE first[k + 1]
  BY <1>7 DEF PacketAt
<1> HIDE DEF m, n
<1>9. \A k \in 2 .. m : first[k] \in (n + 1) .. size_
  <2> TAKE k \in 2 .. m
  <2>1. first[1] + Len_[queue[1]] <= first[k] /\ first[k] \in 1 .. size_
    BY <1>3, <1>7
  <2> QED
    BY <1>0, <1>2, <1>7, <2>1 DEF n
<1>10. first' \in [1 .. (m - 1) -> 1 .. size_']
  <2>1. \A k \in 1 .. (m - 1) : first[k + 1] - n \in 1 .. (size_ - n)
    BY <1>0, <1>2, <1>3, <1>9
  <2> QED
    BY <1>5, <2>1
<1>11. queue' = << >> <=> size_' = 0
  <2>1. CASE m = 1
    <3>1. size_' = 0
      BY <1>0, <1>2, <1>5, <1>7, <1>8, <2>1 DEF n
    <3>2. queue' = << >>
      BY <1>4, <2>1, EmptySeq
    <3> QED
      BY <3>1, <3>2
  <2>2. CASE m >= 2
    <3>1. size_' # 0
      BY <1>0, <1>2, <1>5, <1>9, <2>2
    <3>2. queue' # << >>
      <4>1. Len(queue') # 0
        BY <1>3, <1>4, <2>2
      <4> QED
        BY <4>1, EmptySeq
    <3> QED
      BY <3>1, <3>2
  <2> QED
    BY <1>3, <2>1, <2>2
<1>12. queue' # << >> => first'[1] = 1
  <2> SUFFICES ASSUME queue' # << >> PROVE first'[1] = 1
    OBVIOUS
  <2>1. m >= 2
    BY <1>3, <1>4, EmptySeq
  <2>2. first[2] = 1 + n
    BY <1>3, <1>7, <1>8, <2>1 DEF n
  <2> QED
    BY <1>2, <1>3, <1>5, <2>1, <2>2
<1>13. ASSUME NEW k \in 1 .. (m - 1)
       PROVE  PacketAt(k)'
  <2>1. k + 1 \in 2 .. m /\ k + 1 \in 1 .. m
    BY <1>3
  <2>2. queue'[k] = queue[k + 1] /\ first'[k] = first[k + 1] - n
    BY <1>4, <1>5
  <2>3. queue[k + 1] \in Packets /\ first[k + 1] \in (n + 1) .. size_
    BY <1>3, <1>9, <2>1
  <2>4. first'[k] + Len_[queue[k + 1]] = IF k = m - 1 THEN size_' + 1 ELSE first'[k + 1]
    <3>1. CASE k = m - 1
      <4>1. first[k + 1] + Len_[queue[k + 1]] = size_ + 1
        BY <1>3, <1>8, <2>1, <3>1
      <4>2. Len_[queue[k + 1]] \in Nat
        BY <2>3
      <4>3. first[k + 1] - n + Len_[queue[k + 1]] = size_ - n + 1
        BY <1>0, <1>2, <2>3, <4>1, <4>2
      <4> QED
        BY <1>5, <2>2, <3>1, <4>3
    <3>2. CASE k # m - 1
      <4>1. k + 1 \in 1 .. (m - 1) /\ k + 1 # m /\ k + 1 + 1 \in 2 .. m
        BY <1>3, <3>2
      <4>2. first'[k + 1] = first[k + 1 + 1] - n /\ first[k + 1 + 1] \in Nat
        BY <1>2, <1>5, <1>9, <4>1
      <4>3. first[k + 1] + Len_[queue[k + 1]] = first[k + 1 + 1]
        BY <1>8, <2>1, <4>1
      <4> QED
        BY <1>2, <2>2, <2>3, <3>2, <4>2, <4>3
    <3> QED
      BY <3>1, <3>2
  <2>5. ASSUME NEW i \in 1 .. Len_[queue[k + 1]]
        PROVE  Byte(buffer_, head_', first'[k] + i - 1) = <<queue[k + 1], i>>
    <3>1. Byte(buffer_, head_, first[k + 1] + i - 1) = <<queue[k + 1], i>>
      BY <1>7, <2>1 DEF PacketAt
    <3>2. first[k + 1] + Len_[queue[k + 1]] <= size_ + 1
      <4>1. k + 1 # m => first[k + 1 + 1] \in 1 .. size_
        BY <1>3, <2>1
      <4> QED
        BY <1>0, <1>8, <2>1, <4>1
    <3>3. /\ first'[k] + i - 1 \in 1 .. (size_ - n)
          /\ first'[k] + i - 1 + n = first[k + 1] + i - 1
      BY <1>0, <1>2, <2>2, <2>3, <3>2
    <3> QED
      BY <1>6, <3>1, <3>3
  <2> QED
    BY <1>4, <2>2, <2>4, <2>5 DEF PacketAt
<1>14. ASSUME NEW k \in 1 .. (m - 1), NEW l \in 1 .. (m - 1), k < l
       PROVE  first'[k] + Len_[queue'[k]] <= first'[l]
  <2>1. k + 1 \in 2 .. m /\ l + 1 \in 2 .. m /\ k + 1 < l + 1
    BY <1>3, <1>14
  <2>2. first[k + 1] + Len_[queue[k + 1]] <= first[l + 1]
    BY <1>3, <1>7, <2>1
  <2>3. queue[k + 1] \in Packets /\ first[k + 1] \in Nat /\ first[l + 1] \in Nat
    BY <1>2, <1>3, <1>9, <2>1
  <2>4. /\ queue'[k] = queue[k + 1] /\ first'[k] = first[k + 1] - n
        /\ first'[l] = first[l + 1] - n
    BY <1>4, <1>5
  <2> QED
    BY <1>2, <2>2, <2>3, <2>4
<1> QED
  BY <1>4, <1>10, <1>11, <1>12, <1>13, <1>14 DEF QueueInv

-------------------------------------------------------------------------------
(* The theorems *)

\* A call that takes a packet out is a Get of the queue.
LEMMA TakeRefines ==
    ASSUME HInv, size_ >= 1, NEW t \in Consumers \cup Pollers,
           Take(t, PeekedSize), Taken(PeekedSize)
    PROVE  QueueInv' /\ Queue!Get(t)
<1> USE BufferAssumption, PacketLen
<1>1. QueueInv'
  BY TakenInv DEF Take
<1>2. /\ queue # << >> /\ queue[1] \in Packets
      /\ peek_data(PeekedSize) = PacketBytes(queue[1])
  BY OldestPacket
<1> DEFINE b == PacketBytes(queue[1])
<1>3. b # << >> /\ b[1][1] = queue[1]
  <2>1. 1 \in 1 .. Len_[queue[1]]
    BY <1>2
  <2>2. b = [i \in 1 .. Len_[queue[1]] |-> <<queue[1], i>>]
    BY DEF PacketBytes
  <2>3. 1 \in DOMAIN b /\ b[1] = <<queue[1], 1>>
    BY <2>1, <2>2
  <2>4. 1 \notin DOMAIN << >>
    OBVIOUS
  <2> QED
    BY <2>3, <2>4
<1>4. out' = [out EXCEPT ![t] = b] /\ out \in [Consumers \cup Pollers -> Seq(Bytes \cup {Unset})]
  BY <1>2 DEF Take, HInv, IInv, TypeOK
<1> HIDE DEF b
<1>5. received' = [received EXCEPT ![t] = queue[1]]
  <2>1. out'[t] = b /\ \A u \in Consumers \cup Pollers : u # t => out'[u] = out[u]
    BY <1>4
  <2>2. received'[t] = queue[1]
    BY <1>3, <2>1 DEF received, b
  <2>3. \A u \in Consumers \cup Pollers : u # t => received'[u] = received[u]
    BY <2>1 DEF received
  <2>4. /\ received' = [u \in Consumers \cup Pollers |-> received'[u]]
        /\ received = [u \in Consumers \cup Pollers |-> received[u]]
    BY DEF received
  <2> QED
    BY <2>2, <2>3, <2>4
<1>6. queue' = Tail(queue) /\ Head(queue) = queue[1]
  BY DEF Taken
<1> QED
  BY <1>1, <1>2, <1>5, <1>6 DEF Queue!Get

\* Every step of the ring is one of the queue or leaves it unchanged.
LEMMA StepRefines ==
    ASSUME HInv, [HNext]_hvars
    PROVE  HInv' /\ [Queue!Next]_<<queue, received>>
<1> USE BufferAssumption
<1>0. TypeOK /\ NeedInv /\ WholeInv /\ ProducerInv /\ QueueInv
  BY DEF HInv, IInv
<1>1. IInv'
  BY HNextIsNext, IInvStep DEF HInv
\* Steps that move neither packets nor what was handed out.
<1>2. ASSUME UNCHANGED <<ring, out, history>>
      PROVE  QueueInv' /\ UNCHANGED <<queue, received>>
  BY <1>0, <1>2 DEF QueueInv, PacketAt, ring, history, received
<1>3. ASSUME NEW t \in Producers, NEW p \in Packets, CallEnqueue(t, p), UNCHANGED history
      PROVE  QueueInv' /\ UNCHANGED <<queue, received>>
  BY <1>2, <1>3 DEF CallEnqueue
<1>4. ASSUME NEW t \in Producers, HEnqueuePacket(t)
      PROVE  QueueInv' /\ [Queue!Next]_<<queue, received>>
  <2> DEFINE p == packet[t]
  <2>1. p \in Packets
    BY <1>0, <1>4 DEF ProducerInv, HEnqueuePacket, EnqueuePacket
  <2>2. CASE Fits(p)
    <3>1. Enqueued(p) /\ buffer_' = Written(p) /\ size_' = size_ + Len_[p] /\ head_' = head_
      BY <1>4, <2>2 DEF HEnqueuePacket, EnqueuePacket
    <3>2. QueueInv'
      BY <2>1, <2>2, <3>1, EnqueuedInv
    <3>3. out' = out
      BY <1>4 DEF HEnqueuePacket, EnqueuePacket
    <3>4. UNCHANGED received
      BY <3>3 DEF received
    <3>5. Queue!Enqueue(p)
      BY <3>1, <3>4 DEF Enqueued, Queue!Enqueue
    <3> QED
      BY <2>1, <3>2, <3>5 DEF Queue!Next
  <2>3. CASE ~Fits(p)
    BY <1>2, <1>4, <2>3 DEF HEnqueuePacket, EnqueuePacket, ring
  <2> QED
    BY <2>2, <2>3
<1>5. ASSUME NEW t \in Consumers, CallGet(t), UNCHANGED history
      PROVE  QueueInv' /\ UNCHANGED <<queue, received>>
  BY <1>2, <1>5 DEF CallGet
<1>6. ASSUME NEW t \in Consumers, HGetPacket(t)
      PROVE  QueueInv' /\ [Queue!Next]_<<queue, received>>
  <2>1. need[t] = 0
    BY <1>0 DEF NeedInv
  <2>2. CASE size_ >= HEADER
    <3>1. size_ >= 1
      BY <1>0, <2>2 DEF TypeOK
    <3>2. Awaited(t) = PeekedSize /\ size_ >= PeekedSize
      BY <1>0, <2>1, <2>2, <3>1, PacketAtHead DEF Awaited, TypeOK
    <3>3. Take(t, PeekedSize) /\ Taken(PeekedSize)
      BY <1>6, <3>2 DEF HGetPacket, GetPacket
    <3>4. QueueInv' /\ Queue!Get(t)
      BY <3>1, <3>3, TakeRefines
    <3> QED
      BY <3>4 DEF Queue!Next
  <2>3. CASE ~(size_ >= HEADER)
    <3>1. ~(size_ >= Awaited(t))
      BY <2>1, <2>3 DEF Awaited
    <3> QED
      BY <1>2, <1>6, <3>1 DEF HGetPacket, GetPacket
  <2> QED
    BY <2>2, <2>3
<1>7. ASSUME NEW t \in Pollers, HTryGetPacket(t)
      PROVE  QueueInv' /\ [Queue!Next]_<<queue, received>>
  <2>1. size_ >= 1 /\ Take(t, PeekedSize) /\ Taken(PeekedSize)
    BY <1>0, <1>7 DEF TypeOK, HTryGetPacket, TryGetPacket
  <2>2. QueueInv' /\ Queue!Get(t)
    BY <2>1, TakeRefines
  <2> QED
    BY <2>2 DEF Queue!Next
<1>8. ASSUME NEW t \in Threads, SpuriousWakeup(t), UNCHANGED history
      PROVE  QueueInv' /\ UNCHANGED <<queue, received>>
  BY <1>2, <1>8 DEF SpuriousWakeup
<1>9. ASSUME UNCHANGED hvars
      PROVE  QueueInv' /\ UNCHANGED <<queue, received>>
  BY <1>2, <1>9 DEF hvars, vars, ring
<1>10. QueueInv' /\ [Queue!Next]_<<queue, received>>
  BY <1>3, <1>4, <1>5, <1>6, <1>7, <1>8, <1>9 DEF HNext
<1> QED
  BY <1>1, <1>10 DEF HInv

\* MutexRoundBuffer is a FIFO queue of packets: whatever the sizes of packets and
\* ring, whichever threads enqueue, take or poll and whoever is woken, a packet
\* comes out whole, once, and in the order in which it went in.
THEOREM RingIsPacketQueue == HSpec => Queue!Spec
<1>1. HInit => HInv
  <2> SUFFICES ASSUME HInit PROVE HInv
    OBVIOUS
  <2>1. IInv
    BY InitIInv DEF HInit
  <2>2. queue \in Seq(Packets) /\ Len(queue) = 0 /\ size_ = 0
    BY EmptySeq DEF HInit, Init
  <2>3. first \in [1 .. 0 -> 1 .. size_]
    BY DEF HInit
  <2>4. QueueInv
    BY <2>2, <2>3 DEF HInit, QueueInv
  <2> QED
    BY <2>1, <2>4 DEF HInv
<1>2. HInit => Queue!Init
  BY DEF HInit, Init, Queue!Init, received, None, Queue!None
<1>3. HInv /\ [HNext]_hvars => HInv' /\ [Queue!Next]_<<queue, received>>
  BY StepRefines
<1> QED
  BY <1>1, <1>2, <1>3, PTL DEF HSpec, Queue!Spec

===============================================================================
