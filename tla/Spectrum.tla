------------------------------- MODULE Spectrum -------------------------------
(***************************************************************************)
(* The spectrum: an open-addressing table of the balances of all entities, *)
(* changed by the QU_TRANSFER, BURNING and dividend logs that the verifier *)
(* replays, rebuilt at the end of an epoch, with the digest that the       *)
(* network votes on.  The transfer counters of a record are left out: they *)
(* change only together with its transfer ticks.                           *)
(***************************************************************************)
EXTENDS Integers, FiniteSetsExt, DigestTree

CONSTANTS
    PublicKeys,         \* the entities' public keys
    ZeroKey,            \* m256i::zero()
    Home,               \* a key's m256i_u32[0]; the tables take it modulo their size
    SPECTRUM_CAPACITY   \* 2^24

ASSUME SpectrumAssumption ==
    /\ ZeroKey \notin PublicKeys
    /\ Home \in [PublicKeys \cup {ZeroKey} -> Nat]
    /\ SPECTRUM_CAPACITY \in Nat
    /\ \E n \in 1 .. SPECTRUM_CAPACITY : 2 ^ n = SPECTRUM_CAPACITY
    \* a probe of a full table for an absent key does not end
    /\ IsFiniteSet(PublicKeys) /\ Cardinality(PublicKeys) < SPECTRUM_CAPACITY

VARIABLES
    spectrum,
    spectrumDigests,
    spectrumChangeFlags

Entities == 0 .. (SPECTRUM_CAPACITY - 1)

NoEntity == [publicKey |-> ZeroKey, incomingAmount |-> 0, outgoingAmount |-> 0,
             latestIncomingTransferTick |-> 0, latestOutgoingTransferTick |-> 0]

EmptySpectrum == [i \in Entities |-> NoEntity]

\* Linear probing from index home: the first index that is in stops.
Probe(home, capacity, stops) ==
    LET at(j) == (home + j) % capacity
    IN  at(CHOOSE j \in 0 .. (capacity - 1) :
               at(j) \in stops /\ \A h \in 0 .. (j - 1) : at(h) \notin stops)

energy(sp, i) == sp[i].incomingAmount - sp[i].outgoingAmount

\* Where publicKey is stored, or the free slot that a probe for it ends at.
ProbeEntity(sp, publicKey) ==
    Probe(Home[publicKey], SPECTRUM_CAPACITY,
          {i \in Entities : sp[i].publicKey \in {publicKey, ZeroKey}})

spectrumIndex(sp, publicKey) ==
    LET i == ProbeEntity(sp, publicKey)
    IN  IF publicKey # ZeroKey /\ sp[i].publicKey = publicKey THEN i ELSE -1

increaseEnergy(sp, publicKey, amount, tick) ==
    LET i == ProbeEntity(sp, publicKey)
        received == IF sp[i].publicKey = publicKey THEN sp[i].incomingAmount ELSE 0
    IN  IF publicKey = ZeroKey \/ amount < 0 THEN sp
        ELSE [sp EXCEPT ![i] = [@ EXCEPT !.publicKey = publicKey,
                                         !.incomingAmount = received + amount,
                                         !.latestIncomingTransferTick = tick]]

decreaseEnergy(sp, i, amount, tick) ==
    IF amount >= 0 /\ energy(sp, i) >= amount
    THEN [sp EXCEPT ![i] = [@ EXCEPT !.outgoingAmount = sp[i].outgoingAmount + amount,
                                     !.latestOutgoingTransferTick = tick]]
    ELSE sp

\* The balance of publicKey, 0 if it has no record.
Balance(sp, publicKey) ==
    LET i == spectrumIndex(sp, publicKey)
    IN  IF i = -1 THEN 0 ELSE energy(sp, i)

Debit(sp, publicKey, amount, tick) ==
    LET i == spectrumIndex(sp, publicKey)
    IN  IF i = -1 THEN sp ELSE decreaseEnergy(sp, i, amount, tick)

\* The destination is credited whether or not the source could be debited.
processQuTransfer(sp, source, destination, amount, tick) ==
    increaseEnergy(Debit(sp, source, amount, tick), destination, amount, tick)

\* f[0] + ... + f[n - 1].
SumBelow(f, n) ==
    LET sum[k \in 0 .. n] == IF k = 0 THEN 0 ELSE sum[k - 1] + f[k - 1]
    IN  sum[n]

\* The payments are credited one after the other.
Credits(sp, payments, tick) ==
    LET credited[k \in 0 .. Len(payments)] ==
            IF k = 0 THEN sp
            ELSE increaseEnergy(credited[k - 1], payments[k].destination,
                                payments[k].amount, tick)
    IN  credited[Len(payments)]

\* Mutant: the source pays only the first dividend.
processDistributeDividends_FirstAmountOnly(sp, source, payments, tick) ==
    IF payments = <<>> \/ spectrumIndex(sp, source) = -1 THEN sp
    ELSE Credits(Debit(sp, source, payments[1].amount, tick), payments, tick)

\* payments: the transfers between the two dividend messages, one source.
processDistributeDividends(sp, source, payments, tick) ==
    LET amounts == [k \in 0 .. Len(payments) - 1 |-> payments[k + 1].amount]
        total == SumBelow(amounts, Len(payments))
    IN  IF payments = <<>> \/ spectrumIndex(sp, source) = -1 THEN sp
        ELSE Credits(Debit(sp, source, total, tick), payments, tick)

processQuBurn(sp, source, amount, tick) == Debit(sp, source, amount, tick)

\* Mutant: records without a balance are wiped where they are.
reorganizeSpectrum_InPlace(sp) ==
    [i \in Entities |-> IF energy(sp, i) = 0 THEN NoEntity ELSE sp[i]]

\* The record at i is re-entered in the new table if it has a balance.
Reenter(sp, new, i) ==
    IF energy(sp, i) = 0 THEN new
    ELSE [new EXCEPT ![Probe(Home[sp[i].publicKey], SPECTRUM_CAPACITY,
                             {j \in Entities : new[j].publicKey = ZeroKey})] = sp[i]]

\* All records, in index order, in a table that is empty to begin with.
reorganizeSpectrum(sp) ==
    LET new[k \in 0 .. SPECTRUM_CAPACITY] ==
            IF k = 0 THEN EmptySpectrum ELSE Reenter(sp, new[k - 1], k - 1)
    IN  new[SPECTRUM_CAPACITY]

\* Mutant: an entity that only paid is forgotten.
TouchedEntities_IncomingOnly(sp, tickStart, tickEnd) ==
    {i \in Entities : sp[i].latestIncomingTransferTick \in tickStart .. tickEnd}

\* The records whose digest a batch of ticks tickStart .. tickEnd renews.
TouchedEntities(sp, tickStart, tickEnd) ==
    {i \in Entities : \/ sp[i].latestIncomingTransferTick \in tickStart .. tickEnd
                      \/ sp[i].latestOutgoingTransferTick \in tickStart .. tickEnd}

\* leaves: TouchedEntities, or all of them for tickStart = UINT32_MAX.
computeSpectrumDigest(sp, digests, flags, leaves) ==
    UpdateTree(WithLeaves(digests, sp, leaves), flags \cup leaves, SPECTRUM_CAPACITY)
===============================================================================
