---------------------------- MODULE UniverseProofs ----------------------------
(***************************************************************************)
(* Proofs about the universe half of Ledger, for tables of every size, any *)
(* homes of the keys and any sequence of logs.                             *)
(*                                                                         *)
(* A record is told apart by all its fields but the shares: its identity.  *)
(* The identities form an open-addressing table, so Chained of             *)
(* LedgerProofs applies.  An operation puts records one by one; in between *)
(* the shares of an ownership and those of its possessions differ, by what *)
(* Owes keeps account of, and at its end nothing is owed.  A rebuilt table *)
(* comes from the old one by a map of indices; the map is injective, which *)
(* is why the new table never fills up.                                    *)
(***************************************************************************)
EXTENDS LedgerProofs

Types == {"EMPTY", "ISSUANCE", "OWNERSHIP", "POSSESSION"}
AssetRecords ==
    [type : Types, publicKey : Keys, name : Names \cup {NoName},
     managingContractIndex : Nat, ref : Slots, numberOfShares : Nat]
AssetTables == [Slots -> AssetRecords]

\* What tells records apart, all but their shares, and its parts.
Id(r) == <<r.type, r.publicKey, r.name, r.managingContractIndex, r.ref>>
Ids == Types \X Keys \X (Names \cup {NoName}) \X Nat \X Slots
Ty(x) == x[1]
Holder(x) == x[2]
Name(x) == x[3]
Con(x) == x[4]
Ref(x) == x[5]

\* The identity and the shares of the record at an index.
IdOf(tb, i) == Id(tb[i])
SharesOf(tb, i) == tb[i].numberOfShares

NoId == Id(NoAsset)
HomeOf == [x \in Ids |-> Home[Holder(x)]]
IdAt(tb) == [i \in Slots |-> IdOf(tb, i)]

\* The capacity and the indices.
LEMMA UniverseFacts ==
    /\ ASSETS_CAPACITY \in Nat /\ ASSETS_CAPACITY > 0
    /\ Slots = 0 .. (ASSETS_CAPACITY - 1) /\ 0 \in Slots /\ -1 \notin Slots
BY UniverseAssumption DEF Slots

LEMMA CapacityIsNat == ASSETS_CAPACITY \in Nat
BY UniverseAssumption

\* Arithmetic for the provers that do first-order reasoning.
LEMMA SharesArithmetic ==
    \A a, b \in Nat : a + b \in Nat /\ (a >= b => a - b \in Nat) /\ a - b \in Int
OBVIOUS

LEMMA NatIsInt == \A a \in Nat : a \in Int
OBVIOUS

LEMMA Differences ==
    \A a, b \in Int : a - b \in Int /\ a + b \in Int /\ a = b + (a - b) /\ a + 0 = a
OBVIOUS

LEMMA Restates == \A a, b, c, n \in Int : a = b + c => n = b + (c + (n - a))
OBVIOUS

LEMMA Cancels == \A a, b, m, n \in Int : a + b = (a + (n - m)) + (b + (m - n))
OBVIOUS

\* The parts of an identity.
LEMMA IdParts ==
    ASSUME NEW x \in Ids
    PROVE  /\ Ty(x) \in Types /\ Holder(x) \in Keys /\ Name(x) \in Names \cup {NoName}
           /\ Con(x) \in Nat /\ Ref(x) \in Slots
           /\ HomeOf[x] = Home[Holder(x)] /\ HomeOf[x] \in Nat
<1>1. /\ Ty(x) \in Types /\ Holder(x) \in Keys /\ Name(x) \in Names \cup {NoName}
      /\ Con(x) \in Nat /\ Ref(x) \in Slots
  BY DEF Ids, Ty, Holder, Name, Con, Ref
<1>2. HomeOf[x] = Home[Holder(x)] /\ HomeOf[x] \in Nat
  BY <1>1, SpectrumFacts DEF HomeOf
<1> QED
  BY <1>1, <1>2

\* Identities with equal parts are equal.
LEMMA IdsAreEqual ==
    ASSUME NEW x \in Ids, NEW y \in Ids, Ty(x) = Ty(y), Holder(x) = Holder(y),
           Name(x) = Name(y), Con(x) = Con(y), Ref(x) = Ref(y)
    PROVE  x = y
BY DEF Ids, Ty, Holder, Name, Con, Ref

\* The fields of a record are the parts of its identity.
LEMMA IdOfRecord ==
    ASSUME NEW r \in AssetRecords
    PROVE  /\ Id(r) \in Ids /\ r.numberOfShares \in Nat
           /\ r.type = Ty(Id(r)) /\ r.publicKey = Holder(Id(r)) /\ r.name = Name(Id(r))
           /\ r.managingContractIndex = Con(Id(r)) /\ r.ref = Ref(Id(r))
<1>1. /\ r.type \in Types /\ r.publicKey \in Keys /\ r.name \in Names \cup {NoName}
      /\ r.managingContractIndex \in Nat /\ r.ref \in Slots /\ r.numberOfShares \in Nat
  BY DEF AssetRecords
<1> QED
  BY <1>1 DEF Id, Ids, Ty, Holder, Name, Con, Ref

\* The fields of the record at an index.
LEMMA RecordFields ==
    ASSUME NEW tb \in AssetTables, NEW i \in Slots
    PROVE  /\ tb[i] \in AssetRecords
           /\ IdOf(tb, i) \in Ids /\ SharesOf(tb, i) \in Nat /\ IdAt(tb)[i] = IdOf(tb, i)
           /\ tb[i].numberOfShares = SharesOf(tb, i)
           /\ tb[i].type = Ty(IdOf(tb, i)) /\ tb[i].publicKey = Holder(IdOf(tb, i))
           /\ tb[i].name = Name(IdOf(tb, i))
           /\ tb[i].managingContractIndex = Con(IdOf(tb, i)) /\ tb[i].ref = Ref(IdOf(tb, i))
<1> DEFINE r == tb[i]
<1>1. r \in AssetRecords
  BY DEF AssetTables
<1>2. IdAt(tb)[i] = IdOf(tb, i)
  BY DEF IdAt
<1>3. IdOf(tb, i) = Id(r) /\ SharesOf(tb, i) = r.numberOfShares
  BY DEF IdOf, SharesOf
<1> HIDE DEF r
<1>4. /\ Id(r) \in Ids /\ r.numberOfShares \in Nat
      /\ r.type = Ty(Id(r)) /\ r.publicKey = Holder(Id(r)) /\ r.name = Name(Id(r))
      /\ r.managingContractIndex = Con(Id(r)) /\ r.ref = Ref(Id(r))
  BY <1>1, IdOfRecord
<1> QED
  BY <1>1, <1>2, <1>3, <1>4 DEF r

\* The identities of the records that the functions of Asset.h build.
LEMMA BuiltRecord ==
    ASSUME NEW t \in Types, NEW k \in Keys, NEW n \in Names \cup {NoName}, NEW c \in Nat,
           NEW i \in Slots
    PROVE  /\ AssetRecord(t, k, n, c, i) \in AssetRecords
           /\ AssetRecord(t, k, n, c, i).numberOfShares = 0
           /\ Id(AssetRecord(t, k, n, c, i)) = <<t, k, n, c, i>>
BY DEF AssetRecord, AssetRecords, Id

\* The parts of an identity that is written out.
LEMMA PartsOf ==
    ASSUME NEW t, NEW k, NEW n, NEW c, NEW i, NEW x, x = <<t, k, n, c, i>>
    PROVE  Ty(x) = t /\ Holder(x) = k /\ Name(x) = n /\ Con(x) = c /\ Ref(x) = i
BY DEF Ty, Holder, Name, Con, Ref

\* r is a record without shares that has these parts.
IsRecord(r, t, k, n, c, i) ==
    /\ r \in AssetRecords /\ Id(r) \in Ids /\ r.numberOfShares = 0
    /\ Ty(Id(r)) = t /\ Holder(Id(r)) = k /\ Name(Id(r)) = n /\ Con(Id(r)) = c /\ Ref(Id(r)) = i

\* AssetRecord builds a record of these parts.
LEMMA BuiltIsRecord ==
    ASSUME NEW t \in Types, NEW k \in Keys, NEW n \in Names \cup {NoName}, NEW c \in Nat,
           NEW i \in Slots
    PROVE  IsRecord(AssetRecord(t, k, n, c, i), t, k, n, c, i)
<1> DEFINE r == AssetRecord(t, k, n, c, i)
<1>1. r \in AssetRecords /\ r.numberOfShares = 0 /\ Id(r) = <<t, k, n, c, i>>
  BY BuiltRecord
<1> HIDE DEF r
<1>2. Ty(Id(r)) = t /\ Holder(Id(r)) = k /\ Name(Id(r)) = n /\ Con(Id(r)) = c /\ Ref(Id(r)) = i
  BY <1>1, PartsOf
<1>3. Id(r) \in Ids
  BY <1>1, IdOfRecord
<1>4. IsRecord(r, t, k, n, c, i)
  BY <1>1, <1>2, <1>3 DEF IsRecord
<1> QED
  BY <1>4 DEF r

LEMMA IssuanceIs ==
    ASSUME NEW k \in Keys, NEW n \in Names
    PROVE  IsRecord(Issuance(k, n), "ISSUANCE", k, n, 0, 0)
BY UniverseFacts, BuiltIsRecord DEF Issuance, Types

LEMMA OwnershipIs ==
    ASSUME NEW k \in Keys, NEW c \in Nat, NEW i \in Slots
    PROVE  IsRecord(Ownership(k, c, i), "OWNERSHIP", k, NoName, c, i)
BY BuiltIsRecord DEF Ownership, Types

LEMMA PossessionIs ==
    ASSUME NEW k \in Keys, NEW c \in Nat, NEW i \in Slots
    PROVE  IsRecord(Possession(k, c, i), "POSSESSION", k, NoName, c, i)
BY BuiltIsRecord DEF Possession, Types

\* The record of a free slot.
LEMMA NoAssetFacts ==
    /\ NoAsset \in AssetRecords /\ NoAsset.numberOfShares = 0
    /\ NoId \in Ids /\ Ty(NoId) = "EMPTY"
<1>1. NoAsset \in AssetRecords /\ NoAsset.numberOfShares = 0 /\ NoAsset.type = "EMPTY"
  BY UniverseFacts, SpectrumFacts DEF NoAsset, AssetRecord, AssetRecords, Types
<1> QED
  BY <1>1, IdOfRecord DEF NoId

\* A record refers to a record of the right type, with the same managing contract.
MayReferTo(x, y) ==
    /\ Ty(x) = "POSSESSION" => Ty(y) = "OWNERSHIP" /\ Con(y) = Con(x)
    /\ Ty(x) = "OWNERSHIP" => Ty(y) = "ISSUANCE"
RefIsRight(tb, x) == MayReferTo(x, IdOf(tb, Ref(x)))

\* What every universe satisfies, within an operation too.
SoundUniverse(tb) ==
    /\ tb \in AssetTables
    /\ Chained(IdAt(tb), ASSETS_CAPACITY, NoId, HomeOf)
    /\ \A i \in Slots : Ty(IdOf(tb, i)) = "EMPTY" => IdOf(tb, i) = NoId /\ SharesOf(tb, i) = 0
    /\ \A i \in Slots : RefIsRight(tb, IdOf(tb, i))

Free(tb) == {i \in Slots : IdOf(tb, i) = NoId}
HasFree(tb) == Free(tb) # {}

\* Index i is where a search for x in table tb ends.
Found(tb, x, i) ==
    /\ i \in Slots
    /\ Reach(HomeOf[x], ASSETS_CAPACITY, i, Stops(IdAt(tb), ASSETS_CAPACITY, x, NoId))

\* SameRecord compares what Id shows.
LEMMA SameIsId ==
    ASSUME NEW r \in AssetRecords, NEW s \in AssetRecords
    PROVE  SameRecord(r, s) <=> Id(r) = Id(s)
<1> DEFINE r0 == [r EXCEPT !.numberOfShares = 0]
           s0 == [s EXCEPT !.numberOfShares = 0]
<1>1. /\ r0 = [type |-> r.type, publicKey |-> r.publicKey, name |-> r.name,
               managingContractIndex |-> r.managingContractIndex, ref |-> r.ref,
               numberOfShares |-> 0]
      /\ s0 = [type |-> s.type, publicKey |-> s.publicKey, name |-> s.name,
               managingContractIndex |-> s.managingContractIndex, ref |-> s.ref,
               numberOfShares |-> 0]
  BY DEF AssetRecords
<1>2. SameRecord(r, s) <=> r0 = s0
  BY DEF SameRecord
<1> HIDE DEF r0, s0
<1> QED
  BY <1>1, <1>2 DEF Id

\* A slot is free exactly if its record is the empty one.
LEMMA FreeIsNoId ==
    ASSUME NEW tb, SoundUniverse(tb), NEW i \in Slots
    PROVE  /\ IsFree(tb, i) <=> IdOf(tb, i) = NoId
           /\ IdOf(tb, i) = NoId <=> Ty(IdOf(tb, i)) = "EMPTY"
           /\ IdOf(tb, i) = NoId => SharesOf(tb, i) = 0
<1>1. tb \in AssetTables /\ (Ty(IdOf(tb, i)) = "EMPTY" => IdOf(tb, i) = NoId /\ SharesOf(tb, i) = 0)
  BY DEF SoundUniverse
<1>2. tb[i].type = Ty(IdOf(tb, i))
  BY <1>1, RecordFields
<1> QED
  BY <1>1, <1>2, NoAssetFacts DEF IsFree

\* A search ends at what it looks for or at a free slot.
LEMMA FoundIs ==
    ASSUME NEW tb, NEW x, NEW i, Found(tb, x, i)
    PROVE  i \in Slots /\ (IdOf(tb, i) = x \/ IdOf(tb, i) = NoId)
<1>1. i \in Slots /\ i \in Stops(IdAt(tb), ASSETS_CAPACITY, x, NoId)
  BY DEF Found, Reach
<1> QED
  BY <1>1 DEF Stops, IdAt

\* A search ends at one index.
LEMMA FoundOnce ==
    ASSUME NEW tb, NEW x \in Ids, NEW i, NEW j, Found(tb, x, i), Found(tb, x, j)
    PROVE  i = j
<1>1. HomeOf[x] \in Nat
  BY IdParts
<1> QED
  BY <1>1, UniverseFacts, ReachOnce DEF Found

\* Where ProbeAsset ends.
LEMMA ProbeFinds ==
    ASSUME NEW tb, SoundUniverse(tb), HasFree(tb), NEW r \in AssetRecords
    PROVE  Found(tb, Id(r), ProbeAsset(tb, r))
<1> DEFINE S == {i \in Slots : IsFree(tb, i) \/ SameRecord(tb[i], r)}
           home == Home[r.publicKey]
           x == Id(r)
<1>0. tb \in AssetTables
  BY DEF SoundUniverse
<1>1. S = Stops(IdAt(tb), ASSETS_CAPACITY, x, NoId)
  <2>1. ASSUME NEW i \in Slots PROVE i \in S <=> IdAt(tb)[i] \in {x, NoId}
    <3>1. tb[i] \in AssetRecords /\ IdAt(tb)[i] = IdOf(tb, i)
      BY <1>0, RecordFields
    <3>2. SameRecord(tb[i], r) <=> IdOf(tb, i) = x
      BY <3>1, SameIsId DEF IdOf
    <3>3. IsFree(tb, i) <=> IdOf(tb, i) = NoId
      BY FreeIsNoId
    <3> QED
      BY <3>1, <3>2, <3>3
  <2> QED
    BY <2>1 DEF Stops, Slots
<1>2. S # {} /\ S \subseteq 0 .. ASSETS_CAPACITY - 1
  <2>1. PICK i \in Slots : IdOf(tb, i) = NoId
    BY DEF HasFree, Free
  <2> QED
    BY <2>1, FreeIsNoId DEF Slots
<1>3. ProbeAsset(tb, r) = Probe(home, ASSETS_CAPACITY, S)
  BY DEF ProbeAsset
<1>4. x \in Ids /\ home \in Nat /\ HomeOf[x] = home
  BY IdOfRecord, IdParts
<1>5. Reach(home, ASSETS_CAPACITY, ProbeAsset(tb, r), S)
  <2> HIDE DEF S, home
  <2> QED
    BY <1>2, <1>3, <1>4, UniverseFacts, ProbeReaches
<1>6. ProbeAsset(tb, r) \in S
  BY <1>5 DEF Reach
<1>7. ProbeAsset(tb, r) \in Slots
  BY <1>6
<1> HIDE DEF S, home
<1> QED
  BY <1>1, <1>4, <1>5, <1>7 DEF Found

\* Every record is where a search for it ends, so no record is stored twice.
LEMMA StoredIsFound ==
    ASSUME NEW tb, SoundUniverse(tb), NEW i \in Slots, IdOf(tb, i) # NoId
    PROVE  Found(tb, IdOf(tb, i), i)
<1>1. IdAt(tb)[i] = IdOf(tb, i)
  BY DEF IdAt
<1> QED
  BY <1>1 DEF SoundUniverse, Chained, Slots, Found

LEMMA StoredOnce ==
    ASSUME NEW tb, SoundUniverse(tb), NEW i \in Slots, NEW j \in Slots,
           IdOf(tb, i) = IdOf(tb, j), IdOf(tb, i) # NoId
    PROVE  i = j
<1>1. Found(tb, IdOf(tb, i), i) /\ Found(tb, IdOf(tb, i), j)
  BY StoredIsFound
<1>2. IdOf(tb, i) \in Ids
  BY RecordFields DEF SoundUniverse
<1> QED
  BY <1>1, <1>2, FoundOnce

\* What the find functions return.
LEMMA FindIs ==
    ASSUME NEW tb, SoundUniverse(tb), HasFree(tb), NEW r \in AssetRecords, Id(r) # NoId
    PROVE  /\ FindIndex(tb, r) # -1 => FindIndex(tb, r) \in Slots /\ IdOf(tb, FindIndex(tb, r)) = Id(r)
           /\ \A i \in Slots : IdOf(tb, i) = Id(r) => FindIndex(tb, r) = i
<1> DEFINE p == ProbeAsset(tb, r)
<1>1. Found(tb, Id(r), p)
  BY ProbeFinds
<1>2. FindIndex(tb, r) = IF IsFree(tb, p) THEN -1 ELSE p
  BY DEF FindIndex
<1> HIDE DEF p
<1>3. p \in Slots /\ (IdOf(tb, p) = Id(r) \/ IdOf(tb, p) = NoId)
  BY <1>1, FoundIs
<1>4. IsFree(tb, p) <=> IdOf(tb, p) = NoId
  BY <1>3, FreeIsNoId
<1>5. ASSUME NEW i \in Slots, IdOf(tb, i) = Id(r) PROVE FindIndex(tb, r) = i
  <2>1. Found(tb, Id(r), i) /\ Id(r) \in Ids
    BY <1>5, StoredIsFound, IdOfRecord
  <2>2. p = i
    BY <1>1, <2>1, FoundOnce
  <2> QED
    BY <1>2, <1>4, <1>5, <2>2
<1>6. FindIndex(tb, r) # -1 => FindIndex(tb, r) \in Slots /\ IdOf(tb, FindIndex(tb, r)) = Id(r)
  <2>1. CASE IsFree(tb, p)
    <3>1. FindIndex(tb, r) = -1
      BY <1>2, <2>1
    <3> QED
      BY <3>1
  <2>2. CASE ~IsFree(tb, p)
    <3>1. FindIndex(tb, r) = p
      BY <1>2, <2>2, Zenon
    <3> QED
      BY <1>3, <1>4, <2>2, <3>1, Zenon
  <2> QED
    BY <2>1, <2>2
<1> QED
  BY <1>5, <1>6, Zenon
-------------------------------------------------------------------------------
(* Putting a record into the universe *)

\* Table new is tb but for the record at i, which is x with n shares.
Puts(tb, new, i, x, n) ==
    /\ tb \in AssetTables /\ new \in AssetTables
    /\ i \in Slots /\ x \in Ids /\ n \in Nat
    /\ IdOf(new, i) = x /\ SharesOf(new, i) = n
    /\ \A j \in Slots : j # i => IdOf(new, j) = IdOf(tb, j) /\ SharesOf(new, j) = SharesOf(tb, j)

\* Storing a record puts it.
LEMMA PutRecord ==
    ASSUME NEW tb \in AssetTables, NEW i \in Slots, NEW r \in AssetRecords, NEW n \in Nat
    PROVE  Puts(tb, [tb EXCEPT ![i] = [r EXCEPT !.numberOfShares = n]], i, Id(r), n)
<1> DEFINE q == [r EXCEPT !.numberOfShares = n]
           new == [tb EXCEPT ![i] = q]
<1>1. q \in AssetRecords /\ Id(q) = Id(r) /\ q.numberOfShares = n
  BY DEF AssetRecords, Id
<1> HIDE DEF q
<1>2. new \in AssetTables /\ new[i] = q /\ \A j \in Slots : j # i => new[j] = tb[j]
  BY <1>1 DEF AssetTables
<1> HIDE DEF new
<1>3. IdOf(new, i) = Id(r) /\ SharesOf(new, i) = n
  BY <1>1, <1>2 DEF IdOf, SharesOf
<1>4. \A j \in Slots : j # i => IdOf(new, j) = IdOf(tb, j) /\ SharesOf(new, j) = SharesOf(tb, j)
  BY <1>2 DEF IdOf, SharesOf
<1>5. Id(r) \in Ids
  BY IdOfRecord
<1>6. Puts(tb, new, i, Id(r), n)
  BY <1>2, <1>3, <1>4, <1>5 DEF Puts
<1> QED
  BY <1>6 DEF new, q

\* AddShares and SubtractShares put one record.
LEMMA AddPuts ==
    ASSUME NEW tb \in AssetTables, NEW i \in Slots, NEW r \in AssetRecords, NEW n \in Nat
    PROVE  Puts(tb, AddShares(tb, i, r, n), i, Id(r), SharesOf(tb, i) + n)
<1>1. SharesOf(tb, i) \in Nat
  BY RecordFields
<1>2. SharesOf(tb, i) + n \in Nat
  BY <1>1, SharesArithmetic, Zenon
<1>3. AddShares(tb, i, r, n) = [tb EXCEPT ![i] = [r EXCEPT !.numberOfShares = SharesOf(tb, i) + n]]
  BY DEF AddShares, SharesOf
<1>4. Puts(tb, [tb EXCEPT ![i] = [r EXCEPT !.numberOfShares = SharesOf(tb, i) + n]],
           i, Id(r), SharesOf(tb, i) + n)
  BY <1>2, PutRecord, Zenon
<1> QED
  BY <1>3, <1>4, Zenon

LEMMA SubtractPuts ==
    ASSUME NEW tb \in AssetTables, NEW i \in Slots, NEW n \in Nat, SharesOf(tb, i) >= n
    PROVE  Puts(tb, SubtractShares(tb, i, n), i, IdOf(tb, i), SharesOf(tb, i) - n)
<1>1. SharesOf(tb, i) \in Nat /\ tb[i] \in AssetRecords
  BY RecordFields
<1>2. SharesOf(tb, i) - n \in Nat
  BY <1>1, SharesArithmetic, Zenon
<1>3. SubtractShares(tb, i, n)
         = [tb EXCEPT ![i] = [tb[i] EXCEPT !.numberOfShares = SharesOf(tb, i) - n]]
  BY DEF SubtractShares, SharesOf, AssetTables
<1>4. Puts(tb, [tb EXCEPT ![i] = [tb[i] EXCEPT !.numberOfShares = SharesOf(tb, i) - n]],
           i, Id(tb[i]), SharesOf(tb, i) - n)
  BY <1>1, <1>2, PutRecord, Zenon
<1> QED
  BY <1>3, <1>4, Zenon DEF IdOf

\* Where a record may be put: a free slot, or where it is.
Fits(tb, i, x) == IdOf(tb, i) = NoId \/ IdOf(tb, i) = x

\* Records that are there keep their identity.
LEMMA PutKeepsIds ==
    ASSUME NEW tb, NEW new, NEW i, NEW x, NEW n, Puts(tb, new, i, x, n), Fits(tb, i, x),
           NEW k \in Slots, IdOf(tb, k) # NoId
    PROVE  IdOf(new, k) = IdOf(tb, k)
BY DEF Puts, Fits

\* A record that fits leaves all references right: none leads to a free slot.
LEMMA PutKeepsRefs ==
    ASSUME NEW tb, NEW new, NEW i, NEW x, NEW n, Puts(tb, new, i, x, n), Fits(tb, i, x),
           NEW y \in Ids, RefIsRight(tb, y)
    PROVE  RefIsRight(new, y)
<1>1. CASE IdOf(tb, Ref(y)) # NoId
  <2>1. Ref(y) \in Slots
    BY IdParts
  <2>2. IdOf(new, Ref(y)) = IdOf(tb, Ref(y))
    BY <1>1, <2>1, PutKeepsIds
  <2> QED
    BY <2>2 DEF RefIsRight
<1>2. CASE IdOf(tb, Ref(y)) = NoId
  <2>1. Ty(IdOf(tb, Ref(y))) = "EMPTY"
    BY <1>2, NoAssetFacts
  <2>2. Ty(y) # "POSSESSION" /\ Ty(y) # "OWNERSHIP"
    BY <2>1 DEF RefIsRight, MayReferTo
  <2> QED
    BY <2>2 DEF RefIsRight, MayReferTo
<1> QED
  BY <1>1, <1>2

\* A record is put where it fits and where a search for it will find it.
LEMMA PutKeepsSound ==
    ASSUME NEW tb, SoundUniverse(tb), NEW new, NEW i, NEW x, NEW n, Puts(tb, new, i, x, n),
           Fits(tb, i, x), Ty(x) # "EMPTY", RefIsRight(tb, x),
           Chained(IdAt(new), ASSETS_CAPACITY, NoId, HomeOf)
    PROVE  SoundUniverse(new)
<1>1. tb \in AssetTables /\ new \in AssetTables /\ x \in Ids /\ i \in Slots /\ IdOf(new, i) = x
  BY DEF Puts
<1>2. ASSUME NEW j \in Slots, j # i
      PROVE  IdOf(new, j) = IdOf(tb, j) /\ SharesOf(new, j) = SharesOf(tb, j)
  BY <1>2 DEF Puts
<1>3. ASSUME NEW j \in Slots PROVE RefIsRight(new, IdOf(new, j))
  <2>1. RefIsRight(new, x)
    BY <1>1, PutKeepsRefs
  <2>2. RefIsRight(tb, IdOf(tb, j)) /\ IdOf(tb, j) \in Ids
    BY <1>1, RecordFields DEF SoundUniverse
  <2>3. RefIsRight(new, IdOf(tb, j))
    BY <2>2, PutKeepsRefs
  <2> QED
    BY <1>1, <1>2, <2>1, <2>3
<1>4. ASSUME NEW j \in Slots, Ty(IdOf(new, j)) = "EMPTY"
      PROVE  IdOf(new, j) = NoId /\ SharesOf(new, j) = 0
  <2>1. j # i
    BY <1>1, <1>4
  <2>2. IdOf(new, j) = IdOf(tb, j) /\ SharesOf(new, j) = SharesOf(tb, j)
    BY <1>2, <2>1
  <2> QED
    BY <1>4, <2>2 DEF SoundUniverse
<1> QED
  BY <1>1, <1>3, <1>4 DEF SoundUniverse

\* The chains after a record was put where the search for it ended.
LEMMA PutKeepsChains ==
    ASSUME NEW tb, SoundUniverse(tb), NEW new, NEW i, NEW x, NEW n, Puts(tb, new, i, x, n),
           x # NoId, Found(tb, x, i)
    PROVE  Chained(IdAt(new), ASSETS_CAPACITY, NoId, HomeOf)
<1>1. i \in Slots /\ x \in Ids
  BY DEF Puts
<1>2. IdAt(new)[i] = x /\ \A j \in 0 .. ASSETS_CAPACITY - 1 : j # i => IdAt(new)[j] = IdAt(tb)[j]
  BY <1>1 DEF Puts, IdAt, Slots
<1>3. Chained(IdAt(tb), ASSETS_CAPACITY, NoId, HomeOf) /\ i \in 0 .. ASSETS_CAPACITY - 1
  BY <1>1 DEF SoundUniverse, Slots
<1>4. HomeOf[x] \in Nat
  BY <1>1, IdParts
<1>5. Reach(HomeOf[x], ASSETS_CAPACITY, i, Stops(IdAt(tb), ASSETS_CAPACITY, x, NoId))
  BY DEF Found
<1> QED
  BY <1>2, <1>3, <1>4, <1>5, UniverseFacts, ChainedEnter

LEMMA PutFound ==
    ASSUME NEW tb, SoundUniverse(tb), NEW new, NEW i, NEW x, NEW n, Puts(tb, new, i, x, n),
           Found(tb, x, i), Ty(x) # "EMPTY", RefIsRight(tb, x)
    PROVE  SoundUniverse(new) /\ Fits(tb, i, x)
<1>1. Fits(tb, i, x)
  BY FoundIs DEF Fits
<1>2. x # NoId
  BY NoAssetFacts
<1> QED
  BY <1>1, <1>2, PutKeepsChains, PutKeepsSound

-------------------------------------------------------------------------------
(* The shares of the universe *)

\* What record x with n shares adds to the shares possessed of ownership i.
Weight(x, n, i) == IF Ty(x) = "POSSESSION" /\ Ref(x) = i THEN n ELSE 0
PossessedAt(tb, i) == [p \in Slots |-> Weight(IdOf(tb, p), SharesOf(tb, p), i)]
Possessed(tb, i) == SumBelow(PossessedAt(tb, i), ASSETS_CAPACITY)

\* Every ownership has the shares of its possessions, but for what d says; an
\* operation is through with this when d is 0 again.  Free slots are counted in,
\* for the ownerships that may come there.
Owes(tb, d) ==
    /\ d \in [Slots -> Int]
    /\ \A i \in Slots :
          Ty(IdOf(tb, i)) \in {"OWNERSHIP", "EMPTY"} => SharesOf(tb, i) = Possessed(tb, i) + d[i]
Nothing == [i \in Slots |-> 0]

\* What a record adds is a number.
LEMMA WeightType ==
    ASSUME NEW x, NEW n \in Nat, NEW i
    PROVE  Weight(x, n, i) \in Int
BY DEF Weight

\* So is what is possessed.
LEMMA PossessedType ==
    ASSUME NEW tb \in AssetTables, NEW i \in Slots
    PROVE  /\ PossessedAt(tb, i) \in [0 .. ASSETS_CAPACITY - 1 -> Int]
           /\ Possessed(tb, i) \in Int
<1>1. \A p \in Slots : Weight(IdOf(tb, p), SharesOf(tb, p), i) \in Int
  BY RecordFields, WeightType
<1>2. PossessedAt(tb, i) \in [0 .. ASSETS_CAPACITY - 1 -> Int]
  BY <1>1 DEF PossessedAt, Slots
<1> DEFINE f == PossessedAt(tb, i)
           C == ASSETS_CAPACITY
<1>3. C \in Nat /\ f \in [0 .. C - 1 -> Int]
  BY <1>2, CapacityIsNat
<1> HIDE DEF f, C
<1>4. PICK s \in [0 .. C -> Int] : SumBelow(f, C) = s[C]
  BY <1>3, PartialSums
<1>5. SumBelow(f, C) \in Int
  BY <1>3, <1>4
<1> QED
  BY <1>2, <1>5 DEF Possessed, f, C

Moved(tb, new, j, d) ==
    /\ d \in Int /\ Possessed(tb, j) \in Int
    /\ Possessed(new, j) = Possessed(tb, j) + d

\* The shares possessed after one record has changed.
LEMMA PossessedChanges ==
    ASSUME NEW tb, NEW new, NEW i, NEW x, NEW n, Puts(tb, new, i, x, n), NEW j \in Slots,
           NEW d \in Int, Weight(x, n, j) = Weight(IdOf(tb, i), SharesOf(tb, i), j) + d
    PROVE  Moved(tb, new, j, d)
<1> DEFINE f == PossessedAt(tb, j)
           g == PossessedAt(new, j)
<1>1. /\ tb \in AssetTables /\ new \in AssetTables /\ i \in Slots /\ n \in Nat
      /\ IdOf(new, i) = x /\ SharesOf(new, i) = n
      /\ \A k \in Slots : k # i => IdOf(new, k) = IdOf(tb, k) /\ SharesOf(new, k) = SharesOf(tb, k)
  BY DEF Puts
<1>3. f \in [0 .. ASSETS_CAPACITY - 1 -> Int] /\ g \in [0 .. ASSETS_CAPACITY - 1 -> Int]
  BY <1>1, PossessedType
<1>4. g[i] = Weight(x, n, j) /\ f[i] = Weight(IdOf(tb, i), SharesOf(tb, i), j)
  BY <1>1 DEF PossessedAt
<1>5. \A k \in 0 .. ASSETS_CAPACITY - 1 : k # i => g[k] = f[k]
  BY <1>1 DEF PossessedAt, Slots
<1>6. i \in 0 .. ASSETS_CAPACITY - 1
  BY <1>1 DEF Slots
<1> HIDE DEF f, g
<1>7. g[i] = f[i] + d
  BY <1>4, Zenon
<1>8. SumBelow(g, ASSETS_CAPACITY) = SumBelow(f, ASSETS_CAPACITY) + d
  BY <1>3, <1>5, <1>6, <1>7, CapacityIsNat, SumChanges
<1>9. Possessed(tb, j) \in Int
  BY <1>1, PossessedType
<1> QED
  BY <1>8, <1>9, Zenon DEF Possessed, f, g, Moved

Stays(tb, new, j) == Possessed(new, j) = Possessed(tb, j) /\ Possessed(tb, j) \in Int
Weightless(x, n, j) == Weight(x, n, j) = 0

\* A record of no weight changes nothing.
LEMMA PossessedStays ==
    ASSUME NEW tb, NEW new, NEW i, NEW x, NEW n, Puts(tb, new, i, x, n), NEW j \in Slots,
           Weightless(x, n, j), Weightless(IdOf(tb, i), SharesOf(tb, i), j)
    PROVE  Stays(tb, new, j)
<1>1. PICK z \in Int : z = 0
  OBVIOUS
<1>2. Weight(x, n, j) = Weight(IdOf(tb, i), SharesOf(tb, i), j) + z
  BY <1>1 DEF Weightless
<1>3. Moved(tb, new, j, z)
  BY <1>2, PossessedChanges
<1>4. Possessed(tb, j) \in Int /\ Possessed(new, j) = Possessed(tb, j) + 0
  BY <1>1, <1>3, Zenon DEF Moved
<1> QED
  BY <1>4, Differences, Zenon DEF Stays

\* One entry of d.
Owed(d, i, n) == [d EXCEPT ![i] = d[i] + n]

LEMMA OwedIs ==
    ASSUME NEW d \in [Slots -> Int], NEW i \in Slots, NEW n \in Int
    PROVE  /\ Owed(d, i, n) \in [Slots -> Int] /\ Owed(d, i, n)[i] = d[i] + n
           /\ \A k \in Slots : k # i => Owed(d, i, n)[k] = d[k]
BY DEF Owed

\* An ownership gets or loses shares.
LEMMA OwnershipOwes ==
    ASSUME NEW tb, NEW new, NEW i, NEW x, NEW n, Puts(tb, new, i, x, n),
           Fits(tb, i, x), Ty(x) = "OWNERSHIP", NEW d, Owes(tb, d)
    PROVE  Owes(new, Owed(d, i, n - SharesOf(tb, i)))
<1> DEFINE e == Owed(d, i, n - SharesOf(tb, i))
<1>1. /\ tb \in AssetTables /\ new \in AssetTables /\ i \in Slots /\ n \in Nat
      /\ IdOf(new, i) = x /\ SharesOf(new, i) = n
      /\ \A k \in Slots : k # i => IdOf(new, k) = IdOf(tb, k) /\ SharesOf(new, k) = SharesOf(tb, k)
  BY DEF Puts
<1>2. d \in [Slots -> Int] /\ SharesOf(tb, i) \in Nat
  BY <1>1, RecordFields DEF Owes
<1>3. /\ e \in [Slots -> Int] /\ e[i] = d[i] + (n - SharesOf(tb, i))
      /\ \A k \in Slots : k # i => e[k] = d[k]
  <2>1. n - SharesOf(tb, i) \in Int
    BY <1>1, <1>2, SharesArithmetic, Zenon
  <2> QED
    BY <1>1, <1>2, <2>1, OwedIs, Zenon
<1>4. Ty(IdOf(tb, i)) \in {"OWNERSHIP", "EMPTY"}
  BY NoAssetFacts DEF Fits
<1>5. ASSUME NEW j \in Slots PROVE Possessed(new, j) = Possessed(tb, j) /\ Possessed(tb, j) \in Int
  <2>1. Weightless(x, n, j) /\ Weightless(IdOf(tb, i), SharesOf(tb, i), j)
    BY <1>4 DEF Weight, Weightless
  <2>2. Stays(tb, new, j)
    BY <2>1, PossessedStays
  <2> QED
    BY <2>2 DEF Stays
<1> HIDE DEF e
<1>6. ASSUME NEW j \in Slots, Ty(IdOf(new, j)) \in {"OWNERSHIP", "EMPTY"}
      PROVE  SharesOf(new, j) = Possessed(new, j) + e[j]
  <2>1. CASE j = i
    <3>1. SharesOf(tb, i) = Possessed(tb, i) + d[i]
      BY <1>1, <1>4 DEF Owes
    <3>2. d[i] \in Int /\ Possessed(tb, i) \in Int
      BY <1>1, <1>2, <1>5
    <3>3. SharesOf(tb, i) \in Int /\ n \in Int
      BY <1>1, <1>2, NatIsInt, Zenon
    <3>4. n = Possessed(tb, i) + (d[i] + (n - SharesOf(tb, i)))
      BY <3>1, <3>2, <3>3, Restates, Zenon
    <3> QED
      BY <1>1, <1>3, <1>5, <2>1, <3>4, Zenon
  <2>2. CASE j # i
    BY <1>1, <1>3, <1>5, <1>6, <2>2 DEF Owes
  <2> QED
    BY <2>1, <2>2
<1>7. Owes(new, e)
  BY <1>3, <1>6 DEF Owes
<1> QED
  BY <1>7 DEF e

\* A possession gets or loses shares.
LEMMA PossessionOwes ==
    ASSUME NEW tb, NEW new, NEW i, NEW x, NEW n, Puts(tb, new, i, x, n), SoundUniverse(tb),
           Fits(tb, i, x), Ty(x) = "POSSESSION", NEW d, Owes(tb, d), NEW o, o = Ref(x)
    PROVE  Owes(new, Owed(d, o, SharesOf(tb, i) - n))
<1> DEFINE m == SharesOf(tb, i)
           e == Owed(d, o, m - n)
<1>1. /\ tb \in AssetTables /\ new \in AssetTables /\ i \in Slots /\ n \in Nat /\ x \in Ids
      /\ IdOf(new, i) = x /\ SharesOf(new, i) = n
      /\ \A k \in Slots : k # i => IdOf(new, k) = IdOf(tb, k) /\ SharesOf(new, k) = SharesOf(tb, k)
  BY DEF Puts
<1>2. d \in [Slots -> Int] /\ m \in Nat /\ o \in Slots
  BY <1>1, RecordFields, IdParts DEF Owes
<1>3. /\ e \in [Slots -> Int] /\ e[o] = d[o] + (m - n)
      /\ \A k \in Slots : k # o => e[k] = d[k]
  <2> HIDE DEF m
  <2>1. m - n \in Int
    BY <1>1, <1>2, SharesArithmetic, Zenon
  <2> QED
    BY <1>2, <2>1, OwedIs, Zenon
<1>4. ASSUME NEW j \in Slots
      PROVE  /\ j = o => Moved(tb, new, j, n - m)
             /\ j # o => Possessed(new, j) = Possessed(tb, j)
  <2>1. Weight(x, n, j) = IF j = o THEN n ELSE 0
    BY DEF Weight
  <2>2. Weight(IdOf(tb, i), m, j) = IF j = o THEN m ELSE 0
    <3>1. CASE IdOf(tb, i) = x
      BY <3>1 DEF Weight
    <3>2. CASE IdOf(tb, i) = NoId
      <4>1. m = 0 /\ Ty(IdOf(tb, i)) = "EMPTY"
        BY <1>1, <3>2, FreeIsNoId, NoAssetFacts
      <4> QED
        BY <4>1 DEF Weight
    <3> QED
      BY <3>1, <3>2 DEF Fits
  <2>3. m \in Int /\ n \in Int
    BY <1>1, <1>2, NatIsInt, Zenon
  <2>4. CASE j = o
    <3>1. Weight(x, n, j) = n /\ Weight(IdOf(tb, i), m, j) = m
      BY <2>1, <2>2, <2>4, Zenon
    <3>2. n - m \in Int /\ n = m + (n - m)
      BY <2>3, Differences, Zenon
    <3>3. Weight(x, n, j) = Weight(IdOf(tb, i), m, j) + (n - m)
      BY <3>1, <3>2, Zenon
    <3>4. Moved(tb, new, j, n - m)
      BY <3>2, <3>3, PossessedChanges
    <3> QED
      BY <2>4, <3>4, Zenon
  <2>5. CASE j # o
    <3>1. Weightless(x, n, j) /\ Weightless(IdOf(tb, i), m, j)
      BY <2>1, <2>2, <2>5, Zenon DEF Weightless
    <3>2. Stays(tb, new, j)
      BY <3>1, PossessedStays
    <3> QED
      BY <2>5, <3>2 DEF Stays
  <2> QED
    BY <2>4, <2>5
<1> HIDE DEF e
<1>5. ASSUME NEW j \in Slots, Ty(IdOf(new, j)) \in {"OWNERSHIP", "EMPTY"}
      PROVE  SharesOf(new, j) = Possessed(new, j) + e[j]
  <2>1. j # i
    BY <1>1, <1>5
  <2>2. SharesOf(new, j) = Possessed(tb, j) + d[j]
    BY <1>1, <1>5, <2>1 DEF Owes
  <2>3. Possessed(tb, j) \in Int /\ d[j] \in Int /\ m \in Int /\ n \in Int
    <3>1. m \in Int /\ n \in Int
      BY <1>1, <1>2, NatIsInt, Zenon
    <3> HIDE DEF m
    <3> QED
      BY <1>1, <1>2, <3>1, PossessedType
  <2> HIDE DEF m
  <2>4. CASE j = o
    <3>1. Possessed(new, j) = Possessed(tb, j) + (n - m)
      BY <1>4, <2>4, Zenon DEF Moved
    <3>2. e[j] = d[j] + (m - n)
      BY <1>3, <2>4
    <3>3. /\ \E a \in Int : a = Possessed(tb, j)
          /\ \E a \in Int : a = d[j]
          /\ \E a \in Int : a = m
          /\ \E a \in Int : a = n
      BY <2>3, Zenon
    <3>4. PICK a \in Int, b \in Int, u \in Int, v \in Int :
             a = Possessed(tb, j) /\ b = d[j] /\ u = m /\ v = n
      BY <3>3, Zenon
    <3>5. a + b = (a + (v - u)) + (b + (u - v))
      BY Cancels
    <3> QED
      BY <2>2, <3>1, <3>2, <3>4, <3>5, Zenon
  <2>5. CASE j # o
    <3>1. Possessed(new, j) = Possessed(tb, j) /\ e[j] = d[j]
      BY <1>3, <1>4, <2>5
    <3> QED
      BY <2>2, <3>1, Zenon
  <2> QED
    BY <2>4, <2>5
<1>6. Owes(new, e)
  BY <1>3, <1>5 DEF Owes
<1> QED
  BY <1>6 DEF e

\* An issuance has no share in this.
LEMMA IssuanceOwes ==
    ASSUME NEW tb, NEW new, NEW i, NEW x, NEW n, Puts(tb, new, i, x, n),
           Fits(tb, i, x), Ty(x) = "ISSUANCE", NEW d, Owes(tb, d)
    PROVE  Owes(new, d)
<1>1. /\ tb \in AssetTables /\ i \in Slots /\ IdOf(new, i) = x
      /\ \A k \in Slots : k # i => IdOf(new, k) = IdOf(tb, k) /\ SharesOf(new, k) = SharesOf(tb, k)
  BY DEF Puts
<1>2. Ty(IdOf(tb, i)) \in {"ISSUANCE", "EMPTY"}
  BY NoAssetFacts DEF Fits
<1>3. ASSUME NEW j \in Slots PROVE Possessed(new, j) = Possessed(tb, j)
  <2>1. Weightless(x, n, j) /\ Weightless(IdOf(tb, i), SharesOf(tb, i), j)
    BY <1>2 DEF Weight, Weightless
  <2>2. Stays(tb, new, j)
    BY <2>1, PossessedStays
  <2> QED
    BY <2>2 DEF Stays
<1>4. ASSUME NEW j \in Slots, Ty(IdOf(new, j)) \in {"OWNERSHIP", "EMPTY"}
      PROVE  SharesOf(new, j) = Possessed(new, j) + d[j]
  <2>1. j # i
    BY <1>1, <1>4
  <2> QED
    BY <1>1, <1>3, <1>4, <2>1 DEF Owes
<1> QED
  BY <1>4 DEF Owes

\* Room: the number of free slots, of which a record takes at most one.
Room(tb, k) == Cardinality(Free(tb)) > k

\* Free slots can be counted.
LEMMA FreeIsFinite ==
    ASSUME NEW tb
    PROVE  IsFiniteSet(Free(tb)) /\ Cardinality(Free(tb)) \in Nat
<1>1. IsFiniteSet(0 .. (ASSETS_CAPACITY - 1))
  BY UniverseFacts, FS_Interval
<1>2. Free(tb) \in SUBSET (0 .. (ASSETS_CAPACITY - 1))
  BY DEF Free, Slots
<1>3. IsFiniteSet(Free(tb))
  BY <1>1, <1>2, FS_Subset
<1> QED
  BY <1>3, FS_CardinalityType

\* Room for nothing is a free slot.
LEMMA RoomIsFree ==
    ASSUME NEW tb
    PROVE  Room(tb, 0) <=> HasFree(tb)
<1> DEFINE F == Free(tb)
<1>1. IsFiniteSet(F) /\ Cardinality(F) \in Nat
  BY FreeIsFinite
<1> HIDE DEF F
<1>2. Cardinality(F) = 0 <=> F = {}
  BY <1>1, FS_EmptySet
<1>3. Cardinality(F) > 0 <=> F # {}
  BY <1>1, <1>2
<1> QED
  BY <1>3 DEF Room, HasFree, F

LEMMA RoomIsEnough ==
    ASSUME NEW tb, NEW k \in Nat, Room(tb, k)
    PROVE  HasFree(tb)
<1>1. Cardinality(Free(tb)) \in Nat
  BY FreeIsFinite
<1>2. \A a, b \in Nat : a > b => a > 0
  OBVIOUS
<1>3. Room(tb, 0)
  BY <1>1, <1>2, Zenon DEF Room
<1> QED
  BY <1>3, RoomIsFree

\* A record takes one slot at most.
LEMMA PutTakesRoom ==
    ASSUME NEW tb, NEW new, NEW i, NEW x, NEW n, Puts(tb, new, i, x, n), x # NoId,
           NEW k \in Int, Room(tb, k + 1)
    PROVE  Room(new, k)
<1>1. Free(new) = Free(tb) \ {i}
  BY DEF Puts, Free
<1> DEFINE F == Free(tb)
           G == Free(new)
<1>2. /\ IsFiniteSet(F) /\ Cardinality(F) \in Nat /\ Cardinality(G) \in Nat
      /\ Cardinality(F) > k + 1 /\ G = F \ {i}
  BY <1>1, FreeIsFinite DEF Room
<1> HIDE DEF F, G
<1>3. Cardinality(G) = IF i \in F THEN Cardinality(F) - 1 ELSE Cardinality(F)
  BY <1>2, FS_RemoveElement
<1>4. Cardinality(G) > k
  BY <1>2, <1>3
<1> QED
  BY <1>4 DEF Room, G

LEMMA SameIdsSameRoom ==
    ASSUME NEW tb, NEW new, NEW i, NEW x, NEW n, Puts(tb, new, i, x, n), IdOf(tb, i) = x
    PROVE  Free(new) = Free(tb) /\ IdAt(new) = IdAt(tb)
<1>1. \A j \in Slots : IdOf(new, j) = IdOf(tb, j)
  BY DEF Puts
<1> QED
  BY <1>1 DEF Free, IdAt

-------------------------------------------------------------------------------
(* The operations on the universe *)

\* A table that is sound, with d still owed and more than k free slots.
Consistent(tb, d, k) == SoundUniverse(tb) /\ Owes(tb, d) /\ Room(tb, k)

LEMMA ShareSums ==
    /\ \A s, n \in Nat : (s + n) - s = n /\ s - (s + n) = -n
    /\ \A s, n \in Nat : (s - n) - s = -n /\ s - (s - n) = n
OBVIOUS

\* An ownership gets shares where the search for it ends: it owes them.
LEMMA AddOwnership ==
    ASSUME NEW tb, NEW d, NEW k \in Int, Consistent(tb, d, k + 1),
           NEW r \in AssetRecords, Ty(Id(r)) = "OWNERSHIP", RefIsRight(tb, Id(r)),
           NEW i, Found(tb, Id(r), i), NEW n \in Nat
    PROVE  /\ Puts(tb, AddShares(tb, i, r, n), i, Id(r), SharesOf(tb, i) + n)
           /\ Fits(tb, i, Id(r))
           /\ Consistent(AddShares(tb, i, r, n), Owed(d, i, n), k)
<1> DEFINE new == AddShares(tb, i, r, n)
           x == Id(r)
           m == SharesOf(tb, i)
<1>1. SoundUniverse(tb) /\ Owes(tb, d) /\ Room(tb, k + 1) /\ tb \in AssetTables
  BY DEF Consistent, SoundUniverse
<1>2. i \in Slots /\ Fits(tb, i, x)
  BY FoundIs DEF Fits
<1>3. m \in Nat
  BY <1>1, <1>2, RecordFields
<1>4. Puts(tb, new, i, x, m + n)
  BY <1>1, <1>2, AddPuts
<1>5. x # NoId
  BY NoAssetFacts
<1> HIDE DEF new, x, m
<1>6. SoundUniverse(new)
  BY <1>1, <1>4, PutFound DEF x
<1>7. Owes(new, Owed(d, i, (m + n) - SharesOf(tb, i)))
  BY <1>1, <1>2, <1>4, OwnershipOwes DEF x
<1>8. (m + n) - m = n
  BY <1>3, ShareSums, Zenon
<1>9. Owes(new, Owed(d, i, n))
  BY <1>7, <1>8, Zenon DEF m
<1>10. Room(new, k)
  BY <1>1, <1>4, <1>5, PutTakesRoom
<1> QED
  BY <1>2, <1>4, <1>6, <1>9, <1>10 DEF Consistent, new, x, m

\* A possession gets shares: its ownership owes that much less.
LEMMA AddPossession ==
    ASSUME NEW tb, NEW d, NEW k \in Int, Consistent(tb, d, k + 1),
           NEW r \in AssetRecords, Ty(Id(r)) = "POSSESSION", RefIsRight(tb, Id(r)),
           NEW i, Found(tb, Id(r), i), NEW n \in Nat
    PROVE  /\ Puts(tb, AddShares(tb, i, r, n), i, Id(r), SharesOf(tb, i) + n)
           /\ Fits(tb, i, Id(r))
           /\ Consistent(AddShares(tb, i, r, n), Owed(d, Ref(Id(r)), -n), k)
<1> DEFINE new == AddShares(tb, i, r, n)
           x == Id(r)
           o == Ref(x)
           m == SharesOf(tb, i)
<1>1. SoundUniverse(tb) /\ Owes(tb, d) /\ Room(tb, k + 1) /\ tb \in AssetTables
  BY DEF Consistent, SoundUniverse
<1>2. i \in Slots /\ Fits(tb, i, x)
  BY FoundIs DEF Fits
<1>3. m \in Nat
  BY <1>1, <1>2, RecordFields
<1>4. Puts(tb, new, i, x, m + n)
  BY <1>1, <1>2, AddPuts
<1>5. x # NoId
  BY NoAssetFacts
<1> HIDE DEF new, x, m
<1>6. SoundUniverse(new)
  BY <1>1, <1>4, PutFound DEF x
<1>7. Owes(new, Owed(d, o, SharesOf(tb, i) - (m + n)))
  BY <1>1, <1>2, <1>4, PossessionOwes DEF x
<1>8. m - (m + n) = -n
  BY <1>3, ShareSums, Zenon
<1>9. Owes(new, Owed(d, o, -n))
  BY <1>7, <1>8, Zenon DEF m
<1>10. Room(new, k)
  BY <1>1, <1>4, <1>5, PutTakesRoom
<1> QED
  BY <1>2, <1>4, <1>6, <1>9, <1>10 DEF Consistent, new, x, m

\* An issuance is entered where the search for it ends.
LEMMA AddIssuance ==
    ASSUME NEW tb, NEW d, NEW k \in Int, Consistent(tb, d, k + 1),
           NEW r \in AssetRecords, Ty(Id(r)) = "ISSUANCE",
           NEW i, Found(tb, Id(r), i), NEW n \in Nat
    PROVE  /\ Puts(tb, AddShares(tb, i, r, n), i, Id(r), SharesOf(tb, i) + n)
           /\ Fits(tb, i, Id(r))
           /\ Consistent(AddShares(tb, i, r, n), d, k)
<1> DEFINE new == AddShares(tb, i, r, n)
           x == Id(r)
           m == SharesOf(tb, i) + n
<1>1. SoundUniverse(tb) /\ Owes(tb, d) /\ Room(tb, k + 1) /\ tb \in AssetTables
  BY DEF Consistent, SoundUniverse
<1>2. i \in Slots /\ Fits(tb, i, x)
  BY FoundIs DEF Fits
<1>4. Puts(tb, new, i, x, m)
  BY <1>1, <1>2, AddPuts
<1>5. x # NoId /\ RefIsRight(tb, x)
  BY NoAssetFacts DEF RefIsRight, MayReferTo
<1> HIDE DEF new, x, m
<1>6. SoundUniverse(new)
  BY <1>1, <1>4, <1>5, PutFound DEF x
<1>7. Owes(new, d)
  BY <1>1, <1>2, <1>4, IssuanceOwes DEF x
<1>10. Room(new, k)
  BY <1>1, <1>4, <1>5, PutTakesRoom
<1> QED
  BY <1>2, <1>4, <1>6, <1>7, <1>10 DEF Consistent, new, x, m

\* A record loses shares where it is.
LEMMA SubtractStays ==
    ASSUME NEW tb, NEW d, NEW k, Consistent(tb, d, k), NEW i \in Slots, IdOf(tb, i) # NoId,
           NEW n \in Nat, SharesOf(tb, i) >= n
    PROVE  /\ Puts(tb, SubtractShares(tb, i, n), i, IdOf(tb, i), SharesOf(tb, i) - n)
           /\ Fits(tb, i, IdOf(tb, i)) /\ SharesOf(tb, i) \in Nat
           /\ SoundUniverse(SubtractShares(tb, i, n)) /\ Room(SubtractShares(tb, i, n), k)
           /\ IdAt(SubtractShares(tb, i, n)) = IdAt(tb)
<1> DEFINE new == SubtractShares(tb, i, n)
           x == IdOf(tb, i)
           m == SharesOf(tb, i) - n
<1>1. SoundUniverse(tb) /\ Room(tb, k) /\ tb \in AssetTables
  BY DEF Consistent, SoundUniverse
<1>2. Puts(tb, new, i, x, m) /\ SharesOf(tb, i) \in Nat
  BY <1>1, SubtractPuts, RecordFields
<1>3. Found(tb, x, i) /\ Ty(x) # "EMPTY" /\ RefIsRight(tb, x)
  BY <1>1, StoredIsFound, FreeIsNoId DEF SoundUniverse
<1> HIDE DEF new, m
<1>4. SoundUniverse(new) /\ Fits(tb, i, x)
  <2> HIDE DEF x
  <2> QED
    BY <1>1, <1>2, <1>3, PutFound
<1>5. Free(new) = Free(tb) /\ IdAt(new) = IdAt(tb)
  <2>1. IdOf(tb, i) = x
    OBVIOUS
  <2> HIDE DEF x
  <2> QED
    BY <1>2, <2>1, SameIdsSameRoom
<1>6. Room(new, k)
  BY <1>1, <1>5 DEF Room
<1> QED
  BY <1>2, <1>4, <1>5, <1>6 DEF new, m

\* An ownership loses shares: it owes that much less.
LEMMA SubtractOwnership ==
    ASSUME NEW tb, NEW d, NEW k, Consistent(tb, d, k), NEW i \in Slots,
           Ty(IdOf(tb, i)) = "OWNERSHIP", NEW n \in Nat, SharesOf(tb, i) >= n
    PROVE  /\ Puts(tb, SubtractShares(tb, i, n), i, IdOf(tb, i), SharesOf(tb, i) - n)
           /\ IdAt(SubtractShares(tb, i, n)) = IdAt(tb)
           /\ Consistent(SubtractShares(tb, i, n), Owed(d, i, -n), k)
<1> DEFINE new == SubtractShares(tb, i, n)
           m == SharesOf(tb, i)
           x == IdOf(tb, i)
<1>1. x # NoId /\ Owes(tb, d)
  BY NoAssetFacts DEF Consistent
<1>2. /\ Puts(tb, new, i, x, m - n)
      /\ Fits(tb, i, x) /\ m \in Nat /\ SoundUniverse(new) /\ Room(new, k) /\ IdAt(new) = IdAt(tb)
  BY <1>1, SubtractStays
<1> HIDE DEF new, m, x
<1>3. Owes(new, Owed(d, i, (m - n) - SharesOf(tb, i)))
  BY <1>1, <1>2, OwnershipOwes DEF x
<1>4. (m - n) - m = -n
  BY <1>2, ShareSums, Zenon
<1>5. Owes(new, Owed(d, i, -n))
  BY <1>3, <1>4, Zenon DEF m
<1> QED
  BY <1>2, <1>5 DEF Consistent, new, m, x

\* A possession loses shares: its ownership owes them.
LEMMA SubtractPossession ==
    ASSUME NEW tb, NEW d, NEW k, Consistent(tb, d, k), NEW i \in Slots,
           Ty(IdOf(tb, i)) = "POSSESSION", NEW n \in Nat, SharesOf(tb, i) >= n
    PROVE  /\ Puts(tb, SubtractShares(tb, i, n), i, IdOf(tb, i), SharesOf(tb, i) - n)
           /\ IdAt(SubtractShares(tb, i, n)) = IdAt(tb)
           /\ Consistent(SubtractShares(tb, i, n), Owed(d, Ref(IdOf(tb, i)), n), k)
<1> DEFINE new == SubtractShares(tb, i, n)
           m == SharesOf(tb, i)
           x == IdOf(tb, i)
           o == Ref(x)
<1>1. x # NoId /\ Owes(tb, d) /\ SoundUniverse(tb)
  BY NoAssetFacts DEF Consistent
<1>2. /\ Puts(tb, new, i, x, m - n)
      /\ Fits(tb, i, x) /\ m \in Nat /\ SoundUniverse(new) /\ Room(new, k) /\ IdAt(new) = IdAt(tb)
  BY <1>1, SubtractStays
<1> HIDE DEF new, m, x
<1>3. Owes(new, Owed(d, o, SharesOf(tb, i) - (m - n)))
  BY <1>1, <1>2, PossessionOwes DEF x
<1>4. m - (m - n) = n
  BY <1>2, ShareSums, Zenon
<1>5. Owes(new, Owed(d, o, n))
  BY <1>3, <1>4, Zenon DEF m
<1> QED
  BY <1>2, <1>5 DEF Consistent, new, m, x

\* What was owed within an operation is settled at its end.
LEMMA Settled ==
    ASSUME NEW s \in Slots, NEW o \in Slots, NEW n \in Nat
    PROVE  /\ Owed(Owed(Nothing, s, n), s, -n) = Nothing
           /\ Owed(Owed(Nothing, s, -n), s, n) = Nothing
           /\ Owed(Owed(Owed(Owed(Nothing, s, -n), o, n), s, n), o, -n) = Nothing
<1>1. Nothing \in [Slots -> Int] /\ (\A i \in Slots : Nothing[i] = 0) /\ n \in Int /\ -n \in Int
  BY DEF Nothing
<1>2. ASSUME NEW m \in Int, NEW l \in Int, m + l = 0
      PROVE  Owed(Owed(Nothing, s, m), s, l) = Nothing
  BY <1>2 DEF Owed, Nothing
<1> DEFINE a == Owed(Nothing, s, -n)
           b == Owed(a, o, n)
           c == Owed(b, s, n)
           d == Owed(c, o, -n)
<1>3. a \in [Slots -> Int] /\ \A i \in Slots : a[i] = IF i = s THEN -n ELSE 0
  BY <1>1 DEF Owed
<1> HIDE DEF a
<1>4. b \in [Slots -> Int] /\ \A i \in Slots : b[i] = IF i = o THEN a[i] + n ELSE a[i]
  BY <1>1, <1>3 DEF Owed
<1> HIDE DEF b
<1>5. c \in [Slots -> Int] /\ \A i \in Slots : c[i] = IF i = s THEN b[i] + n ELSE b[i]
  BY <1>1, <1>4 DEF Owed
<1> HIDE DEF c
<1>6. d \in [Slots -> Int] /\ \A i \in Slots : d[i] = IF i = o THEN c[i] + (-n) ELSE c[i]
  BY <1>1, <1>5 DEF Owed
<1> HIDE DEF d
<1>7. ASSUME NEW i \in Slots PROVE d[i] = 0
  <2>1. /\ a[i] = IF i = s THEN -n ELSE 0
        /\ b[i] = IF i = o THEN a[i] + n ELSE a[i]
        /\ c[i] = IF i = s THEN b[i] + n ELSE b[i]
        /\ d[i] = IF i = o THEN c[i] + (-n) ELSE c[i]
    BY <1>3, <1>4, <1>5, <1>6
  <2>2. PICK p \in Int, q \in Int, r \in Int, t \in Int : p = a[i] /\ q = b[i] /\ r = c[i] /\ t = d[i]
    BY <1>3, <1>4, <1>5, <1>6
  <2>3. /\ p = IF i = s THEN -n ELSE 0
        /\ q = IF i = o THEN p + n ELSE p
        /\ r = IF i = s THEN q + n ELSE q
        /\ t = IF i = o THEN r + (-n) ELSE r
    BY <2>1, <2>2
  <2>4. t = 0
    BY <2>3
  <2> QED
    BY <2>2, <2>4
<1>8. d = Nothing
  BY <1>6, <1>7 DEF Nothing
<1>9. n + (-n) = 0 /\ (-n) + n = 0
  OBVIOUS
<1> QED
  BY <1>1, <1>2, <1>8, <1>9 DEF a, b, c, d

\* Shares may be taken from ownership s and its possession q.
Takes(tb, s, q, n) ==
    /\ s \in Slots /\ q \in Slots /\ n \in Nat
    /\ Ty(IdOf(tb, s)) = "OWNERSHIP" /\ SharesOf(tb, s) >= n
    /\ Ty(IdOf(tb, q)) = "POSSESSION" /\ SharesOf(tb, q) >= n
    /\ Ref(IdOf(tb, q)) = s

\* Taking them and giving them to nobody, as for the zero key.
LEMMA BurnKeeps ==
    ASSUME NEW tb, NEW k, Consistent(tb, Nothing, k), NEW s, NEW q, NEW n, Takes(tb, s, q, n)
    PROVE  Consistent(SubtractShares(SubtractShares(tb, s, n), q, n), Nothing, k)
<1> DEFINE a1 == SubtractShares(tb, s, n)
           a2 == SubtractShares(a1, q, n)
<1>1. /\ s \in Slots /\ q \in Slots /\ n \in Nat
      /\ Ty(IdOf(tb, s)) = "OWNERSHIP" /\ SharesOf(tb, s) >= n
      /\ Ty(IdOf(tb, q)) = "POSSESSION" /\ SharesOf(tb, q) >= n /\ Ref(IdOf(tb, q)) = s
  BY DEF Takes
<1>2. /\ Puts(tb, a1, s, IdOf(tb, s), SharesOf(tb, s) - n)
      /\ Consistent(a1, Owed(Nothing, s, -n), k)
  BY <1>1, SubtractOwnership
<1> HIDE DEF a1
<1>3. IdOf(a1, q) = IdOf(tb, q) /\ SharesOf(a1, q) = SharesOf(tb, q)
  <2>1. q # s
    BY <1>1
  <2> QED
    BY <1>1, <1>2, <2>1 DEF Puts
<1>4. Consistent(a2, Owed(Owed(Nothing, s, -n), s, n), k)
  BY <1>1, <1>2, <1>3, SubtractPossession
<1> HIDE DEF a2
<1>5. Owed(Owed(Nothing, s, -n), s, n) = Nothing
  BY <1>1, Settled
<1> QED
  BY <1>4, <1>5 DEF a1, a2

\* Taking them and giving them to an owner and a possessor under one contract.
LEMMA MoveKeeps ==
    ASSUME NEW tb, Consistent(tb, Nothing, 2), NEW s, NEW q, NEW n, Takes(tb, s, q, n),
           NEW owner \in Keys, NEW possessor \in Keys, NEW c \in Nat,
           NEW source, source.ownership = s, source.possession = q,
           NEW to, to.owner = owner, to.possessor = possessor,
           to.ownershipContract = c, to.possessionContract = c
    PROVE  Consistent(MoveShares(tb, source, to, n).assets, Nothing, 0)
<1> DEFINE oRec == Ownership(owner, c, tb[s].ref)
           i == ProbeAsset(tb, oRec)
           a1 == SubtractShares(tb, s, n)
           a2 == AddShares(a1, i, oRec, n)
           pRec == Possession(possessor, c, i)
           j == ProbeAsset(a2, pRec)
           a3 == SubtractShares(a2, q, n)
           a4 == AddShares(a3, j, pRec, n)
<1>1. /\ s \in Slots /\ q \in Slots /\ n \in Nat
      /\ Ty(IdOf(tb, s)) = "OWNERSHIP" /\ SharesOf(tb, s) >= n
      /\ Ty(IdOf(tb, q)) = "POSSESSION" /\ SharesOf(tb, q) >= n /\ Ref(IdOf(tb, q)) = s
  BY DEF Takes
<1>2. MoveShares(tb, source, to, n).assets = a4
  BY DEF MoveShares, MoveOwnership, MovePossession, Result
<1>3. SoundUniverse(tb) /\ tb \in AssetTables /\ Room(tb, 2) /\ HasFree(tb)
  BY RoomIsEnough DEF Consistent, SoundUniverse
<1> DEFINE v == tb[s].ref
<1>4. v = Ref(IdOf(tb, s)) /\ v \in Slots /\ Ty(IdOf(tb, v)) = "ISSUANCE"
  BY <1>1, <1>3, RecordFields, IdParts DEF SoundUniverse, RefIsRight, MayReferTo
<1> HIDE DEF v
<1>5. /\ oRec \in AssetRecords
      /\ Ty(Id(oRec)) = "OWNERSHIP" /\ Con(Id(oRec)) = c /\ Ref(Id(oRec)) = v
  <2>1. oRec = Ownership(owner, c, v)
    BY DEF v
  <2> HIDE DEF oRec
  <2> QED
    BY <1>4, <2>1, OwnershipIs DEF IsRecord
<1> HIDE DEF oRec
<1>6. Found(tb, Id(oRec), i)
  BY <1>3, <1>5, ProbeFinds
<1> HIDE DEF i
<1>7. /\ Puts(tb, a1, s, IdOf(tb, s), SharesOf(tb, s) - n) /\ IdAt(a1) = IdAt(tb)
      /\ Consistent(a1, Owed(Nothing, s, -n), 2)
  BY <1>1, SubtractOwnership
<1> HIDE DEF a1
<1>8. Found(a1, Id(oRec), i) /\ i \in Slots
  BY <1>6, <1>7 DEF Found
<1>9. RefIsRight(a1, Id(oRec))
  <2>1. IdOf(a1, v) = IdOf(tb, v)
    BY <1>4, <1>7 DEF Puts
  <2> QED
    BY <1>4, <1>5, <2>1 DEF RefIsRight, MayReferTo
<1>10. /\ Puts(a1, a2, i, Id(oRec), SharesOf(a1, i) + n) /\ Fits(a1, i, Id(oRec))
       /\ Consistent(a2, Owed(Owed(Nothing, s, -n), i, n), 1)
  <2>1. 2 = 1 + 1 /\ 1 \in Int
    OBVIOUS
  <2>2. Consistent(a1, Owed(Nothing, s, -n), 1 + 1)
    BY <1>7, <2>1, Zenon
  <2> QED
    BY <1>1, <1>5, <1>8, <1>9, <2>1, <2>2, AddOwnership, Zenon
<1> HIDE DEF a2
<1>11. IdOf(a2, q) = IdOf(tb, q) /\ SharesOf(a2, q) = SharesOf(tb, q)
  <2>1. q # s
    BY <1>1
  <2>2. IdOf(a1, q) = IdOf(tb, q) /\ SharesOf(a1, q) = SharesOf(tb, q)
    BY <1>1, <1>7, <2>1 DEF Puts
  <2>3. q # i
    BY <1>1, <1>5, <1>10, <2>2, NoAssetFacts DEF Fits
  <2> QED
    BY <1>1, <1>10, <2>2, <2>3 DEF Puts
<1>12. IdOf(a2, i) = Id(oRec) /\ SoundUniverse(a2) /\ HasFree(a2)
  BY <1>10, RoomIsEnough DEF Puts, Consistent
<1>13. /\ pRec \in AssetRecords
       /\ Ty(Id(pRec)) = "POSSESSION" /\ Con(Id(pRec)) = c /\ Ref(Id(pRec)) = i
  <2>1. IsRecord(pRec, "POSSESSION", possessor, NoName, c, i)
    BY <1>8, PossessionIs
  <2> QED
    BY <2>1 DEF IsRecord
<1> HIDE DEF pRec
<1>14. Found(a2, Id(pRec), j)
  BY <1>12, <1>13, ProbeFinds
<1> HIDE DEF j
<1>15. /\ Puts(a2, a3, q, IdOf(a2, q), SharesOf(a2, q) - n) /\ IdAt(a3) = IdAt(a2)
       /\ Consistent(a3, Owed(Owed(Owed(Nothing, s, -n), i, n), s, n), 1)
  BY <1>1, <1>10, <1>11, SubtractPossession
<1> HIDE DEF a3
<1>16. Found(a3, Id(pRec), j) /\ j \in Slots
  BY <1>14, <1>15 DEF Found
<1>17. RefIsRight(a3, Id(pRec))
  <2>1. IdOf(a3, i) = IdOf(a2, i)
    BY <1>8, <1>15 DEF Puts
  <2> QED
    BY <1>5, <1>12, <1>13, <2>1 DEF RefIsRight, MayReferTo
<1>18. Consistent(a4, Owed(Owed(Owed(Owed(Nothing, s, -n), i, n), s, n), i, -n), 0)
  BY <1>1, <1>13, <1>15, <1>16, <1>17, AddPossession
<1> HIDE DEF a4
<1>19. Owed(Owed(Owed(Owed(Nothing, s, -n), i, n), s, n), i, -n) = Nothing
  BY <1>1, <1>8, Settled
<1> QED
  BY <1>2, <1>18, <1>19

\* What CanTakeShares tests.
LEMMA CanTakeIs ==
    ASSUME NEW tb \in AssetTables, NEW s \in Slots, NEW q \in Slots, NEW n \in Nat,
           CanTakeShares(tb, s, q, n)
    PROVE  Takes(tb, s, q, n)
<1>1. /\ tb[s].type = Ty(IdOf(tb, s)) /\ tb[s].numberOfShares = SharesOf(tb, s)
      /\ tb[q].type = Ty(IdOf(tb, q)) /\ tb[q].numberOfShares = SharesOf(tb, q)
      /\ tb[q].ref = Ref(IdOf(tb, q))
  BY RecordFields
<1> QED
  BY <1>1, Zenon DEF CanTakeShares, Takes

\* The contracts of an ownership and of its possession agree.
LEMMA TakesContract ==
    ASSUME NEW tb, SoundUniverse(tb), NEW s, NEW q, NEW n, Takes(tb, s, q, n)
    PROVE  /\ tb[s].managingContractIndex = Con(IdOf(tb, s)) /\ Con(IdOf(tb, s)) \in Nat
           /\ tb[q].managingContractIndex = Con(IdOf(tb, s))
           /\ tb[s].publicKey \in Keys /\ tb[q].publicKey \in Keys
<1>1. s \in Slots /\ q \in Slots /\ tb \in AssetTables
  BY DEF Takes, SoundUniverse
<1>2. /\ tb[s].managingContractIndex = Con(IdOf(tb, s))
      /\ tb[q].managingContractIndex = Con(IdOf(tb, q))
      /\ tb[s].publicKey = Holder(IdOf(tb, s)) /\ tb[q].publicKey = Holder(IdOf(tb, q))
      /\ IdOf(tb, s) \in Ids /\ IdOf(tb, q) \in Ids
  BY <1>1, RecordFields
<1>3. /\ Con(IdOf(tb, s)) \in Nat
      /\ Holder(IdOf(tb, s)) \in Keys /\ Holder(IdOf(tb, q)) \in Keys
  BY <1>2, IdParts
<1>4. RefIsRight(tb, IdOf(tb, q))
  BY <1>1 DEF SoundUniverse
<1>5. Con(IdOf(tb, q)) = Con(IdOf(tb, s))
  BY <1>4 DEF RefIsRight, MayReferTo, Takes
<1> QED
  BY <1>2, <1>3, <1>5

LEMMA RoomLess ==
    ASSUME NEW tb, NEW d, Consistent(tb, d, 2)
    PROVE  Consistent(tb, d, 0)
<1>1. Room(tb, 0)
  BY RoomIsEnough, RoomIsFree DEF Consistent
<1> QED
  BY <1>1 DEF Consistent

\* transferShares: burning, moving and every early return.
LEMMA TransferSharesKeeps ==
    ASSUME NEW tb, Consistent(tb, Nothing, 2), NEW s \in Slots, NEW q \in Slots,
           NEW destination \in Keys, NEW n \in Nat
    PROVE  Consistent(transferShares(tb, s, q, destination, n).assets, Nothing, 0)
<1> DEFINE issuer == tb[tb[s].ref].publicKey
           out == transferShares(tb, s, q, destination, n)
<1>1. Consistent(tb, Nothing, 0) /\ SoundUniverse(tb) /\ tb \in AssetTables
  BY RoomLess DEF Consistent, SoundUniverse
<1>2. Unchanged(tb).assets = tb
  BY DEF Unchanged, Result
<1>3. CASE ~CanTakeShares(tb, s, q, n)
  <2>1. out = Unchanged(tb)
    BY <1>3 DEF transferShares
  <2> QED
    BY <1>1, <1>2, <2>1
<1>4. CASE CanTakeShares(tb, s, q, n) /\ destination = ZeroKey /\ issuer = ZeroKey
  <2>1. out = Unchanged(tb)
    BY <1>4 DEF transferShares
  <2> QED
    BY <1>1, <1>2, <2>1
<1>5. CASE CanTakeShares(tb, s, q, n) /\ destination = ZeroKey /\ issuer # ZeroKey
  <2>1. out = Result(SubtractShares(SubtractShares(tb, s, n), q, n), {s, q})
    BY <1>5 DEF transferShares
  <2>2. out.assets = SubtractShares(SubtractShares(tb, s, n), q, n)
    BY <2>1 DEF Result
  <2>3. Takes(tb, s, q, n)
    BY <1>1, <1>5, CanTakeIs
  <2> QED
    BY <1>1, <2>2, <2>3, BurnKeeps
<1>6. CASE CanTakeShares(tb, s, q, n) /\ destination # ZeroKey
  <2> DEFINE source == [ownership |-> s, possession |-> q]
             to == [owner |-> destination, possessor |-> destination,
                    ownershipContract |-> tb[s].managingContractIndex,
                    possessionContract |-> tb[q].managingContractIndex]
             c == Con(IdOf(tb, s))
  <2>1. out = MoveShares(tb, source, to, n)
    BY <1>6 DEF transferShares
  <2>2. Takes(tb, s, q, n)
    BY <1>1, <1>6, CanTakeIs
  <2>3. /\ source.ownership = s /\ source.possession = q
        /\ to.owner = destination /\ to.possessor = destination
        /\ to.ownershipContract = tb[s].managingContractIndex
        /\ to.possessionContract = tb[q].managingContractIndex
    OBVIOUS
  <2>4. to.ownershipContract = c /\ to.possessionContract = c /\ c \in Nat
    <3> HIDE DEF to
    <3> QED
      BY <1>1, <2>2, <2>3, TakesContract
  <2> HIDE DEF source, to, c, out
  <2>5. Consistent(MoveShares(tb, source, to, n).assets, Nothing, 0)
    BY <2>2, <2>3, <2>4, MoveKeeps
  <2> QED
    BY <2>1, <2>5 DEF out
<1> QED
  BY <1>3, <1>4, <1>5, <1>6

\* transferShareManagementRights.
LEMMA ManagementRightsKeep ==
    ASSUME NEW tb, Consistent(tb, Nothing, 2), NEW s \in Slots, NEW q \in Slots,
           NEW c \in Nat, NEW n \in Nat
    PROVE  Consistent(transferShareManagementRights(tb, s, q, c, n).assets, Nothing, 0)
<1> DEFINE out == transferShareManagementRights(tb, s, q, c, n)
<1>1. Consistent(tb, Nothing, 0) /\ SoundUniverse(tb) /\ tb \in AssetTables
  BY RoomLess DEF Consistent, SoundUniverse
<1>2. CASE ~CanTakeShares(tb, s, q, n)
  <2>1. out = Unchanged(tb)
    BY <1>2 DEF transferShareManagementRights
  <2>2. Unchanged(tb).assets = tb
    BY DEF Unchanged, Result
  <2> QED
    BY <1>1, <2>1, <2>2
<1>3. CASE CanTakeShares(tb, s, q, n)
  <2> DEFINE source == [ownership |-> s, possession |-> q]
             to == [owner |-> tb[s].publicKey, possessor |-> tb[q].publicKey,
                    ownershipContract |-> c, possessionContract |-> c]
             k1 == tb[s].publicKey
             k2 == tb[q].publicKey
  <2>1. out = MoveShares(tb, source, to, n)
    BY <1>3 DEF transferShareManagementRights
  <2>2. Takes(tb, s, q, n)
    BY <1>1, <1>3, CanTakeIs
  <2>3. /\ source.ownership = s /\ source.possession = q
        /\ to.owner = k1 /\ to.possessor = k2
        /\ to.ownershipContract = c /\ to.possessionContract = c
    OBVIOUS
  <2>4. k1 \in Keys /\ k2 \in Keys
    BY <1>1, <2>2, TakesContract
  <2> HIDE DEF source, to, out, k1, k2
  <2>5. Consistent(MoveShares(tb, source, to, n).assets, Nothing, 0)
    BY <2>2, <2>3, <2>4, MoveKeeps
  <2> QED
    BY <2>1, <2>5 DEF out
<1> QED
  BY <1>2, <1>3

\* The index of an ownership that findOwnershipIndex returns.
LEMMA FindOwnershipType ==
    ASSUME NEW tb, SoundUniverse(tb), HasFree(tb), NEW issuer \in Keys, NEW name \in Names,
           NEW owner \in Keys, NEW c \in Nat, NEW o,
           o = findOwnershipIndex(tb, findIssuerIndex(tb, issuer, name), owner, c), o # -1
    PROVE  o \in Slots
<1> DEFINE v == findIssuerIndex(tb, issuer, name)
           r == Issuance(issuer, name)
<1>1. IsRecord(r, "ISSUANCE", issuer, name, 0, 0) /\ v = FindIndex(tb, r)
  BY IssuanceIs DEF findIssuerIndex
<1>2. o = IF v = -1 THEN -1 ELSE FindIndex(tb, Ownership(owner, c, v))
  BY DEF findOwnershipIndex
<1> HIDE DEF v, r
<1>3. v # -1 /\ o = FindIndex(tb, Ownership(owner, c, v))
  BY <1>2
<1>4. r \in AssetRecords /\ Id(r) # NoId
  BY <1>1, NoAssetFacts DEF IsRecord
<1>5. v \in Slots
  BY <1>1, <1>3, <1>4, FindIs
<1> DEFINE t == Ownership(owner, c, v)
<1>6. IsRecord(t, "OWNERSHIP", owner, NoName, c, v)
  BY <1>5, OwnershipIs
<1> HIDE DEF t
<1>7. t \in AssetRecords /\ Id(t) # NoId
  BY <1>6, NoAssetFacts DEF IsRecord
<1> QED
  BY <1>3, <1>7, FindIs DEF t

\* The same of a possession and its ownership, as the replay looks them up.
LEMMA FindPossessionType ==
    ASSUME NEW tb, Consistent(tb, Nothing, 0), NEW issuer \in Keys, NEW name \in Names,
           NEW owner \in Keys, NEW c \in Nat, NEW o, NEW p,
           o = findOwnershipIndex(tb, findIssuerIndex(tb, issuer, name), owner, c),
           p = findPossessionIndex(tb, o, owner, c), p # -1
    PROVE  o \in Slots /\ p \in Slots
<1>1. SoundUniverse(tb) /\ HasFree(tb)
  BY RoomIsFree DEF Consistent
<1>2. o # -1 /\ p = FindIndex(tb, Possession(owner, c, o))
  BY DEF findPossessionIndex
<1>3. o \in Slots
  BY <1>1, <1>2, FindOwnershipType
<1> DEFINE r == Possession(owner, c, o)
<1>4. r \in AssetRecords /\ Id(r) # NoId
  BY <1>3, PossessionIs, NoAssetFacts DEF IsRecord
<1> HIDE DEF r
<1> QED
  BY <1>1, <1>2, <1>3, <1>4, FindIs DEF r

\* transferShareOwnershipAndPossession: the possession is looked up whoever manages it.
LEMMA OwnershipAndPossessionKeep ==
    ASSUME NEW tb, Consistent(tb, Nothing, 2), NEW issuer \in Keys, NEW name \in Names,
           NEW holder \in Keys, NEW n \in Nat, NEW c \in Nat, NEW destination \in Keys
    PROVE  Consistent(transferShareOwnershipAndPossession(tb, name, issuer, holder, n, c,
                                                          destination).assets, Nothing, 0)
<1> DEFINE out == transferShareOwnershipAndPossession(tb, name, issuer, holder, n, c, destination)
           o == findOwnershipIndex(tb, findIssuerIndex(tb, issuer, name), holder, c)
           S == {i \in Slots : \/ IsFree(tb, i)
                               \/ /\ tb[i].type = "POSSESSION"
                                  /\ tb[i].ref = o
                                  /\ tb[i].publicKey = holder}
           q == Probe(Home[holder], ASSETS_CAPACITY, S)
<1>1. Consistent(tb, Nothing, 0) /\ SoundUniverse(tb) /\ HasFree(tb)
  BY RoomLess, RoomIsEnough DEF Consistent
<1> DEFINE can == /\ o # -1
                  /\ ~IsFree(tb, q)
                  /\ tb[q].managingContractIndex = c
                  /\ tb[q].numberOfShares >= n
<1>2. out = IF can THEN transferShares(tb, o, q, destination, n) ELSE Unchanged(tb)
  BY Zenon DEF transferShareOwnershipAndPossession
<1>3. q \in Slots
  <2>1. S # {}
    <3>1. PICK i \in Slots : IdOf(tb, i) = NoId
      BY <1>1 DEF HasFree, Free
    <3> QED
      BY <1>1, <3>1, FreeIsNoId
  <2>2. S \subseteq 0 .. ASSETS_CAPACITY - 1
    BY DEF Slots
  <2>3. Home[holder] \in Nat
    BY SpectrumFacts
  <2> HIDE DEF S
  <2>4. Reach(Home[holder], ASSETS_CAPACITY, q, S)
    BY <2>1, <2>2, <2>3, UniverseFacts, ProbeReaches
  <2>5. q \in S
    BY <2>4 DEF Reach
  <2> QED
    BY <2>2, <2>5 DEF Slots
<1>4. o # -1 => o \in Slots
  BY <1>1, FindOwnershipType
<1> HIDE DEF o, q, S, out
<1>5. CASE ~can
  <2>1. Unchanged(tb).assets = tb
    BY DEF Unchanged, Result
  <2>2. out = Unchanged(tb)
    BY <1>2, <1>5, Zenon
  <2> QED
    BY <1>1, <2>1, <2>2 DEF out
<1>6. CASE can
  <2>1. out = transferShares(tb, o, q, destination, n) /\ o # -1
    BY <1>2, <1>6, Zenon
  <2> HIDE DEF can
  <2> QED
    BY <1>3, <1>4, <2>1, TransferSharesKeeps DEF out
<1> QED
  BY <1>5, <1>6

\* The free slots G without i are searched from the index after i.
Continues(m, i, c, F, G) == m = (i + 1) % c /\ G = F \ {i}

\* Two records of one key, the second entered at the next free slot: the search
\* for it ends there too.
LEMMA ReachNext ==
    ASSUME NEW home \in Nat, NEW c \in Nat, c > 0, NEW F, NEW G, NEW i, NEW k,
           Reach(home, c, i, F), NEW m, Continues(m, i, c, F, G), Reach(m, c, k, G)
    PROVE  Reach(home, c, k, G)
<1>0. m = (i + 1) % c /\ G = F \ {i}
  BY DEF Continues
<1>1. PICK j \in 0 .. c - 1 : /\ (home + j) % c = i
                              /\ \A h \in 0 .. j - 1 : (home + h) % c \notin F
  BY DEF Reach
<1>2. ASSUME NEW h \in 0 .. j PROVE (home + h) % c \notin G
  <2>1. CASE h = j
    BY <1>0, <1>1, <2>1
  <2>2. CASE h # j
    <3>1. h \in 0 .. j - 1
      BY <2>2
    <3> QED
      BY <1>0, <1>1, <3>1
  <2> QED
    BY <2>1, <2>2
<1>3. Reach((((home + j) % c) + 1) % c, c, k, G)
  BY <1>0, <1>1
<1> QED
  BY <1>2, <1>3, ReachOn

\* issueAsset: the record that refers to the one just entered, from the same key.
LEMMA EnterNext ==
    ASSUME NEW tb, SoundUniverse(tb), NEW new, SoundUniverse(new), HasFree(new),
           NEW i, NEW x, NEW n, Puts(tb, new, i, x, n), Found(tb, x, i), IdOf(tb, i) = NoId, x # NoId,
           NEW y \in Ids, Holder(y) = Holder(x), Ref(y) = i, Ty(y) # Ty(x),
           Ty(y) \in {"OWNERSHIP", "POSSESSION"},
           NEW k, k = Probe(Following(i), ASSETS_CAPACITY, {j \in Slots : IsFree(new, j)})
    PROVE  Found(new, y, k) /\ IdOf(new, k) = NoId
<1> DEFINE C == ASSETS_CAPACITY
           F == Free(tb)
           G == Free(new)
<1>1. i \in Slots /\ x \in Ids
  BY DEF Puts
<1>2. HomeOf[x] = Home[Holder(x)] /\ HomeOf[x] \in Nat /\ HomeOf[y] = HomeOf[x]
  BY <1>1, IdParts
<1>3. {j \in Slots : IsFree(new, j)} = G
  BY FreeIsNoId DEF Free
<1>4. G # {} /\ G \subseteq 0 .. C - 1 /\ F \subseteq 0 .. C - 1
  BY DEF HasFree, Free, Slots
<1>5. G = F \ {i}
  BY DEF Puts, Free
<1>6. i \in Nat /\ C \in Nat /\ C > 0 /\ Following(i) \in Nat
  BY <1>1, UniverseFacts DEF Following
<1>7. Reach((i + 1) % C, C, k, G)
  <2> HIDE DEF G
  <2> QED
    BY <1>3, <1>4, <1>6, ProbeReaches DEF Following
<1>8. Reach(HomeOf[x], C, i, F)
  <2>1. F \subseteq Stops(IdAt(tb), C, x, NoId) /\ i \in F
    BY <1>1 DEF Free, Stops, IdAt, Slots
  <2> QED
    BY <1>2, <1>6, <2>1, ReachShrinks DEF Found
<1>9. Reach(HomeOf[x], C, k, G)
  <2> DEFINE m == (i + 1) % C
             home == HomeOf[x]
  <2>1. home \in Nat /\ Reach(m, C, k, G) /\ Reach(home, C, i, F) /\ Continues(m, i, C, F, G)
    BY <1>2, <1>5, <1>7, <1>8 DEF Continues
  <2> HIDE DEF F, G, C, m, home
  <2>2. Reach(home, C, k, G)
    BY <1>6, <2>1, ReachNext
  <2> QED
    BY <2>2 DEF home
<1>10. ASSUME NEW j \in Slots PROVE IdOf(new, j) # y
  <2> SUFFICES ASSUME IdOf(new, j) = y PROVE FALSE
    OBVIOUS
  <2>1. j # i
    BY DEF Puts
  <2>2. IdOf(tb, j) = y
    BY <2>1 DEF Puts
  <2>3. RefIsRight(tb, y)
    BY <2>2 DEF SoundUniverse
  <2>4. Ty(IdOf(tb, i)) = "EMPTY"
    BY NoAssetFacts
  <2> QED
    BY <2>3, <2>4 DEF RefIsRight, MayReferTo
<1>11. G = Stops(IdAt(new), C, y, NoId)
  BY <1>10 DEF Free, Stops, IdAt, Slots
<1>12. k \in G
  BY <1>9 DEF Reach
<1> QED
  BY <1>2, <1>9, <1>11, <1>12 DEF Found, Free

\* issueAsset: the three records, each searched from the one before.
LEMMA IssueAssetKeeps ==
    ASSUME NEW tb, Consistent(tb, Nothing, 3), NEW issuer \in Keys, NEW name \in Names,
           NEW n \in Nat, NEW c \in Nat
    PROVE  Consistent(issueAsset(tb, issuer, name, n, c).assets, Nothing, 0)
<1> DEFINE out == issueAsset(tb, issuer, name, n, c)
           vRec == Issuance(issuer, name)
           v == ProbeAsset(tb, vRec)
           a1 == AddShares(tb, v, vRec, 0)
           o == Probe(Following(v), ASSETS_CAPACITY, {j \in Slots : IsFree(a1, j)})
           oRec == Ownership(issuer, c, v)
           a2 == AddShares(a1, o, oRec, n)
           p == Probe(Following(o), ASSETS_CAPACITY, {j \in Slots : IsFree(a2, j)})
           pRec == Possession(issuer, c, o)
           a3 == AddShares(a2, p, pRec, n)
<1>1. SoundUniverse(tb) /\ HasFree(tb) /\ Room(tb, 3)
  BY RoomIsEnough DEF Consistent
<1>2. out = IF IsFree(tb, v) THEN Result(a3, {v, o, p}) ELSE Unchanged(tb)
  BY Zenon DEF issueAsset
<1>3. IsRecord(vRec, "ISSUANCE", issuer, name, 0, 0)
  BY IssuanceIs
<1> HIDE DEF vRec
<1>4. vRec \in AssetRecords /\ Ty(Id(vRec)) = "ISSUANCE" /\ Holder(Id(vRec)) = issuer
  BY <1>3 DEF IsRecord
<1>5. Found(tb, Id(vRec), v)
  BY <1>1, <1>4, ProbeFinds
<1>6. v \in Slots
  BY <1>5, FoundIs
<1> HIDE DEF v
<1>7. CASE ~IsFree(tb, v)
  <2>1. out = Unchanged(tb)
    BY <1>2, <1>7, Zenon
  <2>2. Unchanged(tb).assets = tb
    BY DEF Unchanged, Result
  <2>3. Consistent(tb, Nothing, 0)
    BY <1>1, RoomIsFree DEF Consistent
  <2> QED
    BY <2>1, <2>2, <2>3
<1>8. CASE IsFree(tb, v)
  <2>0. out.assets = a3
    <3>1. out = Result(a3, {v, o, p})
      BY <1>2, <1>8, Zenon
    <3> HIDE DEF a3
    <3> QED
      BY <3>1 DEF Result
  <2>1. IdOf(tb, v) = NoId
    BY <1>1, <1>6, <1>8, FreeIsNoId
  <2>2. /\ Puts(tb, a1, v, Id(vRec), SharesOf(tb, v) + 0)
        /\ Consistent(a1, Nothing, 2)
    <3>0. 3 = 2 + 1 /\ 2 \in Int /\ 0 \in Nat
      OBVIOUS
    <3>1. Consistent(tb, Nothing, 2 + 1)
      BY <3>0, Zenon
    <3> QED
      BY <1>4, <1>5, <3>0, <3>1, AddIssuance, Zenon
  <2> HIDE DEF a1
  <2>3. SoundUniverse(a1) /\ HasFree(a1) /\ IdOf(a1, v) = Id(vRec) /\ Id(vRec) # NoId
    BY <1>4, <2>2, RoomIsEnough, NoAssetFacts DEF Consistent, Puts
  <2>4. IsRecord(oRec, "OWNERSHIP", issuer, NoName, c, v)
    BY <1>6, OwnershipIs
  <2> HIDE DEF oRec
  <2>5. /\ oRec \in AssetRecords /\ Id(oRec) \in Ids /\ Ty(Id(oRec)) = "OWNERSHIP"
        /\ Holder(Id(oRec)) = issuer /\ Con(Id(oRec)) = c /\ Ref(Id(oRec)) = v
    BY <2>4 DEF IsRecord
  <2>6. Found(a1, Id(oRec), o) /\ IdOf(a1, o) = NoId
    <3> HIDE DEF o
    <3> QED
      BY <1>1, <1>4, <1>5, <2>1, <2>2, <2>3, <2>5, EnterNext DEF o
  <2> HIDE DEF o
  <2>7. o \in Slots /\ RefIsRight(a1, Id(oRec))
    BY <1>4, <2>3, <2>5, <2>6, FoundIs DEF RefIsRight, MayReferTo
  <2>8. /\ Puts(a1, a2, o, Id(oRec), SharesOf(a1, o) + n)
        /\ Consistent(a2, Owed(Nothing, o, n), 1)
    <3>1. Consistent(a1, Nothing, 1 + 1)
      BY <2>2
    <3> QED
      BY <2>5, <2>6, <2>7, <3>1, AddOwnership
  <2> HIDE DEF a2
  <2>9. SoundUniverse(a2) /\ HasFree(a2) /\ IdOf(a2, o) = Id(oRec) /\ Id(oRec) # NoId
    BY <2>5, <2>8, RoomIsEnough, NoAssetFacts DEF Consistent, Puts
  <2>10. IsRecord(pRec, "POSSESSION", issuer, NoName, c, o)
    BY <2>7, PossessionIs
  <2> HIDE DEF pRec
  <2>11. /\ pRec \in AssetRecords /\ Id(pRec) \in Ids /\ Ty(Id(pRec)) = "POSSESSION"
         /\ Holder(Id(pRec)) = issuer /\ Con(Id(pRec)) = c /\ Ref(Id(pRec)) = o
    BY <2>10 DEF IsRecord
  <2>12. Found(a2, Id(pRec), p)
    <3> HIDE DEF p
    <3> QED
      BY <2>3, <2>5, <2>6, <2>8, <2>9, <2>11, EnterNext DEF p
  <2> HIDE DEF p
  <2>13. RefIsRight(a2, Id(pRec))
    BY <2>5, <2>9, <2>11 DEF RefIsRight, MayReferTo
  <2>14. Consistent(a3, Owed(Owed(Nothing, o, n), o, -n), 0)
    <3>1. Consistent(a2, Owed(Nothing, o, n), 0 + 1)
      BY <2>8
    <3> QED
      BY <2>11, <2>12, <2>13, <3>1, AddPossession
  <2> HIDE DEF a3
  <2>15. Owed(Owed(Nothing, o, n), o, -n) = Nothing
    BY <2>7, Settled
  <2> QED
    BY <2>0, <2>14, <2>15
<1> QED
  BY <1>7, <1>8

-------------------------------------------------------------------------------
(* The empty universe *)

\* A sum of zeros.
LEMMA SumOfZeros ==
    ASSUME NEW n \in Nat, NEW f \in [0 .. n - 1 -> Int], \A k \in 0 .. n - 1 : f[k] = 0
    PROVE  SumBelow(f, n) = 0
<1>1. PICK s \in [0 .. n -> Int] :
         /\ SumBelow(f, n) = s[n] /\ s[0] = 0
         /\ \A k \in 1 .. n : s[k] = s[k - 1] + f[k - 1]
  BY PartialSums
<1> DEFINE T == {k \in 0 .. n : s[k] = 0}
<1>2. 0 \in T
  BY <1>1
<1>3. ASSUME NEW k \in 1 .. n, k - 1 \in T PROVE k \in T
  BY <1>1, <1>3
<1>4. \A k \in 0 .. n : k \in T
  <2> HIDE DEF T
  <2> QED
    BY <1>2, <1>3, Induct
<1> QED
  BY <1>1, <1>4

\* The empty universe is consistent, with room for an asset.
LEMMA EmptyIsConsistent == Consistent(EmptyUniverse, Nothing, 3)
<1> DEFINE tb == EmptyUniverse
<1>1. tb \in AssetTables /\ \A i \in Slots : tb[i] = NoAsset
  BY NoAssetFacts DEF EmptyUniverse, AssetTables
<1> HIDE DEF tb
<1>2. \A i \in Slots : IdOf(tb, i) = NoId /\ SharesOf(tb, i) = 0
  BY <1>1, NoAssetFacts DEF IdOf, SharesOf, NoId
<1>3. SoundUniverse(tb)
  <2>1. Chained(IdAt(tb), ASSETS_CAPACITY, NoId, HomeOf)
    BY <1>2 DEF Chained, IdAt, Slots
  <2>2. \A i \in Slots : RefIsRight(tb, IdOf(tb, i))
    BY <1>2, NoAssetFacts DEF RefIsRight, MayReferTo
  <2> QED
    BY <1>1, <1>2, <2>1, <2>2 DEF SoundUniverse
<1>4. Owes(tb, Nothing)
  <2>1. ASSUME NEW i \in Slots PROVE Possessed(tb, i) = 0
    <3> DEFINE f == PossessedAt(tb, i)
               C == ASSETS_CAPACITY
    <3>1. f \in [0 .. C - 1 -> Int] /\ C \in Nat
      BY <1>1, PossessedType, CapacityIsNat
    <3>2. \A k \in 0 .. C - 1 : f[k] = 0
      BY <1>2, NoAssetFacts DEF PossessedAt, Weight, Slots
    <3> HIDE DEF f, C
    <3>3. SumBelow(f, C) = 0
      BY <3>1, <3>2, SumOfZeros
    <3> QED
      BY <3>3 DEF Possessed, f, C
  <2>2. Nothing \in [Slots -> Int] /\ \A i \in Slots : Nothing[i] = 0
    BY DEF Nothing
  <2>3. ASSUME NEW i \in Slots PROVE SharesOf(tb, i) = Possessed(tb, i) + Nothing[i]
    <3>1. 0 = 0 + 0
      OBVIOUS
    <3> QED
      BY <1>2, <2>1, <2>2, <3>1, Zenon
  <2> QED
    BY <2>2, <2>3 DEF Owes
<1>5. Room(tb, 3)
  <2>1. Free(tb) = 0 .. (ASSETS_CAPACITY - 1)
    BY <1>2 DEF Free, Slots
  <2>2. Cardinality(0 .. (ASSETS_CAPACITY - 1)) = ASSETS_CAPACITY /\ ASSETS_CAPACITY >= 4
    BY UniverseAssumption, FS_Interval
  <2> QED
    BY <2>1, <2>2, CapacityIsNat DEF Room
<1> QED
  BY <1>3, <1>4, <1>5 DEF Consistent, tb

-------------------------------------------------------------------------------
(* Rebuilding the universe *)

\* y is x with the index that it refers to rewritten: g leads from the indices of
\* the new table to those of the old one.
Like(x, y, g) ==
    /\ Ty(x) = Ty(y) /\ Holder(x) = Holder(y) /\ Name(x) = Name(y) /\ Con(x) = Con(y)
    /\ Ref(x) = IF Ty(y) = "ISSUANCE" THEN Ref(y) ELSE g[Ref(y)]

\* Every record of new comes from the one at g of tb.
ComesFrom(tb, new, g) ==
    /\ g \in [Slots -> Slots]
    /\ \A j \in Slots : IdOf(new, j) # NoId => Like(IdOf(tb, g[j]), IdOf(new, j), g)

Set(g, v, a) == [g EXCEPT ![v] = a]

\* The map of indices after one more record.
LEMMA SetIs ==
    ASSUME NEW g \in [Slots -> Slots], NEW v \in Slots, NEW a \in Slots
    PROVE  /\ Set(g, v, a) \in [Slots -> Slots] /\ Set(g, v, a)[v] = a
           /\ \A j \in Slots : j # v => Set(g, v, a)[j] = g[j]
           /\ g[v] = a => Set(g, v, a) = g
BY DEF Set

\* The record of new that is like another is that one.
LEMMA LikeOnce ==
    ASSUME NEW tb, SoundUniverse(tb), NEW new, SoundUniverse(new), NEW g, ComesFrom(tb, new, g),
           NEW a \in Slots, IdOf(tb, a) # NoId, NEW v \in Slots, IdOf(new, v) # NoId,
           Like(IdOf(tb, a), IdOf(new, v), g)
    PROVE  g[v] = a
<1> DEFINE x == IdOf(tb, a)
           y == IdOf(tb, g[v])
           z == IdOf(new, v)
<1>1. g[v] \in Slots /\ Like(y, z, g)
  BY DEF ComesFrom
<1>2. x \in Ids /\ y \in Ids
  BY <1>1, RecordFields DEF SoundUniverse
<1>3. Like(x, z, g)
  OBVIOUS
<1> HIDE DEF x, y, z
<1>4. x = y
  <2>1. Ty(x) = Ty(y) /\ Holder(x) = Holder(y) /\ Name(x) = Name(y) /\ Con(x) = Con(y)
    BY <1>1, <1>3 DEF Like
  <2>2. Ref(x) = Ref(y)
    BY <1>1, <1>3 DEF Like
  <2> QED
    BY <1>2, <2>1, <2>2, IdsAreEqual
<1> QED
  BY <1>1, <1>4, StoredOnce DEF x, y

\* One more record is entered, from index a.
LEMMA ComesFromEnter ==
    ASSUME NEW tb, SoundUniverse(tb), NEW new, SoundUniverse(new), NEW g, ComesFrom(tb, new, g),
           NEW a \in Slots, IdOf(tb, a) # NoId,
           NEW out, NEW v, NEW x, NEW n, Puts(new, out, v, x, n), Fits(new, v, x), x # NoId,
           Like(IdOf(tb, a), x, g), RefIsRight(new, x)
    PROVE  ComesFrom(tb, out, Set(g, v, a))
<1> DEFINE h == Set(g, v, a)
<1>1. v \in Slots /\ x \in Ids /\ g \in [Slots -> Slots] /\ IdOf(out, v) = x
  BY DEF Puts, ComesFrom
<1>2. /\ h \in [Slots -> Slots] /\ h[v] = a
      /\ \A j \in Slots : j # v => h[j] = g[j]
      /\ g[v] = a => h = g
  BY <1>1, SetIs
<1> HIDE DEF h
<1>3. \A j \in Slots : j # v => IdOf(out, j) = IdOf(new, j)
  BY DEF Puts
<1>4. CASE IdOf(new, v) = x
  <2>1. g[v] = a
    BY <1>1, <1>4, LikeOnce
  <2>2. h = g
    BY <1>2, <2>1
  <2>3. \A j \in Slots : IdOf(out, j) = IdOf(new, j)
    BY <1>1, <1>3, <1>4
  <2>4. ComesFrom(tb, out, g)
    BY <2>3 DEF ComesFrom
  <2> QED
    BY <2>2, <2>4 DEF h
<1>5. CASE IdOf(new, v) = NoId
  <2>0. Ty(IdOf(new, v)) = "EMPTY"
    BY <1>5, NoAssetFacts
  \* Nothing refers to a free slot.
  <2>1. ASSUME NEW y \in Ids, RefIsRight(new, y), Ty(y) # "ISSUANCE", Ty(y) # "EMPTY"
        PROVE  Ref(y) \in Slots /\ Ref(y) # v
    <3>1. Ref(y) \in Slots /\ Ty(y) \in {"OWNERSHIP", "POSSESSION"}
      BY <2>1, IdParts DEF Types
    <3>2. Ty(IdOf(new, Ref(y))) # "EMPTY"
      BY <2>1, <3>1 DEF RefIsRight, MayReferTo
    <3> QED
      BY <2>0, <3>1, <3>2
  <2>2. ASSUME NEW y \in Ids, RefIsRight(new, y), Ty(y) # "EMPTY", NEW z, Like(z, y, g)
        PROVE  Like(z, y, h)
    <3>1. CASE Ty(y) = "ISSUANCE"
      BY <2>2, <3>1 DEF Like
    <3>2. CASE Ty(y) # "ISSUANCE"
      <4>1. h[Ref(y)] = g[Ref(y)]
        BY <1>2, <2>1, <2>2, <3>2
      <4> QED
        BY <2>2, <3>2, <4>1 DEF Like
    <3> QED
      BY <3>1, <3>2
  <2>3. Ty(x) # "EMPTY"
    <3>1. Ty(IdOf(tb, a)) # "EMPTY"
      BY FreeIsNoId
    <3> QED
      BY <3>1 DEF Like
  <2>4. ASSUME NEW j \in Slots, IdOf(out, j) # NoId PROVE Like(IdOf(tb, h[j]), IdOf(out, j), h)
    <3>1. CASE j = v
      BY <1>1, <1>2, <2>2, <2>3, <3>1
    <3>2. CASE j # v
      <4> DEFINE y == IdOf(new, j)
                 z == IdOf(tb, g[j])
      <4>1. IdOf(out, j) = y /\ h[j] = g[j]
        BY <1>2, <1>3, <3>2
      <4>2. y # NoId /\ Like(z, y, g)
        BY <2>4, <4>1 DEF ComesFrom
      <4>3. y \in Ids /\ RefIsRight(new, y) /\ Ty(y) # "EMPTY"
        BY <4>2, RecordFields, FreeIsNoId DEF SoundUniverse
      <4> HIDE DEF y
      <4>4. Like(z, y, h)
        <5> HIDE DEF z
        <5> QED
          BY <2>2, <4>2, <4>3
      <4> QED
        BY <4>1, <4>4
    <3> QED
      BY <3>1, <3>2
  <2>5. ComesFrom(tb, out, h)
    BY <1>2, <2>4 DEF ComesFrom
  <2> QED
    BY <2>5 DEF h
<1> QED
  BY <1>4, <1>5 DEF Fits

\* No two records of new come from one.
LEMMA ComesFromOnce ==
    ASSUME NEW tb, SoundUniverse(tb), NEW new, SoundUniverse(new), NEW g, ComesFrom(tb, new, g),
           NEW i \in Slots, NEW j \in Slots, IdOf(new, i) # NoId, IdOf(new, j) # NoId, g[i] = g[j]
    PROVE  i = j
<1>1. ASSUME NEW k \in Slots, NEW l \in Slots, IdOf(new, k) # NoId, IdOf(new, l) # NoId, g[k] = g[l],
             IF Ty(IdOf(new, k)) = "ISSUANCE" THEN TRUE
             ELSE Ref(IdOf(new, k)) = Ref(IdOf(new, l))
      PROVE  k = l
  <2> DEFINE x == IdOf(new, k)
             y == IdOf(new, l)
             z == IdOf(tb, g[k])
  <2>1. Like(z, x, g) /\ Like(z, y, g) /\ x \in Ids /\ y \in Ids
    BY <1>1, RecordFields DEF ComesFrom, SoundUniverse
  <2>2. IF Ty(x) = "ISSUANCE" THEN TRUE ELSE Ref(x) = Ref(y)
    BY <1>1
  <2> HIDE DEF x, y, z
  <2>3. Ty(x) = Ty(y) /\ Holder(x) = Holder(y) /\ Name(x) = Name(y) /\ Con(x) = Con(y)
    BY <2>1 DEF Like
  <2>4. Ref(x) = Ref(y)
    BY <2>1, <2>2, <2>3 DEF Like
  <2>5. x = y
    BY <2>1, <2>3, <2>4, IdsAreEqual
  <2> QED
    BY <1>1, <2>5, StoredOnce DEF x, y
\* What two records that come from one refer to comes from one too.
<1>2. ASSUME NEW k \in Slots, NEW l \in Slots, IdOf(new, k) # NoId, IdOf(new, l) # NoId, g[k] = g[l],
             Ty(IdOf(new, k)) # "ISSUANCE"
      PROVE  /\ g[Ref(IdOf(new, k))] = g[Ref(IdOf(new, l))]
             /\ Ty(IdOf(new, l)) = Ty(IdOf(new, k))
             /\ Ref(IdOf(new, k)) \in Slots /\ Ref(IdOf(new, l)) \in Slots
             /\ RefIsRight(new, IdOf(new, k)) /\ RefIsRight(new, IdOf(new, l))
  <2>1. Like(IdOf(tb, g[k]), IdOf(new, k), g) /\ Like(IdOf(tb, g[k]), IdOf(new, l), g)
    BY <1>2 DEF ComesFrom
  <2>2. IdOf(new, k) \in Ids /\ IdOf(new, l) \in Ids
    BY RecordFields DEF SoundUniverse
  <2>3. RefIsRight(new, IdOf(new, k)) /\ RefIsRight(new, IdOf(new, l))
    BY DEF SoundUniverse
  <2> QED
    BY <1>2, <2>1, <2>2, <2>3, IdParts DEF Like
<1>3. ASSUME NEW k \in Slots, NEW l \in Slots, IdOf(new, k) # NoId, IdOf(new, l) # NoId, g[k] = g[l],
             Ty(IdOf(new, k)) = "OWNERSHIP"
      PROVE  k = l
  <2> DEFINE u == Ref(IdOf(new, k))
             w == Ref(IdOf(new, l))
  <2>1. g[u] = g[w] /\ u \in Slots /\ w \in Slots
    BY <1>2, <1>3
  <2>2. Ty(IdOf(new, u)) = "ISSUANCE" /\ Ty(IdOf(new, w)) = "ISSUANCE"
    BY <1>2, <1>3 DEF RefIsRight, MayReferTo
  <2>3. IdOf(new, u) # NoId /\ IdOf(new, w) # NoId
    BY <2>2, NoAssetFacts
  <2> HIDE DEF u, w
  <2>4. u = w
    BY <1>1, <2>1, <2>2, <2>3
  <2> QED
    BY <1>1, <1>3, <2>4 DEF u, w
<1>4. CASE Ty(IdOf(new, i)) = "ISSUANCE"
  BY <1>1, <1>4
<1>5. CASE Ty(IdOf(new, i)) = "OWNERSHIP"
  BY <1>3, <1>5
<1>6. CASE Ty(IdOf(new, i)) = "POSSESSION"
  <2> DEFINE u == Ref(IdOf(new, i))
             w == Ref(IdOf(new, j))
  <2>1. g[u] = g[w] /\ u \in Slots /\ w \in Slots
    BY <1>2, <1>6
  <2>2. Ty(IdOf(new, u)) = "OWNERSHIP" /\ Ty(IdOf(new, w)) = "OWNERSHIP"
    BY <1>2, <1>6 DEF RefIsRight, MayReferTo
  <2>3. IdOf(new, u) # NoId /\ IdOf(new, w) # NoId
    BY <2>2, NoAssetFacts
  <2> HIDE DEF u, w
  <2>4. u = w
    BY <1>3, <2>1, <2>2, <2>3
  <2> QED
    BY <1>1, <1>6, <2>4 DEF u, w
<1>7. Ty(IdOf(new, i)) \in Types /\ Ty(IdOf(new, i)) # "EMPTY"
  BY RecordFields, IdParts, FreeIsNoId DEF SoundUniverse
<1> QED
  BY <1>4, <1>5, <1>6, <1>7 DEF Types

\* The new table has a free slot as long as the old one has.
LEMMA ComesFromHasFree ==
    ASSUME NEW tb, SoundUniverse(tb), HasFree(tb), NEW new, SoundUniverse(new),
           NEW g, ComesFrom(tb, new, g)
    PROVE  HasFree(new)
<1> SUFFICES ASSUME Free(new) = {} PROVE FALSE
  BY DEF HasFree
<1>1. PICK f \in Slots : IdOf(tb, f) = NoId
  BY DEF HasFree, Free
<1>2. \A j \in Slots : IdOf(new, j) # NoId
  BY DEF Free
<1>3. ASSUME NEW j \in Slots PROVE g[j] \in Slots \ {f}
  <2>1. g[j] \in Slots /\ Like(IdOf(tb, g[j]), IdOf(new, j), g)
    BY <1>2 DEF ComesFrom
  <2>2. Ty(IdOf(new, j)) # "EMPTY"
    BY <1>2, FreeIsNoId
  <2>3. Ty(IdOf(tb, g[j])) # "EMPTY"
    BY <2>1, <2>2 DEF Like
  <2> QED
    BY <1>1, <2>1, <2>3, NoAssetFacts
<1>4. g \in [Slots -> Slots \ {f}]
  BY <1>3 DEF ComesFrom
<1>5. IsFiniteSet(Slots)
  BY CapacityIsNat, FS_Interval DEF Slots
<1>6. IsFiniteSet(Slots \ {f}) /\ Cardinality(Slots \ {f}) < Cardinality(Slots)
  <2>1. Cardinality(Slots) \in Nat
    BY <1>5, FS_CardinalityType
  <2>2. IsFiniteSet(Slots \ {f}) /\ Cardinality(Slots \ {f}) = Cardinality(Slots) - 1
    BY <1>1, <1>5, FS_RemoveElement
  <2> QED
    BY <2>1, <2>2
<1>7. \E i, j \in Slots : i # j /\ g[i] = g[j]
  BY <1>4, <1>5, <1>6, FS_PigeonHole
<1> QED
  BY <1>2, <1>7, ComesFromOnce

\* The possessions of new are those with shares at the first k indices of tb.
Covers(tb, new, g, k) ==
    /\ \A j \in Slots : Ty(IdOf(new, j)) = "POSSESSION" =>
          g[j] < k /\ SharesOf(new, j) = SharesOf(tb, g[j])
    /\ \A i \in Slots : i < k /\ Ty(IdOf(tb, i)) = "POSSESSION" /\ SharesOf(tb, i) # 0 =>
          \E j \in Slots : Ty(IdOf(new, j)) = "POSSESSION" /\ g[j] = i

\* An issuance or an ownership is entered.
LEMMA CoversOther ==
    ASSUME NEW tb, NEW new, NEW g, ComesFrom(tb, new, g), NEW k, Covers(tb, new, g, k), NEW a \in Slots,
           NEW out, NEW v, NEW x, NEW n, Puts(new, out, v, x, n), Fits(new, v, x),
           Ty(x) \in {"ISSUANCE", "OWNERSHIP"}
    PROVE  Covers(tb, out, Set(g, v, a), k)
<1> DEFINE h == Set(g, v, a)
<1>1. v \in Slots /\ g \in [Slots -> Slots] /\ IdOf(out, v) = x
  BY DEF Puts, ComesFrom
<1>2. \A j \in Slots : j # v => h[j] = g[j]
  BY <1>1, SetIs
<1> HIDE DEF h
<1>3. \A j \in Slots : j # v => IdOf(out, j) = IdOf(new, j) /\ SharesOf(out, j) = SharesOf(new, j)
  BY DEF Puts
<1>4. Ty(IdOf(new, v)) # "POSSESSION" /\ Ty(IdOf(out, v)) # "POSSESSION"
  BY <1>1, NoAssetFacts DEF Fits
<1>5. ASSUME NEW j \in Slots, Ty(IdOf(out, j)) = "POSSESSION"
      PROVE  h[j] < k /\ SharesOf(out, j) = SharesOf(tb, h[j])
  <2>1. j # v
    BY <1>4, <1>5
  <2> QED
    BY <1>2, <1>3, <1>5, <2>1 DEF Covers
<1>6. ASSUME NEW i \in Slots, i < k, Ty(IdOf(tb, i)) = "POSSESSION", SharesOf(tb, i) # 0
      PROVE  \E j \in Slots : Ty(IdOf(out, j)) = "POSSESSION" /\ h[j] = i
  <2>1. PICK j \in Slots : Ty(IdOf(new, j)) = "POSSESSION" /\ g[j] = i
    BY <1>6 DEF Covers
  <2>2. j # v
    BY <1>4, <2>1
  <2> QED
    BY <1>2, <1>3, <2>1, <2>2
<1> QED
  BY <1>5, <1>6 DEF Covers, h

\* Indices below the next one.
LEMMA IndexOrder ==
    /\ \A m, k \in Slots : m < k + 1 <=> m < k \/ m = k
    /\ \A k \in Slots : ~(k < k)
BY UniverseFacts

\* The possession at k is entered, from k.
LEMMA CoversPossession ==
    ASSUME NEW tb, NEW new, NEW g, ComesFrom(tb, new, g), NEW k \in Slots, Covers(tb, new, g, k),
           NEW out, NEW v, NEW x, Puts(new, out, v, x, SharesOf(tb, k)), IdOf(new, v) = NoId,
           Ty(x) = "POSSESSION"
    PROVE  Covers(tb, out, Set(g, v, k), k + 1)
<1> DEFINE h == Set(g, v, k)
<1>1. v \in Slots /\ g \in [Slots -> Slots] /\ IdOf(out, v) = x /\ SharesOf(out, v) = SharesOf(tb, k)
  BY DEF Puts, ComesFrom
<1>2. h \in [Slots -> Slots] /\ h[v] = k /\ \A j \in Slots : j # v => h[j] = g[j]
  BY <1>1, SetIs
<1> HIDE DEF h
<1>3. \A j \in Slots : j # v => IdOf(out, j) = IdOf(new, j) /\ SharesOf(out, j) = SharesOf(new, j)
  BY DEF Puts
<1>4. ASSUME NEW j \in Slots, Ty(IdOf(out, j)) = "POSSESSION"
      PROVE  h[j] < k + 1 /\ SharesOf(out, j) = SharesOf(tb, h[j])
  <2>1. CASE j = v
    <3>1. h[j] = k /\ SharesOf(out, j) = SharesOf(tb, k)
      BY <1>1, <1>2, <2>1
    <3>2. k < k + 1
      BY IndexOrder, Zenon
    <3> QED
      BY <3>1, <3>2, Zenon
  <2>2. CASE j # v
    <3>1. h[j] = g[j] /\ g[j] < k /\ SharesOf(out, j) = SharesOf(tb, g[j]) /\ g[j] \in Slots
      BY <1>1, <1>2, <1>3, <1>4, <2>2 DEF Covers
    <3>2. g[j] < k + 1
      BY <3>1, IndexOrder, Zenon
    <3> QED
      BY <3>1, <3>2, Zenon
  <2> QED
    BY <2>1, <2>2
<1>5. ASSUME NEW i \in Slots, i < k + 1, Ty(IdOf(tb, i)) = "POSSESSION", SharesOf(tb, i) # 0
      PROVE  \E j \in Slots : Ty(IdOf(out, j)) = "POSSESSION" /\ h[j] = i
  <2>1. CASE i = k
    BY <1>1, <1>2, <2>1
  <2>2. CASE i < k
    <3>1. PICK j \in Slots : Ty(IdOf(new, j)) = "POSSESSION" /\ g[j] = i
      BY <1>5, <2>2 DEF Covers
    <3>2. j # v
      BY <3>1, NoAssetFacts
    <3> QED
      BY <1>2, <1>3, <3>1, <3>2
  <2>3. i < k \/ i = k
    BY <1>5, IndexOrder, Zenon
  <2> QED
    BY <2>1, <2>2, <2>3
<1> QED
  BY <1>4, <1>5 DEF Covers, h

\* A record with another index in it.
LEMMA Rewritten ==
    ASSUME NEW r \in AssetRecords, NEW v \in Slots, NEW o, o = [r EXCEPT !.ref = v]
    PROVE  /\ o \in AssetRecords /\ Id(o) \in Ids
           /\ Ty(Id(o)) = Ty(Id(r)) /\ Holder(Id(o)) = Holder(Id(r)) /\ Name(Id(o)) = Name(Id(r))
           /\ Con(Id(o)) = Con(Id(r)) /\ Ref(Id(o)) = v
<1>1. o \in AssetRecords
  BY DEF AssetRecords
<1>2. Id(o) = <<r.type, r.publicKey, r.name, r.managingContractIndex, v>>
  BY DEF AssetRecords, Id
<1>3. /\ Ty(Id(o)) = r.type /\ Holder(Id(o)) = r.publicKey /\ Name(Id(o)) = r.name
      /\ Con(Id(o)) = r.managingContractIndex /\ Ref(Id(o)) = v
  BY <1>2, PartsOf
<1>4. /\ Id(o) \in Ids
      /\ r.type = Ty(Id(r)) /\ r.publicKey = Holder(Id(r)) /\ r.name = Name(Id(r))
      /\ r.managingContractIndex = Con(Id(r))
  BY <1>1, IdOfRecord
<1> QED
  BY <1>1, <1>3, <1>4

\* new is a table of its own that holds the possessions below k of tb.
Rebuilding(tb, new, k) ==
    /\ Consistent(new, Nothing, 0)
    /\ \E g : ComesFrom(tb, new, g) /\ Covers(tb, new, g, k)

\* EnterPossession enters the possession at i with all that it refers to.
LEMMA EnterKeeps ==
    ASSUME NEW tb, Consistent(tb, Nothing, 0), NEW i \in Slots, NEW new, Rebuilding(tb, new, i)
    PROVE  Rebuilding(tb, EnterPossession(tb, new, i), i + 1)
<1> DEFINE out == EnterPossession(tb, new, i)
           b == tb[i].ref
           a == tb[b].ref
           n == tb[i].numberOfShares
           vRec == tb[a]
           v == ProbeAsset(new, vRec)
           new1 == AddShares(new, v, vRec, 0)
           oRec == [tb[b] EXCEPT !.ref = v]
           o == ProbeAsset(new1, oRec)
           new2 == AddShares(new1, o, oRec, n)
           pRec == [tb[i] EXCEPT !.ref = o]
           p == ProbeAsset(new2, pRec)
           new3 == AddShares(new2, p, pRec, n)
           enters == tb[i].type = "POSSESSION" /\ tb[i].numberOfShares > 0
<1>1. PICK g : ComesFrom(tb, new, g) /\ Covers(tb, new, g, i)
  BY DEF Rebuilding
<1>2. SoundUniverse(tb) /\ HasFree(tb) /\ tb \in AssetTables
  BY RoomIsFree DEF Consistent, SoundUniverse
<1>3. Consistent(new, Nothing, 0) /\ SoundUniverse(new) /\ HasFree(new)
  BY RoomIsFree DEF Rebuilding, Consistent
<1>4. out = IF enters THEN new3 ELSE new
  BY Zenon DEF EnterPossession
<1>5. /\ tb[i].type = Ty(IdOf(tb, i)) /\ n = SharesOf(tb, i) /\ n \in Nat /\ b = Ref(IdOf(tb, i))
      /\ tb[i] \in AssetRecords /\ IdOf(tb, i) \in Ids
  BY <1>2, RecordFields
<1>6. CASE ~enters
  <2>1. out = new
    BY <1>4, <1>6, Zenon
  <2>2. ~(Ty(IdOf(tb, i)) = "POSSESSION" /\ SharesOf(tb, i) # 0)
    <3>1. \A m \in Nat : m # 0 => m > 0
      OBVIOUS
    <3> QED
      BY <1>5, <1>6, <3>1, Zenon
  <2>3. Covers(tb, new, g, i + 1)
    <3>1. ASSUME NEW j \in Slots, Ty(IdOf(new, j)) = "POSSESSION"
          PROVE  g[j] < i + 1 /\ SharesOf(new, j) = SharesOf(tb, g[j])
      <4>1. g[j] < i /\ SharesOf(new, j) = SharesOf(tb, g[j]) /\ g[j] \in Slots
        BY <1>1, <3>1 DEF Covers, ComesFrom
      <4> QED
        BY <4>1, IndexOrder, Zenon
    <3>2. ASSUME NEW k \in Slots, k < i + 1, Ty(IdOf(tb, k)) = "POSSESSION", SharesOf(tb, k) # 0
          PROVE  \E j \in Slots : Ty(IdOf(new, j)) = "POSSESSION" /\ g[j] = k
      <4>1. k < i
        BY <2>2, <3>2, IndexOrder, Zenon
      <4> QED
        BY <1>1, <3>2, <4>1 DEF Covers
    <3> QED
      BY <3>1, <3>2 DEF Covers
  <2> QED
    BY <1>1, <1>3, <2>1, <2>3 DEF Rebuilding
<1>7. CASE enters
  <2>0. out = new3
    BY <1>4, <1>7, Zenon
  <2>1. Ty(IdOf(tb, i)) = "POSSESSION" /\ IdOf(tb, i) # NoId
    BY <1>5, <1>7, NoAssetFacts
  <2>2. b \in Slots /\ Ty(IdOf(tb, b)) = "OWNERSHIP" /\ Con(IdOf(tb, b)) = Con(IdOf(tb, i))
    <3>1. RefIsRight(tb, IdOf(tb, i))
      BY <1>2 DEF SoundUniverse
    <3> QED
      BY <1>5, <2>1, <3>1, IdParts DEF RefIsRight, MayReferTo
  <2> HIDE DEF b
  <2>3. a = Ref(IdOf(tb, b)) /\ tb[b] \in AssetRecords /\ IdOf(tb, b) \in Ids /\ IdOf(tb, b) # NoId
    BY <1>2, <2>2, RecordFields, NoAssetFacts
  <2>4. a \in Slots /\ Ty(IdOf(tb, a)) = "ISSUANCE" /\ IdOf(tb, a) # NoId
    <3>1. RefIsRight(tb, IdOf(tb, b))
      BY <1>2, <2>2 DEF SoundUniverse
    <3> QED
      BY <2>2, <2>3, <3>1, IdParts, NoAssetFacts DEF RefIsRight, MayReferTo
  <2> HIDE DEF a, n
  <2>5. vRec \in AssetRecords /\ Id(vRec) = IdOf(tb, a)
    BY <1>2, <2>4, RecordFields DEF IdOf
  <2> HIDE DEF vRec
  <2>6. 0 = -1 + 1 /\ -1 \in Int /\ 0 \in Nat
    OBVIOUS
  \* The issuance.
  <2>7. Found(new, Id(vRec), v) /\ v \in Slots
    BY <1>3, <2>5, ProbeFinds, FoundIs
  <2> HIDE DEF v
  <2>8. /\ Puts(new, new1, v, Id(vRec), SharesOf(new, v) + 0) /\ Fits(new, v, Id(vRec))
        /\ Consistent(new1, Nothing, -1)
    <3>1. Consistent(new, Nothing, -1 + 1)
      BY <1>3, <2>6, Zenon
    <3>2. Ty(Id(vRec)) = "ISSUANCE"
      BY <2>4, <2>5
    <3> QED
      BY <2>5, <2>6, <2>7, <3>1, <3>2, AddIssuance, Zenon
  <2> HIDE DEF new1
  <2> DEFINE g1 == Set(g, v, a)
  <2>9. ComesFrom(tb, new1, g1) /\ Covers(tb, new1, g1, i) /\ g1[v] = a
    <3> DEFINE x == Id(vRec)
    <3>1. Like(IdOf(tb, a), x, g) /\ RefIsRight(new, x) /\ x # NoId /\ Ty(x) = "ISSUANCE"
      BY <2>4, <2>5, NoAssetFacts DEF Like, RefIsRight, MayReferTo
    <3>2. g1[v] = a
      BY <1>1, <2>4, <2>7, SetIs DEF ComesFrom
    <3> HIDE DEF x, g1
    <3>3. ComesFrom(tb, new1, g1)
      BY <1>1, <1>2, <1>3, <2>4, <2>8, <3>1, ComesFromEnter DEF g1, x
    <3>4. Covers(tb, new1, g1, i)
      BY <1>1, <2>4, <2>8, <3>1, CoversOther DEF g1, x
    <3> QED
      BY <3>2, <3>3, <3>4
  <2> HIDE DEF g1
  <2>10. SoundUniverse(new1) /\ HasFree(new1) /\ Consistent(new1, Nothing, 0)
    <3>1. SoundUniverse(new1) /\ Owes(new1, Nothing)
      BY <2>8 DEF Consistent
    <3>2. HasFree(new1)
      BY <1>2, <2>9, <3>1, ComesFromHasFree
    <3> QED
      BY <3>1, <3>2, RoomIsFree DEF Consistent
  <2>11. IdOf(new1, v) = IdOf(tb, a)
    BY <2>5, <2>8 DEF Puts
  \* The ownership.
  <2>12. /\ oRec \in AssetRecords /\ Id(oRec) \in Ids /\ Ty(Id(oRec)) = "OWNERSHIP"
         /\ Ref(Id(oRec)) = v /\ Con(Id(oRec)) = Con(IdOf(tb, b))
         /\ Holder(Id(oRec)) = Holder(IdOf(tb, b)) /\ Name(Id(oRec)) = Name(IdOf(tb, b))
    <3> DEFINE r == tb[b]
    <3>1. oRec = [r EXCEPT !.ref = v] /\ r \in AssetRecords /\ Id(r) = IdOf(tb, b)
      BY <2>3 DEF IdOf
    <3> HIDE DEF r, oRec
    <3> QED
      BY <2>2, <2>7, <3>1, Rewritten
  <2> HIDE DEF oRec
  <2>13. RefIsRight(new1, Id(oRec)) /\ Like(IdOf(tb, b), Id(oRec), g1) /\ Id(oRec) # NoId
    BY <2>2, <2>3, <2>4, <2>9, <2>11, <2>12, NoAssetFacts DEF RefIsRight, MayReferTo, Like
  <2>14. Found(new1, Id(oRec), o) /\ o \in Slots
    BY <2>10, <2>12, ProbeFinds, FoundIs
  <2> HIDE DEF o
  <2>15. /\ Puts(new1, new2, o, Id(oRec), SharesOf(new1, o) + n) /\ Fits(new1, o, Id(oRec))
         /\ Consistent(new2, Owed(Nothing, o, n), -1)
    <3>1. Consistent(new1, Nothing, -1 + 1)
      BY <2>6, <2>10, Zenon
    <3> QED
      BY <1>5, <2>6, <2>12, <2>13, <2>14, <3>1, AddOwnership, Zenon
  <2> HIDE DEF new2
  <2> DEFINE g2 == Set(g1, o, b)
  <2>16. ComesFrom(tb, new2, g2) /\ Covers(tb, new2, g2, i) /\ g2[o] = b
    <3> DEFINE x == Id(oRec)
    <3>1. Like(IdOf(tb, b), x, g1) /\ RefIsRight(new1, x) /\ x # NoId /\ Ty(x) = "OWNERSHIP"
      BY <2>12, <2>13
    <3>2. g2[o] = b
      BY <2>2, <2>9, <2>14, SetIs DEF ComesFrom
    <3> HIDE DEF x, g2
    <3>3. ComesFrom(tb, new2, g2)
      BY <1>2, <2>2, <2>3, <2>9, <2>10, <2>15, <3>1, ComesFromEnter DEF g2, x
    <3>4. Covers(tb, new2, g2, i)
      BY <2>2, <2>9, <2>15, <3>1, CoversOther DEF g2, x
    <3> QED
      BY <3>2, <3>3, <3>4
  <2> HIDE DEF g2
  <2>17. SoundUniverse(new2) /\ HasFree(new2) /\ Consistent(new2, Owed(Nothing, o, n), 0)
    <3>1. SoundUniverse(new2) /\ Owes(new2, Owed(Nothing, o, n))
      BY <2>15 DEF Consistent
    <3>2. HasFree(new2)
      BY <1>2, <2>16, <3>1, ComesFromHasFree
    <3> QED
      BY <3>1, <3>2, RoomIsFree DEF Consistent
  <2>18. IdOf(new2, o) = Id(oRec)
    BY <2>15 DEF Puts
  \* The possession, which is not there yet.
  <2>19. /\ pRec \in AssetRecords /\ Id(pRec) \in Ids /\ Ty(Id(pRec)) = "POSSESSION"
         /\ Ref(Id(pRec)) = o /\ Con(Id(pRec)) = Con(IdOf(tb, i))
         /\ Holder(Id(pRec)) = Holder(IdOf(tb, i)) /\ Name(Id(pRec)) = Name(IdOf(tb, i))
    <3> DEFINE r == tb[i]
    <3>1. pRec = [r EXCEPT !.ref = o] /\ r \in AssetRecords /\ Id(r) = IdOf(tb, i)
      BY <1>5 DEF IdOf
    <3> HIDE DEF r, pRec
    <3> QED
      BY <2>1, <2>14, <3>1, Rewritten
  <2> HIDE DEF pRec
  <2>20. RefIsRight(new2, Id(pRec)) /\ Like(IdOf(tb, i), Id(pRec), g2) /\ Id(pRec) # NoId
    BY <1>5, <2>1, <2>2, <2>12, <2>16, <2>18, <2>19, NoAssetFacts
       DEF RefIsRight, MayReferTo, Like, b
  <2>21. Found(new2, Id(pRec), p) /\ p \in Slots
    BY <2>17, <2>19, ProbeFinds, FoundIs
  <2> HIDE DEF p
  <2>22. /\ Puts(new2, new3, p, Id(pRec), SharesOf(new2, p) + n) /\ Fits(new2, p, Id(pRec))
         /\ Consistent(new3, Owed(Owed(Nothing, o, n), o, -n), -1)
    <3>1. Consistent(new2, Owed(Nothing, o, n), -1 + 1)
      BY <2>6, <2>17, Zenon
    <3> QED
      BY <1>5, <2>6, <2>19, <2>20, <2>21, <3>1, AddPossession, Zenon
  <2> HIDE DEF new3
  <2> DEFINE g3 == Set(g2, p, i)
  <2>23. ComesFrom(tb, new3, g3) /\ (IdOf(new2, p) = Id(pRec) => g2[p] = i)
    <3> DEFINE x == Id(pRec)
    <3>1. Like(IdOf(tb, i), x, g2) /\ RefIsRight(new2, x) /\ x # NoId
      BY <2>20
    <3> HIDE DEF x, g3
    <3>2. /\ Puts(new2, new3, p, x, SharesOf(new2, p) + n) /\ Fits(new2, p, x)
          /\ SoundUniverse(tb) /\ SoundUniverse(new2) /\ ComesFrom(tb, new2, g2)
          /\ IdOf(tb, i) # NoId
      BY <1>2, <2>1, <2>16, <2>17, <2>22 DEF x
    <3>3. ComesFrom(tb, new3, Set(g2, p, i))
      BY <3>1, <3>2, ComesFromEnter
    <3>4. ASSUME IdOf(new2, p) = x PROVE g2[p] = i
      BY <2>21, <3>1, <3>2, <3>4, LikeOnce
    <3> QED
      BY <3>3, <3>4 DEF g3, x
  <2>24. IdOf(new2, p) = NoId
    <3>1. CASE IdOf(new2, p) = Id(pRec)
      <4>1. g2[p] < i
        BY <2>16, <2>19, <2>21, <3>1 DEF Covers
      <4> QED
        BY <2>23, <3>1, <4>1, IndexOrder, Zenon
    <3> QED
      BY <2>22, <3>1 DEF Fits
  <2>25. SharesOf(new2, p) + n = SharesOf(tb, i)
    <3>1. SharesOf(new2, p) = 0
      BY <2>17, <2>21, <2>24, FreeIsNoId
    <3>2. \A m \in Nat : 0 + m = m
      OBVIOUS
    <3> QED
      BY <1>5, <3>1, <3>2, Zenon
  <2>26. Covers(tb, new3, g3, i + 1)
    <3>1. Puts(new2, new3, p, Id(pRec), SharesOf(tb, i))
      BY <2>22, <2>25, Zenon
    <3> QED
      BY <2>16, <2>19, <2>24, <3>1, CoversPossession
  <2>27. Owed(Owed(Nothing, o, n), o, -n) = Nothing
    BY <1>5, <2>14, Settled
  <2>28. Consistent(new3, Nothing, 0)
    <3>1. SoundUniverse(new3) /\ Owes(new3, Nothing)
      BY <2>22, <2>27 DEF Consistent
    <3>2. HasFree(new3)
      BY <1>2, <2>23, <3>1, ComesFromHasFree
    <3> QED
      BY <3>1, <3>2, RoomIsFree DEF Consistent
  <2> QED
    BY <2>0, <2>23, <2>26, <2>28 DEF Rebuilding
<1> QED
  BY <1>6, <1>7

\* What a universe satisfies between operations.
Complete(tb) == Consistent(tb, Nothing, 0)

\* The rebuild keeps every possession that has shares.
LEMMA EndEpochRebuilds ==
    ASSUME NEW tb, Complete(tb)
    PROVE  Rebuilding(tb, assetsEndEpoch(tb), ASSETS_CAPACITY)
<1> DEFINE n == ASSETS_CAPACITY
           S == AssetTables
           \* EnterPossession needs a table that was built so far; any other stays.
           Step(new, k) == IF Rebuilding(tb, new, k - 1) THEN EnterPossession(tb, new, k - 1) ELSE new
           step == [k \in 1 .. n |-> [new \in S |-> Step(new, k)]]
           Built(f) == f = [k \in 0 .. n |->
                              IF k = 0 THEN EmptyUniverse ELSE EnterPossession(tb, f[k - 1], k - 1)]
<1>1. n \in Nat /\ n > 0 /\ Slots = 0 .. n - 1
  BY UniverseFacts
<1>2. ASSUME NEW new, NEW k, Rebuilding(tb, new, k) PROVE new \in S
  BY <1>2 DEF Rebuilding, Consistent, SoundUniverse
<1>3. ASSUME NEW new, NEW k \in 1 .. n, Rebuilding(tb, new, k - 1)
      PROVE  Rebuilding(tb, EnterPossession(tb, new, k - 1), k)
  <2>1. k - 1 \in Slots /\ (k - 1) + 1 = k
    BY <1>1
  <2>2. Rebuilding(tb, EnterPossession(tb, new, k - 1), (k - 1) + 1)
    BY <1>3, <2>1, EnterKeeps DEF Complete
  <2> QED
    BY <2>1, <2>2
<1>4. \A new \in S : \A k \in 1 .. n : Step(new, k) \in S
  BY <1>2, <1>3
<1>5. Rebuilding(tb, EmptyUniverse, 0)
  <2>1. Consistent(EmptyUniverse, Nothing, 0)
    <3>1. Consistent(EmptyUniverse, Nothing, 3)
      BY EmptyIsConsistent
    <3>2. HasFree(EmptyUniverse)
      BY <3>1, RoomIsEnough DEF Consistent
    <3> QED
      BY <3>1, <3>2, RoomIsFree DEF Consistent
  <2> DEFINE g == [j \in Slots |-> j]
  <2>2. g \in [Slots -> Slots]
    OBVIOUS
  <2> HIDE DEF g
  <2>3. \A j \in Slots : IdOf(EmptyUniverse, j) = NoId
    BY DEF IdOf, NoId, EmptyUniverse
  <2>4. ComesFrom(tb, EmptyUniverse, g)
    BY <2>2, <2>3 DEF ComesFrom
  <2>5. Covers(tb, EmptyUniverse, g, 0)
    BY <1>1, <2>3, NoAssetFacts DEF Covers
  <2> QED
    BY <2>1, <2>4, <2>5 DEF Rebuilding
<1>6. EmptyUniverse \in S
  BY <1>2, <1>5
<1> HIDE DEF S, n
<1>7. Steps(n, S, step)
  BY <1>4 DEF Steps
<1>8. PICK f : Follows(f, n, S, EmptyUniverse, step)
  <2> HIDE DEF step
  <2> QED
    BY <1>1, <1>6, <1>7, Recursion
<1>9. f \in [0 .. n -> S] /\ f[0] = EmptyUniverse
  BY <1>8 DEF Follows
<1>10. ASSUME NEW k \in 1 .. n PROVE f[k] = Step(f[k - 1], k)
  <2>1. f[k] = step[k][f[k - 1]] /\ f[k - 1] \in S
    BY <1>1, <1>8 DEF Follows
  <2> HIDE DEF Step
  <2> QED
    BY <2>1
<1>11. \A k \in 0 .. n : Rebuilding(tb, f[k], k)
  <2> DEFINE T == {k \in 0 .. n : Rebuilding(tb, f[k], k)}
  <2>1. 0 \in T
    BY <1>1, <1>5, <1>9
  <2>2. ASSUME NEW k \in 1 .. n, k - 1 \in T PROVE k \in T
    <3>1. Rebuilding(tb, f[k - 1], k - 1)
      BY <2>2
    <3>2. f[k] = EnterPossession(tb, f[k - 1], k - 1)
      BY <3>1, <1>10
    <3>3. Rebuilding(tb, f[k], k)
      BY <3>1, <3>2, <1>3
    <3> QED
      BY <1>1, <3>3
  <2> HIDE DEF T
  <2>3. \A k \in 0 .. n : k \in T
    BY <1>1, <2>1, <2>2, Induct
  <2> QED
    BY <2>3 DEF T
<1>12. Built(f)
  <2>1. ASSUME NEW k \in 1 .. n PROVE f[k] = EnterPossession(tb, f[k - 1], k - 1)
    <3>1. Rebuilding(tb, f[k - 1], k - 1)
      BY <1>1, <1>11
    <3> QED
      BY <3>1, <1>10
  <2> QED
    BY <1>1, <1>9, <2>1
<1> DEFINE c == CHOOSE h : Built(h)
<1>13. Built(c)
  BY <1>12
<1>14. assetsEndEpoch(tb) = c[n]
  BY DEF assetsEndEpoch, n
<1> HIDE DEF c
<1>15. c[0] = EmptyUniverse /\ \A k \in 1 .. n : c[k] = EnterPossession(tb, c[k - 1], k - 1)
  BY <1>1, <1>13
<1> HIDE DEF Built, Step
<1> DEFINE T == {k \in 0 .. n : Rebuilding(tb, c[k], k)}
<1>16. 0 \in T
  BY <1>1, <1>5, <1>15
<1>17. ASSUME NEW k \in 1 .. n, k - 1 \in T PROVE k \in T
  <2>1. Rebuilding(tb, c[k], k)
    BY <1>3, <1>15, <1>17
  <2> QED
    BY <1>1, <2>1
<1>18. n \in T
  <2> HIDE DEF T
  <2>1. \A k \in 0 .. n : k \in T
    BY <1>1, <1>16, <1>17, Induct
  <2> QED
    BY <1>1, <2>1
<1> QED
  BY <1>14, <1>18 DEF n

\* The possession p of key under contract c, of the asset that r issues.
Holds(tb, p, r, key, c) ==
    /\ p \in Slots
    /\ \E o, v \in Slots :
          /\ IdOf(tb, v) = Id(r)
          /\ IdOf(tb, o) = Id(Ownership(key, c, v))
          /\ IdOf(tb, p) = Id(Possession(key, c, o))

\* What Holding finds.
LEMMA HoldingIs ==
    ASSUME NEW tb, SoundUniverse(tb), HasFree(tb), NEW issuer \in Keys, NEW name \in Names,
           NEW key \in Keys, NEW c \in Nat, NEW r, r = Issuance(issuer, name)
    PROVE  /\ \A p : Holds(tb, p, r, key, c) => Holding(tb, issuer, name, key, c) = SharesOf(tb, p)
           /\ (\A p : ~Holds(tb, p, r, key, c)) => Holding(tb, issuer, name, key, c) = 0
<1> DEFINE v == findIssuerIndex(tb, issuer, name)
           o == findOwnershipIndex(tb, v, key, c)
           p == findPossessionIndex(tb, o, key, c)
<1>1. Holding(tb, issuer, name, key, c) = IF p = -1 THEN 0 ELSE SharesOf(tb, p)
  BY DEF Holding, SharesOf
<1>2. /\ v = FindIndex(tb, r)
      /\ o = IF v = -1 THEN -1 ELSE FindIndex(tb, Ownership(key, c, v))
      /\ p = IF o = -1 THEN -1 ELSE FindIndex(tb, Possession(key, c, o))
  BY DEF findIssuerIndex, findOwnershipIndex, findPossessionIndex
<1>3. \A i \in Slots : i # -1
  BY UniverseFacts
<1> HIDE DEF v, o, p
<1>4. r \in AssetRecords /\ Id(r) # NoId
  BY IssuanceIs, NoAssetFacts DEF IsRecord
<1>5. ASSUME NEW i \in Slots
      PROVE  /\ Ownership(key, c, i) \in AssetRecords /\ Id(Ownership(key, c, i)) # NoId
             /\ Possession(key, c, i) \in AssetRecords /\ Id(Possession(key, c, i)) # NoId
  BY OwnershipIs, PossessionIs, NoAssetFacts DEF IsRecord
<1>6. ASSUME NEW q, Holds(tb, q, r, key, c)
      PROVE  Holding(tb, issuer, name, key, c) = SharesOf(tb, q)
  <2>1. PICK o1 \in Slots, v1 \in Slots :
           /\ IdOf(tb, v1) = Id(r)
           /\ IdOf(tb, o1) = Id(Ownership(key, c, v1))
           /\ IdOf(tb, q) = Id(Possession(key, c, o1))
    BY <1>6 DEF Holds
  <2>2. v = v1
    BY <1>2, <1>4, <2>1, FindIs
  <2>3. o = FindIndex(tb, Ownership(key, c, v1))
    BY <1>2, <1>3, <2>2, Zenon
  <2>4. o = o1
    BY <1>5, <2>1, <2>3, FindIs
  <2>5. p = FindIndex(tb, Possession(key, c, o1))
    BY <1>2, <1>3, <2>4, Zenon
  <2>6. q \in Slots
    BY <1>6 DEF Holds
  <2>7. p = q
    BY <1>5, <2>1, <2>5, <2>6, FindIs
  <2> QED
    BY <1>1, <1>3, <2>6, <2>7, Zenon
<1>7. ASSUME p # -1 PROVE Holds(tb, p, r, key, c)
  <2>1. o # -1 /\ p = FindIndex(tb, Possession(key, c, o))
    BY <1>2, <1>7, Zenon
  <2>2. v # -1 /\ o = FindIndex(tb, Ownership(key, c, v))
    BY <1>2, <2>1, Zenon
  <2>3. v \in Slots /\ IdOf(tb, v) = Id(r)
    BY <1>2, <1>4, <2>2, FindIs
  <2>4. o \in Slots /\ IdOf(tb, o) = Id(Ownership(key, c, v))
    BY <1>5, <2>1, <2>2, <2>3, FindIs
  <2>5. p \in Slots /\ IdOf(tb, p) = Id(Possession(key, c, o))
    BY <1>5, <1>7, <2>1, <2>4, FindIs
  <2> QED
    BY <2>3, <2>4, <2>5 DEF Holds
<1>8. ASSUME \A q : ~Holds(tb, q, r, key, c) PROVE Holding(tb, issuer, name, key, c) = 0
  <2>1. p = -1
    BY <1>7, <1>8, Zenon
  <2> QED
    BY <1>1, <2>1, Zenon
<1> QED
  BY <1>6, <1>8, Zenon

\* An identity is that of the record built of its parts.
LEMMA IsBuilt ==
    ASSUME NEW x \in Ids, NEW r, NEW t, NEW k, NEW n, NEW c, NEW i, IsRecord(r, t, k, n, c, i),
           Ty(x) = t, Holder(x) = k, Name(x) = n, Con(x) = c, Ref(x) = i
    PROVE  x = Id(r)
BY IdsAreEqual DEF IsRecord

\* Who holds shares in the new table held them in the old one.
LEMMA HoldsBack ==
    ASSUME NEW tb, SoundUniverse(tb), NEW new, SoundUniverse(new), NEW g, ComesFrom(tb, new, g),
           NEW issuer \in Keys, NEW name \in Names, NEW r, r = Issuance(issuer, name),
           NEW key \in Keys, NEW c \in Nat, NEW p, Holds(new, p, r, key, c)
    PROVE  Holds(tb, g[p], r, key, c)
<1>1. PICK o \in Slots, v \in Slots :
         /\ IdOf(new, v) = Id(r)
         /\ IdOf(new, o) = Id(Ownership(key, c, v))
         /\ IdOf(new, p) = Id(Possession(key, c, o))
  BY DEF Holds
<1>2. p \in Slots /\ g \in [Slots -> Slots]
  BY DEF Holds, ComesFrom
<1>3. g[p] \in Slots /\ g[o] \in Slots /\ g[v] \in Slots
  BY <1>2
<1>4. /\ IsRecord(r, "ISSUANCE", issuer, name, 0, 0)
      /\ IsRecord(Ownership(key, c, v), "OWNERSHIP", key, NoName, c, v)
      /\ IsRecord(Possession(key, c, o), "POSSESSION", key, NoName, c, o)
      /\ IsRecord(Ownership(key, c, g[v]), "OWNERSHIP", key, NoName, c, g[v])
      /\ IsRecord(Possession(key, c, g[o]), "POSSESSION", key, NoName, c, g[o])
  BY <1>3, IssuanceIs, OwnershipIs, PossessionIs
<1>5. \A j \in Slots : IdOf(tb, j) \in Ids
  BY RecordFields DEF SoundUniverse
<1>6. IdOf(tb, g[v]) = Id(r)
  <2>1. Like(IdOf(tb, g[v]), Id(r), g)
    BY <1>1, <1>4, NoAssetFacts DEF ComesFrom, IsRecord
  <2>2. /\ Ty(IdOf(tb, g[v])) = "ISSUANCE" /\ Holder(IdOf(tb, g[v])) = issuer
        /\ Name(IdOf(tb, g[v])) = name /\ Con(IdOf(tb, g[v])) = 0 /\ Ref(IdOf(tb, g[v])) = 0
    BY <1>4, <2>1 DEF Like, IsRecord
  <2> QED
    BY <1>3, <1>4, <1>5, <2>2, IsBuilt
<1>7. IdOf(tb, g[o]) = Id(Ownership(key, c, g[v]))
  <2>1. Like(IdOf(tb, g[o]), Id(Ownership(key, c, v)), g)
    BY <1>1, <1>4, NoAssetFacts DEF ComesFrom, IsRecord
  <2>2. /\ Ty(IdOf(tb, g[o])) = "OWNERSHIP" /\ Holder(IdOf(tb, g[o])) = key
        /\ Name(IdOf(tb, g[o])) = NoName /\ Con(IdOf(tb, g[o])) = c /\ Ref(IdOf(tb, g[o])) = g[v]
    BY <1>4, <2>1 DEF Like, IsRecord
  <2> QED
    BY <1>3, <1>4, <1>5, <2>2, IsBuilt
<1>8. IdOf(tb, g[p]) = Id(Possession(key, c, g[o]))
  <2>1. Like(IdOf(tb, g[p]), Id(Possession(key, c, o)), g)
    BY <1>1, <1>2, <1>4, NoAssetFacts DEF ComesFrom, IsRecord
  <2>2. /\ Ty(IdOf(tb, g[p])) = "POSSESSION" /\ Holder(IdOf(tb, g[p])) = key
        /\ Name(IdOf(tb, g[p])) = NoName /\ Con(IdOf(tb, g[p])) = c /\ Ref(IdOf(tb, g[p])) = g[o]
    BY <1>4, <2>1 DEF Like, IsRecord
  <2> QED
    BY <1>3, <1>4, <1>5, <2>2, IsBuilt
<1> QED
  BY <1>3, <1>6, <1>7, <1>8 DEF Holds

\* Shares of the old table are held by the same key in the new one.
LEMMA HoldsOn ==
    ASSUME NEW tb, SoundUniverse(tb), NEW new, SoundUniverse(new), NEW g, ComesFrom(tb, new, g),
           NEW issuer \in Keys, NEW name \in Names, NEW r, r = Issuance(issuer, name),
           NEW key \in Keys, NEW c \in Nat, NEW p \in Slots, IdOf(new, p) # NoId,
           Holds(tb, g[p], r, key, c)
    PROVE  Holds(new, p, r, key, c)
<1>1. PICK o \in Slots, v \in Slots :
         /\ IdOf(tb, v) = Id(r)
         /\ IdOf(tb, o) = Id(Ownership(key, c, v))
         /\ IdOf(tb, g[p]) = Id(Possession(key, c, o))
  BY DEF Holds
<1>2. /\ IsRecord(r, "ISSUANCE", issuer, name, 0, 0)
      /\ IsRecord(Ownership(key, c, v), "OWNERSHIP", key, NoName, c, v)
      /\ IsRecord(Possession(key, c, o), "POSSESSION", key, NoName, c, o)
  BY IssuanceIs, OwnershipIs, PossessionIs
<1>3. \A j \in Slots : IdOf(new, j) \in Ids /\ RefIsRight(new, IdOf(new, j))
  BY RecordFields DEF SoundUniverse
<1> DEFINE o1 == Ref(IdOf(new, p))
           v1 == Ref(IdOf(new, o1))
<1>4. o1 \in Slots /\ g[o1] = o /\ IdOf(new, p) = Id(Possession(key, c, o1))
  <2>1. Like(Id(Possession(key, c, o)), IdOf(new, p), g)
    BY <1>1 DEF ComesFrom
  <2>2. /\ Ty(IdOf(new, p)) = "POSSESSION" /\ Holder(IdOf(new, p)) = key
        /\ Name(IdOf(new, p)) = NoName /\ Con(IdOf(new, p)) = c /\ g[o1] = o
    BY <1>2, <2>1 DEF Like, IsRecord
  <2>3. o1 \in Slots
    BY <1>3, IdParts
  <2>4. IsRecord(Possession(key, c, o1), "POSSESSION", key, NoName, c, o1)
    BY <2>3, PossessionIs
  <2> QED
    BY <1>3, <2>2, <2>3, <2>4, IsBuilt
<1>5. Ty(IdOf(new, o1)) = "OWNERSHIP"
  <2>1. Ty(IdOf(new, p)) = "POSSESSION" /\ RefIsRight(new, IdOf(new, p))
    BY <1>1, <1>2, <1>3 DEF ComesFrom, Like, IsRecord
  <2> QED
    BY <2>1 DEF RefIsRight, MayReferTo
<1> HIDE DEF o1
<1>6. v1 \in Slots /\ g[v1] = v /\ IdOf(new, o1) = Id(Ownership(key, c, v1))
  <2>1. Like(Id(Ownership(key, c, v)), IdOf(new, o1), g)
    BY <1>1, <1>4, <1>5, NoAssetFacts DEF ComesFrom
  <2>2. /\ Holder(IdOf(new, o1)) = key
        /\ Name(IdOf(new, o1)) = NoName /\ Con(IdOf(new, o1)) = c /\ g[v1] = v
    BY <1>2, <1>5, <2>1 DEF Like, IsRecord
  <2>3. v1 \in Slots
    BY <1>3, <1>4, IdParts
  <2>4. IsRecord(Ownership(key, c, v1), "OWNERSHIP", key, NoName, c, v1)
    BY <2>3, OwnershipIs
  <2> QED
    BY <1>3, <1>4, <1>5, <2>2, <2>3, <2>4, IsBuilt
<1>7. Ty(IdOf(new, v1)) = "ISSUANCE"
  BY <1>3, <1>4, <1>5 DEF RefIsRight, MayReferTo
<1> HIDE DEF v1
<1>8. IdOf(new, v1) = Id(r)
  <2>1. Like(Id(r), IdOf(new, v1), g)
    BY <1>1, <1>6, <1>7, NoAssetFacts DEF ComesFrom
  <2>2. /\ Holder(IdOf(new, v1)) = issuer /\ Name(IdOf(new, v1)) = name
        /\ Con(IdOf(new, v1)) = 0 /\ Ref(IdOf(new, v1)) = 0
    BY <1>2, <1>7, <2>1 DEF Like, IsRecord
  <2> QED
    BY <1>2, <1>3, <1>6, <1>7, <2>2, IsBuilt
<1> QED
  BY <1>4, <1>6, <1>8 DEF Holds

\* Nobody's shares change when the universe is rebuilt.
LEMMA EndEpochKeepsHolding ==
    ASSUME NEW tb, Complete(tb), NEW issuer \in Keys, NEW name \in Names, NEW key \in Keys, NEW c \in Nat
    PROVE  Holding(assetsEndEpoch(tb), issuer, name, key, c) = Holding(tb, issuer, name, key, c)
<1> DEFINE new == assetsEndEpoch(tb)
           r == Issuance(issuer, name)
           H(table) == Holding(table, issuer, name, key, c)
<1>1. Rebuilding(tb, new, ASSETS_CAPACITY)
  BY EndEpochRebuilds
<1> HIDE DEF new, r
<1>2. PICK g : ComesFrom(tb, new, g) /\ Covers(tb, new, g, ASSETS_CAPACITY)
  BY <1>1 DEF Rebuilding
<1>3. /\ SoundUniverse(tb) /\ HasFree(tb)
      /\ SoundUniverse(new) /\ HasFree(new)
  BY <1>1, RoomIsFree DEF Complete, Rebuilding, Consistent
<1>4. /\ \A p : Holds(tb, p, r, key, c) => H(tb) = SharesOf(tb, p)
      /\ (\A p : ~Holds(tb, p, r, key, c)) => H(tb) = 0
  BY <1>3, HoldingIs DEF r
<1>5. /\ \A p : Holds(new, p, r, key, c) => H(new) = SharesOf(new, p)
      /\ (\A p : ~Holds(new, p, r, key, c)) => H(new) = 0
  BY <1>3, HoldingIs DEF r
<1> HIDE DEF H
<1>6. CASE \E p : Holds(new, p, r, key, c)
  <2>1. PICK p : Holds(new, p, r, key, c)
    BY <1>6
  <2>2. Holds(tb, g[p], r, key, c)
    BY <1>2, <1>3, <2>1, HoldsBack DEF r
  <2>3. p \in Slots /\ Ty(IdOf(new, p)) = "POSSESSION"
    BY <2>1, PossessionIs DEF Holds, IsRecord
  <2>4. SharesOf(new, p) = SharesOf(tb, g[p])
    BY <1>2, <2>3 DEF Covers
  <2> QED
    BY <1>4, <1>5, <2>1, <2>2, <2>4 DEF H, new
<1>7. CASE \A p : ~Holds(new, p, r, key, c)
  <2>1. ASSUME NEW p, Holds(tb, p, r, key, c) PROVE SharesOf(tb, p) = 0
    <3>1. p \in Slots /\ Ty(IdOf(tb, p)) = "POSSESSION"
      BY <2>1, PossessionIs DEF Holds, IsRecord
    <3>2. p < ASSETS_CAPACITY
      BY <3>1, UniverseFacts
    <3> SUFFICES ASSUME SharesOf(tb, p) # 0 PROVE FALSE
      OBVIOUS
    <3>3. PICK j \in Slots : Ty(IdOf(new, j)) = "POSSESSION" /\ g[j] = p
      BY <1>2, <3>1, <3>2 DEF Covers
    <3>4. IdOf(new, j) # NoId
      BY <3>3, NoAssetFacts
    <3>5. Holds(new, j, r, key, c)
      BY <1>2, <1>3, <2>1, <3>3, <3>4, HoldsOn DEF r
    <3> QED
      BY <1>7, <3>5
  <2>2. H(tb) = 0
    BY <1>4, <2>1
  <2> QED
    BY <1>5, <1>7, <2>2 DEF H, new
<1> QED
  BY <1>6, <1>7

-------------------------------------------------------------------------------
(* The theorems about the universe *)

\* The inductive invariant: the universe is complete between any two logs.
UniverseInv == Complete(assets)

\* The first asset is issued in an empty universe.
LEMMA InitUniverse == Init => UniverseInv
<1> SUFFICES ASSUME Init PROVE UniverseInv
  OBVIOUS
<1>1. Min(Contracts) \in Nat
  <2>1. \E c \in Contracts : \A e \in Contracts : c <= e
    BY UniverseAssumption, Least
  <2>2. Min(Contracts) \in Contracts
    BY <2>1 DEF Min
  <2> QED
    BY <2>2, UniverseAssumption
<1>2. PICK issuer \in Keys, name \in Names :
         assets = issueAsset(EmptyUniverse, issuer, name, 2, Min(Contracts)).assets
  BY DEF Init
<1>3. Consistent(assets, Nothing, 0)
  BY <1>1, <1>2, EmptyIsConsistent, IssueAssetKeeps
<1> QED
  BY <1>3 DEF UniverseInv, Complete

\* HasRoom counts the same slots as Room.
LEMMA RoomForRecords ==
    ASSUME UniverseInv, NEW n, HasRoom(n)
    PROVE  Consistent(assets, Nothing, n)
<1>1. SoundUniverse(assets) /\ Owes(assets, Nothing)
  BY DEF UniverseInv, Complete, Consistent
<1>2. {i \in Slots : IsFree(assets, i)} = Free(assets)
  BY <1>1, FreeIsNoId DEF Free
<1>3. Room(assets, n)
  BY <1>2 DEF HasRoom, Room
<1> QED
  BY <1>1, <1>3 DEF Consistent

\* Every log and the end of an epoch leave the universe complete.
LEMMA UniverseStep == UniverseInv /\ [Next]_vars => UniverseInv'
<1> SUFFICES ASSUME UniverseInv, [Next]_vars PROVE UniverseInv'
  OBVIOUS
<1>0. ASSUME assets' = assets PROVE UniverseInv'
  BY <1>0 DEF UniverseInv
<1>01. Amounts \subseteq Nat /\ Contracts \subseteq Nat
  BY LedgerAssumption, UniverseAssumption
<1>02. ASSUME NEW result, AssetEvent(result), Consistent(result.assets, Nothing, 0) PROVE UniverseInv'
  BY <1>02 DEF AssetEvent, UniverseInv, Complete
<1>1. CASE LoadFiles
  BY <1>0, <1>1 DEF LoadFiles
<1>2. ASSUME NEW sp, SpectrumEvent(sp) PROVE UniverseInv'
  BY <1>0, <1>2 DEF SpectrumEvent, universeVars
<1>3. CASE \E s, d \in Keys, a \in Amounts : QuTransfer(s, d, a)
  BY <1>2, <1>3 DEF QuTransfer
<1>4. CASE \E s, d1, d2 \in PublicKeys, a \in Amounts : DistributeDividends(s, <<d1, d2>>, a)
  BY <1>2, <1>4 DEF DistributeDividends
<1>5. CASE \E s \in PublicKeys, a \in Amounts : QuBurn(s, a)
  BY <1>2, <1>5 DEF QuBurn
<1>6. CASE \E i \in Keys, n \in Names, a \in Amounts, c \in Contracts : IssueAsset(i, n, a, c)
  <2>1. PICK i \in Keys, n \in Names, a \in Amounts, c \in Contracts : IssueAsset(i, n, a, c)
    BY <1>6
  <2>2. HasRoom(3) /\ AssetEvent(issueAsset(assets, i, n, a, c))
    BY <2>1 DEF IssueAsset
  <2>3. Consistent(issueAsset(assets, i, n, a, c).assets, Nothing, 0)
    BY <1>01, <2>2, RoomForRecords, IssueAssetKeeps
  <2> QED
    BY <1>02, <2>2, <2>3
<1>7. CASE \E i, s, d \in Keys, n \in Names, a \in Amounts, c \in Contracts :
              ChangeOwnershipAndPossession(i, n, s, a, c, d)
  <2>1. PICK i \in Keys, s \in Keys, d \in Keys, n \in Names, a \in Amounts, c \in Contracts :
           ChangeOwnershipAndPossession(i, n, s, a, c, d)
    BY <1>7
  <2> DEFINE result == transferShareOwnershipAndPossession(assets, n, i, s, a, c, d)
  <2>2. HasRoom(2) /\ AssetEvent(result)
    BY <2>1 DEF ChangeOwnershipAndPossession
  <2>3. Consistent(result.assets, Nothing, 0)
    BY <1>01, <2>2, RoomForRecords, OwnershipAndPossessionKeep
  <2> HIDE DEF result
  <2> QED
    BY <1>02, <2>2, <2>3
<1>8. CASE \E i, o \in Keys, n \in Names, a \in Amounts, c, e \in Contracts :
              ChangeManagingContract(i, n, o, a, c, e)
  <2>1. PICK i \in Keys, k \in Keys, n \in Names, a \in Amounts, c \in Contracts, e \in Contracts :
           ChangeManagingContract(i, n, k, a, c, e)
    BY <1>8
  <2> DEFINE v == findIssuerIndex(assets, i, n)
             o == findOwnershipIndex(assets, v, k, c)
             p == findPossessionIndex(assets, o, k, c)
             result == transferShareManagementRights(assets, o, p, e, a)
  <2>2. HasRoom(2) /\ p # -1 /\ AssetEvent(result)
    BY <2>1 DEF ChangeManagingContract
  <2>3. o \in Slots /\ p \in Slots
    BY <1>01, <2>2, FindPossessionType DEF UniverseInv, Complete
  <2> HIDE DEF o, p
  <2>4. Consistent(result.assets, Nothing, 0)
    BY <1>01, <2>2, <2>3, RoomForRecords, ManagementRightsKeep
  <2> HIDE DEF result
  <2> QED
    BY <1>02, <2>2, <2>4
<1>9. CASE NextTick
  BY <1>0, <1>9 DEF NextTick, universeVars
<1>10. CASE VerifyNodeStateDigest
  BY <1>0, <1>10 DEF VerifyNodeStateDigest
<1>11. CASE EndEpoch
  <2>1. assets' = assetsEndEpoch(assets)
    BY <1>11 DEF EndEpoch
  <2> QED
    BY <2>1, EndEpochRebuilds DEF UniverseInv, Complete, Rebuilding
<1>12. CASE UNCHANGED vars
  BY <1>0, <1>12 DEF vars, universeVars
<1> QED
  BY <1>1, <1>3, <1>4, <1>5, <1>6, <1>7, <1>8, <1>9, <1>10, <1>11, <1>12 DEF Next

\* The universe is complete in every reachable state.
THEOREM UniverseInvariance == Spec => []UniverseInv
BY InitUniverse, UniverseStep, PTL DEF Spec

\* The find functions of Asset.h find every record, although issueAsset places an
\* ownership and a possession by their predecessor and not by their hash, and although
\* the table is rebuilt at the end of an epoch.
THEOREM RecordsCorrect == Spec => []RecordsAreFound
<1>1. ASSUME UniverseInv PROVE RecordsAreFound
  <2>1. SoundUniverse(assets) /\ HasFree(assets) /\ assets \in AssetTables
    BY <1>1, RoomIsFree DEF UniverseInv, Complete, Consistent, SoundUniverse
  <2>2. ASSUME NEW i \in Slots, ~IsFree(assets, i) PROVE FindIndex(assets, assets[i]) = i
    <3>1. assets[i] \in AssetRecords /\ IdOf(assets, i) = Id(assets[i])
      BY <2>1, RecordFields DEF IdOf
    <3>2. Id(assets[i]) # NoId
      BY <2>1, <2>2, <3>1, FreeIsNoId
    <3> QED
      BY <2>1, <3>1, <3>2, FindIs
  <2> QED
    BY <2>2 DEF RecordsAreFound
<1> QED
  BY <1>1, UniverseInvariance, PTL

\* No index between records is ever stale, and an ownership always has exactly the
\* shares of its possessions.
THEOREM HoldingsCorrect == Spec => []HoldingsAgree
<1>1. ASSUME UniverseInv PROVE HoldingsAgree
  <2>1. SoundUniverse(assets) /\ Owes(assets, Nothing) /\ assets \in AssetTables
    BY <1>1 DEF UniverseInv, Complete, Consistent, SoundUniverse
  <2>2. \A i \in Slots :
           /\ assets[i].numberOfShares = SharesOf(assets, i)
           /\ assets[i].type = Ty(IdOf(assets, i)) /\ assets[i].ref = Ref(IdOf(assets, i))
           /\ assets[i].managingContractIndex = Con(IdOf(assets, i))
           /\ Ref(IdOf(assets, i)) \in Slots
    BY <2>1, RecordFields, IdParts
  <2>3. ASSUME NEW i \in Slots
        PROVE  LET r == assets[i]
                   possessed == [p \in Slots |->
                       IF assets[p].type = "POSSESSION" /\ assets[p].ref = i
                       THEN assets[p].numberOfShares ELSE 0]
               IN  /\ r.type = "POSSESSION" =>
                          /\ assets[r.ref].type = "OWNERSHIP"
                          /\ assets[r.ref].managingContractIndex = r.managingContractIndex
                   /\ r.type = "OWNERSHIP" =>
                          /\ assets[r.ref].type = "ISSUANCE"
                          /\ r.numberOfShares = SumBelow(possessed, ASSETS_CAPACITY)
    <3> DEFINE x == IdOf(assets, i)
               y == IdOf(assets, Ref(x))
               possessed == [p \in Slots |->
                   IF assets[p].type = "POSSESSION" /\ assets[p].ref = i
                   THEN assets[p].numberOfShares ELSE 0]
    <3>1. /\ Ty(x) = "POSSESSION" => Ty(y) = "OWNERSHIP" /\ Con(y) = Con(x)
          /\ Ty(x) = "OWNERSHIP" => Ty(y) = "ISSUANCE"
      BY <2>1 DEF SoundUniverse, RefIsRight, MayReferTo
    <3>2. Ty(x) = "OWNERSHIP" => SharesOf(assets, i) = SumBelow(possessed, ASSETS_CAPACITY)
      <4>1. possessed = PossessedAt(assets, i)
        BY <2>2 DEF PossessedAt, Weight
      <4>2. Nothing[i] = 0 /\ Possessed(assets, i) \in Int
        BY <2>1, PossessedType DEF Nothing
      <4>3. Ty(x) = "OWNERSHIP" => SharesOf(assets, i) = Possessed(assets, i)
        BY <2>1, <4>2 DEF Owes
      <4> QED
        BY <4>1, <4>3 DEF Possessed
    <3> HIDE DEF possessed
    <3>3. /\ assets[i].type = Ty(x) /\ assets[i].ref = Ref(x)
          /\ assets[i].managingContractIndex = Con(x) /\ assets[i].numberOfShares = SharesOf(assets, i)
          /\ assets[Ref(x)].type = Ty(y) /\ assets[Ref(x)].managingContractIndex = Con(y)
      BY <2>2
    <3> HIDE DEF x, y
    <3> QED
      BY <3>1, <3>2, <3>3, Zenon DEF possessed
  <2> QED
    BY <2>3 DEF HoldingsAgree
<1> QED
  BY <1>1, UniverseInvariance, PTL

\* Only the rebuild ends an epoch: nobody's balance and nobody's shares change by it.
THEOREM EpochCorrect == Spec => EpochKeepsHoldings
<1> DEFINE Kept == EpochEnded =>
              /\ \A k \in PublicKeys : Balance(spectrum', k) = Balance(spectrum, k)
              /\ \A i, k \in Keys, n \in Names, c \in Contracts :
                    Holding(assets', i, n, k, c) = Holding(assets, i, n, k, c)
<1>1. ASSUME SpectrumInv, UniverseInv, [Next]_vars PROVE [Kept]_vars
  <2> SUFFICES ASSUME EpochEnded, Next PROVE Kept
    BY <1>1
  <2>1. EndEpoch
    <3>1. phase = "replay" /\ phase' = "load"
      BY DEF EpochEnded
    <3>2. phase' # phase
      BY <3>1
    <3>3. ~ReplayEvent
      BY <3>2 DEF ReplayEvent, batchVars
    <3>4. /\ ~LoadFiles /\ ~NextTick /\ ~VerifyNodeStateDigest
      BY <3>1, <3>2 DEF LoadFiles, NextTick, VerifyNodeStateDigest
    <3>5. \A sp : ~SpectrumEvent(sp)
      BY <3>3 DEF SpectrumEvent
    <3>6. \A result : ~AssetEvent(result)
      BY <3>3 DEF AssetEvent
    <3>7. \A s, d, a : ~QuTransfer(s, d, a)
      BY <3>5 DEF QuTransfer
    <3>8. \A s, payees, a : ~DistributeDividends(s, payees, a)
      BY <3>5 DEF DistributeDividends
    <3>9. \A s, a : ~QuBurn(s, a)
      BY <3>5 DEF QuBurn
    <3>10. \A i, n, a, c : ~IssueAsset(i, n, a, c)
      BY <3>6 DEF IssueAsset
    <3>11. \A i, n, s, a, c, d : ~ChangeOwnershipAndPossession(i, n, s, a, c, d)
      BY <3>6 DEF ChangeOwnershipAndPossession
    <3>12. \A i, n, o, a, c, e : ~ChangeManagingContract(i, n, o, a, c, e)
      BY <3>6 DEF ChangeManagingContract
    <3> QED
      BY <3>4, <3>7, <3>8, <3>9, <3>10, <3>11, <3>12 DEF Next
  <2>2. spectrum' = reorganizeSpectrum(spectrum) /\ assets' = assetsEndEpoch(assets)
    BY <2>1 DEF EndEpoch
  <2>3. \A k \in PublicKeys : Balance(spectrum', k) = Balance(spectrum, k)
    BY <1>1, <2>2, ReorganizeKeepsBalances DEF SpectrumInv
  <2>4. \A i, k \in Keys, n \in Names, c \in Contracts :
           Holding(assets', i, n, k, c) = Holding(assets, i, n, k, c)
    BY <1>1, <2>2, UniverseAssumption, EndEpochKeepsHolding DEF UniverseInv
  <2> QED
    BY <2>3, <2>4
<1>2. Spec => [][Kept]_vars
  BY <1>1, SpectrumInvariance, UniverseInvariance, PTL DEF Spec
<1> QED
  BY <1>2 DEF EpochKeepsHoldings

===============================================================================
