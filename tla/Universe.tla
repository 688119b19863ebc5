------------------------------- MODULE Universe -------------------------------
(***************************************************************************)
(* The universe: one open-addressing table for three kinds of records.     *)
(* An ISSUANCE is an asset; an OWNERSHIP refers to an issuance by its      *)
(* index, a POSSESSION to an ownership.  Unlike the spectrum it finds what *)
(* its digest has to renew by change flags that every operation must set.  *)
(* Decimal places and units of measurement are left out: they are copied   *)
(* with the issuance and never read.                                       *)
(***************************************************************************)
EXTENDS Spectrum

CONSTANTS
    Names,              \* asset names
    NoName,             \* the name field of other records
    Contracts,          \* managing contract indices
    ASSETS_CAPACITY     \* 2^24

ASSUME UniverseAssumption ==
    /\ NoName \notin Names
    /\ Contracts \subseteq Nat /\ Contracts # {}
    /\ ASSETS_CAPACITY \in Nat /\ ASSETS_CAPACITY >= 4
    /\ \E n \in 2 .. ASSETS_CAPACITY : 2 ^ n = ASSETS_CAPACITY

VARIABLES
    assets,
    assetDigests,
    assetChangeFlags

Slots == 0 .. (ASSETS_CAPACITY - 1)
Following(i) == (i + 1) % ASSETS_CAPACITY

\* The union of the three record types; ref is issuanceIndex or ownershipIndex.
AssetRecord(type, publicKey, name, contract, ref) ==
    [type |-> type, publicKey |-> publicKey, name |-> name,
     managingContractIndex |-> contract, ref |-> ref, numberOfShares |-> 0]

NoAsset == AssetRecord("EMPTY", ZeroKey, NoName, 0, 0)
Issuance(issuer, name) == AssetRecord("ISSUANCE", issuer, name, 0, 0)
Ownership(owner, contract, issuanceIndex) ==
    AssetRecord("OWNERSHIP", owner, NoName, contract, issuanceIndex)
Possession(possessor, contract, ownershipIndex) ==
    AssetRecord("POSSESSION", possessor, NoName, contract, ownershipIndex)

EmptyUniverse == [i \in Slots |-> NoAsset]

\* The records agree on all but the number of shares.
SameRecord(r, s) ==
    [r EXCEPT !.numberOfShares = 0] = [s EXCEPT !.numberOfShares = 0]

IsFree(as, i) == as[i].type = "EMPTY"

\* Where record r is stored, or the free slot that a probe for it ends at.
ProbeAsset(as, r) ==
    Probe(Home[r.publicKey], ASSETS_CAPACITY,
          {i \in Slots : IsFree(as, i) \/ SameRecord(as[i], r)})

FindIndex(as, r) ==
    LET i == ProbeAsset(as, r) IN IF IsFree(as, i) THEN -1 ELSE i

findIssuerIndex(as, issuer, name) == FindIndex(as, Issuance(issuer, name))
findOwnershipIndex(as, issuanceIndex, owner, contract) ==
    IF issuanceIndex = -1 THEN -1
    ELSE FindIndex(as, Ownership(owner, contract, issuanceIndex))
findPossessionIndex(as, ownershipIndex, possessor, contract) ==
    IF ownershipIndex = -1 THEN -1
    ELSE FindIndex(as, Possession(possessor, contract, ownershipIndex))

\* Adds shares to the record at i, which becomes r if the slot was free.
AddShares(as, i, r, shares) ==
    [as EXCEPT ![i] = [r EXCEPT !.numberOfShares = as[i].numberOfShares + shares]]
SubtractShares(as, i, shares) ==
    [as EXCEPT ![i].numberOfShares = @ - shares]

\* What an operation leaves: the table, and the change flags it sets.
Result(as, flags) == [assets |-> as, changed |-> flags]
Unchanged(as) == Result(as, {})

\* The three records go to free slots, each searched from the one before.
issueAsset(as, issuer, name, shares, contract) ==
    LET free(table, i) == Probe(i, ASSETS_CAPACITY, {j \in Slots : IsFree(table, j)})
        issuanceIndex == ProbeAsset(as, Issuance(issuer, name))
        as1 == AddShares(as, issuanceIndex, Issuance(issuer, name), 0)
        ownershipIndex == free(as1, Following(issuanceIndex))
        as2 == AddShares(as1, ownershipIndex,
                         Ownership(issuer, contract, issuanceIndex), shares)
        possessionIndex == free(as2, Following(ownershipIndex))
        as3 == AddShares(as2, possessionIndex,
                         Possession(issuer, contract, ownershipIndex), shares)
    IN  IF IsFree(as, issuanceIndex)
        THEN Result(as3, {issuanceIndex, ownershipIndex, possessionIndex})
        ELSE Unchanged(as)

\* The early returns of both functions that move shares.
CanTakeShares(as, ownershipIndex, possessionIndex, shares) ==
    /\ shares > 0
    /\ as[ownershipIndex].type = "OWNERSHIP"
    /\ as[ownershipIndex].numberOfShares >= shares
    /\ as[possessionIndex].type = "POSSESSION"
    /\ as[possessionIndex].numberOfShares >= shares
    /\ as[possessionIndex].ref = ownershipIndex

\* Shares leave one ownership for that of owner under contract, found or
\* entered by probing.
MoveOwnership(as, source, owner, contract, shares) ==
    LET o == Ownership(owner, contract, as[source].ref)
        i == ProbeAsset(as, o)
    IN  [assets |-> AddShares(SubtractShares(as, source, shares), i, o, shares),
         index |-> i]

\* Mutant: the possession that the shares come from keeps them.
MovePossession_Kept(as, source, ownershipIndex, possessor, contract, shares) ==
    LET p == Possession(possessor, contract, ownershipIndex)
        i == ProbeAsset(as, p)
    IN  [assets |-> AddShares(as, i, p, shares), index |-> i]

\* The same for possessions.
MovePossession(as, source, ownershipIndex, possessor, contract, shares) ==
    LET p == Possession(possessor, contract, ownershipIndex)
        i == ProbeAsset(as, p)
    IN  [assets |-> AddShares(SubtractShares(as, source, shares), i, p, shares),
         index |-> i]

\* Mutant: the possession that loses shares is not flagged.
MoveShares_Unflagged(as, source, to, shares) ==
    LET o == MoveOwnership(as, source.ownership, to.owner, to.ownershipContract, shares)
        p == MovePossession(o.assets, source.possession, o.index, to.possessor,
                            to.possessionContract, shares)
    IN  Result(p.assets, {source.ownership, o.index, p.index})

\* What the two functions that move shares have in common: source names two
\* records, to the owner, the possessor and the contracts that manage for them.
MoveShares(as, source, to, shares) ==
    LET o == MoveOwnership(as, source.ownership, to.owner, to.ownershipContract, shares)
        p == MovePossession(o.assets, source.possession, o.index, to.possessor,
                            to.possessionContract, shares)
    IN  Result(p.assets, {source.ownership, source.possession, o.index, p.index})

\* Shares sent to the zero key are burnt, except those of a contract, whose
\* issuer is the zero key.
transferShares(as, sourceOwnership, sourcePossession, destination, shares) ==
    LET issuer == as[as[sourceOwnership].ref].publicKey
    IN  IF \/ ~CanTakeShares(as, sourceOwnership, sourcePossession, shares)
           \/ destination = ZeroKey /\ issuer = ZeroKey
        THEN Unchanged(as)
        ELSE IF destination = ZeroKey
        THEN Result(SubtractShares(SubtractShares(as, sourceOwnership, shares),
                                   sourcePossession, shares),
                    {sourceOwnership, sourcePossession})
        ELSE MoveShares(as, [ownership |-> sourceOwnership, possession |-> sourcePossession],
                 [owner |-> destination, possessor |-> destination,
                  ownershipContract |-> as[sourceOwnership].managingContractIndex,
                  possessionContract |-> as[sourcePossession].managingContractIndex],
                 shares)

\* holder is both the owner and the possessor, as its only caller passes them.
\* The possession is first looked up whoever manages it: one with another
\* managing contract than its ownership ends the search without a transfer.
transferShareOwnershipAndPossession(as, name, issuer, holder, shares, contract, destination) ==
    LET issuanceIndex == findIssuerIndex(as, issuer, name)
        ownershipIndex == findOwnershipIndex(as, issuanceIndex, holder, contract)
        possessionIndex ==
            Probe(Home[holder], ASSETS_CAPACITY,
                  {i \in Slots : \/ IsFree(as, i)
                                 \/ /\ as[i].type = "POSSESSION"
                                    /\ as[i].ref = ownershipIndex
                                    /\ as[i].publicKey = holder})
    IN  IF /\ ownershipIndex # -1
           /\ ~IsFree(as, possessionIndex)
           /\ as[possessionIndex].managingContractIndex = contract
           /\ as[possessionIndex].numberOfShares >= shares
        THEN transferShares(as, ownershipIndex, possessionIndex, destination, shares)
        ELSE Unchanged(as)

transferShareManagementRights(as, sourceOwnership, sourcePossession, contract, shares) ==
    IF CanTakeShares(as, sourceOwnership, sourcePossession, shares)
    THEN MoveShares(as, [ownership |-> sourceOwnership, possession |-> sourcePossession],
             [owner |-> as[sourceOwnership].publicKey,
              possessor |-> as[sourcePossession].publicKey,
              ownershipContract |-> contract, possessionContract |-> contract], shares)
    ELSE Unchanged(as)

\* Mutant: records without shares are wiped where they are.
assetsEndEpoch_InPlace(as) ==
    [i \in Slots |->
        IF as[i].type \in {"OWNERSHIP", "POSSESSION"} /\ as[i].numberOfShares = 0
        THEN NoAsset ELSE as[i]]

\* The possession at i is entered in the new table, if it has shares, with its
\* ownership and its issuance; the ownership is added up anew.
EnterPossession(as, new, i) ==
    LET owned == as[as[i].ref]
        issued == as[owned.ref]
        issuanceIndex == ProbeAsset(new, issued)
        new1 == AddShares(new, issuanceIndex, issued, 0)
        o == [owned EXCEPT !.ref = issuanceIndex]
        ownershipIndex == ProbeAsset(new1, o)
        new2 == AddShares(new1, ownershipIndex, o, as[i].numberOfShares)
        p == [as[i] EXCEPT !.ref = ownershipIndex]
    IN  IF as[i].type = "POSSESSION" /\ as[i].numberOfShares > 0
        THEN AddShares(new2, ProbeAsset(new2, p), p, as[i].numberOfShares)
        ELSE new

\* All possessions, in index order, in a table that is empty to begin with.
assetsEndEpoch(as) ==
    LET new[k \in 0 .. ASSETS_CAPACITY] ==
            IF k = 0 THEN EmptyUniverse ELSE EnterPossession(as, new[k - 1], k - 1)
    IN  new[ASSETS_CAPACITY]

\* leaves: the flagged records, or all of them for tickStart = UINT32_MAX.
getUniverseDigest(as, digests, flags, leaves) ==
    UpdateTree(WithLeaves(digests, as, leaves), flags \cup leaves, ASSETS_CAPACITY)

\* The shares of an asset that key owns and possesses under contract.
Holding(as, issuer, name, key, contract) ==
    LET i == findIssuerIndex(as, issuer, name)
        o == findOwnershipIndex(as, i, key, contract)
        p == findPossessionIndex(as, o, key, contract)
    IN  IF p = -1 THEN 0 ELSE as[p].numberOfShares
===============================================================================
