-------------------------------- MODULE Ledger --------------------------------
(***************************************************************************)
(* What verifyLoggingEvent does with the logs of a batch of ticks: it      *)
(* replays them into the spectrum and the universe, brings the digests of  *)
(* both up to date and compares them with the votes; after the END_EPOCH   *)
(* log it rebuilds both tables, which the next epoch loads again.          *)
(*                                                                         *)
(* The logs are those of what the network executed, so an entity pays no   *)
(* more than it has and management rights are moved by who holds them.     *)
(* Logs that lead elsewhere, the votes and the files are EventPipeline.    *)
(***************************************************************************)
EXTENDS Universe

CONSTANTS
    Amounts,            \* amounts of QU and of shares in one log
    BATCH_VERIFICATION, \* 64
    MaxEvents,          \* bound: logs replayed
    MaxTick             \* bound: last tick

ASSUME LedgerAssumption ==
    /\ Amounts \subseteq Nat
    /\ BATCH_VERIFICATION \in Nat /\ MaxEvents \in Nat /\ MaxTick \in Nat

VARIABLES
    phase,              \* "load": before the tables are loaded; "replay"
    processFromTick,
    tick,               \* the tick whose logs are being replayed
    events,             \* bound: logs replayed so far
    supply              \* history: QU issued and not burnt

spectrumVars == <<spectrum, spectrumDigests, spectrumChangeFlags>>
universeVars == <<assets, assetDigests, assetChangeFlags>>
batchVars == <<phase, processFromTick, tick>>
vars == <<spectrumVars, universeVars, batchVars, events, supply>>

Keys == PublicKeys \cup {ZeroKey}

\* The tables of an epoch to begin with: every entity has one QU and there is
\* one asset, of an entity or of a contract (whose issuer is the zero key).
Init ==
    /\ spectrum = Credits(EmptySpectrum, [k \in 1 .. Cardinality(PublicKeys) |->
                       [destination |-> SetToSeq(PublicKeys)[k], amount |-> 1]], 1)
    /\ \E issuer \in Keys, name \in Names :
          assets = issueAsset(EmptyUniverse, issuer, name, 2, Min(Contracts)).assets
    /\ spectrumDigests = [i \in DigestIndices(SPECTRUM_CAPACITY) |-> NoDigest]
    /\ assetDigests = [i \in DigestIndices(ASSETS_CAPACITY) |-> NoDigest]
    /\ spectrumChangeFlags = {}
    /\ assetChangeFlags = {}
    /\ phase = "load"
    /\ processFromTick = 2 /\ tick = 2
    /\ events = 0
    /\ supply = Cardinality(PublicKeys)

-------------------------------------------------------------------------------
\* verifyLoggingEvent starts: the tables are loaded from the files into fresh
\* memory and all digests are computed.
LoadFiles ==
    /\ phase = "load"
    /\ LET zero(capacity) == [i \in DigestIndices(capacity) |-> NoDigest]
           sd == computeSpectrumDigest(spectrum, zero(SPECTRUM_CAPACITY), {}, Entities)
           ud == getUniverseDigest(assets, zero(ASSETS_CAPACITY), {}, Slots)
       IN  /\ spectrumDigests' = sd.digests
           /\ spectrumChangeFlags' = sd.changeFlags
           /\ assetDigests' = ud.digests
           /\ assetChangeFlags' = ud.changeFlags
    /\ phase' = "replay"
    /\ UNCHANGED <<spectrum, assets, processFromTick, tick, events, supply>>

\* The next log of the batch.
ReplayEvent ==
    /\ phase = "replay"
    /\ events < MaxEvents
    /\ events' = events + 1
    /\ UNCHANGED batchVars

SpectrumEvent(sp) ==
    /\ ReplayEvent
    /\ spectrum' = sp
    /\ UNCHANGED <<spectrumDigests, spectrumChangeFlags, universeVars>>

\* A log with the zero key as source issues QU; one with the zero key as
\* destination destroys them.
QuTransfer(source, destination, amount) ==
    /\ source = ZeroKey \/ Balance(spectrum, source) >= amount
    /\ SpectrumEvent(processQuTransfer(spectrum, source, destination, amount, tick))
    /\ supply' = supply + (IF source = ZeroKey THEN amount ELSE 0)
                        - (IF destination = ZeroKey THEN amount ELSE 0)

\* The logs between OP_START_ and OP_END_DISTRIBUTE_DIVIDENDS.
DistributeDividends(source, payees, amount) ==
    LET payments == [k \in DOMAIN payees |->
                        [destination |-> payees[k], amount |-> amount]]
    IN  /\ spectrumIndex(spectrum, source) # -1
        /\ Balance(spectrum, source) >= Len(payees) * amount
        /\ SpectrumEvent(processDistributeDividends(spectrum, source, payments, tick))
        /\ UNCHANGED supply

QuBurn(source, amount) ==
    /\ Balance(spectrum, source) >= amount
    /\ SpectrumEvent(processQuBurn(spectrum, source, amount, tick))
    /\ supply' = supply - amount

\* A probe of a full table for an absent record does not end: an operation
\* that enters up to n records must leave a free slot.
HasRoom(n) == Cardinality({i \in Slots : IsFree(assets, i)}) > n

AssetEvent(result) ==
    /\ ReplayEvent
    /\ assets' = result.assets
    /\ assetChangeFlags' = assetChangeFlags \cup result.changed
    /\ UNCHANGED <<assetDigests, spectrumVars, supply>>

IssueAsset(issuer, name, shares, contract) ==
    /\ HasRoom(3)
    /\ AssetEvent(issueAsset(assets, issuer, name, shares, contract))

\* A pair of logs, ownership and possession, from owner and possessor source.
ChangeOwnershipAndPossession(issuer, name, source, shares, contract, destination) ==
    /\ HasRoom(2)
    /\ AssetEvent(transferShareOwnershipAndPossession(assets, name, issuer, source,
                                                      shares, contract, destination))

\* A pair of logs; the replay exits if the records are not found.
ChangeManagingContract(issuer, name, owner, shares, from, to) ==
    LET issuanceIndex == findIssuerIndex(assets, issuer, name)
        ownershipIndex == findOwnershipIndex(assets, issuanceIndex, owner, from)
        possessionIndex == findPossessionIndex(assets, ownershipIndex, owner, from)
    IN  /\ HasRoom(2)
        /\ possessionIndex # -1
        /\ CanTakeShares(assets, ownershipIndex, possessionIndex, shares)
        /\ AssetEvent(transferShareManagementRights(assets, ownershipIndex,
                                                    possessionIndex, to, shares))

\* The logs of the next tick of the batch follow.
NextTick ==
    /\ phase = "replay"
    /\ tick < MaxTick
    /\ tick < processFromTick + BATCH_VERIFICATION
    /\ tick' = tick + 1
    /\ UNCHANGED <<spectrumVars, universeVars, phase, processFromTick, events, supply>>

\* The batch processFromTick .. tick is replayed: its digests are computed.
VerifyNodeStateDigest ==
    /\ phase = "replay"
    /\ tick < MaxTick
    /\ LET touched == TouchedEntities(spectrum, processFromTick, tick)
           sd == computeSpectrumDigest(spectrum, spectrumDigests, spectrumChangeFlags, touched)
           ud == getUniverseDigest(assets, assetDigests, assetChangeFlags, assetChangeFlags)
       IN  /\ spectrumDigests' = sd.digests
           /\ spectrumChangeFlags' = sd.changeFlags
           /\ assetDigests' = ud.digests
           /\ assetChangeFlags' = ud.changeFlags
    /\ processFromTick' = tick + 1
    /\ tick' = tick + 1
    /\ UNCHANGED <<spectrum, assets, phase, events, supply>>

\* The batch held the END_EPOCH log: its digests are not compared, both
\* tables are rebuilt and saved, and the next epoch begins with them.
EndEpoch ==
    /\ phase = "replay"
    /\ tick < MaxTick
    /\ spectrum' = reorganizeSpectrum(spectrum)
    /\ assets' = assetsEndEpoch(assets)
    /\ assetChangeFlags' = Slots
    /\ phase' = "load"
    /\ processFromTick' = tick + 1
    /\ tick' = tick + 1
    /\ UNCHANGED <<spectrumDigests, spectrumChangeFlags, assetDigests, events, supply>>

Next ==
    \/ LoadFiles
    \/ \E s, d \in Keys, a \in Amounts : QuTransfer(s, d, a)
    \/ \E s, d1, d2 \in PublicKeys, a \in Amounts : DistributeDividends(s, <<d1, d2>>, a)
    \/ \E s \in PublicKeys, a \in Amounts : QuBurn(s, a)
    \/ \E i \in Keys, n \in Names, a \in Amounts, c \in Contracts : IssueAsset(i, n, a, c)
    \/ \E i, s, d \in Keys, n \in Names, a \in Amounts, c \in Contracts :
          ChangeOwnershipAndPossession(i, n, s, a, c, d)
    \/ \E i, o \in Keys, n \in Names, a \in Amounts, c, e \in Contracts :
          ChangeManagingContract(i, n, o, a, c, e)
    \/ NextTick
    \/ VerifyNodeStateDigest
    \/ EndEpoch

Spec == Init /\ [][Next]_vars

-------------------------------------------------------------------------------
\* Every record of the spectrum is the one that spectrumIndex finds for its key:
\* no probe chain is broken and no entity is stored twice, also after the table
\* was rebuilt without the entities that have no balance (Entity.h).
EntitiesAreFound ==
    \A i \in Entities :
        spectrum[i].publicKey # ZeroKey =>
            spectrumIndex(spectrum, spectrum[i].publicKey) = i

\* Every record of the universe is the one that the find functions return for
\* its fields (Asset.h), although issueAsset does not place ownerships and
\* possessions by their own hash.
RecordsAreFound ==
    \A i \in Slots : ~IsFree(assets, i) => FindIndex(assets, assets[i]) = i

\* Indices between records are never stale: a possession refers to an ownership
\* managed by the same contract, an ownership to an issuance, and an ownership
\* has exactly the shares of its possessions (Asset.h).
HoldingsAgree ==
    \A i \in Slots :
        LET r == assets[i]
            possessed == [p \in Slots |->
                IF assets[p].type = "POSSESSION" /\ assets[p].ref = i
                THEN assets[p].numberOfShares ELSE 0]
        IN  /\ r.type = "POSSESSION" =>
                   /\ assets[r.ref].type = "OWNERSHIP"
                   /\ assets[r.ref].managingContractIndex = r.managingContractIndex
            /\ r.type = "OWNERSHIP" =>
                   /\ assets[r.ref].type = "ISSUANCE"
                   /\ r.numberOfShares = SumBelow(possessed, ASSETS_CAPACITY)

\* QU are neither made nor lost by the replay: the balances add up to what was
\* issued and not burnt, over dividends, transfers to oneself and epochs.
SupplyIsConserved ==
    SumBelow([i \in Entities |-> energy(spectrum, i)], SPECTRUM_CAPACITY) = supply

\* The steps that VerifyNodeStateDigest and EndEpoch take.
BatchVerified == phase = "replay" /\ phase' = "replay" /\ processFromTick' # processFromTick
EpochEnded == phase = "replay" /\ phase' = "load"

\* The spectrum digest that a batch is judged by is that of the whole table,
\* although computeSpectrumDigest renews only the entities whose latest transfer
\* is in the batch, in a pyramid that reuses its change flags level by level.
SpectrumDigestIsCurrent ==
    [][BatchVerified =>
          Root(spectrumDigests', SPECTRUM_CAPACITY) = TreeOf(spectrum, SPECTRUM_CAPACITY)]_vars

\* The same of getUniverseDigest, which renews only what the operations flagged.
UniverseDigestIsCurrent ==
    [][BatchVerified =>
          Root(assetDigests', ASSETS_CAPACITY) = TreeOf(assets, ASSETS_CAPACITY)]_vars

\* Rebuilding the tables at the end of an epoch moves records and rewrites the
\* indices between them; nobody's balance and nobody's shares change.
EpochKeepsHoldings ==
    [][EpochEnded =>
          /\ \A k \in PublicKeys : Balance(spectrum', k) = Balance(spectrum, k)
          /\ \A i, k \in Keys, n \in Names, c \in Contracts :
                Holding(assets', i, n, k, c) = Holding(assets, i, n, k, c)]_vars
===============================================================================
