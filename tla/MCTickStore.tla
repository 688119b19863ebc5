---------------------------- MODULE MCTickStore ----------------------------
(* Four ticks, the third one empty, with transactions, special events, the log *)
(* with id 0, ranges of several logs and logs of every indexed kind.           *)
EXTENDS TickStore

MCTickTxs == <<{0}, {0, 1}, {}, {0, 1}>>

\* Indices 0 and 1 are transactions, 4 begins the tick, 5 ends it, 6 ends the epoch.
Ranges(f) == [i \in 0 .. 6 |-> IF i \in DOMAIN f THEN f[i] ELSE <<-1, -1>>]
MCLogRanges ==
    <<Ranges(0 :> <<0, 1>>),
      Ranges(4 :> <<1, 1>> @@ 0 :> <<2, 2>> @@ 1 :> <<4, 1>>),
      Ranges(5 :> <<5, 2>>),
      Ranges(0 :> <<7, 1>> @@ 1 :> <<8, 1>> @@ 5 :> <<9, 1>> @@ 6 :> <<10, 1>>)>>

Event(tick, type, source, destination, asset) ==
    [tick |-> tick, type |-> type, source |-> source, destination |-> destination,
     asset |-> asset, name |-> "n", contract |-> "c1", sc |-> 1, scLogType |-> 100001]
MCLogAt ==
    0 :> Event(1, QU_TRANSFER, "a", "b", Zero)
    @@ 1 :> Event(2, 6, "a", Zero, "x")
    @@ 2 :> Event(2, ASSET_OWNERSHIP_CHANGE, "a", "b", "x")
    @@ 3 :> Event(2, ASSET_POSSESSION_CHANGE, "a", "b", "x")
    @@ 4 :> Event(2, QU_TRANSFER, "b", "a", Zero)
    @@ 5 :> Event(3, BURNING, "a", Zero, Zero)
    @@ 6 :> Event(3, QU_TRANSFER, "a", "b", Zero)
    @@ 7 :> Event(4, QU_TRANSFER, "a", "b", Zero)
    @@ 8 :> Event(4, ASSET_ISSUANCE, "b", Zero, Zero)
    @@ 9 :> Event(4, CONTRACT_RESERVE_DEDUCTION, Zero, Zero, Zero)
    @@ 10 :> Event(4, 255, Zero, Zero, Zero)
MCSpam == {<<4, 0>>}
MCMatching == {<<1, 0>>, <<2, 1>>}

Ask(api, first, last) == [NoRequest EXCEPT !.api = api, !.from = first, !.to = last]
MCRequests ==
    {Ask("tick", 2, 2), Ask("tick", 3, 3), Ask("tx", 2, 1), Ask("tx", 4, 0),
     Ask("log", 3, 5), [Ask("getlogcustom", 2, 2) EXCEPT !.sc = 1, !.topics = <<"a", Zero, Zero>>],
     [Ask("catchUp", 2, 3) EXCEPT !.sub = {1, 4, 5}],
     [Ask("catchUpByLogId", 2, 4) EXCEPT !.sub = {3, 4}],
     [Ask("quTransfers", 2, 3) EXCEPT !.topics = <<"a", Zero, Zero>>],
     [Ask("assetTransfers", 2, 2) EXCEPT !.topics = <<"b", Zero, "x">>],
     [Ask("allAssetTransfers", 2, 2) EXCEPT !.topics = <<Zero, Zero, "x">>]}

\* Every log's own topics, masked in all ways, with and without its type, queries no
\* log matches and one with empty topics.
MCQueries ==
    UNION {LET x == Indexed(MCLogAt[id])[1]
           IN  {[sc |-> x.sc, logType |-> type,
                 topics |-> [j \in 1 .. 3 |-> IF j \in S THEN x.topics[j] ELSE Zero]] :
                    type \in {x.logType, NoType}, S \in SUBSET (1 .. 3)} : id \in 0 .. 9}
    \cup {[sc |-> sc, logType |-> type, topics |-> <<"b", "b", Zero>>] :
            sc \in {0, 1}, type \in {QU_TRANSFER, 100001}}
    \cup {[sc |-> 0, logType |-> QU_TRANSFER, topics |-> <<"a", NoTopic, NoTopic>>]}

=============================================================================
