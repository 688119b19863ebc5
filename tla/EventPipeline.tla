---------------------------- MODULE EventPipeline ----------------------------
(***************************************************************************)
(* The logging pipeline of one epoch: EventRequestFromTrustedNode fetches  *)
(* log ranges and logs tick by tick, verifyLoggingEvent replays them in    *)
(* batches into the spectrum and universe and compares the result with the *)
(* votes, saves snapshots, recovers from malformed data and ends the       *)
(* epoch; indexVerifiedTicks follows; the garbage cleaner deletes logs     *)
(* behind it; the process may crash between any two writes and is started  *)
(* again by its supervisor.                                                *)
(*                                                                         *)
(* Data abstraction.  The logs of a tick are one value: not all stored,    *)
(* stored as the network executed them ("good"), or stored but different   *)
(* ("bad": they pass selfCheck and lead to a wrong state; "endless": those *)
(* of the virtual tick without the END_EPOCH message).  The replayed state *)
(* is the tick it reaches and whether every tick went into it correctly,   *)
(* which is what comparing digests with the votes tells.  That the votes   *)
(* of a tick behind gCurrentFetchingTick reach a quorum is TickQuorum.     *)
(***************************************************************************)
EXTENDS Integers, FiniteSets

CONSTANTS
    gInitialTick,       \* first tick of the epoch
    LastTick,           \* bound: last tick the network executes
    EndEpoch,           \* TRUE: LastTick is the virtual END_EPOCH tick
    LogTicks,           \* the ticks that generate logs
    BATCH_VERIFICATION, \* 64
    SAVE_PERIOD,        \* 1000
    LOOKAHEAD,          \* log ranges are requested this far ahead (4)
    DATA_THREADS,       \* data processor threads
    KEEP,               \* logs of this many indexed ticks are kept
    MaxCrashes,         \* bound: crashes
    MaxStops,           \* bound: requests to stop
    MaxBad              \* bound: malformed replies and unhelpful sets of votes

ASSUME PipelineAssumption ==
    /\ gInitialTick \in Nat \ {0}
    /\ LastTick \in Nat /\ gInitialTick < LastTick
    /\ EndEpoch \in BOOLEAN
    /\ LogTicks \subseteq gInitialTick .. LastTick
    /\ EndEpoch => LastTick \in LogTicks
    /\ BATCH_VERIFICATION \in Nat /\ SAVE_PERIOD \in Nat \ {0}
    /\ LOOKAHEAD \in Nat /\ DATA_THREADS \in Nat /\ KEEP \in Nat
    /\ MaxCrashes \in Nat /\ MaxStops \in Nat /\ MaxBad \in Nat

Ticks == gInitialTick .. LastTick
NoTick == 0
\* A snapshot may also be labelled with the tick before the epoch.
SnapshotTicks == (gInitialTick - 1) .. LastTick

\* What the verifier holds in memory and writes to a snapshot: the state after
\* tick upto, and whether it is the state of the network.
States == [upto : SnapshotTicks \cup {NoTick}, ok : BOOLEAN]
EpochStart == [upto |-> gInitialTick - 1, ok |-> TRUE]
NoState == [upto |-> NoTick, ok |-> FALSE]

VARIABLES
    \* KeyDB
    log_ranges,           \* ticks with log_ranges:<tick>, the ranges per transaction
    tick_log_range,       \* ticks with tick_log_range:<tick>, the range of the tick
    logs,                 \* per tick that generates logs: "none" or what is stored
    latest_tick,
    latest_event_tick,
    latest_verified_tick,
    last_indexed_tick,
    last_clean_tick,
    end_epoch_tick,
    \* the disk
    snapshot,             \* spectrum.<tick> and universe.<tick>, NoState if absent
    nextEpochFile,        \* spectrum.<epoch + 1>
    \* the process
    gCurrentFetchingTick,
    gCurrentFetchingLogTick,
    gCurrentVerifyLoggingTick,
    gIsEndEpoch,
    stopFlag,
    epc,                  \* EventRequestFromTrustedNode
    vpc,                  \* verifyLoggingEvent
    ipc,                  \* indexVerifiedTicks
    state,                \* spectrum and universe
    lastVerifiedTick,     \* the tracker of saveState
    saveLastTick,
    processToTick,
    saveTick,             \* argument of the saveState in progress
    doomed,               \* keys a loop of deletions has not reached yet
    refetched,            \* ticks whose logs rescue mode waits for
    inserting,            \* ticks between the two writes of db_insert_log_range
    \* bounds and history
    crashes, stops, bad,
    verified,             \* history: ticks whose replay matched the votes
    interrupted           \* history: see EndedEpochIsComplete

processFromTick == gCurrentVerifyLoggingTick

otherCursors == <<latest_tick, latest_verified_tick, last_indexed_tick,
                  last_clean_tick, end_epoch_tick>>
cursors == <<latest_event_tick, otherCursors>>
ranges == <<log_ranges, tick_log_range>>
db == <<ranges, logs, cursors>>
disk == <<snapshot, nextEpochFile>>
verifierData == <<gCurrentVerifyLoggingTick, gIsEndEpoch, state, lastVerifiedTick,
                  saveLastTick, processToTick, saveTick, verified>>
deletion == <<doomed, refetched>>
verifier == <<vpc, verifierData, deletion>>
fetcher == <<gCurrentFetchingTick, gCurrentFetchingLogTick, epc>>
bounds == <<crashes, stops, bad>>
vars == <<db, disk, verifier, fetcher, ipc, stopFlag, inserting, bounds, interrupted>>

Init ==
    /\ log_ranges = {} /\ tick_log_range = {}
    /\ logs = [t \in LogTicks |-> "none"]
    /\ latest_tick = 0
    /\ latest_event_tick = 0
    /\ latest_verified_tick = NoTick
    /\ last_indexed_tick = gInitialTick - 1
    /\ last_clean_tick = gInitialTick
    /\ end_epoch_tick = NoTick
    /\ snapshot = [t \in SnapshotTicks |-> NoState]
    /\ nextEpochFile = NoState
    /\ gCurrentFetchingTick = gInitialTick
    /\ gCurrentFetchingLogTick = gInitialTick
    /\ gCurrentVerifyLoggingTick = 0
    /\ gIsEndEpoch = FALSE
    /\ stopFlag = FALSE
    /\ epc = "idle" /\ vpc = "load" /\ ipc = "run"
    /\ state = NoState
    /\ lastVerifiedTick = NoTick
    /\ saveLastTick = FALSE
    /\ processToTick = NoTick
    /\ saveTick = NoTick
    /\ doomed = {} /\ refetched = {} /\ inserting = {}
    /\ crashes = 0 /\ stops = 0 /\ bad = 0
    /\ verified = {}
    /\ interrupted = FALSE

Max(a, b) == IF a > b THEN a ELSE b
Min(a, b) == IF a < b THEN a ELSE b

-----------------------------------------------------------------------------
(* Ticks and logs arrive *)

LogValues == {"good", "bad", "endless"}

\* IOVerifyThread (TickQuorum) moves past a tick with a quorum; the virtual
\* tick has none.
HasQuorum(t) == t < LastTick \/ (t = LastTick /\ ~EndEpoch)

AdvanceFetchingTick ==
    /\ ~stopFlag /\ ~gIsEndEpoch
    /\ gCurrentFetchingTick <= LastTick /\ HasQuorum(gCurrentFetchingTick)
    /\ latest_tick' = Max(latest_tick, gCurrentFetchingTick)
    /\ gCurrentFetchingTick' = gCurrentFetchingTick + 1
    /\ UNCHANGED <<ranges, logs, latest_event_tick, latest_verified_tick,
                   last_indexed_tick, last_clean_tick, end_epoch_tick>>
    /\ UNCHANGED <<disk, verifier, gCurrentFetchingLogTick, epc, ipc, stopFlag, inserting, bounds, interrupted>>

\* A reply to RequestAllLogIdRangesFromTick, perhaps a late one: ranges are
\* requested for gCurrentFetchingLogTick, a few ticks ahead, and again for
\* ticks of a batch in rescue mode.
processLogRanges(t) ==
    /\ t \notin log_ranges
    /\ t <= gCurrentFetchingLogTick + LOOKAHEAD
    /\ Cardinality(inserting) < DATA_THREADS
    /\ log_ranges' = log_ranges \cup {t}
    /\ inserting' = inserting \cup {t}
    /\ UNCHANGED <<tick_log_range, logs, cursors>>
    /\ UNCHANGED <<disk, verifier, fetcher, ipc, stopFlag, bounds, interrupted>>

\* The second write of db_insert_log_range.
InsertTickLogRange(t) ==
    /\ t \in inserting
    /\ tick_log_range' = tick_log_range \cup {t}
    /\ inserting' = inserting \ {t}
    /\ UNCHANGED <<log_ranges, logs, cursors>>
    /\ UNCHANGED <<disk, verifier, fetcher, ipc, stopFlag, bounds, interrupted>>

\* A reply to RequestLog.  The first copy of a log stays (NOT_EXIST).
processLogEvent(t, q) ==
    /\ \/ t < gCurrentFetchingLogTick
       \/ t = gCurrentFetchingLogTick /\ t \in tick_log_range
    /\ logs[t] = "none"
    /\ q # "good" => bad < MaxBad
    /\ q = "endless" => EndEpoch /\ t = LastTick
    /\ bad' = IF q # "good" THEN bad + 1 ELSE bad
    /\ logs' = [logs EXCEPT ![t] = q]
    /\ UNCHANGED <<ranges, cursors>>
    /\ UNCHANGED <<disk, verifier, fetcher, ipc, stopFlag, inserting, crashes, stops, interrupted>>

-----------------------------------------------------------------------------
(* EventRequestFromTrustedNode *)

\* refetchLogFromTick or refetchFromId is set.
Rescuing == vpc = "rescueLogs" \/ (vpc = "rescueRanges" /\ doomed = {})


\* One pass of the loop: stopFlag and the gate are checked at its top, the
\* cursor and then the DB are written at its end.
EventBegin ==
    /\ epc = "idle"
    /\ ~stopFlag /\ ~Rescuing
    /\ gCurrentFetchingLogTick < gCurrentFetchingTick + 1
    /\ gCurrentFetchingLogTick <= LastTick
    /\ epc' = "body"
    /\ UNCHANGED <<gCurrentFetchingTick, gCurrentFetchingLogTick>>
    /\ UNCHANGED <<db, disk, verifier, ipc, stopFlag, inserting, bounds, interrupted>>

\* The tick's range is missing or not all of its logs are stored: they are
\* requested.  A tick without logs is passed without a DB update.  Ranges
\* without the range of the tick: the pass ends and nothing is requested.
EventBody ==
    /\ epc = "body"
    /\ LET t == gCurrentFetchingLogTick
           known == t \in log_ranges \cap tick_log_range
       IN  IF known /\ (t \in LogTicks => logs[t] # "none")
           THEN /\ gCurrentFetchingLogTick' = t + 1
                /\ epc' = IF t \in LogTicks THEN "update" ELSE "idle"
           ELSE /\ UNCHANGED gCurrentFetchingLogTick
                /\ epc' = "idle"
    /\ UNCHANGED gCurrentFetchingTick
    /\ UNCHANGED <<db, disk, verifier, ipc, stopFlag, inserting, bounds, interrupted>>

EventUpdate ==
    /\ epc = "update"
    /\ latest_event_tick' = gCurrentFetchingLogTick
    /\ epc' = "idle"
    /\ UNCHANGED <<gCurrentFetchingTick, gCurrentFetchingLogTick>>
    /\ UNCHANGED <<ranges, logs, otherCursors>>
    /\ UNCHANGED <<disk, verifier, ipc, stopFlag, inserting, bounds, interrupted>>

-----------------------------------------------------------------------------
(* verifyLoggingEvent *)

\* The snapshot of latest_verified_tick, or the files of the epoch if that is
\* before the epoch.  A missing snapshot ends the process: exit(1).
LoadState ==
    /\ vpc = "load"
    /\ LET recover == latest_verified_tick >= gInitialTick
           found == recover => snapshot[latest_verified_tick] # NoState
           last == IF recover THEN latest_verified_tick ELSE gInitialTick - 1
       IN  IF found
           THEN /\ state' = IF recover THEN snapshot[last] ELSE EpochStart
                /\ lastVerifiedTick' = last
                /\ gCurrentVerifyLoggingTick' = last + 1
                /\ vpc' = "wait"
                /\ UNCHANGED stopFlag
           ELSE /\ vpc' = "dead"
                /\ stopFlag' = TRUE
                /\ UNCHANGED <<state, lastVerifiedTick, gCurrentVerifyLoggingTick>>
    /\ UNCHANGED <<gIsEndEpoch, saveLastTick, processToTick, saveTick, verified, deletion>>
    /\ UNCHANGED <<db, disk, fetcher, ipc, inserting, bounds, interrupted>>

Batch == processFromTick .. processToTick

\* Mutant: the batch is not cut before the virtual tick.
TakeBatch_AcrossEnd ==
    /\ vpc = "wait" /\ ~stopFlag
    /\ gCurrentFetchingLogTick # gInitialTick
    /\ gCurrentVerifyLoggingTick <= gCurrentFetchingLogTick - 1
    /\ processToTick' = Min(gCurrentVerifyLoggingTick + BATCH_VERIFICATION,
                            gCurrentFetchingLogTick - 1)
    /\ vpc' = "gather"
    /\ UNCHANGED <<gCurrentVerifyLoggingTick, gIsEndEpoch, state, lastVerifiedTick,
                   saveLastTick, saveTick, verified, deletion>>
    /\ UNCHANGED <<db, disk, fetcher, ipc, stopFlag, inserting, bounds, interrupted>>

\* The next batch: at most BATCH_VERIFICATION ticks further, none whose logs
\* are not fetched, and not across the virtual tick.  The first time the
\* virtual tick is seen the state is saved (SaveFiles ... SaveEndFiles).
TakeBatch ==
    /\ vpc = "wait" /\ ~stopFlag
    /\ gCurrentFetchingLogTick # gInitialTick
    /\ gCurrentVerifyLoggingTick <= gCurrentFetchingLogTick - 1
    /\ LET top == Min(gCurrentVerifyLoggingTick + BATCH_VERIFICATION,
                      gCurrentFetchingLogTick - 1)
           end == EndEpoch /\ LastTick <= top /\ LastTick \in log_ranges
       IN  /\ processToTick' = IF end /\ processFromTick < LastTick
                               THEN LastTick - 1 ELSE top
           /\ IF end /\ ~saveLastTick
              THEN /\ saveLastTick' = TRUE
                   /\ saveTick' = gCurrentVerifyLoggingTick - 1
                   /\ vpc' = "saveFiles"
              ELSE /\ UNCHANGED <<saveLastTick, saveTick>>
                   /\ vpc' = "gather"
    /\ UNCHANGED <<gCurrentVerifyLoggingTick, gIsEndEpoch, state, lastVerifiedTick, verified, deletion>>
    /\ UNCHANGED <<db, disk, fetcher, ipc, stopFlag, inserting, bounds, interrupted>>

\* Mutant: the previous snapshot is removed before the DB names the new one.
SaveFiles_RemovesFirst ==
    /\ vpc = "saveFiles"
    /\ snapshot' = [snapshot EXCEPT ![lastVerifiedTick] = NoState, ![saveTick] = state]
    /\ vpc' = "saveDb"
    /\ UNCHANGED <<verifierData, deletion>>
    /\ UNCHANGED <<db, nextEpochFile, fetcher, ipc, stopFlag, inserting, bounds, interrupted>>

\* saveState, one write at a time: the files of saveTick, the DB record, then
\* the files of the previous snapshot are removed.
SaveFiles ==
    /\ vpc = "saveFiles"
    /\ snapshot' = [snapshot EXCEPT ![saveTick] = state]
    /\ vpc' = "saveDb"
    /\ UNCHANGED <<verifierData, deletion>>
    /\ UNCHANGED <<db, nextEpochFile, fetcher, ipc, stopFlag, inserting, bounds, interrupted>>

SaveDb ==
    /\ vpc = "saveDb"
    /\ latest_verified_tick' = Max(latest_verified_tick, saveTick)
    /\ vpc' = "saveRemove"
    /\ UNCHANGED <<ranges, logs, latest_tick, latest_event_tick,
                   last_indexed_tick, last_clean_tick, end_epoch_tick>>
    /\ UNCHANGED <<verifierData, deletion>>
    /\ UNCHANGED <<disk, fetcher, ipc, stopFlag, inserting, bounds, interrupted>>

\* A save of the state before the batch belongs to the detection of the virtual
\* tick, one of the state after it to the end of a verified batch.
SaveRemove ==
    /\ vpc = "saveRemove"
    /\ snapshot' = [snapshot EXCEPT ![lastVerifiedTick] = NoState]
    /\ lastVerifiedTick' = saveTick
    /\ vpc' = IF saveTick < processFromTick THEN "saveEndFiles" ELSE "advance"
    /\ UNCHANGED <<gCurrentVerifyLoggingTick, gIsEndEpoch, state,
                   saveLastTick, processToTick, saveTick, verified, deletion>>
    /\ UNCHANGED <<db, nextEpochFile, fetcher, ipc, stopFlag, inserting, bounds, interrupted>>

\* A copy labelled with the tick before the virtual one.
SaveEndFiles ==
    /\ vpc = "saveEndFiles"
    /\ snapshot' = [snapshot EXCEPT ![LastTick - 1] = state]
    /\ vpc' = "gather"
    /\ UNCHANGED <<verifierData, deletion>>
    /\ UNCHANGED <<db, nextEpochFile, fetcher, ipc, stopFlag, inserting, bounds, interrupted>>

\* db_get_logs_by_tick_range: reading stops at the first tick without a range.
Gathered ==
    {t \in Batch \cap LogTicks :
        /\ \A u \in processFromTick .. t : u \in tick_log_range
        /\ logs[t] # "none"}

\* db_get_combined_log_range_for_ticks: log ids are consecutive, so the ids from
\* the first to the last known range include those of ticks in between.
Combined(ts) ==
    {t \in LogTicks :
        \E a, b \in ts \cap LogTicks \cap tick_log_range : a <= t /\ t <= b}

\* The keys of db_delete_log_ranges and of db_delete_logs, in the order in
\* which the loops over them delete.
RangeKeys(ts) == {"log_ranges", "tick_log_range"} \X ts
LogKeys(ts) == {"log"} \X ts
Rank(k) == CASE k[1] = "log_ranges" -> 2 * k[2]
             [] k[1] = "tick_log_range" -> 2 * k[2] + 1
             [] OTHER -> 2 * LastTick + 2 + k[2]

\* The next key of the deletions in progress.  What follows them waits for
\* doomed = {}.
DeleteKey ==
    /\ \E k \in doomed :
          /\ \A j \in doomed : Rank(k) <= Rank(j)
          /\ doomed' = doomed \ {k}
          /\ log_ranges' = {t \in log_ranges : k # <<"log_ranges", t>>}
          /\ tick_log_range' = {t \in tick_log_range : k # <<"tick_log_range", t>>}
          /\ logs' = [t \in LogTicks |-> IF k = <<"log", t>> THEN "none" ELSE logs[t]]
    /\ UNCHANGED <<cursors, vpc, verifierData, refetched>>
    /\ UNCHANGED <<disk, fetcher, ipc, stopFlag, inserting, bounds, interrupted>>

\* The logs of the batch are applied to the state; the END_EPOCH message, when
\* it is in them, ends the replay.
Apply ==
    /\ state' = [upto |-> processToTick,
                 ok |-> /\ state.ok
                        /\ Gathered = Batch \cap LogTicks
                        /\ \A t \in Gathered : logs[t] = "good"]
    /\ gIsEndEpoch' = (EndEpoch /\ LastTick \in Gathered /\ logs[LastTick] # "endless")
    /\ vpc' = IF gIsEndEpoch' THEN "endFile" ELSE "digest"

\* Rescue mode when the number of logs is not what the ranges say: the ranges
\* of the batch are deleted and fetched again.
Gather ==
    /\ vpc = "gather"
    /\ IF Combined(Batch) # {} /\ Gathered # Combined(Batch)
       THEN /\ doomed' = RangeKeys(Batch)
            /\ vpc' = "rescueRanges"
            /\ UNCHANGED <<state, gIsEndEpoch>>
       ELSE Apply /\ UNCHANGED doomed
    /\ UNCHANGED <<gCurrentVerifyLoggingTick, lastVerifiedTick, saveLastTick,
                   processToTick, saveTick, verified, refetched>>
    /\ UNCHANGED <<db, disk, fetcher, ipc, stopFlag, inserting, bounds, interrupted>>

\* The ranges are there again, or at least log_ranges, the key that is tested.
RescueRanges ==
    /\ vpc = "rescueRanges" /\ doomed = {} /\ ~stopFlag
    /\ Batch \subseteq log_ranges
    /\ refetched' = Combined(Batch)
    /\ doomed' = LogKeys(Combined(Batch))
    /\ vpc' = "rescueDelete"
    /\ UNCHANGED verifierData
    /\ UNCHANGED <<db, disk, fetcher, ipc, stopFlag, inserting, bounds, interrupted>>

RescueDelete ==
    /\ vpc = "rescueDelete" /\ doomed = {}
    /\ vpc' = "rescueLogs"
    /\ UNCHANGED <<verifierData, deletion>>
    /\ UNCHANGED <<db, disk, fetcher, ipc, stopFlag, inserting, bounds, interrupted>>

RescuedLogsArrived == doomed = {} /\ \A t \in refetched : logs[t] # "none"

\* All logs arrived.  They are deleted and awaited again if the ranges do not
\* lead to just them.
RescueLogs ==
    /\ vpc = "rescueLogs" /\ ~stopFlag
    /\ RescuedLogsArrived
    /\ IF refetched # {} /\ Gathered = refetched
       THEN Apply /\ UNCHANGED doomed
       ELSE doomed' = LogKeys(refetched) /\ UNCHANGED <<state, gIsEndEpoch, vpc>>
    /\ UNCHANGED <<gCurrentVerifyLoggingTick, lastVerifiedTick, saveLastTick,
                   processToTick, saveTick, verified, refetched>>
    /\ UNCHANGED <<db, disk, fetcher, ipc, stopFlag, inserting, bounds, interrupted>>

\* Mutant: a quorum of votes is enough, their digests are not compared.
DigestsMatch_Uncompared ==
    /\ vpc = "digest" /\ ~stopFlag
    /\ gCurrentVerifyLoggingTick # gCurrentFetchingTick
    /\ processToTick <= gCurrentFetchingTick /\ HasQuorum(processToTick)
    /\ verified' = verified \cup Batch
    /\ vpc' = "advance"
    /\ UNCHANGED <<gCurrentVerifyLoggingTick, gIsEndEpoch, state, lastVerifiedTick,
                   saveLastTick, processToTick, saveTick, deletion>>
    /\ UNCHANGED <<db, disk, fetcher, ipc, stopFlag, inserting, bounds, interrupted>>

\* The votes of the batch's last tick: there for every tick that is fetched,
\* perhaps already for the one being fetched, never for the virtual tick.
\* Without them they are requested again and the check is repeated.
DigestsMatch ==
    /\ vpc = "digest" /\ ~stopFlag
    /\ gCurrentVerifyLoggingTick # gCurrentFetchingTick
    /\ processToTick <= gCurrentFetchingTick /\ HasQuorum(processToTick)
    /\ state.ok
    /\ verified' = verified \cup Batch
    /\ IF processToTick - lastVerifiedTick >= SAVE_PERIOD
       THEN saveTick' = processToTick /\ vpc' = "saveFiles"
       ELSE UNCHANGED saveTick /\ vpc' = "advance"
    /\ UNCHANGED <<gCurrentVerifyLoggingTick, gIsEndEpoch, state,
                   lastVerifiedTick, saveLastTick, processToTick, deletion>>
    /\ UNCHANGED <<db, disk, fetcher, ipc, stopFlag, inserting, bounds, interrupted>>

Advance ==
    /\ vpc = "advance"
    /\ gCurrentVerifyLoggingTick' = processToTick + 1
    /\ vpc' = "wait"
    /\ UNCHANGED <<gIsEndEpoch, state, lastVerifiedTick, saveLastTick,
                   processToTick, saveTick, verified, deletion>>
    /\ UNCHANGED <<db, disk, fetcher, ipc, stopFlag, inserting, bounds, interrupted>>

\* Misalignment: all threads are stopped, a second later everything fetched
\* from the batch on is deleted and the fetching of logs set back to it.  The
\* code does not wait for the event thread beyond that second.  A quorum of
\* votes of which too many are of misaligned computors is also a mismatch.
DigestsDiffer ==
    /\ vpc = "digest" /\ ~stopFlag
    /\ gCurrentVerifyLoggingTick # gCurrentFetchingTick
    /\ processToTick <= gCurrentFetchingTick /\ HasQuorum(processToTick)
    /\ state.ok => bad < MaxBad
    /\ bad' = IF state.ok THEN bad + 1 ELSE bad
    /\ stopFlag' = TRUE
    /\ vpc' = "misaligned"
    /\ UNCHANGED <<verifierData, deletion>>
    /\ UNCHANGED <<db, disk, fetcher, ipc, inserting, crashes, stops, interrupted>>

DeleteMalformed ==
    /\ vpc = "misaligned"
    /\ LET suspect == processFromTick .. (gCurrentFetchingLogTick - 1) IN
         doomed' = RangeKeys(suspect) \cup LogKeys(Combined(suspect))
    /\ processToTick' = gCurrentFetchingLogTick - 1
    /\ vpc' = "setBack"
    /\ interrupted' = (interrupted \/ (EndEpoch /\ epc # "idle"))
    /\ UNCHANGED <<gCurrentVerifyLoggingTick, gIsEndEpoch, state, lastVerifiedTick,
                   saveLastTick, saveTick, verified, refetched>>
    /\ UNCHANGED <<db, disk, fetcher, ipc, stopFlag, inserting, bounds>>

\* Mutant: the fetching of logs is set back one tick too far.
SetBackEventTick_TooFar ==
    /\ vpc = "setBack" /\ doomed = {}
    /\ latest_event_tick' = processFromTick - 2
    /\ vpc' = "stopped"
    /\ UNCHANGED <<ranges, logs, otherCursors>>
    /\ UNCHANGED <<verifierData, deletion>>
    /\ UNCHANGED <<disk, fetcher, ipc, stopFlag, inserting, bounds, interrupted>>

SetBackEventTick ==
    /\ vpc = "setBack" /\ doomed = {}
    /\ latest_event_tick' = processFromTick - 1
    /\ vpc' = "stopped"
    /\ UNCHANGED <<ranges, logs, otherCursors>>
    /\ UNCHANGED <<verifierData, deletion>>
    /\ UNCHANGED <<disk, fetcher, ipc, stopFlag, inserting, bounds, interrupted>>

\* End of the epoch: the files of the next epoch are written, the ranges of the
\* virtual tick renamed, the end of the epoch recorded and the event cursor
\* set back to the last real tick.
EndFile ==
    /\ vpc = "endFile"
    /\ nextEpochFile' = state
    /\ gCurrentVerifyLoggingTick' = LastTick
    /\ vpc' = "endRename"
    /\ UNCHANGED <<gIsEndEpoch, state, lastVerifiedTick, saveLastTick,
                   processToTick, saveTick, verified, deletion>>
    /\ UNCHANGED <<db, snapshot, fetcher, ipc, stopFlag, inserting, bounds, interrupted>>

EndRename ==
    /\ vpc = "endRename"
    /\ tick_log_range' = tick_log_range \ {LastTick}
    /\ vpc' = "endRenameRanges"
    /\ UNCHANGED <<log_ranges, logs, cursors>>
    /\ UNCHANGED <<verifierData, deletion>>
    /\ UNCHANGED <<disk, fetcher, ipc, stopFlag, inserting, bounds, interrupted>>

EndRenameRanges ==
    /\ vpc = "endRenameRanges"
    /\ log_ranges' = log_ranges \ {LastTick}
    /\ vpc' = "endMark"
    /\ UNCHANGED <<tick_log_range, logs, cursors>>
    /\ UNCHANGED <<verifierData, deletion>>
    /\ UNCHANGED <<disk, fetcher, ipc, stopFlag, inserting, bounds, interrupted>>

EndMark ==
    /\ vpc = "endMark"
    /\ end_epoch_tick' = LastTick
    /\ vpc' = "endReset"
    /\ UNCHANGED <<ranges, logs, latest_tick, latest_event_tick,
                   latest_verified_tick, last_indexed_tick, last_clean_tick>>
    /\ UNCHANGED <<verifierData, deletion>>
    /\ UNCHANGED <<disk, fetcher, ipc, stopFlag, inserting, bounds, interrupted>>

EndReset ==
    /\ vpc = "endReset"
    /\ latest_event_tick' = LastTick - 1
    /\ vpc' = "stopped"
    /\ UNCHANGED <<ranges, logs, otherCursors>>
    /\ UNCHANGED <<verifierData, deletion>>
    /\ UNCHANGED <<disk, fetcher, ipc, stopFlag, inserting, bounds, interrupted>>

\* stopFlag ends the loops that test it; the wait for logs in rescue mode only
\* ends when they have all arrived.
StopVerifier ==
    /\ stopFlag
    /\ \/ vpc \in {"wait", "rescueRanges", "rescueDelete", "digest"} /\ doomed = {}
       \/ vpc = "rescueLogs" /\ RescuedLogsArrived
    /\ vpc' = "stopped"
    /\ UNCHANGED <<verifierData, deletion>>
    /\ UNCHANGED <<db, disk, fetcher, ipc, stopFlag, inserting, bounds, interrupted>>

-----------------------------------------------------------------------------
(* indexVerifiedTicks, garbageCleaner *)

\* Mutant: the tick being verified is indexed already.
IndexTick_Unverified ==
    /\ ipc = "run" /\ ~stopFlag
    /\ last_indexed_tick + 1 <= gCurrentVerifyLoggingTick
    /\ last_indexed_tick' = last_indexed_tick + 1
    /\ UNCHANGED <<ranges, logs, latest_tick, latest_event_tick,
                   latest_verified_tick, last_clean_tick, end_epoch_tick>>
    /\ UNCHANGED <<disk, verifier, fetcher, ipc, stopFlag, inserting, bounds, interrupted>>

IndexTick ==
    /\ ipc = "run" /\ ~stopFlag
    /\ last_indexed_tick + 1 < gCurrentVerifyLoggingTick
    /\ last_indexed_tick' = last_indexed_tick + 1
    /\ UNCHANGED <<ranges, logs, latest_tick, latest_event_tick,
                   latest_verified_tick, last_clean_tick, end_epoch_tick>>
    /\ UNCHANGED <<disk, verifier, fetcher, ipc, stopFlag, inserting, bounds, interrupted>>

\* Mutant: the indexer stops as soon as the end of the epoch is known.
IndexerEnds_Early ==
    /\ ipc = "run" /\ ~stopFlag
    /\ gIsEndEpoch
    /\ stopFlag' = TRUE
    /\ ipc' = "done"
    /\ UNCHANGED <<db, disk, verifier, fetcher, inserting, bounds, interrupted>>

\* The indexer is the last to finish the epoch and stops the process.
IndexerEnds ==
    /\ ipc = "run" /\ ~stopFlag
    /\ last_indexed_tick + 1 = gCurrentVerifyLoggingTick /\ gIsEndEpoch
    /\ stopFlag' = TRUE
    /\ ipc' = "done"
    /\ UNCHANGED <<db, disk, verifier, fetcher, inserting, bounds, interrupted>>

\* The cleaner works behind gCurrentIndexingTick, which is last_indexed_tick,
\* and once the epoch has ended up to it.
CleanTo == IF stopFlag THEN last_indexed_tick - 1 ELSE last_indexed_tick - KEEP

\* cleanTransactionLogs of the next tick that is old enough, key by key: its log
\* ranges, then the logs of its transactions, which may be none of the tick's
\* logs; nothing of an empty tick.
CleanTick == last_clean_tick + 1

CleanKey ==
    /\ stopFlag => gIsEndEpoch
    /\ CleanTick <= CleanTo
    /\ \/ /\ log_ranges' = log_ranges \ {CleanTick}
          /\ UNCHANGED <<tick_log_range, logs>>
       \/ /\ CleanTick \notin log_ranges
          /\ tick_log_range' = tick_log_range \ {CleanTick}
          /\ UNCHANGED <<log_ranges, logs>>
       \/ /\ CleanTick \notin log_ranges \cup tick_log_range
          /\ logs' = [t \in LogTicks |-> IF t = CleanTick THEN "none" ELSE logs[t]]
          /\ UNCHANGED ranges
    /\ UNCHANGED cursors
    /\ UNCHANGED <<disk, verifier, fetcher, ipc, stopFlag, inserting, bounds, interrupted>>

CleanNext ==
    /\ stopFlag => gIsEndEpoch
    /\ CleanTick <= CleanTo
    /\ last_clean_tick' = CleanTick
    /\ UNCHANGED <<ranges, logs, latest_tick, latest_event_tick, latest_verified_tick,
                   last_indexed_tick, end_epoch_tick>>
    /\ UNCHANGED <<disk, verifier, fetcher, ipc, stopFlag, inserting, bounds, interrupted>>

-----------------------------------------------------------------------------
(* The process *)

\* main() restores the cursors from the DB.  Once the epoch is recorded as ended
\* it waits for the next one before it starts any thread.
Start ==
    /\ gCurrentFetchingTick' = Max(latest_tick, gInitialTick)
    /\ gCurrentFetchingLogTick' = Max(latest_event_tick, gInitialTick)
    /\ gCurrentVerifyLoggingTick' = 0
    /\ gIsEndEpoch' = FALSE
    /\ stopFlag' = (end_epoch_tick # NoTick)
    /\ epc' = "idle" /\ ipc' = "run"
    /\ vpc' = IF end_epoch_tick # NoTick THEN "newEpoch" ELSE "load"
    /\ state' = NoState
    /\ lastVerifiedTick' = NoTick
    /\ saveLastTick' = FALSE
    /\ processToTick' = NoTick
    /\ saveTick' = NoTick
    /\ doomed' = {} /\ refetched' = {} /\ inserting' = {}
    /\ UNCHANGED <<db, disk, verified, stops, bad>>

Crash ==
    /\ crashes < MaxCrashes /\ vpc # "newEpoch"
    /\ crashes' = crashes + 1
    /\ interrupted' =
          (interrupted \/ (EndEpoch /\ vpc \in {"setBack", "endRenameRanges", "endMark"}))
    /\ Start

\* The operator stops bob.
RequestStop ==
    /\ stops < MaxStops /\ ~stopFlag
    /\ stops' = stops + 1
    /\ stopFlag' = TRUE
    /\ UNCHANGED <<db, disk, verifier, fetcher, inserting, ipc, crashes, bad, interrupted>>

\* All threads are joined; the supervisor starts the process again.
ExitAndRestart ==
    /\ stopFlag /\ epc = "idle" /\ vpc \in {"stopped", "dead"} /\ inserting = {}
    /\ UNCHANGED <<crashes, interrupted>>
    /\ Start

EventStep == EventBegin \/ EventBody \/ EventUpdate

VerifierStep ==
    \/ LoadState \/ TakeBatch
    \/ SaveFiles \/ SaveDb \/ SaveRemove \/ SaveEndFiles
    \/ Gather \/ DeleteKey \/ RescueRanges \/ RescueDelete \/ RescueLogs
    \/ DigestsMatch \/ Advance
    \/ DigestsDiffer \/ DeleteMalformed \/ SetBackEventTick
    \/ EndFile \/ EndRename \/ EndRenameRanges \/ EndMark \/ EndReset
    \/ StopVerifier

Next ==
    \/ AdvanceFetchingTick
    \/ \E t \in Ticks : processLogRanges(t) \/ InsertTickLogRange(t)
    \/ \E t \in LogTicks, q \in LogValues : processLogEvent(t, q)
    \/ EventStep
    \/ VerifierStep
    \/ IndexTick
    \/ IndexerEnds
    \/ CleanKey
    \/ CleanNext
    \/ Crash
    \/ RequestStop
    \/ ExitAndRestart

Spec == Init /\ [][Next]_vars

-----------------------------------------------------------------------------
(* Type invariant *)

\* Every cursor, DB record, file and thread variable has its type.
TypeOK ==
    /\ log_ranges \subseteq Ticks /\ tick_log_range \subseteq Ticks
    /\ logs \in [LogTicks -> LogValues \cup {"none"}]
    /\ latest_tick \in {0} \cup Ticks
    /\ latest_event_tick \in 0 .. (LastTick + 1)
    /\ latest_verified_tick \in {NoTick} \cup SnapshotTicks
    /\ last_indexed_tick \in SnapshotTicks
    /\ last_clean_tick \in Ticks
    /\ end_epoch_tick \in {NoTick, LastTick}
    /\ snapshot \in [SnapshotTicks -> States]
    /\ nextEpochFile \in States
    /\ gCurrentFetchingTick \in gInitialTick .. (LastTick + 1)
    /\ gCurrentFetchingLogTick \in gInitialTick .. (LastTick + 1)
    /\ gCurrentVerifyLoggingTick \in {0} \cup gInitialTick .. (LastTick + 1)
    /\ gIsEndEpoch \in BOOLEAN /\ stopFlag \in BOOLEAN
    /\ epc \in {"idle", "body", "update"}
    /\ vpc \in {"load", "dead", "wait", "saveFiles", "saveDb", "saveRemove",
                "saveEndFiles", "gather", "rescueRanges", "rescueDelete",
                "rescueLogs", "digest", "advance", "misaligned", "setBack",
                "endFile", "endRename", "endRenameRanges", "endMark", "endReset",
                "stopped", "newEpoch"}
    /\ ipc \in {"run", "done"}
    /\ state \in States
    /\ lastVerifiedTick \in {NoTick} \cup SnapshotTicks
    /\ saveLastTick \in BOOLEAN
    /\ processToTick \in {NoTick} \cup Ticks
    /\ saveTick \in {NoTick} \cup SnapshotTicks
    /\ doomed \subseteq RangeKeys(Ticks) \cup LogKeys(LogTicks)
    /\ refetched \subseteq LogTicks
    /\ inserting \subseteq Ticks
    /\ crashes \in 0 .. MaxCrashes /\ stops \in 0 .. MaxStops /\ bad \in 0 .. MaxBad
    /\ verified \subseteq Ticks
    /\ interrupted \in BOOLEAN

(* Safety *)

\* Between two batches the spectrum and universe in memory are the network's
\* state just before gCurrentVerifyLoggingTick, whatever malformed logs were
\* stored, rescued or cleaned and wherever the process crashed before.
ReplayedStateIsVerified ==
    vpc = "wait" =>
        state = [upto |-> gCurrentVerifyLoggingTick - 1, ok |-> TRUE]

\* The snapshot a restart would load exists and holds the verified state of its
\* tick, at every point of saveState a crash can hit.
SnapshotIsRecoverable ==
    latest_verified_tick >= gInitialTick =>
        snapshot[latest_verified_tick] = [upto |-> latest_verified_tick, ok |-> TRUE]

\* The indexer only indexes ticks whose replayed state matched the votes.
IndexedTicksAreVerified ==
    \A t \in Ticks : t <= last_indexed_tick => t \in verified

\* An epoch recorded as ended is complete: every real tick was verified and
\* the files of the next epoch hold the state after the virtual tick, right if
\* the (not voted on) logs of the virtual tick are.  Not promised once the end
\* of the epoch was interrupted: the process crashed between the deletions for a
\* misalignment and the set-back of the event cursor, or between the renaming of
\* the virtual tick's ranges and the record of the end, or the event thread
\* outlived the second a misaligned verifier gives it.  The virtual tick may
\* then be missed where the batches are cut.
EndedEpochIsComplete ==
    end_epoch_tick # NoTick /\ ~interrupted =>
        /\ \A t \in Ticks : t < LastTick => t \in verified
        /\ nextEpochFile.upto = LastTick
        /\ logs[LastTick] = "good" => nextEpochFile.ok

\* The indexer stops the process only after the last real tick of the epoch,
\* unless the end of the epoch was interrupted as above.
IndexerEndsComplete ==
    ipc = "done" /\ ~interrupted => last_indexed_tick = LastTick - 1

\* A start finds no snapshot only after the process was killed before: "Bob
\* wasn't exited gracefully last time".
SnapshotLostOnlyByCrash == vpc = "dead" => crashes > 0

(* Liveness *)

RequestedRange(t) ==
    \/ /\ gCurrentFetchingLogTick <= gCurrentFetchingTick
       /\ t >= gCurrentFetchingLogTick
    \/ vpc = "rescueRanges" /\ doomed = {} /\ t \in Batch

RequestedLogs(t) ==
    \/ t = gCurrentFetchingLogTick
    \/ vpc = "rescueLogs" /\ t \in refetched

\* Threads and the supervisor keep running, and trusted nodes keep answering
\* what is requested.
Fairness ==
    /\ WF_vars(AdvanceFetchingTick)
    /\ WF_vars(EventStep)
    /\ WF_vars(VerifierStep)
    /\ WF_vars(IndexTick \/ IndexerEnds)
    /\ WF_vars(ExitAndRestart)
    /\ WF_vars(\E t \in Ticks : ~stopFlag /\ RequestedRange(t) /\ processLogRanges(t))
    /\ WF_vars(\E t \in Ticks : InsertTickLogRange(t))
    /\ WF_vars(\E t \in LogTicks : ~stopFlag /\ RequestedLogs(t) /\ processLogEvent(t, "good"))

FairSpec == Spec /\ Fairness

\* The ways in which the code can fail to end an epoch, each a state it does not
\* get out of:
\* the snapshot named by the DB is gone (run pipeline_snapshot), every start
\* ends with exit(1);
SnapshotLost ==
    latest_verified_tick >= gInitialTick /\ snapshot[latest_verified_tick] = NoState
\* a crash between the two writes of db_insert_log_range, or a late reply
\* between the two deletions of db_delete_log_ranges: ranges without the range
\* of the tick, which nobody requests;
TornRange == \E t \in Ticks : t \in log_ranges /\ t \notin tick_log_range
\* the virtual tick was replayed without its END_EPOCH message, which the stored
\* logs lack or which was not read because a range was missing: the verifier
\* waits for votes the virtual tick never has;
EndNotSeen == EndEpoch /\ vpc = "digest" /\ processToTick = LastTick
\* rescue mode looked at the ranges between the two writes of one, and compares
\* the number of logs with what it saw then.
RescueMiscounts == vpc = "rescueLogs" /\ refetched # Combined(Batch)

=============================================================================
