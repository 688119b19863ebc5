------------------------ MODULE EventPipelineProofs ------------------------
(***************************************************************************)
(* Proofs about EventPipeline, for every length of the epoch, every set of *)
(* ticks with logs, every size of batches and every number of crashes,     *)
(* stops and malformed replies.                                            *)
(*                                                                         *)
(* The argument: the verifier's program point tells what its memory holds  *)
(* (the state before or after its batch); latest_verified_tick is never    *)
(* ahead of that state, so a restart loads a state that was verified in    *)
(* some life of the process.  That much holds whatever happens.  Unless    *)
(* the end of the epoch is interrupted, the ranges and logs of the virtual *)
(* tick, once fetched, also stay until the epoch is recorded as ended, so  *)
(* that a batch never runs across it.                                      *)
(***************************************************************************)
EXTENDS EventPipeline, TLAPS

-----------------------------------------------------------------------------
(* The inductive invariant *)

Saving == {"saveFiles", "saveDb", "saveRemove"}
Rescue == {"rescueRanges", "rescueDelete", "rescueLogs"}
\* A batch has been taken, and not yet replayed, or replayed.
Working == Saving \cup Rescue \cup {"saveEndFiles", "gather", "digest", "advance",
                                    "misaligned"}
Ending == {"endFile", "endRename", "endRenameRanges", "endMark", "endReset"}

\* The verifier has loaded a state or not; its batch lies between its cursor and
\* that of the event thread; only these points delete keys.
PointInv ==
    /\ gCurrentVerifyLoggingTick = 0 <=> vpc \in {"load", "dead", "newEpoch"}
    /\ vpc \in Working =>
          /\ gCurrentVerifyLoggingTick <= processToTick
          /\ processToTick < gCurrentFetchingLogTick
    /\ vpc \in {"misaligned", "setBack"} => stopFlag
    /\ doomed # {} => vpc \in Rescue \cup {"setBack"}

\* The state just before the batch is in memory, or the one after it is.
Before == state = [upto |-> gCurrentVerifyLoggingTick - 1, ok |-> TRUE]
After == state = [upto |-> processToTick, ok |-> TRUE] /\ Batch \subseteq verified

MemoryInv ==
    /\ vpc \in {"wait", "saveEndFiles", "gather"} \cup Rescue => Before
    /\ vpc \in Saving =>
          \/ EndEpoch /\ saveTick = gCurrentVerifyLoggingTick - 1 /\ Before
          \/ saveTick = processToTick /\ After
    /\ vpc = "digest" => state.upto = processToTick
    /\ vpc = "advance" => After
    /\ vpc = "saveEndFiles" => EndEpoch

\* The record in the DB is not ahead of the state in memory, and the tracker of
\* saveState follows the record.
RecordInv ==
    gCurrentVerifyLoggingTick # 0 =>
        /\ lastVerifiedTick \in SnapshotTicks
        /\ lastVerifiedTick < gCurrentVerifyLoggingTick \/ vpc = "advance"
        /\ lastVerifiedTick <= processToTick \/ vpc # "advance"
        /\ vpc # "saveRemove" => latest_verified_tick <= lastVerifiedTick
        /\ vpc # "saveRemove" /\ latest_verified_tick >= gInitialTick
              => latest_verified_tick = lastVerifiedTick
        /\ vpc = "saveRemove" => latest_verified_tick = saveTick

\* The files: of the tick in the DB, and of the tick that is about to be recorded.
SnapshotInv ==
    /\ latest_verified_tick >= gInitialTick =>
          \/ snapshot[latest_verified_tick] = [upto |-> latest_verified_tick, ok |-> TRUE]
          \/ EndEpoch /\ snapshot[latest_verified_tick] = NoState
    /\ vpc \in {"saveDb", "saveRemove"} => snapshot[saveTick] = [upto |-> saveTick, ok |-> TRUE]

\* No cursor goes beyond the virtual tick, which has no votes, and only the end
\* of the epoch is interrupted.
CursorInv ==
    /\ EndEpoch =>
          /\ gCurrentVerifyLoggingTick <= LastTick
          /\ latest_verified_tick < LastTick
          /\ last_indexed_tick < LastTick
          /\ vpc \in {"advance", "misaligned"} => processToTick < LastTick
          /\ vpc \in Saving /\ saveTick = processToTick => processToTick < LastTick
    /\ end_epoch_tick # NoTick => vpc \in {"endReset", "stopped", "newEpoch"}
    /\ gIsEndEpoch \/ vpc \in Ending => EndEpoch /\ vpc \in Ending \cup {"stopped"}
    /\ vpc \in Ending \ {"endFile"} => gCurrentVerifyLoggingTick = LastTick
    /\ end_epoch_tick # NoTick \/ interrupted => EndEpoch

\* From here on, as long as the end of the epoch was not interrupted.
\* The ticks behind a cursor were verified, in this life or an earlier one.
VerifiedInv ==
    \A t \in Ticks :
        \/ t < gCurrentVerifyLoggingTick \/ t <= latest_verified_tick \/ t <= last_indexed_tick
        => t \in verified

\* The virtual tick's ranges and logs, once fetched, stay until the ranges are
\* renamed, unless all is set back.
VirtualStored == LastTick \in log_ranges \cap tick_log_range /\ logs[LastTick] # "none"
EndRecorded == vpc \in {"endRenameRanges", "endMark"} \/ end_epoch_tick # NoTick

VirtualInv ==
    EndEpoch =>
        /\ gCurrentFetchingLogTick > LastTick =>
              \/ VirtualStored
              \/ EndRecorded
              \/ vpc \in {"setBack", "stopped"} /\ epc = "idle" /\ stopFlag
        /\ latest_event_tick > LastTick => VirtualStored \/ EndRecorded \/ vpc = "setBack"
        /\ vpc = "setBack" => epc = "idle"

\* No batch runs across the virtual tick, and rescue mode leaves it alone.
VirtualSpared ==
    \A n \in {"log_ranges", "tick_log_range", "log"} : <<n, LastTick>> \notin doomed

CutInv ==
    EndEpoch =>
        /\ vpc \in Working => processToTick < LastTick \/ gCurrentVerifyLoggingTick = LastTick
        /\ vpc \in Rescue => processToTick < LastTick /\ VirtualSpared
        /\ LastTick \notin refetched

\* The end of the epoch.
NextFileIsRight ==
    /\ nextEpochFile.upto = LastTick
    /\ logs[LastTick] = "good" => nextEpochFile.ok

EndInv ==
    /\ gIsEndEpoch \/ vpc \in Ending => gCurrentVerifyLoggingTick = LastTick
    /\ vpc \in Ending \ {"endReset"} => logs[LastTick] # "none"
    /\ vpc \in {"endFile", "endRename"} => VirtualStored /\ gCurrentFetchingLogTick > LastTick
    /\ vpc = "endFile" =>
          /\ state.upto = LastTick
          /\ logs[LastTick] = "good" => state.ok
    /\ vpc \in {"endRename", "endRenameRanges", "endMark"} => NextFileIsRight
    /\ end_epoch_tick # NoTick =>
          /\ logs[LastTick] # "none"
          /\ NextFileIsRight
          /\ \A t \in Ticks : t < LastTick => t \in verified
    /\ ipc = "done" => last_indexed_tick = LastTick - 1

Uninterrupted ==
    /\ VerifiedInv
    /\ VirtualInv
    /\ CutInv
    /\ EndInv

IInv ==
    /\ TypeOK
    /\ PointInv
    /\ MemoryInv
    /\ RecordInv
    /\ SnapshotInv
    /\ CursorInv
    /\ interrupted \/ Uninterrupted

-----------------------------------------------------------------------------
(* Types *)

LEMMA TypeOKInit ==
    ASSUME Init PROVE TypeOK
<1>1. NoState \in States
  BY DEF NoState, States
<1>2. /\ logs \in [LogTicks -> LogValues \cup {"none"}]
      /\ snapshot \in [SnapshotTicks -> States]
  BY <1>1 DEF Init
<1>3. last_indexed_tick \in SnapshotTicks /\ last_clean_tick \in Ticks
  BY PipelineAssumption DEF Init, Ticks, SnapshotTicks
<1>4. /\ latest_event_tick \in 0 .. (LastTick + 1)
      /\ gCurrentFetchingTick \in gInitialTick .. (LastTick + 1)
      /\ gCurrentFetchingLogTick \in gInitialTick .. (LastTick + 1)
      /\ crashes \in 0 .. MaxCrashes /\ stops \in 0 .. MaxStops /\ bad \in 0 .. MaxBad
  BY PipelineAssumption DEF Init
<1> QED
  BY <1>1, <1>2, <1>3, <1>4 DEF Init, TypeOK

\* What a replay leaves in memory.
LEMMA ApplyType ==
    ASSUME TypeOK, Apply, processToTick # NoTick
    PROVE  /\ state' \in States
           /\ gIsEndEpoch' \in BOOLEAN
           /\ vpc' \in {"endFile", "digest"}
<1>1. processToTick \in SnapshotTicks
  BY PipelineAssumption DEF TypeOK, Ticks, SnapshotTicks
<1>2. PICK b \in BOOLEAN : state' = [upto |-> processToTick, ok |-> b]
  BY DEF Apply
<1> QED
  BY <1>1, <1>2, PipelineAssumption DEF Apply, States

\* The keys a deletion is about.
DoomedKeys == RangeKeys(Ticks) \cup LogKeys(LogTicks)

LEMMA KeysType ==
    ASSUME NEW ts, \A t \in ts : t \in Ticks
    PROVE  RangeKeys(ts) \subseteq DoomedKeys /\ LogKeys(Combined(ts)) \subseteq DoomedKeys
<1>1. Combined(ts) \subseteq LogTicks
  BY DEF Combined
<1> QED
  BY <1>1 DEF RangeKeys, LogKeys, DoomedKeys

\* A start of the process takes its cursors from the DB.
LEMMA StartType ==
    ASSUME TypeOK, Start, crashes' \in 0 .. MaxCrashes, interrupted' \in BOOLEAN
    PROVE  TypeOK'
<1> USE PipelineAssumption DEF TypeOK, Start, Ticks, SnapshotTicks, NoTick, db, disk,
                               ranges, cursors, otherCursors
<1>1. /\ gCurrentFetchingTick' \in gInitialTick .. (LastTick + 1)
      /\ gCurrentFetchingLogTick' \in gInitialTick .. (LastTick + 1)
  BY DEF Max
<1>2. state' \in States
  BY DEF States, NoState
<1> QED
  BY <1>1, <1>2

LEMMA TypeOKStep ==
    ASSUME TypeOK, PointInv, Next PROVE TypeOK'
<1> USE PipelineAssumption
    DEF db, ranges, cursors, otherCursors, disk, verifier, verifierData, deletion,
        fetcher, bounds,
        processFromTick, Ticks, SnapshotTicks, NoTick
<1>1. CASE AdvanceFetchingTick
  BY <1>1 DEF TypeOK, AdvanceFetchingTick, Max
<1>2. CASE \E t \in Ticks : processLogRanges(t) \/ InsertTickLogRange(t)
  <2>1. CASE \E t \in Ticks : processLogRanges(t)
    BY <2>1 DEF TypeOK, processLogRanges
  <2>2. CASE \E t \in Ticks : InsertTickLogRange(t)
    BY <2>2 DEF TypeOK, InsertTickLogRange
  <2> QED
    BY <1>2, <2>1, <2>2
<1>3. CASE \E t \in LogTicks, q \in LogValues : processLogEvent(t, q)
  BY <1>3 DEF TypeOK, processLogEvent
<1>4. CASE EventBegin
  BY <1>4 DEF TypeOK, EventBegin
<1>5. CASE EventUpdate
  BY <1>5 DEF TypeOK, EventUpdate
<1>6. CASE EventBody
  BY <1>6 DEF TypeOK, EventBody
<1>7. CASE LoadState
  <2>1. EpochStart \in States
    BY DEF EpochStart, States
  <2>2. latest_verified_tick >= gInitialTick => snapshot[latest_verified_tick] \in States
    BY DEF TypeOK
  <2>3. state' \in States
    BY <1>7, <2>1, <2>2 DEF TypeOK, LoadState
  <2>4. /\ gCurrentVerifyLoggingTick' \in {0} \cup gInitialTick .. (LastTick + 1)
        /\ lastVerifiedTick' \in {NoTick} \cup SnapshotTicks
    BY <1>7 DEF TypeOK, LoadState
  <2>5. stopFlag' \in BOOLEAN /\ vpc' \in {"wait", "dead"}
    BY <1>7 DEF TypeOK, LoadState
  <2> QED
    BY <1>7, <2>3, <2>4, <2>5 DEF TypeOK, LoadState
<1>8. CASE TakeBatch
  <2>1. processToTick' \in Ticks
    BY <1>8 DEF TypeOK, PointInv, TakeBatch, Min
  <2>2. saveTick' \in {NoTick} \cup SnapshotTicks
    BY <1>8 DEF TypeOK, PointInv, TakeBatch
  <2>3. saveLastTick' \in BOOLEAN /\ vpc' \in {"saveFiles", "gather"}
    BY <1>8 DEF TypeOK, TakeBatch
  <2> QED
    BY <1>8, <2>1, <2>2, <2>3 DEF TypeOK, TakeBatch
<1>9. CASE SaveFiles \/ SaveEndFiles
  <2>1. snapshot' \in [SnapshotTicks -> States]
    BY <1>9 DEF TypeOK, SaveFiles, SaveEndFiles
  <2>2. vpc' \in {"saveDb", "gather"}
    BY <1>9 DEF SaveFiles, SaveEndFiles
  <2> QED
    <3>1. CASE SaveFiles
      BY <2>1, <2>2, <3>1 DEF TypeOK, SaveFiles
    <3>2. CASE SaveEndFiles
      BY <2>1, <2>2, <3>2 DEF TypeOK, SaveEndFiles
    <3> QED
      BY <1>9, <3>1, <3>2
<1>10. CASE SaveDb
  BY <1>10 DEF TypeOK, SaveDb, Max
<1>11. CASE SaveRemove
  <2>1. snapshot' \in [SnapshotTicks -> States]
    BY <1>11 DEF TypeOK, SaveRemove, NoState, States
  <2>2. vpc' \in {"saveEndFiles", "advance"}
    BY <1>11 DEF SaveRemove
  <2> QED
    BY <1>11, <2>1, <2>2 DEF TypeOK, SaveRemove
<1>12. CASE Gather
  <2>1. processToTick # NoTick
    BY <1>12 DEF TypeOK, PointInv, Working, Gather
  <2>2. /\ state' \in States
        /\ gIsEndEpoch' \in BOOLEAN
        /\ vpc' \in {"rescueRanges", "endFile", "digest"}
    BY <1>12, <2>1, ApplyType DEF TypeOK, Gather
  <2>3. doomed' \subseteq DoomedKeys
    <3>1. \A t \in Batch : t \in Ticks
      BY <1>12 DEF TypeOK, PointInv, Working, Gather, Batch
    <3> QED
      BY <1>12, <3>1, KeysType DEF TypeOK, Gather, DoomedKeys
  <2> QED
    BY <1>12, <2>2, <2>3 DEF TypeOK, Gather, DoomedKeys
<1>13. CASE RescueRanges
  <2>1. Combined(Batch) \subseteq LogTicks
    BY DEF Combined
  <2>2. refetched' \subseteq LogTicks /\ doomed' \subseteq DoomedKeys
    BY <1>13, <2>1 DEF RescueRanges, DoomedKeys, LogKeys
  <2> QED
    BY <1>13, <2>2 DEF TypeOK, RescueRanges, DoomedKeys
<1>30. CASE DeleteKey
  <2>1. logs' \in [LogTicks -> LogValues \cup {"none"}]
    BY <1>30 DEF TypeOK, DeleteKey
  <2>2. log_ranges' \subseteq Ticks /\ tick_log_range' \subseteq Ticks
        /\ doomed' \subseteq DoomedKeys
    BY <1>30 DEF TypeOK, DeleteKey, DoomedKeys
  <2> QED
    BY <1>30, <2>1, <2>2 DEF TypeOK, DeleteKey, DoomedKeys
<1>31. CASE RescueDelete
  BY <1>31 DEF TypeOK, RescueDelete
<1>14. CASE RescueLogs
  <2>1. processToTick # NoTick
    BY <1>14 DEF TypeOK, PointInv, Working, Rescue, RescueLogs
  <2>2. /\ state' \in States
        /\ gIsEndEpoch' \in BOOLEAN
        /\ vpc' \in {"rescueLogs", "endFile", "digest"}
    BY <1>14, <2>1, ApplyType DEF TypeOK, RescueLogs
  <2>3. doomed' \subseteq DoomedKeys
    <3>1. LogKeys(refetched) \subseteq DoomedKeys
      BY DEF TypeOK, LogKeys, DoomedKeys
    <3> QED
      BY <1>14, <3>1 DEF TypeOK, RescueLogs, DoomedKeys
  <2> QED
    BY <1>14, <2>2, <2>3 DEF TypeOK, RescueLogs, DoomedKeys
<1>15. CASE DigestsMatch
  <2>1. gCurrentVerifyLoggingTick >= gInitialTick /\ processToTick <= LastTick
    BY <1>15 DEF TypeOK, PointInv, DigestsMatch
  <2>2. verified' \subseteq Ticks
    BY <1>15, <2>1 DEF TypeOK, Batch, DigestsMatch
  <2>3. saveTick' \in {NoTick} \cup SnapshotTicks
    BY <1>15 DEF TypeOK, DigestsMatch
  <2>4. vpc' \in {"saveFiles", "advance"}
    BY <1>15 DEF DigestsMatch
  <2> QED
    BY <1>15, <2>2, <2>3, <2>4 DEF TypeOK, DigestsMatch
<1>16. CASE Advance
  BY <1>16 DEF TypeOK, PointInv, Working, Advance
<1>17. CASE DigestsDiffer
  BY <1>17 DEF TypeOK, PointInv, Working, DigestsDiffer
<1>18. CASE DeleteMalformed
  <2>1. processToTick' \in Ticks
    BY <1>18 DEF TypeOK, PointInv, Working, DeleteMalformed
  <2>2. doomed' \subseteq DoomedKeys
    <3> DEFINE suspect == processFromTick .. (gCurrentFetchingLogTick - 1)
    <3>1. \A t \in suspect : t \in Ticks
      BY <1>18 DEF TypeOK, PointInv, Working, DeleteMalformed
    <3>2. RangeKeys(suspect) \subseteq DoomedKeys /\ LogKeys(Combined(suspect)) \subseteq DoomedKeys
      BY <3>1, KeysType
    <3> QED
      BY <1>18, <3>2 DEF DeleteMalformed
  <2> QED
    BY <1>18, <2>1, <2>2 DEF TypeOK, DeleteMalformed, DoomedKeys
<1>19. CASE SetBackEventTick
  BY <1>19 DEF TypeOK, PointInv, SetBackEventTick
<1>20. CASE EndReset
  BY <1>20 DEF TypeOK, PointInv, EndReset
<1>21. CASE EndFile
  BY <1>21 DEF TypeOK, EndFile
<1>22. CASE EndRename \/ EndRenameRanges
  <2>1. CASE EndRename
    BY <2>1 DEF TypeOK, EndRename
  <2>2. CASE EndRenameRanges
    BY <2>2 DEF TypeOK, EndRenameRanges
  <2> QED
    BY <1>22, <2>1, <2>2
<1>23. CASE EndMark
  BY <1>23 DEF TypeOK, EndMark
<1>24. CASE StopVerifier
  BY <1>24 DEF TypeOK, StopVerifier
<1>25. CASE IndexTick
  BY <1>25 DEF TypeOK, IndexTick
<1>26. CASE IndexerEnds
  BY <1>26 DEF TypeOK, IndexerEnds
<1>27. CASE RequestStop
  BY <1>27 DEF TypeOK, RequestStop
<1>28. CASE CleanKey \/ CleanNext
  <2>1. last_clean_tick' \in Ticks
    BY <1>28 DEF TypeOK, CleanKey, CleanNext, CleanTick, CleanTo
  <2>2. /\ log_ranges' \subseteq Ticks /\ tick_log_range' \subseteq Ticks
        /\ logs' \in [LogTicks -> LogValues \cup {"none"}]
    BY <1>28 DEF TypeOK, CleanKey, CleanNext
  <2> QED
    <3>1. CASE CleanKey
      BY <2>1, <2>2, <3>1 DEF TypeOK, CleanKey
    <3>2. CASE CleanNext
      <4>1. UNCHANGED <<log_ranges, tick_log_range, logs, latest_tick, latest_event_tick,
                        latest_verified_tick, last_indexed_tick, end_epoch_tick>>
        BY <3>2 DEF CleanNext
      <4> QED
        BY <2>1, <3>2, <4>1 DEF TypeOK, CleanNext
    <3> QED
      BY <1>28, <3>1, <3>2
<1>29. CASE Crash \/ ExitAndRestart
  <2>1. crashes' \in 0 .. MaxCrashes /\ interrupted' \in BOOLEAN /\ Start
    BY <1>29 DEF TypeOK, Crash, ExitAndRestart
  <2> QED
    BY <2>1, StartType
<1> QED
  BY <1>1, <1>2, <1>3, <1>4, <1>5, <1>6, <1>7, <1>8, <1>9, <1>10, <1>11,
     <1>12, <1>13, <1>14, <1>15, <1>16, <1>17, <1>18, <1>19, <1>20, <1>21,
     <1>22, <1>23, <1>24, <1>25, <1>26, <1>27, <1>28, <1>29, <1>30, <1>31
     DEF Next, EventStep, VerifierStep

-----------------------------------------------------------------------------
(* The verifier's cursors and the state in memory *)

\* A batch is taken from the ticks whose logs are fetched, and PointInv with the
\* types is inductive by itself.
LEMMA PointStep ==
    ASSUME TypeOK, PointInv, Next PROVE PointInv'
<1> USE PipelineAssumption
    DEF db, ranges, cursors, otherCursors, disk, verifier, verifierData, deletion,
        fetcher, bounds, processFromTick, Ticks, SnapshotTicks, NoTick,
        TypeOK, PointInv, Working, Saving, Rescue
<1>0. TypeOK /\ PointInv
  OBVIOUS
<1>1. CASE AdvanceFetchingTick
  BY <1>0, <1>1 DEF AdvanceFetchingTick
<1>2. CASE \E t \in Ticks : processLogRanges(t)
  BY <1>0, <1>2 DEF processLogRanges
<1>3. CASE \E t \in Ticks : InsertTickLogRange(t)
  BY <1>0, <1>3 DEF InsertTickLogRange
<1>4. CASE \E t \in LogTicks, q \in LogValues : processLogEvent(t, q)
  BY <1>0, <1>4 DEF processLogEvent
<1>5. CASE EventBegin
  BY <1>0, <1>5 DEF EventBegin
<1>6. CASE EventBody
  BY <1>0, <1>6 DEF EventBody
<1>7. CASE EventUpdate
  BY <1>0, <1>7 DEF EventUpdate
<1>8. CASE LoadState
  BY <1>0, <1>8 DEF LoadState
<1>9. CASE TakeBatch
  BY <1>0, <1>9 DEF TakeBatch, Min
<1>10. CASE SaveFiles
  BY <1>0, <1>10 DEF SaveFiles
<1>11. CASE SaveDb
  BY <1>0, <1>11 DEF SaveDb
<1>12. CASE SaveRemove
  BY <1>0, <1>12 DEF SaveRemove
<1>13. CASE SaveEndFiles
  BY <1>0, <1>13 DEF SaveEndFiles
<1>14. CASE Gather
  BY <1>0, <1>14 DEF Gather, Apply, Batch
<1>15. CASE DeleteKey
  BY <1>0, <1>15 DEF DeleteKey
<1>16. CASE RescueRanges
  BY <1>0, <1>16 DEF RescueRanges
<1>17. CASE RescueDelete
  BY <1>0, <1>17 DEF RescueDelete
<1>18. CASE RescueLogs
  BY <1>0, <1>18 DEF RescueLogs, Apply, Batch, RescuedLogsArrived
<1>19. CASE DigestsMatch
  BY <1>0, <1>19 DEF DigestsMatch
<1>20. CASE Advance
  BY <1>0, <1>20 DEF Advance
<1>21. CASE DigestsDiffer
  BY <1>0, <1>21 DEF DigestsDiffer
<1>22. CASE DeleteMalformed
  BY <1>0, <1>22 DEF DeleteMalformed
<1>23. CASE SetBackEventTick
  BY <1>0, <1>23 DEF SetBackEventTick
<1>24. CASE EndFile
  BY <1>0, <1>24 DEF EndFile
<1>25. CASE EndRename \/ EndRenameRanges
  BY <1>0, <1>25 DEF EndRename, EndRenameRanges
<1>26. CASE EndMark \/ EndReset
  BY <1>0, <1>26 DEF EndMark, EndReset
<1>27. CASE StopVerifier
  BY <1>0, <1>27 DEF StopVerifier, RescuedLogsArrived
<1>28. CASE IndexTick
  BY <1>0, <1>28 DEF IndexTick
<1>29. CASE IndexerEnds
  BY <1>0, <1>29 DEF IndexerEnds
<1>30. CASE CleanKey \/ CleanNext
  BY <1>0, <1>30 DEF CleanKey, CleanNext, CleanTick, CleanTo
<1>31. CASE RequestStop
  BY <1>0, <1>31 DEF RequestStop
<1>32. CASE Crash
  BY <1>0, <1>32 DEF Crash, Start, Max
<1>33. CASE ExitAndRestart
  BY <1>0, <1>33 DEF ExitAndRestart, Start, Max
<1> QED
  BY <1>1, <1>2, <1>3, <1>4, <1>5, <1>6, <1>7, <1>8, <1>9, <1>10, <1>11, <1>12,
     <1>13, <1>14, <1>15, <1>16, <1>17, <1>18, <1>19, <1>20, <1>21, <1>22,
     <1>23, <1>24, <1>25, <1>26, <1>27, <1>28, <1>29, <1>30, <1>31, <1>32,
     <1>33
     DEF Next, EventStep, VerifierStep

\* Memory: LoadState takes what SnapshotInv says of the files.
LEMMA MemoryStep ==
    ASSUME IInv, Next PROVE MemoryInv'
<1> USE PipelineAssumption
    DEF db, ranges, cursors, otherCursors, disk, verifier, verifierData, deletion,
        fetcher, bounds, processFromTick, Ticks, SnapshotTicks, NoTick,
        TypeOK, PointInv, Working, Saving, Rescue, MemoryInv, Before, After, Batch
<1>0. TypeOK /\ PointInv /\ MemoryInv /\ SnapshotInv /\ RecordInv
  BY DEF IInv
<1>1. CASE AdvanceFetchingTick
  BY <1>0, <1>1 DEF AdvanceFetchingTick
<1>2. CASE \E t \in Ticks : processLogRanges(t)
  BY <1>0, <1>2 DEF processLogRanges
<1>3. CASE \E t \in Ticks : InsertTickLogRange(t)
  BY <1>0, <1>3 DEF InsertTickLogRange
<1>4. CASE \E t \in LogTicks, q \in LogValues : processLogEvent(t, q)
  BY <1>0, <1>4 DEF processLogEvent
<1>5. CASE EventBegin
  BY <1>0, <1>5 DEF EventBegin
<1>6. CASE EventBody
  BY <1>0, <1>6 DEF EventBody
<1>7. CASE EventUpdate
  BY <1>0, <1>7 DEF EventUpdate
<1>8. CASE LoadState
  BY <1>0, <1>8 DEF LoadState, SnapshotInv, RecordInv, EpochStart, NoState
<1>9. CASE TakeBatch
  BY <1>0, <1>9 DEF TakeBatch
<1>10. CASE SaveFiles
  BY <1>0, <1>10 DEF SaveFiles
<1>11. CASE SaveDb
  BY <1>0, <1>11 DEF SaveDb
<1>12. CASE SaveRemove
  BY <1>0, <1>12 DEF SaveRemove
<1>13. CASE SaveEndFiles
  BY <1>0, <1>13 DEF SaveEndFiles
<1>14. CASE Gather
  BY <1>0, <1>14 DEF Gather, Apply
<1>15. CASE DeleteKey
  BY <1>0, <1>15 DEF DeleteKey
<1>16. CASE RescueRanges
  BY <1>0, <1>16 DEF RescueRanges
<1>17. CASE RescueDelete
  BY <1>0, <1>17 DEF RescueDelete
<1>18. CASE RescueLogs
  BY <1>0, <1>18 DEF RescueLogs, Apply
<1>19. CASE DigestsMatch
  <2>1. state = [upto |-> processToTick, ok |-> TRUE]
    BY <1>0, <1>19 DEF DigestsMatch, States
  <2> QED
    BY <1>0, <1>19, <2>1 DEF DigestsMatch
<1>20. CASE Advance
  BY <1>0, <1>20 DEF Advance
<1>21. CASE DigestsDiffer
  BY <1>0, <1>21 DEF DigestsDiffer
<1>22. CASE DeleteMalformed
  BY <1>0, <1>22 DEF DeleteMalformed
<1>23. CASE SetBackEventTick
  BY <1>0, <1>23 DEF SetBackEventTick
<1>24. CASE EndFile
  BY <1>0, <1>24 DEF EndFile
<1>25. CASE EndRename \/ EndRenameRanges
  BY <1>0, <1>25 DEF EndRename, EndRenameRanges
<1>26. CASE EndMark \/ EndReset
  BY <1>0, <1>26 DEF EndMark, EndReset
<1>27. CASE StopVerifier
  BY <1>0, <1>27 DEF StopVerifier
<1>28. CASE IndexTick
  BY <1>0, <1>28 DEF IndexTick
<1>29. CASE IndexerEnds
  BY <1>0, <1>29 DEF IndexerEnds
<1>30. CASE CleanKey \/ CleanNext
  BY <1>0, <1>30 DEF CleanKey, CleanNext, CleanTick, CleanTo
<1>31. CASE RequestStop
  BY <1>0, <1>31 DEF RequestStop
<1>32. CASE Crash
  BY <1>0, <1>32 DEF Crash, Start, Max
<1>33. CASE ExitAndRestart
  BY <1>0, <1>33 DEF ExitAndRestart, Start, Max
<1> QED
  BY <1>1, <1>2, <1>3, <1>4, <1>5, <1>6, <1>7, <1>8, <1>9, <1>10, <1>11, <1>12,
     <1>13, <1>14, <1>15, <1>16, <1>17, <1>18, <1>19, <1>20, <1>21, <1>22,
     <1>23, <1>24, <1>25, <1>26, <1>27, <1>28, <1>29, <1>30, <1>31, <1>32,
     <1>33
     DEF Next, EventStep, VerifierStep

-----------------------------------------------------------------------------
(* saveState and the cursors *)

\* The DB record follows the state in memory.
LEMMA RecordStep ==
    ASSUME IInv, Next PROVE RecordInv'
<1> USE PipelineAssumption
    DEF db, ranges, cursors, otherCursors, disk, verifier, verifierData, deletion,
        fetcher, bounds, processFromTick, Ticks, SnapshotTicks, NoTick,
        TypeOK, PointInv, Working, Saving, Rescue, RecordInv
<1>0. TypeOK /\ PointInv /\ MemoryInv /\ RecordInv /\ CursorInv
  BY DEF IInv
<1>1. CASE AdvanceFetchingTick
  BY <1>0, <1>1 DEF AdvanceFetchingTick
<1>2. CASE \E t \in Ticks : processLogRanges(t)
  BY <1>0, <1>2 DEF processLogRanges
<1>3. CASE \E t \in Ticks : InsertTickLogRange(t)
  BY <1>0, <1>3 DEF InsertTickLogRange
<1>4. CASE \E t \in LogTicks, q \in LogValues : processLogEvent(t, q)
  BY <1>0, <1>4 DEF processLogEvent
<1>5. CASE EventBegin
  BY <1>0, <1>5 DEF EventBegin
<1>6. CASE EventBody
  BY <1>0, <1>6 DEF EventBody
<1>7. CASE EventUpdate
  BY <1>0, <1>7 DEF EventUpdate
<1>8. CASE LoadState
  BY <1>0, <1>8 DEF LoadState
<1>9. CASE TakeBatch
  BY <1>0, <1>9 DEF TakeBatch
<1>10. CASE SaveFiles
  BY <1>0, <1>10 DEF SaveFiles
<1>11. CASE SaveDb
  BY <1>0, <1>11 DEF SaveDb, Max, MemoryInv
<1>12. CASE SaveRemove
  BY <1>0, <1>12 DEF SaveRemove, MemoryInv
<1>13. CASE SaveEndFiles
  BY <1>0, <1>13 DEF SaveEndFiles
<1>14. CASE Gather
  BY <1>0, <1>14 DEF Gather, Apply
<1>15. CASE DeleteKey
  BY <1>0, <1>15 DEF DeleteKey
<1>16. CASE RescueRanges
  BY <1>0, <1>16 DEF RescueRanges
<1>17. CASE RescueDelete
  BY <1>0, <1>17 DEF RescueDelete
<1>18. CASE RescueLogs
  BY <1>0, <1>18 DEF RescueLogs, Apply
<1>19. CASE DigestsMatch
  BY <1>0, <1>19 DEF DigestsMatch
<1>20. CASE Advance
  BY <1>0, <1>20 DEF Advance
<1>21. CASE DigestsDiffer
  BY <1>0, <1>21 DEF DigestsDiffer
<1>22. CASE DeleteMalformed
  BY <1>0, <1>22 DEF DeleteMalformed
<1>23. CASE SetBackEventTick
  BY <1>0, <1>23 DEF SetBackEventTick
<1>24. CASE EndFile
  BY <1>0, <1>24 DEF EndFile, CursorInv, Ending
<1>25. CASE EndRename \/ EndRenameRanges
  BY <1>0, <1>25 DEF EndRename, EndRenameRanges
<1>26. CASE EndMark \/ EndReset
  BY <1>0, <1>26 DEF EndMark, EndReset
<1>27. CASE StopVerifier
  BY <1>0, <1>27 DEF StopVerifier
<1>28. CASE IndexTick
  BY <1>0, <1>28 DEF IndexTick
<1>29. CASE IndexerEnds
  BY <1>0, <1>29 DEF IndexerEnds
<1>30. CASE CleanKey \/ CleanNext
  BY <1>0, <1>30 DEF CleanKey, CleanNext, CleanTick, CleanTo
<1>31. CASE RequestStop
  BY <1>0, <1>31 DEF RequestStop
<1>32. CASE Crash
  BY <1>0, <1>32 DEF Crash, Start, Max
<1>33. CASE ExitAndRestart
  BY <1>0, <1>33 DEF ExitAndRestart, Start, Max
<1> QED
  BY <1>1, <1>2, <1>3, <1>4, <1>5, <1>6, <1>7, <1>8, <1>9, <1>10, <1>11, <1>12,
     <1>13, <1>14, <1>15, <1>16, <1>17, <1>18, <1>19, <1>20, <1>21, <1>22,
     <1>23, <1>24, <1>25, <1>26, <1>27, <1>28, <1>29, <1>30, <1>31, <1>32,
     <1>33
     DEF Next, EventStep, VerifierStep

\* Files are written before the record names them; what is removed is older,
\* except at the end of the epoch.
LEMMA SnapshotStep ==
    ASSUME IInv, Next PROVE SnapshotInv'
<1> USE PipelineAssumption
    DEF db, ranges, cursors, otherCursors, disk, verifier, verifierData, deletion,
        fetcher, bounds, processFromTick, Ticks, SnapshotTicks, NoTick,
        TypeOK, PointInv, Working, Saving, Rescue, SnapshotInv
<1>0. TypeOK /\ PointInv /\ MemoryInv /\ RecordInv /\ CursorInv /\ SnapshotInv
  BY DEF IInv
<1>1. CASE AdvanceFetchingTick
  BY <1>0, <1>1 DEF AdvanceFetchingTick
<1>2. CASE \E t \in Ticks : processLogRanges(t)
  BY <1>0, <1>2 DEF processLogRanges
<1>3. CASE \E t \in Ticks : InsertTickLogRange(t)
  BY <1>0, <1>3 DEF InsertTickLogRange
<1>4. CASE \E t \in LogTicks, q \in LogValues : processLogEvent(t, q)
  BY <1>0, <1>4 DEF processLogEvent
<1>5. CASE EventBegin
  BY <1>0, <1>5 DEF EventBegin
<1>6. CASE EventBody
  BY <1>0, <1>6 DEF EventBody
<1>7. CASE EventUpdate
  BY <1>0, <1>7 DEF EventUpdate
<1>8. CASE LoadState
  BY <1>0, <1>8 DEF LoadState
<1>9. CASE TakeBatch
  BY <1>0, <1>9 DEF TakeBatch
<1>10. CASE SaveFiles
  <2>1. saveTick \in SnapshotTicks
    BY <1>0, <1>10 DEF SaveFiles, MemoryInv
  <2>2. state = [upto |-> saveTick, ok |-> TRUE]
    BY <1>0, <1>10 DEF SaveFiles, MemoryInv, Before, After
  <2>3. /\ snapshot'[saveTick] = [upto |-> saveTick, ok |-> TRUE]
        /\ \A t \in SnapshotTicks : t = saveTick \/ snapshot'[t] = snapshot[t]
    BY <1>0, <1>10, <2>1, <2>2 DEF SaveFiles
  <2>4. latest_verified_tick >= gInitialTick => latest_verified_tick \in SnapshotTicks
    BY <1>0
  <2>5. vpc' = "saveDb" /\ UNCHANGED <<latest_verified_tick, saveTick>>
    BY <1>10 DEF SaveFiles
  <2>6. latest_verified_tick >= gInitialTick =>
          \/ snapshot'[latest_verified_tick] = [upto |-> latest_verified_tick, ok |-> TRUE]
          \/ EndEpoch /\ snapshot'[latest_verified_tick] = NoState
    BY <1>0, <2>3, <2>4
  <2> QED
    BY <2>3, <2>5, <2>6
<1>11. CASE SaveDb
  BY <1>0, <1>11 DEF SaveDb, Max
<1>12. CASE SaveRemove
  BY <1>0, <1>12 DEF SaveRemove, MemoryInv, RecordInv
<1>13. CASE SaveEndFiles
  <2>1. EndEpoch /\ Before
    BY <1>0, <1>13 DEF SaveEndFiles, MemoryInv
  <2>2. latest_verified_tick = LastTick - 1 => gCurrentVerifyLoggingTick = LastTick
    BY <1>0, <1>13, <2>1 DEF SaveEndFiles, RecordInv, CursorInv
  <2>3. latest_verified_tick = LastTick - 1 =>
          snapshot'[latest_verified_tick] = [upto |-> latest_verified_tick, ok |-> TRUE]
    BY <1>0, <1>13, <2>1, <2>2 DEF SaveEndFiles, Before
  <2>4. \A t \in SnapshotTicks : t = LastTick - 1 \/ snapshot'[t] = snapshot[t]
    BY <1>0, <1>13 DEF SaveEndFiles
  <2> QED
    BY <1>0, <1>13, <2>3, <2>4 DEF SaveEndFiles
<1>14. CASE Gather
  BY <1>0, <1>14 DEF Gather, Apply
<1>15. CASE DeleteKey
  BY <1>0, <1>15 DEF DeleteKey
<1>16. CASE RescueRanges
  BY <1>0, <1>16 DEF RescueRanges
<1>17. CASE RescueDelete
  BY <1>0, <1>17 DEF RescueDelete
<1>18. CASE RescueLogs
  BY <1>0, <1>18 DEF RescueLogs, Apply
<1>19. CASE DigestsMatch
  BY <1>0, <1>19 DEF DigestsMatch
<1>20. CASE Advance
  BY <1>0, <1>20 DEF Advance
<1>21. CASE DigestsDiffer
  BY <1>0, <1>21 DEF DigestsDiffer
<1>22. CASE DeleteMalformed
  BY <1>0, <1>22 DEF DeleteMalformed
<1>23. CASE SetBackEventTick
  BY <1>0, <1>23 DEF SetBackEventTick
<1>24. CASE EndFile
  BY <1>0, <1>24 DEF EndFile
<1>25. CASE EndRename \/ EndRenameRanges
  BY <1>0, <1>25 DEF EndRename, EndRenameRanges
<1>26. CASE EndMark \/ EndReset
  BY <1>0, <1>26 DEF EndMark, EndReset
<1>27. CASE StopVerifier
  BY <1>0, <1>27 DEF StopVerifier
<1>28. CASE IndexTick
  BY <1>0, <1>28 DEF IndexTick
<1>29. CASE IndexerEnds
  BY <1>0, <1>29 DEF IndexerEnds
<1>30. CASE CleanKey \/ CleanNext
  BY <1>0, <1>30 DEF CleanKey, CleanNext, CleanTick, CleanTo
<1>31. CASE RequestStop
  BY <1>0, <1>31 DEF RequestStop
<1>32. CASE Crash
  BY <1>0, <1>32 DEF Crash, Start, Max
<1>33. CASE ExitAndRestart
  BY <1>0, <1>33 DEF ExitAndRestart, Start, Max
<1> QED
  BY <1>1, <1>2, <1>3, <1>4, <1>5, <1>6, <1>7, <1>8, <1>9, <1>10, <1>11, <1>12,
     <1>13, <1>14, <1>15, <1>16, <1>17, <1>18, <1>19, <1>20, <1>21, <1>22,
     <1>23, <1>24, <1>25, <1>26, <1>27, <1>28, <1>29, <1>30, <1>31, <1>32,
     <1>33
     DEF Next, EventStep, VerifierStep

\* The virtual tick has no votes, so no cursor passes it.
LEMMA CursorStep ==
    ASSUME IInv, Next PROVE CursorInv'
<1> USE PipelineAssumption
    DEF db, ranges, cursors, otherCursors, disk, verifier, verifierData, deletion,
        fetcher, bounds, processFromTick, Ticks, SnapshotTicks, NoTick,
        TypeOK, PointInv, Working, Saving, Rescue, Ending, CursorInv
<1>0. TypeOK /\ PointInv /\ MemoryInv /\ CursorInv
  BY DEF IInv
<1>1. CASE AdvanceFetchingTick
  BY <1>0, <1>1 DEF AdvanceFetchingTick
<1>2. CASE \E t \in Ticks : processLogRanges(t)
  BY <1>0, <1>2 DEF processLogRanges
<1>3. CASE \E t \in Ticks : InsertTickLogRange(t)
  BY <1>0, <1>3 DEF InsertTickLogRange
<1>4. CASE \E t \in LogTicks, q \in LogValues : processLogEvent(t, q)
  BY <1>0, <1>4 DEF processLogEvent
<1>5. CASE EventBegin
  BY <1>0, <1>5 DEF EventBegin
<1>6. CASE EventBody
  BY <1>0, <1>6 DEF EventBody
<1>7. CASE EventUpdate
  BY <1>0, <1>7 DEF EventUpdate
<1>8. CASE LoadState
  BY <1>0, <1>8 DEF LoadState
<1>9. CASE TakeBatch
  BY <1>0, <1>9 DEF TakeBatch, Min
<1>10. CASE SaveFiles
  BY <1>0, <1>10 DEF SaveFiles
<1>11. CASE SaveDb
  <2>1. EndEpoch => saveTick < LastTick
    BY <1>0, <1>11 DEF SaveDb, MemoryInv
  <2>2. EndEpoch => latest_verified_tick' < LastTick
    BY <1>0, <1>11, <2>1 DEF SaveDb, Max
  <2> QED
    BY <1>0, <1>11, <2>2 DEF SaveDb
<1>12. CASE SaveRemove
  BY <1>0, <1>12 DEF SaveRemove, MemoryInv
<1>13. CASE SaveEndFiles
  BY <1>0, <1>13 DEF SaveEndFiles
<1>14. CASE Gather
  BY <1>0, <1>14 DEF Gather, Apply
<1>15. CASE DeleteKey
  BY <1>0, <1>15 DEF DeleteKey
<1>16. CASE RescueRanges
  BY <1>0, <1>16 DEF RescueRanges
<1>17. CASE RescueDelete
  BY <1>0, <1>17 DEF RescueDelete
<1>18. CASE RescueLogs
  BY <1>0, <1>18 DEF RescueLogs, Apply
<1>19. CASE DigestsMatch
  BY <1>0, <1>19 DEF DigestsMatch, HasQuorum
<1>20. CASE Advance
  BY <1>0, <1>20 DEF Advance
<1>21. CASE DigestsDiffer
  BY <1>0, <1>21 DEF DigestsDiffer, HasQuorum
<1>22. CASE DeleteMalformed
  BY <1>0, <1>22 DEF DeleteMalformed
<1>23. CASE SetBackEventTick
  BY <1>0, <1>23 DEF SetBackEventTick
<1>24. CASE EndFile
  BY <1>0, <1>24 DEF EndFile
<1>25. CASE EndRename \/ EndRenameRanges
  BY <1>0, <1>25 DEF EndRename, EndRenameRanges
<1>26. CASE EndMark \/ EndReset
  BY <1>0, <1>26 DEF EndMark, EndReset
<1>27. CASE StopVerifier
  BY <1>0, <1>27 DEF StopVerifier
<1>28. CASE IndexTick
  BY <1>0, <1>28 DEF IndexTick
<1>29. CASE IndexerEnds
  BY <1>0, <1>29 DEF IndexerEnds
<1>30. CASE CleanKey \/ CleanNext
  BY <1>0, <1>30 DEF CleanKey, CleanNext, CleanTick, CleanTo
<1>31. CASE RequestStop
  BY <1>0, <1>31 DEF RequestStop
<1>32. CASE Crash
  BY <1>0, <1>32 DEF Crash, Start, Max
<1>33. CASE ExitAndRestart
  BY <1>0, <1>33 DEF ExitAndRestart, Start, Max
<1> QED
  BY <1>1, <1>2, <1>3, <1>4, <1>5, <1>6, <1>7, <1>8, <1>9, <1>10, <1>11, <1>12,
     <1>13, <1>14, <1>15, <1>16, <1>17, <1>18, <1>19, <1>20, <1>21, <1>22,
     <1>23, <1>24, <1>25, <1>26, <1>27, <1>28, <1>29, <1>30, <1>31, <1>32,
     <1>33
     DEF Next, EventStep, VerifierStep

-----------------------------------------------------------------------------
(* The end of the epoch, as long as it was not interrupted *)

\* Once the end of the epoch was interrupted it stays so.
LEMMA InterruptedStays ==
    ASSUME TypeOK, interrupted, Next PROVE interrupted'
<1> USE PipelineAssumption
    DEF db, ranges, cursors, otherCursors, disk, verifier, verifierData, deletion,
        fetcher, bounds, processFromTick, Ticks, SnapshotTicks, NoTick,
        TypeOK
<1>0. TypeOK
  OBVIOUS
<1>1. CASE AdvanceFetchingTick
  BY <1>0, <1>1 DEF AdvanceFetchingTick
<1>2. CASE \E t \in Ticks : processLogRanges(t)
  BY <1>0, <1>2 DEF processLogRanges
<1>3. CASE \E t \in Ticks : InsertTickLogRange(t)
  BY <1>0, <1>3 DEF InsertTickLogRange
<1>4. CASE \E t \in LogTicks, q \in LogValues : processLogEvent(t, q)
  BY <1>0, <1>4 DEF processLogEvent
<1>5. CASE EventBegin
  BY <1>0, <1>5 DEF EventBegin
<1>6. CASE EventBody
  BY <1>0, <1>6 DEF EventBody
<1>7. CASE EventUpdate
  BY <1>0, <1>7 DEF EventUpdate
<1>8. CASE LoadState
  BY <1>0, <1>8 DEF LoadState
<1>9. CASE TakeBatch
  BY <1>0, <1>9 DEF TakeBatch
<1>10. CASE SaveFiles
  BY <1>0, <1>10 DEF SaveFiles
<1>11. CASE SaveDb
  BY <1>0, <1>11 DEF SaveDb
<1>12. CASE SaveRemove
  BY <1>0, <1>12 DEF SaveRemove
<1>13. CASE SaveEndFiles
  BY <1>0, <1>13 DEF SaveEndFiles
<1>14. CASE Gather
  BY <1>0, <1>14 DEF Gather
<1>15. CASE DeleteKey
  BY <1>0, <1>15 DEF DeleteKey
<1>16. CASE RescueRanges
  BY <1>0, <1>16 DEF RescueRanges
<1>17. CASE RescueDelete
  BY <1>0, <1>17 DEF RescueDelete
<1>18. CASE RescueLogs
  BY <1>0, <1>18 DEF RescueLogs
<1>19. CASE DigestsMatch
  BY <1>0, <1>19 DEF DigestsMatch
<1>20. CASE Advance
  BY <1>0, <1>20 DEF Advance
<1>21. CASE DigestsDiffer
  BY <1>0, <1>21 DEF DigestsDiffer
<1>22. CASE DeleteMalformed
  BY <1>0, <1>22 DEF DeleteMalformed
<1>23. CASE SetBackEventTick
  BY <1>0, <1>23 DEF SetBackEventTick
<1>24. CASE EndFile
  BY <1>0, <1>24 DEF EndFile
<1>25. CASE EndRename \/ EndRenameRanges
  BY <1>0, <1>25 DEF EndRename, EndRenameRanges
<1>26. CASE EndMark \/ EndReset
  BY <1>0, <1>26 DEF EndMark, EndReset
<1>27. CASE StopVerifier
  BY <1>0, <1>27 DEF StopVerifier
<1>28. CASE IndexTick
  BY <1>0, <1>28 DEF IndexTick
<1>29. CASE IndexerEnds
  BY <1>0, <1>29 DEF IndexerEnds
<1>30. CASE CleanKey \/ CleanNext
  BY <1>0, <1>30 DEF CleanKey, CleanNext, CleanTick, CleanTo
<1>31. CASE RequestStop
  BY <1>0, <1>31 DEF RequestStop
<1>32. CASE Crash
  BY <1>0, <1>32 DEF Crash, Start, Max
<1>33. CASE ExitAndRestart
  BY <1>0, <1>33 DEF ExitAndRestart, Start, Max
<1> QED
  BY <1>1, <1>2, <1>3, <1>4, <1>5, <1>6, <1>7, <1>8, <1>9, <1>10, <1>11, <1>12,
     <1>13, <1>14, <1>15, <1>16, <1>17, <1>18, <1>19, <1>20, <1>21, <1>22,
     <1>23, <1>24, <1>25, <1>26, <1>27, <1>28, <1>29, <1>30, <1>31, <1>32,
     <1>33
     DEF Next, EventStep, VerifierStep

\* Ticks become verified before any cursor passes them.
LEMMA VerifiedStep ==
    ASSUME IInv, Next, ~interrupted' PROVE VerifiedInv'
<1> USE PipelineAssumption
    DEF db, ranges, cursors, otherCursors, disk, verifier, verifierData, deletion,
        fetcher, bounds, processFromTick, Ticks, SnapshotTicks, NoTick,
        TypeOK, PointInv, Working, Saving, Rescue, VerifiedInv
<1>0. TypeOK /\ PointInv /\ MemoryInv /\ RecordInv /\ VerifiedInv /\ EndInv
  BY InterruptedStays DEF IInv, Uninterrupted
<1>1. CASE AdvanceFetchingTick
  BY <1>0, <1>1 DEF AdvanceFetchingTick
<1>2. CASE \E t \in Ticks : processLogRanges(t)
  BY <1>0, <1>2 DEF processLogRanges
<1>3. CASE \E t \in Ticks : InsertTickLogRange(t)
  BY <1>0, <1>3 DEF InsertTickLogRange
<1>4. CASE \E t \in LogTicks, q \in LogValues : processLogEvent(t, q)
  BY <1>0, <1>4 DEF processLogEvent
<1>5. CASE EventBegin
  BY <1>0, <1>5 DEF EventBegin
<1>6. CASE EventBody
  BY <1>0, <1>6 DEF EventBody
<1>7. CASE EventUpdate
  BY <1>0, <1>7 DEF EventUpdate
<1>8. CASE LoadState
  BY <1>0, <1>8 DEF LoadState
<1>9. CASE TakeBatch
  BY <1>0, <1>9 DEF TakeBatch
<1>10. CASE SaveFiles
  BY <1>0, <1>10 DEF SaveFiles
<1>11. CASE SaveDb
  BY <1>0, <1>11 DEF SaveDb, Max, MemoryInv, Before, After, Batch
<1>12. CASE SaveRemove
  BY <1>0, <1>12 DEF SaveRemove, MemoryInv
<1>13. CASE SaveEndFiles
  BY <1>0, <1>13 DEF SaveEndFiles
<1>14. CASE Gather
  BY <1>0, <1>14 DEF Gather
<1>15. CASE DeleteKey
  BY <1>0, <1>15 DEF DeleteKey
<1>16. CASE RescueRanges
  BY <1>0, <1>16 DEF RescueRanges
<1>17. CASE RescueDelete
  BY <1>0, <1>17 DEF RescueDelete
<1>18. CASE RescueLogs
  BY <1>0, <1>18 DEF RescueLogs
<1>19. CASE DigestsMatch
  BY <1>0, <1>19 DEF DigestsMatch
<1>20. CASE Advance
  BY <1>0, <1>20 DEF Advance, MemoryInv, After, Batch
<1>21. CASE DigestsDiffer
  BY <1>0, <1>21 DEF DigestsDiffer
<1>22. CASE DeleteMalformed
  BY <1>0, <1>22 DEF DeleteMalformed
<1>23. CASE SetBackEventTick
  BY <1>0, <1>23 DEF SetBackEventTick
<1>24. CASE EndFile
  BY <1>0, <1>24 DEF EndFile, EndInv, Ending
<1>25. CASE EndRename \/ EndRenameRanges
  BY <1>0, <1>25 DEF EndRename, EndRenameRanges
<1>26. CASE EndMark \/ EndReset
  BY <1>0, <1>26 DEF EndMark, EndReset
<1>27. CASE StopVerifier
  BY <1>0, <1>27 DEF StopVerifier
<1>28. CASE IndexTick
  BY <1>0, <1>28 DEF IndexTick
<1>29. CASE IndexerEnds
  BY <1>0, <1>29 DEF IndexerEnds
<1>30. CASE CleanKey \/ CleanNext
  BY <1>0, <1>30 DEF CleanKey, CleanNext, CleanTick, CleanTo
<1>31. CASE RequestStop
  BY <1>0, <1>31 DEF RequestStop
<1>32. CASE Crash
  BY <1>0, <1>32 DEF Crash, Start, Max
<1>33. CASE ExitAndRestart
  BY <1>0, <1>33 DEF ExitAndRestart, Start, Max
<1> QED
  BY <1>1, <1>2, <1>3, <1>4, <1>5, <1>6, <1>7, <1>8, <1>9, <1>10, <1>11, <1>12,
     <1>13, <1>14, <1>15, <1>16, <1>17, <1>18, <1>19, <1>20, <1>21, <1>22,
     <1>23, <1>24, <1>25, <1>26, <1>27, <1>28, <1>29, <1>30, <1>31, <1>32,
     <1>33
     DEF Next, EventStep, VerifierStep

\* The logs of the virtual tick: a batch that begins with it finds them all, so
\* that no rescue follows.
LEMMA VirtualBatch ==
    ASSUME IInv, ~interrupted, EndEpoch, vpc = "gather", gCurrentVerifyLoggingTick = LastTick
    PROVE  /\ VirtualStored
           /\ Batch \cap LogTicks = {LastTick}
           /\ Gathered = {LastTick}
           /\ Combined(Batch) = {LastTick}
           /\ processToTick = LastTick
<1> USE PipelineAssumption
<1>0. TypeOK /\ PointInv /\ VirtualInv /\ CursorInv
  BY DEF IInv, Uninterrupted
<1>1. processToTick = LastTick /\ gCurrentFetchingLogTick > LastTick
  BY <1>0 DEF TypeOK, PointInv, Working, Ticks, NoTick
<1>2. VirtualStored
  BY <1>0, <1>1 DEF VirtualInv, CursorInv, EndRecorded
<1>3. LastTick .. LastTick = {LastTick}
  OBVIOUS
<1>4. Batch \cap LogTicks = {LastTick}
  BY <1>1, <1>3 DEF Batch, processFromTick
<1>5. Gathered = {LastTick}
  BY <1>1, <1>2, <1>3, <1>4 DEF Gathered, processFromTick, VirtualStored
<1>6. Combined(Batch) = {LastTick}
  <2>1. \A a : a \in Batch \cap LogTicks \cap tick_log_range <=> a = LastTick
    BY <1>2, <1>4 DEF VirtualStored
  <2>2. \A t \in LogTicks : LastTick <= t /\ t <= LastTick <=> t = LastTick
    OBVIOUS
  <2>3. \A t : t \in Combined(Batch) <=> t = LastTick
    BY <2>1, <2>2 DEF Combined
  <2> QED
    BY <2>3
<1> QED
  BY <1>1, <1>2, <1>4, <1>5, <1>6

\* A batch that ends before the virtual tick does not touch it.
LEMMA RealBatch ==
    ASSUME TypeOK, processToTick < LastTick
    PROVE  /\ LastTick \notin Batch
           /\ LastTick \notin Gathered
           /\ LastTick \notin Combined(Batch)
<1> USE PipelineAssumption
<1>1. \A t \in Batch : t < LastTick
  BY DEF TypeOK, Batch, processFromTick, Ticks, NoTick
<1>2. LastTick \notin Combined(Batch)
  <2>1. ASSUME NEW a \in Batch, NEW b \in Batch PROVE ~(a <= LastTick /\ LastTick <= b)
    BY <1>1 DEF TypeOK, Batch, processFromTick, Ticks, NoTick
  <2> QED
    BY <2>1 DEF Combined
<1> QED
  BY <1>1, <1>2 DEF Gathered

\* The ranges and logs of the virtual tick stay: rescue and cleaning do not reach
\* them, and the event cursor goes back when they are deleted.
LEMMA VirtualStep ==
    ASSUME IInv, Next, ~interrupted' PROVE VirtualInv'
<1> USE PipelineAssumption
    DEF db, ranges, cursors, otherCursors, disk, verifier, verifierData, deletion,
        fetcher, bounds, processFromTick, Ticks, SnapshotTicks, NoTick,
        TypeOK, PointInv, Working, Saving, Rescue, Ending, VirtualInv, VirtualStored, EndRecorded
<1>0. TypeOK /\ PointInv /\ CursorInv /\ VirtualInv /\ CutInv /\ EndInv
  BY InterruptedStays DEF IInv, Uninterrupted
<1>1. CASE AdvanceFetchingTick
  BY <1>0, <1>1 DEF AdvanceFetchingTick
<1>2. CASE \E t \in Ticks : processLogRanges(t)
  BY <1>0, <1>2 DEF processLogRanges
<1>3. CASE \E t \in Ticks : InsertTickLogRange(t)
  BY <1>0, <1>3 DEF InsertTickLogRange
<1>4. CASE \E t \in LogTicks, q \in LogValues : processLogEvent(t, q)
  BY <1>0, <1>4 DEF processLogEvent
<1>5. CASE EventBegin
  BY <1>0, <1>5 DEF EventBegin
<1>6. CASE EventBody
  BY <1>0, <1>6 DEF EventBody
<1>7. CASE EventUpdate
  BY <1>0, <1>7 DEF EventUpdate
<1>8. CASE LoadState
  BY <1>0, <1>8 DEF LoadState, CursorInv
<1>9. CASE TakeBatch
  BY <1>0, <1>9 DEF TakeBatch
<1>10. CASE SaveFiles
  BY <1>0, <1>10 DEF SaveFiles
<1>11. CASE SaveDb
  BY <1>0, <1>11 DEF SaveDb
<1>12. CASE SaveRemove
  BY <1>0, <1>12 DEF SaveRemove
<1>13. CASE SaveEndFiles
  BY <1>0, <1>13 DEF SaveEndFiles
<1>14. CASE Gather
  BY <1>0, <1>14 DEF Gather, Apply
<1>15. CASE DeleteKey
  BY <1>0, <1>15 DEF DeleteKey, CutInv, VirtualSpared
<1>16. CASE RescueRanges
  BY <1>0, <1>16 DEF RescueRanges
<1>17. CASE RescueDelete
  BY <1>0, <1>17 DEF RescueDelete
<1>18. CASE RescueLogs
  BY <1>0, <1>18 DEF RescueLogs, Apply
<1>19. CASE DigestsMatch
  BY <1>0, <1>19 DEF DigestsMatch
<1>20. CASE Advance
  BY <1>0, <1>20 DEF Advance
<1>21. CASE DigestsDiffer
  BY <1>0, <1>21 DEF DigestsDiffer
<1>22. CASE DeleteMalformed
  BY <1>0, <1>22 DEF DeleteMalformed
<1>23. CASE SetBackEventTick
  BY <1>0, <1>23 DEF SetBackEventTick
<1>24. CASE EndFile
  BY <1>0, <1>24 DEF EndFile
<1>25. CASE EndRename \/ EndRenameRanges
  BY <1>0, <1>25 DEF EndRename, EndRenameRanges, EndInv
<1>26. CASE EndMark \/ EndReset
  BY <1>0, <1>26 DEF EndMark, EndReset, EndInv
<1>27. CASE StopVerifier
  BY <1>0, <1>27 DEF StopVerifier
<1>28. CASE IndexTick
  BY <1>0, <1>28 DEF IndexTick
<1>29. CASE IndexerEnds
  BY <1>0, <1>29 DEF IndexerEnds
<1>30. CASE CleanKey \/ CleanNext
  <2>1. EndEpoch => CleanTick # LastTick
    BY <1>0, <1>30 DEF CleanKey, CleanNext, CleanTick, CleanTo, CursorInv
  <2>2. EndEpoch /\ VirtualStored => VirtualStored'
    BY <1>0, <1>30, <2>1 DEF CleanKey, CleanNext, VirtualStored
  <2>3. EndEpoch => logs'[LastTick] = logs[LastTick]
    BY <1>0, <1>30, <2>1 DEF CleanKey, CleanNext
  <2> HIDE DEF VirtualStored
  <2> QED
    <3>1. CASE EndEpoch /\ CleanKey
      BY <1>0, <2>2, <2>3, <3>1 DEF CleanKey, CursorInv
    <3>2. CASE EndEpoch /\ CleanNext
      BY <1>0, <2>2, <2>3, <3>2 DEF CleanNext, CursorInv
    <3>3. CASE ~EndEpoch
      BY <1>0, <1>30, <3>3 DEF CleanKey, CleanNext, CursorInv
    <3> QED
      BY <1>30, <3>1, <3>2, <3>3
<1>31. CASE RequestStop
  BY <1>0, <1>31 DEF RequestStop
<1>32. CASE Crash
  <2>1. EndEpoch => vpc \notin {"setBack", "endRenameRanges", "endMark"}
    BY <1>32 DEF Crash
  <2> QED
    BY <1>0, <1>32, <2>1 DEF Crash, Start, Max
<1>33. CASE ExitAndRestart
  BY <1>0, <1>33 DEF ExitAndRestart, Start, Max, CursorInv
<1> QED
  BY <1>1, <1>2, <1>3, <1>4, <1>5, <1>6, <1>7, <1>8, <1>9, <1>10, <1>11, <1>12,
     <1>13, <1>14, <1>15, <1>16, <1>17, <1>18, <1>19, <1>20, <1>21, <1>22,
     <1>23, <1>24, <1>25, <1>26, <1>27, <1>28, <1>29, <1>30, <1>31, <1>32,
     <1>33
     DEF Next, EventStep, VerifierStep

\* No batch runs across the virtual tick.
LEMMA CutStep ==
    ASSUME IInv, Next, ~interrupted' PROVE CutInv'
<1> USE PipelineAssumption
    DEF db, ranges, cursors, otherCursors, disk, verifier, verifierData, deletion,
        fetcher, bounds, processFromTick, Ticks, SnapshotTicks, NoTick,
        TypeOK, PointInv, Working, Saving, Rescue, CutInv, VirtualSpared
<1>0. TypeOK /\ PointInv /\ CursorInv /\ VirtualInv /\ CutInv
  BY InterruptedStays DEF IInv, Uninterrupted
<1>1. CASE AdvanceFetchingTick
  BY <1>0, <1>1 DEF AdvanceFetchingTick
<1>2. CASE \E t \in Ticks : processLogRanges(t)
  BY <1>0, <1>2 DEF processLogRanges
<1>3. CASE \E t \in Ticks : InsertTickLogRange(t)
  BY <1>0, <1>3 DEF InsertTickLogRange
<1>4. CASE \E t \in LogTicks, q \in LogValues : processLogEvent(t, q)
  BY <1>0, <1>4 DEF processLogEvent
<1>5. CASE EventBegin
  BY <1>0, <1>5 DEF EventBegin
<1>6. CASE EventBody
  BY <1>0, <1>6 DEF EventBody
<1>7. CASE EventUpdate
  BY <1>0, <1>7 DEF EventUpdate
<1>8. CASE LoadState
  BY <1>0, <1>8 DEF LoadState
<1>9. CASE TakeBatch
  BY <1>0, <1>9 DEF TakeBatch, Min, VirtualInv, VirtualStored, EndRecorded, CursorInv
<1>10. CASE SaveFiles
  BY <1>0, <1>10 DEF SaveFiles
<1>11. CASE SaveDb
  BY <1>0, <1>11 DEF SaveDb
<1>12. CASE SaveRemove
  BY <1>0, <1>12 DEF SaveRemove
<1>13. CASE SaveEndFiles
  BY <1>0, <1>13 DEF SaveEndFiles
<1>14. CASE Gather
  <2>1. CASE EndEpoch /\ gCurrentVerifyLoggingTick = LastTick
    BY <1>0, <1>14, <2>1, InterruptedStays, VirtualBatch DEF Gather, Apply
  <2>2. CASE EndEpoch /\ processToTick < LastTick
    BY <1>0, <1>14, <2>2, RealBatch DEF Gather, Apply, RangeKeys
  <2> QED
    BY <1>0, <1>14, <2>1, <2>2 DEF Gather
<1>15. CASE DeleteKey
  BY <1>0, <1>15 DEF DeleteKey
<1>16. CASE RescueRanges
  <2>1. EndEpoch => LastTick \notin Combined(Batch)
    BY <1>0, <1>16, RealBatch DEF RescueRanges
  <2> QED
    BY <1>0, <1>16, <2>1 DEF RescueRanges, LogKeys
<1>17. CASE RescueDelete
  BY <1>0, <1>17 DEF RescueDelete
<1>18. CASE RescueLogs
  BY <1>0, <1>18 DEF RescueLogs, Apply, LogKeys
<1>19. CASE DigestsMatch
  BY <1>0, <1>19 DEF DigestsMatch
<1>20. CASE Advance
  BY <1>0, <1>20 DEF Advance
<1>21. CASE DigestsDiffer
  BY <1>0, <1>21 DEF DigestsDiffer
<1>22. CASE DeleteMalformed
  BY <1>0, <1>22 DEF DeleteMalformed
<1>23. CASE SetBackEventTick
  BY <1>0, <1>23 DEF SetBackEventTick
<1>24. CASE EndFile
  BY <1>0, <1>24 DEF EndFile
<1>25. CASE EndRename \/ EndRenameRanges
  BY <1>0, <1>25 DEF EndRename, EndRenameRanges
<1>26. CASE EndMark \/ EndReset
  BY <1>0, <1>26 DEF EndMark, EndReset
<1>27. CASE StopVerifier
  BY <1>0, <1>27 DEF StopVerifier
<1>28. CASE IndexTick
  BY <1>0, <1>28 DEF IndexTick
<1>29. CASE IndexerEnds
  BY <1>0, <1>29 DEF IndexerEnds
<1>30. CASE CleanKey \/ CleanNext
  BY <1>0, <1>30 DEF CleanKey, CleanNext, CleanTick, CleanTo
<1>31. CASE RequestStop
  BY <1>0, <1>31 DEF RequestStop
<1>32. CASE Crash
  BY <1>0, <1>32 DEF Crash, Start, Max
<1>33. CASE ExitAndRestart
  BY <1>0, <1>33 DEF ExitAndRestart, Start, Max
<1> QED
  BY <1>1, <1>2, <1>3, <1>4, <1>5, <1>6, <1>7, <1>8, <1>9, <1>10, <1>11, <1>12,
     <1>13, <1>14, <1>15, <1>16, <1>17, <1>18, <1>19, <1>20, <1>21, <1>22,
     <1>23, <1>24, <1>25, <1>26, <1>27, <1>28, <1>29, <1>30, <1>31, <1>32,
     <1>33
     DEF Next, EventStep, VerifierStep

\* The steps of the end of the epoch.
LEMMA EndStep ==
    ASSUME IInv, Next, ~interrupted' PROVE EndInv'
<1> USE PipelineAssumption
    DEF db, ranges, cursors, otherCursors, disk, verifier, verifierData, deletion,
        fetcher, bounds, processFromTick, Ticks, SnapshotTicks, NoTick,
        TypeOK, PointInv, Working, Saving, Rescue, Ending, CursorInv, EndInv,
        NextFileIsRight, VirtualStored
<1>0. TypeOK /\ PointInv /\ MemoryInv /\ VerifiedInv /\ CursorInv /\ CutInv /\ EndInv
  BY InterruptedStays DEF IInv, Uninterrupted
<1>1. CASE AdvanceFetchingTick
  BY <1>0, <1>1 DEF AdvanceFetchingTick
<1>2. CASE \E t \in Ticks : processLogRanges(t)
  BY <1>0, <1>2 DEF processLogRanges
<1>3. CASE \E t \in Ticks : InsertTickLogRange(t)
  BY <1>0, <1>3 DEF InsertTickLogRange
<1>4. CASE \E t \in LogTicks, q \in LogValues : processLogEvent(t, q)
  BY <1>0, <1>4 DEF processLogEvent
<1>5. CASE EventBegin
  BY <1>0, <1>5 DEF EventBegin
<1>6. CASE EventBody
  BY <1>0, <1>6 DEF EventBody
<1>7. CASE EventUpdate
  BY <1>0, <1>7 DEF EventUpdate
<1>8. CASE LoadState
  BY <1>0, <1>8 DEF LoadState
<1>9. CASE TakeBatch
  BY <1>0, <1>9 DEF TakeBatch
<1>10. CASE SaveFiles
  BY <1>0, <1>10 DEF SaveFiles
<1>11. CASE SaveDb
  BY <1>0, <1>11 DEF SaveDb
<1>12. CASE SaveRemove
  BY <1>0, <1>12 DEF SaveRemove
<1>13. CASE SaveEndFiles
  BY <1>0, <1>13 DEF SaveEndFiles
<1>14. CASE Gather
  <2>1. CASE EndEpoch /\ gCurrentVerifyLoggingTick = LastTick
    <3>1. Before
      BY <1>0, <1>14 DEF Gather, MemoryInv
    <3>2. /\ VirtualStored
          /\ Batch \cap LogTicks = {LastTick}
          /\ Gathered = {LastTick}
          /\ Combined(Batch) = {LastTick}
          /\ processToTick = LastTick
      BY <1>14, <2>1, InterruptedStays, VirtualBatch DEF Gather
    <3>3. Apply /\ UNCHANGED <<log_ranges, logs>>
      BY <1>14, <3>2 DEF Gather
    <3>4. state'.upto = LastTick /\ (logs[LastTick] = "good" => state'.ok)
      BY <3>1, <3>2, <3>3 DEF Apply, Before
    <3> QED
      BY <1>0, <1>14, <2>1, <3>2, <3>3, <3>4 DEF Gather, Apply
  <2>2. CASE EndEpoch /\ processToTick < LastTick
    BY <1>0, <1>14, <2>2, RealBatch DEF Gather, Apply, CursorInv
  <2> QED
    BY <1>0, <1>14, <2>1, <2>2 DEF Gather, Apply, CutInv
<1>15. CASE DeleteKey
  BY <1>0, <1>15 DEF DeleteKey
<1>16. CASE RescueRanges
  BY <1>0, <1>16 DEF RescueRanges
<1>17. CASE RescueDelete
  BY <1>0, <1>17 DEF RescueDelete
<1>18. CASE RescueLogs
  <2>1. EndEpoch => LastTick \notin Gathered
    BY <1>0, <1>18, RealBatch DEF RescueLogs, CutInv
  <2> QED
    BY <1>0, <1>18, <2>1 DEF RescueLogs, Apply
<1>19. CASE DigestsMatch
  BY <1>0, <1>19 DEF DigestsMatch
<1>20. CASE Advance
  BY <1>0, <1>20 DEF Advance
<1>21. CASE DigestsDiffer
  BY <1>0, <1>21 DEF DigestsDiffer
<1>22. CASE DeleteMalformed
  BY <1>0, <1>22 DEF DeleteMalformed
<1>23. CASE SetBackEventTick
  BY <1>0, <1>23 DEF SetBackEventTick
<1>24. CASE EndFile
  BY <1>0, <1>24 DEF EndFile
<1>25. CASE EndRename \/ EndRenameRanges
  BY <1>0, <1>25 DEF EndRename, EndRenameRanges
<1>26. CASE EndMark \/ EndReset
  BY <1>0, <1>26 DEF EndMark, EndReset, VerifiedInv
<1>27. CASE StopVerifier
  BY <1>0, <1>27 DEF StopVerifier
<1>28. CASE IndexTick
  BY <1>0, <1>28 DEF IndexTick
<1>29. CASE IndexerEnds
  BY <1>0, <1>29 DEF IndexerEnds
<1>30. CASE CleanKey \/ CleanNext
  <2>1. EndEpoch => CleanTick # LastTick
    BY <1>0, <1>30 DEF CleanKey, CleanNext, CleanTick, CleanTo, CursorInv
  <2>2. EndEpoch /\ VirtualStored => VirtualStored'
    BY <1>0, <1>30, <2>1 DEF CleanKey, CleanNext, VirtualStored
  <2>3. EndEpoch => logs'[LastTick] = logs[LastTick]
    BY <1>0, <1>30, <2>1 DEF CleanKey, CleanNext
  <2> HIDE DEF VirtualStored
  <2> QED
    <3>1. CASE EndEpoch /\ CleanKey
      BY <1>0, <2>2, <2>3, <3>1 DEF CleanKey, CursorInv
    <3>2. CASE EndEpoch /\ CleanNext
      BY <1>0, <2>2, <2>3, <3>2 DEF CleanNext, CursorInv
    <3>3. CASE ~EndEpoch
      BY <1>0, <1>30, <3>3 DEF CleanKey, CleanNext, CursorInv
    <3> QED
      BY <1>30, <3>1, <3>2, <3>3
<1>31. CASE RequestStop
  BY <1>0, <1>31 DEF RequestStop
<1>32. CASE Crash
  BY <1>0, <1>32 DEF Crash, Start, Max
<1>33. CASE ExitAndRestart
  BY <1>0, <1>33 DEF ExitAndRestart, Start, Max
<1> QED
  BY <1>1, <1>2, <1>3, <1>4, <1>5, <1>6, <1>7, <1>8, <1>9, <1>10, <1>11, <1>12,
     <1>13, <1>14, <1>15, <1>16, <1>17, <1>18, <1>19, <1>20, <1>21, <1>22,
     <1>23, <1>24, <1>25, <1>26, <1>27, <1>28, <1>29, <1>30, <1>31, <1>32,
     <1>33
     DEF Next, EventStep, VerifierStep

-----------------------------------------------------------------------------
(* The theorems *)

LEMMA InitIInv ==
    ASSUME Init PROVE IInv
<1> USE PipelineAssumption
<1>1. TypeOK
  BY TypeOKInit
<1>2. PointInv /\ MemoryInv /\ RecordInv /\ SnapshotInv
  BY DEF Init, PointInv, MemoryInv, RecordInv, SnapshotInv, Working, Saving, Rescue, NoTick
<1>3. VerifiedInv
  BY DEF Init, VerifiedInv, Ticks, NoTick
<1>4. VirtualInv /\ CutInv
  BY DEF Init, VirtualInv, CutInv, Working, Saving, Rescue, NoTick
<1>5. CursorInv /\ EndInv
  BY DEF Init, CursorInv, EndInv, Saving, Ending, NoTick
<1> QED
  BY <1>1, <1>2, <1>3, <1>4, <1>5 DEF IInv, Uninterrupted

\* Every value a cursor, record, file or thread variable takes has its type:
\* no batch, snapshot or cursor leaves the epoch's ticks, wherever the process
\* crashed and however often the fetching of logs was set back.
THEOREM TypeCorrect == Spec => []TypeOK
<1>1. Init => TypeOK /\ PointInv
  BY InitIInv DEF IInv
<1>2. TypeOK /\ PointInv /\ [Next]_vars => (TypeOK /\ PointInv)'
  <2>1. ASSUME TypeOK, PointInv, Next PROVE (TypeOK /\ PointInv)'
    BY <2>1, TypeOKStep, PointStep
  <2>2. ASSUME TypeOK, PointInv, UNCHANGED vars PROVE (TypeOK /\ PointInv)'
    BY <2>2 DEF TypeOK, PointInv, vars, db, ranges, cursors, otherCursors, disk, verifier,
                verifierData, deletion, fetcher, bounds
  <2> QED
    BY <2>1, <2>2
<1> QED
  BY <1>1, <1>2, PTL DEF Spec

\* The inductive invariant.
THEOREM Invariance == Spec => []IInv
<1>1. Init => IInv
  BY InitIInv
<1>2. IInv /\ [Next]_vars => IInv'
  <2>1. ASSUME IInv, Next PROVE IInv'
    <3>1. TypeOK /\ PointInv
      BY <2>1 DEF IInv
    <3>2. TypeOK' /\ PointInv' /\ MemoryInv' /\ RecordInv' /\ SnapshotInv' /\ CursorInv'
      BY <2>1, <3>1, TypeOKStep, PointStep, MemoryStep, RecordStep, SnapshotStep, CursorStep
    <3>3. interrupted' \/ Uninterrupted'
      BY <2>1, VerifiedStep, VirtualStep, CutStep, EndStep DEF Uninterrupted
    <3> QED
      BY <3>2, <3>3 DEF IInv
  <2>2. ASSUME IInv, UNCHANGED vars PROVE IInv'
    <3> USE <2>2 DEF vars, db, ranges, cursors, otherCursors, disk, verifier,
                     verifierData, deletion, fetcher, bounds
    <3>1. TypeOK' /\ PointInv'
      BY DEF IInv, TypeOK, PointInv
    <3>2. MemoryInv' /\ RecordInv' /\ SnapshotInv' /\ CursorInv'
      BY DEF IInv, MemoryInv, Before, After, Batch, processFromTick, RecordInv,
             SnapshotInv, CursorInv
    <3>3. ASSUME Uninterrupted PROVE VerifiedInv' /\ VirtualInv' /\ CutInv'
      BY <3>3 DEF Uninterrupted, VerifiedInv, VirtualInv, VirtualStored, EndRecorded,
                  CutInv, VirtualSpared
    <3>4. ASSUME Uninterrupted PROVE EndInv'
      BY <3>4 DEF Uninterrupted, EndInv, VirtualStored, NextFileIsRight
    <3>5. interrupted' \/ Uninterrupted'
      BY <3>3, <3>4 DEF IInv, Uninterrupted
    <3> QED
      BY <3>1, <3>2, <3>5 DEF IInv
  <2> QED
    BY <2>1, <2>2
<1> QED
  BY <1>1, <1>2, PTL DEF Spec

\* The state verifyLoggingEvent continues with, also the one it loads after a
\* crash anywhere, is the network's state just before its cursor.
THEOREM ReplayCorrect == Spec => []ReplayedStateIsVerified
<1>1. IInv => ReplayedStateIsVerified
  BY DEF IInv, MemoryInv, Before, ReplayedStateIsVerified
<1> QED
  BY <1>1, Invariance, PTL

\* Up to the virtual tick indexVerifiedTicks never indexes a tick whose state did
\* not match the votes.
THEOREM IndexingCorrect ==
    ASSUME ~EndEpoch PROVE Spec => []IndexedTicksAreVerified
<1>1. IInv => IndexedTicksAreVerified
  BY DEF IInv, CursorInv, Uninterrupted, VerifiedInv, IndexedTicksAreVerified
<1> QED
  BY <1>1, Invariance, PTL

\* With the virtual tick it does so as long as the end of the epoch was not
\* interrupted.
THEOREM IndexingCorrectToTheEnd == Spec => [](~interrupted => IndexedTicksAreVerified)
<1>1. IInv => (~interrupted => IndexedTicksAreVerified)
  BY DEF IInv, Uninterrupted, VerifiedInv, IndexedTicksAreVerified
<1> QED
  BY <1>1, Invariance, PTL

\* When end_epoch_tick is in the DB and the end was not interrupted (by a crash
\* at one of three points, or by an event thread that outlived a misalignment),
\* all real ticks were verified and the files of the next epoch hold the state
\* after the virtual tick.  Every other crash is covered.
THEOREM EndCorrect == Spec => []EndedEpochIsComplete
<1>1. IInv => EndedEpochIsComplete
  BY DEF IInv, Uninterrupted, EndInv, NextFileIsRight, EndedEpochIsComplete
<1> QED
  BY <1>1, Invariance, PTL

\* The indexer stops the process only when it has indexed the last real tick,
\* with the same exception.
THEOREM IndexerEndCorrect == Spec => []IndexerEndsComplete
<1>1. IInv => IndexerEndsComplete
  BY DEF IInv, Uninterrupted, EndInv, IndexerEndsComplete
<1> QED
  BY <1>1, Invariance, PTL

\* Up to the virtual tick every crash leaves a snapshot to start from: the one
\* the DB names is there and right between any two writes of saveState.
THEOREM RecoveryCorrect ==
    ASSUME ~EndEpoch PROVE Spec => []SnapshotIsRecoverable
<1>1. IInv => SnapshotIsRecoverable
  BY DEF IInv, SnapshotInv, SnapshotIsRecoverable
<1> QED
  BY <1>1, Invariance, PTL

\* At the end of the epoch saveState may remove the snapshot the DB names (the
\* run pipeline_snapshot shows it), but never leaves a wrong one: a restart
\* finds the verified state of its tick or stops.
THEOREM SnapshotNeverWrong ==
    Spec => [](latest_verified_tick >= gInitialTick =>
                 snapshot[latest_verified_tick] \in
                    {[upto |-> latest_verified_tick, ok |-> TRUE], NoState})
<1>1. IInv => (latest_verified_tick >= gInitialTick =>
                 snapshot[latest_verified_tick] \in
                    {[upto |-> latest_verified_tick, ok |-> TRUE], NoState})
  BY DEF IInv, SnapshotInv
<1> QED
  BY <1>1, Invariance, PTL

=============================================================================
