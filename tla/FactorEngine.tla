---------------------------- MODULE FactorEngine ----------------------------
(* FactorCalculationEngine with its threads: the main thread turns records   *)
(* and time points into work for the calculation threads (OnQuote, OnTrans,  *)
(* OnOrder, OnTimer), each calculation thread computes and writes its part   *)
(* of a send batch, the scan thread collects finished batches, and Stop      *)
(* winds everything up and saves the rows.                                   *)
(*                                                                           *)
(* A factor value is represented by the number of records its thread had     *)
(* consumed when it was computed.  A thread's input (its ReaderWriterQueue,  *)
(* or its view of the broadcast buffer) is the sequence of items it has yet  *)
(* to take; module BroadcastBuffer shows the buffer is one.                  *)
EXTENDS Naturals, Sequences, FiniteSets, SequencesExt

CONSTANTS
    TsThreads, CsThreads,  \* time-series and cross-sectional threads
    SendPoints,            \* send_time_points_vector_
    ComputePoints,         \* per thread: when its factor set is computed
    GlobalPoints,          \* points that only call OnGlobalTime
    SaveTimes,             \* save_times_
    SkipMissed,            \* skip_missed_time_triggers_
    SplitFiles,            \* save_by_split_timestamp_
    ShanghaiOpen,          \* 92500000: up to it only Shenzhen rows are valid
    SzCodes, ShCodes,      \* numbers of Shenzhen and of Shanghai codes
    ResultRoom,            \* items a result queue holds
    MaxTime, MaxRecords    \* bounds of the exploration: times and records

Threads == TsThreads \union CsThreads
Batches == 1 .. Cardinality(SendPoints)
TimePoints == SendPoints \union GlobalPoints \union UNION {ComputePoints[w] : w \in Threads}

ASSUME EngineAssumption ==
    /\ IsFiniteSet(Threads) /\ Threads # {} /\ TsThreads \intersect CsThreads = {}
    /\ SendPoints \subseteq Nat /\ SendPoints # {} /\ IsFiniteSet(SendPoints)
    /\ ComputePoints \in [Threads -> SUBSET Nat] /\ GlobalPoints \subseteq Nat
    \* InitConfig drops what lies beyond the last send point
    /\ \A p \in TimePoints : \E s \in SendPoints : p <= s
    /\ SkipMissed \in BOOLEAN /\ SplitFiles \in BOOLEAN
    /\ SzCodes \in Nat /\ ShCodes \in Nat /\ ResultRoom \in Nat \ {0}
    /\ MaxTime \in Nat /\ MaxRecords \in Nat

\* A finite set of numbers, sorted.
Ascending(S) ==
    [i \in 1 .. Cardinality(S) |-> CHOOSE x \in S : Cardinality({y \in S : y < x}) = i - 1]

\* send_time_points_vector_ and all_time_points_vector_, both sorted.
SendVector == Ascending(SendPoints)
AllVector  == Ascending(TimePoints)
NumSends   == Len(SendVector)
BatchOf(p) == CHOOSE b \in Batches : SendVector[b] = p

\* valid_row_num of a batch: its rows are the first codes of asset_codes_,
\* which lists Shenzhen before Shanghai.
ValidRows(b) == IF SendVector[b] <= ShanghaiOpen THEN SzCodes ELSE SzCodes + ShCodes

NoBatch == 0
Unwritten == MaxRecords + 1        \* a part of a batch nobody has written

VARIABLES
    mpc,         \* where the main thread is
    record,      \* the record it is handling
    arrived,     \* history: the records handled, in order
    sendIdx,     \* send_time_point_idx_ (from 1)
    timeIdx,     \* all_time_point_idx_ (from 1)
    threshold,   \* send_time_point_threshold of this OnTimer
    sent,        \* history: the batches triggered, in order
    stopFlag,    \* stop_flag_ of the calculation threads
    scanStop,    \* stop_flag_ of the scan thread
    input,       \* per thread: the items it has yet to take
    wpc,         \* where each calculation thread is
    seen,        \* records a thread has consumed
    computed,    \* the value of its last computation
    batch,       \* the batch a thread is about to write and announce
    cache,       \* result_cache_: each thread's part of each batch
    results,     \* per thread: its result queue
    spc,         \* where the scan thread is
    cursor,      \* the queue the scan thread looks at next
    counters,    \* counters_
    resultData,  \* result_data_: the rows kept for saving
    kept,        \* saved_to_cache of each batch, in the order they were kept
    saveIdx,     \* the save loop's i
    pos,         \* the save loop's pos
    files        \* what has been written, per send point

mainVars == <<mpc, record, arrived, sendIdx, timeIdx, threshold, sent>>
stopVars == <<stopFlag, scanStop>>
workVars == <<wpc, seen, computed, batch, cache>>
scanVars == <<spc, cursor, counters, resultData, kept>>
saveVars == <<saveIdx, pos, files>>
vars == <<mainVars, stopVars, input, workVars, results, scanVars, saveVars>>

\* The order in which the scan thread visits the queues.
QueueOrder == SetToSeq(TsThreads) \o SetToSeq(CsThreads)

Outsider == "outsider"             \* a code the engine does not follow
Groups == (IF TsThreads = {} THEN {"followed"} ELSE TsThreads) \union {Outsider}
NoRecord == [time |-> 0, group |-> Outsider]
Data == [kind |-> "data"]

Init ==
    /\ mpc = "idle" /\ record = NoRecord /\ arrived = <<>>
    /\ sendIdx = 1 /\ timeIdx = 1 /\ threshold = 0 /\ sent = <<>>
    /\ stopFlag = FALSE /\ scanStop = FALSE
    /\ input = [w \in Threads |-> <<>>]
    /\ wpc = [w \in Threads |-> "idle"]
    /\ seen = [w \in Threads |-> 0] /\ computed = [w \in Threads |-> 0]
    /\ batch = [w \in Threads |-> NoBatch]
    /\ cache = [b \in Batches |-> [w \in Threads |-> Unwritten]]
    /\ results = [w \in Threads |-> <<>>]
    /\ spc = "scan" /\ cursor = 1
    /\ counters = [b \in Batches |-> 0]
    /\ resultData = <<>> /\ kept = <<>>
    /\ saveIdx = 1 /\ pos = 0
    /\ files = [p \in SendPoints |-> <<>>]

-----------------------------------------------------------------------------
(* The main thread: records and time points.                                 *)

\* The latest send point that time t has reached.
LastDue(t) == CHOOSE b \in Batches :
                  /\ SendVector[b] <= t
                  /\ b = NumSends \/ SendVector[b + 1] > t

\* Bug to detect: skipping is forgotten in the threshold.
ThresholdIgnoringSkip(t) == SendVector[sendIdx]

\* Send points below the threshold are computed but not sent.
ThresholdFor(t) ==
    IF SkipMissed /\ t >= SendVector[sendIdx]
      THEN SendVector[LastDue(t)]
      ELSE SendVector[sendIdx]

\* OnQuote, OnTrans or OnOrder is called; the first half of OnTimer advances
\* the send index past everything due and sets the threshold.  (A call made
\* after the last send point would stop; the one that got there did already.)
Arrive(t, g) ==
    /\ mpc = "idle" /\ Len(arrived) < MaxRecords
    /\ record' = [time |-> t, group |-> g]
    /\ arrived' = Append(arrived, record')
    /\ threshold' = ThresholdFor(t)
    /\ sendIdx' = IF t >= SendVector[sendIdx] THEN LastDue(t) + 1 ELSE sendIdx
    /\ mpc' = "timer"
    /\ UNCHANGED <<timeIdx, sent, stopVars, input, workVars, results, scanVars, saveVars>>

\* Bug to detect: a record stamped with the very time point overtakes it.
PointDueStrict == timeIdx <= Len(AllVector) /\ record.time > AllVector[timeIdx]

PointDue == timeIdx <= Len(AllVector) /\ record.time >= AllVector[timeIdx]

\* The second half of OnTimer: one time point goes to every thread.  The main
\* thread enqueues it thread by thread; a thread it reaches later differs in
\* nothing from one that looks later, so one step stands for all.
EmitTimePoint ==
    /\ mpc = "timer" /\ PointDue
    /\ LET p == AllVector[timeIdx]
           b == IF p \in SendPoints /\ p >= threshold THEN BatchOf(p) ELSE NoBatch
       IN /\ input' = [w \in Threads |-> Append(input[w], [kind |-> "time", at |-> p, send |-> b])]
          /\ sent' = IF b = NoBatch THEN sent ELSE Append(sent, b)
    /\ timeIdx' = timeIdx + 1
    /\ UNCHANGED <<mpc, record, arrived, sendIdx, threshold, stopVars, workVars, results,
                   scanVars, saveVars>>

\* A record goes to the time-series thread of its code and to every
\* cross-sectional thread.
RoutedTo(r, w) == r.group # Outsider /\ (r.group = w \/ w \in CsThreads)

DispatchRecord ==
    /\ mpc = "timer" /\ ~ PointDue /\ sendIdx <= NumSends
    /\ input' = [w \in Threads |-> IF RoutedTo(record, w) THEN Append(input[w], Data) ELSE input[w]]
    /\ mpc' = "idle"
    /\ UNCHANGED <<record, arrived, sendIdx, timeIdx, threshold, sent, stopVars, workVars,
                   results, scanVars, saveVars>>

\* The last send point has been emitted: the record is dropped and Stop called.
LastPointReached ==
    /\ mpc = "timer" /\ ~ PointDue /\ sendIdx > NumSends
    /\ mpc' = "stop"
    /\ UNCHANGED <<record, arrived, sendIdx, timeIdx, threshold, sent, stopVars, input, workVars,
                   results, scanVars, saveVars>>

\* DistributeData runs out of records and main calls Stop.
FeedEnds ==
    /\ mpc = "idle"
    /\ mpc' = "stop"
    /\ UNCHANGED <<record, arrived, sendIdx, timeIdx, threshold, sent, stopVars, input, workVars,
                   results, scanVars, saveVars>>

-----------------------------------------------------------------------------
(* A calculation thread: CalcFunc.                                           *)

TakeRecord(w) ==
    /\ wpc[w] = "idle" /\ input[w] # <<>> /\ Head(input[w]).kind = "data"
    /\ input' = [input EXCEPT ![w] = Tail(@)]
    /\ seen' = [seen EXCEPT ![w] = @ + 1]
    /\ UNCHANGED <<mainVars, stopVars, wpc, computed, batch, cache, results, scanVars, saveVars>>

TakeTimePoint(w) ==
    /\ wpc[w] = "idle" /\ input[w] # <<>> /\ Head(input[w]).kind = "time"
    /\ LET point == Head(input[w])
       IN /\ computed' = IF point.at \in ComputePoints[w]
                           THEN [computed EXCEPT ![w] = seen[w]] ELSE computed
          /\ batch' = [batch EXCEPT ![w] = point.send]
          /\ wpc' = [wpc EXCEPT ![w] = IF point.send = NoBatch THEN "idle" ELSE "write"]
    /\ input' = [input EXCEPT ![w] = Tail(@)]
    /\ UNCHANGED <<mainVars, stopVars, seen, cache, results, scanVars, saveVars>>

\* A thread writes its own columns (time-series: of its own rows).
WriteRows(w) ==
    /\ wpc[w] = "write"
    /\ cache' = [cache EXCEPT ![batch[w]][w] = computed[w]]
    /\ wpc' = [wpc EXCEPT ![w] = "notify"]
    /\ UNCHANGED <<mainVars, stopVars, input, seen, computed, batch, results, scanVars, saveVars>>

\* The thread spins on Push until its result queue has room.
Notify(w) ==
    /\ wpc[w] = "notify" /\ Len(results[w]) < ResultRoom
    /\ results' = [results EXCEPT ![w] = Append(@, batch[w])]
    /\ batch' = [batch EXCEPT ![w] = NoBatch]
    /\ wpc' = [wpc EXCEPT ![w] = "idle"]
    /\ UNCHANGED <<mainVars, stopVars, input, seen, computed, cache, scanVars, saveVars>>

Exit(w) ==
    /\ wpc[w] = "idle" /\ stopFlag /\ input[w] = <<>>
    /\ wpc' = [wpc EXCEPT ![w] = "exited"]
    /\ UNCHANGED <<mainVars, stopVars, input, seen, computed, batch, cache, results, scanVars, saveVars>>

-----------------------------------------------------------------------------
(* The scan thread: ScanFunc, CollectAndSend, SendData.                      *)

\* Bug to detect: one thread's part is not waited for.
LastOneInEarly(b) == counters[b] + 2 = Len(QueueOrder)

\* Is the notice being taken the last one missing for the batch?
LastOneIn(b) == counters[b] + 1 = Len(QueueOrder)

RowsOf(b) == [i \in 1 .. ValidRows(b) |-> [batch |-> b, code |-> i, values |-> cache[b]]]

CollectOne ==
    /\ spc = "scan" /\ cursor <= Len(QueueOrder)
    /\ LET q == QueueOrder[cursor]
       IN IF results[q] = <<>>
            THEN UNCHANGED <<results, counters, resultData, kept>>
            ELSE LET b == Head(results[q])
                 IN /\ results' = [results EXCEPT ![q] = Tail(@)]
                    /\ counters' = [counters EXCEPT ![b] = @ + 1]
                    /\ IF LastOneIn(b)
                         THEN resultData' = resultData \o RowsOf(b) /\ kept' = Append(kept, b)
                         ELSE UNCHANGED <<resultData, kept>>
    /\ cursor' = cursor + 1
    /\ UNCHANGED <<mainVars, stopVars, input, workVars, spc, saveVars>>

\* Bug to detect: the scan thread waits for batches that are never triggered.
MayEndWithAll == scanStop /\ Len(kept) = NumSends

MayEnd == scanStop /\ \A w \in Threads : results[w] = <<>>

EndPass ==
    /\ spc = "scan" /\ cursor > Len(QueueOrder)
    /\ IF MayEnd THEN spc' = "exited" /\ UNCHANGED cursor
                 ELSE cursor' = 1 /\ UNCHANGED spc
    /\ UNCHANGED <<mainVars, stopVars, input, workVars, results, counters, resultData, kept, saveVars>>

-----------------------------------------------------------------------------
(* Stop: the calculation threads first, then the scan thread, then the rows  *)
(* are saved.                                                                *)

StopThreads ==
    /\ mpc = "stop"
    /\ stopFlag' = TRUE
    /\ mpc' = "join"
    /\ UNCHANGED <<record, arrived, sendIdx, timeIdx, threshold, sent, scanStop, input, workVars,
                   results, scanVars, saveVars>>

\* Bug to detect: the scan thread is stopped when the inputs are drained.
ThreadsDrained == \A w \in Threads : input[w] = <<>>

ThreadsDone == \A w \in Threads : wpc[w] = "exited"

JoinThreads ==
    /\ mpc = "join" /\ ThreadsDone
    /\ scanStop' = TRUE
    /\ mpc' = "joinScan"
    /\ UNCHANGED <<record, arrived, sendIdx, timeIdx, threshold, sent, stopFlag, input, workVars,
                   results, scanVars, saveVars>>

JoinScan ==
    /\ mpc = "joinScan" /\ spc = "exited"
    /\ mpc' = "save"
    /\ UNCHANGED <<record, arrived, sendIdx, timeIdx, threshold, sent, stopVars, input, workVars,
                   results, scanVars, saveVars>>

WasKept(b) == \E k \in 1 .. Len(kept) : kept[k] = b

\* Bug to detect: only the rows of saved batches are counted.
RowsPassedWhenSaved(b) == IF WasKept(b) /\ SendVector[b] \in SaveTimes THEN ValidRows(b) ELSE 0

\* How far a batch moves pos, whether it is saved or passed over.
RowsPassed(b) == IF WasKept(b) THEN ValidRows(b) ELSE 0

\* resultData_->at(pos + i) of a batch; NoRow stands for its exception.
NoRow == [batch |-> NoBatch]
RowsAt(b) == [i \in 1 .. ValidRows(b) |->
                 IF pos + i <= Len(resultData) THEN resultData[pos + i] ELSE NoRow]

\* One turn of the save loop.  written is FALSE when a split file cannot be
\* created, closed or committed: its rows are passed over.
SaveBatch(written) ==
    /\ mpc = "save" /\ saveIdx <= NumSends
    /\ SplitFiles \/ written
    /\ LET b == saveIdx
           p == SendVector[b]
       IN /\ files' = IF WasKept(b) /\ p \in SaveTimes /\ written
                        THEN [files EXCEPT ![p] = RowsAt(b)] ELSE files
          /\ pos' = pos + RowsPassed(b)
    /\ saveIdx' = saveIdx + 1
    /\ UNCHANGED <<mainVars, stopVars, input, workVars, results, scanVars>>

\* The single file is committed by a rename; until then nothing is visible,
\* and if it cannot be created, closed or renamed nothing ever is.
FinishSave(committed) ==
    /\ mpc = "save" /\ saveIdx > NumSends
    /\ SplitFiles => committed
    /\ files' = IF committed THEN files ELSE [p \in SendPoints |-> <<>>]
    /\ mpc' = "done"
    /\ UNCHANGED <<record, arrived, sendIdx, timeIdx, threshold, sent, stopVars, input, workVars,
                   results, scanVars, saveIdx, pos>>

Main ==
    \/ \E t \in 0 .. MaxTime, g \in Groups : Arrive(t, g)
    \/ EmitTimePoint \/ DispatchRecord \/ LastPointReached \/ FeedEnds
    \/ StopThreads \/ JoinThreads \/ JoinScan
    \/ \E ok \in BOOLEAN : SaveBatch(ok) \/ FinishSave(ok)
Calc(w) == TakeRecord(w) \/ TakeTimePoint(w) \/ WriteRows(w) \/ Notify(w) \/ Exit(w)
Scan == CollectOne \/ EndPass

Next == Main \/ Scan \/ \E w \in Threads : Calc(w)

Spec == Init /\ [][Next]_vars

\* Every thread is scheduled; nothing is assumed of the feed but that it ends.
FairSpec == Spec /\ WF_vars(Main) /\ WF_vars(Scan) /\ \A w \in Threads : WF_vars(Calc(w))

-----------------------------------------------------------------------------
(* No look-ahead and nothing left out: what a thread writes into a batch was *)
(* computed from exactly the records routed to it before the first record    *)
(* that reached the compute point in force, however far the main thread had  *)
(* run ahead and in whatever order the times came (OnTimer before enqueue,   *)
(* factor_calculation_engine.cc:530-697; CalcFunc).                          *)
RecordsBefore(w, p) ==
    {i \in DOMAIN arrived : RoutedTo(arrived[i], w) /\ \A j \in 1 .. i : arrived[j].time < p}
ComputePointFor(w, b) == {p \in ComputePoints[w] : p <= SendVector[b]}
SnapshotExact ==
    \A b \in Batches, w \in Threads :
        cache[b][w] # Unwritten =>
            cache[b][w] = IF ComputePointFor(w, b) = {} THEN 0
                          ELSE Cardinality(RecordsBefore(w, Max(ComputePointFor(w, b))))

(* Between two records, the batches triggered are those the configuration    *)
(* asks for: every send point reached, or with skip_missed_time_triggers     *)
(* only the latest of those a single record made due; each once, ascending.  *)
NewlyDue(i) == {b \in Batches : /\ SendVector[b] <= arrived[i].time
                                /\ \A j \in 1 .. i - 1 : arrived[j].time < SendVector[b]}
Configured ==
    UNION {IF SkipMissed /\ NewlyDue(i) # {} THEN {Max(NewlyDue(i))} ELSE NewlyDue(i) :
               i \in DOMAIN arrived}
SendsAsConfigured == mpc # "timer" => sent = Ascending(Configured)

(* A batch is kept only when every thread has written its part, and no part  *)
(* changes afterwards: the rows copied out of result_cache_ without a lock   *)
(* are the rows the threads finished (SendData).                             *)
KeptComplete ==
    \A k \in DOMAIN resultData :
        LET row == resultData[k]
        IN row.values = cache[row.batch] /\ \A w \in Threads : row.values[w] # Unwritten

(* Whatever was skipped, not sent, not to be saved or failed to be written,  *)
(* the rows found under a send point are its own: all of them, in the order  *)
(* of the code list saved beside them (SaveResultsToH5...: pos walks         *)
(* result_data_ in step with the send points).                               *)
SavedRowsMatch ==
    \A b \in Batches :
        LET rows == files[SendVector[b]]
        IN rows # <<>> => rows = RowsOf(b)

(* The stop protocol loses no batch: it drains the inputs, then the result   *)
(* queues, and keeps the batches in the order they were triggered, on which  *)
(* the save loop relies.                                                     *)
Stream == INSTANCE BatchStream WITH
              triggered <- sent,
              recorded  <- kept,
              closed    <- mpc \in {"save", "done"}
ImplementsBatchStream == Stream!Spec

(* Stop returns: no thread waits for another that has already left, also     *)
(* with result queues that are full and batches that were never triggered.   *)
StopCompletes == mpc = "stop" ~> mpc = "done"
=============================================================================
