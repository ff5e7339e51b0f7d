--------------------------- MODULE HoldoutDisplay ---------------------------
(* campaigns/sfm_stream_002/holdout.py: submit hands the chunks of the       *)
(* holdout dates to the cluster in lanes of afterok dependencies and, after  *)
(* the last job of every lane, a job that reads all the files (finish).  It  *)
(* takes no lock and looks for no earlier submission: its receipt is written *)
(* when everything is submitted, and when a run of it dies before that, the  *)
(* next run submits every chunk again.  run_chunk goes by what is there: it  *)
(* starts the binary for a date only when the date has no file.              *)
(*                                                                           *)
(* No run of submit sees what another one, or a job, has done.  So the runs  *)
(* are taken here one after the other, and the jobs go on when they are      *)
(* over: a job that is submitted later is one that stays queued longer.      *)
EXTENDS FactorFile, FiniteSetsExt, Functions

CONSTANTS
    DisplayChunks,  \* number of chunks
    DisplayLanes,   \* number of lanes (16)
    DatesInChunk,   \* dates of a chunk (5)
    MaxSubmits,     \* bound on the runs of submit
    MaxKilled       \* bound on the jobs that die and on the files that are not whole

ASSUME DisplayAssumption ==
    /\ DisplayChunks \in Nat \ {0} /\ DisplayLanes \in Nat \ {0}
    /\ DatesInChunk \in Nat \ {0} /\ MaxSubmits \in Nat /\ MaxKilled \in Nat

VARIABLES
    submit,   \* the runs of submit: [at, next, lanes], lanes the last job of each
    queue,    \* the jobs the cluster accepted: [chunk, deps]; chunk 0 is finish
    work,     \* work[k]: where job k is, and at which of its dates
    killed    \* counter of the bound

displayVars == <<submit, queue, work, killed, fileVars>>

HoldoutDates == 1..(DisplayChunks * DatesInChunk)
WorkDate(k) == (queue[k].chunk - 1) * DatesInChunk + work[k].date
Lane(c) == ((c - 1) % DisplayLanes) + 1

InitDisplay ==
    /\ submit = <<>> /\ queue = <<>> /\ work = <<>> /\ killed = 0
    /\ InitFiles(HoldoutDates)

SubmitsOver == \A n \in DOMAIN submit : submit[n].at = "over"

BeginSubmit ==
    /\ Len(submit) < MaxSubmits /\ SubmitsOver
    /\ \A k \in DOMAIN work : work[k].stage = "queued"
    /\ submit' = Append(submit, [at |-> "chunks", next |-> 1,
                                 lanes |-> [l \in 1..DisplayLanes |-> 0]])
    /\ UNCHANGED <<queue, work, killed, fileVars>>

Sbatch(chunk, deps) ==
    /\ queue' = Append(queue, [chunk |-> chunk, deps |-> deps \ {0}])
    /\ work' = Append(work, [stage |-> "queued", date |-> 1])
    /\ file' = Append(file, "none")
    /\ UNCHANGED <<temp, target, killed>>

SubmitChunk(n) ==
    /\ submit[n].at = "chunks" /\ submit[n].next <= DisplayChunks
    /\ LET c == submit[n].next
       IN  /\ Sbatch(c, {submit[n].lanes[Lane(c)]})
           /\ submit' = [submit EXCEPT ![n].next = c + 1,
                           ![n].lanes[Lane(c)] = Len(queue')]

\* Bug to detect: the jobs after the last one of the chunk list are forgotten.
AfterLastJob(n) == {Max(Range(submit[n].lanes))}

\* finish waits for the last job of every lane.
AfterEveryLane(n) == {submit[n].lanes[l] : l \in 1..DisplayLanes}

SubmitFinish(n) ==
    /\ submit[n].at = "chunks" /\ submit[n].next > DisplayChunks
    /\ Sbatch(0, AfterEveryLane(n))
    /\ submit' = [submit EXCEPT ![n].at = "over"]

\* sbatch is refused, or the process dies.
Abandon(n) ==
    /\ submit[n].at = "chunks"
    /\ submit' = [submit EXCEPT ![n].at = "over"]
    /\ UNCHANGED <<queue, work, killed, fileVars>>

WorksAt(k, stage) == work[k].stage = stage
WorkTo(k, stage) == work' = [work EXCEPT ![k].stage = stage]

\* afterok: the job starts when all it waits for have succeeded.
StartJob(k) ==
    /\ SubmitsOver /\ WorksAt(k, "queued")
    /\ \A j \in queue[k].deps : WorksAt(j, "ok")
    /\ WorkTo(k, IF queue[k].chunk = 0 THEN "reading" ELSE "looking")
    /\ UNCHANGED <<submit, queue, killed, fileVars>>

\* A date that has a file is not made again.
LookForTarget(k) ==
    /\ WorksAt(k, "looking")
    /\ WorkTo(k, IF target[WorkDate(k)] # NoFile THEN "validating" ELSE "building")
    /\ UNCHANGED <<submit, queue, killed, fileVars>>

Build(k) ==
    /\ UNCHANGED <<submit, queue, killed>>
    /\ LET d == WorkDate(k)
       IN  \/ WorksAt(k, "building") /\ CreateFile(k, d) /\ WorkTo(k, "writing")
           \/ WorksAt(k, "writing") /\ CloseFile(k, d, "whole") /\ WorkTo(k, "closed")
           \/ WorksAt(k, "closed") /\ CommitFile(d) /\ WorkTo(k, "validating")

\* The save goes on when a dataset cannot be written, and commits what the
\* validation refuses; or H5Fclose fails and nothing is renamed.
BuildFails(k) ==
    /\ WorksAt(k, "writing") /\ killed < MaxKilled /\ killed' = killed + 1
    /\ \/ CloseFile(k, WorkDate(k), "invalid") /\ WorkTo(k, "closed")
       \/ CloseFileFails(WorkDate(k)) /\ WorkTo(k, "validating")
    /\ UNCHANGED <<submit, queue>>

\* validate_hdf5_only refuses a file that is not whole; then the next date.
ValidateTarget(k) ==
    /\ WorksAt(k, "validating")
    /\ work' = [work EXCEPT ![k] =
         IF target[WorkDate(k)].state # "whole" THEN [@ EXCEPT !.stage = "failed"]
         ELSE IF @.date < DatesInChunk THEN [stage |-> "looking", date |-> @.date + 1]
         ELSE [@ EXCEPT !.stage = "ok"]]
    /\ UNCHANGED <<submit, queue, killed, fileVars>>

Killed(k) ==
    /\ work[k].stage \notin {"queued", "reading", "ok", "failed"}
    /\ killed < MaxKilled /\ killed' = killed + 1
    /\ WorkTo(k, "failed")
    /\ UNCHANGED <<submit, queue, fileVars>>

NextDisplay ==
    \/ BeginSubmit
    \/ \E n \in DOMAIN submit : SubmitChunk(n) \/ SubmitFinish(n) \/ Abandon(n)
    \/ \E k \in DOMAIN queue :
          StartJob(k) \/ LookForTarget(k) \/ Build(k) \/ BuildFails(k)
          \/ ValidateTarget(k) \/ Killed(k)

SpecDisplay == InitDisplay /\ [][NextDisplay]_displayVars

-----------------------------------------------------------------------------
ChunkJobs(c) == {k \in DOMAIN queue : queue[k].chunk = c}

\* While finish reads, every holdout date has a closed file, and a whole one
\* unless a job of that chunk which has not succeeded, and which finish does
\* not wait for, has put its own file, which no validation accepts, in its
\* place.  There is such a job only when submit died and was run again while
\* its first jobs went on.  (With three jobs of one date, a third could even
\* rename a file that is still being written.)
DisplayFromWhole ==
    (\A c \in 1..DisplayChunks : Cardinality(ChunkJobs(c)) <= 2) =>
        \A k \in DOMAIN queue : WorksAt(k, "reading") =>
            \A c \in 1..DisplayChunks, n \in 1..DatesInChunk :
                LET seen == target[(c - 1) * DatesInChunk + n]
                IN  \/ seen.state = "whole"
                    \/ /\ seen.state = "invalid"
                       /\ seen.by \in ChunkJobs(c) /\ ~ WorksAt(seen.by, "ok")
=============================================================================
