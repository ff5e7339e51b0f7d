---------------------------- MODULE L4Production ----------------------------
(* A whole L4 production: submit_plan hands the chunks to the cluster, the   *)
(* cluster starts a chunk when the one before it in its lane has succeeded   *)
(* (--dependency=afterok), each job is run_chunk of                          *)
(* campaigns/l4_production.py, and run_chunk has the factor binary write one *)
(* HDF5 file per date (SaveResultsToH5CollectTimestamp).  Jobs and binaries  *)
(* may die at any step.                                                      *)
(*                                                                           *)
(* The submission never looks at how a job goes on (squeue and sacct list it *)
(* in whatever state it is).  So the jobs go on here once the plan has been  *)
(* submitted: a job that is accepted later is one that stays queued longer,  *)
(* and every order of the jobs' own steps is left.                           *)
EXTENDS L4Submission, FactorFile, TLC

CONSTANTS
    DatesPerChunk,  \* dates of one chunk (CHUNK_SIZE)
    MaxJobs,        \* bound on the jobs of a submission whose runs are followed
    MaxDeaths       \* bound on jobs that die, and on files that are invalid or not ours

ASSUME ProductionAssumption ==
    DatesPerChunk \in 1..5 /\ MaxJobs \in Nat /\ MaxDeaths \in Nat

VARIABLES
    run,      \* run[k]: where job k is, and at which of its dates
    deaths    \* counter of the bound

clusterVars == <<run, fileVars, deaths>>
allVars == <<vars, clusterVars>>

\* The dates of chunk c are (c-1)*DatesPerChunk + 1 .. c*DatesPerChunk.
Dates == 1..(ChunkCount * DatesPerChunk)
DatesOf(c) == {d \in Dates : (d - 1) \div DatesPerChunk = c - 1}
DateOf(k) == (jobs[k].name - 1) * DatesPerChunk + run[k].date

EarlierFile == [by |-> 0, state |-> "whole"]

InitCluster ==
    /\ run = <<>> /\ deaths = 0
    /\ InitFiles(Dates)

At(k, stage) == k \in DOMAIN run /\ run[k].stage = stage
Stage(k, stage) == run' = [run EXCEPT ![k].stage = stage]

SubmissionStep == run = <<>> /\ Next /\ UNCHANGED clusterVars

\* The cluster keeps a job it has accepted until its dependency has succeeded.
\* By now a run of another plan may have made one of the files, which the plan
\* could not see when it was built.  (The submission is over: what is left of
\* its bounds, and who asked for a job, make no difference.)
Queue ==
    /\ run = <<>> /\ calls = {}
    /\ disk # NoReceipt /\ disk.status = "submitted" /\ Len(jobs) <= MaxJobs
    /\ run' = [k \in JobIds |-> [stage |-> "queued", date |-> 1]]
    /\ file' = [k \in JobIds |-> "none"]
    /\ \/ UNCHANGED <<target, deaths>>
       \/ \E d \in Dates : /\ deaths < MaxDeaths /\ deaths' = deaths + 1
                          /\ target' = [target EXCEPT ![d] = EarlierFile]
    /\ crashes' = MaxCrashes /\ failures' = MaxFailures
    /\ jobs' = [k \in JobIds |-> [jobs[k] EXCEPT !.by = Orphan]]
    /\ UNCHANGED <<lock, disk, mem, pc, cur, calls, temp>>

\* Bug to detect: the job waits for its dependency to end, however it ends.
StartAfterAny(k) ==
    /\ At(k, "queued")
    /\ jobs[k].dep # 0 => \E stage \in {"ok", "failed"} : At(jobs[k].dep, stage)
    /\ Stage(k, "checking")
    /\ UNCHANGED <<vars, fileVars, deaths>>

Start(k) ==
    /\ At(k, "queued")
    /\ jobs[k].dep # 0 => At(jobs[k].dep, "ok")
    /\ Stage(k, "checking")
    /\ UNCHANGED <<vars, fileVars, deaths>>

\* Bug to detect: whatever is there is made again.
CheckTargetNever(k) ==
    /\ At(k, "checking")
    /\ Stage(k, "building")
    /\ UNCHANGED <<vars, fileVars, deaths>>

\* Every plan has reject_existing_output: a file under the final name ends
\* the job, and nothing is overwritten.
CheckTarget(k) ==
    /\ At(k, "checking")
    /\ Stage(k, IF target[DateOf(k)] # NoFile THEN "failed" ELSE "building")
    /\ UNCHANGED <<vars, fileVars, deaths>>

CreateTemp(k) ==
    /\ At(k, "building")
    /\ CreateFile(k, DateOf(k))
    /\ Stage(k, "writing")
    /\ UNCHANGED <<vars, deaths>>

\* The values may turn out not to pass the validation, or H5Fclose fails.
CloseTemp(k) ==
    /\ At(k, "writing")
    /\ \/ CloseFile(k, DateOf(k), "whole") /\ Stage(k, "closed") /\ UNCHANGED deaths
       \/ /\ deaths < MaxDeaths /\ deaths' = deaths + 1
          /\ \/ CloseFile(k, DateOf(k), "invalid") /\ Stage(k, "closed")
             \/ CloseFileFails(DateOf(k)) /\ Stage(k, "validating")
    /\ UNCHANGED vars

Commit(k) ==
    /\ At(k, "closed")
    /\ CommitFile(DateOf(k))
    /\ Stage(k, "validating")
    /\ UNCHANGED <<vars, deaths>>

\* validate_hdf5_only, then the next date.
Validate(k) ==
    /\ At(k, "validating")
    /\ run' = [run EXCEPT ![k] =
         IF target[DateOf(k)].state # "whole" THEN [@ EXCEPT !.stage = "failed"]
         ELSE IF @.date < DatesPerChunk THEN [stage |-> "checking", date |-> @.date + 1]
         ELSE [@ EXCEPT !.stage = "ok"]]
    /\ UNCHANGED <<vars, fileVars, deaths>>

\* The binary fails, or the job is killed: a temporary file stays behind.
Die(k) ==
    /\ k \in DOMAIN run /\ run[k].stage \notin {"queued", "ok", "failed"}
    /\ deaths < MaxDeaths /\ deaths' = deaths + 1
    /\ Stage(k, "failed")
    /\ UNCHANGED <<vars, fileVars>>

JobStep(k) ==
    \/ Start(k) \/ CheckTarget(k) \/ CreateTemp(k) \/ CloseTemp(k)
    \/ Commit(k) \/ Validate(k) \/ Die(k)

ProductionInit == InitSubmission /\ InitCluster

ProductionNext ==
    \/ SubmissionStep
    \/ Queue
    \/ \E k \in DOMAIN run : JobStep(k)

\* The submitters are alike.
SubmittersAlike == Permutations(Submitters)

ProductionSpec == ProductionInit /\ [][ProductionNext]_allVars

-----------------------------------------------------------------------------
\* The chunk was handed to the cluster once (see OneJobPerChunk for when not).
HandedOnce(c) == Cardinality(Matches(c)) <= 1

\* A file that has its final name was complete when it got it, and is never
\* replaced, whoever dies at whatever step and however often the plan is
\* submitted again.
OutputKept ==
    [][\A c \in Chunks : \A d \in DatesOf(c) : HandedOnce(c)' =>
          /\ target[d] # NoFile => target'[d] = target[d]
          /\ target'[d].state # "open"]_allVars

\* When a chunk is being produced, every chunk before it in its lane has all
\* of its files, valid; so has a chunk whose job succeeded.
LaneComplete ==
    \A k \in DOMAIN run :
        LET before == {c \in Chunks : /\ c % LaneCount = jobs[k].name % LaneCount
                                      /\ c < jobs[k].name}
            must == before \cup (IF run[k].stage = "ok" THEN {jobs[k].name} ELSE {})
        IN  run[k].stage \notin {"queued", "failed"} =>
              \A c \in must : HandedOnce(c) =>
                 \A d \in DatesOf(c) : target[d].state = "whole"
=============================================================================
