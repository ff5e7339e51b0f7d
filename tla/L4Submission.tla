---------------------------- MODULE L4Submission ----------------------------
(* submit_plan of campaigns/l4_production.py: it submits the chunks of a     *)
(* frozen plan, in order, each after the chunk before it in its lane, and    *)
(* resumes after a failure or a crash from the receipt it keeps on disk.     *)
EXTENDS SlurmSubmission

CONSTANTS
    ChunkCount,     \* the chunks of the plan are 1..ChunkCount
    LaneCount       \* dependency lanes, filled round robin

ASSUME SizesAssumption ==
    /\ ChunkCount \in Nat \ {0}
    /\ LaneCount \in 1..16

Chunks == 1..ChunkCount

\* The chunk before c in its lane (0: c is the first one).
DependsOn(c) == IF c > LaneCount THEN c - LaneCount ELSE 0

RecordedSubmitted(receipt, c) ==
    c \in 1..Len(receipt.jobs) /\ Submitted(receipt.jobs[c])

DependencyJob(receipt, c) ==
    IF DependsOn(c) = 0 THEN 0 ELSE receipt.jobs[DependsOn(c)].job

\* The first chunk that is not submitted (0: there is none).
NextChunk(receipt) ==
    LET open == {c \in Chunks : ~ RecordedSubmitted(receipt, c)}
    IN  IF open = {} THEN 0 ELSE Min(open)

\* What _validate_receipt_jobs accepts: a prefix of the plan, every dependency
\* submitted and named, and nothing but the last record still being submitted.
ValidJobs(receipt) ==
    /\ Len(receipt.jobs) <= ChunkCount
    /\ \A n \in 1..Len(receipt.jobs) :
          LET r == receipt.jobs[n]
          IN  /\ DependsOn(n) # 0 => RecordedSubmitted(receipt, DependsOn(n))
              /\ r.dep = DependencyJob(receipt, n)
              /\ Submitted(r) <=> r.job # 0
              /\ ~ Submitted(r) => n = Len(receipt.jobs)

EmptyReceipt == [status |-> "submitting", next |-> 1, jobs |-> <<>>]

\* A completed receipt makes submit_plan refuse, which changes nothing.
Open(s) ==
    /\ TakeLock(s)
    /\ IF disk = NoReceipt
       THEN Write(s, EmptyReceipt)
       ELSE /\ disk.status # "submitted"
            /\ mem' = [mem EXCEPT ![s] = disk] /\ UNCHANGED disk
    /\ Goto(s, "opened")
    /\ UNCHANGED <<cur, calls, jobs, crashes, failures>>

Resume(s) ==
    /\ pc[s] = "opened" /\ ValidJobs(mem[s])
    /\ Write(s, [mem[s] EXCEPT !.status = "submitting", !.next = NextChunk(mem[s])])
    /\ cur' = [cur EXCEPT ![s] = 1]
    /\ Goto(s, "loop")
    /\ UNCHANGED <<lock, calls, jobs, crashes, failures>>

AtChunk(s) == pc[s] = "loop" /\ cur[s] \in Chunks
Advance(s) == cur' = [cur EXCEPT ![s] = @ + 1]

SkipSubmitted(s) ==
    /\ AtChunk(s) /\ RecordedSubmitted(mem[s], cur[s])
    /\ Advance(s)
    /\ UNCHANGED <<lock, disk, mem, pc, calls, jobs, crashes, failures>>

\* The record reaches the disk before mybatch is called.
Announce(s) ==
    /\ AtChunk(s) /\ cur[s] > Len(mem[s].jobs)
    /\ DependsOn(cur[s]) # 0 => RecordedSubmitted(mem[s], DependsOn(cur[s]))
    /\ Write(s, [mem[s] EXCEPT !.next = cur[s],
                   !.jobs = Append(@, NewRecord(DependencyJob(mem[s], cur[s])))])
    /\ Goto(s, "announced")
    /\ UNCHANGED <<lock, cur, calls, jobs, crashes, failures>>

Unfinished(s) ==
    AtChunk(s) /\ cur[s] \in 1..Len(mem[s].jobs) /\ ~ Submitted(mem[s].jobs[cur[s]])

\* Bug to detect: next_chunk_id is left as it was.
ConfirmedOnly(receipt, c, k) == Recorded(receipt, c, k)

\* The receipt once chunk c is known to be job k.
Confirmed(receipt, c, k) ==
    LET r == Recorded(receipt, c, k) IN [r EXCEPT !.next = NextChunk(r)]

\* recover_job_id finds the one job of that name.
Recover(s) ==
    /\ Unfinished(s)
    /\ Cardinality(Matches(cur[s])) = 1
    /\ Write(s, Confirmed(mem[s], cur[s], CHOOSE k \in Matches(cur[s]) : TRUE))
    /\ Advance(s)
    /\ UNCHANGED <<lock, pc, calls, jobs, crashes, failures>>

\* Bug to detect: the cluster is not asked.
RetryUnasked(s) ==
    /\ Unfinished(s)
    /\ Write(s, [mem[s] EXCEPT !.next = cur[s]])
    /\ Goto(s, "announced")
    /\ UNCHANGED <<lock, cur, calls, jobs, crashes, failures>>

\* It finds none: the call is made again.
Retry(s) ==
    /\ Unfinished(s) /\ Matches(cur[s]) = {}
    /\ Write(s, [mem[s] EXCEPT !.next = cur[s],
                   !.jobs[cur[s]].dep = DependencyJob(mem[s], cur[s])])
    /\ Goto(s, "announced")
    /\ UNCHANGED <<lock, cur, calls, jobs, crashes, failures>>

\* Several jobs have the name, or squeue or sacct fails: submit_plan raises
\* and leaves the receipt as it is.
RecoveryRaises(s) ==
    /\ Unfinished(s)
    /\ \/ Cardinality(Matches(cur[s])) > 1 /\ UNCHANGED failures
       \/ failures < MaxFailures /\ failures' = failures + 1
    /\ Leave(s) /\ Forget(s)
    /\ UNCHANGED <<disk, calls, jobs, crashes>>

\* mybatch answers with the job id.
Confirm(s) ==
    /\ Answered(s)
    /\ Write(s, Confirmed(mem[s], cur[s], Answer(s)))
    /\ Advance(s) /\ Goto(s, "loop")
    /\ UNCHANGED <<lock, calls, jobs, crashes, failures>>

Fail(s) ==
    /\ CallFails(s)
    /\ disk' = [mem[s] EXCEPT !.status = "failed", !.next = cur[s]]
    /\ Leave(s) /\ Forget(s)

Complete(s) ==
    /\ pc[s] = "loop" /\ cur[s] > ChunkCount
    /\ disk' = [mem[s] EXCEPT !.status = "submitted", !.next = 0]
    /\ Leave(s) /\ Forget(s)
    /\ UNCHANGED <<calls, jobs, crashes, failures>>

Step(s) ==
    \/ Resume(s) \/ SkipSubmitted(s) \/ Announce(s) \/ Launch(s)
    \/ Recover(s) \/ Retry(s) \/ RecoveryRaises(s)
    \/ Confirm(s) \/ Fail(s) \/ Complete(s)

Next ==
    \/ \E s \in Submitters : Open(s) \/ Step(s) \/ Crash(s)
    \/ \E call \in calls : Accept(call)

Spec == InitSubmission /\ [][Next]_vars

-----------------------------------------------------------------------------
\* The receipt on disk always passes the validation of the next submitter, and
\* names the chunk to go on with: no crash or failure makes a plan unresumable.
ReceiptResumable ==
    disk # NoReceipt => ValidJobs(disk) /\ disk.next = NextChunk(disk)
=============================================================================
