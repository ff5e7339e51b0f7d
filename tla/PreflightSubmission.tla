------------------------- MODULE PreflightSubmission -------------------------
(* submit_preflight_plan of campaigns/l4_release.py: it submits one chain of *)
(* jobs, each after the one before.  A caller may give it a function that    *)
(* asks the cluster for the job of a name; the command line of the module    *)
(* (main) gives none.                                                        *)
EXTENDS SlurmSubmission

CONSTANTS
    JobCount,       \* the jobs of the plan are 1..JobCount (6 in the code)
    CanRecover      \* the caller gave recover_job_id

ASSUME PreflightAssumption == JobCount \in Nat \ {0} /\ CanRecover \in BOOLEAN

PlanJobs == 1..JobCount

RecordedSubmitted(receipt, c) ==
    c \in 1..Len(receipt.jobs) /\ Submitted(receipt.jobs[c])

\* Bug to detect: the id is looked up for the wrong job of the chain.
DependencyOnFirst(receipt, c) == IF c = 1 THEN 0 ELSE receipt.jobs[1].job

\* Only a job before this one that is submitted has an id.
DependencyJob(receipt, c) == IF c = 1 THEN 0 ELSE receipt.jobs[c - 1].job

\* next is a field of the other program's receipt: it stays 0 here.
EmptyReceipt == [status |-> "submitting", next |-> 0, jobs |-> <<>>]

\* A completed receipt makes submit_preflight_plan refuse, which changes nothing.
Open(s) ==
    /\ TakeLock(s)
    /\ IF disk = NoReceipt
       THEN Write(s, EmptyReceipt)
       ELSE /\ disk.status # "submitted"
            /\ mem' = [mem EXCEPT ![s] = disk] /\ UNCHANGED disk
    /\ cur' = [cur EXCEPT ![s] = 1]
    /\ Goto(s, "loop")
    /\ UNCHANGED <<calls, jobs, crashes, failures>>

AtJob(s) == pc[s] = "loop" /\ cur[s] \in PlanJobs
Advance(s) == cur' = [cur EXCEPT ![s] = @ + 1]

SkipSubmitted(s) ==
    /\ AtJob(s) /\ RecordedSubmitted(mem[s], cur[s])
    /\ Advance(s)
    /\ UNCHANGED <<lock, disk, mem, pc, calls, jobs, crashes, failures>>

\* The entry, new or left by an earlier run, is written before anything else.
Announce(s) ==
    /\ AtJob(s) /\ ~ RecordedSubmitted(mem[s], cur[s])
    /\ cur[s] > 1 => RecordedSubmitted(mem[s], cur[s] - 1)
    /\ LET entry == NewRecord(DependencyJob(mem[s], cur[s]))
       IN  Write(s, [mem[s] EXCEPT !.jobs =
                        IF cur[s] > Len(@) THEN Append(@, entry) ELSE [@ EXCEPT ![cur[s]] = entry]])
    /\ Goto(s, IF CanRecover THEN "asking" ELSE "announced")
    /\ UNCHANGED <<lock, cur, calls, jobs, crashes, failures>>

Recover(s) ==
    /\ pc[s] = "asking" /\ Cardinality(Matches(cur[s])) = 1
    /\ Write(s, Recorded(mem[s], cur[s], CHOOSE k \in Matches(cur[s]) : TRUE))
    /\ Advance(s) /\ Goto(s, "loop")
    /\ UNCHANGED <<lock, calls, jobs, crashes, failures>>

\* Bug to detect: the answer of the query is not used.
RecoveryDropped(s) ==
    /\ pc[s] = "asking"
    /\ Goto(s, "announced")
    /\ UNCHANGED <<lock, disk, mem, cur, calls, jobs, crashes, failures>>

NothingToRecover(s) ==
    /\ pc[s] = "asking" /\ Matches(cur[s]) = {}
    /\ Goto(s, "announced")
    /\ UNCHANGED <<lock, disk, mem, cur, calls, jobs, crashes, failures>>

WriteFailed(s) == disk' = [mem[s] EXCEPT !.status = "failed"]

RecoveryFails(s) ==
    /\ pc[s] = "asking"
    /\ \/ Cardinality(Matches(cur[s])) > 1 /\ UNCHANGED failures
       \/ failures < MaxFailures /\ failures' = failures + 1
    /\ WriteFailed(s) /\ Leave(s) /\ Forget(s)
    /\ UNCHANGED <<calls, jobs, crashes>>

Confirm(s) ==
    /\ Answered(s)
    /\ Write(s, Recorded(mem[s], cur[s], Answer(s)))
    /\ Advance(s) /\ Goto(s, "loop")
    /\ UNCHANGED <<lock, calls, jobs, crashes, failures>>

Fail(s) == CallFails(s) /\ WriteFailed(s) /\ Leave(s) /\ Forget(s)

Complete(s) ==
    /\ pc[s] = "loop" /\ cur[s] > JobCount
    /\ disk' = [mem[s] EXCEPT !.status = "submitted"]
    /\ Leave(s) /\ Forget(s)
    /\ UNCHANGED <<calls, jobs, crashes, failures>>

Next ==
    \/ \E s \in Submitters :
          \/ Open(s) \/ SkipSubmitted(s) \/ Announce(s) \/ Launch(s)
          \/ Recover(s) \/ NothingToRecover(s) \/ RecoveryFails(s)
          \/ Confirm(s) \/ Fail(s) \/ Complete(s) \/ Crash(s)
    \/ \E call \in calls : Accept(call)

Spec == InitSubmission /\ [][Next]_vars

-----------------------------------------------------------------------------
\* Every job but the first waits for the job that the receipt on disk records
\* for the one before it in the chain; and the jobs of the receipt are a prefix
\* of the plan with at most the last one open, all of it when it is completed.
ChainOrder ==
    /\ \A k \in JobIds :
          LET c == jobs[k].name
          IN  IF c = 1 THEN jobs[k].dep = 0
              ELSE RecordedSubmitted(disk, c - 1) /\ jobs[k].dep = disk.jobs[c - 1].job
    /\ disk # NoReceipt =>
          /\ Len(disk.jobs) <= JobCount
          /\ \A n \in 1..Len(disk.jobs) - 1 : Submitted(disk.jobs[n])
          /\ disk.status = "submitted" =>
                Len(disk.jobs) = JobCount /\ RecordedSubmitted(disk, JobCount)
=============================================================================
