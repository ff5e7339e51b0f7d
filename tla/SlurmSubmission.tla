--------------------------- MODULE SlurmSubmission ---------------------------
(* What the two submission programs of campaigns/ share: submitter processes *)
(* that take an advisory lock on a receipt file, the receipt on disk, and    *)
(* the cluster that mybatch hands a job to.  Processes crash at any point;   *)
(* a crash frees the lock and loses the copy of the receipt in memory, but   *)
(* the request may go on without the process and be accepted later.          *)
(*                                                                           *)
(* A job is named by the number of its chunk or of its place in the chain.   *)
(* The real name starts with a submission id that the receipt keeps (plan),  *)
(* or with the release id and the kind of the job (preflight chain); in both *)
(* programs the name of a record is the same in every run of the program.    *)
EXTENDS Naturals, FiniteSets, Sequences, SequencesExt

CONSTANTS
    Submitters,     \* processes that run the submission program
    NoReceipt,      \* there is no receipt file
    MaxCrashes,     \* bound on the crashes
    MaxFailures     \* bound on the failed calls and queries

\* What a receipt file holds.
Records == [status : {"submitting", "submitted"}, job : Nat, dep : Nat]
Receipts == [status : {"submitting", "failed", "submitted"}, next : Nat, jobs : Seq(Records)]

Orphan == "none"    \* the submitter of a call nobody waits for

ASSUME NamesAssumption == NoReceipt \notin Receipts /\ Orphan \notin Submitters

VARIABLES
    lock,       \* holders of the receipt lock
    disk,       \* the receipt file: [status, next, jobs], or NoReceipt
    mem,        \* mem[s]: the receipt as s holds it in memory
    pc,         \* pc[s]: where s is
    cur,        \* cur[s]: the chunk s works on
    calls,      \* mybatch calls the cluster has not decided: [by, name, dep]
    jobs,       \* jobs the cluster accepted: [name, dep, late, by]; an id is an index
    crashes, failures   \* counters of the bounds

vars == <<lock, disk, mem, pc, cur, calls, jobs, crashes, failures>>

JobIds == 1..Len(jobs)

\* The records of a receipt.  A record being submitted has no job id (0).
NewRecord(dep) == [status |-> "submitting", job |-> 0, dep |-> dep]
Submitted(r) == r.status = "submitted"

\* Record number n of the receipt, once its job is known to be k.
Recorded(receipt, n, k) ==
    [receipt EXCEPT !.jobs[n].status = "submitted", !.jobs[n].job = k]

\* Bug to detect: the names that the queries list are not compared.
MatchesAny(n) == {k \in JobIds : n > 0}

\* squeue and sacct list the accepted jobs of a name.
Matches(n) == {k \in JobIds : jobs[k].name = n}

InitSubmission ==
    /\ lock = {} /\ disk = NoReceipt
    /\ mem = [s \in Submitters |-> NoReceipt]
    /\ pc = [s \in Submitters |-> "idle"]
    /\ cur = [s \in Submitters |-> 0]
    /\ calls = {} /\ jobs = <<>>
    /\ crashes = 0 /\ failures = 0

Goto(s, label) == pc' = [pc EXCEPT ![s] = label]

\* _write_json_atomic: the file is replaced at once by what s has in memory.
Write(s, receipt) ==
    /\ mem' = [mem EXCEPT ![s] = receipt]
    /\ disk' = receipt

\* The context manager frees the lock, on return and on an exception.
Leave(s) ==
    /\ lock' = lock \ {s}
    /\ Goto(s, "idle")
    /\ cur' = [cur EXCEPT ![s] = 0]

Forget(s) == mem' = [mem EXCEPT ![s] = NoReceipt]

\* Bug to detect: nobody looks at the lock.
LockIgnored == TRUE

LockFree == lock = {}

TakeLock(s) ==
    /\ pc[s] = "idle" /\ LockFree
    /\ lock' = lock \cup {s}

\* subprocess.run(mybatch): the call is on its way.
Launch(s) ==
    /\ pc[s] = "announced"
    /\ calls' = calls \cup {[by |-> s, name |-> cur[s], dep |-> mem[s].jobs[cur[s]].dep]}
    /\ Goto(s, "calling")
    /\ UNCHANGED <<lock, disk, mem, cur, jobs, crashes, failures>>

\* The cluster takes the job.
Accept(call) ==
    /\ calls' = calls \ {call}
    /\ jobs' = Append(jobs, [name |-> call.name, dep |-> call.dep,
                             late |-> call.by = Orphan, by |-> call.by])
    /\ UNCHANGED <<lock, disk, mem, pc, cur, crashes, failures>>

\* The job of the call that s waits for.
Answer(s) == Max({k \in Matches(cur[s]) : jobs[k].by = s})
Answered(s) == pc[s] = "calling" /\ \A call \in calls : call.by # s

\* s no longer waits for its call: the request is gone or goes on alone.
LetGo(s) ==
    LET own == {call \in calls : call.by = s}
    IN  \/ calls' = calls \ own
        \/ /\ own # {}
           /\ calls' = (calls \ own) \cup {[call EXCEPT !.by = Orphan] : call \in own}

\* mybatch fails: it was refused, or the job was accepted and the answer is
\* lost or is not "Jobid:<digits>", or mybatch gives up and the cluster takes the
\* job later all the same.
CallFails(s) ==
    /\ pc[s] = "calling"
    /\ failures < MaxFailures /\ failures' = failures + 1
    /\ LetGo(s)
    /\ UNCHANGED <<jobs, crashes>>

\* The process dies.
Crash(s) ==
    /\ pc[s] # "idle" /\ crashes < MaxCrashes
    /\ crashes' = crashes + 1
    /\ Leave(s) /\ Forget(s) /\ LetGo(s)
    /\ UNCHANGED <<disk, jobs, failures>>

-----------------------------------------------------------------------------
(* Properties of both programs.                                              *)

\* A chunk is handed to the cluster at most once: of two jobs with one name
\* (two runs of the same dates that write the same output), at least one was
\* accepted from a call that its submitter had given up, by a crash or after an
\* error, which no query could see.
OneJobPerChunk ==
    \A i, j \in JobIds :
        i # j /\ jobs[i].name = jobs[j].name => jobs[i].late \/ jobs[j].late

\* A job id in the receipt on disk is the id of a job the cluster accepted for
\* that very chunk, waiting for the very job the receipt names; a completed
\* receipt has one for every record.
ReceiptTruthful ==
    disk # NoReceipt =>
        \A n \in 1..Len(disk.jobs) :
            LET r == disk.jobs[n]
            IN  /\ Submitted(r) => /\ r.job \in JobIds
                                   /\ jobs[r.job].name = n
                                   /\ jobs[r.job].dep = r.dep
                /\ disk.status = "submitted" => Submitted(r)

\* What the receipt on disk says of a submitted chunk is never taken back or
\* changed, by any submitter, whatever fails or crashes.
NeverForgets ==
    [][disk # NoReceipt =>
        /\ disk' # NoReceipt
        /\ \A n \in 1..Len(disk.jobs) :
              Submitted(disk.jobs[n]) => n <= Len(disk'.jobs) /\ disk'.jobs[n] = disk.jobs[n]]_vars
=============================================================================
