--------------------------- MODULE CampaignProofs ---------------------------
(* What the programs of campaigns/ keep through crashes and restarts, for    *)
(* every number of submitters, controllers, stages, chunks, lanes and runs.  *)
(* There is an inductive invariant for each of them: what the holder of the  *)
(* lock of the preflight chain knows, what a running controller of a round   *)
(* knows, and where the jobs of the display are in their lanes.  The last    *)
(* section takes the three to the exploration that composes them.            *)
EXTENDS Campaign, FiniteSetTheorems, WellFoundedInduction, TLAPS

-----------------------------------------------------------------------------
(* The preflight chain.                                                      *)

\* Every job of the plan before c is submitted.
Before(r, c) == \A d \in 1..c - 1 : RecordedSubmitted(r, d)

\* Job c is the one being submitted, the last of the receipt.
OpenAt(r, c) ==
    /\ c \in PlanJobs /\ c = Len(r.jobs)
    /\ ~ Submitted(r.jobs[c])
    /\ Before(r, c)

\* What a receipt looks like: a prefix of the plan, each job after the one
\* before it, with at most the last one open; completed, all of the plan.
ChainShape(r) ==
    /\ Len(r.jobs) <= JobCount
    /\ \A n \in 1..Len(r.jobs) - 1 : Submitted(r.jobs[n])
    /\ \A n \in 1..Len(r.jobs) : r.jobs[n].dep = DependencyJob(r, n)
    /\ r.status = "submitted" => Len(r.jobs) = JobCount /\ RecordedSubmitted(r, JobCount)

\* What r says of the jobs it has submitted, q says too; and q has the
\* dependencies that r has.
Keeps(r, q) ==
    /\ Len(r.jobs) <= Len(q.jobs)
    /\ \A n \in 1..Len(r.jobs) :
          /\ q.jobs[n].dep = r.jobs[n].dep
          /\ Submitted(r.jobs[n]) => q.jobs[n] = r.jobs[n]

\* The receipt that announces job c, for the first time or again.
Announced(r, c) ==
    LET entry == NewRecord(DependencyJob(r, c))
    IN  [r EXCEPT !.jobs = IF c > Len(@) THEN Append(@, entry) ELSE [@ EXCEPT ![c] = entry]]

-----------------------------------------------------------------------------
(* Receipts.                                                                 *)

\* A record of a receipt has numbers for its job and its dependency.
LEMMA ChainRecords ==
    ASSUME NEW r \in Receipts
    PROVE  /\ r.jobs \in Seq(Records) /\ Len(r.jobs) \in Nat
           /\ r.status \in {"submitting", "failed", "submitted"}
           /\ \A n \in 1..Len(r.jobs) :
                 /\ r.jobs[n] \in Records
                 /\ r.jobs[n].job \in Nat /\ r.jobs[n].dep \in Nat
<1>1. r.jobs \in Seq(Records) /\ r.status \in {"submitting", "failed", "submitted"}
  BY DEF Receipts
<1>2. \A n \in 1..Len(r.jobs) : r.jobs[n] \in Records
  BY <1>1
<1> QED BY <1>1, <1>2 DEF Records

\* A receipt keeps what it says itself.
LEMMA KeepsItself ==
    ASSUME NEW r \in Receipts, NEW q, q.jobs = r.jobs
    PROVE  Keeps(r, q)
BY ChainRecords DEF Keeps

\* The receipt once job c is announced: whether its record is new or was left
\* by an earlier run, it is the last one, and waits for the job before it.
LEMMA AnnouncedChain ==
    ASSUME NEW r \in Receipts, ChainShape(r), r.status # "submitted",
           NEW c \in PlanJobs, Before(r, c), ~ RecordedSubmitted(r, c),
           NEW q, q = Announced(r, c)
    PROVE  /\ q \in Receipts /\ q.status = r.status
           /\ OpenAt(q, c) /\ ChainShape(q) /\ Keeps(r, q)
           /\ \A n \in 1..c - 1 : q.jobs[n] = r.jobs[n] /\ n \in 1..Len(r.jobs)
<1> DEFINE new == NewRecord(DependencyJob(r, c))
<1>1. /\ r.jobs \in Seq(Records) /\ Len(r.jobs) \in Nat /\ c \in Nat /\ 1 <= c /\ c <= JobCount
      /\ Len(r.jobs) <= JobCount
  BY ChainRecords, PreflightAssumption DEF PlanJobs, ChainShape
<1>2. \A n \in 1..c - 1 : n \in 1..Len(r.jobs) /\ Submitted(r.jobs[n])
  BY DEF Before, RecordedSubmitted
<1>3. Len(r.jobs) = c - 1 \/ Len(r.jobs) = c
  <2>1. Len(r.jobs) >= c - 1
    <3>1. CASE c = 1
      BY <1>1, <3>1
    <3>2. CASE c > 1
      <4>1. c - 1 \in 1..c - 1
        BY <1>1, <3>2
      <4> QED BY <1>1, <1>2, <4>1
    <3> QED BY <1>1, <3>1, <3>2
  <2>2. ~ Len(r.jobs) > c
    <3>1. Len(r.jobs) > c => c \in 1..Len(r.jobs) - 1
      BY <1>1
    <3>2. Len(r.jobs) > c => c \in 1..Len(r.jobs)
      BY <1>1
    <3> QED BY <3>1, <3>2 DEF ChainShape, RecordedSubmitted
  <2> QED BY <1>1, <2>1, <2>2
<1>4. DependencyJob(r, c) \in Nat
  <2>1. CASE c = 1
    BY <2>1 DEF DependencyJob
  <2>2. CASE c > 1
    <3>1. c - 1 \in 1..Len(r.jobs)
      BY <1>1, <1>2, <2>2
    <3> QED BY <2>2, <3>1, ChainRecords DEF DependencyJob
  <2> QED BY <1>1, <2>1, <2>2
<1>5. new \in Records /\ new.dep = DependencyJob(r, c) /\ ~ Submitted(new)
  BY <1>4 DEF NewRecord, Records, Submitted
<1> HIDE DEF new
<1>6. PICK js : js = IF c > Len(r.jobs) THEN Append(r.jobs, new) ELSE [r.jobs EXCEPT ![c] = new]
  OBVIOUS
<1>7. /\ js \in Seq(Records) /\ Len(js) = c /\ js[c] = new
      /\ \A n \in 1..c - 1 : js[n] = r.jobs[n]
  <2>1. CASE Len(r.jobs) = c - 1
    <3>1. js = Append(r.jobs, new)
      BY <1>1, <1>6, <2>1
    <3> QED BY <1>1, <1>5, <2>1, <3>1
  <2>2. CASE Len(r.jobs) = c
    <3>1. js = [r.jobs EXCEPT ![c] = new] /\ c \in 1..Len(r.jobs)
      BY <1>1, <1>6, <2>2
    <3> QED BY <1>1, <1>5, <2>2, <3>1
  <2> QED BY <1>3, <2>1, <2>2
<1>8. q = [r EXCEPT !.jobs = js]
  BY <1>6 DEF Announced, new
<1>9. q \in Receipts /\ q.jobs = js /\ q.status = r.status
  BY <1>7, <1>8 DEF Receipts
<1>10. OpenAt(q, c)
  <2>1. \A n \in 1..c - 1 : RecordedSubmitted(q, n)
    BY <1>1, <1>2, <1>7, <1>9 DEF RecordedSubmitted
  <2> QED BY <1>5, <1>7, <1>9, <2>1 DEF OpenAt, Before
<1>11. \A n \in 1..c : DependencyJob(q, n) = DependencyJob(r, n)
  <2> TAKE n \in 1..c
  <2>1. n = 1 \/ n - 1 \in 1..c - 1
    BY <1>1
  <2> QED BY <1>7, <1>9, <2>1 DEF DependencyJob
<1>12. \A n \in 1..c : n = c \/ (n \in 1..c - 1 /\ n \in 1..Len(r.jobs))
  BY <1>1, <1>2
<1>13. ChainShape(q)
  <2>1. \A n \in 1..Len(q.jobs) - 1 : Submitted(q.jobs[n])
    BY <1>2, <1>7, <1>9
  <2>2. \A n \in 1..c : q.jobs[n].dep = DependencyJob(q, n)
    BY <1>5, <1>7, <1>9, <1>11, <1>12 DEF ChainShape
  <2> QED BY <1>1, <1>7, <1>9, <2>1, <2>2 DEF ChainShape
<1>14. Keeps(r, q)
  <2>1. Len(r.jobs) <= Len(q.jobs)
    BY <1>1, <1>3, <1>7, <1>9
  <2>2. \A n \in 1..Len(r.jobs) : n \in 1..c - 1 \/ n = c
    BY <1>1, <1>3
  <2>3. c \in 1..Len(r.jobs) => ~ Submitted(r.jobs[c]) /\ r.jobs[c].dep = DependencyJob(r, c)
    BY DEF RecordedSubmitted, ChainShape
  <2> QED BY <1>5, <1>7, <1>9, <2>1, <2>2, <2>3 DEF Keeps
<1> QED BY <1>2, <1>7, <1>9, <1>10, <1>13, <1>14

\* The receipt once job c is known to be k.
LEMMA RecordedChain ==
    ASSUME NEW r \in Receipts, ChainShape(r), r.status # "submitted",
           NEW c, OpenAt(r, c), NEW k \in Nat, NEW q, q = Recorded(r, c, k)
    PROVE  /\ q \in Receipts /\ q.status = r.status
           /\ ChainShape(q) /\ Before(q, c + 1) /\ Keeps(r, q)
           /\ Len(q.jobs) = c /\ q.jobs[c].job = k
           /\ \A n \in 1..c - 1 : q.jobs[n] = r.jobs[n]
<1>1. /\ r.jobs \in Seq(Records) /\ c = Len(r.jobs) /\ c \in Nat /\ c \in 1..c
      /\ c \in PlanJobs /\ c <= JobCount /\ r.jobs[c] \in Records
  BY ChainRecords, PreflightAssumption DEF OpenAt, PlanJobs
<1> DEFINE was == r.jobs[c]
           new == [was EXCEPT !.status = "submitted", !.job = k]
<1>2. new \in Records /\ new.dep = was.dep /\ new.job = k /\ Submitted(new)
  BY <1>1 DEF Records, Submitted
<1> DEFINE half == [r EXCEPT !.jobs[c].status = "submitted"]
<1>3. PICK js : js = [r.jobs EXCEPT ![c] = new]
  OBVIOUS
<1>4. q = [r EXCEPT !.jobs = js]
  <2>1. half = [r EXCEPT !.jobs = [r.jobs EXCEPT ![c] = [was EXCEPT !.status = "submitted"]]]
    OBVIOUS
  <2>2. /\ half.jobs = [r.jobs EXCEPT ![c] = [was EXCEPT !.status = "submitted"]]
        /\ half.jobs[c] = [was EXCEPT !.status = "submitted"]
    BY <1>1, <2>1 DEF Receipts
  <2>3. q = [half EXCEPT !.jobs = [half.jobs EXCEPT ![c] = [half.jobs[c] EXCEPT !.job = k]]]
    BY DEF Recorded
  <2>4. [half.jobs[c] EXCEPT !.job = k] = new
    BY <1>1, <2>2 DEF Records
  <2> HIDE DEF half, new
  <2>5. [half.jobs EXCEPT ![c] = new] = js
    BY <1>1, <1>3, <2>2
  <2>6. q = [half EXCEPT !.jobs = js]
    BY <2>3, <2>4, <2>5
  <2> QED BY <2>1, <2>6 DEF Receipts
<1> HIDE DEF new
<1>5. /\ js \in Seq(Records) /\ Len(js) = c /\ js[c] = new
      /\ \A n \in 1..c - 1 : js[n] = r.jobs[n]
  BY <1>1, <1>2, <1>3
<1>6. q \in Receipts /\ q.jobs = js /\ q.status = r.status
  BY <1>4, <1>5 DEF Receipts
<1>7. \A n \in 1..c : n = c \/ n \in 1..c - 1
  BY <1>1
<1>8. \A n \in 1..c - 1 : Submitted(r.jobs[n])
  BY DEF OpenAt, Before, RecordedSubmitted
<1>9. \A n \in 1..c : Submitted(q.jobs[n])
  BY <1>2, <1>5, <1>6, <1>7, <1>8
<1>10. Before(q, c + 1)
  <2>1. \A d \in 1..(c + 1) - 1 : d \in 1..c
    BY <1>1
  <2> QED BY <1>5, <1>6, <1>9, <2>1 DEF Before, RecordedSubmitted
<1>11. \A n \in 1..c : DependencyJob(q, n) = DependencyJob(r, n)
  <2> TAKE n \in 1..c
  <2>1. n = 1 \/ n - 1 \in 1..c - 1
    BY <1>1
  <2> QED BY <1>5, <1>6, <2>1 DEF DependencyJob
<1>12. ChainShape(q)
  <2>1. \A n \in 1..Len(q.jobs) - 1 : Submitted(q.jobs[n])
    BY <1>1, <1>5, <1>6, <1>9
  <2>2. \A n \in 1..c : q.jobs[n].dep = r.jobs[n].dep
    BY <1>2, <1>5, <1>6, <1>7
  <2>3. \A n \in 1..c : q.jobs[n].dep = DependencyJob(q, n)
    BY <1>1, <1>11, <2>2 DEF ChainShape
  <2> QED BY <1>1, <1>5, <1>6, <2>1, <2>3 DEF ChainShape
<1>13. Keeps(r, q)
  <2>1. ~ Submitted(r.jobs[c])
    BY DEF OpenAt
  <2> QED BY <1>1, <1>2, <1>5, <1>6, <1>7, <2>1 DEF Keeps
<1> QED BY <1>2, <1>5, <1>6, <1>10, <1>12, <1>13

\* A receipt whose jobs are all submitted is completed, and one that fails is
\* as it was, but for its status.
LEMMA RestatusedChain ==
    ASSUME NEW r \in Receipts, ChainShape(r), NEW status \in {"failed", "submitted"},
           status = "submitted" => Before(r, JobCount + 1),
           NEW q, q = [r EXCEPT !.status = status]
    PROVE  /\ q \in Receipts /\ q.status = status /\ q.jobs = r.jobs
           /\ ChainShape(q) /\ Keeps(r, q)
           /\ status = "submitted" => \A n \in 1..Len(q.jobs) : Submitted(q.jobs[n])
<1>1. q \in Receipts /\ q.status = status /\ q.jobs = r.jobs
  BY DEF Receipts
<1>2. Len(r.jobs) \in Nat /\ Len(r.jobs) <= JobCount /\ JobCount \in Nat \ {0}
  BY ChainRecords, PreflightAssumption DEF ChainShape
<1>3. ASSUME status = "submitted"
      PROVE  /\ Len(r.jobs) = JobCount /\ RecordedSubmitted(r, JobCount)
             /\ \A n \in 1..Len(r.jobs) : Submitted(r.jobs[n])
  <2>1. JobCount \in 1..(JobCount + 1) - 1
    BY <1>2
  <2>2. RecordedSubmitted(r, JobCount)
    BY <1>3, <2>1 DEF Before
  <2>3. \A n \in 1..Len(r.jobs) : n \in 1..(JobCount + 1) - 1
    BY <1>2
  <2> QED BY <1>2, <1>3, <2>2, <2>3 DEF Before, RecordedSubmitted
<1>4. ChainShape(q)
  BY <1>1, <1>3 DEF ChainShape, DependencyJob, RecordedSubmitted
<1> QED BY <1>1, <1>3, <1>4, KeepsItself

-----------------------------------------------------------------------------
(* The inductive invariant.                                                  *)

SubmitterPlaces == {"idle", "loop", "asking", "announced", "calling"}
By == Submitters \cup {Orphan}
Calls == [by : By, name : Nat, dep : Nat]
Accepted == [name : Nat, dep : Nat, late : BOOLEAN, by : By]

SubmissionTypes ==
    /\ lock \subseteq Submitters
    /\ disk \in Receipts \cup {NoReceipt}
    /\ mem \in [Submitters -> Receipts \cup {NoReceipt}]
    /\ pc \in [Submitters -> SubmitterPlaces]
    /\ cur \in [Submitters -> Nat]
    /\ calls \subseteq Calls
    /\ jobs \in Seq(Accepted)

Busy(s) == pc[s] # "idle"

\* One submitter at a time is at work; it holds the lock, has the receipt of
\* the disk in memory, and that is not completed.
Holder ==
    /\ \A s \in Submitters : s \in lock <=> Busy(s)
    /\ \A s, t \in Submitters : Busy(s) /\ Busy(t) => s = t
    /\ \A s \in Submitters :
          Busy(s) => disk # NoReceipt /\ mem[s] = disk /\ disk.status # "submitted"

\* Where it is in the plan.
Progress ==
    \A s \in Submitters :
        /\ pc[s] = "loop" => cur[s] \in 1..JobCount + 1 /\ Before(disk, cur[s])
        /\ pc[s] \in {"asking", "announced", "calling"} => OpenAt(disk, cur[s])

\* What the cluster was asked for waits for the job the receipt names.
Asked(x) ==
    /\ disk # NoReceipt
    /\ x.name \in 1..Len(disk.jobs) /\ x.dep = disk.jobs[x.name].dep

AllAsked == (\A call \in calls : Asked(call)) /\ (\A k \in JobIds : Asked(jobs[k]))

Mine(s, k) == k \in JobIds /\ jobs[k].by = s /\ jobs[k].name = cur[s]

\* A submitter has at most one call on its way, for the job it works on; when
\* that is decided without a failure, there is a job.
OneCall ==
    /\ \A call \in calls :
          call.by # Orphan => pc[call.by] = "calling" /\ call.name = cur[call.by]
    /\ \A x, y \in calls : x.by = y.by /\ x.by # Orphan => x = y
    /\ \A s \in Submitters :
          pc[s] = "calling" => (\E call \in calls : call.by = s) \/ (\E k \in JobIds : Mine(s, k))

\* Nobody but an orphan has a job of the name that is about to be handed over.
NotYet ==
    \A s \in Submitters :
        pc[s] = "announced" \/ (\E call \in calls : call.by = s) =>
            \A k \in JobIds : jobs[k].name = cur[s] => jobs[k].late

ReceiptShaped == disk # NoReceipt => ChainShape(disk)

\* When the cluster can be asked, a job is handed over once.
AskedOnce == CanRecover => NotYet /\ OneJobPerChunk

PreflightInv ==
    /\ SubmissionTypes /\ Holder /\ Progress /\ AllAsked /\ OneCall
    /\ ReceiptShaped /\ ReceiptTruthful /\ AskedOnce

-----------------------------------------------------------------------------
(* Lemmas about states.                                                      *)

\* The jobs have numbers from 1, a name and a dependency.
LEMMA AcceptedJobs ==
    ASSUME SubmissionTypes
    PROVE  /\ Len(jobs) \in Nat
           /\ \A k \in JobIds : /\ k \in Nat \ {0} /\ jobs[k] \in Accepted
                                /\ jobs[k].name \in Nat /\ jobs[k].dep \in Nat
                                /\ jobs[k].late \in BOOLEAN /\ jobs[k].by \in By
<1>1. Len(jobs) \in Nat /\ \A k \in 1..Len(jobs) : k \in Nat \ {0} /\ jobs[k] \in Accepted
  BY DEF SubmissionTypes
<1> QED BY <1>1 DEF JobIds, Accepted

\* A set of jobs that is not empty has a latest one.
LEMMA LatestJob ==
    ASSUME SubmissionTypes, NEW S, S \subseteq JobIds, S # {}
    PROVE  Max(S) \in S
<1> DEFINE n == Len(jobs)
           below == {n - k : k \in S}
<1>1. n \in Nat /\ \A k \in S : k \in Nat /\ k <= n
  BY AcceptedJobs DEF JobIds
<1>2. below \subseteq Nat /\ below # {}
  BY <1>1
<1>3. PICK x \in below : \A y \in below : ~ (<<y, x>> \in OpToRel(<, Nat))
  <2> HIDE DEF below
  <2> QED BY <1>2, NatLessThanWellFounded, WFMin
<1>4. PICK m \in S : x = n - m
  BY <1>3
<1>5. \A y \in below : ~ (y < x)
  BY <1>2, <1>3 DEF OpToRel
<1>6. \A k \in S : m >= k
  <2> TAKE k \in S
  <2>1. n - k \in below
    OBVIOUS
  <2>2. ~ (n - k < n - m)
    BY <1>4, <1>5, <2>1
  <2> QED BY <1>1, <1>4, <2>2
<1>7. Max(S) = CHOOSE y \in S : \A k \in S : y >= k
  BY DEF Max
<1> QED BY <1>4, <1>6, <1>7

\* What the receipt on disk says of a job stays.
Kept == disk # NoReceipt => disk' # NoReceipt /\ Keeps(disk, disk')

\* When the receipt on disk keeps what it says, and names a job of the cluster
\* wherever it says more, it stays true, and every call and job is still one
\* that it announced.
LEMMA ChainGrows ==
    ASSUME PreflightInv, disk \in Receipts, disk' \in Receipts, jobs' = jobs,
           Keeps(disk, disk'), ChainShape(disk'),
           \A n \in 1..Len(disk'.jobs) :
               Submitted(disk'.jobs[n]) =>
                   \/ n \in 1..Len(disk.jobs) /\ Submitted(disk.jobs[n])
                   \/ disk'.jobs[n].job \in JobIds /\ jobs[disk'.jobs[n].job].name = n,
           disk'.status = "submitted" => \A n \in 1..Len(disk'.jobs) : Submitted(disk'.jobs[n])
    PROVE  /\ ReceiptShaped' /\ ReceiptTruthful' /\ Kept
           /\ \A x : Asked(x) => Asked(x)'
           /\ \A k \in JobIds' : Asked(jobs[k])'
<1>1. disk # NoReceipt /\ disk' # NoReceipt /\ JobIds' = JobIds
  BY NamesAssumption DEF JobIds
<1>2. ASSUME NEW x, Asked(x)
      PROVE  Asked(x)'
  BY <1>1, <1>2, ChainRecords DEF Asked, Keeps
<1>3. \A k \in JobIds : Asked(jobs[k])'
  BY <1>2 DEF PreflightInv, AllAsked
<1>4. ReceiptTruthful'
  <2> SUFFICES ASSUME NEW n \in 1..Len(disk'.jobs), Submitted(disk'.jobs[n])
               PROVE  /\ disk'.jobs[n].job \in JobIds
                      /\ jobs[disk'.jobs[n].job].name = n
                      /\ jobs[disk'.jobs[n].job].dep = disk'.jobs[n].dep
    BY <1>1 DEF ReceiptTruthful
  <2>1. CASE n \in 1..Len(disk.jobs) /\ Submitted(disk.jobs[n])
    BY <1>1, <2>1 DEF PreflightInv, ReceiptTruthful, Keeps
  <2>2. CASE disk'.jobs[n].job \in JobIds /\ jobs[disk'.jobs[n].job].name = n
    BY <1>3, <2>2 DEF Asked
  <2> QED BY <2>1, <2>2
<1> QED BY <1>1, <1>2, <1>3, <1>4 DEF ReceiptShaped, Kept

\* What the submitter at work knows.
LEMMA WhoIsBusy ==
    ASSUME PreflightInv, NEW s \in Submitters, Busy(s)
    PROVE  /\ disk \in Receipts /\ disk # NoReceipt /\ mem[s] = disk
           /\ ChainShape(disk) /\ disk.status # "submitted"
           /\ \A t \in Submitters \ {s} : pc[t] = "idle"
BY DEF PreflightInv, SubmissionTypes, Holder, Busy, ReceiptShaped

\* A submitter that goes on keeps the lock, with the receipt of the disk in memory.
LEMMA StaysBusy ==
    ASSUME PreflightInv, NEW s \in Submitters, Busy(s),
           NEW p \in SubmitterPlaces \ {"idle"}, pc' = [pc EXCEPT ![s] = p], lock' = lock,
           NEW q \in Receipts, q.status # "submitted",
           disk' = q, mem' = [mem EXCEPT ![s] = q]
    PROVE  /\ Holder' /\ pc'[s] = p /\ pc' \in [Submitters -> SubmitterPlaces]
           /\ mem' \in [Submitters -> Receipts \cup {NoReceipt}]
           /\ \A t \in Submitters \ {s} : pc'[t] = "idle"
<1>1. \A t \in Submitters \ {s} : pc[t] = "idle"
  BY WhoIsBusy
<1>2. /\ pc \in [Submitters -> SubmitterPlaces]
      /\ mem \in [Submitters -> Receipts \cup {NoReceipt}] /\ q # NoReceipt
  BY NamesAssumption DEF PreflightInv, SubmissionTypes
<1>3. /\ pc'[s] = p /\ pc' \in [Submitters -> SubmitterPlaces] /\ mem'[s] = q
      /\ mem' \in [Submitters -> Receipts \cup {NoReceipt}]
      /\ \A t \in Submitters \ {s} : pc'[t] = "idle"
  BY <1>1, <1>2
<1>4. Holder'
  BY <1>1, <1>2, <1>3 DEF PreflightInv, Holder, Busy
<1> QED BY <1>3, <1>4

\* A submitter that leaves frees the lock, and nobody is at work.
LEMMA NobodyBusy ==
    ASSUME PreflightInv, NEW s \in Submitters, Busy(s), Leave(s), Forget(s)
    PROVE  /\ \A t \in Submitters : pc'[t] = "idle"
           /\ Holder' /\ Progress' /\ lock' \subseteq Submitters
           /\ pc' \in [Submitters -> SubmitterPlaces] /\ cur' \in [Submitters -> Nat]
           /\ mem' \in [Submitters -> Receipts \cup {NoReceipt}]
<1>1. \A t \in Submitters \ {s} : pc[t] = "idle"
  BY WhoIsBusy
<1>2. SubmissionTypes
  BY DEF PreflightInv
<1>3. /\ pc' \in [Submitters -> SubmitterPlaces] /\ cur' \in [Submitters -> Nat]
      /\ mem' \in [Submitters -> Receipts \cup {NoReceipt}] /\ lock' \subseteq Submitters
  BY <1>2 DEF SubmissionTypes, Leave, Forget, Goto, SubmitterPlaces
<1>4. \A t \in Submitters : pc'[t] = "idle"
  BY <1>1, <1>2 DEF SubmissionTypes, Leave, Goto
<1>5. lock' = {}
  BY <1>1, <1>2 DEF SubmissionTypes, PreflightInv, Holder, Busy, Leave
<1>6. Holder' /\ Progress'
  BY <1>4, <1>5 DEF Holder, Progress, Busy
<1> QED BY <1>3, <1>4, <1>6

\* Of the calls on their way, those of others have lost their parent; so have
\* all of them when the submitter at work does not wait for an answer.
LEMMA OthersAreOrphans ==
    ASSUME PreflightInv, NEW s \in Submitters, Busy(s), NEW call \in calls,
           call.by # s \/ pc[s] # "calling"
    PROVE  call.by = Orphan
<1>1. call.by \in By
  BY DEF PreflightInv, SubmissionTypes, Calls
<1>2. call.by # Orphan => pc[call.by] = "calling"
  BY DEF PreflightInv, OneCall
<1> QED BY <1>1, <1>2, WhoIsBusy DEF By

\* When nobody waits for the cluster, there is nothing to say of its answers.
LEMMA NobodyWaits ==
    ASSUME \A call \in calls' : call.by = Orphan,
           \A t \in Submitters : pc'[t] \notin {"announced", "calling"}
    PROVE  OneCall' /\ NotYet'
BY NamesAssumption DEF OneCall, NotYet

\* A step that leaves the receipt and the jobs alone changes nothing of them.
LEMMA SameReceipt ==
    ASSUME PreflightInv, disk' = disk, jobs' = jobs
    PROVE  /\ ReceiptShaped' /\ ReceiptTruthful' /\ Kept
           /\ (CanRecover => OneJobPerChunk')
           /\ \A x : Asked(x) => Asked(x)'
           /\ \A k \in JobIds' : Asked(jobs[k])'
           /\ disk' \in Receipts \cup {NoReceipt} /\ jobs' \in Seq(Accepted)
<1>1. /\ ReceiptShaped' /\ ReceiptTruthful' /\ (CanRecover => OneJobPerChunk')
      /\ \A x : Asked(x) => Asked(x)'
      /\ \A k \in JobIds' : Asked(jobs[k])'
  BY DEF PreflightInv, ReceiptShaped, ReceiptTruthful, OneJobPerChunk, AskedOnce, AllAsked, Asked,
         JobIds
<1>2. disk \in Receipts \cup {NoReceipt} /\ jobs \in Seq(Accepted)
  BY DEF PreflightInv, SubmissionTypes
<1>3. Kept
  BY <1>2, KeepsItself DEF Kept
<1> QED BY <1>1, <1>2, <1>3

-----------------------------------------------------------------------------
(* Every step keeps the invariant, and what the receipt says.                *)

\* A submitter at work leaves receipt q on disk and in memory and goes to p,
\* with no call on its way.
LEMMA GoesOn ==
    ASSUME PreflightInv, NEW s \in Submitters, Busy(s),
           \A call \in calls : call.by # s,
           NEW q \in Receipts, q.status # "submitted", Keeps(disk, q), ChainShape(q),
           \A n \in 1..Len(q.jobs) :
               Submitted(q.jobs[n]) =>
                   \/ n \in 1..Len(disk.jobs) /\ Submitted(disk.jobs[n])
                   \/ q.jobs[n].job \in JobIds /\ jobs[q.jobs[n].job].name = n,
           NEW p \in {"loop", "asking", "announced"}, NEW c \in Nat,
           disk' = q, mem' = [mem EXCEPT ![s] = q],
           pc' = [pc EXCEPT ![s] = p], cur' = [cur EXCEPT ![s] = c],
           lock' = lock, calls' = calls, jobs' = jobs,
           p = "loop" => c \in 1..JobCount + 1 /\ Before(q, c),
           p # "loop" => OpenAt(q, c),
           CanRecover /\ p = "announced" => \A k \in JobIds : jobs[k].name # c
    PROVE  PreflightInv' /\ Kept
<1>1. SubmissionTypes /\ disk \in Receipts /\ JobIds' = JobIds
  BY WhoIsBusy DEF PreflightInv, JobIds
<1>2. /\ Holder' /\ pc'[s] = p /\ pc' \in [Submitters -> SubmitterPlaces]
      /\ mem' \in [Submitters -> Receipts \cup {NoReceipt}]
      /\ \A t \in Submitters \ {s} : pc'[t] = "idle"
  <2>1. p \in SubmitterPlaces \ {"idle"}
    BY DEF SubmitterPlaces
  <2> QED BY <2>1, StaysBusy
<1>3. /\ ReceiptShaped' /\ ReceiptTruthful' /\ Kept
      /\ \A x : Asked(x) => Asked(x)'
      /\ \A k \in JobIds' : Asked(jobs[k])'
  BY <1>1, ChainGrows
<1>4. cur'[s] = c /\ cur' \in [Submitters -> Nat]
  BY <1>1 DEF SubmissionTypes
<1>5. SubmissionTypes'
  BY <1>1, <1>2, <1>4 DEF SubmissionTypes
<1>6. Progress'
  BY <1>2, <1>4 DEF Progress
<1>7. AllAsked'
  BY <1>3 DEF AllAsked, PreflightInv
<1>8. \A call \in calls' : call.by = Orphan
  BY OthersAreOrphans
<1>9. OneCall'
  BY <1>2, <1>8 DEF OneCall
<1>10. AskedOnce'
  <2>1. CanRecover => OneJobPerChunk'
    BY <1>1 DEF PreflightInv, AskedOnce, OneJobPerChunk
  <2>2. CanRecover => NotYet'
    BY <1>1, <1>2, <1>4, <1>8, NamesAssumption DEF NotYet
  <2> QED BY <2>1, <2>2 DEF AskedOnce
<1> QED BY <1>2, <1>3, <1>5, <1>6, <1>7, <1>9, <1>10 DEF PreflightInv

\* The calls on their way were there before, and nobody waits for one.
LeftAlone ==
    \A call \in calls' :
        /\ call \in Calls /\ call.by = Orphan
        /\ \E x \in calls : x.name = call.name /\ x.dep = call.dep

\* A submitter that is not calling has no call to leave alone.
LEMMA LeavesNothing ==
    ASSUME PreflightInv, NEW s \in Submitters, Busy(s), pc[s] # "calling", calls' = calls
    PROVE  LeftAlone
<1>1. \A call \in calls : call.by = Orphan
  BY OthersAreOrphans
<1>2. calls \subseteq Calls
  BY DEF PreflightInv, SubmissionTypes
<1> QED BY <1>1, <1>2 DEF LeftAlone

\* The call of a submitter that lets it go is gone or alone.
LEMMA LetsGo ==
    ASSUME PreflightInv, NEW s \in Submitters, Busy(s), LetGo(s)
    PROVE  LeftAlone
<1> DEFINE own == {call \in calls : call.by = s}
           left == {[call EXCEPT !.by = Orphan] : call \in own}
<1>1. calls \subseteq Calls
  BY DEF PreflightInv, SubmissionTypes
<1>2. calls' \subseteq (calls \ own) \cup left
  BY DEF LetGo
<1>3. \A call \in calls \ own : call \in Calls /\ call.by = Orphan
  BY <1>1, OthersAreOrphans
<1>4. \A x \in own : LET y == [x EXCEPT !.by = Orphan]
                     IN  y \in Calls /\ y.by = Orphan /\ y.name = x.name /\ y.dep = x.dep
  BY <1>1 DEF Calls, By
<1>5. ASSUME NEW call \in left
      PROVE  /\ call \in Calls /\ call.by = Orphan
             /\ \E x \in calls : x.name = call.name /\ x.dep = call.dep
  <2>1. PICK x \in own : call = [x EXCEPT !.by = Orphan]
    BY <1>5
  <2> QED BY <1>4, <2>1
<1> HIDE DEF own, left
<1> QED BY <1>2, <1>3, <1>5 DEF LeftAlone

\* A submitter leaves receipt q behind and waits for no call any more.
LEMMA Departs ==
    ASSUME PreflightInv, NEW s \in Submitters, Busy(s), Leave(s), Forget(s),
           LeftAlone, jobs' = jobs,
           NEW status \in {"failed", "submitted"},
           status = "submitted" => Before(disk, JobCount + 1),
           disk' = [disk EXCEPT !.status = status]
    PROVE  PreflightInv' /\ Kept
<1>1. SubmissionTypes /\ disk \in Receipts /\ ChainShape(disk) /\ JobIds' = JobIds
  BY WhoIsBusy DEF PreflightInv, JobIds
<1>2. /\ disk' \in Receipts /\ disk'.status = status /\ disk'.jobs = disk.jobs
      /\ ChainShape(disk') /\ Keeps(disk, disk')
      /\ status = "submitted" => \A n \in 1..Len(disk'.jobs) : Submitted(disk'.jobs[n])
  BY <1>1, RestatusedChain
<1>3. /\ ReceiptShaped' /\ ReceiptTruthful' /\ Kept
      /\ \A x : Asked(x) => Asked(x)'
      /\ \A k \in JobIds' : Asked(jobs[k])'
  BY <1>1, <1>2, ChainGrows
<1>4. /\ \A t \in Submitters : pc'[t] = "idle"
      /\ Holder' /\ Progress' /\ lock' \subseteq Submitters
      /\ pc' \in [Submitters -> SubmitterPlaces] /\ cur' \in [Submitters -> Nat]
      /\ mem' \in [Submitters -> Receipts \cup {NoReceipt}]
  BY NobodyBusy
<1>5. SubmissionTypes'
  BY <1>1, <1>2, <1>4 DEF SubmissionTypes, LeftAlone
<1>6. AllAsked'
  <2>1. \A call \in calls' : Asked(call)
    BY DEF PreflightInv, AllAsked, Asked, LeftAlone
  <2> QED BY <1>3, <2>1 DEF AllAsked
<1>7. OneCall' /\ NotYet'
  <2>1. \A call \in calls' : call.by = Orphan
    BY DEF LeftAlone
  <2> QED BY <1>4, <2>1, NobodyWaits
<1>8. AskedOnce'
  BY <1>1, <1>7 DEF PreflightInv, AskedOnce, OneJobPerChunk
<1> QED BY <1>3, <1>4, <1>5, <1>6, <1>7, <1>8 DEF PreflightInv

\* The first submitter writes an empty receipt; a later one reads what is there.
LEMMA OpenStep ==
    ASSUME PreflightInv, NEW s \in Submitters, Open(s)
    PROVE  PreflightInv' /\ Kept
<1>1. /\ pc[s] = "idle" /\ lock = {} /\ lock' = {s} /\ pc' = [pc EXCEPT ![s] = "loop"]
      /\ calls' = calls /\ jobs' = jobs /\ cur' = [cur EXCEPT ![s] = 1] /\ JobIds' = JobIds
  BY DEF Open, TakeLock, LockFree, Goto, JobIds
<1>2. SubmissionTypes /\ \A t \in Submitters : pc[t] = "idle"
  BY <1>1 DEF PreflightInv, Holder, Busy
<1>3. /\ pc' \in [Submitters -> SubmitterPlaces] /\ pc'[s] = "loop" /\ cur'[s] = 1
      /\ cur' \in [Submitters -> Nat]
      /\ \A t \in Submitters \ {s} : pc'[t] = "idle"
  BY <1>1, <1>2 DEF SubmissionTypes, SubmitterPlaces
<1>4. OneCall' /\ NotYet'
  <2>1. \A call \in calls' : call.by = Orphan
    BY <1>1, <1>2 DEF PreflightInv, OneCall, SubmissionTypes, Calls, By
  <2> QED BY <1>3, <2>1, NobodyWaits
<1>5. Progress'
  BY <1>3, PreflightAssumption DEF Progress, Before
<1>6. AskedOnce'
  BY <1>1, <1>4 DEF PreflightInv, AskedOnce, OneJobPerChunk
<1>7. CASE disk = NoReceipt
  <2>1. disk' = EmptyReceipt /\ mem' = [mem EXCEPT ![s] = EmptyReceipt]
    BY <1>7 DEF Open, Write
  <2>2. /\ EmptyReceipt \in Receipts /\ EmptyReceipt.jobs = <<>> /\ EmptyReceipt # NoReceipt
        /\ EmptyReceipt.status = "submitting"
    <3>1. /\ EmptyReceipt \in Receipts /\ EmptyReceipt.jobs = <<>>
          /\ EmptyReceipt.status = "submitting"
      BY DEF EmptyReceipt, Receipts
    <3> QED BY <3>1, NamesAssumption
  <2>3. calls = {} /\ JobIds = {}
    BY <1>7 DEF PreflightInv, AllAsked, Asked
  <2>4. ReceiptShaped' /\ ReceiptTruthful'
    <3>1. ChainShape(EmptyReceipt)
      BY <2>2, PreflightAssumption DEF ChainShape
    <3> QED BY <2>1, <2>2, <3>1 DEF ReceiptShaped, ReceiptTruthful
  <2>5. SubmissionTypes'
    BY <1>1, <1>2, <1>3, <2>1, <2>2 DEF SubmissionTypes
  <2>6. Holder'
    BY <1>1, <1>2, <1>3, <2>1, <2>2 DEF SubmissionTypes, Holder, Busy
  <2>7. AllAsked'
    BY <1>1, <2>3 DEF AllAsked
  <2> QED BY <1>4, <1>5, <1>6, <1>7, <2>4, <2>5, <2>6, <2>7 DEF PreflightInv, Kept
<1>8. CASE disk # NoReceipt
  <2>1. disk' = disk /\ mem' = [mem EXCEPT ![s] = disk] /\ disk.status # "submitted"
    BY <1>8 DEF Open
  <2>2. SubmissionTypes'
    BY <1>1, <1>2, <1>3, <2>1 DEF SubmissionTypes
  <2>3. Holder'
    BY <1>1, <1>2, <1>3, <1>8, <2>1 DEF SubmissionTypes, Holder, Busy
  <2>4. AllAsked' /\ ReceiptShaped' /\ ReceiptTruthful' /\ Kept
    BY <1>1, <2>1, SameReceipt DEF AllAsked, PreflightInv
  <2> QED BY <1>4, <1>5, <1>6, <2>2, <2>3, <2>4 DEF PreflightInv
<1> QED BY <1>7, <1>8

\* A job that is submitted is passed over.
LEMMA SkipStep ==
    ASSUME PreflightInv, NEW s \in Submitters, SkipSubmitted(s)
    PROVE  PreflightInv' /\ Kept
<1>1. /\ pc[s] = "loop" /\ cur[s] \in PlanJobs /\ cur' = [cur EXCEPT ![s] = @ + 1] /\ Busy(s)
      /\ lock' = lock /\ disk' = disk /\ mem' = mem /\ pc' = pc /\ calls' = calls /\ jobs' = jobs
  BY DEF SkipSubmitted, AtJob, Advance, Busy
<1>2. /\ SubmissionTypes /\ mem[s] = disk /\ disk \in Receipts /\ ChainShape(disk)
      /\ disk.status # "submitted" /\ Keeps(disk, disk)
  BY <1>1, WhoIsBusy, KeepsItself DEF PreflightInv
<1>3. RecordedSubmitted(disk, cur[s]) /\ Before(disk, cur[s])
  BY <1>1, <1>2 DEF SkipSubmitted, PreflightInv, Progress
<1>4. PICK c \in Nat : c = cur[s] + 1
  BY <1>2 DEF SubmissionTypes
<1>5. c \in 1..JobCount + 1 /\ Before(disk, c)
  <2>1. cur[s] \in Nat /\ 1 <= cur[s] /\ cur[s] <= JobCount
    BY <1>1, PreflightAssumption DEF PlanJobs
  <2>2. \A d \in 1..c - 1 : d = cur[s] \/ d \in 1..cur[s] - 1
    BY <1>4, <2>1
  <2>3. Before(disk, c)
    BY <1>3, <2>2 DEF Before
  <2> QED BY <1>4, <2>1, <2>3, PreflightAssumption
<1>6. /\ mem' = [mem EXCEPT ![s] = disk] /\ pc' = [pc EXCEPT ![s] = "loop"]
      /\ cur' = [cur EXCEPT ![s] = c]
  BY <1>1, <1>2, <1>4 DEF SubmissionTypes
<1>7. \A call \in calls : call.by # s
  BY <1>1, OthersAreOrphans, NamesAssumption
<1> QED BY <1>1, <1>2, <1>5, <1>6, <1>7, GoesOn

\* The record reaches the disk before the job is asked for or handed over.
LEMMA AnnounceStep ==
    ASSUME PreflightInv, NEW s \in Submitters, Announce(s)
    PROVE  PreflightInv' /\ Kept
<1>1. PICK c : c = cur[s]
  OBVIOUS
<1>2. PICK q : q = Announced(disk, c)
  OBVIOUS
<1>3. PICK p : p = IF CanRecover THEN "asking" ELSE "announced"
  OBVIOUS
<1>4. pc[s] = "loop" /\ Busy(s) /\ c \in PlanJobs /\ c \in Nat /\ SubmissionTypes
  BY <1>1, PreflightAssumption DEF Announce, AtJob, Busy, PlanJobs, PreflightInv
<1>5. disk \in Receipts /\ mem[s] = disk /\ ChainShape(disk) /\ disk.status # "submitted"
  BY <1>4, WhoIsBusy
<1>6. /\ disk' = q /\ mem' = [mem EXCEPT ![s] = q] /\ cur' = cur
      /\ ~ RecordedSubmitted(disk, c)
      /\ pc' = [pc EXCEPT ![s] = p] /\ lock' = lock /\ calls' = calls /\ jobs' = jobs
  BY <1>1, <1>2, <1>3, <1>5 DEF Announce, Announced, Write, Goto
<1>7. Before(disk, c)
  BY <1>1, <1>4 DEF PreflightInv, Progress
<1>8. /\ q \in Receipts /\ q.status = disk.status
      /\ OpenAt(q, c) /\ ChainShape(q) /\ Keeps(disk, q)
      /\ \A n \in 1..c - 1 : q.jobs[n] = disk.jobs[n] /\ n \in 1..Len(disk.jobs)
  BY <1>2, <1>4, <1>5, <1>6, <1>7, AnnouncedChain
<1>9. \A n \in 1..Len(q.jobs) : Submitted(q.jobs[n]) =>
          n \in 1..Len(disk.jobs) /\ Submitted(disk.jobs[n])
  <2> TAKE n \in 1..Len(q.jobs)
  <2>1. n = c \/ n \in 1..c - 1
    BY <1>4, <1>8 DEF OpenAt
  <2> QED BY <1>8, <2>1 DEF OpenAt
<1>10. cur' = [cur EXCEPT ![s] = c]
  BY <1>1, <1>4, <1>6 DEF SubmissionTypes
<1>11. \A call \in calls : call.by # s
  BY <1>4, OthersAreOrphans, NamesAssumption
<1>12. p \in {"loop", "asking", "announced"} /\ p # "loop" /\ ~ (CanRecover /\ p = "announced")
  BY <1>3
<1> QED BY <1>4, <1>5, <1>6, <1>8, <1>9, <1>10, <1>11, <1>12, GoesOn

\* However the job became known.
LEMMA RecordedStep ==
    ASSUME PreflightInv, NEW s \in Submitters, Busy(s), OpenAt(disk, cur[s]),
           NEW k \in JobIds, jobs[k].name = cur[s],
           Write(s, Recorded(mem[s], cur[s], k)), Advance(s),
           pc' = [pc EXCEPT ![s] = "loop"],
           \A call \in calls : call.by # s,
           lock' = lock, calls' = calls, jobs' = jobs
    PROVE  PreflightInv' /\ Kept
<1>1. PICK c : c = cur[s]
  OBVIOUS
<1>2. PICK q : q = Recorded(disk, c, k)
  OBVIOUS
<1>3. /\ disk \in Receipts /\ mem[s] = disk /\ ChainShape(disk) /\ disk.status # "submitted"
      /\ SubmissionTypes /\ k \in Nat
  BY WhoIsBusy, AcceptedJobs DEF PreflightInv
<1>4. /\ disk' = q /\ mem' = [mem EXCEPT ![s] = q] /\ cur' = [cur EXCEPT ![s] = c + 1]
  BY <1>1, <1>2, <1>3 DEF Write, Advance
<1>5. /\ q \in Receipts /\ q.status = disk.status
      /\ ChainShape(q) /\ Before(q, c + 1) /\ Keeps(disk, q)
      /\ Len(q.jobs) = c /\ q.jobs[c].job = k
      /\ \A n \in 1..c - 1 : q.jobs[n] = disk.jobs[n]
  BY <1>1, <1>2, <1>3, RecordedChain
<1>6. c \in Nat /\ 1 <= c /\ c <= JobCount /\ Len(disk.jobs) = c
  BY <1>1, PreflightAssumption DEF OpenAt, PlanJobs
<1>7. \A n \in 1..Len(q.jobs) : Submitted(q.jobs[n]) =>
          \/ n \in 1..Len(disk.jobs) /\ Submitted(disk.jobs[n])
          \/ q.jobs[n].job \in JobIds /\ jobs[q.jobs[n].job].name = n
  <2> TAKE n \in 1..Len(q.jobs)
  <2>1. n = c \/ n \in 1..c - 1
    BY <1>5, <1>6
  <2>2. n \in 1..c - 1 => n \in 1..Len(disk.jobs) /\ q.jobs[n] = disk.jobs[n]
    BY <1>5, <1>6
  <2> QED BY <1>1, <1>5, <2>1, <2>2
<1>8. c + 1 \in 1..JobCount + 1 /\ c + 1 \in Nat
  BY <1>6, PreflightAssumption
<1> QED BY <1>3, <1>4, <1>5, <1>7, <1>8, GoesOn

\* The cluster has the one job of the name.
LEMMA RecoverStep ==
    ASSUME PreflightInv, NEW s \in Submitters, Recover(s)
    PROVE  PreflightInv' /\ Kept
<1>1. pc[s] = "asking" /\ Busy(s) /\ OpenAt(disk, cur[s])
  BY DEF Recover, Busy, PreflightInv, Progress
<1>2. PICK k : k = CHOOSE j \in Matches(cur[s]) : TRUE
  OBVIOUS
<1>3. Matches(cur[s]) # {}
  BY FS_EmptySet DEF Recover
<1>4. k \in JobIds /\ jobs[k].name = cur[s]
  BY <1>2, <1>3 DEF Matches
<1>5. /\ Write(s, Recorded(mem[s], cur[s], k)) /\ Advance(s) /\ pc' = [pc EXCEPT ![s] = "loop"]
      /\ lock' = lock /\ calls' = calls /\ jobs' = jobs
  BY <1>2 DEF Recover, Goto
<1>6. \A call \in calls : call.by # s
  BY <1>1, OthersAreOrphans, NamesAssumption
<1> QED BY <1>1, <1>4, <1>5, <1>6, RecordedStep

\* The cluster has none, so the job is handed over.
LEMMA NothingStep ==
    ASSUME PreflightInv, NEW s \in Submitters, NothingToRecover(s)
    PROVE  PreflightInv' /\ Kept
<1>1. /\ pc[s] = "asking" /\ Busy(s) /\ Matches(cur[s]) = {} /\ cur' = cur
      /\ lock' = lock /\ disk' = disk /\ mem' = mem /\ calls' = calls /\ jobs' = jobs
      /\ pc' = [pc EXCEPT ![s] = "announced"]
  BY DEF NothingToRecover, Goto, Busy
<1>2. /\ SubmissionTypes /\ mem[s] = disk /\ disk \in Receipts /\ ChainShape(disk)
      /\ disk.status # "submitted" /\ Keeps(disk, disk)
  BY <1>1, WhoIsBusy, KeepsItself DEF PreflightInv
<1>3. PICK c \in Nat : c = cur[s]
  BY <1>2 DEF SubmissionTypes
<1>4. mem' = [mem EXCEPT ![s] = disk] /\ cur' = [cur EXCEPT ![s] = c]
  BY <1>1, <1>2, <1>3 DEF SubmissionTypes
<1>5. OpenAt(disk, c)
  BY <1>1, <1>3 DEF PreflightInv, Progress
<1>6. \A k \in JobIds : jobs[k].name # c
  BY <1>1, <1>3 DEF Matches
<1>7. \A call \in calls : call.by # s
  BY <1>1, OthersAreOrphans, NamesAssumption
<1> QED BY <1>1, <1>2, <1>4, <1>5, <1>6, <1>7, GoesOn

\* The call has its answer, so there is a job of the submitter.
LEMMA ConfirmStep ==
    ASSUME PreflightInv, NEW s \in Submitters, Confirm(s)
    PROVE  PreflightInv' /\ Kept
<1>1. /\ pc[s] = "calling" /\ Busy(s) /\ \A call \in calls : call.by # s
      /\ OpenAt(disk, cur[s])
  BY DEF Confirm, Answered, Busy, PreflightInv, Progress
<1> DEFINE S == {k \in Matches(cur[s]) : jobs[k].by = s}
<1>2. S # {} /\ S \subseteq JobIds
  BY <1>1 DEF PreflightInv, OneCall, Mine, Matches
<1>3. Answer(s) \in S
  BY <1>2, LatestJob DEF Answer, PreflightInv
<1>4. Answer(s) \in JobIds /\ jobs[Answer(s)].name = cur[s]
  BY <1>3 DEF Matches
<1>5. /\ Write(s, Recorded(mem[s], cur[s], Answer(s))) /\ Advance(s)
      /\ pc' = [pc EXCEPT ![s] = "loop"] /\ lock' = lock /\ calls' = calls /\ jobs' = jobs
  BY DEF Confirm, Goto
<1> QED BY <1>1, <1>4, <1>5, RecordedStep

\* The call asks for what the record says.
LEMMA LaunchStep ==
    ASSUME PreflightInv, NEW s \in Submitters, Launch(s)
    PROVE  PreflightInv' /\ Kept
<1>1. PICK new : new = [by |-> s, name |-> cur[s], dep |-> disk.jobs[cur[s]].dep]
  OBVIOUS
<1>2. pc[s] = "announced" /\ Busy(s)
  BY DEF Launch, Busy
<1>3. /\ disk \in Receipts /\ disk # NoReceipt /\ mem[s] = disk /\ disk.status # "submitted"
      /\ SubmissionTypes
  BY <1>2, WhoIsBusy DEF PreflightInv
<1>4. /\ calls' = calls \cup {new} /\ pc' = [pc EXCEPT ![s] = "calling"] /\ lock' = lock
      /\ disk' = disk /\ mem' = mem /\ cur' = cur /\ jobs' = jobs /\ JobIds' = JobIds
  BY <1>1, <1>3 DEF Launch, Goto, JobIds
<1>5. OpenAt(disk, cur[s])
  BY <1>2 DEF PreflightInv, Progress
<1>6. cur[s] \in Nat /\ cur[s] \in 1..Len(disk.jobs)
  BY <1>3, <1>5, ChainRecords, PreflightAssumption DEF OpenAt, PlanJobs
<1>7. new \in Calls /\ new.by = s /\ new.name = cur[s] /\ Asked(new)
  BY <1>1, <1>3, <1>6, ChainRecords DEF Calls, By, Asked
<1>8. mem' = [mem EXCEPT ![s] = disk]
  BY <1>3, <1>4 DEF SubmissionTypes
<1>9. /\ Holder' /\ pc'[s] = "calling" /\ pc' \in [Submitters -> SubmitterPlaces]
      /\ mem' \in [Submitters -> Receipts \cup {NoReceipt}]
      /\ \A t \in Submitters \ {s} : pc'[t] = "idle"
  <2>1. "calling" \in SubmitterPlaces \ {"idle"}
    BY DEF SubmitterPlaces
  <2> QED BY <1>2, <1>3, <1>4, <1>8, <2>1, StaysBusy
<1>10. SubmissionTypes'
  BY <1>3, <1>4, <1>7, <1>9 DEF SubmissionTypes
<1>11. Progress'
  BY <1>4, <1>5, <1>9 DEF Progress
<1>12. AllAsked'
  BY <1>4, <1>7, SameReceipt DEF AllAsked, PreflightInv
<1>13. \A call \in calls : call.by = Orphan
  BY <1>2, OthersAreOrphans
<1>14. OneCall'
  <2>1. \A call \in calls' : call.by # Orphan => call = new
    BY <1>4, <1>13
  <2>2. new \in calls'
    BY <1>4
  <2> QED BY <1>4, <1>7, <1>9, <2>1, <2>2 DEF OneCall
<1>15. AskedOnce'
  <2> SUFFICES ASSUME CanRecover PROVE NotYet' /\ OneJobPerChunk'
    BY DEF AskedOnce
  <2>1. \A k \in JobIds : jobs[k].name = cur[s] => jobs[k].late
    BY <1>2 DEF PreflightInv, AskedOnce, NotYet
  <2>2. \A t \in Submitters : pc'[t] = "announced" \/ (\E call \in calls' : call.by = t) => t = s
    BY <1>4, <1>7, <1>9, <1>13, NamesAssumption
  <2>3. NotYet'
    BY <1>4, <2>1, <2>2 DEF NotYet
  <2> QED BY <1>4, <2>3, SameReceipt
<1> QED BY <1>4, <1>9, <1>10, <1>11, <1>12, <1>14, <1>15, SameReceipt DEF PreflightInv

\* When the cluster cannot tell, the receipt says that the submission failed.
LEMMA RecoveryFailsStep ==
    ASSUME PreflightInv, NEW s \in Submitters, RecoveryFails(s)
    PROVE  PreflightInv' /\ Kept
<1>1. pc[s] = "asking" /\ Busy(s) /\ Leave(s) /\ Forget(s) /\ jobs' = jobs /\ calls' = calls
  BY DEF RecoveryFails, Busy
<1>2. disk' = [disk EXCEPT !.status = "failed"]
  BY <1>1, WhoIsBusy DEF RecoveryFails, WriteFailed
<1>3. LeftAlone
  BY <1>1, LeavesNothing
<1> QED BY <1>1, <1>2, <1>3, Departs

\* So it does when the call fails.
LEMMA FailStep ==
    ASSUME PreflightInv, NEW s \in Submitters, Fail(s)
    PROVE  PreflightInv' /\ Kept
<1>1. pc[s] = "calling" /\ Busy(s) /\ Leave(s) /\ Forget(s) /\ jobs' = jobs
  BY DEF Fail, CallFails, Busy
<1>2. disk' = [disk EXCEPT !.status = "failed"]
  BY <1>1, WhoIsBusy DEF Fail, WriteFailed
<1>3. LeftAlone
  BY <1>1, LetsGo DEF Fail, CallFails
<1> QED BY <1>1, <1>2, <1>3, Departs

\* The receipt is completed when every job of the plan is submitted.
LEMMA CompleteStep ==
    ASSUME PreflightInv, NEW s \in Submitters, Complete(s)
    PROVE  PreflightInv' /\ Kept
<1>1. pc[s] = "loop" /\ Busy(s) /\ Leave(s) /\ Forget(s) /\ jobs' = jobs /\ calls' = calls
  BY DEF Complete, Busy
<1>2. disk' = [disk EXCEPT !.status = "submitted"]
  BY <1>1, WhoIsBusy DEF Complete
<1>3. LeftAlone
  BY <1>1, LeavesNothing
<1>4. Before(disk, JobCount + 1)
  <2>1. cur[s] \in 1..JobCount + 1 /\ Before(disk, cur[s]) /\ cur[s] > JobCount
    BY <1>1 DEF Complete, PreflightInv, Progress
  <2>2. cur[s] = JobCount + 1
    BY <2>1, PreflightAssumption
  <2> QED BY <2>1, <2>2
<1> QED BY <1>1, <1>2, <1>3, <1>4, Departs

\* A crash loses the memory of the submitter, and may leave a call alone.
LEMMA CrashStep ==
    ASSUME PreflightInv, NEW s \in Submitters, Crash(s)
    PROVE  PreflightInv' /\ Kept
<1>1. Busy(s) /\ Leave(s) /\ Forget(s) /\ disk' = disk /\ jobs' = jobs /\ JobIds' = JobIds
  BY DEF Crash, Busy, JobIds
<1>2. /\ \A t \in Submitters : pc'[t] = "idle"
      /\ Holder' /\ Progress' /\ lock' \subseteq Submitters
      /\ pc' \in [Submitters -> SubmitterPlaces] /\ cur' \in [Submitters -> Nat]
      /\ mem' \in [Submitters -> Receipts \cup {NoReceipt}]
  BY <1>1, NobodyBusy
<1>3. LeftAlone
  BY <1>1, LetsGo DEF Crash
<1>4. SubmissionTypes'
  BY <1>1, <1>2, <1>3, SameReceipt DEF SubmissionTypes, LeftAlone
<1>5. AllAsked'
  BY <1>1, <1>3, SameReceipt DEF PreflightInv, AllAsked, Asked, LeftAlone
<1>6. OneCall' /\ NotYet'
  BY <1>2, <1>3, NobodyWaits DEF LeftAlone
<1>7. AskedOnce'
  BY <1>1, <1>6, SameReceipt DEF AskedOnce
<1> QED BY <1>1, <1>2, <1>4, <1>5, <1>6, <1>7, SameReceipt DEF PreflightInv

\* The cluster takes a job that the receipt announced.
LEMMA AcceptStep ==
    ASSUME PreflightInv, NEW call \in calls, Accept(call)
    PROVE  PreflightInv' /\ Kept
<1>1. PICK new : new = [name |-> call.name, dep |-> call.dep,
                        late |-> call.by = Orphan, by |-> call.by]
  OBVIOUS
<1>2. PICK last : last = Len(jobs) + 1
  OBVIOUS
<1>3. /\ calls' = calls \ {call} /\ jobs' = Append(jobs, new)
      /\ lock' = lock /\ disk' = disk /\ mem' = mem /\ pc' = pc /\ cur' = cur
  BY <1>1 DEF Accept
<1>4. SubmissionTypes /\ call \in Calls
  BY DEF PreflightInv, SubmissionTypes
<1>5. /\ new \in Accepted /\ new.name = call.name /\ new.dep = call.dep /\ new.by = call.by
      /\ new.late <=> call.by = Orphan
  BY <1>1, <1>4 DEF Accepted, Calls
<1>6. /\ jobs' \in Seq(Accepted) /\ JobIds' = JobIds \cup {last} /\ last \notin JobIds
      /\ jobs'[last] = new /\ \A k \in JobIds : jobs'[k] = jobs[k]
  BY <1>2, <1>3, <1>4, <1>5 DEF SubmissionTypes, JobIds
<1>7. SubmissionTypes' /\ Holder' /\ Progress'
  <2>1. Holder' /\ Progress'
    BY <1>3 DEF PreflightInv, Holder, Progress, Busy
  <2> QED BY <1>3, <1>4, <1>6, <2>1 DEF SubmissionTypes
<1>8. AllAsked'
  <2>1. Asked(call)
    BY DEF PreflightInv, AllAsked
  <2>2. Asked(new)
    BY <1>5, <2>1 DEF Asked
  <2>3. \A x : Asked(x) => Asked(x)'
    BY <1>3 DEF Asked
  <2> QED BY <1>3, <1>6, <2>2, <2>3 DEF PreflightInv, AllAsked, Asked
<1>9. \A t \in Submitters :
          pc[t] = "announced" \/ (\E x \in calls' : x.by = t) => call.by # t
  BY <1>3, NamesAssumption DEF PreflightInv, OneCall
<1>10. call.by # Orphan => call.by \in Submitters /\ call.name = cur[call.by] /\ Busy(call.by)
  BY <1>4 DEF PreflightInv, OneCall, Calls, By, Busy
<1>11. OneCall'
  <2>1. ASSUME NEW t \in Submitters, pc[t] = "calling"
        PROVE  (\E x \in calls' : x.by = t) \/ (\E k \in JobIds' : Mine(t, k)')
    <3>1. CASE call.by = t
      BY <1>3, <1>5, <1>6, <1>10, <3>1, NamesAssumption DEF Mine
    <3>2. CASE call.by # t /\ \E x \in calls : x.by = t
      BY <1>3, <3>2
    <3>3. CASE \E k \in JobIds : Mine(t, k)
      BY <1>3, <1>6, <3>3 DEF Mine
    <3> QED BY <2>1, <3>1, <3>2, <3>3 DEF PreflightInv, OneCall
  <2> QED BY <1>3, <2>1 DEF PreflightInv, OneCall
<1>12. ASSUME CanRecover
       PROVE  NotYet'
  <2> SUFFICES ASSUME NEW t \in Submitters,
                      pc[t] = "announced" \/ (\E x \in calls' : x.by = t),
                      NEW k \in JobIds', jobs'[k].name = cur[t]
               PROVE  jobs'[k].late
    BY <1>3 DEF NotYet
  <2>1. CASE k \in JobIds
    BY <1>3, <1>6, <1>12, <2>1 DEF PreflightInv, AskedOnce, NotYet
  <2>2. CASE k = last
    <3>1. Busy(t)
      BY <1>3, NamesAssumption DEF PreflightInv, OneCall, Busy
    <3>2. call.by = Orphan
      BY <1>9, <1>10, <3>1 DEF PreflightInv, Holder
    <3> QED BY <1>5, <1>6, <2>2, <3>2
  <2> QED BY <1>6, <2>1, <2>2
<1>13. ASSUME CanRecover
       PROVE  OneJobPerChunk'
  <2>1. ASSUME NEW k \in JobIds, jobs[k].name = new.name
        PROVE  jobs[k].late \/ new.late
    BY <1>5, <1>10, <1>13, <2>1 DEF PreflightInv, AskedOnce, NotYet
  <2>2. ASSUME NEW i \in JobIds, NEW j \in JobIds, i # j, jobs[i].name = jobs[j].name
        PROVE  jobs[i].late \/ jobs[j].late
    BY <1>13, <2>2 DEF PreflightInv, AskedOnce, OneJobPerChunk
  <2>3. ASSUME NEW i \in JobIds', NEW j \in JobIds', i # j, jobs'[i].name = jobs'[j].name
        PROVE  jobs'[i].late \/ jobs'[j].late
    <3>1. CASE i \in JobIds /\ j \in JobIds
      BY <1>6, <2>2, <2>3, <3>1
    <3>2. CASE i = last /\ j \in JobIds
      BY <1>6, <2>1, <2>3, <3>2
    <3>3. CASE j = last /\ i \in JobIds
      BY <1>6, <2>1, <2>3, <3>3
    <3> QED BY <1>6, <2>3, <3>1, <3>2, <3>3
  <2> QED BY <2>3 DEF OneJobPerChunk
<1>14. ReceiptShaped' /\ ReceiptTruthful'
  BY <1>3, <1>6 DEF PreflightInv, ReceiptShaped, ReceiptTruthful
<1>15. Kept
  BY <1>3, <1>4, KeepsItself DEF SubmissionTypes, Kept
<1> QED BY <1>7, <1>8, <1>11, <1>12, <1>13, <1>14, <1>15 DEF PreflightInv, AskedOnce

\* Nothing is asked for, and nobody is at work, when the chain starts.
LEMMA PreflightStarts == InitSubmission => PreflightInv
<1> SUFFICES ASSUME InitSubmission PROVE PreflightInv
  OBVIOUS
<1>1. /\ lock = {} /\ disk = NoReceipt /\ calls = {} /\ jobs = <<>> /\ JobIds = {}
      /\ \A s \in Submitters : pc[s] = "idle"
  BY DEF InitSubmission, JobIds
<1>2. SubmissionTypes
  BY <1>1 DEF InitSubmission, SubmissionTypes, SubmitterPlaces
<1>3. Holder /\ Progress /\ OneCall /\ NotYet
  BY <1>1 DEF Holder, Progress, OneCall, NotYet, Busy
<1>4. AllAsked /\ ReceiptShaped /\ ReceiptTruthful /\ OneJobPerChunk
  BY <1>1 DEF AllAsked, ReceiptShaped, ReceiptTruthful, OneJobPerChunk
<1> QED BY <1>2, <1>3, <1>4 DEF PreflightInv, AskedOnce

\* Every step keeps the invariant, and what the receipt says.
LEMMA PreflightGoesOn ==
    ASSUME PreflightInv, [Next]_vars
    PROVE  PreflightInv' /\ Kept
<1>1. CASE UNCHANGED vars
  <2>1. PreflightInv'
    BY <1>1 DEF vars, PreflightInv, SubmissionTypes, Holder, Busy, Progress, AllAsked, Asked,
                OneCall, Mine, NotYet, AskedOnce, JobIds, ReceiptShaped, ReceiptTruthful,
                OneJobPerChunk
  <2> QED BY <1>1, <2>1, SameReceipt DEF vars
<1>2. CASE \E call \in calls : Accept(call)
  BY <1>2, AcceptStep
<1>3. ASSUME NEW s \in Submitters,
             \/ Open(s) \/ SkipSubmitted(s) \/ Announce(s) \/ Launch(s)
             \/ Recover(s) \/ NothingToRecover(s) \/ RecoveryFails(s)
             \/ Confirm(s) \/ Fail(s) \/ Complete(s) \/ Crash(s)
      PROVE  PreflightInv' /\ Kept
  BY <1>3, OpenStep, SkipStep, AnnounceStep, LaunchStep, RecoverStep, NothingStep,
     RecoveryFailsStep, ConfirmStep, FailStep, CompleteStep, CrashStep
<1> QED BY <1>1, <1>2, <1>3 DEF Next

\* Every job waits for the one before it, as the receipt has them.
LEMMA PreflightChain == PreflightInv => ChainOrder
<1> SUFFICES ASSUME PreflightInv PROVE ChainOrder
  OBVIOUS
<1>1. ASSUME NEW k \in JobIds, NEW c, c = jobs[k].name
      PROVE  IF c = 1 THEN jobs[k].dep = 0
             ELSE RecordedSubmitted(disk, c - 1) /\ jobs[k].dep = disk.jobs[c - 1].job
  <2>1. disk # NoReceipt /\ c \in 1..Len(disk.jobs) /\ jobs[k].dep = disk.jobs[c].dep
    BY <1>1 DEF PreflightInv, AllAsked, Asked
  <2>2. ChainShape(disk) /\ disk \in Receipts
    BY <2>1 DEF PreflightInv, ReceiptShaped, SubmissionTypes
  <2>3. jobs[k].dep = DependencyJob(disk, c)
    BY <2>1, <2>2 DEF ChainShape
  <2>4. c # 1 => c - 1 \in 1..Len(disk.jobs) - 1 /\ c - 1 \in 1..Len(disk.jobs)
    BY <2>1, <2>2, ChainRecords
  <2> QED BY <2>2, <2>3, <2>4 DEF ChainShape, DependencyJob, RecordedSubmitted
<1>2. disk # NoReceipt => ChainShape(disk)
  BY DEF PreflightInv, ReceiptShaped
<1> QED BY <1>1, <1>2 DEF ChainOrder, ChainShape

-----------------------------------------------------------------------------
\* The holder of the lock works on the receipt of the disk, and every call and
\* every job is one the receipt announced, whatever crashes and fails.
THEOREM PreflightInvariant == Spec => []PreflightInv
<1>1. PreflightInv /\ [Next]_vars => PreflightInv'
  BY PreflightGoesOn
<1> QED BY <1>1, PreflightStarts, PTL DEF Spec

\* Every job of the chain waits for the one before it, and the receipt names a
\* prefix of the plan.
THEOREM PreflightInChain == Spec => []ChainOrder
BY PreflightInvariant, PreflightChain, PTL

\* With a function that asks the cluster, no job is handed over twice, but by a
\* call that outlived its submitter.
THEOREM PreflightOnce == CanRecover => (Spec => []OneJobPerChunk)
<1> SUFFICES ASSUME CanRecover PROVE Spec => []OneJobPerChunk
  OBVIOUS
<1>1. PreflightInv => OneJobPerChunk
  BY DEF PreflightInv, AskedOnce
<1> QED BY <1>1, PreflightInvariant, PTL

\* The receipt is true of the cluster, and never takes back a job it named.
THEOREM PreflightReceipt == Spec => []ReceiptTruthful /\ NeverForgets
<1>1. PreflightInv => ReceiptTruthful
  BY DEF PreflightInv
<1>2. ASSUME PreflightInv, [Next]_vars, disk # NoReceipt
      PROVE  /\ disk' # NoReceipt
             /\ \A n \in 1..Len(disk.jobs) :
                   Submitted(disk.jobs[n]) =>
                       n <= Len(disk'.jobs) /\ disk'.jobs[n] = disk.jobs[n]
  <2>1. disk' # NoReceipt /\ Keeps(disk, disk') /\ disk \in Receipts
    BY <1>2, PreflightGoesOn DEF Kept, PreflightInv, SubmissionTypes
  <2>2. disk' \in Receipts
    BY <1>2, <2>1, PreflightGoesOn DEF PreflightInv, SubmissionTypes
  <2> QED BY <2>1, <2>2, ChainRecords DEF Keeps
<1>3. PreflightInv /\ [Next]_vars =>
          [disk # NoReceipt =>
            /\ disk' # NoReceipt
            /\ \A n \in 1..Len(disk.jobs) :
                  Submitted(disk.jobs[n]) =>
                      n <= Len(disk'.jobs) /\ disk'.jobs[n] = disk.jobs[n]]_vars
  BY <1>2
<1> QED BY <1>1, <1>3, PreflightInvariant, PTL DEF Spec, NeverForgets

-----------------------------------------------------------------------------
(* The rounds: a stage in work and the receipts before it.                 *)

Places == {"idle", "choosing", "running", "result", "receipt"}

Process ==
    [at : Places, stage : Nat, done : SUBSET Stages, out : Nat, from : Nat]

RoundTypes ==
    /\ kind \in {"pipeline", "research", "agent"}
    /\ receipt \in [Stages -> [out : Nat, from : Nat]]
    /\ artifact \in [Stages -> Nat]
    /\ ctl \in [Controllers -> Process]
    /\ results \in Nat /\ authorized \in BOOLEAN /\ overlap \in BOOLEAN

Has(s) == receipt[s] # NoReceiptYet
AtWork(c) == ctl[c].at \in {"running", "result", "receipt"}

\* The receipts are a prefix of the stages, and a controller knows a prefix.
ReceiptPrefixes ==
    /\ \A s \in Stages : Has(s) => \A t \in 1..s - 1 : Has(t)
    /\ \A c \in Controllers : \A s \in ctl[c].done :
          /\ Has(s)
          /\ kind # "pipeline" => \A t \in 1..s - 1 : t \in ctl[c].done

\* A stage in work is a stage, comes after those that have receipts, and its
\* result, once there, is not the number that stands for none.
Working ==
    \A c \in Controllers : AtWork(c) =>
        /\ ctl[c].stage \in Stages
        /\ \A t \in 1..ctl[c].stage - 1 : Has(t) /\ (kind # "pipeline" => t \in ctl[c].done)
        /\ kind = "research" /\ ctl[c].stage = HoldoutStage => authorized
        /\ ctl[c].at # "running" => ctl[c].out # 0
        /\ ctl[c].at = "result" => kind = "agent"

\* A controller that runs alone knows every receipt there is.
Alone ==
    ~ overlap =>
        \A c \in Controllers : ctl[c].at # "idle" =>
            /\ \A d \in Controllers : ctl[d].at # "idle" => d = c
            /\ kind # "pipeline" => \A s \in Stages : Has(s) => s \in ctl[c].done
            /\ AtWork(c) => ~ Has(ctl[c].stage)

\* What it was given, and what it has saved.
Given ==
    kind = "agent" /\ ~ overlap =>
        \A c \in Controllers : AtWork(c) =>
            /\ ctl[c].stage > 1 => ctl[c].from = receipt[ctl[c].stage - 1].out
            /\ ctl[c].at = "receipt" => artifact[ctl[c].stage] = ctl[c].out

RoundInv == RoundTypes /\ ReceiptPrefixes /\ Working /\ Alone /\ EvidenceChain /\ Given

-----------------------------------------------------------------------------
\* What a controller's record is made of.
LEMMA ProcessRecord ==
    ASSUME NEW at \in Places, NEW stage \in Nat, NEW done \in SUBSET Stages,
           NEW out \in Nat, NEW from \in Nat
    PROVE  [at |-> at, stage |-> stage, done |-> done, out |-> out, from |-> from] \in Process
  BY DEF Process

\* The invariant holds before any controller is started.
LEMMA RoundInvInit == InitRound => RoundInv
<1> SUFFICES ASSUME InitRound PROVE RoundInv
  OBVIOUS
<1> USE DEF InitRound
<1>1. RoundTypes
  BY DEF RoundTypes, Process, Places, AtRest, NoReceiptYet
<1>2. ReceiptPrefixes /\ Working /\ Alone
  BY DEF ReceiptPrefixes, Working, Alone, Has, AtWork, AtRest
<1>3. EvidenceChain /\ Given
  BY DEF EvidenceChain, Given, AtWork, AtRest
<1> QED
  BY <1>1, <1>2, <1>3 DEF RoundInv

\* Starting a controller reads the receipts and changes none.
LEMMA BeginKeeps ==
    ASSUME NEW c \in Controllers, RoundInv, Begin(c)
    PROVE  RoundInv'
<1> USE DEF RoundInv
<1>u. UNCHANGED <<kind, receipt, artifact, results, authorized>>
  BY DEF Begin
<1>c. /\ ctl'[c] = Started(Completed)
      /\ \A d \in Controllers : d # c => ctl'[d] = ctl[d]
  BY DEF Begin, RoundTypes
<1>1. RoundTypes'
  BY DEF Begin, Started, RoundTypes, Process, Places, AtRest, Completed
<1>2. ReceiptPrefixes'
  <2>1. (\A s \in Stages : Has(s) => \A t \in 1..s - 1 : Has(t))'
    BY <1>u DEF ReceiptPrefixes, Has
  <2>2. ASSUME NEW d \in Controllers, NEW s \in ctl'[d].done
        PROVE  /\ Has(s)'
               /\ kind' # "pipeline" => \A t \in 1..s - 1 : t \in ctl'[d].done
    <3>1. CASE d # c
      BY <3>1, <2>2, <1>u, <1>c DEF ReceiptPrefixes, Has
    <3>2. CASE d = c
      <4>1. ctl'[d].done = Completed
        BY <3>2, <1>c DEF Started
      <4>2. s \in Stages /\ Has(s) /\ \A t \in 1..s - 1 : t \in Stages /\ Has(t)
        BY <4>1, <2>2, RoundAssumption, SMT DEF Completed, Has, ReceiptPrefixes, Stages
      <4> QED
        BY <4>1, <4>2, <1>u DEF Completed, Has
    <3> QED
      BY <3>1, <3>2
  <2> QED
    BY <2>1, <2>2 DEF ReceiptPrefixes
<1>3. Working'
  BY DEF Begin, Started, RoundTypes, Working, AtWork, Has, AtRest
<1>4. Alone'
  BY DEF Begin, Started, RoundTypes, Alone, AtWork, Has, AtRest, Completed
<1>5. EvidenceChain' /\ Given'
  BY DEF Begin, Started, RoundTypes, EvidenceChain, Given, AtWork, AtRest
<1> QED
  BY <1>1, <1>2, <1>3, <1>4, <1>5

\* A controller that turns to a stage has every stage before it done.
LEMMA RunStageKeeps ==
    ASSUME NEW c \in Controllers, RoundInv, RunStage(c)
    PROVE  RoundInv'
<1> USE DEF RoundInv
<1> PICK s \in Stages \ Done(c) :
          /\ \A t \in 1..s - 1 : t \in Done(c)
          /\ MayShow(s)
          /\ ctl' = [ctl EXCEPT ![c].at = "running", ![c].stage = s,
                       ![c].from = IF kind = "agent" /\ s > 1 THEN artifact[s - 1] ELSE 0]
  BY DEF RunStage
<1>n. s \in Nat /\ s >= 1 /\ (s > 1 => s - 1 \in Stages /\ s - 1 \in 1..s - 1)
  BY RoundAssumption, SMT DEF Stages
<1>u. UNCHANGED <<kind, receipt, artifact, results, authorized, overlap>> /\ ctl[c].at = "choosing"
  BY DEF RunStage
<1>c. /\ ctl'[c].at = "running" /\ ctl'[c].stage = s /\ ctl'[c].done = ctl[c].done
      /\ ctl'[c].out = ctl[c].out
      /\ ctl'[c].from = (IF kind = "agent" /\ s > 1 THEN artifact[s - 1] ELSE 0)
      /\ \A d \in Controllers : d # c => ctl'[d] = ctl[d]
  BY DEF RoundTypes, Process
<1>0. \A t \in 1..s - 1 : Has(t) /\ (kind # "pipeline" => t \in ctl[c].done)
  BY DEF Done, Completed, Has, ReceiptPrefixes
<1>1. RoundTypes'
  <2>1. (IF kind = "agent" /\ s > 1 THEN artifact[s - 1] ELSE 0) \in Nat
    BY <1>n DEF RoundTypes
  <2>2. ctl'[c] = [at |-> "running", stage |-> s, done |-> ctl[c].done, out |-> ctl[c].out,
                     from |-> IF kind = "agent" /\ s > 1 THEN artifact[s - 1] ELSE 0]
    BY DEF RoundTypes, Process
  <2>3. ctl'[c] \in Process
    <3>1. ctl[c].done \in SUBSET Stages /\ ctl[c].out \in Nat /\ "running" \in Places
      BY DEF RoundTypes, Process, Places
    <3> HIDE DEF RoundInv
    <3> DEFINE given == IF kind = "agent" /\ s > 1 THEN artifact[s - 1] ELSE 0
    <3>2. given \in Nat
      BY <2>1
    <3> HIDE DEF given
    <3>3. [at |-> "running", stage |-> s, done |-> ctl[c].done, out |-> ctl[c].out, from |-> given]
            \in Process
      BY <3>1, <3>2, <1>n, ProcessRecord
    <3> QED
      BY <2>2, <3>3 DEF given
  <2>4. \A d \in Controllers : ctl'[d] \in Process
    BY <2>3, <1>c DEF RoundTypes
  <2>5. ctl' = [d \in Controllers |-> ctl'[d]]
    BY DEF RoundTypes
  <2>6. ctl' \in [Controllers -> Process]
    <3> HIDE DEF RoundInv
    <3> QED
      BY <2>4, <2>5
  <2> QED
    BY <2>6, <1>u DEF RoundTypes
<1>2. ReceiptPrefixes'
  BY <1>u, <1>c DEF RoundTypes, Process, ReceiptPrefixes, Has
<1>3. Working'
  <2> SUFFICES ASSUME NEW d \in Controllers, AtWork(d)'
               PROVE  (/\ ctl[d].stage \in Stages
                       /\ \A t \in 1..ctl[d].stage - 1 : Has(t) /\ (kind # "pipeline" => t \in ctl[d].done)
                       /\ kind = "research" /\ ctl[d].stage = HoldoutStage => authorized
                       /\ ctl[d].at # "running" => ctl[d].out # 0
                       /\ ctl[d].at = "result" => kind = "agent")'
    BY DEF Working
  <2>1. CASE d # c
    BY <2>1, <1>u, <1>c DEF Working, AtWork, Has
  <2>2. CASE d = c
    BY <2>2, <1>u, <1>c, <1>0 DEF Has, MayShow
  <2> QED
    BY <2>1, <2>2
<1>4. Alone'
  BY <1>u, <1>c DEF RoundTypes, Process, Alone, AtWork, Has, Done, Completed
<1>5. EvidenceChain'
  BY <1>u DEF EvidenceChain
<1>6. Given'
  <2> SUFFICES ASSUME kind = "agent", ~ overlap, NEW d \in Controllers, AtWork(d)'
               PROVE  /\ ctl'[d].stage > 1 => ctl'[d].from = receipt[ctl'[d].stage - 1].out
                      /\ ctl'[d].at = "receipt" => artifact[ctl'[d].stage] = ctl'[d].out
    BY <1>u DEF Given
  <2>1. CASE d # c
    BY <2>1, <1>c DEF Given, AtWork
  <2>2. CASE d = c
    <3>1. s > 1 => artifact[s - 1] = receipt[s - 1].out
      BY <1>n, <1>0 DEF EvidenceChain, Has
    <3> QED
      BY <2>2, <3>1, <1>c
  <2> QED
    BY <2>1, <2>2
<1> QED
  BY <1>1, <1>2, <1>3, <1>4, <1>5, <1>6

\* A runner's result is a number that no file had.
LEMMA RunnerReturnsKeeps ==
    ASSUME NEW c \in Controllers, RoundInv, RunnerReturns(c)
    PROVE  RoundInv'
<1> USE DEF RoundInv
<1>u. /\ UNCHANGED <<kind, receipt, artifact, authorized, overlap>> /\ ctl[c].at = "running"
      /\ results' = results + 1
  BY DEF RunnerReturns
<1>c. /\ ctl'[c].at = (IF kind = "agent" THEN "result" ELSE "receipt") /\ ctl'[c].stage = ctl[c].stage /\ ctl'[c].done = ctl[c].done
      /\ ctl'[c].out = results'
      /\ ctl'[c].from = ctl[c].from
      /\ \A d \in Controllers : d # c => ctl'[d] = ctl[d]
  BY DEF RoundTypes, Process, RunnerReturns
<1>1. RoundTypes'
  BY <1>u, <1>c DEF RoundTypes, Process, Places, RunnerReturns
<1>2. ReceiptPrefixes'
  BY <1>u, <1>c DEF RoundTypes, Process, ReceiptPrefixes, Has
<1>3. Working'
  BY <1>u, <1>c DEF RoundTypes, Process, Working, AtWork, Has
<1>4. Alone'
  BY <1>u, <1>c DEF RoundTypes, Process, Alone, AtWork, Has
<1>5. EvidenceChain' /\ Given'
  BY <1>u, <1>c DEF RoundTypes, Process, EvidenceChain, Given, AtWork
<1> QED
  BY <1>1, <1>2, <1>3, <1>4, <1>5

\* The result of a stage without a receipt replaces no evidence, when alone.
LEMMA SaveArtifactKeeps ==
    ASSUME NEW c \in Controllers, RoundInv, SaveArtifact(c)
    PROVE  RoundInv'
<1> USE DEF RoundInv
<1>u. /\ UNCHANGED <<kind, receipt, results, authorized, overlap>> /\ ctl[c].at = "result"
      /\ AtWork(c) /\ ctl[c].stage \in Stages
      /\ artifact' = [artifact EXCEPT ![ctl[c].stage] = ctl[c].out]
  BY DEF SaveArtifact, Working, AtWork
<1>c. /\ ctl'[c].at = "receipt" /\ ctl'[c].stage = ctl[c].stage /\ ctl'[c].done = ctl[c].done
      /\ ctl'[c].out = ctl[c].out
      /\ ctl'[c].from = ctl[c].from
      /\ \A d \in Controllers : d # c => ctl'[d] = ctl[d]
  BY DEF RoundTypes, Process, SaveArtifact
<1>1. RoundTypes'
  BY <1>u, <1>c DEF RoundTypes, Process, Places, SaveArtifact
<1>2. ReceiptPrefixes'
  BY <1>u, <1>c DEF RoundTypes, Process, ReceiptPrefixes, Has
<1>3. Working'
  BY <1>u, <1>c DEF RoundTypes, Process, Working, AtWork, Has
<1>4. Alone'
  BY <1>u, <1>c DEF RoundTypes, Process, Alone, AtWork, Has
<1>5. EvidenceChain'
  BY <1>u, <1>c DEF RoundTypes, Process, EvidenceChain, Alone, Has
<1>6. Given'
  BY <1>u, <1>c DEF RoundTypes, Process, Given, AtWork, Alone
<1> QED
  BY <1>1, <1>2, <1>3, <1>4, <1>5, <1>6

\* A receipt extends the prefix; alone, it extends the chain.
LEMMA SaveReceiptKeeps ==
    ASSUME NEW c \in Controllers, RoundInv, SaveReceipt(c)
    PROVE  RoundInv'
<1> USE DEF RoundInv
<1> DEFINE s == ctl[c].stage
<1>u. /\ UNCHANGED <<kind, artifact, results, authorized, overlap>> /\ ctl[c].at = "receipt"
      /\ AtWork(c) /\ s \in Stages /\ s \in Nat
      /\ receipt' = [receipt EXCEPT ![s] = [out |-> ctl[c].out, from |-> ctl[c].from]]
  BY DEF SaveReceipt, Working, AtWork, Stages
<1>c. /\ ctl'[c].at = "choosing" /\ ctl'[c].stage = ctl[c].stage /\ ctl'[c].done = ctl[c].done \cup {s}
      /\ ctl'[c].out = ctl[c].out
      /\ ctl'[c].from = ctl[c].from
      /\ \A d \in Controllers : d # c => ctl'[d] = ctl[d]
  BY DEF RoundTypes, Process, SaveReceipt
<1>r. /\ receipt'[s] = [out |-> ctl[c].out, from |-> ctl[c].from]
      /\ receipt'[s] # NoReceiptYet
      /\ \A t \in Stages : t # s => receipt'[t] = receipt[t]
  BY <1>u DEF RoundTypes, Working, NoReceiptYet
<1>b. \A t \in 1..s - 1 : t \in Stages /\ Has(t)
  BY <1>u, RoundAssumption, SMT DEF Working, Stages
<1>1. RoundTypes'
  <2>1. ctl' \in [Controllers -> Process]
    <3>1. ctl[c].done \cup {s} \in SUBSET Stages
      BY <1>u DEF RoundTypes, Process
    <3> QED
      BY <3>1, ZenonT(40) DEF SaveReceipt, RoundTypes, Process, Places
  <2>2. receipt' \in [Stages -> [out : Nat, from : Nat]]
    BY <1>u DEF RoundTypes, Process
  <2> QED
    BY <2>1, <2>2, <1>u DEF RoundTypes
<1>h. \A t \in Stages : Has(t)' <=> (Has(t) \/ t = s)
  BY <1>r DEF Has
<1>k. ReceiptPrefixes /\ Working /\ AtWork(c) /\ (Working => \A t \in 1..s - 1 : kind # "pipeline" => t \in ctl[c].done)
  BY <1>u DEF Working
<1>t. \A q \in Stages : \A t \in 1..q - 1 : t \in Stages
  BY RoundAssumption, SMT DEF Stages
<1>2. ReceiptPrefixes'
  <2>1. ASSUME NEW q \in Stages, Has(q)', NEW t \in 1..q - 1
        PROVE  Has(t)'
    <3>1. t \in Stages
      BY <1>t
    <3>2. CASE q = s
      BY <3>1, <3>2, <1>b, <1>h
    <3>3. CASE q # s
      BY <3>1, <3>3, <2>1, <1>h DEF ReceiptPrefixes
    <3> QED
      BY <3>2, <3>3
  <2>2. ASSUME NEW d \in Controllers, NEW q \in ctl'[d].done
        PROVE  /\ Has(q)'
               /\ kind' # "pipeline" => \A t \in 1..q - 1 : t \in ctl'[d].done
    <3>1. ctl[d].done \subseteq Stages
      BY DEF RoundTypes, Process
    <3>2. CASE q \in ctl[d].done
      BY <3>1, <3>2, <1>h, <1>u, <1>c DEF ReceiptPrefixes
    <3>3. CASE q \notin ctl[d].done
      <4>1. d = c /\ q = s
        BY <3>3, <2>2, <1>c
      <4> QED
        BY <4>1, <1>h, <1>u, <1>c, <1>k
    <3> QED
      BY <3>2, <3>3
  <2> QED
    BY <2>1, <2>2 DEF ReceiptPrefixes
<1>3. Working'
  <2> SUFFICES ASSUME NEW d \in Controllers, AtWork(d)'
               PROVE  (/\ ctl[d].stage \in Stages
                       /\ \A t \in 1..ctl[d].stage - 1 : Has(t) /\ (kind # "pipeline" => t \in ctl[d].done)
                       /\ kind = "research" /\ ctl[d].stage = HoldoutStage => authorized
                       /\ ctl[d].at # "running" => ctl[d].out # 0
                       /\ ctl[d].at = "result" => kind = "agent")'
    BY DEF Working
  <2>1. d # c
    BY <1>c DEF AtWork
  <2>2. ctl'[d] = ctl[d] /\ AtWork(d)
    BY <2>1, <1>c DEF AtWork
  <2>3. \A t \in 1..ctl[d].stage - 1 : Has(t)'
    BY <2>2, <1>h, <1>t DEF Working
  <2> QED
    BY <2>2, <2>3, <1>u DEF Working
<1>4. Alone'
  BY <1>u, <1>c, <1>r DEF RoundTypes, Process, Alone, AtWork, Has
<1>5. EvidenceChain'
  <2> SUFFICES ASSUME kind = "agent", ~ overlap, NEW q \in Stages, Has(q)'
               PROVE  /\ artifact[q] = receipt'[q].out
                      /\ q > 1 => receipt'[q].from = receipt'[q - 1].out
    BY <1>u DEF EvidenceChain, Has
  <2>1. q > 1 => q - 1 \in Stages /\ q - 1 \in 1..q - 1 /\ q - 1 # q
    BY RoundAssumption, SMT DEF Stages
  <2>2. CASE q = s
    BY <2>1, <2>2, <1>u, <1>r DEF Given
  <2>3. CASE q # s
    <3>1. Has(q) /\ receipt'[q] = receipt[q]
      BY <2>3, <1>r DEF Has
    <3>2. q > 1 => q - 1 # s
      BY <3>1, <2>1, <1>u DEF ReceiptPrefixes, Alone
    <3> QED
      BY <3>1, <3>2, <2>1, <1>r DEF EvidenceChain, Has
  <2> QED
    BY <2>2, <2>3
<1>6. Given'
  BY <1>u, <1>c, <1>r DEF RoundTypes, Process, Given, AtWork, Alone
<1> QED
  BY <1>1, <1>2, <1>3, <1>4, <1>5, <1>6

\* A controller that stops leaves the files as they are.
LEMMA StopKeeps ==
    ASSUME NEW c \in Controllers, RoundInv, Stop(c)
    PROVE  RoundInv'
<1> USE DEF RoundInv
<1>1. RoundTypes'
  BY DEF Stop, RoundTypes, Process, Places, AtRest
<1>2. ReceiptPrefixes'
  BY DEF Stop, RoundTypes, ReceiptPrefixes, Has, AtRest
<1>3. Working'
  BY DEF Stop, RoundTypes, Working, AtWork, Has, AtRest
<1>4. Alone'
  BY DEF Stop, RoundTypes, Alone, AtWork, Has, AtRest
<1>5. EvidenceChain' /\ Given'
  BY DEF Stop, RoundTypes, EvidenceChain, Given, AtWork, AtRest
<1> QED
  BY <1>1, <1>2, <1>3, <1>4, <1>5

\* Every step keeps the invariant.
LEMMA RoundInvStep == RoundInv /\ [NextRound]_roundVars => RoundInv'
<1> SUFFICES ASSUME RoundInv, [NextRound]_roundVars PROVE RoundInv'
  OBVIOUS
<1>1. CASE Authorize
  BY <1>1 DEF Authorize, RoundInv, RoundTypes, ReceiptPrefixes, Working, Alone, EvidenceChain, Given,
              Has, AtWork
<1>2. ASSUME NEW c \in Controllers, RoundStep(c) PROVE RoundInv'
  BY <1>2, BeginKeeps, RunStageKeeps, RunnerReturnsKeeps, SaveArtifactKeeps, SaveReceiptKeeps,
     StopKeeps DEF RoundStep
<1>3. CASE UNCHANGED roundVars
  BY <1>3 DEF roundVars, RoundInv, RoundTypes, ReceiptPrefixes, Working, Alone, EvidenceChain, Given,
              Has, AtWork
<1> QED
  BY <1>1, <1>2, <1>3 DEF NextRound

LEMMA RoundInvAlways == SpecRound => []RoundInv
  BY RoundInvInit, RoundInvStep, PTL DEF SpecRound

-----------------------------------------------------------------------------
\* The stages of a round run in order, the holdout after the selection and
\* with the authorization, however many controllers run and die: start() and
\* _context of the controllers in campaigns/.
THEOREM RoundInOrder == SpecRound => []StagesInOrder
<1>1. RoundInv => StagesInOrder
  <2> SUFFICES ASSUME RoundInv, NEW c \in Controllers, AtWork(c)
               PROVE  /\ \A s \in 1..ctl[c].stage - 1 : Has(s)
                      /\ ctl[c].stage = HoldoutStage =>
                            Has(SelectionStage) /\ (kind = "research" => authorized)
    BY DEF StagesInOrder, AtWork, Has
  <2>1. /\ \A s \in 1..ctl[c].stage - 1 : Has(s)
        /\ kind = "research" /\ ctl[c].stage = HoldoutStage => authorized
    BY DEF RoundInv, Working
  <2>2. ctl[c].stage = HoldoutStage => SelectionStage \in 1..ctl[c].stage - 1
    BY RoundAssumption
  <2> QED
    BY <2>1, <2>2
<1> QED
  BY <1>1, RoundInvAlways, PTL

\* The receipts of the agent's controller are a chain of evidence, as long as
\* no two controllers run at the same time (agent_harness.py, start).
THEOREM RoundEvidence == SpecRound => []EvidenceChain
<1>1. RoundInv => EvidenceChain
  BY DEF RoundInv
<1> QED
  BY <1>1, RoundInvAlways, PTL

\* A receipt, once written, stays as it is, as long as no two controllers run
\* at the same time.
THEOREM RoundReceiptFinal == SpecRound => ReceiptFinal
<1> DEFINE Stays == ~ overlap' => \A s \in Stages :
                       receipt[s] # NoReceiptYet => receipt'[s] = receipt[s]
<1>1. RoundInv /\ [NextRound]_roundVars => [Stays]_roundVars
  <2> SUFFICES ASSUME RoundInv, NextRound PROVE Stays
    OBVIOUS
  <2>1. ASSUME NEW c \in Controllers, SaveReceipt(c) PROVE Stays
    <3>1. /\ overlap' = overlap /\ AtWork(c) /\ ctl[c].at # "idle"
          /\ receipt' = [receipt EXCEPT ![ctl[c].stage] = [out |-> ctl[c].out, from |-> ctl[c].from]]
      BY <2>1 DEF SaveReceipt, AtWork
    <3> QED
      BY <3>1 DEF RoundInv, RoundTypes, Alone, Has
  <2>2. CASE UNCHANGED receipt
    BY <2>2
  <2> QED
    BY <2>1, <2>2 DEF NextRound, RoundStep, Authorize, Begin, RunStage, RunnerReturns,
                      SaveArtifact, Stop
<1> QED
  BY <1>1, RoundInvAlways, PTL DEF SpecRound, ReceiptFinal

-----------------------------------------------------------------------------
(* The display of the holdout.                                               *)

JobStages == {"queued", "reading", "looking", "building", "writing", "closed", "validating",
              "ok", "failed"}

SubmitRuns == [at : {"chunks", "over"}, next : 1..DisplayChunks + 1,
               lanes : [1..DisplayLanes -> Nat]]
QueuedJobs == [chunk : 0..DisplayChunks, deps : SUBSET Nat]
JobWork == [stage : JobStages, date : 1..DatesInChunk]
FileStates == {"none", "open", "whole", "invalid"}

DisplayTypes ==
    /\ submit \in Seq(SubmitRuns)
    /\ queue \in Seq(QueuedJobs)
    /\ work \in Seq(JobWork)
    /\ file \in Seq(FileStates)
    /\ Len(work) = Len(queue) /\ Len(file) = Len(queue)
    /\ temp \in [HoldoutDates -> Nat]
    /\ target \in [HoldoutDates -> [by : Nat, state : FileStates]]

\* The jobs after number base are of the chunks 1 to m, each after the job of
\* the chunk before it in its lane.
Series(base, m) ==
    /\ base \in Nat /\ base + m <= Len(queue)
    /\ \A c \in 1..m : /\ queue[base + c].chunk = c
                       /\ c > DisplayLanes => base + c - DisplayLanes \in queue[base + c].deps

\* A run of submit is the last one, nothing has started, the jobs it has
\* submitted are the last ones, and it knows the last job of every lane.
SeriesBegun(n) ==
    LET m == submit[n].next - 1
        base == Len(queue) - m
    IN  /\ Series(base, m)
        /\ \A l \in 1..DisplayLanes : submit[n].lanes[l] <= Len(queue)
        /\ \A c \in 1..m : c + DisplayLanes > m => submit[n].lanes[Lane(c)] = base + c

Submitting ==
    \A n \in DOMAIN submit : submit[n].at = "chunks" =>
        /\ n = Len(submit)
        /\ \A k \in DOMAIN work : work[k].stage = "queued"
        /\ SeriesBegun(n)

\* finish comes after a job of each chunk, and waits for the last of each lane.
SeriesEnded(k) ==
    LET base == k - DisplayChunks - 1
    IN  /\ Series(base, DisplayChunks)
        /\ \A c \in 1..DisplayChunks : c + DisplayLanes > DisplayChunks => base + c \in queue[k].deps

Finishes == \A k \in DOMAIN queue : queue[k].chunk = 0 => SeriesEnded(k)

\* A job that is queued is at its first date, one that has started is after
\* jobs that have succeeded; finish does nothing but read.
Waits ==
    \A k \in DOMAIN queue :
        /\ queue[k].deps \subseteq 1..k - 1
        /\ work[k].stage = "queued" => work[k].date = 1
        /\ work[k].stage # "queued" => \A j \in queue[k].deps : work[j].stage = "ok"
        /\ IF queue[k].chunk = 0 THEN work[k].stage \in {"queued", "reading"}
           ELSE work[k].stage # "reading"

DateAt(c, t) == (c - 1) * DatesInChunk + t

\* What job k has validated.
Passed(k) == IF work[k].stage = "ok" THEN 1..DatesInChunk ELSE 1..work[k].date - 1

\* The temporary name of a date is that of a job which is at that date and has
\* not renamed it; a file that is closed is whole or invalid.
TempOf(d) ==
    LET k == temp[d]
    IN  k # 0 => /\ k \in DOMAIN queue /\ queue[k].chunk # 0
                 /\ DateAt(queue[k].chunk, work[k].date) = d
                 /\ work[k].stage \in {"writing", "closed", "failed"}
Temporaries == \A d \in HoldoutDates : TempOf(d)

Closed == \A k \in DOMAIN queue : work[k].stage = "closed" => file[k] \in {"whole", "invalid"}

\* Two jobs of the chunk at most.
Few(c) == Cardinality(ChunkJobs(c)) <= 2

\* The file of the t-th date of a chunk is whole, or it is one that a job of the
\* chunk has put there and will not get past.
Spoiled(c, t) ==
    LET seen == target[DateAt(c, t)]
    IN  /\ seen.state = "invalid" /\ seen.by \in ChunkJobs(c)
        /\ t \notin Passed(seen.by)
Stands(c, t) == target[DateAt(c, t)].state = "whole" \/ Spoiled(c, t)

\* What a job has validated stays whole, or another job has spoiled it.
Validated ==
    \A k \in DOMAIN queue : queue[k].chunk # 0 /\ Few(queue[k].chunk) =>
        \A t \in Passed(k) : Stands(queue[k].chunk, t)

DisplayInv ==
    /\ DisplayTypes /\ Submitting /\ Finishes /\ Waits /\ Temporaries /\ Closed /\ Validated

-----------------------------------------------------------------------------
(* Lanes and dates.                                                          *)

\* Chunks are dealt to the lanes in turn.
LEMMA LaneTurn ==
    ASSUME NEW c \in Nat \ {0}, NEW e \in Nat \ {0}
    PROVE  /\ Lane(c) \in 1..DisplayLanes
           /\ Lane(c + DisplayLanes) = Lane(c)
           /\ e < c /\ c < e + DisplayLanes => Lane(e) # Lane(c)
<1> DEFINE m == DisplayLanes
<1>1. m \in Nat \ {0}
  BY DisplayAssumption
<1>2. ASSUME NEW x \in Nat
      PROVE  x % m \in 0..m - 1 /\ x \div m \in Nat /\ x = m * (x \div m) + (x % m)
  BY <1>1, SMT
<1>3. ASSUME NEW q \in Nat, NEW r \in 0..m - 1
      PROVE  (m * q + r) % m = r
  BY <1>1, SMT
<1>4. PICK r \in 0..m - 1, q \in Nat : c - 1 = m * q + r /\ (c - 1) % m = r
  <2>1. c - 1 \in Nat
    OBVIOUS
  <2> QED BY <1>2, <2>1
<1>5. (c - 1 + m) % m = r
  <2>1. m * (q + 1) = m * q + m /\ m * q \in Nat
    BY <1>1, SMT
  <2>2. (m * (q + 1) + r) % m = r
    BY <1>3
  <2>3. m * (q + 1) + r = c - 1 + m
    BY <1>1, <1>4, <2>1
  <2> QED BY <2>2, <2>3
<1>6. ASSUME e < c, c < e + m
      PROVE  (e - 1) % m # r
  <2> SUFFICES ASSUME (e - 1) % m = r PROVE FALSE
    OBVIOUS
  <2>1. PICK p \in Nat : e - 1 = m * p + r
    <3>1. e - 1 \in Nat
      OBVIOUS
    <3> QED BY <1>2, <3>1
  <2>2. PICK y \in Int : y = q - p
    OBVIOUS
  <2>3. m * q = m * p + m * y /\ m * p \in Nat /\ m * q \in Nat /\ m * y \in Int
    BY <1>1, <2>2, SMT
  <2>4. m * y > 0 /\ m * y < m
    BY <1>1, <1>4, <1>6, <2>1, <2>3
  <2>5. y <= 0 => m * y <= 0
    BY <1>1, SMT
  <2>6. y >= 1 => m * y >= m
    BY <1>1, SMT
  <2> HIDE DEF m
  <2> QED BY <1>1, <2>2, <2>3, <2>4, <2>5, <2>6
<1>7. (c + m) - 1 = c - 1 + m
  BY <1>1
<1> QED BY <1>1, <1>4, <1>5, <1>6, <1>7 DEF Lane

\* Every date is a place in one chunk, and a place in a chunk is one date.
LEMMA DatesOfChunks ==
    /\ \A c \in 1..DisplayChunks, t \in 1..DatesInChunk : DateAt(c, t) \in HoldoutDates
    /\ \A c, e \in 1..DisplayChunks : \A t, u \in 1..DatesInChunk :
          DateAt(c, t) = DateAt(e, u) => c = e /\ t = u
    /\ \A d \in HoldoutDates : \E c \in 1..DisplayChunks : \E t \in 1..DatesInChunk : d = DateAt(c, t)
<1> DEFINE m == DatesInChunk
<1>1. m \in Nat \ {0} /\ DisplayChunks \in Nat \ {0} /\ DisplayChunks * m \in Nat
  BY DisplayAssumption, SMT
<1>2. ASSUME NEW c \in 1..DisplayChunks, NEW t \in 1..m
      PROVE  (c - 1) * m + t \in 1..DisplayChunks * m
  <2>1. (c - 1) * m \in Nat /\ c * m = (c - 1) * m + m /\ c * m \in Nat
    BY <1>1, SMT
  <2>2. c * m <= DisplayChunks * m
    BY <1>1, SMT
  <2> HIDE DEF m
  <2> QED BY <1>1, <2>1, <2>2
<1>3. ASSUME NEW c \in 1..DisplayChunks, NEW e \in 1..DisplayChunks, NEW t \in 1..m, NEW u \in 1..m,
             (c - 1) * m + t = (e - 1) * m + u
      PROVE  c = e /\ t = u
  <2>1. PICK y \in Int : y = c - e
    BY <1>1
  <2>2. (c - 1) * m = (e - 1) * m + y * m /\ (c - 1) * m \in Nat /\ (e - 1) * m \in Nat /\ y * m \in Int
    BY <1>1, <2>1, SMT
  <2>3. y >= 1 => y * m >= m
    BY <1>1, SMT
  <2>4. y <= -1 => y * m <= -m
    BY <1>1, SMT
  <2>5. y * m = u - t /\ u - t < m /\ u - t > -m
    <3> HIDE DEF m
    <3> QED BY <1>1, <1>3, <2>2
  <2>6. y = 0
    <3> HIDE DEF m
    <3> QED BY <1>1, <2>1, <2>3, <2>4, <2>5
  <2>7. y * m = 0
    BY <1>1, <2>6, SMT
  <2> HIDE DEF m
  <2> QED BY <1>1, <2>1, <2>5, <2>6, <2>7
<1>4. ASSUME NEW d \in 1..DisplayChunks * m
      PROVE  \E c \in 1..DisplayChunks : \E t \in 1..m : d = (c - 1) * m + t
  <2>1. PICK q \in Nat, r \in 0..m - 1 : d - 1 = m * q + r
    <3>1. d - 1 \in Nat
      BY <1>1
    <3>2. (d - 1) \div m \in Nat /\ (d - 1) % m \in 0..m - 1
          /\ d - 1 = m * ((d - 1) \div m) + ((d - 1) % m)
      BY <1>1, <3>1, SMT
    <3> QED BY <3>2
  <2>2. m * q \in Nat /\ m * q = ((q + 1) - 1) * m
    BY <1>1, SMT
  <2>3. q < DisplayChunks
    <3>1. q >= DisplayChunks => q * m >= DisplayChunks * m
      BY <1>1, SMT
    <3>2. q * m = m * q
      BY <1>1, SMT
    <3> HIDE DEF m
    <3> QED BY <1>1, <2>1, <2>2, <3>1, <3>2
  <2>4. d = ((q + 1) - 1) * m + (r + 1) /\ q + 1 \in 1..DisplayChunks /\ r + 1 \in 1..m
    <3> HIDE DEF m
    <3> QED BY <1>1, <2>1, <2>2, <2>3
  <2> QED BY <2>4
<1> QED BY <1>2, <1>3, <1>4 DEF DateAt, HoldoutDates

\* Of three jobs of a chunk that has two at most, two are the same.
LEMMA FewJobs ==
    ASSUME DisplayTypes, NEW c, Few(c), NEW i \in DOMAIN queue, NEW j \in DOMAIN queue,
           NEW k \in DOMAIN queue, queue[i].chunk = c, queue[j].chunk = c, queue[k].chunk = c
    PROVE  i = j \/ i = k \/ j = k
<1> SUFFICES ASSUME i # j, i # k, j # k PROVE FALSE
  OBVIOUS
<1> DEFINE S == ChunkJobs(c)
<1>1. DOMAIN queue = 1..Len(queue) /\ Len(queue) \in Nat
  BY DEF DisplayTypes
<1>2. IsFiniteSet(S) /\ Cardinality(S) \in Nat
  <2>1. IsFiniteSet(1..Len(queue))
    BY <1>1, FS_Interval
  <2>2. S \subseteq 1..Len(queue)
    BY <1>1 DEF ChunkJobs
  <2>3. IsFiniteSet(S)
    BY <2>1, <2>2, FS_Subset
  <2> QED BY <2>3, FS_CardinalityType
<1>3. {i, j, k} \subseteq S
  BY DEF ChunkJobs
<1>4. IsFiniteSet({i}) /\ Cardinality({i}) = 1
  BY FS_Singleton
<1>5. IsFiniteSet({i, j}) /\ Cardinality({i, j}) = 2
  <2>1. {i, j} = {i} \cup {j} /\ j \notin {i}
    OBVIOUS
  <2>2. /\ IsFiniteSet({i} \cup {j})
        /\ Cardinality({i} \cup {j}) = Cardinality({i}) + 1
    BY <1>4, <2>1, FS_AddElement
  <2> QED BY <1>4, <2>1, <2>2
<1>6. IsFiniteSet({i, j, k}) /\ Cardinality({i, j, k}) = 3
  <2>1. {i, j, k} = {i, j} \cup {k} /\ k \notin {i, j}
    OBVIOUS
  <2>2. /\ IsFiniteSet({i, j} \cup {k})
        /\ Cardinality({i, j} \cup {k}) = Cardinality({i, j}) + 1
    BY <1>5, <2>1, FS_AddElement
  <2> QED BY <1>5, <2>1, <2>2
<1>7. Cardinality({i, j, k}) <= Cardinality(S)
  BY <1>2, <1>3, FS_Subset
<1> QED BY <1>2, <1>6, <1>7 DEF Few

-----------------------------------------------------------------------------
(* The submission of the jobs.                                               *)

\* What the lists of the display are made of.
LEMMA DisplayLists ==
    ASSUME DisplayTypes
    PROVE  /\ Len(queue) \in Nat /\ Len(submit) \in Nat
           /\ DOMAIN submit = 1..Len(submit) /\ DOMAIN queue = 1..Len(queue)
           /\ DOMAIN work = 1..Len(queue) /\ DOMAIN file = 1..Len(queue)
           /\ \A n \in DOMAIN submit :
                 /\ submit[n] \in SubmitRuns
                 /\ submit[n].at \in {"chunks", "over"}
                 /\ submit[n].next \in 1..DisplayChunks + 1
                 /\ submit[n].lanes \in [1..DisplayLanes -> Nat]
           /\ \A k \in DOMAIN queue :
                 /\ queue[k] \in QueuedJobs
                 /\ queue[k].chunk \in 0..DisplayChunks /\ queue[k].deps \subseteq Nat
                 /\ work[k] \in JobWork
                 /\ work[k].stage \in JobStages /\ work[k].date \in 1..DatesInChunk
                 /\ file[k] \in FileStates
<1>1. /\ Len(queue) \in Nat /\ Len(submit) \in Nat
      /\ DOMAIN submit = 1..Len(submit) /\ DOMAIN queue = 1..Len(queue)
      /\ DOMAIN work = 1..Len(queue) /\ DOMAIN file = 1..Len(queue)
  BY DEF DisplayTypes
<1>2. \A n \in DOMAIN submit : submit[n] \in SubmitRuns
  BY DEF DisplayTypes
<1>3. \A k \in DOMAIN queue :
          queue[k] \in QueuedJobs /\ work[k] \in JobWork /\ file[k] \in FileStates
  BY <1>1 DEF DisplayTypes
<1>4. \A n \in DOMAIN submit :
          /\ submit[n].at \in {"chunks", "over"}
          /\ submit[n].next \in 1..DisplayChunks + 1
          /\ submit[n].lanes \in [1..DisplayLanes -> Nat]
  BY <1>2 DEF SubmitRuns
<1>5. \A k \in DOMAIN queue :
          queue[k].chunk \in 0..DisplayChunks /\ queue[k].deps \subseteq Nat
  BY <1>3 DEF QueuedJobs
<1>6. \A k \in DOMAIN queue : work[k].stage \in JobStages /\ work[k].date \in 1..DatesInChunk
  BY <1>3 DEF JobWork
<1> QED BY <1>1, <1>2, <1>3, <1>4, <1>5, <1>6

\* Before any job has started there is nothing to say of the files.
LEMMA NothingStarted ==
    ASSUME DisplayTypes, Waits, \A k \in DOMAIN work : work[k].stage = "queued"
    PROVE  Closed /\ Validated
<1>1. \A k \in DOMAIN queue : work[k].stage = "queued" /\ work[k].date = 1
  BY DisplayLists DEF Waits
<1>2. \A k \in DOMAIN queue : Passed(k) = {}
  BY <1>1 DEF Passed
<1> QED BY <1>1, <1>2 DEF Closed, Validated

\* A series stays one when jobs are added.
LEMMA SeriesStays ==
    ASSUME NEW base, NEW m \in Nat, Series(base, m), Len(queue) \in Nat, Len(queue') \in Nat,
           Len(queue) <= Len(queue'), \A k \in 1..Len(queue) : queue'[k] = queue[k]
    PROVE  Series(base, m)'
<1>1. base \in Nat /\ base + m <= Len(queue)
  BY DEF Series
<1>2. \A c \in 1..m : base + c \in 1..Len(queue)
  BY <1>1
<1> QED BY <1>1, <1>2 DEF Series

\* Another job is accepted: it is the last one, and queued.
LEMMA Accepts ==
    ASSUME DisplayTypes, NEW c \in 0..DisplayChunks, NEW D, D \subseteq Nat, Sbatch(c, D)
    PROVE  /\ queue' \in Seq(QueuedJobs) /\ work' \in Seq(JobWork)
           /\ file' \in Seq(FileStates)
           /\ Len(queue') = Len(queue) + 1 /\ Len(work') = Len(queue') /\ Len(file') = Len(queue')
           /\ temp' = temp /\ target' = target
           /\ \A k \in 1..Len(queue) : queue'[k] = queue[k] /\ work'[k] = work[k]
           /\ queue'[Len(queue) + 1].chunk = c /\ queue'[Len(queue) + 1].deps = D \ {0}
           /\ work'[Len(queue) + 1].stage = "queued" /\ work'[Len(queue) + 1].date = 1
<1>1. PICK new : new = [chunk |-> c, deps |-> D \ {0}]
  OBVIOUS
<1>2. PICK w : w = [stage |-> "queued", date |-> 1]
  OBVIOUS
<1>3. new \in QueuedJobs /\ new.chunk = c /\ new.deps = D \ {0}
  BY <1>1 DEF QueuedJobs
<1>4. w \in JobWork /\ w.stage = "queued" /\ w.date = 1
  BY <1>2, DisplayAssumption DEF JobWork, JobStages
<1>5. /\ queue' = Append(queue, new) /\ work' = Append(work, w) /\ file' = Append(file, "none")
      /\ temp' = temp /\ target' = target
  BY <1>1, <1>2 DEF Sbatch
<1>6. /\ queue \in Seq(QueuedJobs) /\ work \in Seq(JobWork)
      /\ file \in Seq(FileStates)
      /\ Len(work) = Len(queue) /\ Len(file) = Len(queue) /\ Len(queue) \in Nat
  BY DEF DisplayTypes
<1>7. /\ queue' \in Seq(QueuedJobs) /\ Len(queue') = Len(queue) + 1
      /\ queue'[Len(queue) + 1] = new /\ \A k \in 1..Len(queue) : queue'[k] = queue[k]
  BY <1>3, <1>5, <1>6
<1>8. /\ work' \in Seq(JobWork) /\ Len(work') = Len(queue) + 1
      /\ work'[Len(queue) + 1] = w /\ \A k \in 1..Len(queue) : work'[k] = work[k]
  BY <1>4, <1>5, <1>6
<1>9. file' \in Seq(FileStates) /\ Len(file') = Len(queue) + 1
  BY <1>5, <1>6 DEF FileStates
<1> QED BY <1>3, <1>4, <1>5, <1>7, <1>8, <1>9

\* While jobs are submitted the rest of the invariant goes on.
LEMMA SubmissionMoves ==
    ASSUME DisplayInv, NEW n \in DOMAIN submit, submit[n].at = "chunks",
           NEW c \in 0..DisplayChunks, NEW D, D \subseteq 0..Len(queue), Sbatch(c, D),
           NEW new, new = Len(queue) + 1, c = 0 => SeriesEnded(new)',
           NEW r \in SubmitRuns, submit' = [submit EXCEPT ![n] = r],
           r.at = "chunks" => SeriesBegun(n)'
    PROVE  DisplayInv'
<1>1. DisplayTypes /\ Submitting /\ Finishes /\ Waits /\ Temporaries
  BY DEF DisplayInv
<1>2. /\ Len(queue) \in Nat /\ Len(submit) \in Nat
      /\ DOMAIN submit = 1..Len(submit) /\ DOMAIN queue = 1..Len(queue)
      /\ DOMAIN work = 1..Len(queue)
      /\ \A k \in DOMAIN queue : queue[k].chunk \in 0..DisplayChunks
  BY <1>1, DisplayLists
<1>3. new = Len(queue) + 1
  OBVIOUS
<1>4. /\ queue' \in Seq(QueuedJobs) /\ work' \in Seq(JobWork)
      /\ file' \in Seq(FileStates)
      /\ Len(queue') = new /\ Len(work') = Len(queue') /\ Len(file') = Len(queue')
      /\ temp' = temp /\ target' = target
      /\ \A k \in 1..Len(queue) : queue'[k] = queue[k] /\ work'[k] = work[k]
      /\ queue'[new].chunk = c /\ queue'[new].deps = D \ {0}
      /\ work'[new].stage = "queued" /\ work'[new].date = 1
  BY <1>1, <1>2, <1>3, Accepts
<1>5. DOMAIN queue' = 1..new /\ DOMAIN work' = 1..new
  BY <1>2, <1>3, <1>4
<1>6. \A k \in 1..new : k = new \/ k \in 1..Len(queue)
  BY <1>2, <1>3
<1>7. /\ submit \in Seq(SubmitRuns) /\ submit' \in Seq(SubmitRuns) /\ submit'[n] = r
      /\ DOMAIN submit' = DOMAIN submit /\ Len(submit') = Len(submit)
      /\ \A i \in DOMAIN submit : i # n => submit'[i] = submit[i]
  BY <1>1, <1>2 DEF DisplayTypes
<1>8. DisplayTypes'
  BY <1>1, <1>3, <1>4, <1>7 DEF DisplayTypes
<1>9. n = Len(submit) /\ \A k \in DOMAIN work : work[k].stage = "queued"
  BY <1>1 DEF Submitting
<1>10. \A k \in DOMAIN work' : work'[k].stage = "queued"
  BY <1>2, <1>4, <1>5, <1>6, <1>9
<1>11. Submitting'
  <2> SUFFICES ASSUME NEW i \in DOMAIN submit', submit'[i].at = "chunks"
               PROVE  i = Len(submit') /\ SeriesBegun(i)'
    BY <1>10 DEF Submitting
  <2>1. i = n
    BY <1>1, <1>7, <1>9 DEF Submitting
  <2> QED BY <1>7, <1>9, <2>1
<1>12. Finishes'
  <2> SUFFICES ASSUME NEW k \in DOMAIN queue', queue'[k].chunk = 0
               PROVE  SeriesEnded(k)'
    BY DEF Finishes
  <2>1. CASE k = new
    BY <1>3, <1>4, <2>1
  <2>2. CASE k \in 1..Len(queue)
    <3>1. SeriesEnded(k)
      BY <1>1, <1>2, <1>4, <2>2 DEF Finishes
    <3>2. PICK base : base = k - DisplayChunks - 1
      OBVIOUS
    <3>3. Series(base, DisplayChunks)'
      <4>1. Series(base, DisplayChunks) /\ Len(queue) <= Len(queue') /\ DisplayChunks \in Nat
        BY <1>2, <1>3, <1>4, <3>1, <3>2, DisplayAssumption DEF SeriesEnded
      <4> QED BY <1>2, <1>3, <1>4, <4>1, SeriesStays
    <3>4. queue'[k] = queue[k]
      BY <1>4, <2>2
    <3>5. \A e \in 1..DisplayChunks : e + DisplayLanes > DisplayChunks => base + e \in queue[k].deps
      BY <3>1, <3>2 DEF SeriesEnded
    <3> QED BY <3>2, <3>3, <3>4, <3>5 DEF SeriesEnded
  <2> QED BY <1>5, <1>6, <2>1, <2>2
<1>13. Waits'
  <2> SUFFICES ASSUME NEW k \in DOMAIN queue'
               PROVE  /\ queue'[k].deps \subseteq 1..k - 1
                      /\ work'[k].stage = "queued" /\ work'[k].date = 1
    BY DEF Waits
  <2>1. CASE k = new
    BY <1>2, <1>3, <1>4, <2>1
  <2>2. CASE k \in 1..Len(queue)
    BY <1>1, <1>2, <1>4, <1>9, <2>2 DEF Waits
  <2> QED BY <1>5, <1>6, <2>1, <2>2
<1>14. Temporaries'
  BY <1>1, <1>2, <1>4, <1>5, <1>9 DEF Temporaries, TempOf
<1>15. Closed' /\ Validated'
  <2>1. \A k \in DOMAIN queue' : Passed(k)' = {} /\ work'[k].stage = "queued"
    BY <1>5, <1>10, <1>13 DEF Passed, Waits
  <2> QED BY <2>1 DEF Closed, Validated
<1> QED BY <1>8, <1>11, <1>12, <1>13, <1>14, <1>15 DEF DisplayInv

\* A run of submit begins with nothing submitted.
LEMMA BeginSubmitStep ==
    ASSUME DisplayInv, BeginSubmit
    PROVE  DisplayInv'
<1>1. DisplayTypes /\ Submitting /\ Finishes /\ Waits /\ Temporaries /\ Closed /\ Validated
  BY DEF DisplayInv
<1>2. /\ Len(queue) \in Nat /\ Len(submit) \in Nat
      /\ DOMAIN submit = 1..Len(submit) /\ DOMAIN work = 1..Len(queue)
  BY <1>1, DisplayLists
<1>3. PICK r : r = [at |-> "chunks", next |-> 1, lanes |-> [l \in 1..DisplayLanes |-> 0]]
  OBVIOUS
<1>4. r \in SubmitRuns /\ r.at = "chunks" /\ r.next = 1 /\ \A l \in 1..DisplayLanes : r.lanes[l] = 0
  <2>1. 1 \in 1..DisplayChunks + 1
    BY DisplayAssumption
  <2> QED BY <1>3, <2>1 DEF SubmitRuns
<1>5. /\ submit' = Append(submit, r) /\ queue' = queue /\ work' = work
      /\ file' = file /\ temp' = temp /\ target' = target
      /\ \A k \in DOMAIN work : work[k].stage = "queued"
      /\ \A n \in DOMAIN submit : submit[n].at = "over"
  BY <1>3 DEF BeginSubmit, fileVars, SubmitsOver
<1>6. PICK new : new = Len(submit) + 1
  OBVIOUS
<1>7. /\ submit' \in Seq(SubmitRuns) /\ Len(submit') = new /\ DOMAIN submit' = 1..new
      /\ submit'[new] = r /\ \A n \in 1..Len(submit) : submit'[n] = submit[n]
  BY <1>1, <1>2, <1>4, <1>5, <1>6 DEF DisplayTypes
<1>8. DisplayTypes'
  BY <1>1, <1>5, <1>7 DEF DisplayTypes
<1>9. Submitting'
  <2> SUFFICES ASSUME NEW n \in DOMAIN submit', submit'[n].at = "chunks"
               PROVE  n = Len(submit') /\ SeriesBegun(n)'
    BY <1>5 DEF Submitting
  <2>1. n = new
    <3>1. n = new \/ n \in 1..Len(submit)
      BY <1>2, <1>6, <1>7
    <3> QED BY <1>2, <1>5, <1>7, <3>1
  <2>2. Series(Len(queue), 0)'
    BY <1>2, <1>5 DEF Series
  <2>3. SeriesBegun(n)'
    <3>1. submit'[n].next - 1 = 0 /\ Len(queue') - 0 = Len(queue') /\ queue' = queue
      BY <1>2, <1>4, <1>5, <1>7, <2>1
    <3>2. \A l \in 1..DisplayLanes : submit'[n].lanes[l] <= Len(queue')
      BY <1>2, <1>4, <1>5, <1>7, <2>1
    <3> QED BY <2>2, <3>1, <3>2 DEF SeriesBegun
  <2> QED BY <1>7, <2>1, <2>3
<1>10. Finishes' /\ Waits' /\ Temporaries'
  BY <1>1, <1>5 DEF Finishes, SeriesEnded, Series, Waits, Temporaries, TempOf
<1>11. Closed' /\ Validated'
  BY <1>1, <1>5 DEF Closed, Validated, Few, ChunkJobs, Stands, Spoiled, Passed
<1> QED BY <1>8, <1>9, <1>10, <1>11 DEF DisplayInv

\* The job of the next chunk comes after the last one of its lane.
LEMMA SubmitChunkStep ==
    ASSUME DisplayInv, NEW n \in DOMAIN submit, SubmitChunk(n)
    PROVE  DisplayInv'
<1>1. DisplayTypes /\ Submitting
  BY DEF DisplayInv
<1>2. /\ Len(queue) \in Nat /\ submit[n] \in SubmitRuns /\ submit[n].next \in 1..DisplayChunks + 1
      /\ submit[n].lanes \in [1..DisplayLanes -> Nat]
      /\ DisplayChunks \in Nat \ {0} /\ DisplayLanes \in Nat \ {0}
  BY <1>1, DisplayLists, DisplayAssumption
<1>3. PICK m, base, lanes, next, lane :
          /\ m \in Nat /\ m = submit[n].next - 1 /\ base = Len(queue) - m /\ lanes = submit[n].lanes
          /\ next = m + 1 /\ lane = Lane(next)
  BY <1>2
<1>4. /\ submit[n].at = "chunks" /\ submit[n].next = next /\ next <= DisplayChunks /\ next \in Nat \ {0}
      /\ Sbatch(next, {lanes[lane]})
  <2>1. submit[n].next = next
    BY <1>2, <1>3
  <2>2. submit[n].at = "chunks" /\ submit[n].next <= DisplayChunks /\ Sbatch(next, {lanes[lane]})
    BY <1>3, <2>1 DEF SubmitChunk
  <2> QED BY <1>2, <1>3, <2>1, <2>2
<1>5. Series(base, m) /\ (\A l \in 1..DisplayLanes : lanes[l] <= Len(queue))
      /\ \A e \in 1..m : e + DisplayLanes > m => lanes[Lane(e)] = base + e
  BY <1>1, <1>3, <1>4 DEF Submitting, SeriesBegun
<1>6. /\ m \in Nat /\ next = m + 1 /\ base \in Nat
      /\ base + m = Len(queue) /\ base + next = Len(queue) + 1
  <2>1. base \in Nat
    BY <1>5 DEF Series
  <2>2. m \in Nat /\ base = Len(queue) - m /\ next = m + 1
    BY <1>3
  <2>3. Len(queue) \in Nat
    BY <1>2
  <2>4. base + m = Len(queue)
    BY <2>1, <2>2, <2>3
  <2> QED BY <2>1, <2>2, <2>3, <2>4
<1>7. lane \in 1..DisplayLanes /\ lanes[lane] \in 0..Len(queue)
  <2>1. lane \in 1..DisplayLanes
    BY <1>2, <1>3, <1>4, LaneTurn
  <2>2. lanes[lane] \in Nat
    BY <1>2, <1>3, <2>1
  <2> QED BY <1>2, <1>5, <2>1, <2>2
<1>8. /\ Len(queue') = Len(queue) + 1 /\ \A k \in 1..Len(queue) : queue'[k] = queue[k]
      /\ queue'[base + next].chunk = next /\ queue'[base + next].deps = {lanes[lane]} \ {0}
  <2>1. next \in 0..DisplayChunks /\ {lanes[lane]} \subseteq Nat
    BY <1>2, <1>4, <1>7
  <2> QED BY <1>1, <1>4, <1>6, <2>1, Accepts
<1>9. PICK after : after = [lanes EXCEPT ![lane] = Len(queue')]
  OBVIOUS
<1>10. PICK r : r = [submit[n] EXCEPT !.next = next + 1, !.lanes = after]
  OBVIOUS
<1>11. submit' = [submit EXCEPT ![n] = r]
  BY <1>2, <1>3, <1>4, <1>9, <1>10 DEF SubmitChunk, SubmitRuns
<1>12. /\ after \in [1..DisplayLanes -> Nat] /\ after[lane] = base + next
       /\ \A l \in 1..DisplayLanes : l # lane => after[l] = lanes[l]
  <2>1. lanes \in [1..DisplayLanes -> Nat]
    BY <1>2, <1>3
  <2>2. Len(queue') = base + next /\ base + next \in Nat
    BY <1>4, <1>6, <1>8
  <2> QED BY <1>7, <1>9, <2>1, <2>2
<1>13. r \in SubmitRuns /\ r.at = "chunks" /\ r.next = next + 1 /\ r.lanes = after
  <2>1. next + 1 \in 1..DisplayChunks + 1
    BY <1>2, <1>4
  <2> QED BY <1>2, <1>4, <1>10, <1>12, <2>1 DEF SubmitRuns
<1>14. Series(base, next)'
  <2>1. Series(base, m)'
    BY <1>2, <1>5, <1>6, <1>8, SeriesStays
  <2>2. \A e \in 1..next : e = next \/ e \in 1..m
    BY <1>3
  <2>3. next > DisplayLanes => base + next - DisplayLanes \in queue'[base + next].deps
    <3> SUFFICES ASSUME next > DisplayLanes
                 PROVE  base + next - DisplayLanes \in queue'[base + next].deps
      OBVIOUS
    <3>1. PICK e \in Nat \ {0} : e = next - DisplayLanes
      BY <1>2, <1>4
    <3>2. e \in 1..m /\ e + DisplayLanes > m /\ e + DisplayLanes = next
      BY <1>2, <1>6, <3>1
    <3>3. Lane(e) = lane
      BY <1>3, <1>4, <3>2, LaneTurn
    <3>4. lanes[lane] = base + e
      BY <1>5, <3>2, <3>3
    <3>5. base + e # 0 /\ base + e = base + next - DisplayLanes
      BY <1>2, <1>4, <1>6, <3>1
    <3> QED BY <1>8, <3>4, <3>5
  <2>4. \A e \in 1..m :
           /\ queue'[base + e].chunk = e
           /\ e > DisplayLanes => base + e - DisplayLanes \in queue'[base + e].deps
    BY <2>1 DEF Series
  <2>5. \A e \in 1..next :
           /\ queue'[base + e].chunk = e
           /\ e > DisplayLanes => base + e - DisplayLanes \in queue'[base + e].deps
    BY <1>8, <2>2, <2>3, <2>4
  <2>6. base \in Nat /\ base + next <= Len(queue')
    BY <1>2, <1>4, <1>6, <1>8
  <2> QED BY <2>5, <2>6 DEF Series
<1>15. \A e \in 1..next : e + DisplayLanes > next => after[Lane(e)] = base + e
  <2> SUFFICES ASSUME NEW e \in 1..next, e + DisplayLanes > next PROVE after[Lane(e)] = base + e
    OBVIOUS
  <2>1. CASE e = next
    BY <1>3, <1>12, <2>1
  <2>2. CASE e # next
    <3>1. e \in 1..m /\ e + DisplayLanes > m /\ e < next /\ e \in Nat \ {0}
      BY <1>2, <1>6, <2>2
    <3>2. Lane(e) # lane /\ Lane(e) \in 1..DisplayLanes
      BY <1>3, <1>4, <3>1, LaneTurn
    <3> QED BY <1>5, <1>12, <3>1, <3>2
  <2> QED BY <2>1, <2>2
<1>16. SeriesBegun(n)'
  <2>1. submit'[n] = r
    BY <1>1, <1>11 DEF DisplayTypes
  <2>2. submit'[n].next - 1 = next /\ submit'[n].lanes = after
    BY <1>4, <1>13, <2>1
  <2>3. Len(queue') - next = base
    BY <1>4, <1>6, <1>8
  <2>4. \A l \in 1..DisplayLanes : after[l] <= Len(queue')
    <3> SUFFICES ASSUME NEW l \in 1..DisplayLanes PROVE after[l] <= Len(queue')
      OBVIOUS
    <3>1. CASE l = lane
      BY <1>2, <1>6, <1>8, <1>12, <3>1
    <3>2. CASE l # lane
      <4>1. after[l] = lanes[l] /\ lanes[l] <= Len(queue) /\ after[l] \in Nat
        BY <1>5, <1>12, <3>2
      <4> QED BY <1>2, <1>8, <4>1
    <3> QED BY <3>1, <3>2
  <2> QED BY <1>14, <1>15, <2>2, <2>3, <2>4 DEF SeriesBegun
<1>17. next \in 0..DisplayChunks /\ next # 0 /\ {lanes[lane]} \subseteq 0..Len(queue)
  BY <1>2, <1>4, <1>7
<1> QED BY <1>4, <1>11, <1>13, <1>16, <1>17, SubmissionMoves

\* finish comes after the last job of every lane.
LEMMA SubmitFinishStep ==
    ASSUME DisplayInv, NEW n \in DOMAIN submit, SubmitFinish(n)
    PROVE  DisplayInv'
<1>1. DisplayTypes /\ Submitting
  BY DEF DisplayInv
<1>2. /\ Len(queue) \in Nat /\ submit[n] \in SubmitRuns /\ submit[n].next \in 1..DisplayChunks + 1
      /\ submit[n].lanes \in [1..DisplayLanes -> Nat]
      /\ DisplayChunks \in Nat \ {0} /\ DisplayLanes \in Nat \ {0}
  BY <1>1, DisplayLists, DisplayAssumption
<1>3. submit[n].at = "chunks" /\ submit[n].next = DisplayChunks + 1 /\ Sbatch(0, AfterEveryLane(n))
  BY <1>2 DEF SubmitFinish
<1>4. PICK base, lanes, r, new :
          /\ base = Len(queue) - DisplayChunks /\ lanes = submit[n].lanes
          /\ r = [submit[n] EXCEPT !.at = "over"] /\ new = Len(queue) + 1
  OBVIOUS
<1>5. Series(base, DisplayChunks) /\ (\A l \in 1..DisplayLanes : lanes[l] <= Len(queue))
      /\ \A e \in 1..DisplayChunks : e + DisplayLanes > DisplayChunks => lanes[Lane(e)] = base + e
  <2>1. submit[n].next - 1 = DisplayChunks
    BY <1>2, <1>3
  <2>2. SeriesBegun(n)
    BY <1>1, <1>3 DEF Submitting
  <2> QED BY <1>4, <2>1, <2>2 DEF SeriesBegun
<1>6. base \in Nat
  BY <1>5 DEF Series
<1>7. AfterEveryLane(n) \subseteq 0..Len(queue)
  BY <1>2, <1>4, <1>5 DEF AfterEveryLane
<1>8. submit' = [submit EXCEPT ![n] = r] /\ r \in SubmitRuns /\ r.at = "over"
  <2>1. submit' = [submit EXCEPT ![n] = r]
    BY <1>4 DEF SubmitFinish
  <2> QED BY <1>2, <1>4, <2>1 DEF SubmitRuns
<1>9. /\ Len(queue') = new /\ \A k \in 1..Len(queue) : queue'[k] = queue[k]
      /\ queue'[new].deps = AfterEveryLane(n) \ {0}
  <2>1. 0 \in 0..DisplayChunks /\ AfterEveryLane(n) \subseteq Nat
    BY <1>2, <1>7
  <2> QED BY <1>1, <1>3, <1>4, <2>1, Accepts
<1>10. SeriesEnded(new)'
  <2>1. Series(base, DisplayChunks)'
    BY <1>2, <1>4, <1>5, <1>9, SeriesStays
  <2>2. \A e \in 1..DisplayChunks : e + DisplayLanes > DisplayChunks => base + e \in queue'[new].deps
    <3> SUFFICES ASSUME NEW e \in 1..DisplayChunks, e + DisplayLanes > DisplayChunks
                 PROVE  base + e \in queue'[new].deps
      OBVIOUS
    <3>1. Lane(e) \in 1..DisplayLanes
      <4>1. e \in Nat \ {0}
        BY <1>2
      <4> QED BY <4>1, LaneTurn
    <3>2. lanes[Lane(e)] = base + e /\ base + e # 0
      BY <1>2, <1>5, <1>6
    <3> QED BY <1>4, <1>9, <3>1, <3>2 DEF AfterEveryLane
  <2>3. new - DisplayChunks - 1 = base
    BY <1>2, <1>4
  <2> QED BY <2>1, <2>2, <2>3 DEF SeriesEnded
<1>12. new = Len(queue) + 1 /\ 0 \in 0..DisplayChunks /\ r.at # "chunks"
  BY <1>2, <1>4, <1>8
<1> QED BY <1>3, <1>7, <1>8, <1>10, <1>12, SubmissionMoves

\* A run of submit that dies submits nothing more.
LEMMA AbandonStep ==
    ASSUME DisplayInv, NEW n \in DOMAIN submit, Abandon(n)
    PROVE  DisplayInv'
<1>1. DisplayTypes /\ Submitting /\ Finishes /\ Waits /\ Temporaries /\ Closed /\ Validated
  BY DEF DisplayInv
<1>2. PICK r : r = [submit[n] EXCEPT !.at = "over"]
  OBVIOUS
<1>3. /\ submit' = [submit EXCEPT ![n] = r] /\ queue' = queue /\ work' = work
      /\ file' = file /\ temp' = temp /\ target' = target
  BY <1>2 DEF Abandon, fileVars
<1>4. r \in SubmitRuns /\ r.at = "over"
  BY <1>1, <1>2, DisplayLists DEF SubmitRuns
<1>5. /\ submit' \in Seq(SubmitRuns) /\ submit'[n] = r /\ Len(submit') = Len(submit)
      /\ DOMAIN submit' = DOMAIN submit /\ \A i \in DOMAIN submit : i # n => submit'[i] = submit[i]
  BY <1>1, <1>3, <1>4 DEF DisplayTypes
<1>6. DisplayTypes'
  BY <1>1, <1>3, <1>5 DEF DisplayTypes
<1>7. Submitting'
  BY <1>1, <1>3, <1>4, <1>5 DEF Submitting, SeriesBegun, Series
<1>8. Finishes' /\ Waits' /\ Temporaries'
  BY <1>1, <1>3 DEF Finishes, SeriesEnded, Series, Waits, Temporaries, TempOf
<1>9. Closed' /\ Validated'
  BY <1>1, <1>3 DEF Closed, Validated, Few, ChunkJobs, Stands, Spoiled, Passed
<1> QED BY <1>6, <1>7, <1>8, <1>9 DEF DisplayInv


-----------------------------------------------------------------------------
(* The work of the jobs.                                                     *)

\* A job that has started starts when all submissions are over; unless it is
\* finish it is at one date of its chunk.
LEMMA JobAtWork ==
    ASSUME DisplayInv, NEW k \in DOMAIN queue, work[k].stage \notin {"queued", "reading"}
    PROVE  /\ SubmitsOver /\ queue[k].chunk \in 1..DisplayChunks
           /\ WorkDate(k) \in HoldoutDates
           /\ WorkDate(k) = DateAt(queue[k].chunk, work[k].date)
<1>1. DisplayTypes /\ Submitting /\ Waits
  BY DEF DisplayInv
<1>2. /\ DOMAIN work = DOMAIN queue /\ queue[k].chunk \in 0..DisplayChunks
      /\ work[k].date \in 1..DatesInChunk
      /\ \A n \in DOMAIN submit : submit[n].at \in {"chunks", "over"}
  BY <1>1, DisplayLists
<1>3. SubmitsOver
  BY <1>1, <1>2 DEF Submitting, SubmitsOver
<1>4. queue[k].chunk # 0
  BY <1>1 DEF Waits
<1>5. queue[k].chunk \in 1..DisplayChunks
  BY <1>2, <1>4, DisplayAssumption
<1>6. WorkDate(k) = DateAt(queue[k].chunk, work[k].date)
  BY DEF WorkDate, DateAt
<1> QED BY <1>2, <1>3, <1>5, <1>6, DatesOfChunks

\* A job that goes to another stage stays at its date.
LEMMA WorkTurns ==
    ASSUME DisplayTypes, NEW k \in DOMAIN queue, NEW stage \in JobStages, WorkTo(k, stage)
    PROVE  \E w \in JobWork :
              work' = [work EXCEPT ![k] = w] /\ w.stage = stage /\ w.date = work[k].date
<1>1. work[k] \in JobWork
  BY DisplayLists
<1>2. PICK w : w = [work[k] EXCEPT !.stage = stage]
  OBVIOUS
<1>3. w \in JobWork /\ w.stage = stage /\ w.date = work[k].date
  BY <1>1, <1>2 DEF JobWork
<1>4. work' = [work EXCEPT ![k] = w]
  BY <1>2 DEF WorkTo
<1> QED BY <1>3, <1>4

\* What a job has validated are dates of its chunk.
LEMMA PassedDates ==
    ASSUME DisplayTypes, NEW k \in DOMAIN queue, NEW t \in Passed(k)
    PROVE  /\ t \in 1..DatesInChunk
           /\ queue[k].chunk # 0 => DateAt(queue[k].chunk, t) \in HoldoutDates
<1>1. work[k].date \in 1..DatesInChunk /\ queue[k].chunk \in 0..DisplayChunks
  BY DisplayLists
<1>2. t \in 1..DatesInChunk
  BY <1>1, DisplayAssumption DEF Passed
<1>3. queue[k].chunk # 0 => queue[k].chunk \in 1..DisplayChunks
  BY <1>1, DisplayAssumption
<1> QED BY <1>2, <1>3, DatesOfChunks

\* Two jobs that have to do with a date are of one chunk, at one place of it.
LEMMA SameDate ==
    ASSUME DisplayTypes, NEW k \in DOMAIN queue, queue[k].chunk \in 1..DisplayChunks,
           NEW j \in DOMAIN queue, queue[j].chunk # 0, NEW t \in Passed(j),
           DateAt(queue[j].chunk, t) = DateAt(queue[k].chunk, work[k].date)
    PROVE  queue[k].chunk = queue[j].chunk /\ t = work[k].date
<1>1. t \in 1..DatesInChunk /\ work[k].date \in 1..DatesInChunk
  BY PassedDates, DisplayLists
<1>2. queue[j].chunk \in 1..DisplayChunks
  BY DisplayLists, DisplayAssumption
<1> QED BY <1>1, <1>2, DatesOfChunks

\* What job k leaves of a file that another one has validated: the file, a
\* whole one, or its own at the date where it is.
LeavesDate(k, w, c, t) ==
    LET d == DateAt(c, t)
    IN  \/ target'[d] = target[d]
        \/ target'[d].state = "whole"
        \/ /\ target'[d].state = "invalid" /\ target'[d].by = k /\ queue[k].chunk = c
           /\ w.stage # "ok" /\ t = w.date

\* A date is validated when it was, or when the job that validates it finds it
\* whole; another job leaves it whole or spoils it.
LEMMA StaysValidated ==
    ASSUME DisplayTypes, Validated, queue' = queue, NEW k \in DOMAIN queue,
           NEW w \in JobWork, work' = [work EXCEPT ![k] = w],
           \A j \in DOMAIN queue : queue[j].chunk # 0 /\ Few(queue[j].chunk) =>
              \A t \in Passed(j) : LeavesDate(k, w, queue[j].chunk, t),
           \A t \in IF w.stage = "ok" THEN 1..DatesInChunk ELSE 1..w.date - 1 :
              t \in Passed(k) \/ target'[DateAt(queue[k].chunk, t)].state = "whole"
    PROVE  Validated'
<1>1. DOMAIN work = DOMAIN queue /\ w.date \in 1..DatesInChunk
  BY DisplayLists DEF JobWork
<1>2. work'[k] = w /\ \A j \in DOMAIN queue : j # k => work'[j] = work[j]
  BY <1>1
<1>3. Passed(k)' = IF w.stage = "ok" THEN 1..DatesInChunk ELSE 1..w.date - 1
  BY <1>2 DEF Passed
<1>4. \A j \in DOMAIN queue : j # k => Passed(j)' = Passed(j)
  BY <1>2 DEF Passed
<1> SUFFICES ASSUME NEW j \in DOMAIN queue, queue[j].chunk # 0, Few(queue[j].chunk),
                    NEW t \in Passed(j)'
             PROVE  Stands(queue[j].chunk, t)'
  BY DEF Validated, Few, ChunkJobs
<1>5. PICK d : d = DateAt(queue[j].chunk, t)
  OBVIOUS
<1>6. CASE target'[d].state = "whole"
  BY <1>5, <1>6 DEF Stands
<1>7. CASE target'[d].state # "whole"
  <2>1. t \in Passed(j)
    BY <1>3, <1>4, <1>5, <1>7
  <2>2. Stands(queue[j].chunk, t) /\ LeavesDate(k, w, queue[j].chunk, t)
    BY <2>1 DEF Validated
  <2>3. CASE target'[d] = target[d]
    <3>1. PICK b : b = target[d].by
      OBVIOUS
    <3>2. /\ target[d].state = "invalid" /\ b \in DOMAIN queue /\ queue[b].chunk = queue[j].chunk
          /\ t \notin Passed(b)
      BY <1>5, <1>7, <2>2, <2>3, <3>1 DEF Stands, Spoiled, ChunkJobs
    <3>3. t \notin Passed(b)'
      <4>1. CASE b = k
        BY <1>3, <1>5, <1>7, <3>2, <4>1
      <4>2. CASE b # k
        BY <1>4, <3>2, <4>2
      <4> QED BY <4>1, <4>2
    <3> QED BY <1>5, <2>3, <3>1, <3>2, <3>3 DEF Stands, Spoiled, ChunkJobs, Passed
  <2>4. CASE /\ target'[d].state = "invalid" /\ target'[d].by = k
             /\ queue[k].chunk = queue[j].chunk /\ w.stage # "ok" /\ t = w.date
    <3>1. t \notin Passed(k)'
      BY <1>1, <1>3, <2>4, DisplayAssumption
    <3> QED BY <1>5, <2>4, <3>1 DEF Stands, Spoiled, ChunkJobs, Passed
  <2> QED BY <1>5, <1>7, <2>2, <2>3, <2>4 DEF LeavesDate
<1> QED BY <1>6, <1>7

\* What a job does when it moves on, and what it does to the files.
Turns(k, w) ==
    /\ work' = [work EXCEPT ![k] = w]
    /\ work[k].stage # "ok" /\ w.stage # "queued"
    /\ work[k].stage = "queued" => \A j \in queue[k].deps : work[j].stage = "ok"
    /\ IF queue[k].chunk = 0 THEN w.stage = "reading" ELSE w.stage # "reading"

HasTemp(k, w, d) ==
    /\ queue[k].chunk # 0 /\ DateAt(queue[k].chunk, w.date) = d
    /\ w.stage \in {"writing", "closed", "failed"}

Leaves(k, w) ==
    /\ file' \in Seq(FileStates) /\ Len(file') = Len(file)
    /\ temp' \in [HoldoutDates -> Nat]
    /\ target' \in [HoldoutDates -> [by : Nat, state : FileStates]]
    /\ \A d \in HoldoutDates : temp'[d] \in {0, k, temp[d]}
    /\ \A d \in HoldoutDates : temp'[d] = k => HasTemp(k, w, d)
    /\ w.stage = "closed" => file'[k] \in {"whole", "invalid"}
    /\ \A j \in DOMAIN queue : j # k => file'[j] = file[j]

\* A job that moves on leaves the rest of the invariant.
LEMMA JobMoves ==
    ASSUME DisplayInv, NEW k \in DOMAIN queue, SubmitsOver, submit' = submit, queue' = queue,
           NEW w \in JobWork, Turns(k, w), Leaves(k, w), Validated'
    PROVE  DisplayInv'
<1>1. DisplayTypes /\ Submitting /\ Finishes /\ Waits /\ Temporaries /\ Closed
  BY DEF DisplayInv
<1>2. /\ DOMAIN work = DOMAIN queue /\ DOMAIN queue = 1..Len(queue) /\ Len(queue) \in Nat
      /\ \A j \in DOMAIN queue : queue[j].deps \subseteq 1..j - 1
  BY <1>1, DisplayLists DEF Waits
<1>3. /\ work' = [work EXCEPT ![k] = w]
      /\ work'[k] = w /\ DOMAIN work' = DOMAIN queue
      /\ \A j \in DOMAIN queue : j # k => work'[j] = work[j]
  BY <1>2 DEF Turns
<1>4. DisplayTypes'
  <2>1. work' \in Seq(JobWork) /\ Len(work') = Len(queue)
    BY <1>1, <1>3 DEF DisplayTypes
  <2> QED BY <1>1, <2>1 DEF DisplayTypes, Leaves
<1>5. Submitting'
  BY DEF Submitting, SubmitsOver
<1>6. Finishes'
  BY <1>1 DEF Finishes, SeriesEnded, Series
<1>7. Waits'
  <2> SUFFICES ASSUME NEW i \in DOMAIN queue
               PROVE  /\ queue[i].deps \subseteq 1..i - 1
                      /\ work'[i].stage = "queued" => work'[i].date = 1
                      /\ work'[i].stage # "queued" => \A j \in queue[i].deps : work'[j].stage = "ok"
                      /\ IF queue[i].chunk = 0 THEN work'[i].stage \in {"queued", "reading"}
                         ELSE work'[i].stage # "reading"
    BY DEF Waits
  <2>1. \A j \in queue[i].deps : j \in DOMAIN queue /\ j # i
    BY <1>2
  <2>2. \A j \in queue[i].deps : work[j].stage = "ok" => work'[j].stage = "ok"
    BY <1>3, <2>1 DEF Turns
  <2>3. CASE i = k
    <3>1. \A j \in queue[k].deps : work[j].stage = "ok"
      BY <1>1 DEF Waits, Turns
    <3> QED BY <1>2, <1>3, <2>2, <2>3, <3>1 DEF Turns
  <2>4. CASE i # k
    <3>1. work'[i] = work[i]
      BY <1>3, <2>4
    <3> QED BY <1>1, <2>2, <3>1 DEF Waits
  <2> QED BY <2>3, <2>4
<1>8. Temporaries'
  <2> SUFFICES ASSUME NEW d \in HoldoutDates PROVE TempOf(d)'
    BY DEF Temporaries
  <2>1. CASE temp'[d] = k
    BY <1>3, <2>1 DEF TempOf, Leaves, HasTemp
  <2>2. CASE temp'[d] # k
    <3>1. temp'[d] = 0 \/ temp'[d] = temp[d]
      BY <2>2 DEF Leaves
    <3>2. TempOf(d)
      BY <1>1 DEF Temporaries
    <3> QED BY <1>3, <2>2, <3>1, <3>2 DEF TempOf
  <2> QED BY <2>1, <2>2
<1>9. Closed'
  BY <1>1, <1>3 DEF Closed, Leaves
<1> QED BY <1>4, <1>5, <1>6, <1>7, <1>8, <1>9 DEF DisplayInv

\* A step of a job that makes no file.
LEMMA LooksOnly ==
    ASSUME DisplayInv, NEW k \in DOMAIN queue, SubmitsOver,
           UNCHANGED <<submit, queue, fileVars>>,
           NEW w \in JobWork, work' = [work EXCEPT ![k] = w],
           work[k].stage \notin {"ok", "writing", "closed", "failed"},
           w.stage \notin {"queued", "writing", "closed"},
           work[k].stage = "queued" => \A j \in queue[k].deps : work[j].stage = "ok",
           IF queue[k].chunk = 0 THEN w.stage = "reading" ELSE w.stage # "reading",
           \A t \in IF w.stage = "ok" THEN 1..DatesInChunk ELSE 1..w.date - 1 :
              t \in Passed(k) \/ target[DateAt(queue[k].chunk, t)].state = "whole"
    PROVE  DisplayInv'
<1>1. DisplayTypes /\ Temporaries /\ Validated
  BY DEF DisplayInv
<1>2. /\ submit' = submit /\ queue' = queue /\ file' = file /\ temp' = temp /\ target' = target
  BY DEF fileVars
<1>3. Validated'
  BY <1>1, <1>2, StaysValidated DEF LeavesDate
<1>4. \A d \in HoldoutDates : temp'[d] # k
  <2>1. \A d \in HoldoutDates : TempOf(d)
    BY <1>1 DEF Temporaries
  <2>2. \A d \in HoldoutDates : temp[d] # k
    <3>1. k # 0
      BY <1>1, DisplayLists
    <3> QED BY <2>1, <3>1 DEF TempOf
  <2> QED BY <1>2, <2>2
<1>5. /\ file' \in Seq(FileStates) /\ Len(file') = Len(file)
      /\ temp' \in [HoldoutDates -> Nat]
      /\ target' \in [HoldoutDates -> [by : Nat, state : FileStates]]
  BY <1>1, <1>2 DEF DisplayTypes
<1>6. \A d \in HoldoutDates : temp'[d] \in {0, k, temp[d]}
  BY <1>2
<1>7. \A j \in DOMAIN queue : j # k => file'[j] = file[j]
  BY <1>2
<1>8. Turns(k, w)
  BY DEF Turns
<1>9. Leaves(k, w)
  BY <1>4, <1>5, <1>6, <1>7 DEF Leaves
<1> QED BY <1>2, <1>3, <1>8, <1>9, JobMoves

\* A job starts after those it depends on.
LEMMA StartJobStep ==
    ASSUME DisplayInv, NEW k \in DOMAIN queue, StartJob(k)
    PROVE  DisplayInv'
<1>1. DisplayTypes /\ Waits
  BY DEF DisplayInv
<1>2. PICK stage : stage = IF queue[k].chunk = 0 THEN "reading" ELSE "looking"
  OBVIOUS
<1>3. stage \in JobStages
  BY <1>2 DEF JobStages
<1>4. /\ SubmitsOver /\ work[k].stage = "queued" /\ WorkTo(k, stage)
      /\ \A j \in queue[k].deps : work[j].stage = "ok"
      /\ UNCHANGED <<submit, queue, fileVars>>
  BY <1>2 DEF StartJob, WorksAt
<1>5. PICK w \in JobWork :
         work' = [work EXCEPT ![k] = w] /\ w.stage = stage /\ w.date = work[k].date
  BY <1>1, <1>3, <1>4, WorkTurns
<1>6. \A t \in IF w.stage = "ok" THEN 1..DatesInChunk ELSE 1..w.date - 1 : t \in Passed(k)
  BY <1>2, <1>4, <1>5 DEF Passed
<1>7. /\ w.stage \notin {"queued", "writing", "closed"}
      /\ IF queue[k].chunk = 0 THEN w.stage = "reading" ELSE w.stage # "reading"
  BY <1>2, <1>5
<1>8. \A t \in IF w.stage = "ok" THEN 1..DatesInChunk ELSE 1..w.date - 1 :
         t \in Passed(k) \/ target[DateAt(queue[k].chunk, t)].state = "whole"
  BY <1>6
<1> QED BY <1>4, <1>5, <1>7, <1>8, LooksOnly

\* A date that has a file is validated, another one is built.
LEMMA LookForTargetStep ==
    ASSUME DisplayInv, NEW k \in DOMAIN queue, LookForTarget(k)
    PROVE  DisplayInv'
<1>1. DisplayTypes
  BY DEF DisplayInv
<1>2. PICK stage : stage = IF target[WorkDate(k)] # NoFile THEN "validating" ELSE "building"
  OBVIOUS
<1>3. stage \in JobStages /\ stage \in {"validating", "building"}
  BY <1>2 DEF JobStages
<1>4. work[k].stage = "looking" /\ WorkTo(k, stage) /\ UNCHANGED <<submit, queue, fileVars>>
  BY <1>2 DEF LookForTarget, WorksAt
<1>5. PICK w \in JobWork :
         work' = [work EXCEPT ![k] = w] /\ w.stage = stage /\ w.date = work[k].date
  BY <1>1, <1>3, <1>4, WorkTurns
<1>6. SubmitsOver /\ queue[k].chunk # 0
  <2>1. SubmitsOver /\ queue[k].chunk \in 1..DisplayChunks
    BY <1>4, JobAtWork
  <2> QED BY <2>1
<1>7. \A t \in IF w.stage = "ok" THEN 1..DatesInChunk ELSE 1..w.date - 1 : t \in Passed(k)
  BY <1>3, <1>4, <1>5 DEF Passed
<1> QED BY <1>3, <1>4, <1>5, <1>6, <1>7, LooksOnly

\* A job goes on to its next date only when the file of this one is whole.
LEMMA ValidateTargetStep ==
    ASSUME DisplayInv, NEW k \in DOMAIN queue, ValidateTarget(k)
    PROVE  DisplayInv'
<1>1. DisplayTypes
  BY DEF DisplayInv
<1>2. /\ work[k] \in JobWork /\ work[k].date \in 1..DatesInChunk /\ work[k].stage = "validating"
      /\ UNCHANGED <<submit, queue, fileVars>> /\ DatesInChunk \in Nat
  BY <1>1, DisplayLists, DisplayAssumption DEF ValidateTarget, WorksAt
<1>3. SubmitsOver /\ queue[k].chunk # 0 /\ WorkDate(k) = DateAt(queue[k].chunk, work[k].date)
  <2>1. /\ SubmitsOver /\ queue[k].chunk \in 1..DisplayChunks
        /\ WorkDate(k) = DateAt(queue[k].chunk, work[k].date)
    BY <1>2, JobAtWork
  <2> QED BY <2>1
<1>4. PICK w : w = IF target[WorkDate(k)].state # "whole" THEN [work[k] EXCEPT !.stage = "failed"]
                   ELSE IF work[k].date < DatesInChunk
                        THEN [stage |-> "looking", date |-> work[k].date + 1]
                        ELSE [work[k] EXCEPT !.stage = "ok"]
  OBVIOUS
<1>5. work' = [work EXCEPT ![k] = w]
  BY <1>1, <1>4, DisplayLists DEF ValidateTarget
<1>6. CASE target[WorkDate(k)].state # "whole"
  <2>1. w = [work[k] EXCEPT !.stage = "failed"]
    BY <1>4, <1>6
  <2>2. w \in JobWork /\ w.stage = "failed" /\ w.date = work[k].date
    BY <1>2, <2>1 DEF JobWork, JobStages
  <2>3. \A t \in IF w.stage = "ok" THEN 1..DatesInChunk ELSE 1..w.date - 1 : t \in Passed(k)
    BY <1>2, <2>2 DEF Passed
  <2> QED BY <1>2, <1>3, <1>5, <2>2, <2>3, LooksOnly
<1>7. CASE target[WorkDate(k)].state = "whole" /\ work[k].date < DatesInChunk
  <2>1. w = [stage |-> "looking", date |-> work[k].date + 1]
    BY <1>4, <1>7
  <2>2. w \in JobWork /\ w.stage = "looking" /\ w.date = work[k].date + 1
    <3>1. work[k].date + 1 \in 1..DatesInChunk
      BY <1>2, <1>7
    <3> QED BY <2>1, <3>1 DEF JobWork, JobStages
  <2>3. \A t \in 1..w.date - 1 : t \in Passed(k) \/ t = work[k].date
    BY <1>2, <2>2 DEF Passed
  <2>4. \A t \in IF w.stage = "ok" THEN 1..DatesInChunk ELSE 1..w.date - 1 :
           t \in Passed(k) \/ target[DateAt(queue[k].chunk, t)].state = "whole"
    BY <1>3, <1>7, <2>2, <2>3
  <2> QED BY <1>2, <1>3, <1>5, <2>2, <2>4, LooksOnly
<1>8. CASE target[WorkDate(k)].state = "whole" /\ ~ (work[k].date < DatesInChunk)
  <2>1. w = [work[k] EXCEPT !.stage = "ok"]
    BY <1>4, <1>8
  <2>2. w \in JobWork /\ w.stage = "ok" /\ w.date = work[k].date
    BY <1>2, <2>1 DEF JobWork, JobStages
  <2>3. \A t \in 1..DatesInChunk : t \in Passed(k) \/ t = work[k].date
    BY <1>2, <1>8 DEF Passed
  <2>4. \A t \in IF w.stage = "ok" THEN 1..DatesInChunk ELSE 1..w.date - 1 :
           t \in Passed(k) \/ target[DateAt(queue[k].chunk, t)].state = "whole"
    BY <1>3, <1>8, <2>2, <2>3
  <2> QED BY <1>2, <1>3, <1>5, <2>2, <2>4, LooksOnly
<1> QED BY <1>6, <1>7, <1>8

\* The job gives the temporary name to a file of its own.
LEMMA CreateStep ==
    ASSUME DisplayInv, NEW k \in DOMAIN queue, UNCHANGED <<submit, queue>>,
           WorksAt(k, "building"), CreateFile(k, WorkDate(k)), WorkTo(k, "writing")
    PROVE  DisplayInv'
<1>1. DisplayTypes /\ Temporaries /\ Validated
  BY DEF DisplayInv
<1>2. /\ work[k].stage = "building" /\ queue' = queue /\ submit' = submit
      /\ temp' = [temp EXCEPT ![WorkDate(k)] = k] /\ file' = [file EXCEPT ![k] = "open"]
      /\ target' = target
  BY DEF WorksAt, CreateFile
<1>3. /\ SubmitsOver /\ queue[k].chunk \in 1..DisplayChunks /\ WorkDate(k) \in HoldoutDates
      /\ WorkDate(k) = DateAt(queue[k].chunk, work[k].date)
  BY <1>2, JobAtWork
<1>4. PICK w \in JobWork :
         work' = [work EXCEPT ![k] = w] /\ w.stage = "writing" /\ w.date = work[k].date
  <2>1. "writing" \in JobStages
    BY DEF JobStages
  <2> QED BY <1>1, <2>1, WorkTurns
<1>5. Validated'
  <2>1. \A t \in IF w.stage = "ok" THEN 1..DatesInChunk ELSE 1..w.date - 1 : t \in Passed(k)
    BY <1>2, <1>4 DEF Passed
  <2> QED BY <1>1, <1>2, <1>4, <2>1, StaysValidated DEF LeavesDate
<1>6. k \in Nat /\ queue[k].chunk # 0 /\ DOMAIN file = DOMAIN queue
  BY <1>1, <1>3, DisplayLists
<1>7. /\ file' \in Seq(FileStates) /\ Len(file') = Len(file)
      /\ temp' \in [HoldoutDates -> Nat]
      /\ target' \in [HoldoutDates -> [by : Nat, state : FileStates]]
  BY <1>1, <1>2, <1>3, <1>6 DEF DisplayTypes, FileStates
<1>8. \A d \in HoldoutDates : temp'[d] = IF d = WorkDate(k) THEN k ELSE temp[d]
  BY <1>1, <1>2 DEF DisplayTypes
<1>9. \A d \in HoldoutDates : temp[d] # k
  <2>1. \A d \in HoldoutDates : TempOf(d)
    BY <1>1 DEF Temporaries
  <2> QED BY <1>2, <1>6, <2>1, DisplayLists, <1>1 DEF TempOf
<1>10. \A d \in HoldoutDates : temp'[d] = k => DateAt(queue[k].chunk, w.date) = d
  BY <1>3, <1>4, <1>8, <1>9
<1>11. \A j \in DOMAIN queue : j # k => file'[j] = file[j]
  BY <1>2, <1>6
<1>12. \A d \in HoldoutDates : temp'[d] \in {0, k, temp[d]}
  BY <1>8
<1>13. Turns(k, w)
  BY <1>2, <1>4, <1>6 DEF Turns
<1>14. Leaves(k, w)
  BY <1>4, <1>6, <1>7, <1>10, <1>11, <1>12 DEF Leaves, HasTemp
<1> QED BY <1>2, <1>3, <1>4, <1>5, <1>13, <1>14, JobMoves

\* What the job has closed is whole or invalid, under whatever name it is.
LEMMA CloseStep ==
    ASSUME DisplayInv, NEW k \in DOMAIN queue, UNCHANGED <<submit, queue>>,
           NEW state \in {"whole", "invalid"},
           WorksAt(k, "writing"), CloseFile(k, WorkDate(k), state), WorkTo(k, "closed")
    PROVE  DisplayInv'
<1>1. DisplayTypes /\ Temporaries /\ Validated
  BY DEF DisplayInv
<1>2. /\ work[k].stage = "writing" /\ queue' = queue /\ submit' = submit
      /\ temp' = temp /\ file' = [file EXCEPT ![k] = state]
      /\ target' = SeenAs(k, WorkDate(k), state)
  BY DEF WorksAt, CloseFile
<1>3. /\ SubmitsOver /\ queue[k].chunk \in 1..DisplayChunks /\ WorkDate(k) \in HoldoutDates
      /\ WorkDate(k) = DateAt(queue[k].chunk, work[k].date)
  BY <1>2, JobAtWork
<1>4. PICK w \in JobWork :
         work' = [work EXCEPT ![k] = w] /\ w.stage = "closed" /\ w.date = work[k].date
  <2>1. "closed" \in JobStages
    BY DEF JobStages
  <2> QED BY <1>1, <2>1, WorkTurns
<1>5. target' \in [HoldoutDates -> [by : Nat, state : FileStates]]
      /\ \A d \in HoldoutDates :
            \/ target'[d] = target[d]
            \/ d = WorkDate(k) /\ target'[d].by = k /\ target'[d].state = state
  BY <1>1, <1>2 DEF DisplayTypes, SeenAs, FileStates
<1>6. Validated'
  <2>1. \A t \in IF w.stage = "ok" THEN 1..DatesInChunk ELSE 1..w.date - 1 : t \in Passed(k)
    BY <1>2, <1>4 DEF Passed
  <2>2. ASSUME NEW j \in DOMAIN queue, queue[j].chunk # 0, NEW t \in Passed(j)
        PROVE  LeavesDate(k, w, queue[j].chunk, t)
    <3>1. DateAt(queue[j].chunk, t) \in HoldoutDates
      BY <1>1, <2>2, PassedDates
    <3>2. DateAt(queue[j].chunk, t) = WorkDate(k) => queue[k].chunk = queue[j].chunk /\ t = w.date
      BY <1>1, <1>3, <1>4, <2>2, SameDate
    <3> QED BY <1>4, <1>5, <3>1, <3>2 DEF LeavesDate
  <2> QED BY <1>1, <1>2, <1>4, <2>1, <2>2, StaysValidated
<1>7. queue[k].chunk # 0 /\ DOMAIN file = DOMAIN queue
  BY <1>1, <1>3, DisplayLists
<1>8. /\ file' \in Seq(FileStates) /\ Len(file') = Len(file)
      /\ file'[k] = state /\ \A j \in DOMAIN queue : j # k => file'[j] = file[j]
  BY <1>1, <1>2, <1>7 DEF DisplayTypes, FileStates
<1>9. \A d \in HoldoutDates : temp'[d] = k => DateAt(queue[k].chunk, w.date) = d
  <2>1. \A d \in HoldoutDates : TempOf(d)
    BY <1>1 DEF Temporaries
  <2>2. k # 0
    BY <1>1, DisplayLists
  <2> QED BY <1>2, <1>4, <2>1, <2>2 DEF TempOf
<1>10. temp' \in [HoldoutDates -> Nat]
  BY <1>1, <1>2 DEF DisplayTypes
<1>11. Turns(k, w)
  BY <1>2, <1>4, <1>7 DEF Turns
<1>12. \A d \in HoldoutDates : temp'[d] \in {0, k, temp[d]}
  BY <1>2
<1>13. Leaves(k, w)
  BY <1>4, <1>5, <1>7, <1>8, <1>9, <1>10, <1>12 DEF Leaves, HasTemp
<1> QED BY <1>2, <1>3, <1>4, <1>6, <1>11, <1>13, JobMoves

\* Whatever has the temporary name gets the final one.  Where another job has
\* validated the date, that is the closed file of the one that renames it: a
\* third job of the chunk there is not.
LEMMA CommitStep ==
    ASSUME DisplayInv, NEW k \in DOMAIN queue, UNCHANGED <<submit, queue>>,
           WorksAt(k, "closed"), CommitFile(WorkDate(k)), WorkTo(k, "validating")
    PROVE  DisplayInv'
<1>1. DisplayTypes /\ Temporaries /\ Validated /\ Closed
  BY DEF DisplayInv
<1>2. PICK at : at = WorkDate(k)
  OBVIOUS
<1>3. /\ work[k].stage = "closed" /\ queue' = queue /\ submit' = submit
      /\ temp' = [temp EXCEPT ![at] = 0] /\ file' = file
      /\ target' = IF temp[at] = 0 THEN target
                   ELSE [target EXCEPT ![at] = [by |-> temp[at], state |-> file[temp[at]]]]
  BY <1>2 DEF WorksAt, CommitFile
<1>4. /\ SubmitsOver /\ queue[k].chunk \in 1..DisplayChunks /\ at \in HoldoutDates
      /\ at = DateAt(queue[k].chunk, work[k].date)
  BY <1>2, <1>3, JobAtWork
<1>5. PICK w \in JobWork :
         work' = [work EXCEPT ![k] = w] /\ w.stage = "validating" /\ w.date = work[k].date
  <2>1. "validating" \in JobStages
    BY DEF JobStages
  <2> QED BY <1>1, <2>1, WorkTurns
<1>6. k # 0 /\ TempOf(at) /\ \A d \in HoldoutDates : TempOf(d)
  BY <1>1, <1>4, DisplayLists DEF Temporaries
<1>7. /\ \A j \in DOMAIN queue : file[j] \in FileStates /\ j \in Nat
      /\ \A j \in DOMAIN queue : work[j].date \in 1..DatesInChunk
      /\ \A j \in DOMAIN queue : queue[j].chunk \in 0..DisplayChunks
  BY <1>1, DisplayLists
<1>8. temp' \in [HoldoutDates -> Nat]
      /\ \A d \in HoldoutDates : temp'[d] = IF d = at THEN 0 ELSE temp[d]
  BY <1>1, <1>3 DEF DisplayTypes
<1>9. target' \in [HoldoutDates -> [by : Nat, state : FileStates]]
      /\ \A d \in HoldoutDates : d # at => target'[d] = target[d]
  <2>1. temp[at] \in Nat /\ (temp[at] # 0 => temp[at] \in DOMAIN queue)
    BY <1>1, <1>4, <1>6 DEF DisplayTypes, TempOf
  <2>2. temp[at] # 0 => [by |-> temp[at], state |-> file[temp[at]]]
                          \in [by : Nat, state : FileStates]
    BY <1>7, <2>1
  <2> QED BY <1>1, <1>3, <2>2 DEF DisplayTypes
<1>10. ASSUME NEW j \in DOMAIN queue, queue[j].chunk # 0, Few(queue[j].chunk), NEW t \in Passed(j),
              DateAt(queue[j].chunk, t) = at
       PROVE  LeavesDate(k, w, queue[j].chunk, t)
  <2> SUFFICES ASSUME temp[at] # 0 PROVE LeavesDate(k, w, queue[j].chunk, t)
    BY <1>3, <1>10 DEF LeavesDate
  <2>1. PICK x : x = temp[at]
    OBVIOUS
  <2>2. /\ x \in DOMAIN queue /\ queue[x].chunk # 0 /\ DateAt(queue[x].chunk, work[x].date) = at
        /\ work[x].stage \in {"writing", "closed", "failed"}
    BY <1>6, <2>1 DEF TempOf
  <2>3. /\ queue[x].chunk \in 1..DisplayChunks /\ queue[j].chunk \in 1..DisplayChunks
        /\ t \in 1..DatesInChunk
    <3>1. t \in 1..DatesInChunk
      BY <1>1, PassedDates
    <3> QED BY <1>7, <1>10, <2>2, <3>1, DisplayAssumption
  <2>4. /\ queue[x].chunk = queue[k].chunk /\ work[x].date = work[k].date
        /\ queue[j].chunk = queue[k].chunk /\ t = work[k].date
    <3>1. work[x].date \in 1..DatesInChunk /\ work[k].date \in 1..DatesInChunk
      BY <1>7, <2>2
    <3>2. \A c, e \in 1..DisplayChunks : \A u, v \in 1..DatesInChunk :
             DateAt(c, u) = DateAt(e, v) => c = e /\ u = v
      BY DatesOfChunks
    <3>3. queue[x].chunk = queue[k].chunk /\ work[x].date = work[k].date
      BY <1>4, <2>2, <2>3, <3>1, <3>2
    <3>4. queue[j].chunk = queue[k].chunk /\ t = work[k].date
      BY <1>4, <1>10, <2>3, <3>1, <3>2
    <3> QED BY <3>3, <3>4
  <2>5. j # x /\ j # k
    <3>1. work[j].stage = "ok" \/ t # work[j].date
      BY <1>7, <2>3 DEF Passed
    <3> QED BY <1>3, <2>2, <2>4, <3>1
  <2>6. x = k
    BY <1>1, <1>10, <2>2, <2>4, <2>5, FewJobs
  <2>7. file[k] \in {"whole", "invalid"}
    BY <1>1, <1>3 DEF Closed
  <2>8. target' = [target EXCEPT ![at] = [by |-> k, state |-> file[k]]]
    BY <1>3, <2>1, <2>6
  <2>9. target'[at].by = k /\ target'[at].state \in {"whole", "invalid"}
    BY <1>1, <1>4, <2>7, <2>8 DEF DisplayTypes
  <2> QED BY <1>5, <1>10, <2>4, <2>9 DEF LeavesDate
<1>11. Validated'
  <2>1. \A t \in IF w.stage = "ok" THEN 1..DatesInChunk ELSE 1..w.date - 1 : t \in Passed(k)
    BY <1>3, <1>5 DEF Passed
  <2>2. ASSUME NEW j \in DOMAIN queue, queue[j].chunk # 0, Few(queue[j].chunk), NEW t \in Passed(j)
        PROVE  LeavesDate(k, w, queue[j].chunk, t)
    <3>1. DateAt(queue[j].chunk, t) \in HoldoutDates
      BY <1>1, <2>2, PassedDates
    <3> QED BY <1>9, <1>10, <2>2, <3>1 DEF LeavesDate
  <2> QED BY <1>1, <1>3, <1>5, <2>1, <2>2, StaysValidated
<1>12. \A d \in HoldoutDates : temp'[d] # k
  <2> SUFFICES ASSUME NEW d \in HoldoutDates, temp[d] = k, d # at PROVE FALSE
    BY <1>6, <1>8
  <2> QED BY <1>4, <1>6 DEF TempOf
<1>13. file' \in Seq(FileStates) /\ Len(file') = Len(file)
       /\ \A j \in DOMAIN queue : j # k => file'[j] = file[j]
  BY <1>1, <1>3 DEF DisplayTypes
<1>14. queue[k].chunk # 0 /\ \A d \in HoldoutDates : temp'[d] \in {0, k, temp[d]}
  BY <1>4, <1>8
<1>15. Turns(k, w)
  BY <1>3, <1>5, <1>14 DEF Turns
<1>16. Leaves(k, w)
  BY <1>5, <1>8, <1>9, <1>12, <1>13, <1>14 DEF Leaves
<1> QED BY <1>3, <1>4, <1>5, <1>11, <1>15, <1>16, JobMoves

\* A close that fails takes the temporary name away.
LEMMA CloseFailsStep ==
    ASSUME DisplayInv, NEW k \in DOMAIN queue, UNCHANGED <<submit, queue>>,
           WorksAt(k, "writing"), CloseFileFails(WorkDate(k)), WorkTo(k, "validating")
    PROVE  DisplayInv'
<1>1. DisplayTypes /\ Temporaries /\ Validated
  BY DEF DisplayInv
<1>2. PICK at : at = WorkDate(k)
  OBVIOUS
<1>3. /\ work[k].stage = "writing" /\ queue' = queue /\ submit' = submit
      /\ temp' = [temp EXCEPT ![at] = 0] /\ file' = file /\ target' = target
      /\ WorkTo(k, "validating")
  BY <1>2 DEF WorksAt, CloseFileFails
<1>4. /\ SubmitsOver /\ queue[k].chunk \in 1..DisplayChunks /\ at \in HoldoutDates
      /\ at = DateAt(queue[k].chunk, work[k].date)
  BY <1>2, <1>3, JobAtWork
<1>5. PICK w \in JobWork :
         work' = [work EXCEPT ![k] = w] /\ w.stage = "validating" /\ w.date = work[k].date
  <2>1. "validating" \in JobStages
    BY DEF JobStages
  <2> QED BY <1>1, <1>3, <2>1, WorkTurns
<1>6. Validated'
  <2>1. \A t \in IF w.stage = "ok" THEN 1..DatesInChunk ELSE 1..w.date - 1 : t \in Passed(k)
    BY <1>3, <1>5 DEF Passed
  <2> QED BY <1>1, <1>3, <1>5, <2>1, StaysValidated DEF LeavesDate
<1>7. temp' \in [HoldoutDates -> Nat]
      /\ \A d \in HoldoutDates : temp'[d] = IF d = at THEN 0 ELSE temp[d]
  BY <1>1, <1>3 DEF DisplayTypes
<1>8. k # 0 /\ \A d \in HoldoutDates : TempOf(d)
  BY <1>1, DisplayLists DEF Temporaries
<1>9. \A d \in HoldoutDates : temp'[d] # k
  <2> SUFFICES ASSUME NEW d \in HoldoutDates, temp[d] = k, d # at PROVE FALSE
    BY <1>7, <1>8
  <2> QED BY <1>4, <1>8 DEF TempOf
<1>10. /\ file' \in Seq(FileStates) /\ Len(file') = Len(file)
       /\ target' \in [HoldoutDates -> [by : Nat, state : FileStates]]
       /\ \A j \in DOMAIN queue : j # k => file'[j] = file[j]
  BY <1>1, <1>3 DEF DisplayTypes
<1>11. queue[k].chunk # 0 /\ \A d \in HoldoutDates : temp'[d] \in {0, k, temp[d]}
  BY <1>4, <1>7
<1>12. Turns(k, w)
  BY <1>3, <1>5, <1>11 DEF Turns
<1>13. Leaves(k, w)
  BY <1>5, <1>7, <1>9, <1>10, <1>11 DEF Leaves
<1> QED BY <1>3, <1>4, <1>5, <1>6, <1>12, <1>13, JobMoves

\* A job that is killed leaves its files where they are.
LEMMA KilledStep ==
    ASSUME DisplayInv, NEW k \in DOMAIN queue, Killed(k)
    PROVE  DisplayInv'
<1>1. DisplayTypes /\ Temporaries /\ Validated
  BY DEF DisplayInv
<1>2. /\ work[k].stage \notin {"queued", "reading", "ok", "failed"}
      /\ queue' = queue /\ submit' = submit /\ temp' = temp /\ file' = file /\ target' = target
      /\ WorkTo(k, "failed")
  BY DEF Killed, fileVars
<1>3. SubmitsOver /\ queue[k].chunk \in 1..DisplayChunks
  BY <1>2, JobAtWork
<1>4. PICK w \in JobWork :
         work' = [work EXCEPT ![k] = w] /\ w.stage = "failed" /\ w.date = work[k].date
  <2>1. "failed" \in JobStages
    BY DEF JobStages
  <2> QED BY <1>1, <1>2, <2>1, WorkTurns
<1>5. Validated'
  <2>1. \A t \in IF w.stage = "ok" THEN 1..DatesInChunk ELSE 1..w.date - 1 : t \in Passed(k)
    BY <1>2, <1>4 DEF Passed
  <2> QED BY <1>1, <1>2, <1>4, <2>1, StaysValidated DEF LeavesDate
<1>6. k # 0 /\ queue[k].chunk # 0 /\ \A d \in HoldoutDates : TempOf(d)
  BY <1>1, <1>3, DisplayLists DEF Temporaries
<1>7. \A d \in HoldoutDates : temp'[d] = k => DateAt(queue[k].chunk, w.date) = d
  BY <1>2, <1>4, <1>6 DEF TempOf
<1>8. /\ file' \in Seq(FileStates) /\ Len(file') = Len(file)
      /\ temp' \in [HoldoutDates -> Nat]
      /\ target' \in [HoldoutDates -> [by : Nat, state : FileStates]]
      /\ \A j \in DOMAIN queue : j # k => file'[j] = file[j]
      /\ \A d \in HoldoutDates : temp'[d] \in {0, k, temp[d]}
  BY <1>1, <1>2 DEF DisplayTypes
<1>9. Turns(k, w)
  BY <1>2, <1>4, <1>6 DEF Turns
<1>10. Leaves(k, w)
  BY <1>4, <1>6, <1>7, <1>8 DEF Leaves, HasTemp
<1> QED BY <1>2, <1>3, <1>4, <1>5, <1>9, <1>10, JobMoves

-----------------------------------------------------------------------------
(* The theorem.                                                              *)

\* When finish reads, every job of its series has succeeded: the last one of
\* each lane, and each one before a job that has succeeded.
LEMMA SeriesSucceeded ==
    ASSUME DisplayInv, NEW k \in DOMAIN queue, work[k].stage = "reading", NEW base,
           base = k - DisplayChunks - 1
    PROVE  /\ base \in Nat
           /\ \A c \in 1..DisplayChunks : /\ base + c \in DOMAIN queue
                                          /\ queue[base + c].chunk = c
                                          /\ work[base + c].stage = "ok"
<1>1. DisplayTypes /\ Finishes /\ Waits
  BY DEF DisplayInv
<1>2. queue[k].chunk = 0 /\ \A j \in queue[k].deps : work[j].stage = "ok"
  BY <1>1 DEF Waits
<1>3. /\ Series(base, DisplayChunks)
      /\ \A c \in 1..DisplayChunks : c + DisplayLanes > DisplayChunks => base + c \in queue[k].deps
  BY <1>1, <1>2 DEF Finishes, SeriesEnded
<1>4. DisplayChunks \in Nat \ {0} /\ DisplayLanes \in Nat \ {0}
  BY DisplayAssumption
<1>5. /\ base \in Nat /\ base + DisplayChunks <= Len(queue)
      /\ \A c \in 1..DisplayChunks : queue[base + c].chunk = c
      /\ \A c \in 1..DisplayChunks :
            c > DisplayLanes => base + c - DisplayLanes \in queue[base + c].deps
  BY <1>3 DEF Series
<1>6. DOMAIN queue = 1..Len(queue) /\ Len(queue) \in Nat
  BY <1>1, DisplayLists
<1>7. \A c \in 1..DisplayChunks : base + c \in DOMAIN queue
  BY <1>4, <1>5, <1>6
<1> DEFINE left == {n \in Nat : /\ DisplayChunks - n \in 1..DisplayChunks
                                /\ work[base + (DisplayChunks - n)].stage # "ok"}
<1>8. left = {}
  <2> SUFFICES ASSUME left # {} PROVE FALSE
    OBVIOUS
  <2>1. PICK n \in left : \A y \in left : ~ (<<y, n>> \in OpToRel(<, Nat))
    <3>1. left \subseteq Nat
      OBVIOUS
    <3> HIDE DEF left
    <3> QED BY <3>1, NatLessThanWellFounded, WFMin
  <2>2. PICK c \in 1..DisplayChunks : c = DisplayChunks - n /\ n \in Nat
    OBVIOUS
  <2>3. work[base + c].stage # "ok"
    BY <2>2
  <2>4. c + DisplayLanes <= DisplayChunks
    <3>1. SUFFICES ASSUME c + DisplayLanes > DisplayChunks PROVE FALSE
      BY <1>4, <2>2
    <3> QED BY <1>2, <1>3, <2>3, <3>1
  <2>5. PICK e \in 1..DisplayChunks : e = c + DisplayLanes /\ e > DisplayLanes
    BY <1>4, <2>4
  <2>6. base + c \in queue[base + e].deps
    <3>1. base + e - DisplayLanes = base + c
      BY <1>4, <1>5, <2>5
    <3> QED BY <1>5, <2>5, <3>1
  <2>7. work[base + e].stage = "ok"
    <3>1. PICK y : y = DisplayChunks - e
      OBVIOUS
    <3>2. y \in Nat /\ y < n /\ DisplayChunks - y = e
      BY <1>4, <2>2, <2>4, <2>5, <3>1
    <3>3. <<y, n>> \in OpToRel(<, Nat)
      BY <2>2, <3>2 DEF OpToRel
    <3>4. y \notin left
      BY <2>1, <3>3
    <3> QED BY <3>2, <3>4
  <2>8. work[base + c].stage = "ok"
    <3>1. base + e \in DOMAIN queue
      BY <1>7
    <3> QED BY <1>1, <2>6, <2>7, <3>1 DEF Waits
  <2> QED BY <2>3, <2>8
<1>9. ASSUME NEW c \in 1..DisplayChunks
      PROVE  work[base + c].stage = "ok"
  <2>1. PICK n \in Nat : n = DisplayChunks - c
    BY <1>4
  <2>2. DisplayChunks - n = c
    BY <1>4, <2>1
  <2> QED BY <1>8, <2>1, <2>2
<1> QED BY <1>5, <1>7, <1>9

\* The invariant says what finish reads.
LEMMA FinishReadsWhole ==
    ASSUME DisplayInv
    PROVE  DisplayFromWhole
<1> SUFFICES ASSUME \A c \in 1..DisplayChunks : Few(c), NEW k \in DOMAIN queue,
                    work[k].stage = "reading",
                    NEW c \in 1..DisplayChunks, NEW t \in 1..DatesInChunk
             PROVE  LET seen == target[DateAt(c, t)]
                    IN  \/ seen.state = "whole"
                        \/ /\ seen.state = "invalid"
                           /\ seen.by \in ChunkJobs(c) /\ work[seen.by].stage # "ok"
  BY DEF DisplayFromWhole, Few, WorksAt, DateAt
<1>1. PICK base : base = k - DisplayChunks - 1
  OBVIOUS
<1>2. PICK j : j = base + c
  OBVIOUS
<1>3. j \in DOMAIN queue /\ queue[j].chunk = c /\ work[j].stage = "ok"
  BY <1>1, <1>2, SeriesSucceeded
<1>4. t \in Passed(j) /\ queue[j].chunk # 0 /\ Few(queue[j].chunk)
  BY <1>3, DisplayAssumption DEF Passed
<1>5. Stands(c, t)
  BY <1>3, <1>4 DEF DisplayInv, Validated
<1> QED BY <1>5 DEF Stands, Spoiled, Passed

\* Before the first run of submit nothing has been asked of the cluster.
LEMMA DisplayBegins ==
    ASSUME InitDisplay
    PROVE  DisplayInv
<1>1. /\ submit = <<>> /\ queue = <<>> /\ work = <<>> /\ file = <<>>
      /\ temp = [d \in HoldoutDates |-> 0] /\ target = [d \in HoldoutDates |-> NoFile]
  BY DEF InitDisplay, InitFiles
<1>2. DisplayTypes
  <2>1. NoFile \in [by : Nat, state : FileStates]
    BY DEF NoFile, FileStates
  <2>2. /\ submit \in Seq(SubmitRuns) /\ queue \in Seq(QueuedJobs) /\ work \in Seq(JobWork)
        /\ file \in Seq(FileStates)
        /\ Len(work) = Len(queue) /\ Len(file) = Len(queue)
    BY <1>1
  <2> QED BY <1>1, <2>1, <2>2 DEF DisplayTypes
<1>3. DOMAIN submit = {} /\ DOMAIN queue = {} /\ DOMAIN work = {}
  BY <1>1
<1>4. Submitting /\ Finishes /\ Waits /\ Closed /\ Validated
  BY <1>3 DEF Submitting, Finishes, Waits, Closed, Validated
<1>5. Temporaries
  BY <1>1 DEF Temporaries, TempOf
<1> QED BY <1>2, <1>4, <1>5 DEF DisplayInv

\* Every step of a run of submit or of a job keeps the invariant.
LEMMA DisplayGoesOn ==
    ASSUME DisplayInv, [NextDisplay]_displayVars
    PROVE  DisplayInv'
<1>1. CASE UNCHANGED displayVars
  <2>1. /\ submit' = submit /\ queue' = queue /\ work' = work
        /\ file' = file /\ temp' = temp /\ target' = target
    BY <1>1 DEF displayVars, fileVars
  <2>2. DisplayTypes /\ Submitting /\ Finishes /\ Waits /\ Temporaries /\ Closed /\ Validated
    BY DEF DisplayInv
  <2>3. DisplayTypes'
    BY <2>1, <2>2 DEF DisplayTypes
  <2>4. Submitting'
    BY <2>1, <2>2 DEF Submitting, SeriesBegun, Series
  <2>5. Finishes' /\ Waits' /\ Temporaries'
    BY <2>1, <2>2 DEF Finishes, SeriesEnded, Series, Waits, Temporaries, TempOf
  <2>6. Closed' /\ Validated'
    BY <2>1, <2>2 DEF Closed, Validated, Few, ChunkJobs, Stands, Spoiled, Passed
  <2> QED BY <2>3, <2>4, <2>5, <2>6 DEF DisplayInv
<1>2. CASE BeginSubmit
  BY <1>2, BeginSubmitStep
<1>3. ASSUME NEW n \in DOMAIN submit, SubmitChunk(n) \/ SubmitFinish(n) \/ Abandon(n)
      PROVE  DisplayInv'
  BY <1>3, SubmitChunkStep, SubmitFinishStep, AbandonStep
<1>4. ASSUME NEW k \in DOMAIN queue, Build(k)
      PROVE  DisplayInv'
  <2>1. UNCHANGED <<submit, queue>>
    BY <1>4 DEF Build
  <2>2. CASE WorksAt(k, "building") /\ CreateFile(k, WorkDate(k)) /\ WorkTo(k, "writing")
    BY <2>1, <2>2, CreateStep
  <2>3. CASE WorksAt(k, "writing") /\ CloseFile(k, WorkDate(k), "whole") /\ WorkTo(k, "closed")
    BY <2>1, <2>3, CloseStep
  <2>4. CASE WorksAt(k, "closed") /\ CommitFile(WorkDate(k)) /\ WorkTo(k, "validating")
    BY <2>1, <2>4, CommitStep
  <2> QED BY <1>4, <2>2, <2>3, <2>4 DEF Build
<1>5. ASSUME NEW k \in DOMAIN queue, BuildFails(k)
      PROVE  DisplayInv'
  <2>1. UNCHANGED <<submit, queue>> /\ WorksAt(k, "writing")
    BY <1>5 DEF BuildFails
  <2>2. CASE CloseFile(k, WorkDate(k), "invalid") /\ WorkTo(k, "closed")
    BY <2>1, <2>2, CloseStep
  <2>3. CASE CloseFileFails(WorkDate(k)) /\ WorkTo(k, "validating")
    BY <2>1, <2>3, CloseFailsStep
  <2> QED BY <1>5, <2>2, <2>3 DEF BuildFails
<1>6. ASSUME NEW k \in DOMAIN queue,
             StartJob(k) \/ LookForTarget(k) \/ ValidateTarget(k) \/ Killed(k)
      PROVE  DisplayInv'
  BY <1>6, StartJobStep, LookForTargetStep, ValidateTargetStep, KilledStep
<1> QED BY <1>1, <1>2, <1>3, <1>4, <1>5, <1>6 DEF NextDisplay

\* The runs of submit and the jobs keep the invariant of the display.
THEOREM DisplayInvariant == SpecDisplay => []DisplayInv
<1>1. InitDisplay => DisplayInv
  BY DisplayBegins
<1>2. DisplayInv /\ [NextDisplay]_displayVars => DisplayInv'
  BY DisplayGoesOn
<1> QED BY <1>1, <1>2, PTL DEF SpecDisplay

\* finish (holdout.py) reads a closed file of every date, whichever runs of
\* submit have died, as long as no chunk has been submitted more than twice; and
\* a whole one, unless another job of the chunk, one that has not succeeded, has
\* put an invalid file in its place.
THEOREM DisplayWhole == SpecDisplay => []DisplayFromWhole
<1>1. DisplayInv => DisplayFromWhole
  BY FinishReadsWhole
<1> QED BY <1>1, DisplayInvariant, PTL

-----------------------------------------------------------------------------
(* The composition.                                                          *)

\* Every exploration of the campaign is one of each of its programs, of which
\* two stand still.
THEOREM CampaignPrograms == SpecCampaign => Spec /\ SpecRound /\ SpecDisplay
<1>1. InitCampaign => InitSubmission /\ InitRound /\ InitDisplay
  BY DEF InitCampaign
<1>2. [NextCampaign]_campaignVars => [Next]_vars /\ [NextRound]_roundVars /\ [NextDisplay]_displayVars
  BY DEF NextCampaign, campaignVars
<1> QED BY <1>1, <1>2, PTL DEF SpecCampaign, Spec, SpecRound, SpecDisplay

\* What the campaign's programs promise holds of the composition; one job per
\* chunk wherever the status of unknown calls can be asked for.
THEOREM CampaignSafe ==
    SpecCampaign => /\ []ChainOrder /\ []StagesInOrder /\ []EvidenceChain /\ []DisplayFromWhole
                    /\ ReceiptFinal /\ (CanRecover => []OneJobPerChunk)
<1>1. CASE CanRecover
  <2>1. Spec => []OneJobPerChunk
    BY <1>1, PreflightOnce
  <2> QED BY <2>1, CampaignPrograms, PreflightInChain, RoundInOrder, RoundEvidence,
             RoundReceiptFinal, DisplayWhole, PTL
<1>2. CASE ~ CanRecover
  BY <1>2, CampaignPrograms, PreflightInChain, RoundInOrder, RoundEvidence,
     RoundReceiptFinal, DisplayWhole, PTL
<1> QED BY <1>1, <1>2
=============================================================================
