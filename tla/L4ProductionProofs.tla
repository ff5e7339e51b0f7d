------------------------- MODULE L4ProductionProofs -------------------------
(* What submit_plan promises holds for every number of submitters, chunks    *)
(* and lanes, and for any number of crashes and failures: no chunk is handed *)
(* over twice, the receipt is true, it is never taken back, and it can       *)
(* always be resumed.  The inductive invariant says that the holder of the   *)
(* lock has the receipt of the disk in memory, where it is in the plan, and  *)
(* that every call and every job waits for the job the receipt names.        *)
(*                                                                           *)
(* And what the jobs make of it, whoever dies: the job of a chunk that was   *)
(* handed over once is alone at its dates, so that no file it finds or makes *)
(* is replaced, and it succeeds only when its files are there and the job it *)
(* waits for has succeeded before it.                                        *)
EXTENDS L4Production, FiniteSetTheorems, WellFoundedInduction, TLAPS

\* Every chunk before c is submitted.
Before(r, c) == \A d \in 1..c - 1 : RecordedSubmitted(r, d)

\* Chunk c is the one being submitted.
OpenAt(r, c) ==
    /\ c \in Chunks /\ c = Len(r.jobs)
    /\ ~ Submitted(r.jobs[c])
    /\ Before(r, c)

\* What q says of the chunks that r has submitted is what r says.
Keeps(r, q) ==
    \A n \in 1..Len(r.jobs) :
        Submitted(r.jobs[n]) => n <= Len(q.jobs) /\ q.jobs[n] = r.jobs[n]

\* Dependencies are positions in the receipt, and kept by q where r has them.
KeepsDependencies(r, q) ==
    /\ Len(r.jobs) <= Len(q.jobs)
    /\ \A n \in 1..Len(r.jobs) : q.jobs[n].dep = r.jobs[n].dep

\* The receipt that announces chunk c, and the one that tries it again.
Announced(r, c) ==
    [r EXCEPT !.next = c, !.jobs = Append(@, NewRecord(DependencyJob(r, c)))]
Retried(r, c) == [r EXCEPT !.next = c, !.jobs[c].dep = DependencyJob(r, c)]

-----------------------------------------------------------------------------
(* Receipts.                                                                 *)

\* The chunk before a chunk in its lane is an earlier chunk.
LEMMA DependsOnEarlier ==
    ASSUME NEW c \in Chunks
    PROVE  /\ DependsOn(c) \in Nat /\ DependsOn(c) < c
           /\ DependsOn(c) # 0 => DependsOn(c) \in 1..c - 1
BY SizesAssumption DEF Chunks, DependsOn

\* A record that is submitted is one of the receipt.
LEMMA ReceiptRecords ==
    ASSUME NEW r \in Receipts
    PROVE  /\ r.jobs \in Seq(Records) /\ Len(r.jobs) \in Nat
           /\ \A n \in 1..Len(r.jobs) :
                 /\ r.jobs[n] \in Records
                 /\ r.jobs[n].job \in Nat /\ r.jobs[n].dep \in Nat
<1>1. r.jobs \in Seq(Records)
  BY DEF Receipts
<1>2. \A n \in 1..Len(r.jobs) : r.jobs[n] \in Records
  BY <1>1
<1> QED BY <1>1, <1>2 DEF Records

\* The first chunk that is not submitted, when all before it are.
LEMMA NextIs ==
    ASSUME NEW r, NEW c \in Chunks, Before(r, c), ~ RecordedSubmitted(r, c)
    PROVE  NextChunk(r) = c
<1> DEFINE open == {d \in Chunks : ~ RecordedSubmitted(r, d)}
<1>1. c \in open
  OBVIOUS
<1>2. \A d \in open : c <= d
  BY SizesAssumption DEF Before, Chunks
<1>3. \A x \in open : (\A y \in open : x <= y) => x = c
  BY <1>1, <1>2, SizesAssumption DEF Chunks
<1>4. Min(open) = c
  BY <1>1, <1>2, <1>3 DEF Min
<1> QED BY <1>1, <1>4 DEF NextChunk

\* There is none when all are submitted.
LEMMA NextNone ==
    ASSUME NEW r, Before(r, ChunkCount + 1)
    PROVE  NextChunk(r) = 0
BY SizesAssumption DEF NextChunk, Before, Chunks

\* A valid receipt is complete up to its end, or but for its last record.
LEMMA ValidShape ==
    ASSUME NEW r \in Receipts, ValidJobs(r)
    PROVE  \/ Before(r, Len(r.jobs) + 1)
           \/ OpenAt(r, Len(r.jobs))
<1>1. Len(r.jobs) \in Nat
  BY ReceiptRecords
<1>2. CASE \A n \in 1..Len(r.jobs) : Submitted(r.jobs[n])
  BY <1>1, <1>2 DEF Before, RecordedSubmitted
<1>3. CASE \E n \in 1..Len(r.jobs) : ~ Submitted(r.jobs[n])
  <2>1. PICK n \in 1..Len(r.jobs) : ~ Submitted(r.jobs[n])
    BY <1>3
  <2>2. n = Len(r.jobs)
    BY <2>1 DEF ValidJobs
  <2>3. Before(r, n)
    <3>1. \A d \in 1..n - 1 : d \in 1..Len(r.jobs) /\ d # Len(r.jobs)
      BY <1>1, <2>2
    <3> QED BY <3>1 DEF Before, RecordedSubmitted, ValidJobs
  <2>4. n \in Chunks
    BY <1>1, <2>1, SizesAssumption DEF ValidJobs, Chunks
  <2> QED BY <2>1, <2>2, <2>3, <2>4 DEF OpenAt
<1> QED BY <1>2, <1>3

\* So the first chunk that is not submitted can be told.
LEMMA NextType ==
    ASSUME NEW r \in Receipts, ValidJobs(r)
    PROVE  NextChunk(r) \in Nat
<1>1. Len(r.jobs) \in Nat /\ Len(r.jobs) <= ChunkCount
  BY ReceiptRecords DEF ValidJobs
<1>2. CASE OpenAt(r, Len(r.jobs))
  <2>1. ~ RecordedSubmitted(r, Len(r.jobs))
    BY <1>2 DEF OpenAt, RecordedSubmitted
  <2> QED BY <1>1, <1>2, <2>1, NextIs DEF OpenAt
<1>3. CASE Before(r, Len(r.jobs) + 1) /\ Len(r.jobs) < ChunkCount
  <2>1. ~ RecordedSubmitted(r, Len(r.jobs) + 1) /\ Len(r.jobs) + 1 \in Chunks
    BY <1>1, <1>3, SizesAssumption DEF RecordedSubmitted, Chunks
  <2> QED BY <1>1, <1>3, <2>1, NextIs
<1>4. CASE Before(r, Len(r.jobs) + 1) /\ Len(r.jobs) = ChunkCount
  BY <1>4, NextNone
<1> QED BY <1>1, <1>2, <1>3, <1>4, ValidShape, SizesAssumption

\* The receipt once chunk c is announced.
LEMMA AnnouncedReceipt ==
    ASSUME NEW r \in Receipts, ValidJobs(r), NEW c \in Chunks,
           Before(r, c), c > Len(r.jobs),
           NEW q, q = Announced(r, c)
    PROVE  /\ q \in Receipts /\ q.status = r.status /\ q.next = c
           /\ OpenAt(q, c) /\ ValidJobs(q) /\ NextChunk(q) = c
           /\ Keeps(r, q) /\ KeepsDependencies(r, q)
<1> DEFINE new == NewRecord(DependencyJob(r, c))
<1>1. r.jobs \in Seq(Records) /\ Len(r.jobs) \in Nat /\ c \in Nat /\ Len(r.jobs) <= ChunkCount
  BY ReceiptRecords, SizesAssumption DEF Chunks, ValidJobs
<1>2. Len(r.jobs) = c - 1
  <2>1. CASE c = 1
    BY <1>1, <2>1
  <2>2. CASE c > 1
    <3>1. RecordedSubmitted(r, c - 1)
      BY <1>1, <2>2 DEF Before
    <3> QED BY <1>1, <3>1 DEF RecordedSubmitted
  <2> QED BY <1>1, <2>1, <2>2, SizesAssumption DEF Chunks
<1>3. DependencyJob(r, c) \in Nat
  <2>1. CASE DependsOn(c) = 0
    BY <2>1 DEF DependencyJob
  <2>2. CASE DependsOn(c) # 0
    BY <1>1, <1>2, <2>2, DependsOnEarlier, ReceiptRecords DEF DependencyJob
  <2> QED BY <2>1, <2>2
<1>4. new \in Records
  BY <1>3 DEF NewRecord, Records
<1>5. /\ q.jobs = Append(r.jobs, new) /\ q.next = c /\ q.status = r.status
      /\ q \in Receipts
  <2>1. Append(r.jobs, new) \in Seq(Records)
    BY <1>1, <1>4
  <2> HIDE DEF new
  <2>2. q = [r EXCEPT !.next = c, !.jobs = Append(r.jobs, new)]
    BY DEF new, Announced
  <2> QED BY <1>1, <2>1, <2>2 DEF Receipts
<1>6. /\ Len(q.jobs) = c /\ q.jobs[c] = new
      /\ \A n \in 1..c - 1 : q.jobs[n] = r.jobs[n]
  <2> HIDE DEF new
  <2> QED BY <1>1, <1>2, <1>4, <1>5
<1>7. \A n \in 1..c - 1 : RecordedSubmitted(q, n) /\ RecordedSubmitted(r, n)
  BY <1>1, <1>2, <1>6 DEF Before, RecordedSubmitted
<1>8. OpenAt(q, c)
  <2>1. ~ Submitted(q.jobs[c])
    BY <1>6 DEF Submitted, NewRecord
  <2> QED BY <1>6, <1>7, <2>1 DEF OpenAt, Before
<1>9. ValidJobs(q)
  <2>1. \A n \in 1..c : DependencyJob(q, n) = DependencyJob(r, n)
                         /\ (DependsOn(n) # 0 => RecordedSubmitted(q, DependsOn(n)))
    <3> SUFFICES ASSUME NEW n \in 1..c
                 PROVE  /\ DependencyJob(q, n) = DependencyJob(r, n)
                        /\ DependsOn(n) # 0 => RecordedSubmitted(q, DependsOn(n))
      OBVIOUS
    <3>1. n \in Chunks
      BY <1>1, SizesAssumption DEF Chunks
    <3>2. DependsOn(n) # 0 => DependsOn(n) \in 1..c - 1
      BY <1>1, <3>1, DependsOnEarlier
    <3> QED BY <1>6, <1>7, <3>2 DEF DependencyJob
  <2>2. \A n \in 1..c - 1 : /\ q.jobs[n].dep = DependencyJob(q, n)
                            /\ Submitted(q.jobs[n]) <=> q.jobs[n].job # 0
                            /\ Submitted(q.jobs[n])
    BY <1>1, <1>2, <1>6, <1>7, <2>1 DEF ValidJobs, RecordedSubmitted
  <2>3. /\ q.jobs[c].dep = DependencyJob(q, c)
        /\ ~ Submitted(q.jobs[c]) /\ q.jobs[c].job = 0
    BY <1>1, <1>6, <2>1 DEF NewRecord, Submitted, Chunks
  <2>4. c <= ChunkCount
    BY SizesAssumption DEF Chunks
  <2>5. \A n \in 1..Len(q.jobs) : n \in 1..c - 1 \/ n = c
    BY <1>1, <1>6
  <2>6. \A n \in 1..Len(q.jobs) :
            /\ DependsOn(n) # 0 => RecordedSubmitted(q, DependsOn(n))
            /\ q.jobs[n].dep = DependencyJob(q, n)
            /\ Submitted(q.jobs[n]) <=> q.jobs[n].job # 0
            /\ ~ Submitted(q.jobs[n]) => n = Len(q.jobs)
    <3> TAKE n \in 1..Len(q.jobs)
    <3>1. CASE n = c
      BY <1>1, <1>6, <2>1, <2>3, <3>1
    <3>2. CASE n \in 1..c - 1
      <4>1. n \in 1..c
        BY <1>1, <3>2
      <4> QED BY <2>1, <2>2, <3>2, <4>1
    <3> QED BY <3>1, <3>2, <2>5
  <2> QED BY <1>1, <1>6, <2>4, <2>6 DEF ValidJobs
<1>10. NextChunk(q) = c
  BY <1>8, NextIs DEF OpenAt, RecordedSubmitted
<1>11. Keeps(r, q) /\ KeepsDependencies(r, q)
  <2>1. /\ Len(r.jobs) <= Len(q.jobs)
        /\ \A n \in 1..Len(r.jobs) : n <= Len(q.jobs) /\ q.jobs[n] = r.jobs[n]
    BY <1>1, <1>2, <1>6
  <2> QED BY <2>1 DEF Keeps, KeepsDependencies
<1> QED BY <1>5, <1>8, <1>9, <1>10, <1>11

\* The receipt once chunk c is known to be job k.
LEMMA ConfirmedReceipt ==
    ASSUME NEW r \in Receipts, ValidJobs(r), NEW c, OpenAt(r, c),
           NEW k \in Nat \ {0}, NEW q, q = Confirmed(r, c, k)
    PROVE  /\ q \in Receipts /\ q.status = r.status /\ q.next = NextChunk(q)
           /\ ValidJobs(q) /\ Before(q, c + 1)
           /\ Keeps(r, q) /\ KeepsDependencies(r, q)
           /\ Len(q.jobs) = c /\ q.jobs[c].job = k
           /\ \A n \in 1..c - 1 : q.jobs[n] = r.jobs[n]
<1> DEFINE p == Recorded(r, c, k)
<1>1. /\ r.jobs \in Seq(Records) /\ c = Len(r.jobs) /\ c \in Nat /\ c \in 1..c
      /\ c \in Chunks /\ c <= ChunkCount /\ r.jobs[c] \in Records
  BY ReceiptRecords, SizesAssumption DEF OpenAt, Chunks
<1> DEFINE was == r.jobs[c]
           new == [was EXCEPT !.status = "submitted", !.job = k]
<1>2. new \in Records /\ new.dep = was.dep /\ new.job = k /\ new.status = "submitted"
  BY <1>1 DEF Records
<1>3. p.jobs = [r.jobs EXCEPT ![c] = new] /\ p.status = r.status /\ p.next = r.next
      /\ p \in Receipts
  <2>1. [r.jobs EXCEPT ![c] = new] \in Seq(Records)
    <3> HIDE DEF new
    <3> QED BY <1>1, <1>2
  <2>2. p = [r EXCEPT !.jobs = [r.jobs EXCEPT ![c] = new]]
    <3> DEFINE half == [r EXCEPT !.jobs[c].status = "submitted"]
    <3>1. half = [r EXCEPT !.jobs = [r.jobs EXCEPT ![c] = [was EXCEPT !.status = "submitted"]]]
      OBVIOUS
    <3>2. /\ half.jobs = [r.jobs EXCEPT ![c] = [was EXCEPT !.status = "submitted"]]
          /\ half.jobs[c] = [was EXCEPT !.status = "submitted"]
      BY <1>1, <3>1 DEF Receipts
    <3>3. p = [half EXCEPT !.jobs = [half.jobs EXCEPT ![c] = [half.jobs[c] EXCEPT !.job = k]]]
      BY DEF Recorded
    <3>4. [half.jobs[c] EXCEPT !.job = k] = new
      BY <1>1, <3>2 DEF Records
    <3> HIDE DEF half, new, p
    <3>5. [half.jobs EXCEPT ![c] = new] = [r.jobs EXCEPT ![c] = new]
      BY <1>1, <3>2
    <3>6. p = [half EXCEPT !.jobs = [r.jobs EXCEPT ![c] = new]]
      BY <3>3, <3>4, <3>5
    <3> QED BY <3>1, <3>6 DEF Receipts
  <2> HIDE DEF new, p
  <2> QED BY <2>1, <2>2 DEF Receipts
<1>4. q = [p EXCEPT !.next = NextChunk(p)]
  BY DEF Confirmed
<1>5. q.jobs = p.jobs /\ q.status = r.status /\ q.next = NextChunk(p)
  <2> HIDE DEF p
  <2> QED BY <1>3, <1>4 DEF Receipts
<1> HIDE DEF new, p
<1>6. /\ Len(q.jobs) = c /\ q.jobs[c] = new
      /\ \A n \in 1..c - 1 : q.jobs[n] = r.jobs[n]
  BY <1>1, <1>3, <1>5
<1>7. Before(q, c + 1) /\ \A n \in 1..c - 1 : RecordedSubmitted(r, n)
  <2>1. RecordedSubmitted(q, c)
    BY <1>1, <1>2, <1>6 DEF RecordedSubmitted, Submitted
  <2>2. \A n \in 1..c - 1 : RecordedSubmitted(r, n) /\ RecordedSubmitted(q, n)
    BY <1>1, <1>6 DEF OpenAt, Before, RecordedSubmitted
  <2>3. \A n \in 1..(c + 1) - 1 : n = c \/ n \in 1..c - 1
    BY <1>1
  <2> QED BY <2>1, <2>2, <2>3 DEF Before
<1>8. ValidJobs(q)
  <2>1. \A n \in 1..c : DependencyJob(q, n) = DependencyJob(r, n)
                         /\ (DependsOn(n) # 0 => RecordedSubmitted(q, DependsOn(n)))
    <3> SUFFICES ASSUME NEW n \in 1..c
                 PROVE  /\ DependencyJob(q, n) = DependencyJob(r, n)
                        /\ DependsOn(n) # 0 => RecordedSubmitted(q, DependsOn(n))
      OBVIOUS
    <3>1. n \in Chunks
      BY <1>1, SizesAssumption DEF Chunks
    <3>2. DependsOn(n) # 0 => DependsOn(n) \in 1..c - 1
      BY <1>1, <3>1, DependsOnEarlier
    <3>3. \A d \in 1..c - 1 : d \in 1..(c + 1) - 1
      BY <1>1
    <3> QED BY <1>6, <1>7, <3>2, <3>3 DEF DependencyJob, Before
  <2>2. \A n \in 1..c - 1 : /\ q.jobs[n].dep = DependencyJob(q, n)
                            /\ Submitted(q.jobs[n]) <=> q.jobs[n].job # 0
                            /\ Submitted(q.jobs[n])
    BY <1>1, <1>6, <1>7, <2>1 DEF ValidJobs, RecordedSubmitted
  <2>3. /\ q.jobs[c].dep = DependencyJob(q, c)
        /\ Submitted(q.jobs[c]) /\ q.jobs[c].job # 0
    BY <1>1, <1>2, <1>6, <2>1 DEF ValidJobs, Submitted
  <2>4. \A n \in 1..Len(q.jobs) : n \in 1..c - 1 \/ n = c
    BY <1>1, <1>6
  <2>5. \A n \in 1..Len(q.jobs) :
            /\ DependsOn(n) # 0 => RecordedSubmitted(q, DependsOn(n))
            /\ q.jobs[n].dep = DependencyJob(q, n)
            /\ Submitted(q.jobs[n]) <=> q.jobs[n].job # 0
            /\ ~ Submitted(q.jobs[n]) => n = Len(q.jobs)
    <3> TAKE n \in 1..Len(q.jobs)
    <3>1. CASE n = c
      BY <1>1, <1>6, <2>1, <2>3, <3>1
    <3>2. CASE n \in 1..c - 1
      <4>1. n \in 1..c
        BY <1>1, <3>2
      <4> QED BY <2>1, <2>2, <3>2, <4>1
    <3> QED BY <3>1, <3>2, <2>4
  <2> QED BY <1>1, <1>6, <2>5 DEF ValidJobs
<1>9. NextChunk(q) = NextChunk(p)
  BY <1>5 DEF NextChunk, RecordedSubmitted
<1>10. q \in Receipts
  <2>1. NextChunk(p) \in Nat
    <3>1. ValidJobs(p)
      BY <1>5, <1>8 DEF ValidJobs, RecordedSubmitted, DependencyJob
    <3> QED BY <1>3, <3>1, NextType
  <2> QED BY <1>3, <1>4, <2>1 DEF Receipts
<1>11. Keeps(r, q) /\ KeepsDependencies(r, q)
  <2>1. \A n \in 1..Len(r.jobs) : n \in 1..c - 1 \/ n = c
    BY <1>1
  <2> QED BY <1>1, <1>2, <1>6, <2>1 DEF Keeps, KeepsDependencies, OpenAt
<1> QED BY <1>2, <1>5, <1>6, <1>7, <1>8, <1>9, <1>10, <1>11

\* A retry writes the dependency that is there already.
LEMMA RetriedReceipt ==
    ASSUME NEW r \in Receipts, ValidJobs(r), NEW c, OpenAt(r, c),
           NEW q, q = Retried(r, c)
    PROVE  q \in Receipts /\ q.jobs = r.jobs /\ q.status = r.status /\ q.next = c
<1>1. /\ r.jobs \in Seq(Records) /\ c = Len(r.jobs) /\ c \in Nat /\ c \in 1..Len(r.jobs)
      /\ r.jobs[c] \in Records
  BY ReceiptRecords, SizesAssumption DEF OpenAt, Chunks
<1>2. r.jobs[c].dep = DependencyJob(r, c)
  BY <1>1 DEF ValidJobs
<1>3. [r.jobs[c] EXCEPT !.dep = DependencyJob(r, c)] = r.jobs[c]
  BY <1>1, <1>2 DEF Records
<1>4. [r.jobs EXCEPT ![c] = r.jobs[c]] = r.jobs
  BY <1>1
<1>5. q = [r EXCEPT !.next = c, !.jobs = r.jobs]
  BY <1>1, <1>3, <1>4 DEF Receipts, Retried
<1> QED BY <1>1, <1>5 DEF Receipts

-----------------------------------------------------------------------------
(* The inductive invariant.                                                  *)

Places == {"idle", "opened", "loop", "announced", "calling"}
By == Submitters \cup {Orphan}
Calls == [by : By, name : Nat, dep : Nat]
Accepted == [name : Nat, dep : Nat, late : BOOLEAN, by : By]

TypeInv ==
    /\ lock \subseteq Submitters
    /\ disk \in Receipts \cup {NoReceipt}
    /\ mem \in [Submitters -> Receipts \cup {NoReceipt}]
    /\ pc \in [Submitters -> Places]
    /\ cur \in [Submitters -> Nat]
    /\ calls \subseteq Calls
    /\ jobs \in Seq(Accepted)

Busy(s) == pc[s] # "idle"

\* One submitter at a time is at work; it holds the lock and has the receipt
\* of the disk in memory.
Holder ==
    /\ \A s \in Submitters : s \in lock <=> Busy(s)
    /\ \A s, t \in Submitters : Busy(s) /\ Busy(t) => s = t
    /\ \A s \in Submitters :
          Busy(s) => disk # NoReceipt /\ mem[s] = disk /\ disk.status # "submitted"

\* Where it is in the plan.
Progress ==
    \A s \in Submitters :
        /\ pc[s] = "loop" => cur[s] \in 1..ChunkCount + 1 /\ Before(disk, cur[s])
        /\ pc[s] \in {"announced", "calling"} => OpenAt(disk, cur[s])

\* What the cluster was asked for waits for the job the receipt names.
Asked(x) ==
    /\ disk # NoReceipt
    /\ x.name \in 1..Len(disk.jobs) /\ x.dep = disk.jobs[x.name].dep

AllAsked == (\A call \in calls : Asked(call)) /\ (\A k \in JobIds : Asked(jobs[k]))

Mine(s, k) == k \in JobIds /\ jobs[k].by = s /\ jobs[k].name = cur[s]

\* A submitter has at most one call on its way, for the chunk it works on;
\* when that is decided without a failure, there is a job.
OneCall ==
    /\ \A call \in calls :
          call.by # Orphan => pc[call.by] = "calling" /\ call.name = cur[call.by]
    /\ \A x, y \in calls : x.by = y.by /\ x.by # Orphan => x = y
    /\ \A s \in Submitters :
          pc[s] = "calling" => (\E call \in calls : call.by = s) \/ (\E k \in JobIds : Mine(s, k))

\* Nobody but an orphan has a job of the chunk that is about to be handed over.
NotYet ==
    \A s \in Submitters :
        pc[s] = "announced" \/ (\E call \in calls : call.by = s) =>
            \A k \in JobIds : jobs[k].name = cur[s] => jobs[k].late

SubmissionInv ==
    /\ TypeInv /\ Holder /\ Progress /\ AllAsked /\ OneCall /\ NotYet
    /\ ReceiptResumable /\ ReceiptTruthful /\ OneJobPerChunk

-----------------------------------------------------------------------------
(* Lemmas about states.                                                      *)

\* The jobs have numbers from 1, a name and a dependency.
LEMMA JobTypes ==
    ASSUME TypeInv
    PROVE  /\ Len(jobs) \in Nat
           /\ \A k \in JobIds : /\ k \in Nat \ {0} /\ jobs[k] \in Accepted
                                /\ jobs[k].name \in Nat /\ jobs[k].dep \in Nat
                                /\ jobs[k].late \in BOOLEAN /\ jobs[k].by \in By
<1>1. Len(jobs) \in Nat /\ \A k \in 1..Len(jobs) : k \in Nat \ {0} /\ jobs[k] \in Accepted
  BY DEF TypeInv
<1> QED BY <1>1 DEF JobIds, Accepted

\* A set of jobs that is not empty has a latest one.
LEMMA LatestJob ==
    ASSUME TypeInv, NEW S, S \subseteq JobIds, S # {}
    PROVE  Max(S) \in S
<1> DEFINE n == Len(jobs)
           below == {n - k : k \in S}
<1>1. n \in Nat /\ \A k \in S : k \in Nat /\ k <= n
  BY JobTypes DEF JobIds
<1>2. below \subseteq Nat /\ below # {}
  BY <1>1
<1>3. PICK x \in below : \A y \in below : ~ (<<y, x>> \in OpToRel(<, Nat))
  <2> HIDE DEF below
  <2> QED BY <1>2, NatLessThanWellFounded, WFMin
<1>4. PICK m \in S : x = n - m
  BY <1>3
<1>5. \A y \in below : ~ (y < x)
  BY <1>2, <1>3 DEF OpToRel
<1>6. \A k \in S : m >= k
  <2> TAKE k \in S
  <2>1. n - k \in below
    OBVIOUS
  <2>2. ~ (n - k < n - m)
    BY <1>4, <1>5, <2>1
  <2> QED BY <1>1, <1>4, <2>2
<1>7. Max(S) = CHOOSE y \in S : \A k \in S : y >= k
  BY DEF Max
<1> QED BY <1>4, <1>6, <1>7

\* When the receipt only grows, what is true of it stays true, and every job
\* that was asked for still is.
LEMMA ReceiptGrows ==
    ASSUME SubmissionInv, disk \in Receipts, disk' \in Receipts, jobs' = jobs,
           Keeps(disk, disk'), KeepsDependencies(disk, disk'),
           ValidJobs(disk'), disk'.next = NextChunk(disk'),
           \A n \in 1..Len(disk'.jobs) :
               Submitted(disk'.jobs[n]) =>
                   \/ n \in 1..Len(disk.jobs) /\ Submitted(disk.jobs[n])
                   \/ disk'.jobs[n].job \in JobIds /\ jobs[disk'.jobs[n].job].name = n,
           disk'.status = "submitted" => \A n \in 1..Len(disk'.jobs) : Submitted(disk'.jobs[n])
    PROVE  /\ ReceiptResumable' /\ ReceiptTruthful' /\ OneJobPerChunk'
           /\ \A x : Asked(x) => Asked(x)'
           /\ \A k \in JobIds' : Asked(jobs[k])'
<1>1. disk # NoReceipt /\ disk' # NoReceipt /\ JobIds' = JobIds
  BY NamesAssumption DEF JobIds
<1>2. ASSUME NEW x, Asked(x)
      PROVE  Asked(x)'
  BY <1>1, <1>2, ReceiptRecords DEF Asked, KeepsDependencies
<1>3. \A k \in JobIds : Asked(jobs[k])'
  BY <1>2 DEF SubmissionInv, AllAsked
<1>4. ReceiptTruthful'
  <2> SUFFICES ASSUME NEW n \in 1..Len(disk'.jobs), Submitted(disk'.jobs[n])
               PROVE  /\ disk'.jobs[n].job \in JobIds
                      /\ jobs[disk'.jobs[n].job].name = n
                      /\ jobs[disk'.jobs[n].job].dep = disk'.jobs[n].dep
    BY <1>1 DEF ReceiptTruthful
  <2>1. CASE n \in 1..Len(disk.jobs) /\ Submitted(disk.jobs[n])
    BY <1>1, <2>1 DEF SubmissionInv, ReceiptTruthful, Keeps
  <2>2. CASE disk'.jobs[n].job \in JobIds /\ jobs[disk'.jobs[n].job].name = n
    BY <1>3, <2>2 DEF Asked
  <2> QED BY <2>1, <2>2
<1>5. ReceiptResumable'
  BY DEF ReceiptResumable
<1>6. OneJobPerChunk'
  BY <1>1 DEF SubmissionInv, OneJobPerChunk
<1> QED BY <1>1, <1>2, <1>3, <1>4, <1>5, <1>6

\* What the submitter at work knows.
LEMMA AtWork ==
    ASSUME SubmissionInv, NEW s \in Submitters, Busy(s)
    PROVE  /\ disk \in Receipts /\ disk # NoReceipt /\ mem[s] = disk
           /\ ValidJobs(disk) /\ disk.next = NextChunk(disk) /\ disk.status # "submitted"
           /\ Keeps(disk, disk) /\ KeepsDependencies(disk, disk)
           /\ \A t \in Submitters \ {s} : pc[t] = "idle"
<1>1. disk \in Receipts /\ disk # NoReceipt
  BY DEF SubmissionInv, TypeInv, Holder
<1>2. mem[s] = disk /\ disk.status # "submitted" /\ \A t \in Submitters \ {s} : pc[t] = "idle"
  BY DEF SubmissionInv, Holder, Busy
<1>3. ValidJobs(disk) /\ disk.next = NextChunk(disk)
  BY <1>1 DEF SubmissionInv, ReceiptResumable
<1>4. Keeps(disk, disk) /\ KeepsDependencies(disk, disk)
  BY <1>1, ReceiptRecords DEF Keeps, KeepsDependencies
<1> QED BY <1>1, <1>2, <1>3, <1>4

\* A submitter that goes on keeps the lock.
LEMMA GoesOn ==
    ASSUME SubmissionInv, NEW s \in Submitters, Busy(s),
           NEW p \in Places \ {"idle"}, pc' = [pc EXCEPT ![s] = p], lock' = lock,
           disk' # NoReceipt, mem'[s] = disk', disk'.status # "submitted"
    PROVE  /\ Holder' /\ pc'[s] = p /\ pc' \in [Submitters -> Places]
           /\ \A t \in Submitters \ {s} : pc'[t] = "idle"
<1>1. \A t \in Submitters \ {s} : pc[t] = "idle"
  BY AtWork
<1>2. pc \in [Submitters -> Places]
  BY DEF SubmissionInv, TypeInv
<1>3. pc'[s] = p /\ pc' \in [Submitters -> Places] /\ \A t \in Submitters \ {s} : pc'[t] = "idle"
  BY <1>1, <1>2
<1>4. Holder'
  BY <1>1, <1>3 DEF SubmissionInv, Holder, Busy
<1> QED BY <1>3, <1>4

\* A submitter that leaves frees the lock, and nobody is at work.
LEMMA Leaves ==
    ASSUME SubmissionInv, NEW s \in Submitters, Busy(s), Leave(s), Forget(s)
    PROVE  /\ \A t \in Submitters : pc'[t] = "idle"
           /\ Holder' /\ Progress' /\ lock' \subseteq Submitters
           /\ pc' \in [Submitters -> Places] /\ cur' \in [Submitters -> Nat]
           /\ mem' \in [Submitters -> Receipts \cup {NoReceipt}]
<1>1. \A t \in Submitters \ {s} : pc[t] = "idle"
  BY AtWork
<1>2. TypeInv
  BY DEF SubmissionInv
<1>3. /\ pc' \in [Submitters -> Places] /\ cur' \in [Submitters -> Nat]
      /\ mem' \in [Submitters -> Receipts \cup {NoReceipt}] /\ lock' \subseteq Submitters
  BY <1>2 DEF TypeInv, Leave, Forget, Goto, Places
<1>4. \A t \in Submitters : pc'[t] = "idle"
  BY <1>1, <1>2 DEF TypeInv, Leave, Goto
<1>5. lock' = {}
  BY <1>1, <1>2 DEF TypeInv, SubmissionInv, Holder, Busy, Leave
<1>6. Holder' /\ Progress'
  BY <1>4, <1>5 DEF Holder, Progress, Busy
<1> QED BY <1>3, <1>4, <1>6

\* A chunk whose record is there and has no job is the last one of the receipt.
LEMMA UnfinishedIsOpen ==
    ASSUME SubmissionInv, NEW s \in Submitters, Unfinished(s)
    PROVE  OpenAt(disk, cur[s])
<1>1. Busy(s) /\ pc[s] = "loop"
  BY DEF Unfinished, AtChunk, Busy
<1>2. mem[s] = disk /\ ValidJobs(disk)
  BY <1>1, AtWork
<1>3. Before(disk, cur[s])
  BY <1>1 DEF SubmissionInv, Progress
<1> QED BY <1>2, <1>3 DEF Unfinished, AtChunk, OpenAt, ValidJobs

\* The call of a submitter is for the chunk it works on; one that does not
\* wait for an answer has none.
LEMMA NoCall ==
    ASSUME SubmissionInv, NEW s \in Submitters, pc[s] # "calling"
    PROVE  \A call \in calls : call.by # s
BY NamesAssumption DEF SubmissionInv, OneCall

\* What the receipt on disk says of a submitted chunk stays.
Kept == disk # NoReceipt => disk' # NoReceipt /\ Keeps(disk, disk')

\* Of the calls on their way, those of others have lost their parent.
LEMMA OthersAreOrphans ==
    ASSUME SubmissionInv, NEW s \in Submitters, Busy(s), NEW call \in calls, call.by # s
    PROVE  call.by = Orphan
<1>1. call.by \in By
  BY DEF SubmissionInv, TypeInv, Calls
<1>2. call.by # Orphan => pc[call.by] = "calling"
  BY DEF SubmissionInv, OneCall
<1> QED BY <1>1, <1>2, AtWork DEF By

\* When nobody waits for the cluster, there is nothing to say of its answers.
LEMMA Quiet ==
    ASSUME \A call \in calls' : call.by = Orphan,
           \A t \in Submitters : pc'[t] \notin {"announced", "calling"}
    PROVE  OneCall' /\ NotYet'
BY NamesAssumption DEF OneCall, NotYet

\* A step that leaves the receipt and the jobs alone changes nothing about them.
LEMMA SameReceipt ==
    ASSUME SubmissionInv, disk' = disk, jobs' = jobs
    PROVE  /\ ReceiptResumable' /\ ReceiptTruthful' /\ OneJobPerChunk'
           /\ \A x : Asked(x) => Asked(x)'
           /\ \A k \in JobIds' : Asked(jobs[k])'
           /\ disk' \in Receipts \cup {NoReceipt} /\ jobs' \in Seq(Accepted)
           /\ Kept
<1>1. /\ ReceiptResumable' /\ ReceiptTruthful' /\ OneJobPerChunk'
      /\ \A x : Asked(x) => Asked(x)'
      /\ \A k \in JobIds' : Asked(jobs[k])'
  BY DEF SubmissionInv, ReceiptResumable, ReceiptTruthful, OneJobPerChunk, AllAsked, Asked, JobIds
<1>2. disk \in Receipts \cup {NoReceipt} /\ jobs \in Seq(Accepted)
  BY DEF SubmissionInv, TypeInv
<1>3. Kept
  BY <1>2, ReceiptRecords DEF Kept, Keeps
<1> QED BY <1>1, <1>2, <1>3

-----------------------------------------------------------------------------
(* Every step keeps the invariant, and what the receipt says.                *)

\* The first submitter writes an empty receipt; a later one reads what is there.
LEMMA OpenStep ==
    ASSUME SubmissionInv, NEW s \in Submitters, Open(s)
    PROVE  SubmissionInv' /\ Kept
<1>1. /\ pc[s] = "idle" /\ lock = {} /\ lock' = {s} /\ pc' = [pc EXCEPT ![s] = "opened"]
      /\ calls' = calls /\ jobs' = jobs /\ cur' = cur /\ JobIds' = JobIds
  BY DEF Open, TakeLock, LockFree, Goto, JobIds
<1>2. TypeInv /\ \A t \in Submitters : pc[t] = "idle"
  BY <1>1 DEF SubmissionInv, Holder, Busy
<1>3. /\ pc' \in [Submitters -> Places] /\ pc'[s] = "opened"
      /\ \A t \in Submitters \ {s} : pc'[t] = "idle"
  BY <1>1, <1>2 DEF TypeInv, Places
<1>4. \A call \in calls : call.by = Orphan
  BY <1>2 DEF SubmissionInv, OneCall, TypeInv, Calls, By
<1>5. OneCall' /\ NotYet' /\ Progress' /\ OneJobPerChunk'
  <2>1. OneCall'
    BY <1>1, <1>3, <1>4 DEF OneCall
  <2>2. NotYet'
    BY <1>1, <1>3, <1>4, NamesAssumption DEF NotYet
  <2>3. Progress'
    BY <1>3 DEF Progress
  <2>4. OneJobPerChunk'
    BY <1>1 DEF SubmissionInv, OneJobPerChunk
  <2> QED BY <2>1, <2>2, <2>3, <2>4
<1>6. CASE disk = NoReceipt
  <2>1. disk' = EmptyReceipt /\ mem' = [mem EXCEPT ![s] = EmptyReceipt]
    BY <1>6 DEF Open, Write
  <2>2. EmptyReceipt \in Receipts /\ EmptyReceipt.jobs = <<>> /\ EmptyReceipt.status = "submitting"
    BY DEF EmptyReceipt, Receipts
  <2>3. calls = {} /\ JobIds = {}
    BY <1>6 DEF SubmissionInv, AllAsked, Asked
  <2>4. NextChunk(EmptyReceipt) = 1
    <3>1. 1 \in Chunks /\ Before(EmptyReceipt, 1) /\ ~ RecordedSubmitted(EmptyReceipt, 1)
      BY <2>2, SizesAssumption DEF Chunks, Before, RecordedSubmitted
    <3> QED BY <3>1, NextIs
  <2>5. ReceiptResumable' /\ ReceiptTruthful'
    <3>1. ValidJobs(EmptyReceipt)
      BY <2>2, SizesAssumption DEF ValidJobs
    <3> QED BY <2>1, <2>2, <2>4, <3>1 DEF ReceiptResumable, ReceiptTruthful, EmptyReceipt
  <2>6. TypeInv'
    BY <1>1, <1>2, <1>3, <2>1, <2>2 DEF TypeInv
  <2>7. Holder'
    BY <1>1, <1>2, <1>3, <2>1, <2>2, NamesAssumption DEF TypeInv, Holder, Busy
  <2>8. AllAsked'
    BY <1>1, <2>3 DEF AllAsked
  <2> QED BY <1>5, <1>6, <2>5, <2>6, <2>7, <2>8 DEF SubmissionInv, Kept
<1>7. CASE disk # NoReceipt
  <2>1. disk' = disk /\ mem' = [mem EXCEPT ![s] = disk] /\ disk.status # "submitted"
    BY <1>7 DEF Open
  <2>2. ReceiptResumable' /\ ReceiptTruthful' /\ AllAsked'
    BY <1>1, <2>1 DEF SubmissionInv, ReceiptResumable, ReceiptTruthful, AllAsked, Asked
  <2>3. TypeInv'
    BY <1>1, <1>2, <1>3, <2>1 DEF TypeInv
  <2>4. Holder'
    BY <1>1, <1>2, <1>3, <1>7, <2>1 DEF TypeInv, Holder, Busy
  <2>5. Kept
    <3>1. disk \in Receipts
      BY <1>2, <1>7 DEF TypeInv
    <3> QED BY <1>7, <2>1, <3>1, ReceiptRecords DEF Kept, Keeps
  <2> QED BY <1>5, <2>2, <2>3, <2>4, <2>5 DEF SubmissionInv
<1> QED BY <1>6, <1>7

\* It resumes what the receipt left open.
LEMMA ResumeStep ==
    ASSUME SubmissionInv, NEW s \in Submitters, Resume(s)
    PROVE  SubmissionInv' /\ Kept
<1> DEFINE q == [disk EXCEPT !.status = "submitting", !.next = NextChunk(disk)]
<1>1. pc[s] = "opened" /\ Busy(s)
  BY DEF Resume, Busy
<1>2. /\ disk \in Receipts /\ disk # NoReceipt /\ mem[s] = disk /\ ValidJobs(disk)
      /\ Keeps(disk, disk) /\ KeepsDependencies(disk, disk)
  BY <1>1, AtWork
<1>3. /\ disk' = q /\ mem' = [mem EXCEPT ![s] = q] /\ cur' = [cur EXCEPT ![s] = 1]
      /\ pc' = [pc EXCEPT ![s] = "loop"] /\ lock' = lock /\ calls' = calls /\ jobs' = jobs
  BY <1>2 DEF Resume, Write, Goto
<1>4. q \in Receipts /\ q.jobs = disk.jobs /\ q.status = "submitting" /\ q.next = NextChunk(disk)
  <2>1. NextChunk(disk) \in Nat
    BY <1>2, NextType
  <2> QED BY <1>2, <2>1 DEF Receipts
<1> HIDE DEF q
<1>5. ValidJobs(q) /\ NextChunk(q) = NextChunk(disk)
  BY <1>2, <1>4 DEF ValidJobs, NextChunk, RecordedSubmitted, DependencyJob
<1>6. Keeps(disk, q) /\ KeepsDependencies(disk, q)
  BY <1>2, <1>4 DEF Keeps, KeepsDependencies
<1>7. /\ ReceiptResumable' /\ ReceiptTruthful' /\ OneJobPerChunk'
      /\ \A x : Asked(x) => Asked(x)'
      /\ \A k \in JobIds' : Asked(jobs[k])'
  BY <1>2, <1>3, <1>4, <1>5, <1>6, ReceiptGrows
<1>8. TypeInv
  BY DEF SubmissionInv
<1>9. mem'[s] = q /\ q # NoReceipt
  BY <1>3, <1>4, <1>8, NamesAssumption DEF TypeInv
<1>10. /\ Holder' /\ pc'[s] = "loop" /\ pc' \in [Submitters -> Places]
       /\ \A t \in Submitters \ {s} : pc'[t] = "idle"
  BY <1>1, <1>3, <1>4, <1>9, GoesOn DEF Places
<1>11. TypeInv'
  BY <1>3, <1>4, <1>8, <1>10 DEF TypeInv
<1>12. Progress'
  <2>1. cur'[s] = 1
    BY <1>3, <1>8 DEF TypeInv
  <2> QED BY <1>10, <2>1, SizesAssumption DEF Progress, Before
<1>13. AllAsked'
  BY <1>3, <1>7 DEF AllAsked, SubmissionInv
<1>14. \A call \in calls : call.by = Orphan
  BY <1>1, <1>2, <1>8, NoCall, AtWork DEF TypeInv, Calls, By
<1>15. OneCall' /\ NotYet'
  BY <1>3, <1>10, <1>14, NamesAssumption DEF OneCall, NotYet
<1> QED BY <1>3, <1>6, <1>7, <1>9, <1>10, <1>11, <1>12, <1>13, <1>15 DEF SubmissionInv, Kept

\* A chunk that is submitted is passed over.
LEMMA SkipStep ==
    ASSUME SubmissionInv, NEW s \in Submitters, SkipSubmitted(s)
    PROVE  SubmissionInv' /\ Kept
<1>1. /\ pc[s] = "loop" /\ cur[s] \in Chunks /\ cur' = [cur EXCEPT ![s] = @ + 1]
      /\ lock' = lock /\ disk' = disk /\ mem' = mem /\ pc' = pc /\ calls' = calls /\ jobs' = jobs
      /\ Busy(s) /\ JobIds' = JobIds
  BY DEF SkipSubmitted, AtChunk, Advance, Busy, JobIds
<1>2. TypeInv /\ mem[s] = disk /\ \A t \in Submitters \ {s} : pc[t] = "idle"
  BY <1>1, AtWork DEF SubmissionInv
<1>3. RecordedSubmitted(disk, cur[s]) /\ Before(disk, cur[s])
  BY <1>1, <1>2 DEF SkipSubmitted, SubmissionInv, Progress
<1>4. cur[s] \in Nat /\ cur[s] <= ChunkCount /\ cur'[s] = cur[s] + 1
      /\ cur' \in [Submitters -> Nat]
  BY <1>1, <1>2, SizesAssumption DEF TypeInv, Chunks
<1>5. Progress'
  <2>1. \A d \in 1..(cur[s] + 1) - 1 : d = cur[s] \/ d \in 1..cur[s] - 1
    BY <1>4
  <2>2. Before(disk, cur[s] + 1)
    BY <1>3, <2>1 DEF Before
  <2>3. cur[s] + 1 \in 1..ChunkCount + 1
    BY <1>4, SizesAssumption
  <2> QED BY <1>1, <1>2, <1>4, <2>2, <2>3 DEF Progress
<1>6. OneCall' /\ NotYet'
  <2>1. \A call \in calls : call.by = Orphan
    BY <1>1, NoCall, OthersAreOrphans
  <2> QED BY <1>1, <1>2, <2>1, Quiet
<1>7. TypeInv' /\ Holder' /\ AllAsked'
  BY <1>1, <1>2, <1>4, SameReceipt DEF SubmissionInv, TypeInv, Holder, AllAsked, Busy
<1> QED BY <1>1, <1>5, <1>6, <1>7, SameReceipt DEF SubmissionInv

\* The record reaches the disk before any job of the chunk exists.
LEMMA AnnounceStep ==
    ASSUME SubmissionInv, NEW s \in Submitters, Announce(s)
    PROVE  SubmissionInv' /\ Kept
<1> DEFINE c == cur[s]
           q == Announced(disk, c)
<1>1. pc[s] = "loop" /\ Busy(s) /\ c \in Chunks
  BY DEF Announce, AtChunk, Busy
<1>2. /\ disk \in Receipts /\ disk # NoReceipt /\ mem[s] = disk /\ ValidJobs(disk)
      /\ disk.status # "submitted"
  BY <1>1, AtWork
<1>3. /\ disk' = q /\ mem' = [mem EXCEPT ![s] = q] /\ cur' = cur /\ c > Len(disk.jobs)
      /\ pc' = [pc EXCEPT ![s] = "announced"] /\ lock' = lock /\ calls' = calls /\ jobs' = jobs
  BY <1>2 DEF Announce, Announced, Write, Goto
<1>4. Before(disk, c)
  BY <1>1 DEF SubmissionInv, Progress
<1>5. /\ q \in Receipts /\ q.status = disk.status /\ q.next = c
      /\ OpenAt(q, c) /\ ValidJobs(q) /\ NextChunk(q) = c
      /\ Keeps(disk, q) /\ KeepsDependencies(disk, q)
  <2> HIDE DEF c, q
  <2>1. q = Announced(disk, c)
    BY DEF q
  <2> QED BY <1>1, <1>2, <1>3, <1>4, <2>1, AnnouncedReceipt
<1>6. \A n \in 1..Len(q.jobs) : Submitted(q.jobs[n]) =>
          n \in 1..Len(disk.jobs) /\ Submitted(disk.jobs[n])
  <2> HIDE DEF q, c
  <2> SUFFICES ASSUME NEW n \in 1..Len(q.jobs), Submitted(q.jobs[n])
               PROVE  RecordedSubmitted(disk, n)
    BY DEF RecordedSubmitted
  <2>1. n # c /\ c = Len(q.jobs) /\ c \in Nat
    BY <1>5, SizesAssumption DEF OpenAt, Chunks
  <2> QED BY <1>4, <2>1 DEF Before
<1> HIDE DEF q
<1>7. /\ ReceiptResumable' /\ ReceiptTruthful' /\ OneJobPerChunk'
      /\ \A x : Asked(x) => Asked(x)'
      /\ \A k \in JobIds' : Asked(jobs[k])'
  BY <1>2, <1>3, <1>5, <1>6, ReceiptGrows
<1>8. TypeInv
  BY DEF SubmissionInv
<1>9. mem'[s] = q /\ q # NoReceipt
  BY <1>3, <1>5, <1>8, NamesAssumption DEF TypeInv
<1>10. /\ Holder' /\ pc'[s] = "announced" /\ pc' \in [Submitters -> Places]
       /\ \A t \in Submitters \ {s} : pc'[t] = "idle"
  BY <1>1, <1>2, <1>3, <1>5, <1>9, GoesOn DEF Places
<1>11. TypeInv'
  BY <1>3, <1>5, <1>8, <1>10 DEF TypeInv
<1>12. Progress'
  BY <1>3, <1>5, <1>10 DEF Progress
<1>13. AllAsked'
  BY <1>3, <1>7 DEF AllAsked, SubmissionInv
<1>14. \A call \in calls : call.by = Orphan
  BY <1>1, NoCall, OthersAreOrphans
<1>15. OneCall'
  BY <1>3, <1>10, <1>14 DEF OneCall
<1>16. NotYet'
  <2>1. \A k \in JobIds : jobs[k].name \in 1..Len(disk.jobs)
    BY DEF SubmissionInv, AllAsked, Asked
  <2>2. \A k \in JobIds : jobs[k].name # c
    BY <1>2, <1>3, <2>1, ReceiptRecords, <1>1, SizesAssumption DEF Chunks
  <2> QED BY <1>3, <1>10, <1>14, <2>2, NamesAssumption DEF NotYet, JobIds
<1> QED BY <1>3, <1>5, <1>7, <1>9, <1>10, <1>11, <1>12, <1>13, <1>15, <1>16 DEF SubmissionInv, Kept

\* Another try is made only when no job has the name.
LEMMA RetryStep ==
    ASSUME SubmissionInv, NEW s \in Submitters, Retry(s)
    PROVE  SubmissionInv' /\ Kept
<1> DEFINE c == cur[s]
           q == Retried(disk, c)
<1>1. pc[s] = "loop" /\ Busy(s) /\ Unfinished(s) /\ Matches(c) = {}
  BY DEF Retry, Unfinished, AtChunk, Busy
<1>2. /\ disk \in Receipts /\ disk # NoReceipt /\ mem[s] = disk /\ ValidJobs(disk)
      /\ disk.status # "submitted" /\ disk.next = NextChunk(disk)
      /\ Keeps(disk, disk) /\ KeepsDependencies(disk, disk)
  BY <1>1, AtWork
<1>3. /\ disk' = q /\ mem' = [mem EXCEPT ![s] = q] /\ cur' = cur
      /\ pc' = [pc EXCEPT ![s] = "announced"] /\ lock' = lock /\ calls' = calls /\ jobs' = jobs
  BY <1>2 DEF Retry, Retried, Write, Goto
<1>4. OpenAt(disk, c)
  BY <1>1, UnfinishedIsOpen
<1>5. q \in Receipts /\ q.jobs = disk.jobs /\ q.status = disk.status /\ q.next = c
  <2> HIDE DEF c, q
  <2>1. q = Retried(disk, c)
    BY DEF q
  <2> QED BY <1>2, <1>4, <2>1, RetriedReceipt
<1> HIDE DEF q
<1>6. ValidJobs(q) /\ NextChunk(q) = NextChunk(disk) /\ OpenAt(q, c)
  BY <1>2, <1>4, <1>5 DEF ValidJobs, NextChunk, RecordedSubmitted, DependencyJob, OpenAt, Before
<1>7. NextChunk(q) = c
  BY <1>6, NextIs DEF OpenAt, RecordedSubmitted
<1>8. Keeps(disk, q) /\ KeepsDependencies(disk, q)
  BY <1>2, <1>5 DEF Keeps, KeepsDependencies
<1>9. /\ ReceiptResumable' /\ ReceiptTruthful' /\ OneJobPerChunk'
      /\ \A x : Asked(x) => Asked(x)'
      /\ \A k \in JobIds' : Asked(jobs[k])'
  BY <1>2, <1>3, <1>5, <1>6, <1>7, <1>8, ReceiptGrows
<1>10. TypeInv
  BY DEF SubmissionInv
<1>11. mem'[s] = q /\ q # NoReceipt
  BY <1>3, <1>5, <1>10, NamesAssumption DEF TypeInv
<1>12. /\ Holder' /\ pc'[s] = "announced" /\ pc' \in [Submitters -> Places]
       /\ \A t \in Submitters \ {s} : pc'[t] = "idle"
  BY <1>1, <1>2, <1>3, <1>5, <1>11, GoesOn DEF Places
<1>13. TypeInv'
  BY <1>3, <1>5, <1>10, <1>12 DEF TypeInv
<1>14. Progress'
  BY <1>3, <1>6, <1>12 DEF Progress
<1>15. AllAsked'
  BY <1>3, <1>9 DEF AllAsked, SubmissionInv
<1>16. \A call \in calls : call.by = Orphan
  BY <1>1, NoCall, OthersAreOrphans
<1>17. OneCall' /\ NotYet'
  <2>1. \A k \in JobIds : jobs[k].name # c
    BY <1>1 DEF Matches
  <2> QED BY <1>3, <1>12, <1>16, <2>1, NamesAssumption DEF OneCall, NotYet, JobIds
<1> QED BY <1>3, <1>8, <1>9, <1>11, <1>12, <1>13, <1>14, <1>15, <1>17 DEF SubmissionInv, Kept

\* However the job of the chunk became known.
LEMMA ConfirmedStep ==
    ASSUME SubmissionInv, NEW s \in Submitters, Busy(s), OpenAt(disk, cur[s]),
           NEW k \in JobIds, jobs[k].name = cur[s],
           Write(s, Confirmed(mem[s], cur[s], k)), Advance(s),
           pc' = [pc EXCEPT ![s] = "loop"],
           \A call \in calls : call.by # s,
           lock' = lock, calls' = calls, jobs' = jobs
    PROVE  SubmissionInv' /\ Kept
<1> DEFINE c == cur[s]
           q == Confirmed(disk, c, k)
<1>1. /\ disk \in Receipts /\ disk # NoReceipt /\ mem[s] = disk /\ ValidJobs(disk)
      /\ disk.status # "submitted"
  BY AtWork
<1>2. TypeInv /\ k \in Nat \ {0}
  BY JobTypes DEF SubmissionInv
<1>3. disk' = q /\ mem' = [mem EXCEPT ![s] = q] /\ cur' = [cur EXCEPT ![s] = @ + 1]
  BY <1>1 DEF Write, Advance
<1>4. /\ q \in Receipts /\ q.status = disk.status /\ q.next = NextChunk(q)
      /\ ValidJobs(q) /\ Before(q, c + 1)
      /\ Keeps(disk, q) /\ KeepsDependencies(disk, q)
      /\ Len(q.jobs) = c /\ q.jobs[c].job = k
      /\ \A n \in 1..c - 1 : q.jobs[n] = disk.jobs[n]
  <2> HIDE DEF c, q
  <2>1. q = Confirmed(disk, c, k)
    BY DEF q
  <2>2. OpenAt(disk, c)
    BY DEF c
  <2> QED BY <1>1, <1>2, <2>1, <2>2, ConfirmedReceipt
<1> HIDE DEF q
<1>5. c \in Nat /\ 1 <= c /\ c <= ChunkCount /\ Len(disk.jobs) = c
  BY SizesAssumption DEF OpenAt, Chunks
<1>6. \A n \in 1..Len(q.jobs) : Submitted(q.jobs[n]) =>
          \/ n \in 1..Len(disk.jobs) /\ Submitted(disk.jobs[n])
          \/ q.jobs[n].job \in JobIds /\ jobs[q.jobs[n].job].name = n
  <2> TAKE n \in 1..Len(q.jobs)
  <2>1. n = c \/ n \in 1..c - 1
    BY <1>4, <1>5
  <2>2. n \in 1..c - 1 => n \in 1..Len(disk.jobs) /\ q.jobs[n] = disk.jobs[n]
    BY <1>4, <1>5
  <2> QED BY <1>4, <2>1, <2>2
<1>7. /\ ReceiptResumable' /\ ReceiptTruthful' /\ OneJobPerChunk'
      /\ \A x : Asked(x) => Asked(x)'
      /\ \A j \in JobIds' : Asked(jobs[j])'
  BY <1>1, <1>3, <1>4, <1>6, ReceiptGrows
<1>8. mem'[s] = q /\ q # NoReceipt
  BY <1>2, <1>3, <1>4, NamesAssumption DEF TypeInv
<1>9. /\ Holder' /\ pc'[s] = "loop" /\ pc' \in [Submitters -> Places]
      /\ \A t \in Submitters \ {s} : pc'[t] = "idle"
  BY <1>1, <1>3, <1>4, <1>8, GoesOn DEF Places
<1>10. cur'[s] = c + 1 /\ cur' \in [Submitters -> Nat]
  BY <1>2, <1>3 DEF TypeInv
<1>11. TypeInv'
  BY <1>2, <1>3, <1>4, <1>9, <1>10 DEF TypeInv
<1>12. Progress'
  <2>1. c + 1 \in 1..ChunkCount + 1
    BY <1>5, SizesAssumption
  <2> QED BY <1>3, <1>4, <1>9, <1>10, <2>1 DEF Progress
<1>13. AllAsked'
  BY <1>7 DEF AllAsked, SubmissionInv
<1>14. OneCall' /\ NotYet'
  <2>1. \A call \in calls : call.by = Orphan
    BY OthersAreOrphans
  <2> QED BY <1>9, <2>1, Quiet
<1> QED BY <1>3, <1>4, <1>7, <1>8, <1>9, <1>11, <1>12, <1>13, <1>14 DEF SubmissionInv, Kept

\* The cluster has the job of a record that was left open.
LEMMA RecoverStep ==
    ASSUME SubmissionInv, NEW s \in Submitters, Recover(s)
    PROVE  SubmissionInv' /\ Kept
<1>1. Unfinished(s) /\ Busy(s) /\ pc[s] = "loop"
  BY DEF Recover, Unfinished, AtChunk, Busy
<1> DEFINE k == CHOOSE j \in Matches(cur[s]) : TRUE
<1>2. Matches(cur[s]) # {}
  BY FS_EmptySet DEF Recover
<1>3. k \in JobIds /\ jobs[k].name = cur[s]
  BY <1>2 DEF Matches
<1>4. pc' = [pc EXCEPT ![s] = "loop"]
  BY <1>1 DEF Recover, SubmissionInv, TypeInv
<1>5. Write(s, Confirmed(mem[s], cur[s], k)) /\ Advance(s)
      /\ lock' = lock /\ calls' = calls /\ jobs' = jobs
  BY DEF Recover
<1> HIDE DEF k
<1> QED BY <1>1, <1>3, <1>4, <1>5, UnfinishedIsOpen, NoCall, ConfirmedStep

\* The call has its answer, so there is a job of the submitter.
LEMMA ConfirmStep ==
    ASSUME SubmissionInv, NEW s \in Submitters, Confirm(s)
    PROVE  SubmissionInv' /\ Kept
<1>1. pc[s] = "calling" /\ Busy(s) /\ \A call \in calls : call.by # s
  BY DEF Confirm, Answered, Busy
<1> DEFINE S == {k \in Matches(cur[s]) : jobs[k].by = s}
<1>2. S # {} /\ S \subseteq JobIds
  BY <1>1 DEF SubmissionInv, OneCall, Mine, Matches
<1>3. Answer(s) \in S
  BY <1>2, LatestJob DEF Answer, SubmissionInv
<1>4. Answer(s) \in JobIds /\ jobs[Answer(s)].name = cur[s]
  BY <1>3 DEF Matches
<1>5. OpenAt(disk, cur[s])
  BY <1>1 DEF SubmissionInv, Progress
<1>6. Write(s, Confirmed(mem[s], cur[s], Answer(s))) /\ Advance(s) /\ pc' = [pc EXCEPT ![s] = "loop"]
      /\ lock' = lock /\ calls' = calls /\ jobs' = jobs
  BY DEF Confirm, Goto
<1> QED BY <1>1, <1>4, <1>5, <1>6, ConfirmedStep

\* The call asks for what the record says.
LEMMA LaunchStep ==
    ASSUME SubmissionInv, NEW s \in Submitters, Launch(s)
    PROVE  SubmissionInv' /\ Kept
<1> DEFINE new == [by |-> s, name |-> cur[s], dep |-> disk.jobs[cur[s]].dep]
<1>1. pc[s] = "announced" /\ Busy(s)
  BY DEF Launch, Busy
<1>2. /\ disk \in Receipts /\ disk # NoReceipt /\ mem[s] = disk
      /\ \A t \in Submitters \ {s} : pc[t] = "idle" /\ pc[t] # "calling"
  BY <1>1, AtWork
<1>3. /\ calls' = calls \cup {new} /\ pc' = [pc EXCEPT ![s] = "calling"] /\ lock' = lock
      /\ disk' = disk /\ mem' = mem /\ cur' = cur /\ jobs' = jobs /\ JobIds' = JobIds
  BY <1>2 DEF Launch, Goto, JobIds
<1>4. TypeInv
  BY DEF SubmissionInv
<1>5. OpenAt(disk, cur[s])
  BY <1>1 DEF SubmissionInv, Progress
<1>6. cur[s] \in Nat /\ cur[s] \in 1..Len(disk.jobs)
  BY <1>2, <1>5, ReceiptRecords, SizesAssumption DEF OpenAt, Chunks
<1>7. new \in Calls /\ new.by = s /\ new.name = cur[s] /\ Asked(new)
  BY <1>2, <1>6, ReceiptRecords DEF Calls, By, Asked
<1> HIDE DEF new
<1>8. /\ Holder' /\ pc'[s] = "calling" /\ pc' \in [Submitters -> Places]
      /\ \A t \in Submitters \ {s} : pc'[t] = "idle"
  BY <1>1, <1>2, <1>3, AtWork, GoesOn DEF Places
<1>9. TypeInv'
  BY <1>3, <1>4, <1>7, <1>8 DEF TypeInv
<1>10. Progress'
  BY <1>3, <1>5, <1>8 DEF Progress
<1>11. AllAsked'
  BY <1>3, <1>7, SameReceipt DEF AllAsked, SubmissionInv
<1>12. \A call \in calls : call.by = Orphan
  BY <1>1, NoCall, OthersAreOrphans
<1>13. OneCall'
  <2>1. \A call \in calls' : call.by # Orphan => call = new
    BY <1>3, <1>12
  <2>2. new \in calls'
    BY <1>3
  <2> QED BY <1>3, <1>7, <1>8, <2>1, <2>2 DEF OneCall
<1>14. NotYet'
  <2>1. \A k \in JobIds : jobs[k].name = cur[s] => jobs[k].late
    BY <1>1 DEF SubmissionInv, NotYet
  <2>2. \A t \in Submitters : pc'[t] = "announced" \/ (\E call \in calls' : call.by = t) => t = s
    BY <1>3, <1>7, <1>8, <1>12, NamesAssumption
  <2> QED BY <1>3, <2>1, <2>2 DEF NotYet
<1> QED BY <1>3, <1>8, <1>9, <1>10, <1>11, <1>13, <1>14, SameReceipt DEF SubmissionInv

\* The calls on their way were there before, and nobody waits for one.
LeftAlone ==
    \A call \in calls' :
        /\ call \in Calls /\ call.by = Orphan
        /\ \E x \in calls : x.name = call.name /\ x.dep = call.dep

\* A submitter that is not calling has no call to leave alone.
LEMMA LeavesNothing ==
    ASSUME SubmissionInv, NEW s \in Submitters, Busy(s), pc[s] # "calling", calls' = calls
    PROVE  LeftAlone
<1>1. \A call \in calls : call.by = Orphan
  BY NoCall, OthersAreOrphans
<1>2. calls \subseteq Calls
  BY DEF SubmissionInv, TypeInv
<1> QED BY <1>1, <1>2 DEF LeftAlone

\* The call of a submitter that lets it go is gone or alone.
LEMMA LetsGo ==
    ASSUME SubmissionInv, NEW s \in Submitters, Busy(s), LetGo(s)
    PROVE  LeftAlone
<1> DEFINE own == {call \in calls : call.by = s}
           left == {[call EXCEPT !.by = Orphan] : call \in own}
<1>1. calls \subseteq Calls
  BY DEF SubmissionInv, TypeInv
<1>2. calls' \subseteq (calls \ own) \cup left
  BY DEF LetGo
<1>3. \A call \in calls \ own : call \in Calls /\ call.by = Orphan
  BY <1>1, OthersAreOrphans
<1>4. \A x \in own : LET y == [x EXCEPT !.by = Orphan]
                     IN  y \in Calls /\ y.by = Orphan /\ y.name = x.name /\ y.dep = x.dep
  BY <1>1 DEF Calls, By
<1>5. ASSUME NEW call \in left
      PROVE  /\ call \in Calls /\ call.by = Orphan
             /\ \E x \in calls : x.name = call.name /\ x.dep = call.dep
  <2>1. PICK x \in own : call = [x EXCEPT !.by = Orphan]
    BY <1>5
  <2> QED BY <1>4, <2>1
<1> HIDE DEF own, left
<1> QED BY <1>2, <1>3, <1>5 DEF LeftAlone

\* A submitter that leaves waits for no call any more.
LEMMA LeavesQuietly ==
    ASSUME SubmissionInv, NEW s \in Submitters, Busy(s), Leave(s), Forget(s),
           LeftAlone, jobs' = jobs,
           disk' \in Receipts, \A x : Asked(x) => Asked(x)'
    PROVE  TypeInv' /\ Holder' /\ Progress' /\ AllAsked' /\ OneCall' /\ NotYet'
<1>1. /\ \A t \in Submitters : pc'[t] = "idle"
      /\ Holder' /\ Progress' /\ lock' \subseteq Submitters
      /\ pc' \in [Submitters -> Places] /\ cur' \in [Submitters -> Nat]
      /\ mem' \in [Submitters -> Receipts \cup {NoReceipt}]
  BY Leaves
<1>2. TypeInv'
  BY <1>1 DEF SubmissionInv, TypeInv, LeftAlone
<1>3. AllAsked'
  <2>1. \A call \in calls' : Asked(call)
    BY DEF SubmissionInv, AllAsked, Asked, LeftAlone
  <2> QED BY <2>1 DEF SubmissionInv, AllAsked, JobIds
<1>4. \A call \in calls' : call.by = Orphan
  BY DEF LeftAlone
<1>5. OneCall' /\ NotYet'
  BY <1>1, <1>4, Quiet
<1> QED BY <1>1, <1>2, <1>3, <1>5

\* When the cluster cannot tell, nothing is written.
LEMMA RecoveryRaisesStep ==
    ASSUME SubmissionInv, NEW s \in Submitters, RecoveryRaises(s)
    PROVE  SubmissionInv' /\ Kept
<1>1. pc[s] = "loop" /\ Busy(s) /\ disk \in Receipts
  BY AtWork DEF RecoveryRaises, Unfinished, AtChunk, Busy
<1>2. Leave(s) /\ Forget(s) /\ disk' = disk /\ jobs' = jobs /\ calls' = calls
  BY DEF RecoveryRaises
<1>3. LeftAlone
  BY <1>1, <1>2, LeavesNothing
<1>4. TypeInv' /\ Holder' /\ Progress' /\ AllAsked' /\ OneCall' /\ NotYet'
  BY <1>1, <1>2, <1>3, SameReceipt, LeavesQuietly
<1> QED BY <1>2, <1>4, SameReceipt DEF SubmissionInv

\* A failed call leaves the chunk open, and the receipt says which it is.
LEMMA FailStep ==
    ASSUME SubmissionInv, NEW s \in Submitters, Fail(s)
    PROVE  SubmissionInv' /\ Kept
<1> DEFINE q == [disk EXCEPT !.status = "failed", !.next = cur[s]]
<1>1. pc[s] = "calling" /\ Busy(s)
  BY DEF Fail, CallFails, Busy
<1>2. /\ disk \in Receipts /\ disk # NoReceipt /\ mem[s] = disk /\ ValidJobs(disk)
      /\ Keeps(disk, disk) /\ KeepsDependencies(disk, disk)
  BY <1>1, AtWork
<1>3. disk' = q /\ Leave(s) /\ Forget(s) /\ jobs' = jobs /\ LeftAlone
  BY <1>1, <1>2, LetsGo DEF Fail, CallFails
<1>4. OpenAt(disk, cur[s]) /\ cur[s] \in Nat
  BY <1>1 DEF SubmissionInv, Progress, TypeInv
<1>5. NextChunk(disk) = cur[s]
  BY <1>4, NextIs DEF OpenAt, RecordedSubmitted
<1>6. q \in Receipts /\ q.jobs = disk.jobs /\ q.status = "failed" /\ q.next = cur[s]
  BY <1>2, <1>4 DEF Receipts
<1> HIDE DEF q
<1>7. ValidJobs(q) /\ NextChunk(q) = NextChunk(disk)
  BY <1>2, <1>6 DEF ValidJobs, NextChunk, RecordedSubmitted, DependencyJob
<1>8. Keeps(disk, q) /\ KeepsDependencies(disk, q)
  BY <1>2, <1>6 DEF Keeps, KeepsDependencies
<1>9. /\ ReceiptResumable' /\ ReceiptTruthful' /\ OneJobPerChunk'
      /\ \A x : Asked(x) => Asked(x)'
      /\ \A k \in JobIds' : Asked(jobs[k])'
  BY <1>2, <1>3, <1>5, <1>6, <1>7, <1>8, ReceiptGrows
<1>10. TypeInv' /\ Holder' /\ Progress' /\ AllAsked' /\ OneCall' /\ NotYet'
  BY <1>1, <1>3, <1>6, <1>9, LeavesQuietly
<1> QED BY <1>3, <1>6, <1>8, <1>9, <1>10, NamesAssumption DEF SubmissionInv, Kept

\* The receipt is completed when every chunk is submitted.
LEMMA CompleteStep ==
    ASSUME SubmissionInv, NEW s \in Submitters, Complete(s)
    PROVE  SubmissionInv' /\ Kept
<1> DEFINE q == [disk EXCEPT !.status = "submitted", !.next = 0]
<1>1. pc[s] = "loop" /\ Busy(s)
  BY DEF Complete, Busy
<1>2. /\ disk \in Receipts /\ disk # NoReceipt /\ mem[s] = disk /\ ValidJobs(disk)
      /\ Keeps(disk, disk) /\ KeepsDependencies(disk, disk)
  BY <1>1, AtWork
<1>3. /\ disk' = q /\ Leave(s) /\ Forget(s) /\ jobs' = jobs /\ calls' = calls
  BY <1>2 DEF Complete
<1>4. Before(disk, ChunkCount + 1)
  <2>1. cur[s] \in 1..ChunkCount + 1 /\ Before(disk, cur[s]) /\ cur[s] > ChunkCount
    BY <1>1 DEF Complete, SubmissionInv, Progress
  <2>2. cur[s] = ChunkCount + 1
    BY <2>1, SizesAssumption
  <2> QED BY <2>1, <2>2
<1>5. NextChunk(disk) = 0
  BY <1>4, NextNone
<1>6. q \in Receipts /\ q.jobs = disk.jobs /\ q.status = "submitted" /\ q.next = 0
  BY <1>2 DEF Receipts
<1> HIDE DEF q
<1>7. ValidJobs(q) /\ NextChunk(q) = NextChunk(disk)
  BY <1>2, <1>6 DEF ValidJobs, NextChunk, RecordedSubmitted, DependencyJob
<1>8. Keeps(disk, q) /\ KeepsDependencies(disk, q)
  BY <1>2, <1>6 DEF Keeps, KeepsDependencies
<1>9. \A n \in 1..Len(q.jobs) : Submitted(q.jobs[n])
  <2>1. Len(disk.jobs) \in Nat /\ Len(disk.jobs) <= ChunkCount
    BY <1>2, ReceiptRecords DEF ValidJobs
  <2>2. \A n \in 1..Len(disk.jobs) : n \in 1..(ChunkCount + 1) - 1
    BY <2>1, SizesAssumption
  <2> QED BY <1>4, <1>6, <2>2 DEF Before, RecordedSubmitted
<1>10. /\ ReceiptResumable' /\ ReceiptTruthful' /\ OneJobPerChunk'
       /\ \A x : Asked(x) => Asked(x)'
       /\ \A k \in JobIds' : Asked(jobs[k])'
  BY <1>2, <1>3, <1>5, <1>6, <1>7, <1>8, <1>9, ReceiptGrows
<1>11. LeftAlone
  BY <1>1, <1>3, LeavesNothing
<1>12. TypeInv' /\ Holder' /\ Progress' /\ AllAsked' /\ OneCall' /\ NotYet'
  BY <1>1, <1>3, <1>6, <1>10, <1>11, LeavesQuietly
<1> QED BY <1>3, <1>6, <1>8, <1>10, <1>12, NamesAssumption DEF SubmissionInv, Kept

\* A crash loses the memory of the submitter, and may leave a call alone.
LEMMA CrashStep ==
    ASSUME SubmissionInv, NEW s \in Submitters, Crash(s)
    PROVE  SubmissionInv' /\ Kept
<1>1. Busy(s) /\ Leave(s) /\ Forget(s) /\ disk' = disk /\ jobs' = jobs /\ JobIds' = JobIds
  BY DEF Crash, Busy, JobIds
<1>2. /\ \A t \in Submitters : pc'[t] = "idle"
      /\ Holder' /\ Progress' /\ lock' \subseteq Submitters
      /\ pc' \in [Submitters -> Places] /\ cur' \in [Submitters -> Nat]
      /\ mem' \in [Submitters -> Receipts \cup {NoReceipt}]
  BY <1>1, Leaves
<1>3. LeftAlone
  BY <1>1, LetsGo DEF Crash
<1>4. TypeInv'
  BY <1>1, <1>2, <1>3, SameReceipt DEF TypeInv, LeftAlone
<1>5. AllAsked'
  BY <1>1, <1>3, SameReceipt DEF SubmissionInv, AllAsked, Asked, LeftAlone
<1>6. OneCall' /\ NotYet'
  BY <1>2, <1>3, Quiet DEF LeftAlone
<1> QED BY <1>1, <1>2, <1>4, <1>5, <1>6, SameReceipt DEF SubmissionInv

\* The cluster takes a job that the receipt announced, once per chunk.
LEMMA AcceptStep ==
    ASSUME SubmissionInv, NEW call \in calls, Accept(call)
    PROVE  SubmissionInv' /\ Kept
<1> DEFINE new == [name |-> call.name, dep |-> call.dep,
                   late |-> call.by = Orphan, by |-> call.by]
           last == Len(jobs) + 1
<1>1. /\ calls' = calls \ {call} /\ jobs' = Append(jobs, new)
      /\ lock' = lock /\ disk' = disk /\ mem' = mem /\ pc' = pc /\ cur' = cur
  BY DEF Accept
<1>2. TypeInv /\ call \in Calls
  BY DEF SubmissionInv, TypeInv
<1>3. /\ new \in Accepted /\ new.name = call.name /\ new.dep = call.dep /\ new.by = call.by
      /\ new.late <=> call.by = Orphan
  BY <1>2 DEF Accepted, Calls
<1> HIDE DEF new
<1>4. /\ jobs' \in Seq(Accepted) /\ JobIds' = JobIds \cup {last} /\ last \notin JobIds
      /\ jobs'[last] = new /\ \A k \in JobIds : jobs'[k] = jobs[k]
  BY <1>1, <1>2, <1>3 DEF TypeInv, JobIds
<1>5. TypeInv' /\ Holder' /\ Progress'
  <2>1. Holder' /\ Progress'
    BY <1>1 DEF SubmissionInv, Holder, Progress, Busy
  <2> QED BY <1>1, <1>2, <1>4, <2>1 DEF TypeInv
<1>6. AllAsked'
  <2>1. Asked(call)
    BY DEF SubmissionInv, AllAsked
  <2>2. Asked(new)
    BY <1>3, <2>1 DEF Asked
  <2>3. \A x : Asked(x) => Asked(x)'
    BY <1>1 DEF Asked
  <2> QED BY <1>1, <1>4, <2>2, <2>3 DEF SubmissionInv, AllAsked, Asked
<1>7. \A t \in Submitters :
          pc[t] = "announced" \/ (\E x \in calls' : x.by = t) => call.by # t
  BY <1>1, NamesAssumption DEF SubmissionInv, OneCall
<1>8. call.by # Orphan => call.by \in Submitters /\ call.name = cur[call.by]
                          /\ Busy(call.by)
  BY <1>2 DEF SubmissionInv, OneCall, Calls, By, Busy
<1>9. OneCall'
  <2>1. ASSUME NEW t \in Submitters, pc[t] = "calling"
        PROVE  (\E x \in calls' : x.by = t) \/ (\E k \in JobIds' : Mine(t, k)')
    <3>1. CASE call.by = t
      BY <1>1, <1>3, <1>4, <1>8, <3>1, NamesAssumption DEF Mine
    <3>2. CASE call.by # t /\ \E x \in calls : x.by = t
      BY <1>1, <3>2
    <3>3. CASE \E k \in JobIds : Mine(t, k)
      BY <1>1, <1>4, <3>3 DEF Mine
    <3> QED BY <2>1, <3>1, <3>2, <3>3 DEF SubmissionInv, OneCall
  <2> QED BY <1>1, <2>1 DEF SubmissionInv, OneCall
<1>10. NotYet'
  <2> SUFFICES ASSUME NEW t \in Submitters,
                      pc[t] = "announced" \/ (\E x \in calls' : x.by = t),
                      NEW k \in JobIds', jobs'[k].name = cur[t]
               PROVE  jobs'[k].late
    BY <1>1 DEF NotYet
  <2>1. CASE k \in JobIds
    BY <1>1, <1>4, <2>1 DEF SubmissionInv, NotYet
  <2>2. CASE k = last
    <3>1. Busy(t)
      BY <1>1, NamesAssumption DEF SubmissionInv, OneCall, Busy
    <3>2. call.by = Orphan
      BY <1>7, <1>8, <3>1 DEF SubmissionInv, Holder
    <3> QED BY <1>3, <1>4, <2>2, <3>2
  <2> QED BY <1>4, <2>1, <2>2
<1>11. OneJobPerChunk'
  <2>1. ASSUME NEW k \in JobIds, jobs[k].name = new.name
        PROVE  jobs[k].late \/ new.late
    BY <1>3, <1>8, <2>1 DEF SubmissionInv, NotYet
  <2>2. ASSUME NEW i \in JobIds, NEW j \in JobIds, i # j, jobs[i].name = jobs[j].name
        PROVE  jobs[i].late \/ jobs[j].late
    BY <2>2 DEF SubmissionInv, OneJobPerChunk
  <2>3. ASSUME NEW i \in JobIds', NEW j \in JobIds', i # j, jobs'[i].name = jobs'[j].name
        PROVE  jobs'[i].late \/ jobs'[j].late
    <3>1. CASE i \in JobIds /\ j \in JobIds
      BY <1>4, <2>2, <2>3, <3>1
    <3>2. CASE i = last /\ j \in JobIds
      BY <1>4, <2>1, <2>3, <3>2
    <3>3. CASE j = last /\ i \in JobIds
      BY <1>4, <2>1, <2>3, <3>3
    <3> QED BY <1>4, <2>3, <3>1, <3>2, <3>3
  <2> QED BY <2>3 DEF OneJobPerChunk
<1>12. ReceiptResumable' /\ ReceiptTruthful'
  BY <1>1, <1>4 DEF SubmissionInv, ReceiptResumable, ReceiptTruthful
<1>13. Kept
  BY <1>1, <1>2, ReceiptRecords DEF TypeInv, Kept, Keeps
<1> QED BY <1>5, <1>6, <1>9, <1>10, <1>11, <1>12, <1>13 DEF SubmissionInv

\* The system starts with the invariant.
LEMMA SubmissionStarts ==
    InitSubmission => SubmissionInv
<1> SUFFICES ASSUME InitSubmission PROVE SubmissionInv
  OBVIOUS
<1>1. /\ lock = {} /\ disk = NoReceipt /\ calls = {} /\ jobs = <<>> /\ JobIds = {}
      /\ \A s \in Submitters : pc[s] = "idle"
  BY DEF InitSubmission, JobIds
<1>2. TypeInv
  BY <1>1 DEF InitSubmission, TypeInv, Places
<1>3. Holder /\ Progress /\ OneCall /\ NotYet
  BY <1>1 DEF Holder, Progress, OneCall, NotYet, Busy
<1>4. AllAsked /\ ReceiptResumable /\ ReceiptTruthful /\ OneJobPerChunk
  BY <1>1 DEF AllAsked, ReceiptResumable, ReceiptTruthful, OneJobPerChunk
<1> QED BY <1>2, <1>3, <1>4 DEF SubmissionInv

\* Every step keeps it, and keeps what the receipt says.
LEMMA SubmissionGoesOn ==
    ASSUME SubmissionInv, [Next]_vars
    PROVE  SubmissionInv' /\ Kept
<1>1. CASE UNCHANGED vars
  <2>1. SubmissionInv'
    BY <1>1 DEF vars, SubmissionInv, TypeInv, Holder, Busy, Progress, AllAsked, Asked, OneCall,
                Mine, NotYet, JobIds, ReceiptResumable, ReceiptTruthful, OneJobPerChunk
  <2> QED BY <1>1, <2>1, SameReceipt DEF vars
<1>2. CASE \E call \in calls : Accept(call)
  BY <1>2, AcceptStep
<1>3. ASSUME NEW s \in Submitters, Open(s) \/ Step(s) \/ Crash(s)
      PROVE  SubmissionInv' /\ Kept
  <2>1. CASE Open(s)
    BY <2>1, OpenStep
  <2>2. CASE Crash(s)
    BY <2>2, CrashStep
  <2>3. CASE Resume(s)
    BY <2>3, ResumeStep
  <2>4. CASE SkipSubmitted(s)
    BY <2>4, SkipStep
  <2>5. CASE Announce(s)
    BY <2>5, AnnounceStep
  <2>6. CASE Launch(s)
    BY <2>6, LaunchStep
  <2>7. CASE Recover(s)
    BY <2>7, RecoverStep
  <2>8. CASE Retry(s)
    BY <2>8, RetryStep
  <2>9. CASE RecoveryRaises(s)
    BY <2>9, RecoveryRaisesStep
  <2>10. CASE Confirm(s)
    BY <2>10, ConfirmStep
  <2>11. CASE Fail(s)
    BY <2>11, FailStep
  <2>12. CASE Complete(s)
    BY <2>12, CompleteStep
  <2> QED BY <1>3, <2>1, <2>2, <2>3, <2>4, <2>5, <2>6, <2>7, <2>8, <2>9, <2>10, <2>11, <2>12
          DEF Step
<1> QED BY <1>1, <1>2, <1>3 DEF Next

-----------------------------------------------------------------------------
(* The theorems.                                                             *)

\* The holder of the lock works on the receipt of the disk, and every call and
\* every job is one the receipt announced, whatever crashes and fails.
THEOREM Submission_Invariant == Spec => []SubmissionInv
<1>1. SubmissionInv /\ [Next]_vars => SubmissionInv'
  BY SubmissionGoesOn
<1> QED BY <1>1, SubmissionStarts, PTL DEF Spec

\* No chunk is handed to the cluster twice, but by a call that outlived its
\* submitter.
THEOREM Submitted_Once == Spec => []OneJobPerChunk
<1>1. SubmissionInv => OneJobPerChunk
  BY DEF SubmissionInv
<1> QED BY <1>1, Submission_Invariant, PTL

\* Every job id in the receipt is of the job of that chunk.
THEOREM Receipt_Truthful == Spec => []ReceiptTruthful
<1>1. SubmissionInv => ReceiptTruthful
  BY DEF SubmissionInv
<1> QED BY <1>1, Submission_Invariant, PTL

\* The next submitter can always go on from the receipt.
THEOREM Receipt_Resumable == Spec => []ReceiptResumable
<1>1. SubmissionInv => ReceiptResumable
  BY DEF SubmissionInv
<1> QED BY <1>1, Submission_Invariant, PTL

\* The receipt never takes back a job it named.
THEOREM Never_Forgets == Spec => NeverForgets
<1>1. SubmissionInv /\ [Next]_vars =>
          [disk # NoReceipt =>
            /\ disk' # NoReceipt
            /\ \A n \in 1..Len(disk.jobs) :
                  Submitted(disk.jobs[n]) =>
                      n <= Len(disk'.jobs) /\ disk'.jobs[n] = disk.jobs[n]]_vars
  BY SubmissionGoesOn DEF Kept, Keeps
<1> QED BY <1>1, Submission_Invariant, PTL DEF Spec, NeverForgets

-----------------------------------------------------------------------------
(* The production of the files: dates of a chunk, and jobs of a lane.        *)

DateAt(c, t) == (c - 1) * DatesPerChunk + t

\* The dates of a chunk are its places, and every place is a date of one chunk.
LEMMA PlacesOfChunk ==
    ASSUME NEW c \in Chunks, NEW e \in Chunks, NEW t \in 1..DatesPerChunk
    PROVE  /\ DateAt(c, t) \in Dates
           /\ DateAt(c, t) \in DatesOf(e) <=> c = e
           /\ \A u \in 1..DatesPerChunk : DateAt(c, t) = DateAt(c, u) => t = u
<1> DEFINE m == DatesPerChunk
<1>1. m \in Nat \ {0} /\ ChunkCount \in Nat \ {0} /\ ChunkCount * m \in Nat
      /\ c \in 1..ChunkCount /\ e \in 1..ChunkCount
  BY ProductionAssumption, SizesAssumption, SMT DEF Chunks
<1>2. (c - 1) * m \in Nat /\ c * m = (c - 1) * m + m /\ c * m <= ChunkCount * m
  BY <1>1, SMT
<1>3. DateAt(c, t) \in Dates
  <2>1. PICK a, b : a = (c - 1) * m /\ b = ChunkCount * m
    OBVIOUS
  <2>2. a \in Nat /\ b \in Nat /\ a + m <= b /\ t \in 1..m /\ m \in Nat
    BY <1>1, <1>2, <2>1
  <2>3. DateAt(c, t) = a + t /\ Dates = 1..b
    BY <2>1 DEF DateAt, Dates
  <2> HIDE DEF m
  <2> QED BY <2>2, <2>3
<1>4. (DateAt(c, t) - 1) \div m = c - 1
  <2>1. \A a \in Nat, r \in 0..m - 1 : (a * m + r) \div m = a
    BY <1>1, SMT
  <2>2. c - 1 \in Nat /\ t - 1 \in 0..m - 1
    BY <1>1
  <2>3. ((c - 1) * m + (t - 1)) \div m = c - 1
    BY <2>1, <2>2
  <2>4. DateAt(c, t) - 1 = (c - 1) * m + (t - 1)
    <3>1. DateAt(c, t) = (c - 1) * m + t
      BY DEF DateAt
    <3> HIDE DEF m
    <3> QED BY <1>1, <1>2, <3>1
  <2> QED BY <2>3, <2>4
<1>5. DateAt(c, t) \in DatesOf(e) <=> c = e
  <2>1. DateAt(c, t) \in DatesOf(e) <=> c - 1 = e - 1
    BY <1>3, <1>4 DEF DatesOf
  <2> QED BY <1>1, <2>1
<1>6. ASSUME NEW u \in 1..m, DateAt(c, t) = DateAt(c, u)
      PROVE  t = u
  <2>1. (c - 1) * m + t = (c - 1) * m + u
    BY <1>6 DEF DateAt
  <2> HIDE DEF m
  <2> QED BY <1>1, <1>2, <2>1
<1> QED BY <1>3, <1>5, <1>6

\* Every date of a chunk is a place in it.
LEMMA DatesArePlaces ==
    ASSUME NEW c \in Chunks, NEW d \in DatesOf(c)
    PROVE  \E t \in 1..DatesPerChunk : d = DateAt(c, t)
<1> DEFINE m == DatesPerChunk
<1>1. m \in Nat \ {0} /\ ChunkCount \in Nat \ {0} /\ ChunkCount * m \in Nat /\ c \in Nat \ {0}
  BY ProductionAssumption, SizesAssumption, SMT DEF Chunks
<1>2. d \in 1..ChunkCount * m /\ (d - 1) \div m = c - 1
  BY DEF DatesOf, Dates
<1>3. d - 1 \in Nat /\ d \in Nat
  <2> HIDE DEF m
  <2> QED BY <1>1, <1>2
<1>4. (d - 1) % m \in 0..m - 1 /\ d - 1 = m * ((d - 1) \div m) + ((d - 1) % m)
  BY <1>1, <1>3, SMT
<1>5. PICK r \in 0..m - 1 : d - 1 = m * (c - 1) + r
  BY <1>2, <1>4
<1>6. m * (c - 1) = (c - 1) * m /\ m * (c - 1) \in Nat
  BY <1>1, SMT
<1>7. r + 1 \in 1..m /\ d = (c - 1) * m + (r + 1)
  <2> HIDE DEF m
  <2> QED BY <1>1, <1>3, <1>5, <1>6
<1> QED BY <1>7 DEF DateAt

\* A job is of a chunk, and waits for a job of the chunk before it in its lane.
LEMMA JobOfLane ==
    ASSUME SubmissionInv, NEW k \in JobIds
    PROVE  /\ jobs[k].name \in Chunks
           /\ jobs[k].name <= LaneCount => jobs[k].dep = 0
           /\ jobs[k].name > LaneCount =>
                 /\ jobs[k].dep \in JobIds /\ jobs[k].dep # 0
                 /\ jobs[jobs[k].dep].name = jobs[k].name - LaneCount
<1> DEFINE c == jobs[k].name
           r == disk.jobs[c]
<1>1. Asked(jobs[k]) /\ disk # NoReceipt /\ TypeInv
  BY DEF SubmissionInv, AllAsked, Asked
<1>2. disk \in Receipts /\ ValidJobs(disk)
  BY <1>1 DEF SubmissionInv, TypeInv, ReceiptResumable
<1>3. c \in 1..Len(disk.jobs) /\ jobs[k].dep = r.dep /\ Len(disk.jobs) <= ChunkCount
      /\ Len(disk.jobs) \in Nat
  BY <1>1, <1>2, ReceiptRecords DEF Asked, ValidJobs
<1>4. c \in Chunks /\ c \in Nat \ {0} /\ LaneCount \in Nat \ {0}
  BY <1>3, SizesAssumption DEF Chunks
<1>5. r.dep = DependencyJob(disk, c) /\ (DependsOn(c) # 0 => RecordedSubmitted(disk, DependsOn(c)))
  BY <1>2, <1>3 DEF ValidJobs
<1>6. c <= LaneCount => jobs[k].dep = 0
  BY <1>3, <1>4, <1>5 DEF DependsOn, DependencyJob
<1>7. ASSUME c > LaneCount
      PROVE  /\ jobs[k].dep \in JobIds /\ jobs[k].dep # 0
             /\ jobs[jobs[k].dep].name = c - LaneCount
  <2>1. DependsOn(c) = c - LaneCount /\ DependsOn(c) # 0
    BY <1>4, <1>7 DEF DependsOn
  <2>2. DependsOn(c) \in 1..Len(disk.jobs) /\ Submitted(disk.jobs[DependsOn(c)])
        /\ jobs[k].dep = disk.jobs[DependsOn(c)].job
    BY <1>3, <1>5, <2>1 DEF RecordedSubmitted, DependencyJob
  <2>3. jobs[k].dep \in JobIds /\ jobs[jobs[k].dep].name = DependsOn(c)
    BY <1>1, <2>2 DEF SubmissionInv, ReceiptTruthful
  <2> QED BY <1>1, <2>1, <2>3, JobTypes
<1> QED BY <1>4, <1>6, <1>7

\* Two jobs of a chunk that was handed over once are one job.
LEMMA OnlyJob ==
    ASSUME TypeInv, NEW j \in JobIds, NEW k \in JobIds, jobs[j].name = jobs[k].name,
           HandedOnce(jobs[k].name)
    PROVE  j = k
<1> SUFFICES ASSUME j # k PROVE FALSE
  OBVIOUS
<1> DEFINE S == Matches(jobs[k].name)
<1>1. IsFiniteSet(S) /\ Cardinality(S) \in Nat /\ Cardinality(S) <= 1
  <2>1. IsFiniteSet(1..Len(jobs))
    BY JobTypes, FS_Interval
  <2>2. S \subseteq 1..Len(jobs)
    BY DEF Matches, JobIds
  <2>3. IsFiniteSet(S)
    BY <2>1, <2>2, FS_Subset
  <2> QED BY <2>3, FS_CardinalityType DEF HandedOnce
<1>2. {j, k} \subseteq S
  BY DEF Matches
<1>3. IsFiniteSet({j}) /\ Cardinality({j}) = 1
  BY FS_Singleton
<1>4. IsFiniteSet({j, k}) /\ Cardinality({j, k}) = 2
  <2>1. {j, k} = {j} \cup {k} /\ k \notin {j}
    OBVIOUS
  <2>2. /\ IsFiniteSet({j} \cup {k})
        /\ Cardinality({j} \cup {k}) = Cardinality({j}) + 1
    BY <1>3, <2>1, FS_AddElement
  <2> QED BY <1>3, <2>1, <2>2
<1>5. Cardinality({j, k}) <= Cardinality(S)
  BY <1>1, <1>2, FS_Subset
<1> QED BY <1>1, <1>4, <1>5

-----------------------------------------------------------------------------
(* The inductive invariant of the production.                                *)

Stages == {"queued", "checking", "building", "writing", "closed", "validating", "ok", "failed"}
FileStates == {"none", "open", "whole", "invalid"}
Positions == [stage : Stages, date : 1..DatesPerChunk]
Files == [by : Nat, state : FileStates]

ClusterTypes ==
    /\ temp \in [Dates -> {0} \cup JobIds]
    /\ target \in [Dates -> Files]
    /\ run # <<>> => run \in [JobIds -> Positions] /\ file \in [JobIds -> FileStates]

\* Before the jobs run there is nothing but what a run of another plan made.
NotYetProduced ==
    run = <<>> => \A d \in Dates : temp[d] = 0 /\ target[d] \in {NoFile, EarlierFile}

\* A job that has left the queue waited for one that succeeded.
Waited(k) == run[k].stage # "queued" /\ jobs[k].dep # 0 => run[jobs[k].dep].stage = "ok"

\* What the job of a chunk handed over once knows of the date it is at: nothing
\* has the final name while it makes the file, and the temporary file is its own.
Working(k) ==
    /\ run[k].stage \in {"building", "writing", "closed"} => target[DateOf(k)] = NoFile
    /\ run[k].stage \in {"writing", "closed"} => temp[DateOf(k)] = k
    /\ run[k].stage = "closed" => file[k] # "open"

\* The dates it has left behind, and their files.
Passed(k) == IF run[k].stage = "ok" THEN 1..DatesPerChunk ELSE 1..run[k].date - 1
Made(k) == \A t \in Passed(k) : target[DateAt(jobs[k].name, t)].state = "whole"

\* No file of such a chunk has its final name while it is open.
NoneOpen(c) == \A d \in DatesOf(c) : target[d].state # "open"

ClusterInv ==
    /\ ClusterTypes /\ NotYetProduced
    /\ \A k \in DOMAIN run : /\ Waited(k)
                             /\ HandedOnce(jobs[k].name) => Working(k) /\ Made(k)
    /\ \A c \in Chunks : HandedOnce(c) => NoneOpen(c)

ProductionInv == SubmissionInv /\ ClusterInv

-----------------------------------------------------------------------------
(* The steps of the jobs.                                                    *)

\* Where a job is that runs.
LEMMA JobAt ==
    ASSUME ProductionInv, NEW k \in DOMAIN run
    PROVE  /\ k \in JobIds /\ k \in Nat \ {0} /\ run \in [JobIds -> Positions]
           /\ file \in [JobIds -> FileStates] /\ temp \in [Dates -> {0} \cup JobIds]
           /\ target \in [Dates -> Files]
           /\ run[k].stage \in Stages /\ run[k].date \in 1..DatesPerChunk /\ run[k].date \in Nat
           /\ jobs[k].name \in Chunks /\ DateOf(k) = DateAt(jobs[k].name, run[k].date)
           /\ DateOf(k) \in DatesOf(jobs[k].name) /\ DateOf(k) \in Dates
<1>1. run # <<>>
  OBVIOUS
<1>2. /\ run \in [JobIds -> Positions] /\ k \in JobIds /\ file \in [JobIds -> FileStates]
      /\ temp \in [Dates -> {0} \cup JobIds] /\ target \in [Dates -> Files]
  BY <1>1 DEF ProductionInv, ClusterInv, ClusterTypes
<1>3. run[k].stage \in Stages /\ run[k].date \in 1..DatesPerChunk
  BY <1>2 DEF Positions
<1>4. jobs[k].name \in Chunks /\ k \in Nat \ {0}
  BY <1>2, JobOfLane, JobTypes DEF ProductionInv, SubmissionInv
<1>5. DateOf(k) = DateAt(jobs[k].name, run[k].date)
  BY DEF DateOf, DateAt
<1>6. DateOf(k) \in DatesOf(jobs[k].name) /\ DateOf(k) \in Dates
  BY <1>3, <1>4, <1>5, PlacesOfChunk
<1>7. run[k].date \in Nat
  BY <1>3, ProductionAssumption
<1> QED BY <1>2, <1>3, <1>4, <1>5, <1>6, <1>7

\* What every step of a job leaves alone.
Moves(k) ==
    /\ UNCHANGED vars
    /\ run' \in [JobIds -> Positions] /\ file' \in [JobIds -> FileStates]
    /\ temp' \in [Dates -> {0} \cup JobIds] /\ target' \in [Dates -> Files]
    /\ \A j \in JobIds \ {k} : run'[j] = run[j] /\ file'[j] = file[j]
    /\ \A d \in Dates \ {DateOf(k)} : temp'[d] = temp[d] /\ target'[d] = target[d]
    /\ run[k].stage # "ok"
    /\ jobs[k].dep # 0 => run[jobs[k].dep].stage = "ok"

\* What it does to its own date, when it is the only job of its chunk.
Produces(k) ==
    /\ Working(k)' /\ Made(k)'
    /\ target'[DateOf(k)].state # "open"
    /\ target[DateOf(k)] # NoFile => target'[DateOf(k)] = target[DateOf(k)]

\* A step that leaves the files alone and stays at its date.
LEMMA MovesQuietly ==
    ASSUME ProductionInv, NEW k \in DOMAIN run, UNCHANGED vars, UNCHANGED fileVars,
           NEW stage \in Stages, Stage(k, stage), run[k].stage # "ok",
           jobs[k].dep # 0 => run[jobs[k].dep].stage = "ok"
    PROVE  /\ Moves(k)
           /\ run'[k].stage = stage /\ run'[k].date = run[k].date
           /\ DateOf(k)' = DateOf(k)
           /\ HandedOnce(jobs[k].name) /\ stage # "ok" => Made(k)'
<1>1. /\ k \in JobIds /\ run \in [JobIds -> Positions] /\ file' = file /\ target' = target
      /\ temp' = temp /\ file \in [JobIds -> FileStates] /\ temp \in [Dates -> {0} \cup JobIds]
      /\ target \in [Dates -> Files] /\ JobIds' = JobIds /\ jobs' = jobs
  BY JobAt DEF fileVars, vars, JobIds
<1>2. run' = [run EXCEPT ![k].stage = stage]
  BY DEF Stage
<1>3. run'[k].stage = stage /\ run'[k].date = run[k].date /\ run'[k] \in Positions
  BY <1>1, <1>2 DEF Positions
<1>4. run' \in [JobIds -> Positions] /\ \A j \in JobIds \ {k} : run'[j] = run[j]
  BY <1>1, <1>2, <1>3
<1>5. Moves(k)
  BY <1>1, <1>4 DEF Moves
<1>6. DateOf(k)' = DateOf(k)
  BY <1>1, <1>3 DEF DateOf
<1>7. ASSUME HandedOnce(jobs[k].name), stage # "ok"
      PROVE  Made(k)'
  <2>1. Made(k)
    BY <1>7 DEF ProductionInv, ClusterInv
  <2>2. Passed(k) = 1..run[k].date - 1 /\ Passed(k)' = 1..run[k].date - 1
    BY <1>3, <1>7 DEF Passed
  <2> QED BY <1>1, <2>1, <2>2 DEF Made
<1> QED BY <1>3, <1>5, <1>6, <1>7

\* A job starts when the one it waits for has succeeded.
LEMMA StartStep ==
    ASSUME ProductionInv, NEW k \in DOMAIN run, Start(k)
    PROVE  Moves(k) /\ (HandedOnce(jobs[k].name) => Produces(k))
<1>1. /\ run[k].stage = "queued" /\ Stage(k, "checking") /\ UNCHANGED vars /\ UNCHANGED fileVars
      /\ jobs[k].dep # 0 => run[jobs[k].dep].stage = "ok"
  BY DEF Start, At
<1>2. /\ Moves(k) /\ run'[k].stage = "checking"
      /\ DateOf(k)' = DateOf(k)
      /\ HandedOnce(jobs[k].name) => Made(k)'
  BY <1>1, MovesQuietly DEF Stages
<1>3. target' = target /\ DateOf(k) \in DatesOf(jobs[k].name) /\ jobs[k].name \in Chunks
  BY <1>1, JobAt DEF fileVars
<1>4. HandedOnce(jobs[k].name) => target[DateOf(k)].state # "open"
  BY <1>3 DEF ProductionInv, ClusterInv, NoneOpen
<1>5. Working(k)'
  BY <1>2 DEF Working
<1> QED BY <1>2, <1>3, <1>4, <1>5 DEF Produces

\* A job that is at work waited for one that succeeded, and its files are not open.
LEMMA Started ==
    ASSUME ProductionInv, NEW k \in DOMAIN run, run[k].stage # "queued"
    PROVE  /\ jobs[k].dep # 0 => run[jobs[k].dep].stage = "ok"
           /\ HandedOnce(jobs[k].name) =>
                 Working(k) /\ Made(k) /\ target[DateOf(k)].state # "open"
<1>1. Waited(k) /\ (HandedOnce(jobs[k].name) => Working(k) /\ Made(k))
  BY DEF ProductionInv, ClusterInv
<1>2. HandedOnce(jobs[k].name) => target[DateOf(k)].state # "open"
  BY JobAt DEF ProductionInv, ClusterInv, NoneOpen
<1> QED BY <1>1, <1>2 DEF Waited

\* It goes on only when nothing has the final name.
LEMMA CheckTargetStep ==
    ASSUME ProductionInv, NEW k \in DOMAIN run, CheckTarget(k)
    PROVE  Moves(k) /\ (HandedOnce(jobs[k].name) => Produces(k))
<1> DEFINE stage == IF target[DateOf(k)] # NoFile THEN "failed" ELSE "building"
<1>1. /\ run[k].stage = "checking" /\ Stage(k, stage) /\ UNCHANGED vars /\ UNCHANGED fileVars
      /\ stage \in Stages /\ stage # "ok"
  BY DEF CheckTarget, At, Stages
<1>2. jobs[k].dep # 0 => run[jobs[k].dep].stage = "ok"
  BY <1>1, Started
<1>3. /\ Moves(k) /\ run'[k].stage = stage
      /\ DateOf(k)' = DateOf(k)
      /\ HandedOnce(jobs[k].name) => Made(k)'
  <2> HIDE DEF stage
  <2> QED BY <1>1, <1>2, MovesQuietly
<1>4. target' = target
  BY <1>1 DEF fileVars
<1>5. Working(k)'
  BY <1>3, <1>4 DEF Working
<1>6. HandedOnce(jobs[k].name) => target[DateOf(k)].state # "open"
  BY <1>1, Started
<1> QED BY <1>3, <1>4, <1>5, <1>6 DEF Produces

\* A job that dies leaves everything where it is.
LEMMA DieStep ==
    ASSUME ProductionInv, NEW k \in DOMAIN run, Die(k)
    PROVE  Moves(k) /\ (HandedOnce(jobs[k].name) => Produces(k))
<1>1. /\ run[k].stage \notin {"queued", "ok"} /\ Stage(k, "failed")
      /\ UNCHANGED vars /\ UNCHANGED fileVars
  BY DEF Die
<1>2. jobs[k].dep # 0 => run[jobs[k].dep].stage = "ok"
  BY <1>1, Started
<1>3. /\ Moves(k) /\ run'[k].stage = "failed"
      /\ HandedOnce(jobs[k].name) => Made(k)'
  BY <1>1, <1>2, MovesQuietly DEF Stages
<1>4. target' = target
  BY <1>1 DEF fileVars
<1>5. Working(k)'
  BY <1>3 DEF Working
<1>6. HandedOnce(jobs[k].name) => target[DateOf(k)].state # "open"
  BY <1>1, Started
<1> QED BY <1>3, <1>4, <1>5, <1>6 DEF Produces

\* A step that stays at its date and changes the files of that date only.
LEMMA MovesOnItsDate ==
    ASSUME ProductionInv, NEW k \in DOMAIN run, UNCHANGED vars,
           NEW stage \in Stages \ {"ok"}, Stage(k, stage), run[k].stage \notin {"queued", "ok"},
           NEW t \in {0} \cup JobIds, temp' = [temp EXCEPT ![DateOf(k)] = t],
           NEW f \in Files, target' = [target EXCEPT ![DateOf(k)] = f],
           NEW s \in FileStates, file' = [file EXCEPT ![k] = s]
    PROVE  /\ Moves(k)
           /\ run'[k].stage = stage /\ DateOf(k)' = DateOf(k)
           /\ temp'[DateOf(k)] = t /\ target'[DateOf(k)] = f /\ file'[k] = s
           /\ HandedOnce(jobs[k].name) => Made(k)'
<1>1. /\ k \in JobIds /\ run \in [JobIds -> Positions] /\ file \in [JobIds -> FileStates]
      /\ temp \in [Dates -> {0} \cup JobIds] /\ target \in [Dates -> Files]
      /\ DateOf(k) \in Dates /\ JobIds' = JobIds /\ jobs' = jobs
  BY JobAt DEF vars, JobIds
<1>2. run' = [run EXCEPT ![k].stage = stage]
  BY DEF Stage
<1>3. run'[k].stage = stage /\ run'[k].date = run[k].date /\ run'[k] \in Positions
  BY <1>1, <1>2 DEF Positions
<1>4. run' \in [JobIds -> Positions] /\ \A j \in JobIds \ {k} : run'[j] = run[j]
  BY <1>1, <1>2, <1>3
<1>5. /\ temp' \in [Dates -> {0} \cup JobIds] /\ target' \in [Dates -> Files]
      /\ file' \in [JobIds -> FileStates]
      /\ temp'[DateOf(k)] = t /\ target'[DateOf(k)] = f /\ file'[k] = s
      /\ \A j \in JobIds \ {k} : file'[j] = file[j]
      /\ \A d \in Dates \ {DateOf(k)} : temp'[d] = temp[d] /\ target'[d] = target[d]
  BY <1>1
<1>6. jobs[k].dep # 0 => run[jobs[k].dep].stage = "ok"
  BY Started
<1>7. Moves(k)
  BY <1>1, <1>4, <1>5, <1>6 DEF Moves
<1>8. DateOf(k)' = DateOf(k)
  BY <1>1, <1>3 DEF DateOf
<1>9. ASSUME HandedOnce(jobs[k].name)
      PROVE  Made(k)'
  <2>1. Made(k)
    BY <1>9, Started
  <2>2. Passed(k) = 1..run[k].date - 1 /\ Passed(k)' = 1..run[k].date - 1
    BY <1>3 DEF Passed
  <2>3. /\ jobs[k].name \in Chunks /\ run[k].date \in 1..DatesPerChunk
        /\ DateOf(k) = DateAt(jobs[k].name, run[k].date)
        /\ run[k].date \in Nat
    BY JobAt
  <2>4. ASSUME NEW u \in 1..run[k].date - 1
        PROVE  /\ DateAt(jobs[k].name, u) \in Dates
               /\ DateAt(jobs[k].name, u) # DateOf(k)
    <3>1. u \in 1..DatesPerChunk /\ u # run[k].date
      BY <2>3, ProductionAssumption
    <3> QED BY <2>3, <3>1, PlacesOfChunk
  <2> QED BY <1>1, <1>5, <2>1, <2>2, <2>4 DEF Made
<1> QED BY <1>3, <1>5, <1>7, <1>8, <1>9

\* It creates its temporary file.
LEMMA CreateTempStep ==
    ASSUME ProductionInv, NEW k \in DOMAIN run, CreateTemp(k)
    PROVE  Moves(k) /\ (HandedOnce(jobs[k].name) => Produces(k))
<1> DEFINE f == target[DateOf(k)]
<1>1. /\ run[k].stage = "building" /\ Stage(k, "writing") /\ UNCHANGED vars
      /\ temp' = [temp EXCEPT ![DateOf(k)] = k] /\ file' = [file EXCEPT ![k] = "open"]
      /\ target' = target
  BY DEF CreateTemp, CreateFile, At
<1>2. /\ k \in {0} \cup JobIds /\ f \in Files /\ target' = [target EXCEPT ![DateOf(k)] = f]
  BY <1>1, JobAt
<1>3. /\ Moves(k) /\ run'[k].stage = "writing" /\ DateOf(k)' = DateOf(k)
      /\ temp'[DateOf(k)] = k
      /\ HandedOnce(jobs[k].name) => Made(k)'
  <2> HIDE DEF f
  <2>1. /\ "writing" \in Stages \ {"ok"} /\ "open" \in FileStates
        /\ run[k].stage \notin {"queued", "ok"}
    BY <1>1 DEF Stages, FileStates
  <2> QED BY <1>1, <1>2, <2>1, MovesOnItsDate
<1>4. ASSUME HandedOnce(jobs[k].name)
      PROVE  f = NoFile /\ f.state # "open"
  BY <1>1, <1>4, Started DEF Working
<1>5. HandedOnce(jobs[k].name) => Working(k)'
  BY <1>1, <1>3, <1>4 DEF Working
<1> QED BY <1>1, <1>3, <1>4, <1>5 DEF Produces

\* It closes it, or deletes it when it cannot.
LEMMA CloseTempStep ==
    ASSUME ProductionInv, NEW k \in DOMAIN run, CloseTemp(k)
    PROVE  Moves(k) /\ (HandedOnce(jobs[k].name) => Produces(k))
<1> DEFINE d == DateOf(k)
           f == target[d]
<1>1. run[k].stage = "writing" /\ UNCHANGED vars
  BY DEF CloseTemp, At
<1>2. /\ k \in JobIds /\ k # 0 /\ f \in Files /\ temp[d] \in {0} \cup JobIds /\ d \in Dates
      /\ temp = [temp EXCEPT ![d] = temp[d]] /\ target = [target EXCEPT ![d] = f]
      /\ file = [file EXCEPT ![k] = file[k]] /\ file[k] \in FileStates
      /\ target \in [Dates -> Files]
  BY JobAt
<1>3. HandedOnce(jobs[k].name) => f = NoFile /\ temp[d] = k
  BY <1>1, Started DEF Working
<1>4. ASSUME NEW state \in {"whole", "invalid"}, CloseFile(k, d, state), Stage(k, "closed")
      PROVE  Moves(k) /\ (HandedOnce(jobs[k].name) => Produces(k))
  <2> DEFINE g == IF f.by = k THEN [f EXCEPT !.state = state] ELSE f
  <2>1. g \in Files
    BY <1>2 DEF Files, FileStates
  <2>2. /\ temp' = [temp EXCEPT ![d] = temp[d]] /\ target' = [target EXCEPT ![d] = g]
        /\ file' = [file EXCEPT ![k] = state]
    <3>1. temp' = temp /\ file' = [file EXCEPT ![k] = state] /\ target' = SeenAs(k, d, state)
      BY <1>4 DEF CloseFile
    <3>2. SeenAs(k, d, state) = [target EXCEPT ![d] = g]
      BY <1>2 DEF SeenAs
    <3> QED BY <1>2, <3>1, <3>2
  <2> HIDE DEF g, f
  <2>3. /\ Moves(k) /\ run'[k].stage = "closed" /\ DateOf(k)' = d
        /\ temp'[d] = temp[d] /\ target'[d] = g /\ file'[k] = state
        /\ HandedOnce(jobs[k].name) => Made(k)'
    BY <1>1, <1>2, <1>4, <2>1, <2>2, MovesOnItsDate DEF Stages, FileStates
  <2>4. HandedOnce(jobs[k].name) => g = NoFile
    BY <1>2, <1>3 DEF g, NoFile
  <2>5. HandedOnce(jobs[k].name) => Working(k)'
    BY <1>3, <2>3, <2>4 DEF Working
  <2>6. NoFile.state # "open"
    BY DEF NoFile
  <2> QED BY <1>3, <2>3, <2>4, <2>5, <2>6 DEF Produces, f
<1>5. ASSUME CloseFileFails(d), Stage(k, "validating")
      PROVE  Moves(k) /\ (HandedOnce(jobs[k].name) => Produces(k))
  <2>1. /\ temp' = [temp EXCEPT ![d] = 0] /\ target' = [target EXCEPT ![d] = f]
        /\ file' = [file EXCEPT ![k] = file[k]]
    BY <1>2, <1>5 DEF CloseFileFails
  <2> HIDE DEF f
  <2>2. /\ Moves(k) /\ run'[k].stage = "validating" /\ DateOf(k)' = d /\ target'[d] = f
        /\ HandedOnce(jobs[k].name) => Made(k)'
    BY <1>1, <1>2, <1>5, <2>1, MovesOnItsDate DEF Stages
  <2>3. Working(k)'
    BY <2>2 DEF Working
  <2>4. NoFile.state # "open"
    BY DEF NoFile
  <2> QED BY <1>3, <2>2, <2>3, <2>4 DEF Produces, f
<1> QED BY <1>4, <1>5 DEF CloseTemp

\* It renames it; nothing had the final name.
LEMMA CommitStep ==
    ASSUME ProductionInv, NEW k \in DOMAIN run, Commit(k)
    PROVE  Moves(k) /\ (HandedOnce(jobs[k].name) => Produces(k))
<1> DEFINE d == DateOf(k)
           f == target[d]
           g == IF temp[d] = 0 THEN f ELSE [by |-> temp[d], state |-> file[temp[d]]]
<1>1. run[k].stage = "closed" /\ UNCHANGED vars /\ Stage(k, "validating") /\ CommitFile(d)
  BY DEF Commit, At
<1>2. /\ k \in JobIds /\ k # 0 /\ f \in Files /\ temp[d] \in {0} \cup JobIds /\ d \in Dates
      /\ file = [file EXCEPT ![k] = file[k]] /\ file \in [JobIds -> FileStates]
      /\ target \in [Dates -> Files] /\ target = [target EXCEPT ![d] = f]
      /\ JobIds \subseteq Nat
  BY JobAt DEF JobIds
<1>3. g \in Files
  <2>1. CASE temp[d] = 0
    BY <1>2, <2>1
  <2>2. CASE temp[d] # 0
    <3>1. temp[d] \in Nat /\ file[temp[d]] \in FileStates
      BY <1>2, <2>2
    <3> QED BY <2>2, <3>1 DEF Files
  <2> QED BY <2>1, <2>2
<1>4. /\ temp' = [temp EXCEPT ![d] = 0] /\ target' = [target EXCEPT ![d] = g]
      /\ file' = [file EXCEPT ![k] = file[k]] /\ file[k] \in FileStates
  <2>1. target' = IF temp[d] = 0 THEN target ELSE [target EXCEPT ![d] = g]
    BY <1>1 DEF CommitFile
  <2>2. target' = [target EXCEPT ![d] = g]
    BY <1>2, <2>1
  <2> QED BY <1>1, <1>2, <2>2 DEF CommitFile
<1>5. HandedOnce(jobs[k].name) => f = NoFile /\ g = [by |-> k, state |-> file[k]] /\ file[k] # "open"
  BY <1>1, <1>2, Started DEF Working
<1> HIDE DEF f, g
<1>6. /\ Moves(k) /\ run'[k].stage = "validating" /\ DateOf(k)' = d /\ target'[d] = g
      /\ HandedOnce(jobs[k].name) => Made(k)'
  <2>1. /\ "validating" \in Stages \ {"ok"} /\ run[k].stage \notin {"queued", "ok"}
        /\ 0 \in {0} \cup JobIds
    BY <1>1 DEF Stages
  <2> QED BY <1>1, <1>3, <1>4, <2>1, MovesOnItsDate
<1>7. Working(k)'
  BY <1>6 DEF Working
<1>8. HandedOnce(jobs[k].name) => target'[d].state # "open"
  BY <1>5, <1>6
<1> QED BY <1>5, <1>6, <1>7, <1>8 DEF Produces, f

\* It goes to the next date, or is done, when the file of its date is whole.
LEMMA ValidateStep ==
    ASSUME ProductionInv, NEW k \in DOMAIN run, Validate(k)
    PROVE  Moves(k) /\ (HandedOnce(jobs[k].name) => Produces(k))
<1> DEFINE x == jobs[k].name
           here == run[k].date
<1>1. run[k].stage = "validating" /\ UNCHANGED vars /\ UNCHANGED fileVars
  BY DEF Validate, At
<1>2. /\ k \in JobIds /\ run \in [JobIds -> Positions] /\ file' = file /\ target' = target
      /\ temp' = temp /\ file \in [JobIds -> FileStates] /\ temp \in [Dates -> {0} \cup JobIds]
      /\ target \in [Dates -> Files] /\ JobIds' = JobIds /\ jobs' = jobs
      /\ DateOf(k) = DateAt(x, here) /\ here \in 1..DatesPerChunk
      /\ DatesPerChunk \in Nat
  BY <1>1, JobAt, ProductionAssumption DEF fileVars, vars, JobIds
<1>3. /\ jobs[k].dep # 0 => run[jobs[k].dep].stage = "ok"
      /\ HandedOnce(x) => Made(k) /\ target[DateOf(k)].state # "open"
  BY <1>1, Started
<1>4. CASE target[DateOf(k)].state # "whole"
  <2>1. Stage(k, "failed")
    BY <1>4 DEF Validate, Stage
  <2>2. /\ Moves(k) /\ run'[k].stage = "failed"
        /\ HandedOnce(x) => Made(k)'
    <3>1. "failed" \in Stages /\ "failed" # "ok" /\ run[k].stage # "ok"
      BY <1>1 DEF Stages
    <3> QED BY <1>1, <1>3, <2>1, <3>1, MovesQuietly
  <2>3. Working(k)'
    BY <2>2 DEF Working
  <2> QED BY <1>2, <1>3, <2>2, <2>3 DEF Produces
<1>5. CASE target[DateOf(k)].state = "whole"
  <2> DEFINE next == IF here < DatesPerChunk THEN [stage |-> "checking", date |-> here + 1]
                     ELSE [run[k] EXCEPT !.stage = "ok"]
  <2>1. run' = [run EXCEPT ![k] = next]
    BY <1>5 DEF Validate
  <2>2. /\ next \in Positions /\ next.stage \in {"checking", "ok"}
        /\ next.stage = "checking" => here < DatesPerChunk /\ next.date = here + 1
        /\ next.stage = "ok" => here = DatesPerChunk
    <3>1. CASE here < DatesPerChunk
      <4>1. here + 1 \in 1..DatesPerChunk
        BY <1>2, <3>1
      <4> QED BY <3>1, <4>1 DEF Positions, Stages
    <3>2. CASE ~ (here < DatesPerChunk)
      <4>1. here = DatesPerChunk
        BY <1>2, <3>2
      <4>2. run[k] \in Positions
        BY <1>2
      <4>3. next = [run[k] EXCEPT !.stage = "ok"]
        BY <3>2
      <4> HIDE DEF next
      <4> QED BY <4>1, <4>2, <4>3 DEF Positions, Stages
    <3> QED BY <3>1, <3>2
  <2> HIDE DEF next
  <2>3. /\ run' \in [JobIds -> Positions] /\ run'[k] = next
        /\ \A j \in JobIds \ {k} : run'[j] = run[j]
    BY <1>2, <2>1, <2>2
  <2>4. Moves(k)
    BY <1>1, <1>2, <1>3, <2>3 DEF Moves
  <2>5. Working(k)'
    BY <2>2, <2>3 DEF Working
  <2>6. Passed(k)' \subseteq 1..here
    <3>1. Passed(k)' = IF next.stage = "ok" THEN 1..DatesPerChunk ELSE 1..next.date - 1
      BY <2>3 DEF Passed
    <3>2. CASE next.stage = "ok"
      BY <2>2, <3>1, <3>2
    <3>3. CASE next.stage = "checking"
      <4>1. next.date - 1 = here
        BY <1>2, <2>2, <3>3
      <4> QED BY <3>1, <3>3, <4>1
    <3> QED BY <2>2, <3>2, <3>3
  <2>7. ASSUME HandedOnce(x)
        PROVE  Made(k)'
    <3>1. Passed(k) = 1..here - 1 /\ Made(k)
      BY <1>1, <1>3, <2>7 DEF Passed
    <3>2. \A u \in 1..here : u = here \/ u \in 1..here - 1
      BY <1>2
    <3>3. \A u \in 1..here : target[DateAt(x, u)].state = "whole"
      BY <1>2, <1>5, <3>1, <3>2 DEF Made
    <3> QED BY <1>2, <2>6, <3>3 DEF Made
  <2> QED BY <1>2, <1>3, <2>4, <2>5, <2>7 DEF Produces
<1> QED BY <1>4, <1>5

\* So much for one job.
LEMMA JobMoves ==
    ASSUME ProductionInv, NEW k \in DOMAIN run, JobStep(k)
    PROVE  Moves(k) /\ (HandedOnce(jobs[k].name) => Produces(k))
BY StartStep, CheckTargetStep, CreateTempStep, CloseTempStep, CommitStep, ValidateStep, DieStep
   DEF JobStep

\* The jobs of two chunks work at different dates.
LEMMA OtherDates ==
    ASSUME ProductionInv, NEW j \in DOMAIN run, NEW k \in DOMAIN run, j # k,
           HandedOnce(jobs[j].name)
    PROVE  /\ jobs[j].name # jobs[k].name
           /\ \A t \in 1..DatesPerChunk :
                 /\ DateAt(jobs[j].name, t) \in Dates
                 /\ DateAt(jobs[j].name, t) # DateOf(k)
<1>1. /\ j \in JobIds /\ k \in JobIds /\ jobs[j].name \in Chunks /\ jobs[k].name \in Chunks
      /\ DateOf(k) = DateAt(jobs[k].name, run[k].date) /\ run[k].date \in 1..DatesPerChunk
      /\ DateOf(k) \in DatesOf(jobs[k].name) /\ TypeInv
  BY JobAt DEF ProductionInv, SubmissionInv
<1>2. jobs[j].name # jobs[k].name
  BY <1>1, OnlyJob
<1>3. ASSUME NEW t \in 1..DatesPerChunk
      PROVE  /\ DateAt(jobs[j].name, t) \in Dates
             /\ DateAt(jobs[j].name, t) # DateOf(k)
  BY <1>1, <1>2, PlacesOfChunk
<1> QED BY <1>2, <1>3

\* So a step of one job keeps what is true of all of them.
LEMMA JobsGoOn ==
    ASSUME ProductionInv, NEW k \in DOMAIN run, JobStep(k)
    PROVE  ProductionInv'
<1>1. Moves(k) /\ (HandedOnce(jobs[k].name) => Produces(k))
  BY JobMoves
<1>2. UNCHANGED vars /\ jobs' = jobs /\ JobIds' = JobIds
  BY <1>1 DEF Moves, vars, JobIds
<1>3. \A c : HandedOnce(c)' <=> HandedOnce(c)
  BY <1>2 DEF HandedOnce, Matches
<1>4. SubmissionInv'
  BY <1>2, SubmissionGoesOn DEF ProductionInv
<1>5. /\ run \in [JobIds -> Positions] /\ k \in JobIds /\ DOMAIN run' = JobIds
      /\ DOMAIN run = JobIds /\ run' # <<>> /\ jobs[k].name \in Chunks
      /\ DateOf(k) \in DatesOf(jobs[k].name) /\ DateOf(k) \in Dates
  BY <1>1, JobAt DEF Moves
<1>6. ClusterTypes' /\ NotYetProduced'
  BY <1>1, <1>2, <1>5 DEF Moves, ClusterTypes, NotYetProduced
<1>7. ASSUME NEW j \in JobIds
      PROVE  Waited(j)' /\ (HandedOnce(jobs[j].name) => Working(j)' /\ Made(j)')
  <2>1. CASE j = k
    <3>1. jobs[k].dep # 0 => run[jobs[k].dep].stage = "ok" /\ jobs[k].dep # k
      BY <1>1 DEF Moves
    <3>2. jobs[k].dep # 0 => jobs[k].dep \in JobIds
      BY <1>5, SizesAssumption, JobOfLane DEF ProductionInv, Chunks
    <3>3. Waited(k)'
      BY <1>1, <1>2, <3>1, <3>2 DEF Waited, Moves
    <3> QED BY <1>1, <2>1, <3>3 DEF Produces
  <2>2. CASE j # k
    <3>1. run'[j] = run[j] /\ file'[j] = file[j] /\ j \in DOMAIN run
      BY <1>1, <1>5, <2>2 DEF Moves
    <3>2. Waited(j)'
      <4>1. jobs[j].dep # 0 => jobs[j].dep \in JobIds
        BY <1>5, SizesAssumption, JobOfLane, SMTT(40) DEF ProductionInv, Chunks
      <4>2. Waited(j)
        BY <3>1 DEF ProductionInv, ClusterInv
      <4> QED BY <1>1, <1>2, <3>1, <4>1, <4>2 DEF Waited, Moves
    <3>3. ASSUME HandedOnce(jobs[j].name)
          PROVE  Working(j)' /\ Made(j)'
      <4>1. Working(j) /\ Made(j)
        BY <3>1, <3>3 DEF ProductionInv, ClusterInv
      <4>2. \A t \in 1..DatesPerChunk : target'[DateAt(jobs[j].name, t)] = target[DateAt(jobs[j].name, t)]
        BY <1>1, <1>5, <2>2, <3>1, <3>3, OtherDates DEF Moves
      <4>3. /\ DateOf(j)' = DateOf(j) /\ target'[DateOf(j)] = target[DateOf(j)]
            /\ temp'[DateOf(j)] = temp[DateOf(j)]
        <5>1. DateOf(j) \in Dates /\ DateOf(j) # DateOf(k)
          BY <1>5, <2>2, <3>1, <3>3, OtherDates, JobAt
        <5>2. DateOf(j)' = DateOf(j)
          BY <1>2, <3>1 DEF DateOf
        <5> QED BY <1>1, <5>1, <5>2 DEF Moves
      <4>4. Working(j)'
        BY <3>1, <4>1, <4>3 DEF Working
      <4>5. Passed(j)' = Passed(j) /\ Passed(j) \subseteq 1..DatesPerChunk
        <5>1. run[j].date \in 1..DatesPerChunk /\ DatesPerChunk \in Nat
          BY <3>1, JobAt, ProductionAssumption
        <5> QED BY <3>1, <5>1 DEF Passed
      <4>6. Made(j)'
        BY <1>2, <4>1, <4>2, <4>5 DEF Made
      <4> QED BY <4>4, <4>6
    <3> QED BY <3>2, <3>3
  <2> QED BY <2>1, <2>2
<1>8. ASSUME NEW c \in Chunks, HandedOnce(c)
      PROVE  NoneOpen(c)'
  <2> SUFFICES ASSUME NEW d \in DatesOf(c) PROVE target'[d].state # "open"
    BY DEF NoneOpen
  <2>1. target[d].state # "open" /\ d \in Dates
    BY <1>8 DEF ProductionInv, ClusterInv, NoneOpen, DatesOf
  <2>2. CASE d = DateOf(k)
    <3>1. c = jobs[k].name
      BY <1>5, <2>2, SizesAssumption DEF DatesOf, Chunks
    <3> QED BY <1>1, <1>8, <2>2, <3>1 DEF Produces
  <2>3. CASE d # DateOf(k)
    BY <1>1, <2>1, <2>3 DEF Moves
  <2> QED BY <2>2, <2>3
<1> QED BY <1>2, <1>3, <1>4, <1>5, <1>6, <1>7, <1>8 DEF ProductionInv, ClusterInv

-----------------------------------------------------------------------------
(* The other steps.                                                          *)

\* While the plan is submitted no file changes.
LEMMA SubmittingGoesOn ==
    ASSUME ProductionInv, SubmissionStep
    PROVE  ProductionInv' /\ Kept
<1>1. run = <<>> /\ run' = run /\ temp' = temp /\ target' = target
  BY DEF SubmissionStep, clusterVars, fileVars
<1>2. SubmissionInv' /\ Kept
  BY SubmissionGoesOn DEF SubmissionStep, ProductionInv
<1>3. NotYetProduced /\ temp \in [Dates -> {0} \cup JobIds] /\ target \in [Dates -> Files]
  BY DEF ProductionInv, ClusterInv, ClusterTypes
<1>4. temp \in [Dates -> {0} \cup JobIds']
  BY <1>1, <1>3 DEF NotYetProduced
<1>5. ClusterTypes' /\ NotYetProduced'
  BY <1>1, <1>3, <1>4 DEF ClusterTypes, NotYetProduced
<1>6. \A c \in Chunks : NoneOpen(c)'
  <2>1. \A d \in Dates : target[d].state # "open"
    BY <1>1, <1>3 DEF NotYetProduced, NoFile, EarlierFile
  <2> QED BY <1>1, <2>1 DEF NoneOpen, DatesOf
<1> QED BY <1>1, <1>2, <1>5, <1>6 DEF ProductionInv, ClusterInv

\* The jobs are queued; by now one of the files may be there.
LEMMA QueueStep ==
    ASSUME ProductionInv, Queue
    PROVE  ProductionInv' /\ Kept
<1>1. /\ run = <<>> /\ run' = [k \in JobIds |-> [stage |-> "queued", date |-> 1]]
      /\ file' = [k \in JobIds |-> "none"] /\ temp' = temp
      /\ lock' = lock /\ disk' = disk /\ mem' = mem /\ pc' = pc /\ cur' = cur
      /\ calls' = calls /\ calls = {}
  BY DEF Queue
<1>2. /\ jobs' \in Seq(Accepted) /\ JobIds' = JobIds
       /\ \A k \in JobIds : /\ jobs'[k].name = jobs[k].name /\ jobs'[k].dep = jobs[k].dep
                            /\ jobs'[k].late = jobs[k].late
  <2> DEFINE new(k) == [jobs[k] EXCEPT !.by = Orphan]
  <2>1. \A k \in 1..Len(jobs) : jobs[k] \in Accepted
    BY JobTypes DEF ProductionInv, SubmissionInv, JobIds
  <2>2. \A k \in 1..Len(jobs) : /\ new(k) \in Accepted /\ new(k).name = jobs[k].name
                                /\ new(k).dep = jobs[k].dep /\ new(k).late = jobs[k].late
    BY <2>1 DEF Accepted, By
  <2>3. Len(jobs) \in Nat
    BY JobTypes DEF ProductionInv, SubmissionInv
  <2>4. jobs' = [k \in 1..Len(jobs) |-> new(k)]
    BY DEF Queue, JobIds
  <2> HIDE DEF new
  <2>5. jobs' \in Seq(Accepted) /\ Len(jobs') = Len(jobs)
    BY <2>2, <2>3, <2>4
  <2> QED BY <2>2, <2>4, <2>5 DEF JobIds
<1>3. \A s \in Submitters : pc[s] = "idle"
  BY DEF Queue, ProductionInv, SubmissionInv, Holder, Busy
<1>4. SubmissionInv'
  <2>1. TypeInv' /\ Holder' /\ Progress'
    BY <1>1, <1>2, <1>3 DEF ProductionInv, SubmissionInv, TypeInv, Holder, Busy, Progress
  <2>2. AllAsked' /\ OneCall' /\ NotYet'
    BY <1>1, <1>2, <1>3 DEF ProductionInv, SubmissionInv, AllAsked, Asked, OneCall, NotYet
  <2>3. ReceiptResumable' /\ ReceiptTruthful' /\ OneJobPerChunk'
    BY <1>1, <1>2 DEF ProductionInv, SubmissionInv, ReceiptResumable, ReceiptTruthful, OneJobPerChunk
  <2> QED BY <2>1, <2>2, <2>3 DEF SubmissionInv
<1>5. NotYetProduced /\ temp \in [Dates -> {0} \cup JobIds] /\ target \in [Dates -> Files]
  BY DEF ProductionInv, ClusterInv, ClusterTypes
<1>6. \/ target' = target
      \/ \E d \in Dates : target' = [target EXCEPT ![d] = EarlierFile]
  BY DEF Queue
<1>7. /\ target' \in [Dates -> Files]
      /\ \A d \in Dates : target'[d] \in {NoFile, EarlierFile}
  <2>1. EarlierFile \in Files
    BY DEF EarlierFile, Files, FileStates
  <2> QED BY <1>1, <1>5, <1>6, <2>1 DEF NotYetProduced
<1>8. [stage |-> "queued", date |-> 1] \in Positions /\ "none" \in FileStates
  BY ProductionAssumption DEF Positions, Stages, FileStates
<1>9. ClusterTypes' /\ NotYetProduced'
  <2>1. run' \in [JobIds -> Positions] /\ file' \in [JobIds -> FileStates]
    BY <1>1, <1>8
  <2>2. JobIds' = JobIds /\ temp' \in [Dates -> {0} \cup JobIds]
    BY <1>1, <1>5, <1>2
  <2>3. ClusterTypes'
    BY <1>7, <2>1, <2>2 DEF ClusterTypes
  <2>4. \A d \in Dates : temp'[d] = 0
    BY <1>1, <1>5 DEF NotYetProduced
  <2> QED BY <1>7, <2>3, <2>4 DEF NotYetProduced
<1>10. ASSUME NEW k \in JobIds
      PROVE  Waited(k)' /\ Working(k)' /\ Made(k)'
  <2>1. run'[k].stage = "queued" /\ run'[k].date = 1
    BY <1>1
  <2>2. Passed(k)' = {}
    BY <2>1 DEF Passed
  <2> QED BY <2>1, <2>2 DEF Waited, Working, Made
<1>11. \A c \in Chunks : NoneOpen(c)'
  BY <1>7 DEF NoneOpen, DatesOf, NoFile, EarlierFile
<1>12. DOMAIN run' = JobIds'
  BY <1>1, <1>2
<1>13. Kept
  BY <1>1, ReceiptRecords DEF Kept, Keeps, ProductionInv, SubmissionInv, TypeInv
<1> QED BY <1>1, <1>4, <1>9, <1>10, <1>11, <1>12, <1>13 DEF ProductionInv, ClusterInv

\* Nothing has been submitted or produced at first.
LEMMA ProductionStarts ==
    ProductionInit => ProductionInv
<1> SUFFICES ASSUME ProductionInit PROVE ProductionInv
  OBVIOUS
<1>1. SubmissionInv
  BY SubmissionStarts DEF ProductionInit
<1>2. /\ run = <<>> /\ temp = [d \in Dates |-> 0] /\ target = [d \in Dates |-> NoFile]
  BY DEF ProductionInit, InitCluster, InitFiles
<1>3. NoFile \in Files /\ NoFile.state # "open"
  BY DEF NoFile, Files, FileStates
<1>4. ClusterTypes /\ NotYetProduced
  BY <1>2, <1>3 DEF ClusterTypes, NotYetProduced
<1>5. \A c \in Chunks : NoneOpen(c)
  BY <1>2, <1>3 DEF NoneOpen, DatesOf
<1> QED BY <1>1, <1>2, <1>4, <1>5 DEF ProductionInv, ClusterInv

\* Every step keeps the invariant, and what the receipt says.
LEMMA ProductionGoesOn ==
    ASSUME ProductionInv, [ProductionNext]_allVars
    PROVE  ProductionInv' /\ Kept
<1>1. CASE UNCHANGED allVars
  <2>1. /\ UNCHANGED vars /\ UNCHANGED clusterVars /\ run' = run /\ file' = file
        /\ temp' = temp /\ target' = target
    BY <1>1 DEF allVars, clusterVars, fileVars
  <2>2. SubmissionInv' /\ Kept /\ jobs' = jobs /\ JobIds' = JobIds
    BY <2>1, SubmissionGoesOn DEF ProductionInv, vars, JobIds
  <2>3. ClusterInv'
    BY <2>1, <2>2 DEF ProductionInv, ClusterInv, ClusterTypes, NotYetProduced, Waited, Working,
                      Made, Passed, NoneOpen, HandedOnce, Matches, DateOf
  <2> QED BY <2>2, <2>3 DEF ProductionInv
<1>2. CASE SubmissionStep
  BY <1>2, SubmittingGoesOn
<1>3. CASE Queue
  BY <1>3, QueueStep
<1>4. ASSUME NEW k \in DOMAIN run, JobStep(k)
      PROVE  ProductionInv' /\ Kept
  <2>1. UNCHANGED vars
    BY <1>4, JobMoves DEF Moves
  <2>2. Kept
    BY <2>1, SubmissionGoesOn DEF ProductionInv
  <2> QED BY <1>4, <2>2, JobsGoOn
<1> QED BY <1>1, <1>2, <1>3, <1>4 DEF ProductionNext

-----------------------------------------------------------------------------
(* What it means for the files.                                              *)

\* The job of a chunk handed over once, when it has succeeded, has made its files.
LEMMA SucceededIsWhole ==
    ASSUME ProductionInv, NEW k \in DOMAIN run, run[k].stage = "ok",
           HandedOnce(jobs[k].name), NEW d \in DatesOf(jobs[k].name)
    PROVE  target[d].state = "whole"
<1>1. jobs[k].name \in Chunks /\ Made(k) /\ Passed(k) = 1..DatesPerChunk
  BY JobAt DEF ProductionInv, ClusterInv, Passed
<1>2. PICK t \in 1..DatesPerChunk : d = DateAt(jobs[k].name, t)
  BY <1>1, DatesArePlaces
<1> QED BY <1>1, <1>2 DEF Made

\* Every chunk before a job that is at work, in its lane, has a job that succeeded.
LEMMA LaneSucceeded ==
    ASSUME ProductionInv, NEW k \in DOMAIN run, run[k].stage # "queued",
           NEW c \in Chunks, c % LaneCount = jobs[k].name % LaneCount, c < jobs[k].name
    PROVE  \E j \in DOMAIN run : jobs[j].name = c /\ run[j].stage = "ok"
<1> DEFINE L == LaneCount
           Behind == {n \in Nat : \E j \in DOMAIN run :
                         /\ n = jobs[j].name /\ run[j].stage # "queued"
                         /\ c < n /\ c % L = n % L}
<1>1. L \in Nat \ {0} /\ ChunkCount \in Nat \ {0} /\ c \in Nat /\ c \in 1..ChunkCount
  BY SizesAssumption DEF Chunks
<1>2. jobs[k].name \in Behind
  <2>1. jobs[k].name \in Nat
    BY JobAt, <1>1 DEF Chunks
  <2> QED BY <2>1
<1>3. PICK n \in Behind : \A y \in Behind : ~ (<<y, n>> \in OpToRel(<, Nat))
  <2>1. Behind \subseteq Nat /\ Behind # {}
    BY <1>2
  <2> HIDE DEF Behind
  <2> QED BY <2>1, NatLessThanWellFounded, WFMin
<1>4. PICK j \in DOMAIN run : n = jobs[j].name /\ run[j].stage # "queued"
  BY <1>3
<1>5. n \in Nat /\ c < n /\ c % L = n % L
  BY <1>3
<1>6. \A y \in Behind : ~ (y < n)
  <2>1. Behind \subseteq Nat /\ n \in Nat
    BY <1>5
  <2> HIDE DEF Behind
  <2> QED BY <1>3, <2>1 DEF OpToRel
<1>7. n > L /\ n - L \in Nat /\ (n - L) % L = c % L /\ c <= n - L
  <2>1. c = L * (c \div L) + (c % L) /\ n = L * (n \div L) + (n % L)
        /\ c \div L \in Nat /\ n \div L \in Nat /\ c % L \in 0..L - 1
    BY <1>1, <1>5, SMT
  <2>2. L * (n \div L) > L * (c \div L)
    <3>1. PICK a, b, r : a = L * (c \div L) /\ b = L * (n \div L) /\ r = c % L
      OBVIOUS
    <3>2. a \in Int /\ b \in Int /\ r \in Int
      BY <1>1, <2>1, <3>1, SMT
    <3>3. c = a + r /\ n = b + r
      BY <1>5, <2>1, <3>1
    <3> HIDE DEF L, Behind
    <3>4. b > a
      BY <1>1, <1>5, <3>2, <3>3
    <3> QED BY <3>1, <3>4
  <2>3. n \div L >= (c \div L) + 1
    BY <1>1, <2>1, <2>2, SMT
  <2>4. L * (n \div L) >= L * ((c \div L) + 1)
    BY <1>1, <2>1, <2>3, SMT
  <2>5. L * ((c \div L) + 1) = L * (c \div L) + L
    BY <1>1, <2>1, SMT
  <2>6. n >= c + L
    <3>1. PICK a, b, r : a = L * (c \div L) /\ b = L * (n \div L) /\ r = c % L
      OBVIOUS
    <3>2. a \in Int /\ b \in Int /\ r \in Int
      BY <1>1, <2>1, <3>1, SMT
    <3>3. c = a + r /\ n = b + r /\ b >= a + L
      BY <1>5, <2>1, <2>4, <2>5, <3>1
    <3> HIDE DEF L, Behind
    <3> QED BY <1>1, <3>2, <3>3
  <2>7. (n - L) % L = n % L
    <3>1. \A a \in Nat, r \in 0..L - 1 : (L * a + r) % L = r
      BY <1>1, SMT
    <3>2. n % L \in 0..L - 1 /\ (n \div L) - 1 \in Nat
      BY <1>1, <1>5, <2>1, <2>3, SMT
    <3>3. (L * ((n \div L) - 1) + (n % L)) % L = n % L
      BY <3>1, <3>2
    <3>4. L * ((n \div L) - 1) = L * (n \div L) - L
      BY <1>1, <2>1, SMT
    <3>5. n - L = L * ((n \div L) - 1) + (n % L)
      <4>1. PICK b, e, r : b = L * (n \div L) /\ e = L * ((n \div L) - 1) /\ r = n % L
        OBVIOUS
      <4>2. b \in Int /\ e \in Int /\ r \in Int
        BY <1>1, <2>1, <3>2, <4>1, SMT
      <4>3. e = b - L /\ n = b + r
        BY <2>1, <3>4, <4>1
      <4>4. n - L = e + r
        <5> HIDE DEF L, Behind
        <5> QED BY <1>1, <4>2, <4>3
      <4> QED BY <4>1, <4>4
    <3> QED BY <3>3, <3>5
  <2> HIDE DEF Behind
  <2> QED BY <1>1, <1>5, <2>6, <2>7
<1> HIDE DEF Behind
<1>8. j \in JobIds /\ jobs[j].dep \in JobIds /\ jobs[j].dep # 0
      /\ jobs[jobs[j].dep].name = n - L
  BY <1>4, <1>7, JobAt, JobOfLane DEF ProductionInv
<1>9. run[jobs[j].dep].stage = "ok" /\ jobs[j].dep \in DOMAIN run
  BY <1>4, <1>8, JobAt DEF ProductionInv, ClusterInv, Waited
<1>10. ~ (c < n - L)
  <2>1. CASE c < n - L
    <3>1. n - L \in Behind
      BY <1>7, <1>8, <1>9, <2>1 DEF Behind
    <3> QED BY <1>1, <1>5, <1>6, <3>1
  <2> QED BY <2>1
<1>11. n - L = c
  BY <1>1, <1>7, <1>10
<1> QED BY <1>8, <1>9, <1>11

\* The files of every chunk before it are there.
LEMMA LaneIsComplete ==
    ProductionInv => LaneComplete
<1> SUFFICES ASSUME ProductionInv, NEW k \in DOMAIN run, run[k].stage # "queued",
                    NEW c \in Chunks, HandedOnce(c), NEW d \in DatesOf(c),
                    \/ c % LaneCount = jobs[k].name % LaneCount /\ c < jobs[k].name
                    \/ run[k].stage = "ok" /\ c = jobs[k].name
             PROVE  target[d].state = "whole"
  BY JobAt DEF LaneComplete
<1>1. \E j \in DOMAIN run : jobs[j].name = c /\ run[j].stage = "ok"
  BY LaneSucceeded
<1> QED BY <1>1, SucceededIsWhole

\* A file with its final name is never replaced.
LEMMA OutputStays ==
    ASSUME ProductionInv, [ProductionNext]_allVars,
           NEW c \in Chunks, NEW d \in DatesOf(c), HandedOnce(c)'
    PROVE  /\ target[d] # NoFile => target'[d] = target[d]
           /\ target'[d].state # "open"
<1>1. d \in Dates /\ target'[d].state # "open"
  BY ProductionGoesOn DEF ProductionInv, ClusterInv, NoneOpen, DatesOf
<1>2. CASE target' = target
  BY <1>1, <1>2
<1>3. CASE Queue
  <2>1. target[d] \in {NoFile, EarlierFile}
    BY <1>1, <1>3 DEF ProductionInv, ClusterInv, NotYetProduced, Queue
  <2>2. target \in [Dates -> Files]
    BY DEF ProductionInv, ClusterInv, ClusterTypes
  <2>3. target' = target \/ \E e \in Dates : target' = [target EXCEPT ![e] = EarlierFile]
    BY <1>3 DEF Queue
  <2> QED BY <1>1, <2>1, <2>2, <2>3
<1>4. ASSUME NEW k \in DOMAIN run, JobStep(k)
      PROVE  target[d] # NoFile => target'[d] = target[d]
  <2>1. Moves(k) /\ (HandedOnce(jobs[k].name) => Produces(k))
    BY <1>4, JobMoves
  <2>2. CASE d # DateOf(k)
    BY <1>1, <2>1, <2>2 DEF Moves
  <2>3. CASE d = DateOf(k)
    <3>1. c = jobs[k].name
      <4>1. DateOf(k) \in DatesOf(jobs[k].name) /\ jobs[k].name \in Chunks
        BY JobAt
      <4> QED BY <2>3, <4>1, SizesAssumption DEF DatesOf, Chunks
    <3>2. HandedOnce(c)
      BY <2>1 DEF HandedOnce, Matches, Moves, vars, JobIds
    <3> QED BY <2>1, <2>3, <3>1, <3>2 DEF Produces
  <2> QED BY <2>2, <2>3
<1> QED BY <1>1, <1>2, <1>3, <1>4
        DEF ProductionNext, SubmissionStep, allVars, clusterVars, fileVars

-----------------------------------------------------------------------------
(* The theorems of the production.                                           *)

\* The submission keeps what it promises while the jobs run, and the job of a
\* chunk handed over once is the only one that touches its files.
THEOREM Production_Invariant == ProductionSpec => []ProductionInv
<1>1. ProductionInv /\ [ProductionNext]_allVars => ProductionInv'
  BY ProductionGoesOn
<1> QED BY <1>1, ProductionStarts, PTL DEF ProductionSpec

\* Nothing of the submission is lost by what the jobs do.
THEOREM Production_Submits ==
    ProductionSpec => [](OneJobPerChunk /\ ReceiptTruthful /\ ReceiptResumable) /\ NeverForgets
<1>1. ProductionInv => OneJobPerChunk /\ ReceiptTruthful /\ ReceiptResumable
  BY DEF ProductionInv, SubmissionInv
<1>2. ProductionInv /\ [ProductionNext]_allVars =>
          [disk # NoReceipt =>
            /\ disk' # NoReceipt
            /\ \A n \in 1..Len(disk.jobs) :
                  Submitted(disk.jobs[n]) =>
                      n <= Len(disk'.jobs) /\ disk'.jobs[n] = disk.jobs[n]]_vars
  BY ProductionGoesOn DEF Kept, Keeps
<1> QED BY <1>1, <1>2, Production_Invariant, PTL DEF ProductionSpec, NeverForgets

\* When a chunk is produced, every chunk before it in its lane is complete.
THEOREM Lanes_Complete == ProductionSpec => []LaneComplete
BY LaneIsComplete, Production_Invariant, PTL

\* A file that has its final name is complete and stays as it is.
THEOREM Output_Kept == ProductionSpec => OutputKept
<1>1. ProductionInv /\ [ProductionNext]_allVars =>
          [\A c \in Chunks : \A d \in DatesOf(c) : HandedOnce(c)' =>
              /\ target[d] # NoFile => target'[d] = target[d]
              /\ target'[d].state # "open"]_allVars
  BY OutputStays
<1> QED BY <1>1, Production_Invariant, PTL DEF ProductionSpec, OutputKept
=============================================================================
