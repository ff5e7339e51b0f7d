---------------------------- MODULE ResearchRound ----------------------------
(* The three controllers of a research round in campaigns/: RoundPipeline,   *)
(* ResearchHarness and AgentResearchHarness.  Each takes the stages of the   *)
(* round in order, has a runner do the work, and leaves a receipt when a     *)
(* stage is complete; it may die at any point, and is started again to go on *)
(* from the receipts.  The agent's controller also keeps what the runner     *)
(* returned, in a file that the next stage is given.                         *)
(*                                                                           *)
(* No controller takes a lock.  What two of them do to each other when they  *)
(* run at the same time is modelled too, and history records that it was so. *)
(* Every result of a runner is a new number: an agent never answers twice    *)
(* the same.                                                                 *)
EXTENDS Naturals

CONSTANTS
    Controllers,                    \* processes
    StageCount,                     \* the stages are 1..StageCount
    SelectionStage, HoldoutStage,   \* two of them: selection, L6-display
    MaxResults                      \* bound: stages carried out

ASSUME RoundAssumption ==
    /\ StageCount \in Nat \ {0} /\ MaxResults \in Nat
    /\ SelectionStage \in 1..StageCount /\ HoldoutStage \in SelectionStage + 1..StageCount

VARIABLES
    kind,        \* the controller this round uses: "pipeline", "research" or "agent"
    receipt,     \* the receipt of each stage, or NoReceiptYet: [out, from]
    artifact,    \* the file with the result of each stage (0: none)
    ctl,         \* of each process: [at, stage, done, out, from]
    results,     \* counter: results returned by runners
    authorized,  \* the frozen authorization to show the holdout is there
    overlap      \* history: two controllers have run at the same time

roundVars == <<kind, receipt, artifact, ctl, results, authorized, overlap>>

Stages == 1..StageCount
NoReceiptYet == [out |-> 0, from |-> 0]
AtRest == [at |-> "idle", stage |-> 0, done |-> {}, out |-> 0, from |-> 0]
Started(done) == [at |-> "choosing", stage |-> 0, done |-> done, out |-> 0, from |-> 0]

InitRound ==
    /\ kind \in {"pipeline", "research", "agent"}
    /\ receipt = [s \in Stages |-> NoReceiptYet]
    /\ artifact = [s \in Stages |-> 0]
    /\ ctl = [c \in Controllers |-> AtRest]
    /\ results = 0 /\ authorized = FALSE /\ overlap = FALSE

\* Bug to detect: a stage counts as complete when its result is there.
WithResult == {s \in Stages : receipt[s] # NoReceiptYet \/ artifact[s] # 0}

\* The stages that have a complete receipt on disk.
Completed == {s \in Stages : receipt[s] # NoReceiptYet}

\* Bug to detect: what an earlier run completed is not looked up.
BeginAfresh(c) ==
    /\ ctl[c].at = "idle"
    /\ ctl' = [ctl EXCEPT ![c] = Started({})]
    /\ overlap' = (overlap \/ \E d \in Controllers \ {c} : ctl[d].at # "idle")
    /\ UNCHANGED <<kind, receipt, artifact, results, authorized>>

\* start() reads the receipts once; run() of the pipeline looks at each when
\* it comes to it.
Begin(c) ==
    /\ ctl[c].at = "idle"
    /\ ctl' = [ctl EXCEPT ![c] = Started(Completed)]
    /\ overlap' = (overlap \/ \E d \in Controllers \ {c} : ctl[d].at # "idle")
    /\ UNCHANGED <<kind, receipt, artifact, results, authorized>>

Done(c) == IF kind = "pipeline" THEN Completed ELSE ctl[c].done

\* Bug to detect: the authorization is asked for one stage late.
HoldoutOpen(s) == kind = "research" /\ s > HoldoutStage => authorized

\* _context: the holdout needs a frozen authorization.
MayShow(s) == kind = "research" /\ s = HoldoutStage => authorized

\* The controller turns to the first stage that is not complete and hands it
\* to the runner, with the result of the stage before.
RunStage(c) ==
    /\ ctl[c].at = "choosing"
    /\ \E s \in Stages \ Done(c) :
          /\ \A t \in 1..s - 1 : t \in Done(c)
          /\ MayShow(s)
          /\ ctl' = [ctl EXCEPT ![c].at = "running", ![c].stage = s,
                       ![c].from = IF kind = "agent" /\ s > 1 THEN artifact[s - 1] ELSE 0]
    /\ UNCHANGED <<kind, receipt, artifact, results, authorized, overlap>>

\* It returns: the round is complete, a gate raises, the runner raises or has
\* the pipeline wait; or the process dies.  What is in memory is lost.
Stop(c) ==
    /\ ctl[c].at # "idle"
    /\ ctl' = [ctl EXCEPT ![c] = AtRest]
    /\ UNCHANGED <<kind, receipt, artifact, results, authorized, overlap>>

RunnerReturns(c) ==
    /\ ctl[c].at = "running" /\ results < MaxResults
    /\ results' = results + 1
    /\ ctl' = [ctl EXCEPT ![c].out = results',
                 ![c].at = IF kind = "agent" THEN "result" ELSE "receipt"]
    /\ UNCHANGED <<kind, receipt, artifact, authorized, overlap>>

\* AgentResearchHarness only: the result, once validated, replaces its file.
SaveArtifact(c) ==
    /\ ctl[c].at = "result"
    /\ artifact' = [artifact EXCEPT ![ctl[c].stage] = ctl[c].out]
    /\ ctl' = [ctl EXCEPT ![c].at = "receipt"]
    /\ UNCHANGED <<kind, receipt, results, authorized, overlap>>

SaveReceipt(c) ==
    /\ ctl[c].at = "receipt"
    /\ LET s == ctl[c].stage
       IN  /\ receipt' = [receipt EXCEPT ![s] = [out |-> ctl[c].out, from |-> ctl[c].from]]
           /\ ctl' = [ctl EXCEPT ![c].at = "choosing", ![c].done = @ \cup {s}]
    /\ UNCHANGED <<kind, artifact, results, authorized, overlap>>

\* The file of the authorization appears, at whatever time.
Authorize ==
    /\ ~ authorized /\ authorized' = TRUE
    /\ UNCHANGED <<kind, receipt, artifact, ctl, results, overlap>>

RoundStep(c) ==
    \/ Begin(c) \/ RunStage(c) \/ RunnerReturns(c)
    \/ SaveArtifact(c) \/ SaveReceipt(c) \/ Stop(c)

NextRound ==
    \/ Authorize
    \/ \E c \in Controllers : RoundStep(c)

SpecRound == InitRound /\ [][NextRound]_roundVars

-----------------------------------------------------------------------------
\* A stage runs only when every stage before it has its receipt on disk, also
\* when controllers overlap, die and start again; so the holdout is shown only
\* after the selection was made, and by the harness that has the gate only
\* with the authorization.
StagesInOrder ==
    \A c \in Controllers :
        ctl[c].at \in {"running", "result", "receipt"} =>
            /\ \A s \in 1..ctl[c].stage - 1 : receipt[s] # NoReceiptYet
            /\ ctl[c].stage = HoldoutStage =>
                  /\ receipt[SelectionStage] # NoReceiptYet
                  /\ kind = "research" => authorized

\* As long as one controller runs at a time, the receipts of the agent's
\* controller are a chain of evidence: each names the result that is on disk
\* and was made from the result that the receipt before it names, wherever a
\* controller died, also between the file of a result and its receipt.
EvidenceChain ==
    kind = "agent" /\ ~ overlap =>
        \A s \in Stages : receipt[s] # NoReceiptYet =>
            /\ artifact[s] = receipt[s].out
            /\ s > 1 => receipt[s].from = receipt[s - 1].out

\* As long as one controller runs at a time, what a receipt says is final: no
\* start, however many there are, carries out a completed stage again.
ReceiptFinal ==
    [][~ overlap' => \A s \in Stages :
            receipt[s] # NoReceiptYet => receipt'[s] = receipt[s]]_roundVars
=============================================================================
