---------------------------- MODULE EngineInput ----------------------------
(* What the engine is given before it runs, and what its threads then rely   *)
(* on: which thread has which code (WorkAssignment), at which times it       *)
(* computes and sends (TimeGrid), and in which order the records reach it    *)
(* (LoaderMerge).  None of the three looks at the others' state, so each     *)
(* exploration takes one of them and leaves the others as they start.        *)
EXTENDS WorkAssignment, TimeGrid, LoaderMerge

VARIABLE part       \* the part that runs

inputVars == <<vars, gridVars, mergeVars, part>>

InitInput ==
    /\ part \in {"assignment", "grid", "merge"}
    /\ IF part = "assignment" THEN Init
       ELSE /\ codes = 0 /\ allocable = 0 /\ csFactors = 0 /\ tsFactors = FALSE
            /\ next = 0 /\ groups = <<>> /\ offsets = <<>>
    /\ IF part = "grid" THEN InitGrid
       ELSE /\ info = <<>> /\ given = <<>> /\ computeAt = {} /\ gridStage = "none"
            /\ stamp = 0 /\ times = {} /\ allPoints = {}
    /\ IF part = "merge" THEN InitMerge
       ELSE channels = <<>> /\ q = <<>> /\ l = <<>> /\ delivered = <<>>

NextInput ==
    /\ UNCHANGED part
    /\ \/ part = "assignment" /\ Next /\ UNCHANGED <<gridVars, mergeVars>>
       \/ part = "grid" /\ NextGrid /\ UNCHANGED <<vars, mergeVars>>
       \/ part = "merge" /\ NextMerge /\ UNCHANGED <<vars, gridVars>>

SpecInput == InitInput /\ [][NextInput]_inputVars
=============================================================================
