------------------------------ MODULE Campaign ------------------------------
(* Three programs of campaigns/ that go on after a crash: the submission of  *)
(* the preflight chain, whose receipt a lock protects; the controllers of a  *)
(* research round, which have a receipt per stage and no lock; and the       *)
(* display of the holdout, which goes by the files that are there.  They     *)
(* share no state, so each exploration takes one of them.                    *)
EXTENDS PreflightSubmission, ResearchRound, HoldoutDisplay

VARIABLE program

campaignVars == <<vars, roundVars, displayVars, program>>

InitCampaign ==
    /\ program \in {"preflight", "round", "display"}
    /\ InitSubmission /\ InitRound /\ InitDisplay
    /\ program # "round" => kind = "pipeline"

NextCampaign ==
    /\ UNCHANGED program
    /\ \/ program = "preflight" /\ Next /\ UNCHANGED <<roundVars, displayVars>>
       \/ program = "round" /\ NextRound /\ UNCHANGED <<vars, displayVars>>
       \/ program = "display" /\ NextDisplay /\ UNCHANGED <<vars, roundVars>>

SpecCampaign == InitCampaign /\ [][NextCampaign]_campaignVars
=============================================================================
