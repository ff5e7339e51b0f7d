---------------------------- MODULE BatchStream ----------------------------
(* What the factor engine promises about its send batches: a batch that has  *)
(* been triggered is recorded once, the batches are recorded in the order    *)
(* they were triggered, and once the engine is closed none is missing.       *)
EXTENDS Naturals, Sequences

CONSTANT Batches

VARIABLES triggered,  \* batches triggered so far, in order
          recorded,   \* batches recorded so far, in order
          closed      \* no more batches will be triggered or recorded

vars == <<triggered, recorded, closed>>

Init == triggered = <<>> /\ recorded = <<>> /\ closed = FALSE

Trigger(b) ==
    /\ ~ closed
    /\ triggered' = Append(triggered, b)
    /\ UNCHANGED <<recorded, closed>>

Record ==
    /\ ~ closed /\ Len(recorded) < Len(triggered)
    /\ recorded' = Append(recorded, triggered[Len(recorded) + 1])
    /\ UNCHANGED <<triggered, closed>>

Close ==
    /\ ~ closed /\ recorded = triggered
    /\ closed' = TRUE
    /\ UNCHANGED <<triggered, recorded>>

Next == Record \/ Close \/ \E b \in Batches : Trigger(b)

Spec == Init /\ [][Next]_vars
=============================================================================
