---------------------------- MODULE BoundedFifo ----------------------------
(* What a result queue promises its two threads: a first-in first-out list   *)
(* of at most Room items, filled by one thread and drained by the other.     *)
EXTENDS Naturals, Sequences

CONSTANTS Items,   \* what may be queued
          Room     \* how many items may wait

VARIABLES queue,   \* the items pushed and not yet popped, oldest first
          last     \* the item the latest pop returned

vars == <<queue, last>>

Init == queue = <<>> /\ last \in Items

Put(x) == /\ Len(queue) < Room
          /\ queue' = Append(queue, x)
          /\ UNCHANGED last

Take == /\ queue # <<>>
        /\ last' = Head(queue)
        /\ queue' = Tail(queue)

Next == Take \/ \E x \in Items : Put(x)

Spec == Init /\ [][Next]_vars
=============================================================================
