---------------------------- MODULE BroadcastLog ----------------------------
(* What the broadcast buffer promises: one growing list of items, and every  *)
(* consumer reads each of them exactly once, in the order of the list.       *)
EXTENDS Naturals

CONSTANT Consumers

VARIABLES length,    \* items published so far; the k-th item is the number k
          position,  \* how many of them each consumer has read
          value      \* the item each consumer read last (0: none yet)

vars == <<length, position, value>>

Init == /\ length = 0
        /\ position = [c \in Consumers |-> 0]
        /\ value = [c \in Consumers |-> 0]

Publish == length' = length + 1 /\ UNCHANGED <<position, value>>

Read(c) == /\ position[c] < length
           /\ position' = [position EXCEPT ![c] = @ + 1]
           /\ value' = [value EXCEPT ![c] = position[c] + 1]
           /\ UNCHANGED length

Next == Publish \/ \E c \in Consumers : Read(c)

Spec == Init /\ [][Next]_vars
=============================================================================
