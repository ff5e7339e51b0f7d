----------------------------- MODULE SpscQueue -----------------------------
(* velapex::spsc_queue::SPSCQueue (comm/velapex/spsc_queue.h): the lock-free *)
(* ring through which a calculation thread hands the index of a finished     *)
(* send batch to the result scan thread.                                     *)
(*                                                                           *)
(* head_ and tail_ run freely (size_t, modulo Width) and are masked only to  *)
(* index the buffer.  Each atomic access is a step of its own, so a push and *)
(* a pop interleave at every point where the two threads can see each other. *)
(* The k-th pushed item is represented by the number k: the queue never      *)
(* looks at an item, so numbering them loses nothing and makes order visible.*)
EXTENDS Naturals

CONSTANTS Capacity,  \* slots of the ring, a power of two in the code
          Width,     \* number of values of size_t
          MaxPush    \* bound of the exploration: pushes performed

ASSUME SizeAssumption ==
    /\ Capacity \in Nat /\ Capacity >= 2
    /\ Width \in Nat
    /\ \E k \in 2 .. Width : Width = k * Capacity
    /\ MaxPush \in Nat

VARIABLES
    head, tail,  \* head_, tail_
    buffer,      \* buffer_; 0 stands for what a slot holds before it is written
    ppc,         \* where the producer is inside Push
    cpc,         \* where the consumer is inside Pop
    out,         \* the consumer's destination of the item being popped
    last,        \* the item the latest completed Pop returned (0: none yet)
    pushed,      \* completed pushes
    popped       \* completed pops

vars == <<head, tail, buffer, ppc, cpc, out, last, pushed, popped>>

Slots == 0 .. Capacity - 1

Mask(i) == i % Capacity

Inc(i) == (i + 1) % Width

-----------------------------------------------------------------------------
Init ==
    /\ head = 0 /\ tail = 0
    /\ buffer = [s \in Slots |-> 0]
    /\ ppc = "idle" /\ cpc = "idle"
    /\ out = 0 /\ last = 0
    /\ pushed = 0 /\ popped = 0

\* Bug to detect: comparing the free-running indices lets the tail lap.
IsFullUnmasked == Inc(tail) = head

\* Bug to detect: the test before the increment takes an empty ring for full.
IsFullBeforeInc == Mask(tail) = Mask(head)

\* The full test of Push: one slot is always left free.
IsFull == Mask(Inc(tail)) = Mask(head)

\* Push loads both indices and goes on only if a slot is free; a full queue
\* makes it return FALSE, which changes nothing the consumer can see.
PushCheck ==
    /\ ppc = "idle" /\ pushed < MaxPush
    /\ ~ IsFull
    /\ ppc' = "write"
    /\ UNCHANGED <<head, tail, buffer, cpc, out, last, pushed, popped>>

PushWrite ==
    /\ ppc = "write"
    /\ buffer' = [buffer EXCEPT ![Mask(tail)] = pushed + 1]
    /\ ppc' = "publish"
    /\ UNCHANGED <<head, tail, cpc, out, last, pushed, popped>>

PushPublish ==
    /\ ppc = "publish"
    /\ tail' = Inc(tail)
    /\ pushed' = pushed + 1
    /\ ppc' = "idle"
    /\ UNCHANGED <<head, buffer, cpc, out, last, popped>>

IsEmpty == head = tail

PopCheck ==
    /\ cpc = "idle"
    /\ ~ IsEmpty
    /\ cpc' = "read"
    /\ UNCHANGED <<head, tail, buffer, ppc, out, last, pushed, popped>>

PopRead ==
    /\ cpc = "read"
    /\ out' = buffer[Mask(head)]
    /\ cpc' = "publish"
    /\ UNCHANGED <<head, tail, buffer, ppc, last, pushed, popped>>

\* Bug to detect: the head moves on without room for the wrap of size_t.
PopPublishNoWrap ==
    /\ cpc = "publish"
    /\ head' = IF head + 1 < Width THEN head + 1 ELSE head
    /\ last' = out
    /\ popped' = popped + 1
    /\ cpc' = "idle"
    /\ UNCHANGED <<tail, buffer, ppc, out, pushed>>

PopPublish ==
    /\ cpc = "publish"
    /\ head' = Inc(head)
    /\ last' = out
    /\ popped' = popped + 1
    /\ cpc' = "idle"
    /\ UNCHANGED <<tail, buffer, ppc, out, pushed>>

Producer == PushCheck \/ PushWrite \/ PushPublish
Consumer == PopCheck \/ PopRead \/ PopPublish

Next == Producer \/ Consumer

Spec == Init /\ [][Next]_vars

\* Both threads spin: the calculation thread repeats Push until it returns
\* TRUE, the scan thread polls the queue for as long as it runs.
FairSpec == Spec /\ WF_vars(Producer) /\ WF_vars(Consumer)

-----------------------------------------------------------------------------
\* Items between the two indices, counted modulo Width as Size() does.
Occupancy == IF tail >= head THEN tail - head ELSE tail + Width - head

\* The slot k places after the one the head points at (k < Capacity).
Position(k) == IF Mask(head) + k < Capacity THEN Mask(head) + k
                                            ELSE Mask(head) + k - Capacity

\* The slots an unread item lives in.
Unread == {Position(k) : k \in 0 .. Occupancy - 1}

(* Types, and the bound the full test keeps: a slot always stays free.       *)
TypeOK ==
    /\ head \in 0 .. Width - 1 /\ tail \in 0 .. Width - 1
    /\ buffer \in [Slots -> Nat]
    /\ ppc \in {"idle", "write", "publish"}
    /\ cpc \in {"idle", "read", "publish"}
    /\ out \in Nat /\ last \in Nat
    /\ pushed \in Nat /\ popped \in Nat

(* Between its full test and its publication the producer owns a slot that   *)
(* holds no unread item, also not the one the consumer is copying out, even  *)
(* though the consumer moved on since the test and both indices may have     *)
(* wrapped (Push, spsc_queue.h:148-164).                                     *)
NoOverwrite == ppc # "idle" => Mask(tail) \notin Unread

(* Pop hands out exactly the items of Push, in the order they were pushed,   *)
(* none twice and none skipped (spsc_queue.h:204-218).                       *)
FifoOrder ==
    /\ cpc = "publish" => out = popped + 1
    /\ last = popped

(* Why the two invariants above survive every step: the distance between the *)
(* indices is the number of items in flight, it never uses the last free     *)
(* slot, and each occupied slot holds the item its distance from the head    *)
(* announces.                                                                *)
InFlight ==
    /\ Occupancy = pushed - popped
    /\ Occupancy < Capacity
    /\ ppc # "idle" => Occupancy < Capacity - 1
    /\ Mask(tail) = Position(Occupancy)
Contents ==
    /\ \A k \in 0 .. Capacity - 1 : k < Occupancy => buffer[Position(k)] = popped + k + 1
    /\ ppc = "publish" => buffer[Mask(tail)] = pushed + 1
ConsumerHolds == cpc # "idle" => Occupancy > 0

(* The ring between any two atomic steps of Push and Pop: the indices, the   *)
(* items under way and the contents of the slots agree, and Pop's result is  *)
(* the next item in order (spsc_queue.h:148-218).                            *)
RingInv == TypeOK /\ InFlight /\ Contents /\ ConsumerHolds /\ FifoOrder

\* The list of unread items, read off the ring's own slots.
Waiting == [k \in 1 .. Occupancy |-> buffer[Position(k - 1)]]

(* The ring implements a first-in first-out list of Capacity - 1 items.      *)
Fifo == INSTANCE BoundedFifo WITH
            Items <- 0 .. MaxPush,
            Room  <- Capacity - 1,
            queue <- Waiting,
            last  <- last
ImplementsFifo == Fifo!Spec

(* Every item the producer wants to hand over arrives: a full queue is       *)
(* drained, so the producer's retry loop ends.                               *)
AllArrive == <>(popped = MaxPush)
=============================================================================
