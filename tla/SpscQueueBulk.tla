--------------------------- MODULE SpscQueueBulk ---------------------------
(* The bulk operations of SPSCQueue: PushBulk publishes several items with   *)
(* one store of the tail, PopBulk takes several with one store of the head.  *)
(* They bound themselves by FreeSpace(), which counts every slot of the ring *)
(* as usable, where Push keeps one free.                                     *)
EXTENDS SpscQueue

CONSTANT MaxBulk     \* bound of the exploration: largest bulk requested

VARIABLES
    room,     \* count computed by PushBulk, items it goes on to write
    written,  \* of those, the ones already written
    avail,    \* count computed by PopBulk, items it goes on to copy
    copied    \* of those, the ones already copied

bulkVars == <<room, written, avail, copied>>
allVars == <<vars, bulkVars>>

Least(a, b) == IF a < b THEN a ELSE b

InitBulk == Init /\ room = 0 /\ written = 0 /\ avail = 0 /\ copied = 0

FreeSpace == Capacity - Occupancy

PushBulkCheck(n) ==
    /\ ppc = "idle" /\ pushed + n <= MaxPush
    /\ FreeSpace > 0
    /\ room' = Least(FreeSpace, n) /\ written' = 0
    /\ ppc' = "bulk"
    /\ UNCHANGED <<head, tail, buffer, cpc, out, last, pushed, popped, avail, copied>>

PushBulkWrite ==
    /\ ppc = "bulk" /\ written < room
    /\ buffer' = [buffer EXCEPT ![Mask((tail + written) % Width)] = pushed + written + 1]
    /\ written' = written + 1
    /\ UNCHANGED <<head, tail, ppc, cpc, out, last, pushed, popped, room, avail, copied>>

PushBulkPublish ==
    /\ ppc = "bulk" /\ written = room
    /\ tail' = (tail + room) % Width
    /\ pushed' = pushed + room
    /\ ppc' = "idle"
    /\ UNCHANGED <<head, buffer, cpc, out, last, popped, bulkVars>>

PopBulkCheck(n) ==
    /\ cpc = "idle"
    /\ Occupancy > 0
    /\ avail' = Least(Occupancy, n) /\ copied' = 0
    /\ cpc' = "bulk"
    /\ UNCHANGED <<head, tail, buffer, ppc, out, last, pushed, popped, room, written>>

PopBulkCopy ==
    /\ cpc = "bulk" /\ copied < avail
    /\ out' = buffer[Mask((head + copied) % Width)]
    /\ copied' = copied + 1
    /\ UNCHANGED <<head, tail, buffer, ppc, cpc, last, pushed, popped, room, written, avail>>

PopBulkPublish ==
    /\ cpc = "bulk" /\ copied = avail
    /\ head' = (head + avail) % Width
    /\ last' = out
    /\ popped' = popped + avail
    /\ cpc' = "idle"
    /\ UNCHANGED <<tail, buffer, ppc, out, pushed, bulkVars>>

PushBulk == (\E n \in 1 .. MaxBulk : PushBulkCheck(n)) \/ PushBulkWrite \/ PushBulkPublish
PopBulk  == (\E n \in 1 .. MaxBulk : PopBulkCheck(n)) \/ PopBulkCopy \/ PopBulkPublish

\* Bulk pushes only; the consumer mixes single and bulk pops.
NextBulk == PushBulk \/ PopBulk \/ (Consumer /\ UNCHANGED bulkVars)

\* The producer mixes single and bulk pushes, which nothing in the class forbids.
NextMixed == NextBulk \/ (Producer /\ UNCHANGED bulkVars)
SpecMixed == InitBulk /\ [][NextMixed]_allVars

-----------------------------------------------------------------------------
(* Push refuses an item when the ring is full (spsc_queue.h:152-155: "return *)
(* false" on the condition commented as queue full).                         *)
PushRefusedWhenFull ==
    [][(ppc = "idle" /\ ppc' = "write") => Occupancy < Capacity]_allVars
=============================================================================
