----------------------------- MODULE MemoryPool -----------------------------
(* velapex::fast_soa_memory_pool, single-threaded allocation (SAMU): the     *)
(* pool the engine's main thread takes a record's memory from; each thread   *)
(* the record is routed to gives up its share with Release.                  *)
(*                                                                           *)
(* A block is used once from front to back and taken again as a whole, when  *)
(* all of it was handed out and its in-use count is back to 0.  The counter, *)
(* the flag and the remaining uses of an element are separate atomics, so    *)
(* Release and ResetUseCount are three steps each.                           *)
EXTENDS Naturals, Sequences, FiniteSets

CONSTANTS
    Consumers,   \* threads records are routed to
    BlockSize,   \* block_size_
    Reserved,    \* blocks made by ReserveMemory
    MaxAllocs    \* bound of the exploration: allocations

ASSUME PoolAssumption ==
    /\ IsFiniteSet(Consumers) /\ Consumers # {}
    /\ BlockSize \in Nat \ {0} /\ Reserved \in Nat \ {0} /\ MaxAllocs \in Nat

Blocks   == 1 .. Reserved + MaxAllocs
Elements == Blocks \X (1 .. BlockSize)
NoElement == <<0, 0>>

VARIABLES
    list,       \* the linked list of blocks, head first
    current,    \* current_block_
    used,       \* per block: used_count
    inUseCount, \* per block: in_use_count
    inUse,      \* per element: in_use_
    remaining,  \* per element: remaining_uses_
    data,       \* per element: the record stored in it (0: none yet)
    apc,        \* where the allocating thread is
    element,    \* the element it is allocating
    allocs,     \* records stored so far
    held,       \* per consumer: the <<element, record>> it has yet to release
    cpc,        \* where each consumer is inside Release
    releasing   \* the element it is releasing

blockVars == <<list, current, used>>
useVars   == <<inUseCount, inUse, remaining>>
allocVars == <<blockVars, data, apc, element, allocs>>
vars == <<allocVars, useVars, held, cpc, releasing>>

BlockOf(e) == e[1]
HeadBlock == list[1]
TailBlock == list[Len(list)]
Place(b) == CHOOSE k \in 1 .. Len(list) : list[k] = b

Init ==
    /\ list = [k \in 1 .. Reserved |-> k] /\ current = 1
    /\ used = [b \in Blocks |-> 0]
    /\ inUseCount = [b \in Blocks |-> 0]
    /\ inUse = [e \in Elements |-> FALSE]
    /\ remaining = [e \in Elements |-> 0]
    /\ data = [e \in Elements |-> 0]
    /\ apc = "idle" /\ element = NoElement /\ allocs = 0
    /\ held = [c \in Consumers |-> {}]
    /\ cpc = [c \in Consumers |-> "idle"]
    /\ releasing = [c \in Consumers |-> NoElement]

-----------------------------------------------------------------------------
(* Allocate, called by the main thread.                                      *)

BlockFull(b) == used[b] = BlockSize

\* TryAllocateFromBlock takes the next element of the current block;
\* ResetUseCount starts by raising its flag.  (The code passes over an element
\* whose flag is still up; CountersAgree shows there is none.)
ClaimElement ==
    /\ apc = "idle" /\ allocs < MaxAllocs
    /\ ~ BlockFull(current)
    /\ LET e == <<current, used[current] + 1>>
       IN element' = e /\ inUse' = [inUse EXCEPT ![e] = TRUE]
    /\ used' = [used EXCEPT ![current] = @ + 1]
    /\ apc' = "arm"
    /\ UNCHANGED <<list, current, inUseCount, remaining, data, allocs, held, cpc, releasing>>

\* ResetUseCount stores the uses the record will have, one per thread.  The
\* threads are chosen here: the main thread knows them before it allocates.
ArmElement(uses) ==
    /\ apc = "arm"
    /\ remaining' = [remaining EXCEPT ![element] = uses]
    /\ apc' = "count"
    /\ UNCHANGED <<blockVars, inUseCount, inUse, data, element, allocs, held, cpc, releasing>>

CountElement ==
    /\ apc = "count"
    /\ inUseCount' = [inUseCount EXCEPT ![BlockOf(element)] = @ + 1]
    /\ apc' = "store"
    /\ UNCHANGED <<blockVars, inUse, remaining, data, element, allocs, held, cpc, releasing>>

\* The caller copies the record in and enqueues it for as many threads.
StoreRecord(threads) ==
    /\ apc = "store" /\ Cardinality(threads) = remaining[element]
    /\ data' = [data EXCEPT ![element] = allocs + 1]
    /\ allocs' = allocs + 1
    /\ held' = [c \in Consumers |-> IF c \in threads THEN held[c] \union {<<element, allocs + 1>>}
                                                     ELSE held[c]]
    /\ apc' = "idle" /\ element' = NoElement
    /\ UNCHANGED <<blockVars, useVars, cpc, releasing>>

\* The current block is full and has a successor, which is unused: a block gets
\* behind the current one only when it is reserved or emptied.
MoveToNext ==
    /\ apc = "idle" /\ allocs < MaxAllocs
    /\ BlockFull(current) /\ current # TailBlock
    /\ current' = list[Place(current) + 1]
    /\ UNCHANGED <<list, used, data, apc, element, allocs, useVars, held, cpc, releasing>>

\* Bug to detect: a block is taken again once all of it was handed out.
RecyclableWhenFull == BlockFull(HeadBlock)

\* Bug to detect: the comparison with the block size is off by one.
RecyclableOffByOne == used[HeadBlock] > BlockSize /\ inUseCount[HeadBlock] = 0

\* TryRecycleHeadBlock: handed out completely, released completely.
Recyclable == BlockFull(HeadBlock) /\ inUseCount[HeadBlock] = 0

\* MoveHeadToTail: the head becomes the tail, empty again.
Rotate ==
    /\ list' = Tail(list) \o <<HeadBlock>>
    /\ used' = [used EXCEPT ![HeadBlock] = 0]
    /\ inUseCount' = [inUseCount EXCEPT ![HeadBlock] = 0]

\* Allocate looks once, and AllocateNewBlock looks again.
RecycleHead ==
    /\ apc \in {"idle", "again"} /\ allocs < MaxAllocs
    /\ BlockFull(current) /\ current = TailBlock
    /\ Recyclable
    /\ Rotate
    /\ current' = HeadBlock
    /\ apc' = "idle"
    /\ UNCHANGED <<data, element, allocs, inUse, remaining, held, cpc, releasing>>

LookAgain ==
    /\ apc = "idle" /\ allocs < MaxAllocs
    /\ BlockFull(current) /\ current = TailBlock
    /\ ~ Recyclable
    /\ apc' = "again"
    /\ UNCHANGED <<blockVars, data, element, allocs, useVars, held, cpc, releasing>>

CreateBlock ==
    /\ apc = "again" /\ ~ Recyclable
    /\ list' = Append(list, Len(list) + 1)
    /\ current' = Len(list) + 1
    /\ apc' = "idle"
    /\ UNCHANGED <<used, data, element, allocs, useVars, held, cpc, releasing>>

-----------------------------------------------------------------------------
(* Release(1), called by a thread for a record it has consumed.              *)

DropUse(c) ==
    /\ cpc[c] = "idle"
    /\ \E ref \in held[c] :
          LET e == ref[1]
          IN /\ held' = [held EXCEPT ![c] = @ \ {ref}]
             /\ remaining' = [remaining EXCEPT ![e] = @ - 1]
             /\ IF remaining[e] = 1
                  THEN /\ cpc' = [cpc EXCEPT ![c] = "clear"]
                       /\ releasing' = [releasing EXCEPT ![c] = e]
                  ELSE UNCHANGED <<cpc, releasing>>
    /\ UNCHANGED <<allocVars, inUseCount, inUse>>

ClearFlag(c) ==
    /\ cpc[c] = "clear"
    /\ inUse' = [inUse EXCEPT ![releasing[c]] = FALSE]
    /\ cpc' = [cpc EXCEPT ![c] = IF inUse[releasing[c]] THEN "uncount" ELSE "idle"]
    /\ UNCHANGED <<allocVars, inUseCount, remaining, held, releasing>>

\* Bug to detect: the count of the block is not brought down.
UncountNothing(c) ==
    /\ cpc[c] = "uncount"
    /\ cpc' = [cpc EXCEPT ![c] = "idle"]
    /\ releasing' = [releasing EXCEPT ![c] = NoElement]
    /\ UNCHANGED <<allocVars, inUseCount, inUse, remaining, held>>

Uncount(c) ==
    /\ cpc[c] = "uncount"
    /\ inUseCount' = [inUseCount EXCEPT ![BlockOf(releasing[c])] = @ - 1]
    /\ cpc' = [cpc EXCEPT ![c] = "idle"]
    /\ releasing' = [releasing EXCEPT ![c] = NoElement]
    /\ UNCHANGED <<allocVars, inUse, remaining, held>>

Allocator ==
    \/ ClaimElement \/ CountElement
    \/ \E n \in 1 .. Cardinality(Consumers) : ArmElement(n)
    \/ \E threads \in (SUBSET Consumers) \ {{}} : StoreRecord(threads)
    \/ MoveToNext \/ RecycleHead \/ LookAgain \/ CreateBlock
Consumer(c) == DropUse(c) \/ ClearFlag(c) \/ Uncount(c)

Next == Allocator \/ \E c \in Consumers : Consumer(c)

Spec == Init /\ [][Next]_vars

-----------------------------------------------------------------------------
(* An element is not handed out again while some thread has yet to read the  *)
(* record in it: whatever the threads' pace, each reads the record it was    *)
(* sent (Allocate against Release).                                          *)
StableWhileHeld == \A c \in Consumers : \A ref \in held[c] : data[ref[1]] = ref[2]

(* The three counters never disagree by more than what is under way: the     *)
(* uses of an element are its holders, and a block's in-use count is the     *)
(* number of its flagged elements, less the one being allocated, plus those  *)
(* whose flag was cleared and which are yet to be counted down.  No element  *)
(* beyond used_count has its flag up, so the check of in_use_ that            *)
(* TryAllocateFromBlock makes of the element it takes never fails.            *)
Holders(e) == {c \in Consumers : \E ref \in held[c] : ref[1] = e}
Flagged(b) == {e \in Elements : BlockOf(e) = b /\ inUse[e]}
ToCount(b) == IF apc \in {"arm", "count"} /\ BlockOf(element) = b THEN 1 ELSE 0
ToUncount(b) == {c \in Consumers : cpc[c] = "uncount" /\ BlockOf(releasing[c]) = b}
CountersAgree ==
    /\ \A e \in Elements : e # element => remaining[e] = Cardinality(Holders(e))
    /\ \A e \in Elements : e[2] > used[BlockOf(e)] => ~ inUse[e]
    /\ \A b \in Blocks : inUseCount[b] + ToCount(b) = Cardinality(Flagged(b)) + Cardinality(ToUncount(b))

(* Everything comes back: when the records have ended and the threads have   *)
(* caught up, no block counts an element in use, whatever the order of their *)
(* releases was.                                                             *)
AllReturned == <>[](\A b \in Blocks : inUseCount[b] = 0)
=============================================================================
