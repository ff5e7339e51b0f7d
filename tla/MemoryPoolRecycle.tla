-------------------------- MODULE MemoryPoolRecycle --------------------------
(* The pool with RecycleBlocks, the public call that takes back finished     *)
(* head blocks at once.  It walks the list from the head: an untouched block *)
(* is passed over, a finished one makes the head block move to the tail and  *)
(* the walk start over, any other block ends it.                             *)
EXTENDS MemoryPool

VARIABLES
    recycles,    \* does this program call RecycleBlocks at all?  (The engine does not.)
    walk         \* the block RecycleBlocks looks at (0: it is not running)

recycleVars == <<vars, recycles, walk>>

InitRecycle == Init /\ recycles \in BOOLEAN /\ walk = 0

StartRecycling ==
    /\ recycles /\ walk = 0 /\ apc = "idle" /\ allocs < MaxAllocs
    /\ walk' = HeadBlock
    /\ UNCHANGED vars

PassOverUnused ==
    /\ walk # 0 /\ used[walk] = 0
    /\ walk' = IF walk = TailBlock THEN 0 ELSE list[Place(walk) + 1]
    /\ UNCHANGED vars

Finished(b) == BlockFull(b) /\ inUseCount[b] = 0

MoveFinished ==
    /\ walk # 0 /\ Finished(walk)
    /\ Rotate
    /\ walk' = list'[1]
    /\ UNCHANGED <<current, data, apc, element, allocs, inUse, remaining, held, cpc, releasing>>

EndWalk ==
    /\ walk # 0 /\ used[walk] # 0 /\ ~ Finished(walk)
    /\ walk' = 0
    /\ UNCHANGED vars

RecycleBlocks == StartRecycling \/ PassOverUnused \/ MoveFinished \/ EndWalk

\* The allocating thread; the other threads release meanwhile.
MainThread == (RecycleBlocks \/ (walk = 0 /\ Allocator /\ UNCHANGED walk)) /\ UNCHANGED recycles
OtherThread(c) == Consumer(c) /\ UNCHANGED <<recycles, walk>>

NextRecycle == MainThread \/ \E c \in Consumers : OtherThread(c)

SpecRecycle == InitRecycle /\ [][NextRecycle]_recycleVars

\* The main thread allocates as long as records come, and each thread consumes,
\* and releases, what it was handed.
FairSpecRecycle ==
    /\ SpecRecycle
    /\ WF_recycleVars(MainThread) /\ \A c \in Consumers : WF_recycleVars(OtherThread(c))

-----------------------------------------------------------------------------
(* A program that leaves recycling to Allocate, as the comment at line 1051  *)
(* advises, gets a new block only when every element of every block has been *)
(* handed out and a thread still holds, or is just releasing, one of the     *)
(* head block.                                                               *)
CreatesOnlyWhenFull ==
    [][Len(list') > Len(list) /\ ~ recycles =>
          /\ \A k \in 1 .. Len(list) : BlockFull(list[k])
          /\ \E c \in Consumers : \/ BlockOf(releasing[c]) = HeadBlock
                                  \/ \E ref \in held[c] : BlockOf(ref[1]) = HeadBlock]_vars
=============================================================================
