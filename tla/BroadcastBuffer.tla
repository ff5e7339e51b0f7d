-------------------------- MODULE BroadcastBuffer --------------------------
(* velapex::SPMCBroadcastBuffer (comm/velapex/spmc_broadcast_buffer_         *)
(* recyclable.h): the list of blocks through which the engine's main thread  *)
(* shows every record and time point to every cross-sectional thread.        *)
(*                                                                           *)
(* The producer fills blocks in list order and, when it runs off the tail,   *)
(* moves the head block to the tail if all consumers counted themselves out  *)
(* of it, else links a new one.  Blocks carry no lock: a consumer walks the  *)
(* list with its own token.  Every access to memory that two threads share   *)
(* is a step of its own.  The k-th item is represented by the number k.      *)
EXTENDS Naturals, FiniteSets

CONSTANTS
    Consumers,         \* threads that call RegisterConsumer
    BlockSize,         \* size_per_block_
    InitialBlocks,     \* blocks made by the constructor (PreallocateBlocks)
    MaxItems           \* bound of the exploration: items pushed

ASSUME BufferAssumption ==
    /\ Consumers # {} /\ IsFiniteSet(Consumers)
    /\ BlockSize \in Nat \ {0} /\ InitialBlocks \in Nat \ {0}
    /\ MaxItems \in Nat

NoBlock == 0                                    \* nullptr
Blocks  == 1 .. InitialBlocks + MaxItems        \* a block for every push, at most
Places  == 0 .. BlockSize - 1

VARIABLES
    next, data, count,          \* per block: next, data_, last_slot_consume_count_
    blockCount,                 \* block_count_; blocks are numbered as created
    head, tail, write,          \* head_block_, tail_block_, write_block_
    writePos, writeNum,         \* write_pos_, write_num_
    cachedActive,               \* cached_active_consumer_num_
    ppc,                        \* where the producer is
    registered,                 \* consumers with a token (active_consumer_num_)
    readBlock, readPos,         \* per token: read_block, read_pos
    readNum, snapshot,          \*            read_num, write_num_snapshot
    got,                        \* the item TryRead copied out last (0: none yet)
    leaving,                    \* the block AdvanceToken is counting out of
    cpc                         \* where each consumer is inside TryRead

chain  == <<next, data, count, blockCount, head, tail, write, writePos, writeNum, cachedActive>>
tokens == <<registered, readBlock, readPos, readNum, snapshot, got, leaving>>
vars   == <<chain, ppc, tokens, cpc>>

Init ==
    /\ blockCount = InitialBlocks
    /\ next = [b \in Blocks |-> IF b < InitialBlocks THEN b + 1 ELSE NoBlock]
    /\ data = [b \in Blocks |-> [p \in Places |-> 0]]
    /\ count = [b \in Blocks |-> 0]
    /\ head = 1 /\ tail = InitialBlocks /\ write = 1
    /\ writePos = 0 /\ writeNum = 0 /\ cachedActive = 0
    /\ ppc = "fill"
    /\ registered = {}
    /\ readBlock = [c \in Consumers |-> NoBlock]
    /\ readPos = [c \in Consumers |-> 0]
    /\ readNum = [c \in Consumers |-> 0]
    /\ snapshot = [c \in Consumers |-> 0]
    /\ got = [c \in Consumers |-> 0]
    /\ leaving = [c \in Consumers |-> NoBlock]
    /\ cpc = [c \in Consumers |-> "idle"]

-----------------------------------------------------------------------------
\* RegisterConsumer: the token starts at the head block.
RegisterConsumer(c) ==
    /\ c \notin registered
    /\ registered' = registered \union {c}
    /\ readBlock' = [readBlock EXCEPT ![c] = head]
    /\ UNCHANGED <<chain, ppc, readPos, readNum, snapshot, got, leaving, cpc>>

\* GetWriteSlot and the caller's assignment to it.
FillSlot ==
    /\ ppc = "fill" /\ writeNum < MaxItems
    /\ data' = [data EXCEPT ![write][writePos] = writeNum + 1]
    /\ ppc' = "advance"
    /\ UNCHANGED <<next, count, blockCount, head, tail, write, writePos, writeNum,
                   cachedActive, tokens, cpc>>

\* CommitWrite inside a block.
AdvanceInBlock ==
    /\ ppc = "advance" /\ writePos + 1 # BlockSize
    /\ writePos' = writePos + 1
    /\ ppc' = "publish"
    /\ UNCHANGED <<next, data, count, blockCount, head, tail, write, writeNum,
                   cachedActive, tokens, cpc>>

\* CommitWrite at the end of a block that already has a successor.
AdvanceToNext ==
    /\ ppc = "advance" /\ writePos + 1 = BlockSize
    /\ next[write] # NoBlock
    /\ write' = next[write] /\ writePos' = 0
    /\ ppc' = "publish"
    /\ UNCHANGED <<next, data, count, blockCount, head, tail, writeNum,
                   cachedActive, tokens, cpc>>

\* AllocateNewBlock counts on every consumer having registered by then; the
\* engine registers its threads while it constructs them.
AllRegistered == registered = Consumers

Active == IF cachedActive = 0 THEN Cardinality(registered) ELSE cachedActive

\* Bug to detect: the first consumer out of the head block frees it.
RecyclableByFirst == Active > 0 /\ count[head] > 0

\* Bug to detect: one consumer too many is waited for.
RecyclableOneMore == Active > 0 /\ count[head] > Active

\* TryRecycleHeadBlock: has every consumer counted itself out of the head?
Recyclable == Active > 0 /\ count[head] >= Active

StartRecycling ==
    /\ ppc = "advance" /\ writePos + 1 = BlockSize
    /\ next[write] = NoBlock /\ AllRegistered
    /\ Recyclable
    /\ cachedActive' = Active
    /\ ppc' = "relink"
    /\ UNCHANGED <<next, data, count, blockCount, head, tail, write, writePos, writeNum,
                   tokens, cpc>>

\* MoveHeadToTail, and AllocateNewBlock's use of the recycled block.
MoveHeadToTail ==
    /\ ppc = "relink"
    /\ count' = [count EXCEPT ![head] = 0]
    /\ IF head = tail
         THEN UNCHANGED <<head, tail, next>>
         ELSE /\ head' = next[head] /\ tail' = head
              /\ next' = [next EXCEPT ![head] = NoBlock, ![tail] = head]
    /\ write' = tail' /\ writePos' = 0
    /\ ppc' = "publish"
    /\ UNCHANGED <<data, blockCount, writeNum, cachedActive, tokens, cpc>>

\* Bug to detect: the new block is not linked behind the tail.
CreateBlockUnlinked ==
    /\ ppc = "advance" /\ writePos + 1 = BlockSize
    /\ next[write] = NoBlock /\ AllRegistered
    /\ ~ Recyclable
    /\ cachedActive' = Active
    /\ blockCount' = blockCount + 1
    /\ tail' = blockCount + 1 /\ write' = blockCount + 1 /\ writePos' = 0
    /\ ppc' = "publish"
    /\ UNCHANGED <<next, data, count, head, writeNum, tokens, cpc>>

\* AllocateNewBlock when the head block is still in use.
CreateBlock ==
    /\ ppc = "advance" /\ writePos + 1 = BlockSize
    /\ next[write] = NoBlock /\ AllRegistered
    /\ ~ Recyclable
    /\ cachedActive' = Active
    /\ blockCount' = blockCount + 1
    /\ next' = [next EXCEPT ![tail] = blockCount + 1]
    /\ tail' = blockCount + 1 /\ write' = blockCount + 1 /\ writePos' = 0
    /\ ppc' = "publish"
    /\ UNCHANGED <<data, count, head, writeNum, tokens, cpc>>

\* The release store of write_num_ that makes the item visible.
Publish ==
    /\ ppc = "publish"
    /\ writeNum' = writeNum + 1
    /\ ppc' = "fill"
    /\ UNCHANGED <<next, data, count, blockCount, head, tail, write, writePos,
                   cachedActive, tokens, cpc>>

-----------------------------------------------------------------------------
\* Bug to detect: a snapshot once taken is never refreshed.
BeginReadStale(c) ==
    /\ c \in registered /\ cpc[c] = "idle"
    /\ IF snapshot[c] = 0
         THEN snapshot' = [snapshot EXCEPT ![c] = writeNum] /\ readNum[c] # writeNum
         ELSE readNum[c] < snapshot[c] /\ UNCHANGED snapshot
    /\ cpc' = [cpc EXCEPT ![c] = "copy"]
    /\ UNCHANGED <<chain, ppc, registered, readBlock, readPos, readNum, got, leaving>>

\* TryRead decides there is something to read, from its snapshot if it can.
BeginRead(c) ==
    /\ c \in registered /\ cpc[c] = "idle"
    /\ IF readNum[c] >= snapshot[c]
         THEN snapshot' = [snapshot EXCEPT ![c] = writeNum] /\ readNum[c] # writeNum
         ELSE UNCHANGED snapshot
    /\ cpc' = [cpc EXCEPT ![c] = "copy"]
    /\ UNCHANGED <<chain, ppc, registered, readBlock, readPos, readNum, got, leaving>>

CopyOut(c) ==
    /\ cpc[c] = "copy" /\ readBlock[c] # NoBlock
    /\ got' = [got EXCEPT ![c] = data[readBlock[c]][readPos[c]]]
    /\ cpc' = [cpc EXCEPT ![c] = "advance"]
    /\ UNCHANGED <<chain, ppc, registered, readBlock, readPos, readNum, snapshot, leaving>>

AdvanceToken(c) ==
    /\ cpc[c] = "advance"
    /\ readNum' = [readNum EXCEPT ![c] = @ + 1]
    /\ IF readPos[c] + 1 # BlockSize
         THEN /\ readPos' = [readPos EXCEPT ![c] = @ + 1]
              /\ cpc' = [cpc EXCEPT ![c] = "idle"]
              /\ UNCHANGED <<readBlock, leaving>>
         ELSE /\ leaving' = [leaving EXCEPT ![c] = readBlock[c]]
              /\ readBlock' = [readBlock EXCEPT ![c] = next[readBlock[c]]]
              /\ readPos' = [readPos EXCEPT ![c] = 0]
              /\ cpc' = [cpc EXCEPT ![c] = "count"]
    /\ UNCHANGED <<chain, ppc, registered, snapshot, got>>

\* The last thing AdvanceToken does: count itself out of the block it left.
CountOut(c) ==
    /\ cpc[c] = "count"
    /\ count' = [count EXCEPT ![leaving[c]] = @ + 1]
    /\ leaving' = [leaving EXCEPT ![c] = NoBlock]
    /\ cpc' = [cpc EXCEPT ![c] = "idle"]
    /\ UNCHANGED <<next, data, blockCount, head, tail, write, writePos, writeNum, cachedActive,
                   ppc, registered, readBlock, readPos, readNum, snapshot, got>>

Producer ==
    \/ FillSlot \/ AdvanceInBlock \/ AdvanceToNext
    \/ StartRecycling \/ MoveHeadToTail \/ CreateBlock \/ Publish
Reader(c) == BeginRead(c) \/ CopyOut(c) \/ AdvanceToken(c) \/ CountOut(c)

Next == Producer \/ \E c \in Consumers : RegisterConsumer(c) \/ Reader(c)

Spec == Init /\ [][Next]_vars

\* The main thread pushes what it reads, and each consumer thread registers and
\* polls until IsConsumerFinished; all run freely.
FairSpec == /\ Spec /\ WF_vars(Producer)
            /\ \A c \in Consumers : WF_vars(RegisterConsumer(c)) /\ WF_vars(Reader(c))

-----------------------------------------------------------------------------
(* A slot is given a new item only when every consumer has read the old one; *)
(* a consumer that has counted itself out of a block has read all of it, and *)
(* one still copying has not (the claim behind counting the last slot only). *)
OverwritesOnlyRead ==
    [][\A b \in Blocks, p \in Places :
          data'[b][p] # data[b][p] => \A c \in Consumers : readNum[c] >= data[b][p]]_vars

(* A registered consumer is never left without a block: the successor is     *)
(* linked before the item that leads to it is published                      *)
(* (CommitWrite, lines 551-556).                                             *)
NeverStranded == \A c \in registered : readBlock[c] # NoBlock

(* Memory grows only while some consumer still holds the head block, or has  *)
(* left it but not yet counted itself out.                                   *)
GrowsOnlyWhenHeld ==
    [][blockCount' > blockCount =>
          \E c \in registered : readNum[c] < data[head][BlockSize - 1] \/ leaving[c] = head]_vars

(* The list of blocks implements one broadcast log: each consumer reads each *)
(* item exactly once, in order ("every item is read once by every consumer", *)
(* line 364).  A read takes effect when the item is copied out.              *)
Log == INSTANCE BroadcastLog WITH
           length   <- writeNum,
           position <- [c \in Consumers |-> IF cpc[c] = "advance" THEN readNum[c] + 1 ELSE readNum[c]],
           value    <- got
ImplementsLog == Log!Spec

(* Every consumer gets to the end of what is pushed: IsConsumerFinished, on  *)
(* which the thread's exit depends, becomes true for every one of them.      *)
EveryoneFinishes == <>(\A c \in Consumers : readNum[c] = MaxItems)
=============================================================================
