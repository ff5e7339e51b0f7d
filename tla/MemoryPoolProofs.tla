-------------------------- MODULE MemoryPoolProofs --------------------------
(* For every number of threads, size of a block and number of records, and   *)
(* with RecycleBlocks called at any time: no element is handed out again     *)
(* while a thread has yet to read the record in it, and the counters agree.  *)
(* The counters are the heart of it: a block whose count is zero has no      *)
(* element with its flag up and nobody who is still to count one down, so    *)
(* whoever empties it takes nothing from anyone.  And a program that leaves  *)
(* recycling to Allocate creates a block only when it needs one.             *)
EXTENDS MemoryPoolRecycle, FiniteSetTheorems, SequenceTheorems, TLAPS

Allocating == apc \in {"arm", "count", "store"}

PoolTypes ==
    /\ used \in [Blocks -> 0..BlockSize]
    /\ inUseCount \in [Blocks -> Nat]
    /\ inUse \in [Elements -> BOOLEAN]
    /\ remaining \in [Elements -> Nat]
    /\ data \in [Elements -> Nat]
    /\ apc \in {"idle", "again", "arm", "count", "store"}
    /\ allocs \in 0..MaxAllocs
    /\ held \in [Consumers -> SUBSET (Elements \X Nat)]
    /\ cpc \in [Consumers -> {"idle", "clear", "uncount"}]
    /\ releasing \in [Consumers -> Elements \cup {NoElement}]
    /\ walk \in Blocks \cup {0} /\ recycles \in BOOLEAN

\* Blocks are numbered as they are created; the others are as they started.
ListShape ==
    /\ list \in Seq(Blocks) /\ Len(list) >= 1
    /\ \A k \in 1..Len(list) : list[k] \in 1..Len(list)
    /\ \E k \in 1..Len(list) : list[k] = current
    /\ \A b \in Blocks : b > Len(list) => used[b] = 0

\* A block is created for a record only when the last one is full.
Room ==
    /\ Len(list) <= Reserved + allocs + 1
    /\ apc \in {"idle", "again"} /\ BlockFull(current) => Len(list) <= Reserved + allocs
    /\ apc = "again" => BlockFull(current) /\ allocs < MaxAllocs
    /\ Allocating => allocs < MaxAllocs

\* Nobody has anything to do with the element that is being allocated.
Fresh ==
    IF Allocating
    THEN /\ element \in Elements /\ inUse[element]
         /\ Holders(element) = {}
         /\ \A c \in Consumers : cpc[c] # "idle" => releasing[c] # element
    ELSE element = NoElement

\* Who is the last to drop an element releases it, alone.
Releases ==
    /\ \A c \in Consumers : cpc[c] # "idle" =>
          releasing[c] \in Elements /\ releasing[c][2] <= used[BlockOf(releasing[c])]
    /\ \A c \in Consumers : cpc[c] = "clear" =>
          inUse[releasing[c]] /\ Holders(releasing[c]) = {}
    /\ \A c, d \in Consumers :
          cpc[c] = "clear" /\ cpc[d] = "clear" /\ releasing[c] = releasing[d] => c = d

\* An element somebody holds has its flag up; one that was not handed out has not.
Flags ==
    /\ \A e \in Elements : Holders(e) # {} => inUse[e]
    /\ \A e \in Elements : e[2] > used[BlockOf(e)] => ~ inUse[e]

UsesAgree == \A e \in Elements : e # element => remaining[e] = Cardinality(Holders(e))

CountsAgree ==
    \A b \in Blocks : inUseCount[b] + ToCount(b) = Cardinality(Flagged(b)) + Cardinality(ToUncount(b))

\* RecycleBlocks walks while nothing is allocated, past blocks that are unused.
WalkShape ==
    walk # 0 => /\ apc = "idle" /\ (walk = HeadBlock \/ used[HeadBlock] = 0)
                /\ \E k \in 1..Len(list) : list[k] = walk

PoolInv ==
    /\ PoolTypes /\ ListShape /\ Room /\ Fresh /\ Releases /\ Flags
    /\ UsesAgree /\ CountsAgree /\ WalkShape /\ StableWhileHeld

-----------------------------------------------------------------------------
(* Counting.                                                                 *)

\* There are finitely many elements, of blocks that are numbered.
LEMMA ElementTypes ==
    /\ Blocks \subseteq Nat \ {0} /\ BlockSize \in Nat \ {0}
    /\ \A b \in Blocks, k \in 1..BlockSize : <<b, k>> \in Elements
    /\ \A e \in Elements : /\ BlockOf(e) \in Blocks /\ BlockOf(e) = e[1]
                           /\ e[2] \in 1..BlockSize /\ e = <<e[1], e[2]>>
    /\ NoElement \notin Elements
BY PoolAssumption DEF Blocks, Elements, BlockOf, NoElement

\* Sets of elements and of threads are finite.
LEMMA FiniteParts ==
    /\ \A S \in SUBSET Elements : IsFiniteSet(S)
    /\ \A S \in SUBSET Consumers : IsFiniteSet(S)
<1>1. IsFiniteSet(Blocks) /\ IsFiniteSet(1..BlockSize)
  <2>1. Reserved + MaxAllocs \in Int /\ BlockSize \in Int /\ 1 \in Int
    BY PoolAssumption
  <2> QED BY <2>1, FS_Interval DEF Blocks
<1>2. IsFiniteSet(Elements)
  BY <1>1, FS_Product DEF Elements
<1> QED BY <1>2, FS_Subset, PoolAssumption

\* What the counters count is finite.
LEMMA Counted ==
    /\ \A e : IsFiniteSet(Holders(e)) /\ Cardinality(Holders(e)) \in Nat
    /\ \A b : IsFiniteSet(Flagged(b)) /\ Cardinality(Flagged(b)) \in Nat
    /\ \A b : IsFiniteSet(ToUncount(b)) /\ Cardinality(ToUncount(b)) \in Nat
    /\ \A b : ToCount(b) \in {0, 1}
<1>1. /\ \A e : Holders(e) \in SUBSET Consumers
      /\ \A b : Flagged(b) \in SUBSET Elements /\ ToUncount(b) \in SUBSET Consumers
      /\ \A b : ToCount(b) \in {0, 1}
  BY DEF Holders, Flagged, ToUncount, ToCount
<1> QED BY <1>1, FiniteParts, FS_CardinalityType

\* Nobody has anything left to do in this block.
Quiet(b) ==
    /\ \A e \in Elements : BlockOf(e) = b => ~ inUse[e]
    /\ \A c \in Consumers : cpc[c] # "idle" => BlockOf(releasing[c]) # b

\* A block that nobody counts has no element with its flag up and nobody who
\* is still to count one down.
LEMMA NothingCounted ==
    ASSUME PoolInv, ~ Allocating, NEW b \in Blocks, inUseCount[b] = 0
    PROVE  Quiet(b)
<1>1. Cardinality(Flagged(b)) = 0 /\ Cardinality(ToUncount(b)) = 0
  <2>1. inUseCount[b] + ToCount(b) = Cardinality(Flagged(b)) + Cardinality(ToUncount(b))
    BY DEF PoolInv, CountsAgree
  <2>2. ToCount(b) = 0
    BY DEF ToCount, Allocating
  <2> QED BY <2>1, <2>2, Counted
<1>2. Flagged(b) = {} /\ ToUncount(b) = {}
  BY <1>1, Counted, FS_EmptySet
<1>3. \A e \in Elements : BlockOf(e) = b => ~ inUse[e]
  BY <1>2 DEF Flagged
<1>4. ASSUME NEW c \in Consumers, cpc[c] # "idle"
      PROVE  BlockOf(releasing[c]) # b
  <2>1. releasing[c] \in Elements /\ cpc[c] \in {"clear", "uncount"}
    BY <1>4 DEF PoolInv, Releases, PoolTypes
  <2>2. CASE cpc[c] = "clear"
    BY <1>3, <2>1, <2>2 DEF PoolInv, Releases
  <2>3. CASE cpc[c] = "uncount"
    BY <1>2, <2>3 DEF ToUncount
  <2> QED BY <2>1, <2>2, <2>3
<1> QED BY <1>3, <1>4 DEF Quiet

\* Nor has a block of which nothing was handed out.
LEMMA NothingUsed ==
    ASSUME PoolInv, NEW b \in Blocks, used[b] = 0
    PROVE  Quiet(b)
<1>1. ASSUME NEW e \in Elements, BlockOf(e) = b
      PROVE  ~ inUse[e]
  BY <1>1, ElementTypes DEF PoolInv, Flags
<1>2. ASSUME NEW c \in Consumers, cpc[c] # "idle"
      PROVE  BlockOf(releasing[c]) # b
  BY <1>2, ElementTypes DEF PoolInv, Releases
<1> QED BY <1>1, <1>2 DEF Quiet

\* The blocks of the list.
LEMMA BlocksOfList ==
    ASSUME PoolInv
    PROVE  /\ HeadBlock \in Blocks /\ TailBlock \in Blocks /\ current \in Blocks
           /\ Len(list) \in Nat \ {0}
           /\ \A b \in Blocks, k \in 1..Len(list) : list[k] = b /\ b # TailBlock =>
                 Place(b) + 1 \in 1..Len(list)
<1> USE DEF PoolInv, ListShape
<1>1. HeadBlock \in Blocks /\ TailBlock \in Blocks /\ Len(list) \in Nat \ {0}
  BY DEF HeadBlock, TailBlock
<1>2. current \in Blocks
  OBVIOUS
<1>3. ASSUME NEW b \in Blocks, NEW k \in 1..Len(list), list[k] = b, b # TailBlock
      PROVE  Place(b) + 1 \in 1..Len(list)
  <2>1. Place(b) \in 1..Len(list) /\ list[Place(b)] = b
    BY <1>3 DEF Place
  <2>2. Place(b) # Len(list)
    BY <2>1, <1>3 DEF TailBlock
  <2> QED BY <1>1, <2>1, <2>2
<1> QED BY <1>1, <1>2, <1>3

-----------------------------------------------------------------------------
(* The start.                                                                *)

\* The pool starts with its reserved blocks, all unused.
LEMMA InitPool == InitRecycle => PoolInv
<1> SUFFICES ASSUME InitRecycle PROVE PoolInv
  OBVIOUS
<1> USE DEF InitRecycle, Init
<1>a. /\ Reserved \in Nat \ {0} /\ MaxAllocs \in Nat /\ BlockSize \in Nat \ {0}
      /\ 1..Reserved \subseteq Blocks
  BY PoolAssumption DEF Blocks
<1>1. PoolTypes
  BY <1>a DEF PoolTypes
<1>2. ListShape
  BY <1>a DEF ListShape
<1>3. Room
  BY <1>a DEF Room, Allocating, BlockFull
<1>4. Fresh /\ Releases
  BY DEF Fresh, Allocating, Releases
<1>5. \A e : Holders(e) = {}
  BY DEF Holders
<1>6. Flags
  BY <1>5 DEF Flags
<1>7. UsesAgree
  BY <1>5, FS_EmptySet DEF UsesAgree
<1>8. CountsAgree
  <2>1. \A b \in Blocks : Flagged(b) = {} /\ ToUncount(b) = {} /\ ToCount(b) = 0
    BY DEF Flagged, ToUncount, ToCount
  <2> QED BY <2>1, FS_EmptySet DEF CountsAgree
<1>9. WalkShape /\ StableWhileHeld
  BY DEF WalkShape, StableWhileHeld
<1> QED BY <1>1, <1>2, <1>3, <1>4, <1>6, <1>7, <1>8, <1>9 DEF PoolInv

-----------------------------------------------------------------------------
(* Allocate.  RecycleBlocks does not run meanwhile.                          *)

\* A claimed element is the next one, which nobody has anything to do with.
LEMMA ClaimKeeps ==
    ASSUME PoolInv, ClaimElement, walk = 0, UNCHANGED <<walk, recycles>>
    PROVE  PoolInv'
<1> DEFINE e == <<current, used[current] + 1>>
<1> USE DEF PoolInv, ClaimElement
<1>1. /\ current \in Blocks /\ used[current] \in 0..BlockSize /\ used[current] # BlockSize
      /\ BlockSize \in Nat
  BY BlocksOfList, ElementTypes DEF PoolTypes, BlockFull
<1>2. /\ e \in Elements /\ BlockOf(e) = current /\ e[2] = used[current] + 1
  <2>1. used[current] + 1 \in 1..BlockSize
    BY <1>1
  <2> QED BY <1>1, <2>1, ElementTypes DEF BlockOf
<1>3. ~ inUse[e] /\ Holders(e) = {} /\ \A c \in Consumers : cpc[c] # "idle" => releasing[c] # e
  <2>1. e[2] > used[BlockOf(e)]
    BY <1>1, <1>2
  <2>2. \A c \in Consumers : cpc[c] # "idle" => releasing[c] # e
    BY <1>1, <1>2 DEF Releases
  <2> QED BY <1>2, <2>1, <2>2 DEF Flags
<1>4. /\ element' = e /\ apc' = "arm" /\ ~ Allocating /\ element = NoElement
      /\ inUse' = [inUse EXCEPT ![e] = TRUE] /\ used' = [used EXCEPT ![current] = @ + 1]
      /\ \A x : Holders(x)' = Holders(x)
  BY DEF Allocating, Fresh, Holders
<1>5. PoolTypes'
  <2>1. used[current] + 1 \in 0..BlockSize
    BY <1>1
  <2>2. used' \in [Blocks -> 0..BlockSize]
    BY <1>1, <1>4, <2>1 DEF PoolTypes
  <2>3. inUse' \in [Elements -> BOOLEAN]
    BY <1>2, <1>4 DEF PoolTypes
  <2> QED BY <2>2, <2>3, <1>4 DEF PoolTypes
<1>6. ListShape'
  BY <1>1, <1>4 DEF ListShape, PoolTypes
<1>7. Room'
  BY <1>4 DEF Room, Allocating
<1>8. Fresh'
  BY <1>2, <1>3, <1>4 DEF Fresh, Allocating, PoolTypes
<1>9. Releases'
  <2>1. \A x \in Elements : x[2] <= used[BlockOf(x)] => x[2] <= used'[BlockOf(x)]
    BY <1>1, <1>4, ElementTypes DEF PoolTypes
  <2>2. \A x \in Elements : inUse[x] => inUse'[x]
    BY <1>4 DEF PoolTypes
  <2> QED BY <2>1, <2>2, <1>4 DEF Releases
<1>10. Flags'
  <2>1. ASSUME NEW x \in Elements, x[2] > used'[BlockOf(x)]
        PROVE  ~ inUse'[x]
    <3>1. x[2] > used[BlockOf(x)]
      BY <2>1, <1>1, <1>4, ElementTypes DEF PoolTypes
    <3>2. x # e
      BY <2>1, <1>1, <1>2, <1>4 DEF PoolTypes
    <3> QED BY <3>1, <3>2, <1>2, <1>4 DEF Flags, PoolTypes
  <2>2. ASSUME NEW x \in Elements, Holders(x)' # {}
        PROVE  inUse'[x]
    BY <2>2, <1>4 DEF Flags, PoolTypes
  <2> QED BY <2>1, <2>2 DEF Flags
<1>11. UsesAgree'
  BY <1>4, ElementTypes DEF UsesAgree
<1>12. CountsAgree'
  <2>1. ASSUME NEW b \in Blocks
        PROVE  (inUseCount[b] + ToCount(b) = Cardinality(Flagged(b)) + Cardinality(ToUncount(b)))'
    <3>1. inUseCount[b] + ToCount(b) = Cardinality(Flagged(b)) + Cardinality(ToUncount(b))
      BY DEF CountsAgree
    <3>2. ToCount(b) = 0 /\ ToUncount(b)' = ToUncount(b)
      BY DEF ToCount, ToUncount
    <3>3. CASE b = current
      <4>1. ToCount(b)' = 1
        BY <1>2, <1>4, <3>3 DEF ToCount
      <4>2. Flagged(b)' = Flagged(b) \cup {e} /\ e \notin Flagged(b)
        BY <1>2, <1>3, <1>4, <3>3 DEF Flagged, PoolTypes
      <4>3. Cardinality(Flagged(b)') = Cardinality(Flagged(b)) + 1
        BY <4>2, Counted, FS_AddElement
      <4>4. inUseCount[b] \in Nat /\ Cardinality(Flagged(b)) \in Nat /\ Cardinality(ToUncount(b)) \in Nat
        BY Counted DEF PoolTypes
      <4> HIDE DEF PoolInv, ClaimElement
      <4>5. inUseCount'[b] = inUseCount[b]
        BY DEF ClaimElement
      <4> QED BY <3>1, <3>2, <4>1, <4>3, <4>4, <4>5
    <3>4. CASE b # current
      <4>1. ToCount(b)' = 0
        BY <1>2, <1>4, <3>4 DEF ToCount
      <4>2. Flagged(b)' = Flagged(b)
        BY <1>2, <1>4, <3>4 DEF Flagged, PoolTypes
      <4> QED BY <3>1, <3>2, <4>1, <4>2
    <3> QED BY <3>3, <3>4
  <2> QED BY <2>1 DEF CountsAgree
<1>13. WalkShape' /\ StableWhileHeld'
  BY DEF WalkShape, StableWhileHeld
<1> QED BY <1>5, <1>6, <1>7, <1>8, <1>9, <1>10, <1>11, <1>12, <1>13

\* The element's uses are stored while nobody else knows of it.
LEMMA ArmKeeps ==
    ASSUME PoolInv, NEW n \in Nat, ArmElement(n), walk = 0, UNCHANGED <<walk, recycles>>
    PROVE  PoolInv'
<1> USE DEF PoolInv, ArmElement, blockVars
<1>1. /\ \A x : Holders(x)' = Holders(x) /\ \A b : Flagged(b)' = Flagged(b)
      /\ \A b : ToUncount(b)' = ToUncount(b) /\ ToCount(b)' = ToCount(b)
      /\ Allocating /\ Allocating' /\ element \in Elements
  BY DEF Holders, Flagged, ToUncount, ToCount, Allocating, Fresh
<1>2. PoolTypes'
  BY <1>1 DEF PoolTypes
<1>3. ListShape' /\ Releases' /\ Flags' /\ StableWhileHeld' /\ WalkShape'
  BY <1>1 DEF ListShape, Releases, Flags, StableWhileHeld, WalkShape
<1>4. Room' /\ Fresh'
  BY <1>1 DEF Room, Fresh
<1>5. UsesAgree'
  BY <1>1 DEF UsesAgree, PoolTypes
<1>6. CountsAgree'
  BY <1>1 DEF CountsAgree
<1> QED BY <1>2, <1>3, <1>4, <1>5, <1>6

\* The block's count catches up with the flag that was raised.
LEMMA CountKeeps ==
    ASSUME PoolInv, CountElement, walk = 0, UNCHANGED <<walk, recycles>>
    PROVE  PoolInv'
<1> USE DEF PoolInv, CountElement, blockVars
<1>1. /\ \A x : Holders(x)' = Holders(x) /\ \A b : Flagged(b)' = Flagged(b)
      /\ \A b : ToUncount(b)' = ToUncount(b)
      /\ Allocating /\ Allocating' /\ element \in Elements /\ BlockOf(element) \in Blocks
  BY ElementTypes DEF Holders, Flagged, ToUncount, Allocating, Fresh
<1>2. PoolTypes'
  <2>1. \A b \in Blocks : inUseCount[b] \in Nat /\ inUseCount[b] + 1 \in Nat
    BY DEF PoolTypes
  <2>2. inUseCount' \in [Blocks -> Nat]
    BY <1>1, <2>1 DEF PoolTypes
  <2> QED BY <2>2 DEF PoolTypes
<1>3. ListShape' /\ Releases' /\ Flags' /\ StableWhileHeld' /\ WalkShape'
  BY <1>1 DEF ListShape, Releases, Flags, StableWhileHeld, WalkShape
<1>4. Room' /\ Fresh'
  BY <1>1 DEF Room, Fresh
<1>5. UsesAgree'
  BY <1>1 DEF UsesAgree
<1>6. \A b \in Blocks : inUseCount'[b] + ToCount(b)' = inUseCount[b] + ToCount(b)
  BY <1>1 DEF ToCount, PoolTypes
<1>7. CountsAgree'
  BY <1>1, <1>6 DEF CountsAgree
<1> QED BY <1>2, <1>3, <1>4, <1>5, <1>7

\* The record goes to as many threads as the element was armed for.
LEMMA StoreKeeps ==
    ASSUME PoolInv, NEW threads \in SUBSET Consumers, StoreRecord(threads),
           walk = 0, UNCHANGED <<walk, recycles>>
    PROVE  PoolInv'
<1> USE DEF PoolInv, StoreRecord, blockVars, useVars
<1>0. PICK e \in Elements : e = element
  BY DEF Fresh, Allocating
<1>1. /\ Allocating /\ ~ Allocating' /\ e = element /\ inUse[e]
      /\ Holders(e) = {} /\ element' = NoElement /\ apc' = "idle"
      /\ \A c \in Consumers : cpc[c] # "idle" => releasing[c] # e
  BY <1>0 DEF Allocating, Fresh
<1>2. /\ \A b : Flagged(b)' = Flagged(b)
      /\ \A b : ToUncount(b)' = ToUncount(b) /\ ToCount(b)' = ToCount(b)
  BY DEF Flagged, ToUncount, ToCount
<1>3. \A c \in Consumers : held'[c] = IF c \in threads THEN held[c] \cup {<<e, allocs + 1>>}
                                                     ELSE held[c]
  BY <1>0
<1>4. Holders(e)' = threads
  <2>1. ASSUME NEW c \in Consumers
        PROVE  c \in Holders(e)' <=> c \in threads
    <3>1. \A ref \in held[c] : ref[1] # e
      BY <1>1 DEF Holders
    <3>2. CASE c \in threads
      <4>1. <<e, allocs + 1>> \in held'[c]
        BY <1>3, <3>2
      <4> QED BY <3>2, <4>1 DEF Holders
    <3>3. CASE c \notin threads
      <4>1. held'[c] = held[c]
        BY <1>3, <3>3
      <4> QED BY <3>1, <3>3, <4>1 DEF Holders
    <3> QED BY <3>2, <3>3
  <2> QED BY <2>1 DEF Holders
<1>5. \A x \in Elements : x # e => Holders(x)' = Holders(x)
  <2>1. ASSUME NEW x \in Elements, x # e, NEW c \in Consumers
        PROVE  (\E ref \in held'[c] : ref[1] = x) <=> (\E ref \in held[c] : ref[1] = x)
    <3>1. <<e, allocs + 1>>[1] # x
      BY <2>1
    <3>2. held'[c] = held[c] \/ held'[c] = held[c] \cup {<<e, allocs + 1>>}
      BY <1>3
    <3> QED BY <3>1, <3>2
  <2> QED BY <2>1 DEF Holders
<1>6. PoolTypes'
  <2>1. allocs + 1 \in 0..MaxAllocs /\ allocs + 1 \in Nat
    BY <1>1, PoolAssumption DEF Room, PoolTypes
  <2> QED BY <1>1, <1>3, <2>1 DEF PoolTypes
<1>7. ListShape' /\ WalkShape'
  BY DEF ListShape, WalkShape
<1>8. Room'
  BY <1>1, BlocksOfList, PoolAssumption DEF Room, PoolTypes, Allocating
<1>9. Fresh'
  BY <1>1 DEF Fresh
<1>10. Releases'
  BY <1>1, <1>5 DEF Releases
<1>11. Flags'
  BY <1>1, <1>5 DEF Flags
<1>12. UsesAgree'
  <2>1. Cardinality(threads) = remaining[e] /\ remaining' = remaining
    BY <1>1
  <2> HIDE DEF PoolInv, StoreRecord
  <2>2. ASSUME NEW x \in Elements
        PROVE  remaining[x] = Cardinality(Holders(x)')
    <3>1. CASE x = e
      BY <1>4, <2>1, <3>1
    <3>2. CASE x # e
      BY <1>1, <1>5, <3>2 DEF UsesAgree, PoolInv
    <3> QED BY <3>1, <3>2
  <2> QED BY <2>1, <2>2 DEF UsesAgree
<1>13. CountsAgree'
  BY <1>2 DEF CountsAgree
<1>14. StableWhileHeld'
  <2>1. ASSUME NEW c \in Consumers, NEW ref \in held'[c]
        PROVE  data'[ref[1]] = ref[2]
    <3>1. CASE ref = <<e, allocs + 1>>
      BY <1>1, <3>1 DEF PoolTypes
    <3>2. CASE ref \in held[c]
      <4>1. ref[1] \in Elements /\ ref[1] # e
        BY <1>1, <3>2 DEF Holders, PoolTypes
      <4>2. data'[ref[1]] = data[ref[1]]
        BY <1>1, <4>1 DEF PoolTypes
      <4> QED BY <3>2, <4>2 DEF StableWhileHeld
    <3> QED BY <1>3, <3>1, <3>2
  <2> QED BY <2>1 DEF StableWhileHeld
<1> QED BY <1>6, <1>7, <1>8, <1>9, <1>10, <1>11, <1>12, <1>13, <1>14

\* Allocate goes on with the next block.
LEMMA MoveToNextKeeps ==
    ASSUME PoolInv, MoveToNext, walk = 0, UNCHANGED <<walk, recycles>>
    PROVE  PoolInv'
<1> USE DEF PoolInv, MoveToNext, useVars
<1>1. /\ \A x : Holders(x)' = Holders(x) /\ \A b : Flagged(b)' = Flagged(b)
      /\ \A b : ToUncount(b)' = ToUncount(b) /\ ToCount(b)' = ToCount(b)
      /\ ~ Allocating /\ ~ Allocating'
  BY DEF Holders, Flagged, ToUncount, ToCount, Allocating
<1>2. Place(current) + 1 \in 1..Len(list)
  BY BlocksOfList DEF ListShape
<1>3. PoolTypes'
  BY DEF PoolTypes
<1>4. ListShape'
  BY <1>2 DEF ListShape
<1>5. Room'
  BY <1>1 DEF Room
<1>6. Fresh' /\ Releases' /\ Flags' /\ StableWhileHeld' /\ WalkShape'
  BY <1>1 DEF Fresh, Releases, Flags, StableWhileHeld, WalkShape
<1>7. UsesAgree' /\ CountsAgree'
  BY <1>1 DEF UsesAgree, CountsAgree
<1> QED BY <1>3, <1>4, <1>5, <1>6, <1>7

\* Allocate calls AllocateNewBlock, since the head cannot be taken again.
LEMMA LookAgainKeeps ==
    ASSUME PoolInv, LookAgain, walk = 0, UNCHANGED <<walk, recycles>>
    PROVE  PoolInv'
<1> USE DEF PoolInv, LookAgain, blockVars, useVars
<1>1. /\ \A x : Holders(x)' = Holders(x) /\ \A b : Flagged(b)' = Flagged(b)
      /\ \A b : ToUncount(b)' = ToUncount(b) /\ ToCount(b)' = ToCount(b)
      /\ ~ Allocating /\ ~ Allocating'
  BY DEF Holders, Flagged, ToUncount, ToCount, Allocating
<1>2. PoolTypes' /\ ListShape'
  BY DEF PoolTypes, ListShape
<1>3. Room'
  BY <1>1 DEF Room, BlockFull
<1>4. Fresh' /\ Releases' /\ Flags' /\ StableWhileHeld' /\ WalkShape'
  BY <1>1 DEF Fresh, Releases, Flags, StableWhileHeld, WalkShape
<1>5. UsesAgree' /\ CountsAgree'
  BY <1>1 DEF UsesAgree, CountsAgree
<1> QED BY <1>2, <1>3, <1>4, <1>5

\* There is room for the block: it is created for a record that is to come.
LEMMA CreateKeeps ==
    ASSUME PoolInv, CreateBlock, walk = 0, UNCHANGED <<walk, recycles>>
    PROVE  PoolInv'
<1> USE DEF PoolInv, CreateBlock, useVars
<1>1. /\ \A x : Holders(x)' = Holders(x) /\ \A b : Flagged(b)' = Flagged(b)
      /\ \A b : ToUncount(b)' = ToUncount(b) /\ ToCount(b)' = ToCount(b)
      /\ ~ Allocating /\ ~ Allocating'
  BY DEF Holders, Flagged, ToUncount, ToCount, Allocating
<1>2. /\ Len(list) \in Nat \ {0} /\ Len(list) <= Reserved + allocs /\ allocs < MaxAllocs
      /\ allocs \in Nat /\ Reserved \in Nat /\ MaxAllocs \in Nat
  BY BlocksOfList, PoolAssumption DEF Room, PoolTypes
<1>3. Len(list) + 1 \in Blocks /\ used[Len(list) + 1] = 0
  <2>1. Len(list) + 1 \in Blocks
    BY <1>2 DEF Blocks
  <2> QED BY <1>2, <2>1 DEF ListShape
<1>4. PoolTypes'
  BY DEF PoolTypes
<1>5. ListShape'
  <2>1. list \in Seq(Blocks) /\ \A k \in 1..Len(list) : list[k] \in 1..Len(list)
    BY DEF ListShape
  <2>2. /\ list' \in Seq(Blocks) /\ Len(list') = Len(list) + 1
        /\ list'[Len(list) + 1] = Len(list) + 1
        /\ \A k \in 1..Len(list) : list'[k] = list[k]
    BY <1>2, <1>3, <2>1
  <2>3. \A k \in 1..Len(list') : list'[k] \in 1..Len(list')
    BY <1>2, <2>1, <2>2
  <2>4. \E k \in 1..Len(list') : list'[k] = current'
    BY <1>2, <2>2
  <2>5. \A b \in Blocks : b > Len(list') => used'[b] = 0
    BY <1>2, <2>2, ElementTypes DEF ListShape
  <2> QED BY <1>2, <2>2, <2>3, <2>4, <2>5 DEF ListShape
<1>6. Room'
  <2>1. Len(list') = Len(list) + 1
    BY DEF ListShape
  <2>2. ~ BlockFull(current)'
    BY <1>3, ElementTypes DEF BlockFull
  <2> QED BY <1>1, <1>2, <2>1, <2>2 DEF Room
<1>7. Fresh' /\ Releases' /\ Flags' /\ StableWhileHeld' /\ WalkShape'
  BY <1>1, SMTT(40) DEF Fresh, Releases, Flags, StableWhileHeld, WalkShape
<1>8. UsesAgree' /\ CountsAgree'
  BY <1>1 DEF UsesAgree, CountsAgree
<1> QED BY <1>4, <1>5, <1>6, <1>7, <1>8

\* What a sequence is whose head moved to its tail.
LEMMA Rotation ==
    ASSUME NEW S, NEW s \in Seq(S), Len(s) >= 1
    PROVE  LET r == Tail(s) \o <<s[1]>>
           IN /\ r \in Seq(S) /\ Len(r) = Len(s) /\ r[Len(s)] = s[1]
              /\ \A k \in 1..Len(s) : k # Len(s) => r[k] = s[k + 1]
<1> DEFINE t == Tail(s)
           h == <<s[1]>>
<1>0. Len(s) \in Nat /\ Len(s) >= 1 /\ s[1] \in S
  OBVIOUS
<1>1. t \in Seq(S) /\ Len(t) = Len(s) - 1 /\ \A k \in 1..(Len(s) - 1) : t[k] = s[k + 1]
  BY <1>0
<1>2. h \in Seq(S) /\ Len(h) = 1 /\ h[1] = s[1]
  BY <1>0
<1> HIDE DEF t, h
<1>3. /\ t \o h \in Seq(S) /\ Len(t \o h) = Len(t) + Len(h)
      /\ \A k \in 1..(Len(t) + Len(h)) : (t \o h)[k] = IF k <= Len(t) THEN t[k] ELSE h[k - Len(t)]
  BY <1>1, <1>2, ConcatProperties
<1>4. Len(t \o h) = Len(s)
  BY <1>0, <1>1, <1>2, <1>3
<1>5. (t \o h)[Len(s)] = s[1]
  BY <1>0, <1>1, <1>2, <1>3
<1>6. ASSUME NEW k \in 1..Len(s), k # Len(s)
      PROVE  (t \o h)[k] = s[k + 1]
  BY <1>0, <1>1, <1>2, <1>3, <1>6
<1> QED BY <1>3, <1>4, <1>5, <1>6 DEF t, h

\* Moving the head block to the tail takes nothing from anyone when nobody has
\* anything left to do in it.
LEMMA RotateKeeps ==
    ASSUME PoolInv, ~ Allocating, Rotate, Quiet(HeadBlock), apc' = "idle",
           UNCHANGED <<data, element, allocs, inUse, remaining, held, cpc, releasing>>
    PROVE  /\ used' \in [Blocks -> 0..BlockSize] /\ inUseCount' \in [Blocks -> Nat]
           /\ list' \in Seq(Blocks) /\ Len(list') = Len(list) /\ list'[Len(list)] = HeadBlock
           /\ \A k \in 1..Len(list) : list'[k] \in 1..Len(list)
           /\ \A b \in Blocks : (\E k \in 1..Len(list) : list[k] = b)
                                    => \E k \in 1..Len(list') : list'[k] = b
           /\ \A b \in Blocks : b > Len(list') => used'[b] = 0
           /\ used'[HeadBlock] = 0 /\ \A b \in Blocks : b # HeadBlock => used'[b] = used[b]
           /\ Fresh' /\ Releases' /\ Flags' /\ UsesAgree' /\ CountsAgree' /\ StableWhileHeld'
<1> USE DEF PoolInv, Rotate
<1>1. /\ \A x : Holders(x)' = Holders(x) /\ \A b : Flagged(b)' = Flagged(b)
      /\ \A b : ToUncount(b)' = ToUncount(b) /\ ToCount(b)' = 0 /\ ToCount(b) = 0
      /\ ~ Allocating' /\ element = NoElement
  BY DEF Holders, Flagged, ToUncount, ToCount, Allocating, Fresh
<1>2. HeadBlock \in Blocks /\ Len(list) \in Nat \ {0} /\ list \in Seq(Blocks)
  BY BlocksOfList DEF ListShape
<1>3. /\ used' \in [Blocks -> 0..BlockSize] /\ inUseCount' \in [Blocks -> Nat]
      /\ used'[HeadBlock] = 0 /\ inUseCount'[HeadBlock] = 0
      /\ \A b \in Blocks : b # HeadBlock => used'[b] = used[b] /\ inUseCount'[b] = inUseCount[b]
  <2>1. 0 \in 0..BlockSize
    BY ElementTypes
  <2> QED BY <1>2, <2>1 DEF PoolTypes
<1>4. /\ list' \in Seq(Blocks) /\ Len(list') = Len(list) /\ list'[Len(list)] = HeadBlock
      /\ \A k \in 1..Len(list) : k # Len(list) => list'[k] = list[k + 1]
  <2>1. list' = Tail(list) \o <<list[1]>>
    BY DEF HeadBlock
  <2> HIDE DEF PoolInv, Rotate
  <2> QED BY <1>2, <2>1, Rotation DEF HeadBlock
<1>5. ASSUME NEW k \in 1..Len(list)
      PROVE  list'[k] \in 1..Len(list)
  <2>1. \A j \in 1..Len(list) : list[j] \in 1..Len(list)
    BY DEF ListShape
  <2> HIDE DEF PoolInv, Rotate
  <2>2. CASE k = Len(list)
    BY <1>2, <1>4, <2>1, <2>2 DEF HeadBlock
  <2>3. CASE k # Len(list)
    <3>1. k + 1 \in 1..Len(list)
      BY <1>2, <2>3
    <3> QED BY <1>4, <2>1, <2>3, <3>1
  <2> QED BY <2>2, <2>3
<1>6. ASSUME NEW b \in Blocks, NEW k \in 1..Len(list), list[k] = b
      PROVE  \E j \in 1..Len(list') : list'[j] = b
  <2> HIDE DEF PoolInv, Rotate
  <2>1. CASE k = 1
    <3>1. Len(list) \in 1..Len(list') /\ b = HeadBlock
      BY <1>2, <1>4, <1>6, <2>1 DEF HeadBlock
    <3> QED BY <1>4, <3>1
  <2>2. CASE k # 1
    <3>1. k - 1 \in 1..Len(list) /\ k - 1 # Len(list) /\ (k - 1) + 1 = k
      BY <1>2, <2>2
    <3> QED BY <1>4, <1>6, <3>1, SMTT(40)
  <2> QED BY <2>1, <2>2
<1>7. \A b \in Blocks : b > Len(list') => used'[b] = 0
  BY <1>3, <1>4 DEF ListShape
<1>8. Fresh'
  BY <1>1 DEF Fresh
<1>9. Releases'
  BY <1>1, <1>3, ElementTypes DEF Releases, Quiet
<1>10. Flags'
  BY <1>1, <1>3, ElementTypes DEF Flags, Quiet
<1>11. UsesAgree'
  BY <1>1 DEF UsesAgree
<1>12. CountsAgree'
  <2>1. Flagged(HeadBlock) = {} /\ ToUncount(HeadBlock) = {}
    BY DEF Quiet, Flagged, ToUncount
  <2>2. Cardinality(Flagged(HeadBlock)) = 0 /\ Cardinality(ToUncount(HeadBlock)) = 0
    BY <2>1, FS_EmptySet
  <2>3. \A b \in Blocks : inUseCount[b] + 0 = Cardinality(Flagged(b)) + Cardinality(ToUncount(b))
    BY <1>1 DEF CountsAgree
  <2>4. \A b \in Blocks : inUseCount'[b] + 0 = Cardinality(Flagged(b)) + Cardinality(ToUncount(b))
    BY <1>3, <2>2, <2>3
  <2> QED BY <1>1, <2>4 DEF CountsAgree
<1>13. StableWhileHeld'
  BY DEF StableWhileHeld
<1> QED BY <1>3, <1>4, <1>5, <1>6, <1>7, <1>8, <1>9, <1>10, <1>11, <1>12, <1>13

\* Allocate takes a head block again that nobody counts.
LEMMA RecycleKeeps ==
    ASSUME PoolInv, RecycleHead, walk = 0, UNCHANGED <<walk, recycles>>
    PROVE  PoolInv'
<1>1. HeadBlock \in Blocks /\ ~ Allocating /\ Len(list) \in Nat \ {0}
  BY BlocksOfList DEF RecycleHead, Allocating
<1>2. Quiet(HeadBlock)
  BY <1>1, NothingCounted DEF RecycleHead, Recyclable
<1>3. /\ Rotate /\ apc' = "idle" /\ current' = HeadBlock
      /\ UNCHANGED <<data, element, allocs, inUse, remaining, held, cpc, releasing>>
  BY DEF RecycleHead
<1> DEFINE kept ==
      /\ used' \in [Blocks -> 0..BlockSize] /\ inUseCount' \in [Blocks -> Nat]
      /\ list' \in Seq(Blocks) /\ Len(list') = Len(list) /\ list'[Len(list)] = HeadBlock
      /\ \A k \in 1..Len(list) : list'[k] \in 1..Len(list)
      /\ \A b \in Blocks : b > Len(list') => used'[b] = 0
      /\ used'[HeadBlock] = 0
      /\ Fresh' /\ Releases' /\ Flags' /\ UsesAgree' /\ CountsAgree' /\ StableWhileHeld'
<1>4. kept
  BY <1>1, <1>2, <1>3, RotateKeeps
<1>5. PoolTypes'
  BY <1>3, <1>4 DEF PoolInv, PoolTypes
<1>6. ListShape'
  BY <1>1, <1>3, <1>4 DEF ListShape
<1>7. Room'
  BY <1>1, <1>3, <1>4, ElementTypes DEF PoolInv, Room, Allocating, BlockFull
<1>8. WalkShape'
  BY DEF WalkShape
<1> QED BY <1>4, <1>5, <1>6, <1>7, <1>8 DEF PoolInv

-----------------------------------------------------------------------------
(* Release.  RecycleBlocks may run meanwhile.                                *)

\* A thread holds one record of an element, the one that is stored in it.
LEMMA OneRecord ==
    ASSUME PoolInv, NEW c \in Consumers, NEW ref \in held[c], NEW other \in held[c],
           other[1] = ref[1]
    PROVE  other = ref
<1>1. ref \in Elements \X Nat /\ other \in Elements \X Nat
  BY DEF PoolInv, PoolTypes
<1>2. data[ref[1]] = ref[2] /\ data[other[1]] = other[2]
  BY DEF PoolInv, StableWhileHeld
<1> QED BY <1>1, <1>2

\* The holder of a last use is the only holder.
LEMMA DropFacts ==
    ASSUME PoolInv, NEW c \in Consumers, DropUse(c)
    PROVE  \E e \in Elements :
              /\ c \in Holders(e) /\ e # element /\ inUse[e] /\ e[2] <= used[BlockOf(e)]
              /\ Holders(e)' = Holders(e) \ {c}
              /\ \A x \in Elements : x # e => Holders(x)' = Holders(x)
              /\ remaining' = [remaining EXCEPT ![e] = @ - 1] /\ remaining[e] - 1 \in Nat
              /\ Cardinality(Holders(e)') = remaining[e] - 1
              /\ \A d \in Consumers : held'[d] \subseteq held[d]
              /\ \/ /\ Holders(e)' = {} /\ cpc' = [cpc EXCEPT ![c] = "clear"]
                    /\ releasing' = [releasing EXCEPT ![c] = e]
                 \/ Holders(e)' # {} /\ UNCHANGED <<cpc, releasing>>
<1> USE DEF PoolInv, allocVars, blockVars
<1>1. PICK ref \in held[c] :
         /\ held' = [held EXCEPT ![c] = @ \ {ref}]
         /\ remaining' = [remaining EXCEPT ![ref[1]] = @ - 1]
         /\ IF remaining[ref[1]] = 1
              THEN /\ cpc' = [cpc EXCEPT ![c] = "clear"]
                   /\ releasing' = [releasing EXCEPT ![c] = ref[1]]
              ELSE UNCHANGED <<cpc, releasing>>
  BY DEF DropUse
<1>2. /\ cpc[c] = "idle"
      /\ UNCHANGED <<list, current, used, data, apc, element, allocs, inUseCount, inUse>>
  BY DEF DropUse
<1>3. PICK e \in Elements : e = ref[1]
  BY DEF PoolTypes
<1>4. /\ c \in Holders(e) /\ e # element /\ inUse[e] /\ e[2] <= used[BlockOf(e)]
      /\ remaining[e] = Cardinality(Holders(e))
  <2>1. c \in Holders(e)
    BY <1>3 DEF Holders
  <2>2. e # element
    BY <2>1, ElementTypes DEF Fresh
  <2>3. inUse[e]
    BY <2>1 DEF Flags
  <2>4. e[2] <= used[BlockOf(e)]
    BY <2>3, ElementTypes DEF Flags, PoolTypes
  <2> QED BY <2>1, <2>2, <2>3, <2>4 DEF UsesAgree
<1>5. Holders(e)' = Holders(e) \ {c}
  <2>1. ASSUME NEW d \in Consumers
        PROVE  (\E r \in held'[d] : r[1] = e) <=> d # c /\ \E r \in held[d] : r[1] = e
    <3>1. CASE d = c
      <4>1. held'[c] = held[c] \ {ref}
        BY <1>1 DEF PoolTypes
      <4>2. \A r \in held[c] : r[1] = e => r = ref
        BY <1>3, OneRecord
      <4> QED BY <3>1, <4>1, <4>2
    <3>2. CASE d # c
      BY <1>1, <3>2 DEF PoolTypes
    <3> QED BY <3>1, <3>2
  <2> QED BY <2>1 DEF Holders
<1>6. ASSUME NEW x \in Elements, x # e
      PROVE  Holders(x)' = Holders(x)
  <2>1. ASSUME NEW d \in Consumers
        PROVE  (\E r \in held'[d] : r[1] = x) <=> \E r \in held[d] : r[1] = x
    <3>1. CASE d = c
      BY <1>1, <1>3, <1>6, <3>1 DEF PoolTypes
    <3>2. CASE d # c
      BY <1>1, <3>2 DEF PoolTypes
    <3> QED BY <3>1, <3>2
  <2> QED BY <2>1 DEF Holders
<1>7. Cardinality(Holders(e)') = remaining[e] - 1 /\ remaining[e] \in Nat /\ remaining[e] >= 1
  <2>1. Cardinality(Holders(e) \ {c}) = Cardinality(Holders(e)) - 1
    BY <1>4, Counted, FS_RemoveElement
  <2>2. Cardinality(Holders(e) \ {c}) \in Nat /\ Cardinality(Holders(e)) \in Nat
    <3>1. Holders(e) \ {c} \in SUBSET Consumers
      BY DEF Holders
    <3> QED BY <3>1, FiniteParts, FS_CardinalityType, Counted
  <2> QED BY <1>4, <1>5, <2>1, <2>2
<1>8. remaining' = [remaining EXCEPT ![e] = @ - 1] /\ remaining[e] - 1 \in Nat
  BY <1>1, <1>3, <1>7
<1>9. \/ /\ Holders(e)' = {} /\ cpc' = [cpc EXCEPT ![c] = "clear"]
         /\ releasing' = [releasing EXCEPT ![c] = e]
      \/ Holders(e)' # {} /\ UNCHANGED <<cpc, releasing>>
  <2>1. CASE remaining[e] = 1
    <3>1. Cardinality(Holders(e)') = 0 /\ IsFiniteSet(Holders(e)')
      <4>1. Holders(e) \ {c} \in SUBSET Consumers
        BY DEF Holders
      <4> QED BY <1>5, <1>7, <2>1, <4>1, FiniteParts
    <3>2. Holders(e)' = {}
      BY <3>1, FS_EmptySet
    <3> QED BY <1>1, <1>3, <2>1, <3>2
  <2>2. CASE remaining[e] # 1
    <3>1. Cardinality(Holders(e)') # 0
      BY <1>7, <2>2
    <3> QED BY <1>1, <1>3, <2>2, <3>1, FS_EmptySet
  <2> QED BY <2>1, <2>2
<1>10. \A d \in Consumers : held'[d] \subseteq held[d]
  BY <1>1 DEF PoolTypes
<1> QED BY <1>4, <1>5, <1>6, <1>7, <1>8, <1>9, <1>10

\* Nobody else releases what is dropped.
LEMMA DropKeeps ==
    ASSUME PoolInv, NEW c \in Consumers, DropUse(c), UNCHANGED <<recycles, walk>>
    PROVE  PoolInv'
<1> USE DEF PoolInv, allocVars, blockVars
<1>1. held' \in [Consumers -> SUBSET (Elements \X Nat)]
  BY DEF DropUse, PoolTypes
<1>2. /\ cpc[c] = "idle"
      /\ UNCHANGED <<list, current, used, data, apc, element, allocs, inUseCount, inUse>>
  BY DEF DropUse
<1>3. PICK e \in Elements :
         /\ c \in Holders(e) /\ e # element /\ inUse[e] /\ e[2] <= used[BlockOf(e)]
         /\ Holders(e)' = Holders(e) \ {c}
         /\ \A x \in Elements : x # e => Holders(x)' = Holders(x)
         /\ remaining' = [remaining EXCEPT ![e] = @ - 1] /\ remaining[e] - 1 \in Nat
         /\ Cardinality(Holders(e)') = remaining[e] - 1
         /\ \A d \in Consumers : held'[d] \subseteq held[d]
         /\ \/ /\ Holders(e)' = {} /\ cpc' = [cpc EXCEPT ![c] = "clear"]
               /\ releasing' = [releasing EXCEPT ![c] = e]
            \/ Holders(e)' # {} /\ UNCHANGED <<cpc, releasing>>
  BY DropFacts
<1>4. /\ c \in Holders(e) /\ e # element /\ inUse[e] /\ e[2] <= used[BlockOf(e)]
      /\ \A x \in Elements : x # e => Holders(x)' = Holders(x)
  BY <1>3
<1>5. /\ remaining' = [remaining EXCEPT ![e] = @ - 1] /\ remaining[e] - 1 \in Nat
      /\ Cardinality(Holders(e)') = remaining[e] - 1
  BY <1>3
<1>6. \A x \in Elements : Holders(x) = {} => Holders(x)' = {}
  BY <1>3
<1>7. \/ /\ Holders(e)' = {} /\ cpc' = [cpc EXCEPT ![c] = "clear"]
         /\ releasing' = [releasing EXCEPT ![c] = e]
      \/ UNCHANGED <<cpc, releasing>>
  BY <1>3
<1>8. PoolTypes'
  <2>1. remaining' \in [Elements -> Nat]
    BY <1>5 DEF PoolTypes
  <2>2. /\ cpc' \in [Consumers -> {"idle", "clear", "uncount"}]
        /\ releasing' \in [Consumers -> Elements \cup {NoElement}]
    BY <1>7 DEF PoolTypes
  <2> QED BY <1>1, <1>2, <2>1, <2>2 DEF PoolTypes
<1>9. ListShape' /\ Room' /\ WalkShape'
  BY <1>2 DEF ListShape, Room, WalkShape, Allocating, BlockFull, HeadBlock
<1>10. Fresh'
  <2>1. CASE Allocating
    <3>1. element \in Elements /\ inUse[element] /\ Holders(element) = {}
          /\ \A d \in Consumers : cpc[d] # "idle" => releasing[d] # element
      BY <2>1 DEF Fresh
    <3>2. PICK x \in Elements : x = element
      BY <3>1
    <3>3. Holders(x)' = {}
      BY <1>4, <3>1, <3>2
    <3>4. \A d \in Consumers : cpc'[d] # "idle" => releasing'[d] # element
      BY <1>4, <1>7, <3>1 DEF PoolTypes
    <3> QED BY <1>2, <2>1, <3>1, <3>2, <3>3, <3>4 DEF Fresh, Allocating
  <2>2. CASE ~ Allocating
    BY <1>2, <2>2 DEF Fresh, Allocating
  <2> QED BY <2>1, <2>2
<1>11. \A d \in Consumers : cpc[d] = "clear" => releasing[d] # e
  BY <1>4 DEF Releases
<1>12. Releases'
  <2>1. CASE UNCHANGED <<cpc, releasing>>
    BY <1>2, <1>6, <2>1 DEF Releases
  <2>2. CASE /\ Holders(e)' = {} /\ cpc' = [cpc EXCEPT ![c] = "clear"]
             /\ releasing' = [releasing EXCEPT ![c] = e]
    <3>1. /\ cpc'[c] = "clear" /\ releasing'[c] = e
          /\ \A d \in Consumers : d # c => cpc'[d] = cpc[d] /\ releasing'[d] = releasing[d]
      BY <2>2 DEF PoolTypes
    <3>2. \A d \in Consumers : cpc'[d] # "idle" =>
              releasing'[d] \in Elements /\ releasing'[d][2] <= used'[BlockOf(releasing'[d])]
      BY <1>2, <1>4, <3>1 DEF Releases
    <3>3. \A d \in Consumers : cpc'[d] = "clear" =>
              inUse'[releasing'[d]] /\ \A x \in Elements : x = releasing'[d] => Holders(x)' = {}
      BY <1>2, <1>4, <1>6, <2>2, <3>1 DEF Releases
    <3>4. \A d \in Consumers : cpc'[d] = "clear" => inUse'[releasing'[d]] /\ Holders(releasing[d])'  = {}
      BY <3>2, <3>3
    <3>5. \A d, f \in Consumers :
              cpc'[d] = "clear" /\ cpc'[f] = "clear" /\ releasing'[d] = releasing'[f] => d = f
      BY <1>11, <3>1 DEF Releases
    <3> QED BY <3>2, <3>4, <3>5 DEF Releases
  <2> QED BY <1>7, <2>1, <2>2
<1>13. Flags'
  BY <1>2, <1>6 DEF Flags
<1>14. UsesAgree'
  <2>1. ASSUME NEW x \in Elements, x # element
        PROVE  remaining'[x] = Cardinality(Holders(x)')
    <3>1. CASE x = e
      <4>1. remaining'[e] = remaining[e] - 1
        BY <1>5 DEF PoolTypes
      <4> QED BY <1>5, <3>1, <4>1
    <3>2. CASE x # e
      <4>1. remaining'[x] = remaining[x]
        BY <1>5, <3>2 DEF PoolTypes
      <4> QED BY <1>4, <2>1, <3>2, <4>1 DEF UsesAgree
    <3> QED BY <3>1, <3>2
  <2> QED BY <1>2, <2>1 DEF UsesAgree
<1>15. CountsAgree'
  <2>1. \A b : Flagged(b)' = Flagged(b) /\ ToCount(b)' = ToCount(b)
    BY <1>2 DEF Flagged, ToCount
  <2>2. \A b : ToUncount(b)' = ToUncount(b)
    BY <1>2, <1>7 DEF ToUncount, PoolTypes
  <2> QED BY <1>2, <2>1, <2>2 DEF CountsAgree
<1>16. StableWhileHeld'
  BY <1>2, <1>3 DEF StableWhileHeld
<1> QED BY <1>8, <1>9, <1>10, <1>12, <1>13, <1>14, <1>15, <1>16

\* A flag that goes down is exchanged for a thread that is to count down.
LEMMA ClearKeeps ==
    ASSUME PoolInv, NEW c \in Consumers, ClearFlag(c), UNCHANGED <<recycles, walk>>
    PROVE  PoolInv'
<1> USE DEF PoolInv, allocVars, blockVars
<1>1. PICK e \in Elements : e = releasing[c]
  BY DEF ClearFlag, Releases
<1>2. /\ cpc[c] = "clear" /\ inUse[e] /\ Holders(e) = {}
  BY <1>1 DEF ClearFlag, Releases
<1>3. /\ inUse' = [inUse EXCEPT ![e] = FALSE] /\ cpc' = [cpc EXCEPT ![c] = "uncount"]
      /\ UNCHANGED <<list, current, used, data, apc, element, allocs, inUseCount, remaining,
                     held, releasing>>
  BY <1>1, <1>2 DEF ClearFlag
<1>4. \A x : Holders(x)' = Holders(x)
  BY <1>3 DEF Holders
<1>5. PoolTypes'
  BY <1>3 DEF PoolTypes
<1>6. ListShape' /\ Room' /\ WalkShape'
  BY <1>3 DEF ListShape, Room, WalkShape, Allocating, BlockFull, HeadBlock
<1>7. Fresh'
  <2>1. CASE Allocating
    BY <1>1, <1>2, <1>3, <1>4, <2>1 DEF Fresh, Allocating, PoolTypes
  <2>2. CASE ~ Allocating
    BY <1>3, <2>2 DEF Fresh, Allocating
  <2> QED BY <2>1, <2>2
<1>8. Releases'
  <2>1. cpc'[c] = "uncount" /\ \A d \in Consumers : d # c => cpc'[d] = cpc[d]
    BY <1>3 DEF PoolTypes
  <2>2. \A d \in Consumers : cpc'[d] # "idle" =>
            releasing'[d] \in Elements /\ releasing'[d][2] <= used'[BlockOf(releasing'[d])]
    BY <1>2, <1>3, <2>1 DEF Releases
  <2>3. ASSUME NEW d \in Consumers, cpc'[d] = "clear"
        PROVE  inUse'[releasing'[d]] /\ Holders(releasing[d])' = {}
    <3>1. d # c /\ cpc[d] = "clear" /\ releasing'[d] = releasing[d] /\ releasing[d] \in Elements
      BY <1>3, <2>1, <2>3 DEF Releases
    <3>2. releasing[d] # e
      BY <1>1, <1>2, <3>1 DEF Releases
    <3>3. inUse[releasing[d]] /\ Holders(releasing[d]) = {}
      BY <3>1 DEF Releases
    <3> QED BY <1>3, <1>4, <3>1, <3>2, <3>3 DEF PoolTypes
  <2>4. \A d, f \in Consumers :
            cpc'[d] = "clear" /\ cpc'[f] = "clear" /\ releasing'[d] = releasing'[f] => d = f
    BY <1>3, <2>1 DEF Releases
  <2> QED BY <2>2, <2>3, <2>4 DEF Releases
<1>9. Flags'
  <2>1. \A x \in Elements : Holders(x)' # {} => inUse'[x]
    BY <1>2, <1>3, <1>4 DEF Flags, PoolTypes
  <2>2. \A x \in Elements : x[2] > used'[BlockOf(x)] => ~ inUse'[x]
    BY <1>3 DEF Flags, PoolTypes
  <2> QED BY <2>1, <2>2 DEF Flags
<1>10. UsesAgree'
  BY <1>3, <1>4 DEF UsesAgree
<1>11. CountsAgree'
  <2>1. ASSUME NEW b \in Blocks
        PROVE  Cardinality(Flagged(b)') + Cardinality(ToUncount(b)')
                 = Cardinality(Flagged(b)) + Cardinality(ToUncount(b))
    <3>1. CASE b = BlockOf(e)
      <4>1. Flagged(b)' = Flagged(b) \ {e} /\ e \in Flagged(b)
        BY <1>2, <1>3, <3>1 DEF Flagged, PoolTypes
      <4>2. ToUncount(b)' = ToUncount(b) \cup {c} /\ c \notin ToUncount(b)
        BY <1>1, <1>2, <1>3, <3>1 DEF ToUncount, PoolTypes
      <4>3. Cardinality(Flagged(b)') = Cardinality(Flagged(b)) - 1
        BY <4>1, Counted, FS_RemoveElement
      <4>5. Cardinality(ToUncount(b)') = Cardinality(ToUncount(b)) + 1
        BY <4>2, Counted, FS_AddElement
      <4>4. Cardinality(Flagged(b)) \in Nat /\ Cardinality(ToUncount(b)) \in Nat
        BY Counted
      <4> QED BY <4>3, <4>4, <4>5
    <3>2. CASE b # BlockOf(e)
      <4>1. Flagged(b)' = Flagged(b)
        BY <1>2, <1>3, <3>2 DEF Flagged, PoolTypes
      <4>2. ToUncount(b)' = ToUncount(b)
        BY <1>1, <1>2, <1>3, <3>2 DEF ToUncount, PoolTypes
      <4> QED BY <4>1, <4>2
    <3> QED BY <3>1, <3>2
  <2>2. \A b \in Blocks : inUseCount'[b] + ToCount(b)' = inUseCount[b] + ToCount(b)
    BY <1>3 DEF ToCount
  <2> QED BY <2>1, <2>2 DEF CountsAgree
<1>12. StableWhileHeld'
  BY <1>3 DEF StableWhileHeld
<1> QED BY <1>5, <1>6, <1>7, <1>8, <1>9, <1>10, <1>11, <1>12

\* A thread that is still to count down is counted.
LEMMA UncountKeeps ==
    ASSUME PoolInv, NEW c \in Consumers, Uncount(c), UNCHANGED <<recycles, walk>>
    PROVE  PoolInv'
<1> USE DEF PoolInv, allocVars, blockVars
<1>1. /\ cpc[c] = "uncount" /\ releasing[c] \in Elements
      /\ cpc' = [cpc EXCEPT ![c] = "idle"] /\ releasing' = [releasing EXCEPT ![c] = NoElement]
      /\ inUseCount' = [inUseCount EXCEPT ![BlockOf(releasing[c])] = @ - 1]
      /\ UNCHANGED <<list, current, used, data, apc, element, allocs, inUse, remaining, held>>
  BY DEF Uncount, Releases
<1>2. PICK a \in Blocks : a = BlockOf(releasing[c])
  BY <1>1, ElementTypes
<1>3. /\ \A x : Holders(x)' = Holders(x) /\ \A b : Flagged(b)' = Flagged(b)
      /\ \A b : ToCount(b)' = ToCount(b)
  BY <1>1 DEF Holders, Flagged, ToCount
<1>4. \A b : b # a => ToUncount(b)' = ToUncount(b)
  BY <1>1, <1>2 DEF ToUncount, PoolTypes
<1>5. c \in ToUncount(a) /\ ToUncount(a)' = ToUncount(a) \ {c}
  BY <1>1, <1>2 DEF ToUncount, PoolTypes
<1>6. /\ inUseCount[a] + ToCount(a) = Cardinality(Flagged(a)) + Cardinality(ToUncount(a))
      /\ Cardinality(ToUncount(a)') = Cardinality(ToUncount(a)) - 1
      /\ Cardinality(ToUncount(a)') \in Nat
      /\ ToCount(a) = 1 => Cardinality(Flagged(a)) >= 1
      /\ inUseCount[a] \in Nat /\ ToCount(a) \in {0, 1}
      /\ Cardinality(Flagged(a)) \in Nat /\ Cardinality(ToUncount(a)) \in Nat
  <2>1. Cardinality(ToUncount(a) \ {c}) = Cardinality(ToUncount(a)) - 1
    BY <1>5, Counted, FS_RemoveElement
  <2>2. Cardinality(ToUncount(a) \ {c}) \in Nat
    <3>1. ToUncount(a) \ {c} \in SUBSET Consumers
      BY DEF ToUncount
    <3> QED BY <3>1, FiniteParts, FS_CardinalityType
  <2>3. ASSUME ToCount(a) = 1
        PROVE  Cardinality(Flagged(a)) >= 1
    <3>1. element \in Flagged(a)
      BY <2>3 DEF ToCount, Fresh, Allocating, Flagged
    <3>2. Cardinality(Flagged(a)) # 0
      BY <3>1, Counted, FS_EmptySet
    <3>3. Cardinality(Flagged(a)) \in Nat
      BY Counted
    <3> QED BY <3>2, <3>3
  <2> QED BY <1>5, <2>1, <2>2, <2>3, Counted DEF CountsAgree, PoolTypes
<1>7. inUseCount[a] - 1 \in Nat
  BY <1>6
<1>8. inUseCount' = [inUseCount EXCEPT ![a] = @ - 1]
  BY <1>1, <1>2
<1>9. PoolTypes'
  <2>1. inUseCount' \in [Blocks -> Nat]
    BY <1>7, <1>8 DEF PoolTypes
  <2> QED BY <1>1, <2>1 DEF PoolTypes
<1>10. ListShape' /\ Room' /\ WalkShape'
  BY <1>1 DEF ListShape, Room, WalkShape, Allocating, BlockFull, HeadBlock
<1>11. \A d \in Consumers : cpc'[d] # "idle" => d # c /\ cpc'[d] = cpc[d] /\ releasing'[d] = releasing[d]
  BY <1>1 DEF PoolTypes
<1>12. Fresh'
  BY <1>1, <1>3, <1>11 DEF Fresh, Allocating
<1>13. Releases'
  BY <1>1, <1>3, <1>11 DEF Releases
<1>14. Flags' /\ UsesAgree' /\ StableWhileHeld'
  BY <1>1, <1>3 DEF Flags, UsesAgree, StableWhileHeld
<1>15. CountsAgree'
  <2>1. ASSUME NEW b \in Blocks
        PROVE  inUseCount'[b] + ToCount(b) = Cardinality(Flagged(b)) + Cardinality(ToUncount(b)')
    <3>1. CASE b = a
      <4>1. inUseCount'[a] = inUseCount[a] - 1
        BY <1>8 DEF PoolTypes
      <4> QED BY <1>6, <3>1, <4>1
    <3>2. CASE b # a
      <4>1. inUseCount'[b] = inUseCount[b]
        BY <1>8, <3>2 DEF PoolTypes
      <4> QED BY <1>4, <3>2, <4>1 DEF CountsAgree
    <3> QED BY <3>1, <3>2
  <2> QED BY <1>3, <2>1 DEF CountsAgree
<1> QED BY <1>9, <1>10, <1>12, <1>13, <1>14, <1>15

-----------------------------------------------------------------------------
(* RecycleBlocks.                                                            *)

\* Nothing of the pool changes but where RecycleBlocks is in the list.
LEMMA WalkKeeps ==
    ASSUME PoolInv, UNCHANGED <<vars, recycles>>,
           \/ walk' = 0
           \/ /\ walk' \in Blocks /\ apc = "idle" /\ (walk' = HeadBlock \/ used[HeadBlock] = 0)
              /\ \E k \in 1..Len(list) : list[k] = walk'
    PROVE  PoolInv'
<1> USE DEF PoolInv, vars, allocVars, blockVars, useVars
<1>1. PoolTypes' /\ ListShape' /\ Room' /\ Releases' /\ Flags' /\ StableWhileHeld'
  BY SMTT(40) DEF PoolTypes, ListShape, Room, Releases, Flags, StableWhileHeld, Holders, Allocating, BlockFull
<1>2. Fresh' /\ UsesAgree'
  BY DEF Fresh, UsesAgree, Holders, Allocating
<1>3. CountsAgree'
  BY DEF CountsAgree, ToCount, Flagged, ToUncount
<1>4. WalkShape'
  BY DEF WalkShape, HeadBlock
<1> QED BY <1>1, <1>2, <1>3, <1>4

\* The steps of RecycleBlocks that only look.
LEMMA WalkStepKeeps ==
    ASSUME PoolInv, StartRecycling \/ PassOverUnused \/ EndWalk, UNCHANGED recycles
    PROVE  PoolInv'
<1>1. CASE StartRecycling
  <2>1. /\ HeadBlock \in Blocks /\ \E k \in 1..Len(list) : list[k] = HeadBlock
        /\ walk' = HeadBlock /\ apc = "idle" /\ UNCHANGED vars
    BY <1>1, BlocksOfList DEF StartRecycling, HeadBlock
  <2> QED BY <2>1, WalkKeeps
<1>2. CASE PassOverUnused
  <2>1. /\ walk # 0 /\ walk \in Blocks /\ used[walk] = 0 /\ apc = "idle"
        /\ used[HeadBlock] = 0 /\ UNCHANGED vars
        /\ \E k \in 1..Len(list) : list[k] = walk
    BY <1>2 DEF PassOverUnused, PoolInv, PoolTypes, WalkShape
  <2>2. CASE walk = TailBlock
    BY <1>2, <2>1, <2>2, WalkKeeps DEF PassOverUnused
  <2>3. CASE walk # TailBlock
    <3>1. walk' = list[Place(walk) + 1] /\ Place(walk) + 1 \in 1..Len(list)
      BY <1>2, <2>1, <2>3, BlocksOfList DEF PassOverUnused
    <3>2. list[Place(walk) + 1] \in Blocks
      BY <3>1 DEF PoolInv, ListShape
    <3> QED BY <2>1, <3>1, <3>2, WalkKeeps
  <2> QED BY <2>2, <2>3
<1>3. CASE EndWalk
  BY <1>3, WalkKeeps DEF EndWalk
<1> QED BY <1>1, <1>2, <1>3

\* The block that moves is the head; it is the finished one, or still unused.
LEMMA MoveFinishedKeeps ==
    ASSUME PoolInv, MoveFinished, UNCHANGED recycles
    PROVE  PoolInv'
<1>1. /\ walk # 0 /\ walk \in Blocks /\ Finished(walk) /\ apc = "idle" /\ ~ Allocating
      /\ (walk = HeadBlock \/ used[HeadBlock] = 0)
      /\ HeadBlock \in Blocks /\ Len(list) \in Nat \ {0} /\ current \in Blocks
  BY BlocksOfList DEF MoveFinished, PoolInv, PoolTypes, WalkShape, Allocating
<1>2. Quiet(HeadBlock)
  BY <1>1, NothingCounted, NothingUsed DEF Finished
<1>3. /\ Rotate /\ walk' = list'[1] /\ apc' = "idle" /\ current' = current
      /\ UNCHANGED <<data, element, allocs, inUse, remaining, held, cpc, releasing>>
  BY <1>1 DEF MoveFinished
<1> DEFINE kept ==
      /\ used' \in [Blocks -> 0..BlockSize] /\ inUseCount' \in [Blocks -> Nat]
      /\ list' \in Seq(Blocks) /\ Len(list') = Len(list)
      /\ \A k \in 1..Len(list) : list'[k] \in 1..Len(list)
      /\ \A b \in Blocks : (\E k \in 1..Len(list) : list[k] = b)
                               => \E k \in 1..Len(list') : list'[k] = b
      /\ \A b \in Blocks : b > Len(list') => used'[b] = 0
      /\ used'[HeadBlock] = 0 /\ \A b \in Blocks : b # HeadBlock => used'[b] = used[b]
      /\ Fresh' /\ Releases' /\ Flags' /\ UsesAgree' /\ CountsAgree' /\ StableWhileHeld'
<1>4. kept
  BY <1>1, <1>2, <1>3, RotateKeeps
<1>5. 1 \in 1..Len(list') /\ list'[1] \in Blocks
  BY <1>1, <1>4
<1>6. PoolTypes'
  BY <1>3, <1>4, <1>5 DEF PoolInv, PoolTypes
<1>7. ListShape'
  BY <1>1, <1>3, <1>4 DEF PoolInv, ListShape
<1>8. Room'
  <2>1. BlockFull(current)' => BlockFull(current)
    BY <1>1, <1>3, <1>4, ElementTypes DEF BlockFull
  <2> QED BY <1>1, <1>3, <1>4, <2>1 DEF PoolInv, Room, Allocating
<1>9. WalkShape'
  BY <1>3, <1>5 DEF WalkShape, HeadBlock
<1> QED BY <1>4, <1>6, <1>7, <1>8, <1>9 DEF PoolInv

-----------------------------------------------------------------------------
(* Every step.                                                               *)

\* Every step of Allocate, Release and RecycleBlocks keeps the invariant.
LEMMA StepKeeps == PoolInv /\ [NextRecycle]_recycleVars => PoolInv'
<1> SUFFICES ASSUME PoolInv, [NextRecycle]_recycleVars
             PROVE  PoolInv'
  OBVIOUS
<1>1. CASE RecycleBlocks /\ UNCHANGED recycles
  BY <1>1, WalkStepKeeps, MoveFinishedKeeps DEF RecycleBlocks
<1>2. CASE walk = 0 /\ Allocator /\ UNCHANGED walk /\ UNCHANGED recycles
  <2>1. 1..Cardinality(Consumers) \subseteq Nat
    OBVIOUS
  <2> QED BY <1>2, <2>1, ClaimKeeps, CountKeeps, ArmKeeps, StoreKeeps, MoveToNextKeeps, RecycleKeeps,
             LookAgainKeeps, CreateKeeps DEF Allocator
<1>3. ASSUME NEW c \in Consumers, OtherThread(c)
      PROVE  PoolInv'
  BY <1>3, DropKeeps, ClearKeeps, UncountKeeps DEF OtherThread, Consumer
<1>4. CASE UNCHANGED recycleVars
  BY <1>4, WalkKeeps DEF recycleVars, PoolInv, PoolTypes, WalkShape
<1> QED BY <1>1, <1>2, <1>3, <1>4 DEF NextRecycle, MainThread

\* The invariant of the pool: types, the list, the element being allocated, who
\* releases what, and the three counters, whoever calls what and when.
THEOREM Pool_Invariant == SpecRecycle => []PoolInv
<1> QED BY InitPool, StepKeeps, PTL DEF SpecRecycle

\* A record is not overwritten by a later Allocate while a thread it was handed
\* to has yet to Release it.
THEOREM Stable_While_Held == SpecRecycle => []StableWhileHeld
<1>1. PoolInv => StableWhileHeld
  BY DEF PoolInv
<1> QED BY <1>1, Pool_Invariant, PTL

\* remaining_uses_, in_use_ and in_use_count disagree by what is under way only.
THEOREM Counters_Agree == SpecRecycle => []CountersAgree
<1>1. PoolInv => CountersAgree
  BY DEF PoolInv, CountersAgree, UsesAgree, Flags, CountsAgree
<1> QED BY <1>1, Pool_Invariant, PTL

-----------------------------------------------------------------------------
(* What is created is needed.  Two facts more: an element whose flag is up   *)
(* has somebody to put it down; and in a program that leaves recycling to    *)
(* Allocate, the blocks in front of the current one are full.                *)

Served ==
    \A e \in Elements : inUse[e] /\ e # element =>
        Holders(e) # {} \/ \E c \in Consumers : cpc[c] = "clear" /\ releasing[c] = e

Filled ==
    ~ recycles =>
        /\ walk = 0
        /\ \A j, k \in 1..Len(list) : list[j] = list[k] => j = k
        /\ \A k \in 1..Len(list) : list[k] = current => \A j \in 1..(k - 1) : BlockFull(list[j])
        /\ apc = "again" => current = TailBlock

\* Most steps of the main thread leave flags, holders and releases alone.
LEMMA ServedStays ==
    ASSUME PoolInv, Served, ~ Allocating \/ element' = element,
           UNCHANGED <<inUse, held, cpc, releasing>>
    PROVE  Served'
<1>1. \A x : Holders(x)' = Holders(x)
  BY DEF Holders
<1>2. \A x \in Elements : x # element' => x # element
  BY ElementTypes DEF PoolInv, Fresh
<1> QED BY <1>1, <1>2 DEF Served

\* The flag Allocate raises has its record's threads to put it down.
LEMMA ServedByAllocator ==
    ASSUME PoolInv, Served, Allocator
    PROVE  Served'
<1>1. CASE ClaimElement
  <2>1. /\ inUse' = [inUse EXCEPT ![element'] = TRUE] /\ UNCHANGED <<held, cpc, releasing>>
        /\ \A x : Holders(x)' = Holders(x) /\ element = NoElement
    BY <1>1 DEF ClaimElement, PoolInv, Fresh, Allocating, Holders
  <2>2. \A x \in Elements : x # element' => x # element /\ inUse'[x] = inUse[x]
    BY <2>1, ElementTypes DEF PoolInv, PoolTypes
  <2> QED BY <2>1, <2>2 DEF Served
<1>2. ASSUME NEW n, ArmElement(n)
      PROVE  Served'
  BY <1>2, ServedStays DEF ArmElement
<1>3. CASE CountElement
  BY <1>3, ServedStays DEF CountElement
<1>4. ASSUME NEW threads \in (SUBSET Consumers) \ {{}}, StoreRecord(threads)
      PROVE  Served'
  <2>1. PICK e \in Elements : e = element
    BY <1>4 DEF StoreRecord, PoolInv, Fresh, Allocating
  <2>2. /\ UNCHANGED <<inUse, cpc, releasing>>
        /\ \A c \in Consumers : held[c] \subseteq held'[c]
        /\ \A c \in threads : <<e, allocs + 1>> \in held'[c]
    BY <1>4, <2>1 DEF StoreRecord, useVars
  <2>3. \A x \in Elements : Holders(x) \subseteq Holders(x)'
    BY <2>2 DEF Holders
  <2>4. Holders(e)' # {}
    <3>1. PICK c \in Consumers : <<e, allocs + 1>> \in held'[c]
      BY <2>2
    <3>2. c \in Holders(e)'
      BY <3>1 DEF Holders
    <3> QED BY <3>2
  <2>5. ASSUME NEW x \in Elements, inUse'[x], Holders(x)' = {}
        PROVE  \E c \in Consumers : cpc'[c] = "clear" /\ releasing'[c] = x
    <3>1. x # element /\ inUse[x] /\ Holders(x) = {}
      BY <2>1, <2>2, <2>3, <2>4, <2>5
    <3> QED BY <2>2, <3>1 DEF Served
  <2> QED BY <2>5 DEF Served
<1>5. CASE MoveToNext
  BY <1>5, ServedStays DEF MoveToNext, useVars
<1>6. CASE RecycleHead
  BY <1>6, ServedStays DEF RecycleHead
<1>7. CASE LookAgain
  BY <1>7, ServedStays DEF LookAgain, useVars
<1>8. CASE CreateBlock
  BY <1>8, ServedStays DEF CreateBlock, useVars
<1> QED BY <1>1, <1>2, <1>3, <1>4, <1>5, <1>6, <1>7, <1>8 DEF Allocator

\* The last to drop an element is the one to put its flag down.
LEMMA ServedByConsumer ==
    ASSUME PoolInv, Served, NEW c \in Consumers, Consumer(c)
    PROVE  Served'
<1>1. CASE DropUse(c)
  <2>1. cpc[c] = "idle" /\ UNCHANGED <<element, inUse>>
    BY <1>1 DEF DropUse, allocVars
  <2>2. PICK e \in Elements :
           /\ \A x \in Elements : x # e => Holders(x)' = Holders(x)
           /\ \/ /\ Holders(e)' = {} /\ cpc' = [cpc EXCEPT ![c] = "clear"]
                 /\ releasing' = [releasing EXCEPT ![c] = e]
              \/ Holders(e)' # {} /\ UNCHANGED <<cpc, releasing>>
    BY <1>1, DropFacts
  <2>3. \A d \in Consumers : cpc[d] = "clear" => cpc'[d] = "clear" /\ releasing'[d] = releasing[d]
    BY <2>1, <2>2 DEF PoolInv, PoolTypes
  <2>4. Holders(e)' # {} \/ (cpc'[c] = "clear" /\ releasing'[c] = e)
    BY <2>2 DEF PoolInv, PoolTypes
  <2>5. ASSUME NEW x \in Elements, inUse'[x], x # element', Holders(x)' = {}
        PROVE  \E d \in Consumers : cpc'[d] = "clear" /\ releasing'[d] = x
    <3>1. CASE x = e
      BY <2>4, <2>5, <3>1
    <3>2. CASE x # e
      <4>1. inUse[x] /\ x # element /\ Holders(x) = {}
        BY <2>1, <2>2, <2>5, <3>2
      <4> QED BY <2>3, <4>1 DEF Served
    <3> QED BY <3>1, <3>2
  <2> QED BY <2>5 DEF Served
<1>2. CASE ClearFlag(c)
  <2>1. PICK e \in Elements : e = releasing[c]
    BY <1>2 DEF ClearFlag, PoolInv, Releases
  <2>2. /\ inUse' = [inUse EXCEPT ![e] = FALSE] /\ UNCHANGED <<element, held, releasing>>
        /\ \A d \in Consumers : d # c => cpc'[d] = cpc[d]
    BY <1>2, <2>1 DEF ClearFlag, allocVars, PoolInv, PoolTypes
  <2>3. \A x : Holders(x)' = Holders(x)
    BY <2>2 DEF Holders
  <2>4. \A x \in Elements : inUse'[x] => x # e /\ inUse[x]
    BY <2>2 DEF PoolInv, PoolTypes
  <2> QED BY <2>1, <2>2, <2>3, <2>4 DEF Served
<1>3. CASE Uncount(c)
  <2>1. /\ cpc[c] = "uncount" /\ UNCHANGED <<element, held, inUse>>
        /\ \A d \in Consumers : d # c => cpc'[d] = cpc[d] /\ releasing'[d] = releasing[d]
    BY <1>3 DEF Uncount, allocVars, PoolInv, PoolTypes
  <2>2. \A x : Holders(x)' = Holders(x)
    BY <2>1 DEF Holders
  <2> QED BY <2>1, <2>2 DEF Served
<1> QED BY <1>1, <1>2, <1>3 DEF Consumer

\* No step leaves a flag up that nobody will put down.
LEMMA ServedByStep == PoolInv /\ Served /\ [NextRecycle]_recycleVars => Served'
<1> SUFFICES ASSUME PoolInv, Served, [NextRecycle]_recycleVars
             PROVE  Served'
  OBVIOUS
<1>1. CASE StartRecycling \/ PassOverUnused \/ EndWalk \/ UNCHANGED recycleVars
  <2>1. UNCHANGED <<element, inUse, held, cpc, releasing>>
    BY <1>1 DEF StartRecycling, PassOverUnused, EndWalk, recycleVars, vars, allocVars, useVars
  <2> QED BY <2>1, ServedStays
<1>2. CASE MoveFinished
  BY <1>2, ServedStays DEF MoveFinished
<1> QED BY <1>1, <1>2, ServedByAllocator, ServedByConsumer
       DEF NextRecycle, MainThread, OtherThread, RecycleBlocks

\* Once around: a block is emptied when it is the current one that is last.
LEMMA FilledByAllocator ==
    ASSUME PoolInv, Filled, ~ recycles, Allocator, walk = 0
    PROVE  /\ \A j, k \in 1..Len(list') : list'[j] = list'[k] => j = k
           /\ \A k \in 1..Len(list') : list'[k] = current' => \A j \in 1..(k - 1) : BlockFull(list[j])'
           /\ apc' = "again" => current' = TailBlock'
<1>1. /\ \A j, k \in 1..Len(list) : list[j] = list[k] => j = k
      /\ \A k \in 1..Len(list) : list[k] = current => \A j \in 1..(k - 1) : BlockFull(list[j])
      /\ apc = "again" => current = TailBlock
  BY DEF Filled
<1>2. /\ Len(list) \in Nat \ {0} /\ list \in Seq(Blocks) /\ current \in Blocks
      /\ \A k \in 1..Len(list) : list[k] \in Blocks /\ list[k] \in 1..Len(list)
      /\ used \in [Blocks -> 0..BlockSize] /\ BlockSize \in Nat \ {0}
  <2>1. Len(list) \in Nat \ {0} /\ current \in Blocks /\ BlockSize \in Nat \ {0}
    BY BlocksOfList, ElementTypes
  <2>2. list \in Seq(Blocks) /\ \A k \in 1..Len(list) : list[k] \in 1..Len(list)
    BY DEF PoolInv, ListShape
  <2>3. \A k \in 1..Len(list) : list[k] \in Blocks
    BY <2>2
  <2>4. used \in [Blocks -> 0..BlockSize]
    BY DEF PoolInv, PoolTypes
  <2> QED BY <2>1, <2>2, <2>3, <2>4
<1>3. CASE /\ UNCHANGED <<list, used, current>> /\ (apc' = "again" => current = TailBlock)
  BY <1>1, <1>3 DEF BlockFull, TailBlock
<1>4. CASE ClaimElement
  <2>1. /\ UNCHANGED <<list, current>> /\ apc' = "arm" /\ ~ BlockFull(current)
        /\ used' = [used EXCEPT ![current] = @ + 1]
    BY <1>4 DEF ClaimElement
  <2>2. \A b \in Blocks : BlockFull(b) => BlockFull(b)'
    BY <1>2, <2>1 DEF BlockFull
  <2> QED BY <1>1, <1>2, <2>1, <2>2
<1>5. CASE MoveToNext
  <2>1. /\ UNCHANGED <<list, used, apc>> /\ BlockFull(current) /\ apc' # "again"
        /\ current' = list[Place(current) + 1] /\ current # TailBlock
    BY <1>5 DEF MoveToNext
  <2>2. PICK p \in 1..Len(list) : p = Place(current) /\ list[p] = current
    BY DEF PoolInv, ListShape, Place
  <2>3. p + 1 \in 1..Len(list) /\ current' = list[p + 1]
    BY <1>2, <2>1, <2>2 DEF TailBlock
  <2>4. ASSUME NEW k \in 1..Len(list), list[k] = current', NEW j \in 1..(k - 1)
        PROVE  BlockFull(list[j])
    <3>1. k = p + 1 /\ j \in 1..p
      BY <1>1, <2>3, <2>4
    <3>2. CASE j = p
      BY <2>1, <2>2, <3>2
    <3>3. CASE j # p
      BY <1>1, <2>2, <3>1, <3>3
    <3> QED BY <3>2, <3>3
  <2> QED BY <1>1, <2>1, <2>4 DEF BlockFull
<1>6. CASE RecycleHead
  <2>1. /\ list' = Tail(list) \o <<list[1]>> /\ used' = [used EXCEPT ![list[1]] = 0]
        /\ BlockFull(current) /\ current = list[Len(list)] /\ current' = list[1] /\ apc' = "idle"
    BY <1>6 DEF RecycleHead, Rotate, HeadBlock, TailBlock
  <2>2. /\ Len(list') = Len(list) /\ list'[Len(list)] = list[1]
        /\ \A k \in 1..Len(list) : k # Len(list) => list'[k] = list[k + 1]
    BY <1>2, <2>1, Rotation
  <2>3. \A k \in 1..Len(list) : k # Len(list) => k + 1 \in 1..Len(list) /\ k + 1 # 1
    BY <1>2
  <2>4. 1 \in 1..Len(list) /\ Len(list) \in 1..Len(list)
    BY <1>2
  <2>5. ASSUME NEW j \in 1..Len(list), NEW k \in 1..Len(list), list'[j] = list'[k]
        PROVE  j = k
    <3>1. CASE j = Len(list) /\ k = Len(list)
      BY <3>1
    <3>2. CASE j = Len(list) /\ k # Len(list)
      BY <1>1, <2>2, <2>3, <2>4, <2>5, <3>2
    <3>3. CASE j # Len(list) /\ k = Len(list)
      BY <1>1, <2>2, <2>3, <2>4, <2>5, <3>3
    <3>4. CASE j # Len(list) /\ k # Len(list)
      <4>1. j + 1 = k + 1
        BY <1>1, <2>2, <2>3, <2>5, <3>4
      <4> QED BY <4>1
    <3> QED BY <3>1, <3>2, <3>3, <3>4
  <2>6. \A j \in 1..Len(list) : BlockFull(list[j])
    BY <1>1, <1>2, <2>1, <2>4
  <2>7. ASSUME NEW k \in 1..Len(list), NEW j \in 1..(k - 1)
        PROVE  BlockFull(list[j])'
    <3>1. j \in 1..Len(list) /\ j # Len(list)
      BY <1>2
    <3>2. list'[j] = list[j + 1] /\ j + 1 \in 1..Len(list) /\ list[j + 1] # list[1]
      BY <1>1, <2>2, <2>3, <2>4, <3>1
    <3>3. used'[list[j + 1]] = used[list[j + 1]]
      BY <1>2, <2>1, <3>2
    <3> QED BY <2>6, <3>2, <3>3 DEF BlockFull
  <2> QED BY <2>1, <2>2, <2>5, <2>7
<1>7. CASE CreateBlock
  <2>1. /\ list' = Append(list, Len(list) + 1) /\ current' = Len(list) + 1 /\ UNCHANGED used
        /\ apc = "again" /\ apc' = "idle" /\ BlockFull(current) /\ current = list[Len(list)]
    BY <1>1, <1>7 DEF CreateBlock, PoolInv, Room, TailBlock
  <2>2. /\ Len(list') = Len(list) + 1 /\ list'[Len(list) + 1] = Len(list) + 1
        /\ \A k \in 1..Len(list) : list'[k] = list[k]
    BY <1>2, <2>1
  <2>3. ASSUME NEW j \in 1..(Len(list) + 1), NEW k \in 1..(Len(list) + 1), list'[j] = list'[k]
        PROVE  j = k
    <3>1. \A i \in 1..(Len(list) + 1) : i = Len(list) + 1 \/ i \in 1..Len(list)
      BY <1>2
    <3>2. Len(list) + 1 \notin 1..Len(list)
      BY <1>2
    <3>3. CASE j \in 1..Len(list) /\ k \in 1..Len(list)
      BY <1>1, <2>2, <2>3, <3>3
    <3>4. CASE j \in 1..Len(list) /\ k = Len(list) + 1
      BY <1>2, <2>2, <2>3, <3>2, <3>4
    <3>5. CASE j = Len(list) + 1 /\ k \in 1..Len(list)
      BY <1>2, <2>2, <2>3, <3>2, <3>5
    <3> QED BY <3>1, <3>3, <3>4, <3>5
  <2>4. \A j \in 1..Len(list) : BlockFull(list[j])
    BY <1>1, <1>2, <2>1
  <2>5. ASSUME NEW k \in 1..(Len(list) + 1), NEW j \in 1..(k - 1)
        PROVE  BlockFull(list[j])'
    <3>1. j \in 1..Len(list)
      BY <1>2
    <3> QED BY <2>1, <2>2, <2>4, <3>1 DEF BlockFull
  <2> QED BY <2>1, <2>2, <2>3, <2>5
<1>8. CASE LookAgain
  BY <1>3, <1>8 DEF LookAgain, blockVars
<1>9. CASE CountElement
  BY <1>3, <1>9 DEF CountElement, blockVars
<1>10. ASSUME NEW n, ArmElement(n)
       PROVE  UNCHANGED <<list, used, current>> /\ apc' = "count"
  BY <1>10 DEF ArmElement, blockVars
<1>11. ASSUME NEW threads, StoreRecord(threads)
       PROVE  UNCHANGED <<list, used, current>> /\ apc' = "idle"
  BY <1>11 DEF StoreRecord, blockVars
<1> QED BY <1>3, <1>4, <1>5, <1>6, <1>7, <1>8, <1>9, <1>10, <1>11 DEF Allocator

\* No step of a program without RecycleBlocks leaves a gap before the current block.
LEMMA FilledByStep == PoolInv /\ Filled /\ [NextRecycle]_recycleVars => Filled'
<1> SUFFICES ASSUME PoolInv, Filled, [NextRecycle]_recycleVars, ~ recycles'
             PROVE  Filled'
  BY DEF Filled
<1>1. ~ recycles /\ walk = 0
  BY DEF Filled, NextRecycle, MainThread, OtherThread, recycleVars
<1>2. CASE walk = 0 /\ Allocator /\ UNCHANGED <<walk, recycles>>
  BY <1>1, <1>2, FilledByAllocator DEF Filled
<1>3. CASE UNCHANGED <<list, current, used, apc, recycles, walk>>
  BY <1>1, <1>3 DEF Filled, BlockFull, TailBlock
<1>4. CASE RecycleBlocks
  BY <1>1, <1>4 DEF RecycleBlocks, StartRecycling, PassOverUnused, MoveFinished, EndWalk
<1>5. ASSUME NEW c \in Consumers, OtherThread(c)
      PROVE  UNCHANGED <<list, current, used, apc, recycles, walk>>
  BY <1>5 DEF OtherThread, Consumer, DropUse, ClearFlag, Uncount, allocVars, blockVars
<1>6. CASE UNCHANGED recycleVars
  BY <1>3, <1>6 DEF recycleVars, vars, allocVars, blockVars
<1> QED BY <1>2, <1>3, <1>4, <1>5, <1>6 DEF NextRecycle, MainThread

\* Somebody holds, or is just releasing, an element of a head block that
\* cannot be taken again.
LEMMA SomebodyHolds ==
    ASSUME PoolInv, Served, ~ Allocating, BlockFull(HeadBlock), ~ Recyclable
    PROVE  \E c \in Consumers : \/ BlockOf(releasing[c]) = HeadBlock
                                \/ \E ref \in held[c] : BlockOf(ref[1]) = HeadBlock
<1>1. PICK h \in Blocks : h = HeadBlock
  BY BlocksOfList
<1>2. inUseCount[h] # 0
  BY <1>1 DEF Recyclable
<1>3. ToCount(h) = 0 /\ element = NoElement
  BY DEF ToCount, Allocating, PoolInv, Fresh
<1>4. Flagged(h) # {} \/ ToUncount(h) # {}
  <2>1. SUFFICES ASSUME Flagged(h) = {} /\ ToUncount(h) = {}
                 PROVE  FALSE
    OBVIOUS
  <2>2. Cardinality(Flagged(h)) = 0 /\ Cardinality(ToUncount(h)) = 0
    BY <2>1, FS_EmptySet
  <2>3. inUseCount[h] + ToCount(h) = 0 /\ inUseCount[h] \in Nat
    BY <2>2 DEF PoolInv, CountsAgree, PoolTypes
  <2> QED BY <1>2, <1>3, <2>3
<1>5. CASE ToUncount(h) # {}
  BY <1>1, <1>5 DEF ToUncount
<1>6. CASE Flagged(h) # {}
  <2>1. PICK e \in Elements : BlockOf(e) = h /\ inUse[e]
    BY <1>6 DEF Flagged
  <2>2. Holders(e) # {} \/ \E c \in Consumers : cpc[c] = "clear" /\ releasing[c] = e
    BY <1>3, <2>1, ElementTypes DEF Served
  <2>3. CASE Holders(e) # {}
    BY <1>1, <2>1, <2>3 DEF Holders
  <2>4. CASE \E c \in Consumers : cpc[c] = "clear" /\ releasing[c] = e
    BY <1>1, <2>1, <2>4
  <2> QED BY <2>2, <2>3, <2>4
<1> QED BY <1>4, <1>5, <1>6

\* Only CreateBlock makes the list longer.
LEMMA OnlyCreateGrows ==
    ASSUME PoolInv, [NextRecycle]_recycleVars, Len(list') > Len(list)
    PROVE  CreateBlock
<1>1. Len(list) \in Nat /\ list \in Seq(Blocks) /\ Len(list) >= 1
  BY DEF PoolInv, ListShape
<1>2. list' # list
  BY <1>1
<1>3. ~ Rotate
  <2>1. SUFFICES ASSUME Rotate PROVE FALSE
    OBVIOUS
  <2>2. list' = Tail(list) \o <<list[1]>>
    BY <2>1 DEF Rotate, HeadBlock
  <2>3. Len(list') = Len(list)
    BY <1>1, <2>2, Rotation
  <2> QED BY <1>1, <2>3
<1>4. ~ RecycleBlocks
  BY <1>2, <1>3 DEF RecycleBlocks, StartRecycling, PassOverUnused, MoveFinished, EndWalk, vars,
                    allocVars, blockVars
<1>5. \A c \in Consumers : ~ Consumer(c)
  BY <1>2 DEF Consumer, DropUse, ClearFlag, Uncount, allocVars, blockVars
<1>6. Allocator
  BY <1>2, <1>4, <1>5 DEF NextRecycle, MainThread, OtherThread, recycleVars, vars, allocVars, blockVars
<1> QED BY <1>2, <1>3, <1>6 DEF Allocator, ClaimElement, ArmElement, CountElement, StoreRecord, MoveToNext,
                    RecycleHead, LookAgain, blockVars

\* What CreatesOnlyWhenFull says of one step.
LEMMA CreatedWhenFull ==
    ASSUME PoolInv, Served, Filled, [NextRecycle]_recycleVars, Len(list') > Len(list), ~ recycles
    PROVE  /\ \A k \in 1..Len(list) : BlockFull(list[k])
           /\ \E c \in Consumers : \/ BlockOf(releasing[c]) = HeadBlock
                                   \/ \E ref \in held[c] : BlockOf(ref[1]) = HeadBlock
<1>1. /\ apc = "again" /\ ~ Recyclable /\ ~ Allocating /\ BlockFull(current)
      /\ current = list[Len(list)] /\ Len(list) \in Nat /\ Len(list) >= 1
  BY OnlyCreateGrows DEF CreateBlock, PoolInv, Room, ListShape, Filled, TailBlock, Allocating
<1>2. ASSUME NEW k \in 1..Len(list)
      PROVE  BlockFull(list[k])
  <2>1. CASE k = Len(list)
    BY <1>1, <2>1
  <2>2. CASE k # Len(list)
    <3>1. Len(list) \in 1..Len(list) /\ k \in 1..(Len(list) - 1)
      BY <1>1, <2>2
    <3> QED BY <1>1, <3>1 DEF Filled
  <2> QED BY <2>1, <2>2
<1>3. BlockFull(HeadBlock)
  BY <1>1, <1>2 DEF HeadBlock
<1> QED BY <1>1, <1>2, <1>3, SomebodyHolds

\* In a program that leaves recycling to Allocate, a block is created only when
\* all blocks are full and the head block is still held by some thread.
THEOREM Creates_Only_When_Full == SpecRecycle => CreatesOnlyWhenFull
<1>1. InitRecycle => Served /\ Filled
  <2>1. InitRecycle => Served
    BY DEF InitRecycle, Init, Served
  <2>2. InitRecycle => Filled
    BY PoolAssumption DEF InitRecycle, Init, Filled
  <2> QED BY <2>1, <2>2
<1>2. PoolInv /\ Served /\ Filled /\ [NextRecycle]_recycleVars
        => [Len(list') > Len(list) /\ ~ recycles =>
              /\ \A k \in 1..Len(list) : BlockFull(list[k])
              /\ \E c \in Consumers : \/ BlockOf(releasing[c]) = HeadBlock
                                      \/ \E ref \in held[c] : BlockOf(ref[1]) = HeadBlock]_vars
  BY CreatedWhenFull
<1> QED BY <1>1, <1>2, Pool_Invariant, ServedByStep, FilledByStep, PTL
       DEF SpecRecycle, CreatesOnlyWhenFull
=============================================================================
