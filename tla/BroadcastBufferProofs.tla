----------------------- MODULE BroadcastBufferProofs -----------------------
(* The broadcast buffer implements one broadcast log, for every number of    *)
(* consumers, size and number of blocks and number of items.                 *)
(*                                                                           *)
(* The items are thought of as written on pages of BlockSize items, numbered *)
(* from 0; the list of blocks holds the pages from H on, the head block page *)
(* H, and L[q] is the block that holds page q.  Recycling the head block     *)
(* makes page H + blockCount of it, and H one more.                          *)
EXTENDS BroadcastBuffer, FiniteSetTheorems, TLAPS

\* Item k + 1 is at position Pos(k) of page Page(k).
Page(k) == k \div BlockSize
Pos(k)  == k % BlockSize

\* The producer has filled the slots of so many items, and moved past so many.
FilledItems == IF ppc = "fill" THEN writeNum ELSE writeNum + 1
PassedItems == IF ppc = "publish" THEN writeNum + 1 ELSE writeNum

LastPage(H) == H + blockCount - 1

\* The consumers that have counted themselves out of page q.
OutOf(q) == {c \in Consumers : /\ Page(readNum[c]) > q
                               /\ ~ (cpc[c] = "count" /\ Page(readNum[c]) = q + 1)}

BufferTypes ==
    /\ next \in [Blocks -> Blocks \cup {NoBlock}]
    /\ data \in [Blocks -> [Places -> Nat]]
    /\ count \in [Blocks -> Nat]
    /\ blockCount \in Nat \ {0} /\ blockCount <= InitialBlocks + PassedItems
    /\ writeNum \in Nat /\ cachedActive \in Nat
    /\ ppc \in {"fill", "advance", "relink", "publish"}
    /\ ppc # "fill" => writeNum < MaxItems
    /\ registered \subseteq Consumers
    /\ readBlock \in [Consumers -> Blocks \cup {NoBlock}]
    /\ readPos \in [Consumers -> Nat]
    /\ readNum \in [Consumers -> Nat]
    /\ snapshot \in [Consumers -> Nat]
    /\ got \in [Consumers -> Nat]
    /\ leaving \in [Consumers -> Blocks \cup {NoBlock}]
    /\ cpc \in [Consumers -> {"idle", "copy", "advance", "count"}]

\* The list of blocks, and the blocks that were not created yet.
Linked(H, L) ==
    /\ \A q \in H .. LastPage(H) : L[q] \in 1 .. blockCount
    /\ \A q, r \in H .. LastPage(H) : L[q] = L[r] => q = r
    /\ head = L[H] /\ tail = L[LastPage(H)]
    /\ \A q \in H .. LastPage(H) : next[L[q]] = IF q = LastPage(H) THEN NoBlock ELSE L[q + 1]
    /\ \A b \in Blocks : b > blockCount =>
          next[b] = NoBlock /\ count[b] = 0 /\ \A p \in Places : data[b][p] = 0

\* Where the producer is.
Writing(H, L) ==
    /\ Page(PassedItems) \in H .. LastPage(H)
    /\ write = L[Page(PassedItems)] /\ writePos = Pos(PassedItems)
    /\ ppc = "relink" => /\ Page(PassedItems) = LastPage(H) /\ writePos + 1 = BlockSize
                         /\ OutOf(H) = Consumers

\* An item is where it was filled in, until its page is recycled; what lies
\* where the next items will go has been read by everyone.
Stored(H, L) ==
    \A q \in H .. LastPage(H), k \in Nat : Page(k) = q =>
        IF k < FilledItems THEN data[L[q]][Pos(k)] = k + 1
        ELSE \A c \in Consumers : data[L[q]][Pos(k)] <= readNum[c]

\* Where the consumers are.
Reading(H, L) ==
    \A c \in Consumers :
        /\ readNum[c] <= snapshot[c] /\ snapshot[c] <= writeNum
        /\ cpc[c] \in {"copy", "advance"} => readNum[c] < snapshot[c]
        /\ Page(readNum[c]) >= H /\ readPos[c] = Pos(readNum[c])
        /\ c \in registered => readBlock[c] = L[Page(readNum[c])]
        /\ cpc[c] = "count" => Page(readNum[c]) > H /\ leaving[c] = L[Page(readNum[c]) - 1]
        /\ cpc[c] # "count" => leaving[c] = NoBlock
        /\ c \notin registered => readNum[c] = 0 /\ cpc[c] = "idle"

\* The counters of the blocks, and what the producer knows of the consumers:
\* nothing is recycled before all of them have registered.
Counting(H, L) ==
    /\ \A q \in H .. LastPage(H) : count[L[q]] = Cardinality(OutOf(q))
    /\ cachedActive # 0 => cachedActive = Cardinality(Consumers)
    /\ registered # Consumers => H = 0 /\ ppc # "relink" /\ cachedActive = 0

BufferInvAt(H, L) ==
    Linked(H, L) /\ Writing(H, L) /\ Stored(H, L) /\ Reading(H, L) /\ Counting(H, L)

BufferInv == BufferTypes /\ \E H \in Nat, L \in [Nat -> Blocks] : BufferInvAt(H, L)

-----------------------------------------------------------------------------
(* Pages.                                                                    *)

\* Every item has its place, and every place of every page has its item.
LEMMA PageTypes ==
    /\ BlockSize \in Nat \ {0} /\ Places = 0 .. BlockSize - 1 /\ 0 \in Places
    /\ \A k \in Nat : Page(k) \in Nat /\ Pos(k) \in Places /\ k = BlockSize * Page(k) + Pos(k)
    /\ Page(0) = 0 /\ Pos(0) = 0
    /\ \A q \in Nat, p \in Places : \E k \in Nat : Page(k) = q /\ Pos(k) = p
<1>1. BlockSize \in Nat \ {0} /\ Places = 0 .. BlockSize - 1 /\ 0 \in Places
  BY BufferAssumption DEF Places
<1>2. ASSUME NEW k \in Nat
      PROVE  Page(k) \in Nat /\ Pos(k) \in Places /\ k = BlockSize * Page(k) + Pos(k)
  BY <1>1, SMT DEF Page, Pos
<1>3. Page(0) = 0 /\ Pos(0) = 0
  BY <1>1, SMT DEF Page, Pos
<1>4. ASSUME NEW q \in Nat, NEW p \in Places
      PROVE  \E k \in Nat : Page(k) = q /\ Pos(k) = p
  <2>1. BlockSize * q + p \in Nat
    BY <1>1, SMT
  <2>2. (BlockSize * q + p) \div BlockSize = q /\ (BlockSize * q + p) % BlockSize = p
    BY <1>1, SMT
  <2> QED BY <2>1, <2>2 DEF Page, Pos
<1> QED BY <1>1, <1>2, <1>3, <1>4

\* Items are counted through the pages in order.
LEMMA PageOrder ==
    ASSUME NEW j \in Nat, NEW k \in Nat
    PROVE  /\ j <= k => Page(j) <= Page(k)
           /\ Page(j) = Page(k) /\ Pos(j) <= Pos(k) => j <= k
<1>1. /\ BlockSize \in Nat \ {0} /\ Page(j) \in Nat /\ Page(k) \in Nat
      /\ Pos(j) \in 0 .. BlockSize - 1 /\ Pos(k) \in 0 .. BlockSize - 1
      /\ j = BlockSize * Page(j) + Pos(j) /\ k = BlockSize * Page(k) + Pos(k)
  BY PageTypes
<1>2. ASSUME Page(j) > Page(k)
      PROVE  j > k
  <2>1. PICK d \in Nat : Page(j) = Page(k) + 1 + d
    <3>1. Page(j) - Page(k) - 1 \in Nat
      BY <1>1, <1>2
    <3> QED BY <1>1, <3>1
  <2>2. BlockSize * Page(j) = BlockSize * Page(k) + BlockSize + BlockSize * d
    BY <1>1, <2>1, SMT
  <2>3. BlockSize * d \in Nat /\ BlockSize * Page(k) \in Nat
    BY <1>1, <2>1, SMT
  <2> HIDE DEF Page, Pos
  <2> QED BY <1>1, <2>2, <2>3
<1>3. j <= k => Page(j) <= Page(k)
  BY <1>1, <1>2
<1>4. ASSUME Page(j) = Page(k), Pos(j) <= Pos(k)
      PROVE  j <= k
  <2>1. BlockSize * Page(j) = BlockSize * Page(k) /\ BlockSize * Page(k) \in Nat
    BY <1>1, <1>4, SMT
  <2> QED BY <1>1, <1>4, <2>1
<1> QED BY <1>3, <1>4

\* The next item is on the same page, or the first of the next.
LEMMA PageStep ==
    ASSUME NEW k \in Nat
    PROVE  /\ Pos(k) + 1 # BlockSize => Page(k + 1) = Page(k) /\ Pos(k + 1) = Pos(k) + 1
           /\ Pos(k) + 1 = BlockSize => Page(k + 1) = Page(k) + 1 /\ Pos(k + 1) = 0
<1>1. /\ BlockSize \in Nat \ {0} /\ Page(k) \in Nat
      /\ Pos(k) \in 0 .. BlockSize - 1 /\ k = BlockSize * Page(k) + Pos(k)
  BY PageTypes
<1>2. ASSUME NEW q \in Nat, NEW p \in 0 .. BlockSize - 1, k + 1 = BlockSize * q + p
      PROVE  Page(k + 1) = q /\ Pos(k + 1) = p
  <2>1. (BlockSize * q + p) \div BlockSize = q /\ (BlockSize * q + p) % BlockSize = p
    BY <1>1, SMT
  <2> QED BY <1>2, <2>1 DEF Page, Pos
<1>3. CASE Pos(k) + 1 # BlockSize
  <2>1. Pos(k) + 1 \in 0 .. BlockSize - 1 /\ BlockSize * Page(k) \in Nat
    BY <1>1, <1>3, SMT
  <2>2. k + 1 = BlockSize * Page(k) + (Pos(k) + 1)
    BY <1>1, <2>1
  <2> QED BY <1>1, <1>2, <1>3, <2>1, <2>2
<1>4. CASE Pos(k) + 1 = BlockSize
  <2>1. BlockSize * (Page(k) + 1) = BlockSize * Page(k) + BlockSize /\ BlockSize * Page(k) \in Nat
    BY <1>1, SMT
  <2>2. k + 1 = BlockSize * (Page(k) + 1) + 0 /\ Page(k) + 1 \in Nat /\ 0 \in 0 .. BlockSize - 1
    BY <1>1, <1>4, <2>1
  <2> QED BY <1>2, <1>4, <2>2
<1> QED BY <1>3, <1>4

\* An item is the only one at its place.
LEMMA PageOne ==
    ASSUME NEW j \in Nat, NEW k \in Nat, Page(j) = Page(k), Pos(j) = Pos(k)
    PROVE  j = k
<1>1. Pos(j) <= Pos(k) /\ Pos(k) <= Pos(j)
  BY PageTypes
<1> QED BY <1>1, PageOrder

\* Where pages, items and consumers are in a state of the invariant.
LEMMA Bounds ==
    ASSUME BufferTypes, NEW H \in Nat, NEW L \in [Nat -> Blocks], BufferInvAt(H, L)
    PROVE  /\ LastPage(H) \in Nat /\ H <= LastPage(H) /\ H \in H .. LastPage(H)
           /\ LastPage(H) \in H .. LastPage(H) /\ H .. LastPage(H) \subseteq Nat
           /\ PassedItems \in Nat /\ FilledItems \in Nat
           /\ writeNum <= PassedItems /\ PassedItems <= FilledItems
           /\ Page(PassedItems) \in H .. LastPage(H)
           /\ head \in Blocks /\ tail \in Blocks /\ write \in Blocks
           /\ head <= blockCount /\ tail <= blockCount /\ write <= blockCount
           /\ writePos \in Places
           /\ \A c \in Consumers : /\ readNum[c] \in Nat /\ readNum[c] <= writeNum
                                   /\ Page(readNum[c]) \in H .. LastPage(H)
                                   /\ Page(readNum[c]) <= Page(PassedItems)
<1> USE DEF BufferInvAt
<1>1. /\ LastPage(H) \in Nat /\ H <= LastPage(H) /\ H \in H .. LastPage(H)
      /\ LastPage(H) \in H .. LastPage(H) /\ H .. LastPage(H) \subseteq Nat
  BY DEF BufferTypes, LastPage
<1>2. /\ PassedItems \in Nat /\ FilledItems \in Nat
      /\ writeNum <= PassedItems /\ PassedItems <= FilledItems
  BY DEF BufferTypes, PassedItems, FilledItems
<1>3. Page(PassedItems) \in H .. LastPage(H) /\ writePos \in Places
  BY <1>2, PageTypes DEF Writing
<1>4. /\ head \in Blocks /\ tail \in Blocks /\ write \in Blocks
      /\ head <= blockCount /\ tail <= blockCount /\ write <= blockCount
  BY <1>1, <1>3 DEF Linked, Writing, BufferTypes
<1>5. ASSUME NEW c \in Consumers
      PROVE  /\ readNum[c] \in Nat /\ readNum[c] <= writeNum
             /\ Page(readNum[c]) \in H .. LastPage(H)
             /\ Page(readNum[c]) <= Page(PassedItems)
  <2>1. readNum[c] \in Nat /\ snapshot[c] \in Nat /\ writeNum \in Nat
    BY DEF BufferTypes
  <2>2. readNum[c] <= snapshot[c] /\ snapshot[c] <= writeNum /\ Page(readNum[c]) >= H
    BY DEF Reading
  <2>3. readNum[c] <= PassedItems /\ readNum[c] <= writeNum
    BY <1>2, <2>1, <2>2
  <2>4. Page(readNum[c]) <= Page(PassedItems) /\ Page(readNum[c]) \in Nat
    BY <1>2, <2>1, <2>3, PageOrder, PageTypes
  <2> QED BY <1>1, <1>3, <2>1, <2>2, <2>3, <2>4
<1> QED BY <1>1, <1>2, <1>3, <1>4, <1>5

\* Steps that leave blocks, producer and what the consumers have read alone.
LEMMA ChainStays ==
    ASSUME BufferTypes, NEW H \in Nat, NEW L \in [Nat -> Blocks], BufferInvAt(H, L),
           UNCHANGED <<next, data, count, blockCount, head, tail, write, writePos, writeNum, ppc,
                       readNum>>,
           \A c \in Consumers : cpc[c] = "count" <=> cpc'[c] = "count"
    PROVE  /\ Linked(H, L)' /\ Writing(H, L)' /\ Stored(H, L)'
           /\ \A q : OutOf(q)' = OutOf(q)
<1> USE DEF BufferInvAt
<1>1. \A q : OutOf(q)' = OutOf(q)
  BY DEF OutOf
<1>2. LastPage(H)' = LastPage(H) /\ PassedItems' = PassedItems /\ FilledItems' = FilledItems
  BY DEF LastPage, PassedItems, FilledItems
<1>3. Linked(H, L)'
  BY <1>2 DEF Linked
<1>4. Writing(H, L)'
  BY <1>1, <1>2 DEF Writing
<1>5. Stored(H, L)'
  BY <1>2 DEF Stored
<1> QED BY <1>1, <1>3, <1>4, <1>5

\* A consumer registers while the head block holds page 0.
LEMMA RegisterKeeps ==
    ASSUME BufferTypes, NEW H \in Nat, NEW L \in [Nat -> Blocks], BufferInvAt(H, L),
           NEW c \in Consumers, RegisterConsumer(c)
    PROVE  BufferTypes' /\ BufferInvAt(H, L)'
<1> USE DEF RegisterConsumer, chain
<1>1. BufferTypes'
  BY Bounds DEF BufferTypes, PassedItems
<1>2. /\ Linked(H, L)' /\ Writing(H, L)' /\ Stored(H, L)'
      /\ \A q : OutOf(q)' = OutOf(q)
  BY ChainStays
<1>3. Reading(H, L)'
  <2>1. H = 0 /\ readNum[c] = 0 /\ head = L[0] /\ Page(readNum[c]) = 0
    BY PageTypes DEF BufferInvAt, Counting, Reading, Linked
  <2>2. readBlock'[c] = L[Page(readNum[c])]
    BY <2>1 DEF BufferTypes
  <2>3. \A d \in Consumers : d # c => readBlock'[d] = readBlock[d]
    BY DEF BufferTypes
  <2> QED BY <2>2, <2>3 DEF BufferInvAt, Reading
<1>4. Counting(H, L)'
  BY <1>2 DEF BufferInvAt, Counting, LastPage
<1> QED BY <1>1, <1>2, <1>3, <1>4 DEF BufferInvAt

\* A slot is filled with the next item once everyone has read the old one.
LEMMA FillKeeps ==
    ASSUME BufferTypes, NEW H \in Nat, NEW L \in [Nat -> Blocks], BufferInvAt(H, L),
           FillSlot
    PROVE  /\ BufferTypes' /\ BufferInvAt(H, L)'
           /\ \A c \in Consumers : data[write][writePos] <= readNum[c]
<1> USE DEF FillSlot, tokens
<1>1. /\ PassedItems = writeNum /\ PassedItems' = writeNum /\ FilledItems = writeNum
      /\ FilledItems' = writeNum + 1 /\ LastPage(H)' = LastPage(H) /\ writeNum \in Nat
  BY DEF PassedItems, FilledItems, LastPage, BufferTypes
<1>2. /\ write \in Blocks /\ write <= blockCount /\ writePos \in Places
      /\ write = L[Page(writeNum)] /\ writePos = Pos(writeNum)
      /\ Page(writeNum) \in H .. LastPage(H)
  BY <1>1, Bounds DEF BufferInvAt, Writing
<1>3. BufferTypes'
  BY <1>1, <1>2 DEF BufferTypes
<1>4. \A q : OutOf(q)' = OutOf(q)
  BY DEF OutOf
<1>5. Linked(H, L)'
  BY <1>1, <1>2 DEF BufferInvAt, Linked, BufferTypes
<1>6. Writing(H, L)'
  BY <1>1 DEF BufferInvAt, Writing
<1>7. Stored(H, L)'
  <2>1. ASSUME NEW q \in H .. LastPage(H), NEW k \in Nat, Page(k) = q
        PROVE  IF k < writeNum + 1 THEN data'[L[q]][Pos(k)] = k + 1
               ELSE \A c \in Consumers : data'[L[q]][Pos(k)] <= readNum'[c]
    <3>1. L[q] \in Blocks /\ Pos(k) \in Places
      BY <2>1, PageTypes, Bounds
    <3>2. CASE k = writeNum
      BY <1>2, <2>1, <3>1, <3>2 DEF BufferTypes
    <3>3. CASE k # writeNum
      <4>1. ~ (L[q] = write /\ Pos(k) = writePos)
        <5>1. L[q] = write => q = Page(writeNum)
          BY <1>2 DEF BufferInvAt, Linked
        <5> QED BY <1>1, <1>2, <2>1, <3>3, <5>1, PageOne
      <4>2. data'[L[q]][Pos(k)] = data[L[q]][Pos(k)]
        BY <1>2, <3>1, <4>1 DEF BufferTypes
      <4>3. k < writeNum + 1 <=> k < writeNum
        BY <1>1, <3>3
      <4> QED BY <1>1, <2>1, <4>2, <4>3 DEF BufferInvAt, Stored
    <3> QED BY <3>2, <3>3
  <2> QED BY <1>1, <2>1 DEF Stored
<1>8. Reading(H, L)'
  BY DEF BufferInvAt, Reading
<1>9. Counting(H, L)'
  BY <1>1, <1>4 DEF BufferInvAt, Counting
<1>10. \A c \in Consumers : data[write][writePos] <= readNum[c]
  BY <1>1, <1>2 DEF BufferInvAt, Stored
<1> QED BY <1>3, <1>5, <1>6, <1>7, <1>8, <1>9, <1>10 DEF BufferInvAt

\* Steps of the producer that leave the blocks and the consumers alone.
LEMMA ReadersStay ==
    ASSUME BufferTypes, NEW H \in Nat, NEW L \in [Nat -> Blocks], BufferInvAt(H, L),
           UNCHANGED <<next, data, count, blockCount, head, tail, tokens, cpc>>,
           FilledItems' = FilledItems, writeNum' \in Nat, writeNum <= writeNum',
           cachedActive' = cachedActive \/ cachedActive' = Cardinality(Consumers),
           ppc' = "relink" \/ cachedActive' # cachedActive => registered = Consumers
    PROVE  /\ Linked(H, L)' /\ Stored(H, L)' /\ Reading(H, L)' /\ Counting(H, L)'
           /\ LastPage(H)' = LastPage(H) /\ \A q : OutOf(q)' = OutOf(q)
<1> USE DEF BufferInvAt, tokens
<1>1. \A q : OutOf(q)' = OutOf(q)
  BY DEF OutOf
<1>2. LastPage(H)' = LastPage(H)
  BY DEF LastPage
<1>3. Linked(H, L)' /\ Stored(H, L)'
  BY <1>2 DEF Linked, Stored
<1>4. Reading(H, L)'
  <2>1. \A c \in Consumers : snapshot[c] \in Nat /\ snapshot[c] <= writeNum /\ writeNum \in Nat
    BY DEF Reading, BufferTypes
  <2>2. \A c \in Consumers : snapshot'[c] <= writeNum'
    BY <2>1
  <2> QED BY <2>2 DEF Reading
<1>5. Counting(H, L)'
  BY <1>1, <1>2 DEF Counting
<1> QED BY <1>1, <1>2, <1>3, <1>4, <1>5

\* The producer moves to the next slot: in its block, or first of the next.
LEMMA AdvanceKeeps ==
    ASSUME BufferTypes, NEW H \in Nat, NEW L \in [Nat -> Blocks], BufferInvAt(H, L),
           AdvanceInBlock \/ AdvanceToNext
    PROVE  BufferTypes' /\ BufferInvAt(H, L)'
<1>1. /\ ppc = "advance" /\ ppc' = "publish" /\ writeNum' = writeNum /\ writeNum \in Nat
      /\ UNCHANGED <<next, data, count, blockCount, head, tail, cachedActive, tokens, cpc>>
  BY DEF AdvanceInBlock, AdvanceToNext, BufferTypes
<1>2. /\ PassedItems = writeNum /\ PassedItems' = writeNum + 1 /\ FilledItems' = FilledItems
  BY <1>1 DEF PassedItems, FilledItems
<1>3. /\ Linked(H, L)' /\ Stored(H, L)' /\ Reading(H, L)' /\ Counting(H, L)'
      /\ LastPage(H)' = LastPage(H)
  BY <1>1, <1>2, ReadersStay
<1>4. /\ write = L[Page(writeNum)] /\ writePos = Pos(writeNum)
      /\ Page(writeNum) \in H .. LastPage(H)
  BY <1>2 DEF BufferInvAt, Writing
<1>5. /\ Page(writeNum + 1) \in H .. LastPage(H)
      /\ write' = L[Page(writeNum + 1)] /\ writePos' = Pos(writeNum + 1)
  <2>1. CASE AdvanceInBlock
    <3>1. writePos + 1 # BlockSize /\ writePos' = writePos + 1 /\ write' = write
      BY <2>1 DEF AdvanceInBlock
    <3> QED BY <1>1, <1>4, <3>1, PageStep
  <2>2. CASE AdvanceToNext
    <3>1. writePos + 1 = BlockSize /\ writePos' = 0 /\ write' = next[write] /\ next[write] # NoBlock
      BY <2>2 DEF AdvanceToNext
    <3>2. Page(writeNum) # LastPage(H) /\ next[write] = L[Page(writeNum) + 1]
      BY <1>4, <3>1 DEF BufferInvAt, Linked
    <3>3. Page(writeNum) + 1 \in H .. LastPage(H)
      BY <1>4, <3>2, Bounds
    <3> QED BY <1>1, <1>4, <3>1, <3>2, <3>3, PageStep
  <2> QED BY <2>1, <2>2, <1>1 DEF AdvanceInBlock, AdvanceToNext
<1>6. Writing(H, L)'
  BY <1>1, <1>2, <1>3, <1>5 DEF Writing
<1>7. BufferTypes'
  BY <1>1, <1>2, BufferAssumption DEF BufferTypes, tokens
<1> QED BY <1>3, <1>6, <1>7 DEF BufferInvAt

\* What becomes visible was filled and passed before.
LEMMA PublishKeeps ==
    ASSUME BufferTypes, NEW H \in Nat, NEW L \in [Nat -> Blocks], BufferInvAt(H, L),
           Publish
    PROVE  BufferTypes' /\ BufferInvAt(H, L)'
<1> USE DEF Publish
<1>1. /\ PassedItems' = PassedItems /\ FilledItems' = FilledItems
      /\ writeNum \in Nat /\ writeNum' = writeNum + 1
  BY DEF PassedItems, FilledItems, BufferTypes
<1>2. /\ Linked(H, L)' /\ Stored(H, L)' /\ Reading(H, L)' /\ Counting(H, L)'
      /\ LastPage(H)' = LastPage(H)
  BY <1>1, ReadersStay
<1>3. Writing(H, L)'
  BY <1>1, <1>2 DEF BufferInvAt, Writing
<1>4. BufferTypes'
  BY <1>1 DEF BufferTypes, tokens
<1> QED BY <1>2, <1>3, <1>4 DEF BufferInvAt

\* What the counters say of the head block when the last block is full: who
\* has not counted itself out, and how many there are to wait for.
LEMMA HeadCounted ==
    ASSUME BufferTypes, NEW H \in Nat, NEW L \in [Nat -> Blocks], BufferInvAt(H, L),
           registered = Consumers
    PROVE  /\ Active = Cardinality(Consumers) /\ Active > 0
           /\ Recyclable <=> OutOf(H) = Consumers
<1>1. /\ IsFiniteSet(Consumers) /\ Cardinality(Consumers) \in Nat /\ Cardinality(Consumers) # 0
  BY BufferAssumption, FS_CardinalityType, FS_EmptySet
<1>2. Active = Cardinality(Consumers) /\ Active > 0
  BY <1>1 DEF Active, BufferInvAt, Counting
<1>3. count[head] = Cardinality(OutOf(H)) /\ OutOf(H) \subseteq Consumers
  BY Bounds DEF BufferInvAt, Linked, Counting, OutOf
<1>4. /\ Cardinality(OutOf(H)) <= Cardinality(Consumers) /\ Cardinality(OutOf(H)) \in Nat
      /\ Cardinality(OutOf(H)) = Cardinality(Consumers) => OutOf(H) = Consumers
  BY <1>1, <1>3, FS_Subset, FS_CardinalityType
<1>5. Recyclable <=> OutOf(H) = Consumers
  BY <1>1, <1>2, <1>3, <1>4 DEF Recyclable
<1> QED BY <1>2, <1>5

\* The producer is at the end of the last page when it looks for a block.
LEMMA AtTheEnd ==
    ASSUME BufferTypes, NEW H \in Nat, NEW L \in [Nat -> Blocks], BufferInvAt(H, L),
           ppc = "advance", writePos + 1 = BlockSize, next[write] = NoBlock
    PROVE  /\ Page(writeNum) = LastPage(H) /\ Pos(writeNum) + 1 = BlockSize
           /\ PassedItems = writeNum /\ FilledItems = writeNum + 1
           /\ writeNum < MaxItems /\ write = tail
<1>1. PassedItems = writeNum /\ FilledItems = writeNum + 1 /\ writeNum < MaxItems
  BY DEF PassedItems, FilledItems, BufferTypes
<1>2. /\ Page(writeNum) \in H .. LastPage(H) /\ write = L[Page(writeNum)]
      /\ writePos = Pos(writeNum)
  BY <1>1 DEF BufferInvAt, Writing
<1>3. Page(writeNum) = LastPage(H)
  <2>1. SUFFICES ASSUME Page(writeNum) # LastPage(H)
                 PROVE  FALSE
    OBVIOUS
  <2>2. next[write] = L[Page(writeNum) + 1] /\ Page(writeNum) + 1 \in H .. LastPage(H)
    BY <1>2, <2>1, Bounds DEF BufferInvAt, Linked
  <2>3. next[write] \in 1 .. blockCount
    BY <2>2 DEF BufferInvAt, Linked
  <2> QED BY <2>3 DEF NoBlock
<1>4. write = tail
  BY <1>2, <1>3 DEF BufferInvAt, Linked
<1> QED BY <1>1, <1>2, <1>3, <1>4

\* The producer decides to recycle only if all are out of the head block.
LEMMA StartRecyclingKeeps ==
    ASSUME BufferTypes, NEW H \in Nat, NEW L \in [Nat -> Blocks], BufferInvAt(H, L),
           StartRecycling
    PROVE  BufferTypes' /\ BufferInvAt(H, L)'
<1> USE DEF StartRecycling, AllRegistered
<1>1. /\ PassedItems' = PassedItems /\ FilledItems' = FilledItems /\ writeNum \in Nat
      /\ PassedItems = writeNum
  BY DEF PassedItems, FilledItems, BufferTypes
<1>2. cachedActive' = Cardinality(Consumers) /\ OutOf(H) = Consumers /\ Cardinality(Consumers) \in Nat
  BY HeadCounted, BufferAssumption, FS_CardinalityType
<1>3. /\ Linked(H, L)' /\ Stored(H, L)' /\ Reading(H, L)' /\ Counting(H, L)'
      /\ LastPage(H)' = LastPage(H) /\ OutOf(H)' = OutOf(H)
  BY <1>1, <1>2, ReadersStay
<1>4. Writing(H, L)'
  BY <1>1, <1>2, <1>3, AtTheEnd DEF BufferInvAt, Writing
<1>5. BufferTypes'
  BY <1>1, <1>2 DEF BufferTypes, tokens
<1> QED BY <1>3, <1>4, <1>5 DEF BufferInvAt

\* The head block becomes the block of the page after the last.
LEMMA MoveKeeps ==
    ASSUME BufferTypes, NEW H \in Nat, NEW L \in [Nat -> Blocks], BufferInvAt(H, L),
           MoveHeadToTail
    PROVE  BufferTypes' /\ \E G \in [Nat -> Blocks] : BufferInvAt(H + 1, G)'
<1> DEFINE T == LastPage(H)
           M == [L EXCEPT ![T + 1] = head]
<1>0. /\ T \in Nat /\ H <= T /\ H \in H .. T /\ T \in H .. T
      /\ head \in Blocks /\ tail \in Blocks /\ head <= blockCount
      /\ head = L[H] /\ tail = L[T] /\ M \in [Nat -> Blocks]
      /\ \A q \in H .. T : L[q] \in Blocks
  BY Bounds DEF BufferInvAt, Linked
<1>1. PICK G \in [Nat -> Blocks] : G = M
  BY <1>0
<1>2. G[T + 1] = head /\ \A q \in H .. T : G[q] = L[q]
  BY <1>0, <1>1
<1>3. PICK U \in Nat : U = T + 1
  BY <1>0
<1>4. /\ LastPage(H + 1)' = U /\ writeNum' = writeNum /\ writeNum \in Nat
      /\ PassedItems = writeNum /\ FilledItems = writeNum + 1
      /\ PassedItems' = writeNum + 1 /\ FilledItems' = writeNum + 1
      /\ UNCHANGED <<data, blockCount, cachedActive, registered, readBlock, readPos, readNum,
                     snapshot, got, leaving, cpc>>
  BY <1>3 DEF MoveHeadToTail, PassedItems, FilledItems, LastPage, BufferTypes, tokens
<1>5. /\ Page(writeNum) = T /\ Pos(writeNum) + 1 = BlockSize /\ OutOf(H) = Consumers
      /\ registered = Consumers
      /\ Page(writeNum + 1) = U /\ Pos(writeNum + 1) = 0
  <2>1. Page(writeNum) = T /\ Pos(writeNum) + 1 = BlockSize /\ OutOf(H) = Consumers
        /\ registered = Consumers
    BY <1>4 DEF MoveHeadToTail, BufferInvAt, Writing, Counting
  <2> QED BY <1>3, <1>4, <2>1, PageStep
<1>6. \A q \in (H + 1) .. U : q = U \/ (q \in H .. T /\ q # H)
  BY <1>0, <1>3
<1>7. \A q : OutOf(q)' = OutOf(q)
  BY <1>4 DEF OutOf
<1>8. \A c \in Consumers : /\ Page(readNum[c]) \in (H + 1) .. T /\ readNum[c] \in Nat
                           /\ cpc[c] = "count" => Page(readNum[c]) > H + 1
  <2>1. ASSUME NEW c \in Consumers
        PROVE  /\ Page(readNum[c]) \in (H + 1) .. T /\ readNum[c] \in Nat
               /\ cpc[c] = "count" => Page(readNum[c]) > H + 1
    <3>1. /\ Page(readNum[c]) > H /\ ~ (cpc[c] = "count" /\ Page(readNum[c]) = H + 1)
      BY <1>5 DEF OutOf
    <3>2. Page(readNum[c]) \in H .. T /\ readNum[c] \in Nat
      BY Bounds
    <3> QED BY <1>0, <3>1, <3>2
  <2> QED BY <2>1
<1>9. /\ head' = G[H + 1] /\ tail' = head
      /\ count' = [count EXCEPT ![head] = 0]
      /\ \A q \in (H + 1) .. U : next'[G[q]] = IF q = U THEN NoBlock ELSE G[q + 1]
      /\ \A b \in Blocks : b # head /\ b # tail => next'[b] = next[b]
      /\ next' \in [Blocks -> Blocks \cup {NoBlock}]
  <2>1. CASE head = tail
    <3>1. H = T /\ UNCHANGED <<head, tail, next>> /\ count' = [count EXCEPT ![head] = 0]
      BY <1>0, <2>1 DEF MoveHeadToTail, BufferInvAt, Linked
    <3>2. next[head] = NoBlock
      BY <1>0, <3>1 DEF BufferInvAt, Linked
    <3> QED BY <1>0, <1>2, <1>3, <1>6, <2>1, <3>1, <3>2 DEF BufferTypes
  <2>2. CASE head # tail
    <3>1. /\ H # T /\ head' = next[head] /\ tail' = head /\ count' = [count EXCEPT ![head] = 0]
          /\ next' = [next EXCEPT ![head] = NoBlock, ![tail] = head]
      BY <1>0, <2>2 DEF MoveHeadToTail
    <3>2. H + 1 \in H .. T /\ next[head] = L[H + 1]
      BY <1>0, <3>1 DEF BufferInvAt, Linked
    <3>3. next'[head] = NoBlock /\ next'[tail] = head
          /\ \A b \in Blocks : b # head /\ b # tail => next'[b] = next[b]
      BY <1>0, <2>2, <3>1 DEF BufferTypes
    <3>4. ASSUME NEW q \in (H + 1) .. U
          PROVE  next'[G[q]] = IF q = U THEN NoBlock ELSE G[q + 1]
      <4>1. CASE q = U
        BY <1>2, <1>3, <3>3, <4>1
      <4>2. CASE q = T
        BY <1>0, <1>2, <1>3, <3>3, <4>2
      <4>3. CASE q # U /\ q # T
        <5>1. q \in H .. T /\ q # H /\ q + 1 \in H .. T
          BY <1>0, <1>3, <4>3
        <5>2. L[q] # head /\ L[q] # tail /\ next[L[q]] = L[q + 1]
          BY <1>0, <4>3, <5>1 DEF BufferInvAt, Linked
        <5> QED BY <1>0, <1>2, <3>3, <4>3, <5>1, <5>2
      <4> QED BY <4>1, <4>2, <4>3
    <3>5. next' \in [Blocks -> Blocks \cup {NoBlock}]
      BY <1>0, <3>1 DEF BufferTypes
    <3> QED BY <1>2, <3>1, <3>2, <3>3, <3>4, <3>5
  <2> QED BY <2>1, <2>2
<1>10. BufferTypes'
  <2>1. count' \in [Blocks -> Nat]
    BY <1>0, <1>9 DEF BufferTypes
  <2>2. blockCount <= InitialBlocks + (writeNum + 1)
    BY <1>4, BufferAssumption DEF BufferTypes
  <2>3. ppc' = "publish" /\ writeNum < MaxItems
    BY DEF MoveHeadToTail, BufferTypes
  <2> QED BY <1>4, <1>9, <2>1, <2>2, <2>3 DEF BufferTypes
<1>11. Linked(H + 1, G)'
  <2>1. \A q \in (H + 1) .. U : G[q] \in 1 .. blockCount
    BY <1>0, <1>2, <1>3, <1>6 DEF BufferInvAt, Linked
  <2>2. \A q, r \in (H + 1) .. U : G[q] = G[r] => q = r
    BY <1>0, <1>2, <1>3, <1>6 DEF BufferInvAt, Linked
  <2>3. \A b \in Blocks : b > blockCount =>
            next'[b] = NoBlock /\ count'[b] = 0 /\ \A p \in Places : data'[b][p] = 0
    <3>1. ASSUME NEW b \in Blocks, b > blockCount
          PROVE  b # head /\ b # tail
      <4>1. \A x \in Blocks : x \in Nat
        BY BufferAssumption DEF Blocks
      <4>2. tail <= blockCount
        BY Bounds
      <4>3. blockCount \in Nat
        BY DEF BufferTypes
      <4> QED BY <1>0, <3>1, <4>1, <4>2, <4>3
    <3> QED BY <1>4, <1>9, <3>1 DEF BufferInvAt, Linked, BufferTypes
  <2> QED BY <1>2, <1>3, <1>4, <1>9, <2>1, <2>2, <2>3 DEF Linked
<1>12. Writing(H + 1, G)'
  <2>1. write' = tail' /\ writePos' = 0 /\ ppc' = "publish"
    BY DEF MoveHeadToTail
  <2>2. U \in (H + 1) .. U
    BY <1>0, <1>3
  <2> QED BY <1>2, <1>3, <1>4, <1>5, <1>9, <2>1, <2>2 DEF Writing
<1>13. Stored(H + 1, G)'
  <2>1. ASSUME NEW q \in (H + 1) .. U, NEW k \in Nat, Page(k) = q
        PROVE  IF k < writeNum + 1 THEN data[G[q]][Pos(k)] = k + 1
               ELSE \A c \in Consumers : data[G[q]][Pos(k)] <= readNum[c]
    <3>1. CASE q \in H .. T
      BY <1>2, <1>4, <2>1, <3>1 DEF BufferInvAt, Stored
    <3>2. CASE q = U
      <4>1. PICK j \in Nat : Page(j) = H /\ Pos(j) = Pos(k)
        BY PageTypes
      <4>2. j < writeNum + 1
        <5>1. j <= writeNum
          <6>1. CASE H = T
            BY <1>4, <1>5, <4>1, <6>1, PageOrder, PageTypes
          <6>2. CASE H # T
            BY <1>0, <1>4, <1>5, <4>1, <6>2, PageOrder
          <6> QED BY <6>1, <6>2
        <5> QED BY <1>4, <5>1
      <4>3. data[head][Pos(k)] = j + 1
        BY <1>0, <1>4, <4>1, <4>2 DEF BufferInvAt, Stored
      <4>4. ~ (k < writeNum + 1)
        <5>1. SUFFICES ASSUME k <= writeNum
                       PROVE  FALSE
          BY <1>4
        <5>2. Page(k) <= Page(writeNum)
          BY <1>4, <5>1, PageOrder
        <5> QED BY <1>0, <1>3, <1>5, <2>1, <3>2, <5>2
      <4>5. \A c \in Consumers : j + 1 <= readNum[c]
        <5>1. ASSUME NEW c \in Consumers
              PROVE  ~ (readNum[c] <= j)
          BY <1>0, <1>8, <4>1, PageOrder
        <5> QED BY <1>8, <5>1
      <4> QED BY <1>2, <1>3, <3>2, <4>3, <4>4, <4>5
    <3> QED BY <1>6, <3>1, <3>2
  <2> QED BY <1>4, <2>1 DEF Stored
<1>14. Reading(H + 1, G)'
  <2>1. ASSUME NEW c \in Consumers
        PROVE  /\ Page(readNum[c]) >= H + 1
               /\ c \in registered => readBlock[c] = G[Page(readNum[c])]
               /\ cpc[c] = "count" => Page(readNum[c]) > H + 1 /\ leaving[c] = G[Page(readNum[c]) - 1]
    <3>1. Page(readNum[c]) \in H .. T /\ Page(readNum[c]) >= H + 1
      BY <1>0, <1>8
    <3>2. cpc[c] = "count" => Page(readNum[c]) > H + 1 /\ Page(readNum[c]) - 1 \in H .. T
      BY <1>0, <1>8
    <3> QED BY <1>2, <3>1, <3>2 DEF BufferInvAt, Reading
  <2> QED BY <1>4, <2>1 DEF BufferInvAt, Reading
<1>15. Counting(H + 1, G)'
  <2>1. ASSUME NEW q \in (H + 1) .. U
        PROVE  count'[G[q]] = Cardinality(OutOf(q))
    <3>1. CASE q = U
      <4>1. \A c \in Consumers : ~ (Page(readNum[c]) > U)
        BY <1>0, <1>3, <1>8
      <4>2. OutOf(U) = {}
        BY <4>1 DEF OutOf
      <4>3. count'[head] = 0
        BY <1>0, <1>9 DEF BufferTypes
      <4> QED BY <1>2, <1>3, <3>1, <4>2, <4>3, FS_EmptySet
    <3>2. CASE q \in H .. T /\ q # H
      <4>1. L[q] # head /\ L[q] \in Blocks
        BY <1>0, <3>2 DEF BufferInvAt, Linked
      <4> QED BY <1>0, <1>2, <1>9, <3>2, <4>1 DEF BufferInvAt, Counting, BufferTypes
    <3> QED BY <1>6, <3>1, <3>2
  <2> QED BY <1>4, <1>5, <1>7, <2>1 DEF BufferInvAt, Counting
<1> QED BY <1>10, <1>11, <1>12, <1>13, <1>14, <1>15 DEF BufferInvAt

\* A new block is the block of the page after the last.  It is created only
\* when somebody has not counted itself out of the head block.
LEMMA CreateKeeps ==
    ASSUME BufferTypes, NEW H \in Nat, NEW L \in [Nat -> Blocks], BufferInvAt(H, L),
           CreateBlock
    PROVE  /\ BufferTypes' /\ \E G \in [Nat -> Blocks] : BufferInvAt(H, G)'
           /\ \E c \in registered : readNum[c] < data[head][BlockSize - 1] \/ leaving[c] = head
<1> DEFINE T == LastPage(H)
           n == blockCount + 1
<1>0. /\ T \in Nat /\ H <= T /\ H \in H .. T /\ T \in H .. T
      /\ head \in Blocks /\ tail \in Blocks /\ tail <= blockCount
      /\ head = L[H] /\ tail = L[T]
      /\ \A q \in H .. T : L[q] \in Blocks /\ L[q] \in 1 .. blockCount
      /\ blockCount \in Nat \ {0} /\ writeNum \in Nat
  BY Bounds DEF BufferInvAt, Linked, BufferTypes
<1>1. /\ Page(writeNum) = T /\ Pos(writeNum) + 1 = BlockSize
      /\ PassedItems = writeNum /\ FilledItems = writeNum + 1
      /\ writeNum < MaxItems /\ write = tail /\ registered = Consumers
      /\ ppc = "advance" /\ ppc' = "publish"
  BY AtTheEnd DEF CreateBlock, AllRegistered
<1>2. n \in Blocks
  BY <1>0, <1>1, BufferAssumption DEF BufferTypes, Blocks
<1>3. PICK G \in [Nat -> Blocks] : G = [L EXCEPT ![T + 1] = n]
  BY <1>0, <1>2
<1>4. G[T + 1] = n /\ \A q \in H .. T : G[q] = L[q]
  BY <1>0, <1>3
<1>5. PICK U \in Nat : U = T + 1
  BY <1>0
<1>6. /\ LastPage(H)' = U /\ writeNum' = writeNum
      /\ PassedItems' = writeNum + 1 /\ FilledItems' = writeNum + 1
      /\ blockCount' = n /\ head' = head /\ tail' = n /\ write' = n /\ writePos' = 0
      /\ next' = [next EXCEPT ![tail] = n]
      /\ UNCHANGED <<data, count, registered, readBlock, readPos, readNum, snapshot, got,
                     leaving, cpc>>
  BY <1>0, <1>5 DEF CreateBlock, PassedItems, FilledItems, LastPage, tokens
<1>7. cachedActive' = Cardinality(Consumers) /\ OutOf(H) # Consumers /\ Cardinality(Consumers) \in Nat
  BY <1>1, HeadCounted, BufferAssumption, FS_CardinalityType DEF CreateBlock
<1>8. \A q \in H .. U : q = U \/ q \in H .. T
  BY <1>0, <1>5
<1>9. \A q : OutOf(q)' = OutOf(q)
  BY <1>6 DEF OutOf
<1>10. \A c \in Consumers : Page(readNum[c]) \in H .. T /\ readNum[c] \in Nat
  BY Bounds
<1>11. BufferTypes'
  <2>1. next' \in [Blocks -> Blocks \cup {NoBlock}]
    BY <1>2, <1>6 DEF BufferTypes
  <2>2. n \in Nat \ {0} /\ n <= InitialBlocks + (writeNum + 1)
    BY <1>0, <1>1, BufferAssumption DEF BufferTypes
  <2> QED BY <1>1, <1>6, <1>7, <2>1, <2>2 DEF BufferTypes
<1>12. Linked(H, G)'
  <2>1. \A q \in H .. U : G[q] \in 1 .. n
    BY <1>0, <1>4, <1>5, <1>8
  <2>2. ASSUME NEW q \in H .. U, NEW r \in H .. U, G[q] = G[r]
        PROVE  q = r
    <3>1. \A x \in H .. T : L[x] # n
      BY <1>0
    <3>2. CASE q \in H .. T /\ r \in H .. T
      BY <1>4, <2>2, <3>2 DEF BufferInvAt, Linked
    <3> QED BY <1>4, <1>5, <1>8, <2>2, <3>1, <3>2
  <2>3. ASSUME NEW q \in H .. U
        PROVE  next'[G[q]] = IF q = U THEN NoBlock ELSE G[q + 1]
    <3>1. next[n] = NoBlock /\ n # tail
      BY <1>0, <1>2 DEF BufferInvAt, Linked
    <3>2. CASE q = U
      BY <1>2, <1>4, <1>5, <1>6, <3>1, <3>2 DEF BufferTypes
    <3>3. CASE q = T
      BY <1>0, <1>4, <1>5, <1>6, <3>3 DEF BufferTypes
    <3>4. CASE q \in H .. T /\ q # T
      <4>1. q + 1 \in H .. T /\ q # U
        BY <1>0, <1>5, <3>4
      <4>2. next[L[q]] = L[q + 1] /\ L[q] # tail /\ L[q] \in Blocks
        BY <1>0, <3>4, <4>1 DEF BufferInvAt, Linked
      <4> QED BY <1>0, <1>4, <1>6, <3>4, <4>1, <4>2 DEF BufferTypes
    <3> QED BY <1>8, <3>2, <3>3, <3>4
  <2>4. \A b \in Blocks : b > n =>
            next'[b] = NoBlock /\ count'[b] = 0 /\ \A p \in Places : data'[b][p] = 0
    <3>1. ASSUME NEW b \in Blocks, b > n
          PROVE  b > blockCount /\ b # tail
      <4>1. \A x \in Blocks : x \in Nat
        BY BufferAssumption DEF Blocks
      <4> QED BY <1>0, <3>1, <4>1
    <3> QED BY <1>0, <1>6, <3>1 DEF BufferInvAt, Linked, BufferTypes
  <2> QED BY <1>0, <1>4, <1>5, <1>6, <2>1, <2>2, <2>3, <2>4 DEF Linked
<1>13. Writing(H, G)'
  <2>1. Page(writeNum + 1) = U /\ Pos(writeNum + 1) = 0 /\ U \in H .. U
    BY <1>0, <1>1, <1>5, PageStep
  <2> QED BY <1>1, <1>4, <1>5, <1>6, <2>1 DEF Writing
<1>14. Stored(H, G)'
  <2>1. ASSUME NEW q \in H .. U, NEW k \in Nat, Page(k) = q
        PROVE  IF k < writeNum + 1 THEN data[G[q]][Pos(k)] = k + 1
               ELSE \A c \in Consumers : data[G[q]][Pos(k)] <= readNum[c]
    <3>1. CASE q \in H .. T
      BY <1>1, <1>4, <2>1, <3>1 DEF BufferInvAt, Stored
    <3>2. CASE q = U
      <4>1. ~ (k < writeNum + 1)
        <5>1. SUFFICES ASSUME k <= writeNum
                       PROVE  FALSE
          BY <1>0
        <5>2. Page(k) <= Page(writeNum)
          BY <1>0, <5>1, PageOrder
        <5> QED BY <1>0, <1>1, <1>5, <2>1, <3>2, <5>2
      <4>2. Pos(k) \in Places
        BY PageTypes
      <4>3. data[n][Pos(k)] = 0
        BY <1>0, <1>2, <4>2 DEF BufferInvAt, Linked
      <4> QED BY <1>4, <1>5, <1>10, <3>2, <4>1, <4>3
    <3> QED BY <1>8, <3>1, <3>2
  <2> QED BY <1>6, <2>1 DEF Stored
<1>15. Reading(H, G)'
  <2>1. ASSUME NEW c \in Consumers
        PROVE  /\ c \in registered => readBlock[c] = G[Page(readNum[c])]
               /\ cpc[c] = "count" => leaving[c] = G[Page(readNum[c]) - 1]
    <3>1. Page(readNum[c]) \in H .. T
      BY <1>10
    <3>2. cpc[c] = "count" => Page(readNum[c]) - 1 \in H .. T
      BY <1>0, <1>10 DEF BufferInvAt, Reading
    <3> QED BY <1>4, <3>1, <3>2 DEF BufferInvAt, Reading
  <2> QED BY <1>6, <2>1 DEF BufferInvAt, Reading
<1>16. Counting(H, G)'
  <2>1. ASSUME NEW q \in H .. U
        PROVE  count[G[q]] = Cardinality(OutOf(q))
    <3>1. CASE q = U
      <4>1. \A c \in Consumers : ~ (Page(readNum[c]) > U)
        BY <1>0, <1>5, <1>10
      <4>2. OutOf(U) = {}
        BY <4>1 DEF OutOf
      <4>3. count[n] = 0
        BY <1>0, <1>2 DEF BufferInvAt, Linked
      <4> QED BY <1>4, <1>5, <3>1, <4>2, <4>3, FS_EmptySet
    <3>2. CASE q \in H .. T
      BY <1>4, <3>2 DEF BufferInvAt, Counting
    <3> QED BY <1>8, <3>1, <3>2
  <2> QED BY <1>1, <1>6, <1>7, <1>9, <2>1 DEF Counting
<1>17. \E c \in registered : readNum[c] < data[head][BlockSize - 1] \/ leaving[c] = head
  <2>1. PICK c \in Consumers : Page(readNum[c]) <= H \/ (cpc[c] = "count" /\ Page(readNum[c]) = H + 1)
    <3>1. PICK c \in Consumers : c \notin OutOf(H)
      BY <1>7 DEF OutOf
    <3> QED BY <1>0, <1>10, <3>1 DEF OutOf
  <2>2. CASE cpc[c] = "count" /\ Page(readNum[c]) = H + 1
    BY <1>0, <1>1, <2>2 DEF BufferInvAt, Reading
  <2>3. CASE Page(readNum[c]) <= H
    <3>1. Page(readNum[c]) = H /\ readNum[c] \in Nat
      BY <1>0, <1>10, <2>3
    <3>2. /\ BlockSize \in Nat \ {0} /\ BlockSize - 1 \in Places
          /\ \A k \in Nat : Pos(k) \in Nat /\ Pos(k) <= BlockSize - 1
      <4>1. BlockSize \in Nat \ {0} /\ Places = 0 .. BlockSize - 1
        BY PageTypes
      <4>2. \A k \in Nat : Pos(k) \in Places
        BY PageTypes
      <4> QED BY <4>1, <4>2
    <3>3. PICK k \in Nat : Page(k) = H /\ Pos(k) = BlockSize - 1
      BY <3>2, PageTypes
    <3>4. readNum[c] <= k
      BY <3>1, <3>2, <3>3, PageOrder
    <3>5. k <= writeNum
      <4>1. Pos(writeNum) = BlockSize - 1
        BY <1>0, <1>1, <3>2
      <4>2. CASE H = T
        BY <1>0, <1>1, <3>2, <3>3, <4>1, <4>2, PageOrder, PageTypes
      <4>3. CASE H # T
        BY <1>0, <1>1, <3>3, <4>3, PageOrder
      <4> QED BY <4>2, <4>3
    <3>6. data[head][BlockSize - 1] = k + 1
      BY <1>0, <1>1, <3>3, <3>5 DEF BufferInvAt, Stored
    <3> QED BY <1>1, <3>1, <3>4, <3>6
  <2> QED BY <2>1, <2>2, <2>3
<1> QED BY <1>11, <1>12, <1>13, <1>14, <1>15, <1>16, <1>17 DEF BufferInvAt

\* A consumer that begins to read has an item to read: its snapshot is ahead.
LEMMA BeginReadKeeps ==
    ASSUME BufferTypes, NEW H \in Nat, NEW L \in [Nat -> Blocks], BufferInvAt(H, L),
           NEW c \in Consumers, BeginRead(c)
    PROVE  BufferTypes' /\ BufferInvAt(H, L)'
<1>1. /\ c \in registered /\ cpc[c] = "idle"
      /\ UNCHANGED <<next, data, count, blockCount, head, tail, write, writePos, writeNum,
                     cachedActive, ppc, registered, readBlock, readPos, readNum, got, leaving>>
      /\ cpc' = [cpc EXCEPT ![c] = "copy"]
      /\ cpc' \in [Consumers -> {"idle", "copy", "advance", "count"}] /\ cpc'[c] = "copy"
      /\ \A d \in Consumers : d # c => cpc'[d] = cpc[d]
  BY DEF BeginRead, chain, BufferTypes
<1>2. /\ Linked(H, L)' /\ Writing(H, L)' /\ Stored(H, L)'
      /\ \A q : OutOf(q)' = OutOf(q)
  BY <1>1, ChainStays
<1>3. /\ readNum[c] \in Nat /\ snapshot[c] \in Nat /\ writeNum \in Nat
      /\ readNum[c] <= writeNum /\ snapshot[c] <= writeNum
  BY Bounds DEF BufferInvAt, Reading, BufferTypes
<1>4. /\ snapshot' \in [Consumers -> Nat]
      /\ readNum[c] < snapshot'[c] /\ snapshot'[c] <= writeNum
      /\ \A d \in Consumers : d # c => snapshot'[d] = snapshot[d]
  <2>1. CASE readNum[c] >= snapshot[c]
    <3>1. snapshot' = [snapshot EXCEPT ![c] = writeNum] /\ readNum[c] # writeNum
      BY <2>1 DEF BeginRead
    <3>2. readNum[c] < writeNum /\ writeNum <= writeNum
      BY <1>3, <3>1
    <3>3. snapshot \in [Consumers -> Nat]
      BY DEF BufferTypes
    <3> QED BY <1>3, <3>1, <3>2, <3>3
  <2>2. CASE ~ (readNum[c] >= snapshot[c])
    BY <1>3, <2>2 DEF BeginRead, BufferTypes
  <2> QED BY <2>1, <2>2
<1>5. Reading(H, L)'
  <2>1. readNum[c] <= snapshot'[c] /\ snapshot'[c] <= writeNum
    <3>1. snapshot'[c] \in Nat
      BY <1>4
    <3> QED BY <1>3, <1>4, <3>1
  <2>2. \A d \in Consumers : readNum[d] <= snapshot'[d] /\ snapshot'[d] <= writeNum
    BY <1>4, <2>1 DEF BufferInvAt, Reading
  <2>3. \A d \in Consumers : cpc'[d] \in {"copy", "advance"} => readNum[d] < snapshot'[d]
    BY <1>1, <1>4 DEF BufferInvAt, Reading
  <2>4. \A d \in Consumers : (cpc'[d] = "count" <=> cpc[d] = "count")
                              /\ (d \notin registered => cpc'[d] = cpc[d])
    BY <1>1
  <2> QED BY <1>1, <2>2, <2>3, <2>4 DEF BufferInvAt, Reading
<1>6. Counting(H, L)'
  BY <1>1, <1>2 DEF BufferInvAt, Counting, LastPage
<1>7. BufferTypes'
  BY <1>1, <1>4 DEF BufferTypes, PassedItems
<1> QED BY <1>2, <1>5, <1>6, <1>7 DEF BufferInvAt

\* What a consumer copies out is the next item it has not read.
LEMMA CopyOutKeeps ==
    ASSUME BufferTypes, NEW H \in Nat, NEW L \in [Nat -> Blocks], BufferInvAt(H, L),
           NEW c \in Consumers, CopyOut(c)
    PROVE  /\ BufferTypes' /\ BufferInvAt(H, L)'
           /\ readNum[c] < writeNum /\ got' = [got EXCEPT ![c] = readNum[c] + 1]
<1>1. /\ cpc[c] = "copy"
      /\ UNCHANGED <<next, data, count, blockCount, head, tail, write, writePos, writeNum,
                     cachedActive, ppc, registered, readBlock, readPos, readNum, snapshot, leaving>>
      /\ cpc' \in [Consumers -> {"idle", "copy", "advance", "count"}] /\ cpc'[c] = "advance"
      /\ \A d \in Consumers : d # c => cpc'[d] = cpc[d]
      /\ got' = [got EXCEPT ![c] = data[readBlock[c]][readPos[c]]]
  BY DEF CopyOut, chain, BufferTypes
<1>2. /\ Linked(H, L)' /\ Writing(H, L)' /\ Stored(H, L)'
      /\ \A q : OutOf(q)' = OutOf(q)
  BY <1>1, ChainStays
<1>3. /\ readNum[c] \in Nat /\ snapshot[c] \in Nat /\ writeNum \in Nat /\ FilledItems \in Nat
      /\ readNum[c] < snapshot[c] /\ snapshot[c] <= writeNum
      /\ writeNum <= PassedItems /\ PassedItems <= FilledItems /\ PassedItems \in Nat
      /\ Page(readNum[c]) \in H .. LastPage(H)
      /\ readBlock[c] = L[Page(readNum[c])] /\ readPos[c] = Pos(readNum[c])
  BY <1>1, Bounds DEF BufferInvAt, Reading, BufferTypes
<1>4. data[readBlock[c]][readPos[c]] = readNum[c] + 1
  <2>1. readNum[c] < FilledItems
    BY <1>3
  <2> QED BY <1>3, <2>1 DEF BufferInvAt, Stored
<1>5. Reading(H, L)'
  BY <1>1 DEF BufferInvAt, Reading
<1>6. Counting(H, L)'
  BY <1>1, <1>2 DEF BufferInvAt, Counting, LastPage
<1>7. BufferTypes'
  BY <1>1, <1>3, <1>4 DEF BufferTypes, PassedItems
<1>8. readNum[c] < writeNum
  BY <1>3
<1> QED BY <1>1, <1>2, <1>4, <1>5, <1>6, <1>7, <1>8 DEF BufferInvAt

\* A consumer moves past the item it copied; if that was the last of its page,
\* the block of the next page is linked already.
LEMMA AdvanceTokenKeeps ==
    ASSUME BufferTypes, NEW H \in Nat, NEW L \in [Nat -> Blocks], BufferInvAt(H, L),
           NEW c \in Consumers, AdvanceToken(c)
    PROVE  BufferTypes' /\ BufferInvAt(H, L)'
<1>1. PICK k \in Nat : k = readNum[c]
  BY DEF BufferTypes
<1>2. /\ cpc[c] = "advance" /\ c \in registered
      /\ UNCHANGED <<next, data, count, blockCount, head, tail, write, writePos, writeNum,
                     cachedActive, ppc, registered, snapshot, got>>
      /\ readNum' \in [Consumers -> Nat] /\ readNum'[c] = k + 1
      /\ \A d \in Consumers : d # c => readNum'[d] = readNum[d]
  BY <1>1 DEF AdvanceToken, chain, BufferTypes, BufferInvAt, Reading
<1>3. /\ snapshot[c] \in Nat /\ writeNum \in Nat /\ PassedItems \in Nat
      /\ k + 1 <= snapshot[c] /\ snapshot[c] <= writeNum /\ writeNum <= PassedItems
      /\ Page(k) \in H .. LastPage(H) /\ Page(PassedItems) \in H .. LastPage(H)
      /\ readBlock[c] = L[Page(k)] /\ readPos[c] = Pos(k)
  <2>1. snapshot[c] \in Nat /\ writeNum \in Nat
    BY DEF BufferTypes
  <2>2. /\ k < snapshot[c] /\ snapshot[c] <= writeNum
        /\ readBlock[c] = L[Page(k)] /\ readPos[c] = Pos(k)
    BY <1>1, <1>2 DEF BufferInvAt, Reading
  <2>3. /\ PassedItems \in Nat /\ writeNum <= PassedItems
        /\ Page(k) \in H .. LastPage(H) /\ Page(PassedItems) \in H .. LastPage(H)
    BY <1>1, Bounds
  <2> QED BY <2>1, <2>2, <2>3
<1>4. Page(k) \in Nat /\ LastPage(H) \in Nat /\ Page(k + 1) \in H .. LastPage(H)
  <2>1. k + 1 \in Nat /\ k <= k + 1 /\ k + 1 <= PassedItems
    BY <1>3
  <2>2. Page(k + 1) \in Nat /\ Page(k) \in Nat /\ Page(PassedItems) \in Nat
    BY <1>3, <2>1, PageTypes
  <2>3. Page(k + 1) <= Page(PassedItems)
    BY <1>3, <2>1, PageOrder
  <2>4. Page(k) <= Page(k + 1)
    BY <2>1, PageOrder
  <2> QED BY <1>3, <2>2, <2>3, <2>4, Bounds
<1>5. /\ readPos' \in [Consumers -> Nat] /\ readPos'[c] = Pos(k + 1)
      /\ readBlock' \in [Consumers -> Blocks \cup {NoBlock}] /\ readBlock'[c] = L[Page(k + 1)]
      /\ leaving' \in [Consumers -> Blocks \cup {NoBlock}]
      /\ cpc' \in [Consumers -> {"idle", "copy", "advance", "count"}]
      /\ \/ cpc'[c] = "idle" /\ leaving'[c] = NoBlock /\ Page(k + 1) = Page(k)
         \/ cpc'[c] = "count" /\ leaving'[c] = L[Page(k)] /\ Page(k + 1) = Page(k) + 1
      /\ \A d \in Consumers : d # c => /\ readPos'[d] = readPos[d] /\ readBlock'[d] = readBlock[d]
                                       /\ leaving'[d] = leaving[d] /\ cpc'[d] = cpc[d]
  <2>1. CASE readPos[c] + 1 # BlockSize
    <3>1. Page(k + 1) = Page(k) /\ Pos(k + 1) = Pos(k) + 1 /\ leaving[c] = NoBlock
      BY <1>2, <1>3, <2>1, PageStep DEF BufferInvAt, Reading
    <3>2. /\ readPos' = [readPos EXCEPT ![c] = @ + 1] /\ cpc' = [cpc EXCEPT ![c] = "idle"]
          /\ UNCHANGED <<readBlock, leaving>>
      BY <2>1 DEF AdvanceToken
    <3> QED BY <1>3, <3>1, <3>2 DEF BufferTypes
  <2>2. CASE readPos[c] + 1 = BlockSize
    <3>1. Page(k + 1) = Page(k) + 1 /\ Pos(k + 1) = 0
      BY <1>3, <2>2, PageStep
    <3>2. /\ leaving' = [leaving EXCEPT ![c] = readBlock[c]] /\ readPos' = [readPos EXCEPT ![c] = 0]
          /\ readBlock' = [readBlock EXCEPT ![c] = next[readBlock[c]]]
          /\ cpc' = [cpc EXCEPT ![c] = "count"]
      BY <2>2 DEF AdvanceToken
    <3>3. Page(k) # LastPage(H)
      BY <1>4, <3>1
    <3>4. next[readBlock[c]] = L[Page(k + 1)] /\ L[Page(k + 1)] \in Blocks
          /\ L[Page(k)] \in Blocks
      BY <1>3, <1>4, <3>1, <3>3 DEF BufferInvAt, Linked
    <3> QED BY <1>3, <3>1, <3>2, <3>4 DEF BufferTypes
  <2> QED BY <2>1, <2>2
<1>6. LastPage(H)' = LastPage(H) /\ PassedItems' = PassedItems /\ FilledItems' = FilledItems
  BY <1>2 DEF LastPage, PassedItems, FilledItems
<1>7. ASSUME NEW q \in Nat
      PROVE  OutOf(q)' = OutOf(q)
  <2>1. c \in OutOf(q)' <=> c \in OutOf(q)
    BY <1>1, <1>2, <1>4, <1>5 DEF OutOf
  <2>2. \A d \in Consumers : d # c => (d \in OutOf(q)' <=> d \in OutOf(q))
    BY <1>2, <1>5 DEF OutOf
  <2>3. OutOf(q)' \subseteq Consumers /\ OutOf(q) \subseteq Consumers
    BY DEF OutOf
  <2> QED BY <2>1, <2>2, <2>3
<1>8. Linked(H, L)'
  BY <1>2, <1>6 DEF BufferInvAt, Linked
<1>9. Writing(H, L)'
  BY <1>2, <1>6, <1>7 DEF BufferInvAt, Writing
<1>10. Stored(H, L)'
  <2>1. ASSUME NEW q \in H .. LastPage(H), NEW j \in Nat, Page(j) = q
        PROVE  IF j < FilledItems THEN data[L[q]][Pos(j)] = j + 1
               ELSE \A d \in Consumers : data[L[q]][Pos(j)] <= readNum'[d]
    <3>1. data[L[q]][Pos(j)] \in Nat
      <4>1. L[q] \in Blocks /\ Pos(j) \in Places
        BY <2>1, Bounds, PageTypes
      <4>2. data \in [Blocks -> [Places -> Nat]]
        BY DEF BufferTypes
      <4> QED BY <4>1, <4>2
    <3>2. ASSUME NEW d \in Consumers
          PROVE  readNum[d] \in Nat /\ readNum'[d] \in Nat /\ readNum[d] <= readNum'[d]
      <4>1. readNum[d] \in Nat
        BY DEF BufferTypes
      <4>2. CASE d = c
        BY <1>1, <1>2, <4>2
      <4>3. CASE d # c
        BY <1>2, <4>1, <4>3
      <4> QED BY <4>2, <4>3
    <3>3. IF j < FilledItems THEN data[L[q]][Pos(j)] = j + 1
          ELSE \A d \in Consumers : data[L[q]][Pos(j)] <= readNum[d]
      BY <2>1 DEF BufferInvAt, Stored
    <3> QED BY <3>1, <3>2, <3>3
  <2> QED BY <1>2, <1>6, <2>1 DEF Stored
<1>11. Reading(H, L)'
  <2>1. ASSUME NEW d \in Consumers, d # c
        PROVE  /\ UNCHANGED <<readNum[d], snapshot[d], readPos[d], readBlock[d], leaving[d], cpc[d]>>
    BY <1>2, <1>5, <2>1
  <2>2. /\ k + 1 <= snapshot[c] /\ snapshot[c] <= writeNum /\ Page(k + 1) >= H
        /\ cpc'[c] \notin {"copy", "advance"}
        /\ cpc'[c] = "count" => Page(k + 1) > H /\ leaving'[c] = L[Page(k + 1) - 1]
        /\ cpc'[c] # "count" => leaving'[c] = NoBlock
    BY <1>3, <1>4, <1>5
  <2> QED BY <1>2, <1>5, <2>1, <2>2 DEF BufferInvAt, Reading
<1>12. Counting(H, L)'
  BY <1>2, <1>6, <1>7, Bounds DEF BufferInvAt, Counting
<1>13. BufferTypes'
  BY <1>2, <1>5, <1>6 DEF BufferTypes
<1> QED BY <1>8, <1>9, <1>10, <1>11, <1>12, <1>13 DEF BufferInvAt

\* A consumer is counted once out of the page it has left, and of no other.
LEMMA CountOutKeeps ==
    ASSUME BufferTypes, NEW H \in Nat, NEW L \in [Nat -> Blocks], BufferInvAt(H, L),
           NEW c \in Consumers, CountOut(c)
    PROVE  BufferTypes' /\ BufferInvAt(H, L)'
<1>1. /\ cpc[c] = "count"
      /\ UNCHANGED <<next, data, blockCount, head, tail, write, writePos, writeNum,
                     cachedActive, ppc, registered, readBlock, readPos, readNum, snapshot, got>>
      /\ count' = [count EXCEPT ![leaving[c]] = @ + 1]
      /\ cpc' \in [Consumers -> {"idle", "copy", "advance", "count"}] /\ cpc'[c] = "idle"
      /\ leaving' \in [Consumers -> Blocks \cup {NoBlock}] /\ leaving'[c] = NoBlock
      /\ \A d \in Consumers : d # c => cpc'[d] = cpc[d] /\ leaving'[d] = leaving[d]
  BY DEF CountOut, BufferTypes
<1>2. PICK o \in Nat : o = Page(readNum[c]) - 1
  <2>1. Page(readNum[c]) \in Nat /\ Page(readNum[c]) > H
    BY <1>1, Bounds DEF BufferInvAt, Reading
  <2> QED BY <2>1
<1>3. /\ o \in H .. LastPage(H) /\ Page(readNum[c]) = o + 1
      /\ leaving[c] = L[o] /\ L[o] \in Blocks /\ L[o] <= blockCount
  <2>1. Page(readNum[c]) \in H .. LastPage(H) /\ Page(readNum[c]) > H /\ leaving[c] = L[o]
    BY <1>1, <1>2, Bounds DEF BufferInvAt, Reading
  <2>2. o \in H .. LastPage(H) /\ Page(readNum[c]) = o + 1
    BY <1>2, <2>1, Bounds
  <2> QED BY <2>1, <2>2 DEF BufferInvAt, Linked
<1>4. /\ count' \in [Blocks -> Nat] /\ count'[L[o]] = count[L[o]] + 1
      /\ \A b \in Blocks : b # L[o] => count'[b] = count[b]
  BY <1>1, <1>3 DEF BufferTypes
<1>5. LastPage(H)' = LastPage(H) /\ PassedItems' = PassedItems /\ FilledItems' = FilledItems
  BY <1>1 DEF LastPage, PassedItems, FilledItems
<1>6. ASSUME NEW q \in Nat
      PROVE  IF q = o THEN c \notin OutOf(q) /\ OutOf(q)' = OutOf(q) \cup {c}
             ELSE OutOf(q)' = OutOf(q)
  <2>1. c \in OutOf(q) <=> o + 1 > q /\ q # o
    <3>1. c \in OutOf(q) <=> o + 1 > q /\ o + 1 # q + 1
      BY <1>1, <1>3 DEF OutOf
    <3> QED BY <3>1
  <2>2. c \in OutOf(q)' <=> o + 1 > q
    BY <1>1, <1>3 DEF OutOf
  <2>3. \A d \in Consumers : d # c => (d \in OutOf(q)' <=> d \in OutOf(q))
    BY <1>1 DEF OutOf
  <2>4. OutOf(q)' \subseteq Consumers /\ OutOf(q) \subseteq Consumers
    BY DEF OutOf
  <2> QED BY <1>2, <2>1, <2>2, <2>3, <2>4
<1>7. Linked(H, L)'
  <2>1. \A b \in Blocks : b > blockCount => b # L[o]
    <3>1. \A b \in Blocks : b \in Nat
      BY BufferAssumption DEF Blocks
    <3>2. blockCount \in Nat
      BY DEF BufferTypes
    <3> QED BY <1>3, <3>1, <3>2
  <2> QED BY <1>1, <1>4, <1>5, <2>1 DEF BufferInvAt, Linked
<1>8. Writing(H, L)'
  <2>1. OutOf(H) = Consumers => OutOf(H)' = Consumers
    BY <1>6
  <2> QED BY <1>1, <1>5, <2>1 DEF BufferInvAt, Writing
<1>9. Stored(H, L)'
  BY <1>1, <1>5 DEF BufferInvAt, Stored
<1>10. Reading(H, L)'
  BY <1>1 DEF BufferInvAt, Reading
<1>11. Counting(H, L)'
  <2>1. ASSUME NEW q \in H .. LastPage(H)
        PROVE  count'[L[q]] = Cardinality(OutOf(q)')
    <3>1. q \in Nat /\ L[q] \in Blocks /\ count[L[q]] = Cardinality(OutOf(q))
      BY <2>1, Bounds DEF BufferInvAt, Counting
    <3>2. CASE q = o
      <4>1. IsFiniteSet(OutOf(q))
        BY BufferAssumption, FS_Subset DEF OutOf
      <4>2. Cardinality(OutOf(q)') = Cardinality(OutOf(q)) + 1
        BY <1>6, <3>1, <3>2, <4>1, FS_AddElement
      <4> QED BY <1>4, <3>1, <3>2, <4>2
    <3>3. CASE q # o
      <4>1. L[q] # L[o]
        BY <1>3, <2>1, <3>3 DEF BufferInvAt, Linked
      <4> QED BY <1>4, <1>6, <3>1, <3>3, <4>1
    <3> QED BY <3>2, <3>3
  <2> QED BY <1>1, <1>5, <2>1 DEF BufferInvAt, Counting
<1>12. BufferTypes'
  BY <1>1, <1>4, <1>5 DEF BufferTypes
<1> QED BY <1>7, <1>8, <1>9, <1>10, <1>11, <1>12 DEF BufferInvAt

-----------------------------------------------------------------------------
(* The invariant.                                                            *)

\* The constructor lays out pages 0 to InitialBlocks - 1, all of them empty.
LEMMA InitHolds ==
    ASSUME Init
    PROVE  BufferInv
<1> USE DEF Init
<1>1. PICK L \in [Nat -> Blocks] : L = [q \in Nat |-> IF q < InitialBlocks THEN q + 1 ELSE 1]
  <2>1. \A q \in Nat : (IF q < InitialBlocks THEN q + 1 ELSE 1) \in Blocks
    BY BufferAssumption DEF Blocks
  <2> QED BY <2>1
<1>2. /\ LastPage(0) = InitialBlocks - 1 /\ PassedItems = 0 /\ FilledItems = 0
      /\ LastPage(0) \in Nat /\ 0 \in 0 .. LastPage(0) /\ LastPage(0) \in 0 .. LastPage(0)
  BY BufferAssumption DEF LastPage, PassedItems, FilledItems
<1>3. \A q \in 0 .. LastPage(0) : L[q] = q + 1 /\ q \in Nat
  BY <1>1, <1>2, BufferAssumption
<1>4. BufferTypes
  BY <1>2, BufferAssumption DEF BufferTypes, Blocks, Places, NoBlock
<1>5. Linked(0, L)
  <2>1. \A q \in 0 .. LastPage(0) : L[q] \in 1 .. blockCount /\ L[q] \in Blocks
    BY <1>2, <1>3, BufferAssumption DEF Blocks
  <2>2. \A q, r \in 0 .. LastPage(0) : L[q] = L[r] => q = r
    BY <1>3
  <2>3. head = L[0] /\ tail = L[LastPage(0)]
    BY <1>2, <1>3, BufferAssumption
  <2>4. ASSUME NEW q \in 0 .. LastPage(0)
        PROVE  next[L[q]] = IF q = LastPage(0) THEN NoBlock ELSE L[q + 1]
    <3>1. next[L[q]] = IF q + 1 < InitialBlocks THEN q + 2 ELSE NoBlock
      BY <1>3, <2>1
    <3>2. InitialBlocks \in Nat \ {0} /\ LastPage(0) = InitialBlocks - 1
      BY <1>2, BufferAssumption
    <3>3. CASE q = LastPage(0)
      <4>1. ~ (q + 1 < InitialBlocks)
        BY <3>2, <3>3
      <4> QED BY <3>1, <3>3, <4>1
    <3>4. CASE q # LastPage(0)
      <4>1. q \in 0 .. InitialBlocks - 1 /\ q # InitialBlocks - 1
        BY <3>2, <3>4
      <4>2. q + 1 < InitialBlocks /\ q + 1 \in 0 .. InitialBlocks - 1 /\ q + 2 = (q + 1) + 1
        BY <3>2, <4>1
      <4>3. L[q + 1] = (q + 1) + 1
        BY <1>3, <3>2, <4>2
      <4> QED BY <3>1, <3>4, <4>2, <4>3
    <3> QED BY <3>3, <3>4
  <2>5. \A b \in Blocks : b > blockCount =>
            next[b] = NoBlock /\ count[b] = 0 /\ \A p \in Places : data[b][p] = 0
    BY BufferAssumption DEF Blocks
  <2> QED BY <2>1, <2>2, <2>3, <2>4, <2>5 DEF Linked
<1>6. Writing(0, L)
  BY <1>2, <1>3, PageTypes DEF Writing
<1>7. Stored(0, L)
  <2>1. \A q \in 0 .. LastPage(0) : L[q] \in Blocks
    BY <1>3
  <2>2. \A k \in Nat : Pos(k) \in Places
    BY PageTypes
  <2>3. \A k \in Nat : ~ (k < 0)
    OBVIOUS
  <2> QED BY <1>2, <2>1, <2>2, <2>3 DEF Stored
<1>8. Reading(0, L)
  BY PageTypes DEF Reading
<1>9. Counting(0, L)
  <2>1. \A q \in 0 .. LastPage(0) : OutOf(q) = {}
    BY PageTypes DEF OutOf
  <2>2. \A q \in 0 .. LastPage(0) : count[L[q]] = 0
    BY <1>3
  <2> QED BY <2>1, <2>2, FS_EmptySet DEF Counting
<1> QED BY <1>4, <1>5, <1>6, <1>7, <1>8, <1>9 DEF BufferInv, BufferInvAt

\* One step of the producer or of a consumer keeps the invariant.
LEMMA StepKeeps ==
    ASSUME BufferInv, [Next]_vars
    PROVE  BufferInv'
<1>1. PICK H \in Nat, L \in [Nat -> Blocks] : BufferInvAt(H, L)
  BY DEF BufferInv
<1>2. BufferTypes
  BY DEF BufferInv
<1>3. CASE FillSlot
  BY <1>1, <1>2, <1>3, FillKeeps DEF BufferInv
<1>4. CASE AdvanceInBlock \/ AdvanceToNext
  BY <1>1, <1>2, <1>4, AdvanceKeeps DEF BufferInv
<1>5. CASE StartRecycling
  BY <1>1, <1>2, <1>5, StartRecyclingKeeps DEF BufferInv
<1>6. CASE MoveHeadToTail
  <2>1. H + 1 \in Nat
    OBVIOUS
  <2> QED BY <1>1, <1>2, <1>6, <2>1, MoveKeeps DEF BufferInv
<1>7. CASE CreateBlock
  BY <1>1, <1>2, <1>7, CreateKeeps DEF BufferInv
<1>8. CASE Publish
  BY <1>1, <1>2, <1>8, PublishKeeps DEF BufferInv
<1>9. ASSUME NEW c \in Consumers, RegisterConsumer(c) \/ Reader(c)
      PROVE  BufferInv'
  <2>1. CASE RegisterConsumer(c)
    BY <1>1, <1>2, <2>1, RegisterKeeps DEF BufferInv
  <2>2. CASE BeginRead(c)
    BY <1>1, <1>2, <2>2, BeginReadKeeps DEF BufferInv
  <2>3. CASE CopyOut(c)
    BY <1>1, <1>2, <2>3, CopyOutKeeps DEF BufferInv
  <2>4. CASE AdvanceToken(c)
    BY <1>1, <1>2, <2>4, AdvanceTokenKeeps DEF BufferInv
  <2>5. CASE CountOut(c)
    BY <1>1, <1>2, <2>5, CountOutKeeps DEF BufferInv
  <2> QED BY <1>9, <2>1, <2>2, <2>3, <2>4, <2>5 DEF Reader
<1>10. CASE UNCHANGED vars
  <2>1. UNCHANGED <<next, data, count, blockCount, head, tail, write, writePos, writeNum,
                    cachedActive, ppc, registered, readBlock, readPos, readNum, snapshot, got,
                    leaving, cpc>>
    BY <1>10 DEF vars, chain, tokens
  <2>2. /\ Linked(H, L)' /\ Writing(H, L)' /\ Stored(H, L)'
        /\ \A q : OutOf(q)' = OutOf(q)
    BY <1>1, <1>2, <2>1, ChainStays
  <2>3. Reading(H, L)' /\ Counting(H, L)'
    BY <1>1, <2>1, <2>2 DEF BufferInvAt, Reading, Counting, LastPage
  <2>4. BufferTypes'
    BY <1>2, <2>1 DEF BufferTypes, PassedItems
  <2> QED BY <2>2, <2>3, <2>4 DEF BufferInv, BufferInvAt
<1> QED BY <1>3, <1>4, <1>5, <1>6, <1>7, <1>8, <1>9, <1>10 DEF Next, Producer

\* In every reachable state the list of blocks is a window on the pages, with
\* every item of it where its readers will look for it.
THEOREM Buffer_Invariant == Spec => []BufferInv
<1>1. Init => BufferInv
  BY InitHolds
<1>2. BufferInv /\ [Next]_vars => BufferInv'
  BY StepKeeps
<1> QED BY <1>1, <1>2, PTL DEF Spec

\* A registered consumer always has a block: CommitWrite links the successor
\* before it publishes the item that leads to it, and no block it can still
\* come to is recycled.
THEOREM Never_Stranded == Spec => []NeverStranded
<1>1. BufferInv => NeverStranded
  <2>1. SUFFICES ASSUME BufferInv, NEW c \in registered
                 PROVE  readBlock[c] # NoBlock
    BY DEF NeverStranded
  <2>2. PICK H \in Nat, L \in [Nat -> Blocks] : BufferInvAt(H, L)
    BY <2>1 DEF BufferInv
  <2>3. BufferTypes /\ c \in Consumers
    BY <2>1 DEF BufferInv, BufferTypes
  <2>4. Page(readNum[c]) \in Nat
    BY <2>2, <2>3, Bounds
  <2>5. readBlock[c] \in Blocks
    BY <2>1, <2>2, <2>3, <2>4 DEF BufferInvAt, Reading
  <2> QED BY <2>5, BufferAssumption DEF Blocks, NoBlock
<1> QED BY <1>1, Buffer_Invariant, PTL

\* The slot the producer fills holds an item that every consumer has read:
\* counting the last slot of a block is enough for all of its slots.
THEOREM Overwrites_Only_Read == Spec => OverwritesOnlyRead
<1> DEFINE Read == \A b \in Blocks, p \in Places :
                      data'[b][p] # data[b][p] => \A c \in Consumers : readNum[c] >= data[b][p]
<1>1. BufferInv /\ [Next]_vars => [Read]_vars
  <2>1. SUFFICES ASSUME BufferInv, Next
                 PROVE  Read
    OBVIOUS
  <2>2. data \in [Blocks -> [Places -> Nat]] /\ readNum \in [Consumers -> Nat]
    BY <2>1 DEF BufferInv, BufferTypes
  <2>3. CASE FillSlot
    <3>1. PICK H \in Nat, L \in [Nat -> Blocks] : BufferInvAt(H, L)
      BY <2>1 DEF BufferInv
    <3>2. /\ \A c \in Consumers : data[write][writePos] <= readNum[c]
          /\ write \in Blocks /\ writePos \in Places
      BY <2>1, <2>3, <3>1, FillKeeps, Bounds DEF BufferInv
    <3>3. \A b \in Blocks, p \in Places :
             data'[b][p] # data[b][p] => b = write /\ p = writePos
      BY <2>2, <2>3 DEF FillSlot
    <3> QED BY <2>2, <3>2, <3>3
  <2>4. CASE data' = data
    BY <2>4
  <2> QED BY <2>1, <2>3, <2>4 DEF Next, Producer, Reader, AdvanceInBlock, AdvanceToNext,
             StartRecycling, MoveHeadToTail, CreateBlock, Publish, RegisterConsumer, BeginRead,
             CopyOut, AdvanceToken, CountOut, chain
<1>2. OverwritesOnlyRead <=> [][Read]_vars
  BY PTL DEF OverwritesOnlyRead
<1> QED BY <1>1, <1>2, Buffer_Invariant, PTL DEF Spec

\* A block is created only while some consumer has not finished with the head
\* block, so the number of blocks is what the slowest consumer makes it.
THEOREM Grows_Only_When_Held == Spec => GrowsOnlyWhenHeld
<1> DEFINE Held == blockCount' > blockCount =>
              \E c \in registered : readNum[c] < data[head][BlockSize - 1] \/ leaving[c] = head
<1>1. BufferInv /\ [Next]_vars => [Held]_vars
  <2>1. SUFFICES ASSUME BufferInv, Next
                 PROVE  Held
    OBVIOUS
  <2>2. CASE CreateBlock
    <3>1. PICK H \in Nat, L \in [Nat -> Blocks] : BufferInvAt(H, L)
      BY <2>1 DEF BufferInv
    <3> QED BY <2>1, <2>2, <3>1, CreateKeeps DEF BufferInv
  <2>3. CASE blockCount' = blockCount
    <3>1. blockCount \in Nat
      BY <2>1 DEF BufferInv, BufferTypes
    <3> QED BY <2>3, <3>1
  <2> QED BY <2>1, <2>2, <2>3 DEF Next, Producer, Reader, FillSlot, AdvanceInBlock, AdvanceToNext,
             StartRecycling, MoveHeadToTail, Publish, RegisterConsumer, BeginRead, CopyOut,
             AdvanceToken, CountOut, chain
<1>2. GrowsOnlyWhenHeld <=> [][Held]_vars
  BY PTL DEF GrowsOnlyWhenHeld
<1> QED BY <1>1, <1>2, Buffer_Invariant, PTL DEF Spec

-----------------------------------------------------------------------------
(* The log the buffer implements.                                            *)

\* What the log sees of the consumers.
Position == [c \in Consumers |-> IF cpc[c] = "advance" THEN readNum[c] + 1 ELSE readNum[c]]

\* Copying an item out reads it from the log; publishing extends the log; the
\* log sees nothing of any other step.
LEMMA StepOfLog ==
    ASSUME BufferInv, [Next]_vars
    PROVE  [Log!Next]_(Log!vars)
<1>1. PICK H \in Nat, L \in [Nat -> Blocks] : BufferInvAt(H, L)
  BY DEF BufferInv
<1>2. BufferTypes
  BY DEF BufferInv
<1>3. ASSUME UNCHANGED <<writeNum, got>>, Position' = Position
      PROVE  UNCHANGED Log!vars
  BY <1>3 DEF Log!vars, Position
<1>4. CASE Publish
  <2>1. Position' = Position
    BY <1>4 DEF Publish, tokens, Position
  <2> QED BY <1>4, <2>1 DEF Publish, tokens, Position, Log!Next, Log!Publish
<1>5. CASE Producer /\ ~ Publish
  <2>1. UNCHANGED <<writeNum, got, cpc, readNum>>
    BY <1>5 DEF Producer, FillSlot, AdvanceInBlock, AdvanceToNext, StartRecycling, MoveHeadToTail,
                CreateBlock, tokens
  <2> QED BY <1>3, <2>1 DEF Position
<1>6. ASSUME NEW c \in Consumers, CopyOut(c)
      PROVE  Log!Next
  <2>1. readNum[c] < writeNum /\ got' = [got EXCEPT ![c] = readNum[c] + 1]
    BY <1>1, <1>2, <1>6, CopyOutKeeps
  <2>2. /\ Position[c] = readNum[c] /\ writeNum' = writeNum
        /\ Position' = [Position EXCEPT ![c] = @ + 1]
    BY <1>2, <1>6 DEF CopyOut, chain, Position, BufferTypes
  <2>3. Log!Read(c)
    BY <2>1, <2>2 DEF Log!Read, Position
  <2> QED BY <2>3 DEF Log!Next
<1>7. ASSUME NEW c \in Consumers, AdvanceToken(c)
      PROVE  UNCHANGED <<writeNum, got>> /\ Position' = Position
  <2>1. /\ cpc[c] = "advance" /\ readNum' = [readNum EXCEPT ![c] = @ + 1]
        /\ UNCHANGED <<writeNum, got>>
        /\ cpc' = [cpc EXCEPT ![c] = "idle"] \/ cpc' = [cpc EXCEPT ![c] = "count"]
    BY <1>7 DEF AdvanceToken, chain
  <2>2. \A d \in Consumers : (IF cpc'[d] = "advance" THEN readNum'[d] + 1 ELSE readNum'[d])
                           = (IF cpc[d] = "advance" THEN readNum[d] + 1 ELSE readNum[d])
    BY <1>2, <2>1 DEF BufferTypes
  <2> QED BY <2>1, <2>2 DEF Position
<1>8. ASSUME NEW c \in Consumers, BeginRead(c) \/ CountOut(c) \/ RegisterConsumer(c)
      PROVE  UNCHANGED <<writeNum, got>> /\ Position' = Position
  <2>1. /\ UNCHANGED <<writeNum, got, readNum>>
        /\ \/ cpc' = cpc
           \/ cpc[c] # "advance" /\ cpc' = [cpc EXCEPT ![c] = "copy"]
           \/ cpc[c] # "advance" /\ cpc' = [cpc EXCEPT ![c] = "idle"]
    BY <1>8 DEF BeginRead, CountOut, RegisterConsumer, chain
  <2>2. \A d \in Consumers : cpc'[d] = "advance" <=> cpc[d] = "advance"
    BY <1>2, <2>1 DEF BufferTypes
  <2> QED BY <2>1, <2>2 DEF Position
<1>9. CASE UNCHANGED vars
  BY <1>3, <1>9 DEF vars, chain, tokens, Position
<1> QED BY <1>3, <1>4, <1>5, <1>6, <1>7, <1>8, <1>9 DEF Next, Reader

\* Every consumer reads every item exactly once and in order, whatever the
\* number of consumers and the sizes are.
THEOREM Implements_Log == Spec => ImplementsLog
<1>1. Init => Log!Init
  BY DEF Init, Log!Init
<1>2. BufferInv /\ [Next]_vars => [Log!Next]_(Log!vars)
  BY StepOfLog
<1> QED BY <1>1, <1>2, Buffer_Invariant, PTL DEF Spec, ImplementsLog, Log!Spec
=============================================================================
