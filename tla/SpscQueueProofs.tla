-------------------------- MODULE SpscQueueProofs --------------------------
(* The queue is correct for every capacity and every index width that meet   *)
(* SizeAssumption, and for every number of pushes.  The inductive invariant  *)
(* is RingInv of module SpscQueue.                                           *)
EXTENDS SpscQueue, Sequences, TLAPS

\* The remainder of q times the capacity plus r is r.
LEMMA ModOfSum ==
    ASSUME NEW n \in Nat, NEW q \in Nat, NEW r \in 0 .. Capacity - 1, n = q * Capacity + r
    PROVE  n % Capacity = r
BY SizeAssumption, SMT

\* A masked index is a slot.
LEMMA MaskRange ==
    ASSUME NEW i \in Nat
    PROVE  Mask(i) \in Slots
BY SizeAssumption, SMT DEF Mask, Slots

\* An index is a number of whole turns of the ring and a slot.
LEMMA Quotient ==
    ASSUME NEW i \in Nat
    PROVE  \E q \in Nat : i = q * Capacity + Mask(i)
<1>1. i = (Capacity * (i \div Capacity)) + (i % Capacity)
  BY SizeAssumption
<1>2. i \div Capacity \in Nat
  BY SizeAssumption
<1>3. i = (i \div Capacity) * Capacity + Mask(i)
  BY <1>1, <1>2, SizeAssumption DEF Mask
<1>. QED BY <1>2, <1>3

\* Advancing an index wraps it at the width of the type, and only there.
LEMMA IncValue ==
    ASSUME NEW i \in 0 .. Width - 1
    PROVE  Inc(i) = IF i = Width - 1 THEN 0 ELSE i + 1
<1>1. CASE i = Width - 1
  BY <1>1, SizeAssumption, SMT DEF Inc
<1>2. CASE i # Width - 1
  <2>1. i + 1 \in 0 .. Width - 1
    BY <1>2, SizeAssumption
  <2>. QED BY <2>1, <1>2, SizeAssumption, SMT DEF Inc
<1>. QED BY <1>1, <1>2

\* Advancing an index moves it to the next slot of the ring, also when the
\* index wraps: the width of the type is a multiple of the capacity.
LEMMA MaskInc ==
    ASSUME NEW i \in 0 .. Width - 1
    PROVE  Mask(Inc(i)) = IF Mask(i) = Capacity - 1 THEN 0 ELSE Mask(i) + 1
<1>. DEFINE r == Mask(i)
<1>1. r \in 0 .. Capacity - 1
  BY MaskRange, SizeAssumption DEF Slots
<1>2. PICK q \in Nat : i = q * Capacity + r
  BY Quotient, SizeAssumption
<1>3. PICK k \in 2 .. Width : Width = k * Capacity
  BY SizeAssumption
<1>4. Mask(0) = 0
  BY SizeAssumption, ModOfSum DEF Mask
<1>5. CASE i = Width - 1
  <2>1. i = (k - 1) * Capacity + (Capacity - 1)
    BY <1>3, <1>5, SizeAssumption
  <2>2. r = Capacity - 1
    BY <2>1, ModOfSum, SizeAssumption DEF Mask
  <2>. QED BY <2>2, <1>4, <1>5, IncValue
<1>6. CASE i # Width - 1 /\ r = Capacity - 1
  <2>1. i + 1 = (q + 1) * Capacity + 0
    BY <1>2, <1>6, SizeAssumption
  <2>2. i + 1 \in Nat /\ q + 1 \in Nat /\ 0 \in 0 .. Capacity - 1
    BY SizeAssumption
  <2>3. (i + 1) % Capacity = 0
    BY <2>1, <2>2, ModOfSum
  <2>. QED BY <2>3, <1>6, IncValue DEF Mask
<1>7. CASE i # Width - 1 /\ r # Capacity - 1
  <2>1. i + 1 = q * Capacity + (r + 1) /\ r + 1 \in 0 .. Capacity - 1
    BY <1>1, <1>2, <1>7, SizeAssumption
  <2>2. i + 1 \in Nat /\ q \in Nat
    OBVIOUS
  <2>3. (i + 1) % Capacity = r + 1
    BY <2>1, <2>2, ModOfSum
  <2>. QED BY <2>3, <1>7, IncValue DEF Mask
<1>. QED BY <1>5, <1>6, <1>7

-----------------------------------------------------------------------------
\* The slots k and m places after the head are different slots.
LEMMA PositionInjective ==
    ASSUME TypeOK, NEW k \in 0 .. Capacity - 1, NEW m \in 0 .. Capacity - 1,
           Position(k) = Position(m)
    PROVE  k = m /\ Position(k) \in Slots
<1>1. Mask(head) \in Slots
  BY MaskRange, SizeAssumption DEF TypeOK
<1>. QED BY <1>1, SizeAssumption DEF Position, Slots

\* The inductive invariant holds of an empty queue ...
LEMMA InitRing == Init => RingInv
<1>. SUFFICES ASSUME Init PROVE RingInv
  OBVIOUS
<1>1. Mask(0) = 0
  BY SizeAssumption, ModOfSum DEF Mask
<1>2. TypeOK
  BY SizeAssumption DEF Init, TypeOK, Slots
<1>3. Occupancy = 0
  BY DEF Init, Occupancy
<1>. QED BY <1>1, <1>2, <1>3, SizeAssumption DEF Init, RingInv, InFlight, Contents, ConsumerHolds, FifoOrder, Position

\* What an advance of one index does to the distance between them.
LEMMA TailAdvance ==
    ASSUME TypeOK, Occupancy < Capacity - 1, head' = head, tail' = Inc(tail)
    PROVE  Occupancy' = Occupancy + 1
BY IncValue, SizeAssumption DEF TypeOK, Occupancy

\* An advance of head shortens the queue and renumbers the places after it.
LEMMA HeadAdvance ==
    ASSUME TypeOK, 0 < Occupancy, Occupancy < Capacity, head' = Inc(head), tail' = tail
    PROVE  /\ Occupancy' = Occupancy - 1
           /\ \A k \in 0 .. Capacity - 2 : Position(k)' = Position(k + 1)
<1>1. Occupancy' = Occupancy - 1
  BY IncValue, SizeAssumption DEF TypeOK, Occupancy
<1>2. ASSUME NEW k \in 0 .. Capacity - 2
      PROVE  Position(k)' = Position(k + 1)
  <2>1. Mask(head') = IF Mask(head) = Capacity - 1 THEN 0 ELSE Mask(head) + 1
    BY MaskInc DEF TypeOK
  <2>2. Mask(head) \in Slots
    BY MaskRange, SizeAssumption DEF TypeOK
  <2>. QED BY <2>1, <2>2, SizeAssumption DEF Position, Mask, Slots
<1>. QED BY <1>1, <1>2

\* ... and every step of either thread keeps it.
LEMMA NextRing == RingInv /\ [Next]_vars => RingInv'
<1>. SUFFICES ASSUME RingInv, [Next]_vars PROVE RingInv'
  OBVIOUS
<1>. USE SizeAssumption
<1>a. /\ TypeOK /\ InFlight /\ Contents /\ ConsumerHolds /\ FifoOrder
      /\ Mask(head) \in Slots /\ Mask(tail) \in Slots
      /\ Inc(head) \in 0 .. Width - 1 /\ Inc(tail) \in 0 .. Width - 1
      /\ Occupancy \in Nat
  BY MaskRange, IncValue DEF RingInv, TypeOK, Occupancy
<1>1. CASE PushCheck
  <2>1. UNCHANGED <<head, tail, buffer, cpc, out, last, pushed, popped>> /\ ppc' = "write" /\ ppc = "idle"
    BY <1>1 DEF PushCheck
  <2>2. Occupancy' = Occupancy /\ Mask(tail)' = Mask(tail)
    BY <2>1 DEF Occupancy, Mask
  <2>3. \A k \in 0 .. Capacity - 1 : Position(k)' = Position(k)
    BY <2>1 DEF Position, Mask
  <2>4. Occupancy # Capacity - 1
    <3>1. Mask(Inc(tail)) # Mask(head)
      BY <1>1 DEF PushCheck, IsFull
    <3>2. Mask(Inc(tail)) = IF Mask(tail) = Capacity - 1 THEN 0 ELSE Mask(tail) + 1
      BY <1>a, MaskInc DEF TypeOK
    <3>. QED BY <1>a, <3>1, <3>2 DEF InFlight, Position, Slots
  <2>5. TypeOK'
    BY <1>a, <2>1 DEF TypeOK
  <2>6. InFlight'
    BY <1>a, <2>1, <2>2, <2>3, <2>4 DEF InFlight
  <2>7. Contents'
    BY <1>a, <2>1, <2>2, <2>3 DEF Contents
  <2>8. ConsumerHolds' /\ FifoOrder'
    BY <1>a, <2>1, <2>2 DEF ConsumerHolds, FifoOrder
  <2>. QED BY <2>5, <2>6, <2>7, <2>8 DEF RingInv
<1>2. CASE PushWrite
  <2>1. /\ UNCHANGED <<head, tail, cpc, out, last, pushed, popped>>
        /\ ppc = "write" /\ ppc' = "publish"
        /\ buffer' = [buffer EXCEPT ![Mask(tail)] = pushed + 1]
    BY <1>2 DEF PushWrite
  <2>2. Occupancy' = Occupancy /\ Mask(tail)' = Mask(tail)
    BY <2>1 DEF Occupancy, Mask
  <2>3. \A k \in 0 .. Capacity - 1 : Position(k)' = Position(k)
    BY <2>1 DEF Position, Mask
  <2>4. TypeOK'
    BY <1>a, <2>1 DEF TypeOK
  <2>5. InFlight'
    BY <1>a, <2>1, <2>2, <2>3 DEF InFlight
  <2>6. Contents'
    <3>1. buffer'[Mask(tail)] = pushed + 1
      BY <1>a, <2>1 DEF TypeOK
    <3>2. ASSUME NEW k \in 0 .. Capacity - 1, k < Occupancy
          PROVE  buffer'[Position(k)] = popped + k + 1
      <4>1. Mask(tail) = Position(Occupancy) /\ Occupancy \in 0 .. Capacity - 1
        BY <1>a DEF InFlight
      <4>2. Position(k) # Mask(tail) /\ Position(k) \in Slots
        BY <1>a, <3>2, <4>1, PositionInjective
      <4>3. buffer[Position(k)] = popped + k + 1
        BY <1>a, <3>2 DEF Contents
      <4>. QED BY <1>a, <2>1, <4>2, <4>3 DEF TypeOK
    <3>. QED BY <2>1, <2>2, <2>3, <3>1, <3>2 DEF Contents
  <2>7. ConsumerHolds' /\ FifoOrder'
    BY <1>a, <2>1, <2>2 DEF ConsumerHolds, FifoOrder
  <2>. QED BY <2>4, <2>5, <2>6, <2>7 DEF RingInv
<1>3. CASE PushPublish
  <2>1. /\ UNCHANGED <<head, buffer, cpc, out, last, popped>>
        /\ ppc = "publish" /\ ppc' = "idle"
        /\ tail' = Inc(tail) /\ pushed' = pushed + 1
    BY <1>3 DEF PushPublish
  <2>2. Occupancy' = Occupancy + 1 /\ Occupancy < Capacity - 1
    BY <1>a, <2>1, TailAdvance DEF InFlight
  <2>3. \A k \in 0 .. Capacity - 1 : Position(k)' = Position(k)
    BY <2>1 DEF Position, Mask
  <2>4. TypeOK'
    BY <1>a, <2>1 DEF TypeOK
  <2>5. InFlight'
    <3>1. Mask(tail') = IF Mask(tail) = Capacity - 1 THEN 0 ELSE Mask(tail) + 1
      BY <1>a, <2>1, MaskInc DEF TypeOK
    <3>2. Mask(tail') = Position(Occupancy + 1)
      BY <1>a, <2>2, <3>1 DEF InFlight, Position, Slots
    <3>4. Mask(tail)' = Position(Occupancy)'
      BY <2>1, <2>2, <3>2 DEF Position, Mask
    <3>5. Occupancy' = pushed' - popped'
      BY <1>a, <2>1, <2>2 DEF InFlight, TypeOK
    <3>. QED BY <1>a, <2>1, <2>2, <3>4, <3>5 DEF InFlight
  <2>6. Contents'
    <3>1. ASSUME NEW k \in 0 .. Capacity - 1, k < Occupancy + 1
          PROVE  buffer[Position(k)] = popped + k + 1
      <4>1. CASE k < Occupancy
        BY <1>a, <4>1 DEF Contents
      <4>2. CASE k = Occupancy
        BY <1>a, <2>1, <4>2 DEF Contents, InFlight, TypeOK
      <4>. QED BY <1>a, <3>1, <4>1, <4>2
    <3>. QED BY <2>1, <2>2, <2>3, <3>1 DEF Contents
  <2>7. ConsumerHolds' /\ FifoOrder'
    BY <1>a, <2>1, <2>2 DEF ConsumerHolds, FifoOrder
  <2>. QED BY <2>4, <2>5, <2>6, <2>7 DEF RingInv
<1>4. CASE PopCheck
  <2>1. UNCHANGED <<head, tail, buffer, ppc, out, last, pushed, popped>> /\ cpc' = "read" /\ head # tail
    BY <1>4 DEF PopCheck, IsEmpty
  <2>2. Occupancy' = Occupancy /\ Mask(tail)' = Mask(tail)
    BY <2>1 DEF Occupancy, Mask
  <2>3. \A k \in 0 .. Capacity - 1 : Position(k)' = Position(k)
    BY <2>1 DEF Position, Mask
  <2>4. TypeOK'
    BY <1>a, <2>1 DEF TypeOK
  <2>5. Occupancy > 0
    BY <1>a, <2>1 DEF TypeOK, Occupancy
  <2>6. InFlight' /\ Contents'
    BY <1>a, <2>1, <2>2, <2>3 DEF InFlight, Contents
  <2>7. ConsumerHolds' /\ FifoOrder'
    BY <1>a, <2>1, <2>2, <2>5 DEF ConsumerHolds, FifoOrder
  <2>. QED BY <2>4, <2>6, <2>7 DEF RingInv
<1>5. CASE PopRead
  <2>1. /\ UNCHANGED <<head, tail, buffer, ppc, last, pushed, popped>>
        /\ cpc = "read" /\ cpc' = "publish" /\ out' = buffer[Mask(head)]
    BY <1>5 DEF PopRead
  <2>2. Occupancy' = Occupancy /\ Mask(tail)' = Mask(tail)
    BY <2>1 DEF Occupancy, Mask
  <2>3. \A k \in 0 .. Capacity - 1 : Position(k)' = Position(k)
    BY <2>1 DEF Position, Mask
  <2>4. Position(0) = Mask(head)
    BY <1>a DEF Position, Slots
  <2>5. out' = popped + 1
    <3>1. 0 \in 0 .. Capacity - 1 /\ 0 < Occupancy
      BY <1>a, <2>1 DEF ConsumerHolds
    <3>2. buffer[Position(0)] = popped + 0 + 1
      BY <1>a, <3>1 DEF Contents
    <3>. QED BY <1>a, <2>1, <2>4, <3>2 DEF TypeOK
  <2>6. TypeOK'
    BY <1>a, <2>1 DEF TypeOK
  <2>7. InFlight' /\ Contents'
    BY <1>a, <2>1, <2>2, <2>3 DEF InFlight, Contents
  <2>8. ConsumerHolds' /\ FifoOrder'
    BY <1>a, <2>1, <2>2, <2>5 DEF ConsumerHolds, FifoOrder
  <2>. QED BY <2>6, <2>7, <2>8 DEF RingInv
<1>6. CASE PopPublish
  <2>1. /\ UNCHANGED <<tail, buffer, ppc, out, pushed>>
        /\ cpc = "publish" /\ cpc' = "idle"
        /\ head' = Inc(head) /\ popped' = popped + 1 /\ last' = out
    BY <1>6 DEF PopPublish
  <2>2. 0 < Occupancy /\ Occupancy < Capacity
    BY <1>a, <2>1 DEF ConsumerHolds, InFlight
  <2>3. /\ Occupancy' = Occupancy - 1
        /\ \A k \in 0 .. Capacity - 2 : Position(k)' = Position(k + 1)
    BY <1>a, <2>1, <2>2, HeadAdvance
  <2>4. TypeOK'
    BY <1>a, <2>1 DEF TypeOK
  <2>5. InFlight'
    <3>1. Mask(head') = IF Mask(head) = Capacity - 1 THEN 0 ELSE Mask(head) + 1
      BY <1>a, <2>1, MaskInc DEF TypeOK
    <3>2. Position(Occupancy)' = Position(Occupancy)
      BY <1>a, <2>1, <2>2, <2>3, <3>1 DEF Position, Mask, Slots
    <3>3. Mask(tail)' = Mask(tail)
      BY <2>1 DEF Mask
    <3>4. Occupancy' = pushed' - popped'
      BY <1>a, <2>1, <2>3 DEF InFlight, TypeOK
    <3>. QED BY <1>a, <2>1, <2>2, <2>3, <3>2, <3>3, <3>4 DEF InFlight
  <2>6. Contents'
    <3>1. ASSUME NEW k \in 0 .. Capacity - 1, k < Occupancy - 1
          PROVE  buffer[Position(k)'] = popped + 1 + k + 1
      <4>1. k \in 0 .. Capacity - 2 /\ k + 1 \in 0 .. Capacity - 1 /\ k + 1 < Occupancy
        BY <1>a, <2>2, <3>1
      <4>2. buffer[Position(k + 1)] = popped + (k + 1) + 1
        BY <1>a, <4>1 DEF Contents
      <4>. QED BY <1>a, <2>3, <4>1, <4>2 DEF TypeOK
    <3>2. Mask(tail)' = Mask(tail)
      BY <2>1 DEF Mask
    <3>. QED BY <1>a, <2>1, <2>3, <3>1, <3>2 DEF Contents
  <2>7. ConsumerHolds' /\ FifoOrder'
    BY <1>a, <2>1 DEF ConsumerHolds, FifoOrder
  <2>. QED BY <2>4, <2>5, <2>6, <2>7 DEF RingInv
<1>7. CASE UNCHANGED vars
  <2>1. UNCHANGED <<head, tail, buffer, ppc, cpc, out, last, pushed, popped>>
    BY <1>7 DEF vars
  <2>2. Occupancy' = Occupancy /\ Mask(tail)' = Mask(tail)
    BY <2>1 DEF Occupancy, Mask
  <2>3. \A k \in 0 .. Capacity - 1 : Position(k)' = Position(k)
    BY <2>1 DEF Position, Mask
  <2>. QED BY <1>a, <2>1, <2>2, <2>3 DEF RingInv, TypeOK, InFlight, Contents, ConsumerHolds, FifoOrder
<1>. QED BY <1>1, <1>2, <1>3, <1>4, <1>5, <1>6, <1>7 DEF Next, Producer, Consumer

-----------------------------------------------------------------------------
(* The ring's inductive invariant holds in every run, for every capacity,    *)
(* every index width that is a multiple of it and any number of pushes.      *)
THEOREM RingInvariant == Spec => []RingInv
<1>. QED BY InitRing, NextRing, PTL DEF Spec

(* The types of the ring's state, for every value of the constants.          *)
THEOREM TypeCorrect == Spec => []TypeOK
<1>1. RingInv => TypeOK
  BY DEF RingInv
<1>. QED BY <1>1, RingInvariant, PTL

(* Pop returns the pushed items in order, none lost and none twice: the      *)
(* result batches of one worker reach the scan thread in send order.         *)
THEOREM Fifo_Order == Spec => []FifoOrder
<1>1. RingInv => FifoOrder
  BY DEF RingInv
<1>. QED BY <1>1, RingInvariant, PTL

(* The producer never writes to a slot that holds an unread item.            *)
THEOREM No_Overwrite == Spec => []NoOverwrite
<1>1. RingInv => NoOverwrite
  <2>. SUFFICES ASSUME RingInv, ppc # "idle", NEW k \in 0 .. Occupancy - 1, Mask(tail) = Position(k)
                PROVE  FALSE
    BY DEF NoOverwrite, Unread
  <2>1. TypeOK /\ Occupancy \in 0 .. Capacity - 2
    BY SizeAssumption DEF RingInv, InFlight, TypeOK, Occupancy
  <2>2. Position(Occupancy) = Position(k)
    BY DEF RingInv, InFlight
  <2>3. k \in 0 .. Capacity - 1 /\ Occupancy \in 0 .. Capacity - 1 /\ k # Occupancy
    BY <2>1, SizeAssumption
  <2>. QED BY <2>1, <2>2, <2>3, PositionInjective
<1>. QED BY <1>1, RingInvariant, PTL

-----------------------------------------------------------------------------
(* The queue implements BoundedFifo, for every capacity, index width and     *)
(* number of pushes.  Under the inductive invariant the unread items are a   *)
(* run of consecutive numbers, so that a publication of the producer appends *)
(* the next one, a publication of the consumer takes the first one, and no   *)
(* other step changes the list.                                              *)

\* The n numbers after a.
Run(a, n) == [k \in 1 .. n |-> a + k]

\* A run of numbers is a sequence of its length, and grows at its end.
LEMMA RunAppend ==
    ASSUME NEW a \in Nat, NEW n \in Nat
    PROVE  /\ Run(a, n) \in Seq(Nat) /\ Len(Run(a, n)) = n
           /\ Append(Run(a, n), a + n + 1) = Run(a, n + 1)
<1>1. Run(a, n) \in Seq(Nat) /\ Len(Run(a, n)) = n
  BY DEF Run
<1>2. Append(Run(a, n), a + n + 1) = Run(a, n + 1)
  BY <1>1 DEF Run
<1>. QED BY <1>1, <1>2

\* A run that is not empty starts with a + 1 and goes on as the run after it.
LEMMA RunTail ==
    ASSUME NEW a \in Nat, NEW n \in Nat \ {0}
    PROVE  /\ Run(a, n) # <<>> /\ Head(Run(a, n)) = a + 1
           /\ Tail(Run(a, n)) = Run(a + 1, n - 1)
<1>1. Run(a, n) \in Seq(Nat) /\ Len(Run(a, n)) = n
  BY RunAppend
<1>2. Run(a, n) # <<>> /\ Head(Run(a, n)) = a + 1
  BY <1>1 DEF Run
<1>3. Tail(Run(a, n)) = Run(a + 1, n - 1)
  BY <1>1 DEF Run
<1>. QED BY <1>2, <1>3

-----------------------------------------------------------------------------
\* The producer starts a push only within the bound of the exploration, hence
\* only pushes members of Items.
Bounded == pushed <= MaxPush /\ (ppc # "idle" => pushed < MaxPush)

RefinementInv == RingInv /\ Bounded

\* The bound is kept, together with the ring's invariant.
LEMMA RefinementInvariant == Spec => []RefinementInv
<1>1. Init => Bounded
  BY SizeAssumption DEF Init, Bounded
<1>2. RingInv /\ Bounded /\ [Next]_vars => Bounded'
  <2>. SUFFICES ASSUME RingInv, Bounded, [Next]_vars PROVE Bounded'
    OBVIOUS
  <2>1. pushed \in Nat /\ MaxPush \in Nat
    BY SizeAssumption DEF RingInv, TypeOK
  <2>2. CASE PushCheck
    BY <2>1, <2>2 DEF PushCheck, Bounded
  <2>3. CASE PushWrite
    BY <2>1, <2>3 DEF PushWrite, Bounded
  <2>4. CASE PushPublish
    BY <2>1, <2>4 DEF PushPublish, Bounded
  <2>5. CASE Consumer
    BY <2>5 DEF Consumer, PopCheck, PopRead, PopPublish, Bounded
  <2>6. CASE UNCHANGED vars
    BY <2>6 DEF vars, Bounded
  <2>. QED BY <2>2, <2>3, <2>4, <2>5, <2>6 DEF Next, Producer
<1>3. RefinementInv <=> RingInv /\ Bounded
  BY DEF RefinementInv
<1>. QED BY <1>1, <1>2, <1>3, RingInvariant, PTL DEF Spec

\* The unread items are the run of the numbers after popped.
LEMMA WaitingIsRun ==
    RingInv => Waiting = Run(popped, Occupancy) /\ Occupancy \in 0 .. Capacity - 1
<1>. SUFFICES ASSUME RingInv
              PROVE  Waiting = Run(popped, Occupancy) /\ Occupancy \in 0 .. Capacity - 1
  OBVIOUS
<1>1. Occupancy \in 0 .. Capacity - 1 /\ popped \in Nat
  BY SizeAssumption DEF RingInv, InFlight, TypeOK, Occupancy
<1>2. ASSUME NEW k \in 1 .. Occupancy
      PROVE  buffer[Position(k - 1)] = popped + k
  <2>1. k - 1 \in 0 .. Capacity - 1 /\ k - 1 < Occupancy
    BY <1>1, SizeAssumption
  <2>2. buffer[Position(k - 1)] = popped + (k - 1) + 1
    BY <2>1 DEF RingInv, Contents
  <2>. QED BY <1>1, <2>2
<1>3. Waiting = Run(popped, Occupancy)
  BY <1>2 DEF Waiting, Run
<1>. QED BY <1>1, <1>3

\* The same after a step.
LEMMA WaitingIsRunNext ==
    (RingInv => Waiting = Run(popped, Occupancy) /\ Occupancy \in 0 .. Capacity - 1)'
BY WaitingIsRun, PTL

\* An empty ring is an empty list.
LEMMA InitFifo == Init => Fifo!Init
<1>. SUFFICES ASSUME Init PROVE Fifo!Init
  OBVIOUS
<1>1. Occupancy = 0
  BY DEF Init, Occupancy
<1>2. Waiting = <<>>
  BY <1>1 DEF Waiting
<1>. QED BY <1>2, SizeAssumption DEF Init, Fifo!Init

\* Every step of the ring is a Put, a Take or a stutter of the list.
LEMMA NextFifo == RefinementInv /\ RefinementInv' /\ [Next]_vars => [Fifo!Next]_(Fifo!vars)
<1>. SUFFICES ASSUME RefinementInv, RefinementInv', [Next]_vars
              PROVE  [Fifo!Next]_(Fifo!vars)
  OBVIOUS
<1>a. /\ Waiting = Run(popped, Occupancy) /\ Occupancy \in 0 .. Capacity - 1
      /\ popped \in Nat /\ pushed \in Nat /\ Occupancy = pushed - popped
  BY WaitingIsRun DEF RefinementInv, RingInv, InFlight, TypeOK
<1>b. Waiting' = Run(popped', Occupancy')
  BY WaitingIsRunNext DEF RefinementInv, Run
<1>1. CASE PushPublish
  <2>1. /\ UNCHANGED <<last, popped>> /\ pushed' = pushed + 1 /\ Occupancy' = Occupancy + 1
        /\ Occupancy < Capacity - 1 /\ pushed < MaxPush
    BY <1>1, TailAdvance DEF PushPublish, RefinementInv, Bounded, RingInv, InFlight
  <2>2. Waiting' = Append(Waiting, pushed + 1) /\ Len(Waiting) = Occupancy
    <3>1. /\ Len(Run(popped, Occupancy)) = Occupancy
          /\ Append(Run(popped, Occupancy), popped + Occupancy + 1) = Run(popped, Occupancy + 1)
      <4>1. popped \in Nat /\ Occupancy \in Nat
        BY <1>a
      <4>. QED BY <4>1, RunAppend
    <3>2. popped + Occupancy + 1 = pushed + 1
      BY <1>a
    <3>. QED BY <1>a, <1>b, <2>1, <3>1, <3>2
  <2>3. pushed + 1 \in 0 .. MaxPush
    BY <1>a, <2>1, SizeAssumption
  <2>. QED BY <2>1, <2>2, <2>3 DEF Fifo!Next, Fifo!Put
<1>2. CASE PopPublish
  <2>1. /\ last' = out /\ out = popped + 1 /\ popped' = popped + 1
        /\ Occupancy > 0 /\ Occupancy' = Occupancy - 1
    BY <1>2, HeadAdvance DEF PopPublish, RefinementInv, RingInv, FifoOrder, ConsumerHolds, InFlight
  <2>2. Waiting # <<>> /\ last' = Head(Waiting) /\ Waiting' = Tail(Waiting)
    <3>1. Occupancy \in Nat \ {0}
      BY <1>a, <2>1
    <3>2. /\ Run(popped, Occupancy) # <<>> /\ Head(Run(popped, Occupancy)) = popped + 1
          /\ Tail(Run(popped, Occupancy)) = Run(popped + 1, Occupancy - 1)
      BY <1>a, <3>1, RunTail
    <3>. QED BY <1>a, <1>b, <2>1, <3>2
  <2>. QED BY <2>2 DEF Fifo!Next, Fifo!Take
<1>3. CASE PushCheck \/ PushWrite \/ PopCheck \/ PopRead \/ UNCHANGED vars
  <2>1. UNCHANGED <<head, tail, popped, last>>
    BY <1>3 DEF PushCheck, PushWrite, PopCheck, PopRead, vars
  <2>2. Occupancy' = Occupancy
    BY <2>1 DEF Occupancy
  <2>. QED BY <1>a, <1>b, <2>1, <2>2 DEF Fifo!vars
<1>. QED BY <1>1, <1>2, <1>3 DEF Next, Producer, Consumer

(* The ring through which finished batches reach the scan thread behaves     *)
(* like a first-in first-out list of Capacity - 1 items, for every capacity, *)
(* index width and number of pushes (SPSCQueue::Push, Pop).                  *)
THEOREM Implements_Fifo == Spec => ImplementsFifo
<1>. QED BY InitFifo, NextFifo, RefinementInvariant, PTL DEF Spec, ImplementsFifo, Fifo!Spec
=============================================================================
