------------------------- MODULE EngineInputProofs -------------------------
(* Proofs about what the engine is given (EngineInput), for every value of   *)
(* the constants: the rows of the threads (WorkAssignment), the order of the *)
(* records (LoaderMerge) and the lists of times (TimeGrid).  The last        *)
(* section puts the three invariants together.                               *)
(*                                                                           *)
(* No theorem here rests on an induction rule that takes an operator: where  *)
(* an induction over numbers is needed, a least counterexample is taken from *)
(* the set of all of them (Least), and a smaller one is found.               *)
EXTENDS EngineInput, FiniteSetTheorems, SequenceTheorems, WellFoundedInduction, TLAPS

\* The first code of group g: the first Remainder groups have one code more.
Start(g) == g * BaseSize + (IF g < Remainder THEN g ELSE Remainder)

Configuration ==
    /\ codes \in Nat /\ allocable \in Nat /\ csFactors \in Nat /\ tsFactors \in BOOLEAN

\* How many of the first n codes are in group g.
Placed(g, n) == IF n < Start(g) THEN 0
                ELSE IF n < Start(g + 1) THEN n - Start(g) ELSE Start(g + 1) - Start(g)

\* The inductive invariant: every group holds the next codes of its run, in
\* order, and an offset, once known, is the start of its group.
Runs ==
    /\ groups \in [1 .. GroupCount -> Seq(Nat)]
    /\ \A g \in 1 .. GroupCount :
          /\ Len(groups[g]) = Placed(g - 1, next)
          /\ \A k \in 1 .. Len(groups[g]) : groups[g][k] = Start(g - 1) + k - 1
Offsets ==
    /\ offsets \in Seq(Nat) /\ Len(offsets) <= GroupCount
    /\ offsets # <<>> => next = codes
    /\ \A g \in 1 .. Len(offsets) : offsets[g] = Start(g - 1)
AssignmentInv == Configuration /\ next \in 0 .. codes /\ Runs /\ Offsets

-----------------------------------------------------------------------------
\* The quotient of w times d plus a remainder is w.
LEMMA QuotientOfSum ==
    ASSUME NEW d \in Nat \ {0}, NEW w \in Nat, NEW r \in 0 .. d - 1
    PROVE  (w * d + r) \div d = w
BY SMT

\* Codes divide into the groups without loss.
LEMMA Division ==
    ASSUME Configuration, GroupCount > 0
    PROVE  /\ GroupCount \in Nat \ {0} /\ BaseSize \in Nat \ {0}
           /\ Remainder \in 0 .. GroupCount - 1
           /\ codes = GroupCount * BaseSize + Remainder
<1>1. GroupCount \in Nat \ {0} /\ GroupCount <= codes
  BY DEF Configuration, GroupCount, AtLeastOne
<1>2. ASSUME NEW n \in Nat, NEW d \in Nat \ {0}, d <= n
      PROVE  /\ n \div d \in Nat \ {0} /\ n % d \in 0 .. d - 1
             /\ n = d * (n \div d) + (n % d)
  BY <1>2, SMT
<1>. QED BY <1>1, <1>2 DEF BaseSize, Remainder, Configuration

\* Each group starts where the one before it ends, the first at code 0; the
\* last one ends with the last code.
LEMMA Starts ==
    ASSUME Configuration, GroupCount > 0
    PROVE  /\ Start(0) = 0 /\ Start(GroupCount) = codes
           /\ \A g \in 0 .. GroupCount :
                 /\ Start(g) \in Nat
                 /\ Start(g + 1) = Start(g) + BaseSize + (IF g < Remainder THEN 1 ELSE 0)
<1>1. /\ GroupCount \in Nat \ {0} /\ BaseSize \in Nat \ {0}
      /\ Remainder \in 0 .. GroupCount - 1 /\ codes = GroupCount * BaseSize + Remainder
  BY Division
<1>2. \A g \in Nat : g * BaseSize \in Nat /\ (g + 1) * BaseSize = g * BaseSize + BaseSize
  BY <1>1, SMT
<1>3. Start(0) = 0 /\ Start(GroupCount) = codes
  <2>1. 0 * BaseSize = 0
    BY <1>1
  <2>. QED BY <1>1, <2>1 DEF Start
<1>4. ASSUME NEW g \in 0 .. GroupCount
      PROVE  /\ Start(g) \in Nat
             /\ Start(g + 1) = Start(g) + BaseSize + (IF g < Remainder THEN 1 ELSE 0)
  BY <1>1, <1>2 DEF Start
<1>. QED BY <1>3, <1>4

\* Groups in order start in order.
LEMMA StartsAscend ==
    ASSUME Configuration, GroupCount > 0,
           NEW g \in 0 .. GroupCount, NEW h \in 0 .. GroupCount, g <= h
    PROVE  Start(g) <= Start(h)
<1>1. BaseSize \in Nat \ {0} /\ Remainder \in Nat /\ GroupCount \in Nat
  BY Division
<1>2. PICK d \in Nat : h = g + d
  <2>1. h - g \in Nat /\ h = g + (h - g)
    BY <1>1
  <2>. QED BY <2>1
<1>3. h * BaseSize = g * BaseSize + d * BaseSize
  BY <1>1, <1>2, SMT
<1>4. d * BaseSize >= 0 /\ d * BaseSize \in Nat /\ g * BaseSize \in Nat
  BY <1>1, SMT
<1>. QED BY <1>1, <1>2, <1>3, <1>4 DEF Start

\* GroupOf finds the group whose run has the code.
LEMMA GroupHasCode ==
    ASSUME Configuration, GroupCount > 0, NEW n \in 0 .. codes - 1
    PROVE  /\ GroupOf(n) \in 0 .. GroupCount - 1
           /\ Start(GroupOf(n)) <= n /\ n < Start(GroupOf(n) + 1)
<1>. DEFINE B == BaseSize
            R == Remainder
            G == GroupCount
<1>1. G \in Nat \ {0} /\ B \in Nat \ {0} /\ R \in 0 .. G - 1 /\ codes = G * B + R /\ n \in Nat
  BY Division DEF Configuration
<1>2. CASE n < Threshold
  <2>. DEFINE w == n \div (B + 1)
              r == n % (B + 1)
  <2>1. w \in Nat /\ r \in 0 .. B /\ n = w * (B + 1) + r
    BY <1>1, SMT
  <2>2. w * (B + 1) = w * B + w /\ w * B \in Nat
    BY <1>1, <2>1, SMT
  <2>3. w < R
    <3>1. n < (B + 1) * R
      BY <1>2 DEF Threshold
    <3>2. w >= R => w * (B + 1) >= R * (B + 1)
      BY <1>1, <2>1, SMT
    <3>3. R * (B + 1) = (B + 1) * R /\ R * (B + 1) \in Nat /\ w * (B + 1) \in Nat
      BY <1>1, <2>1, SMT
    <3>. QED BY <1>1, <2>1, <3>1, <3>2, <3>3
  <2>4. GroupOf(n) = w
    BY <1>2 DEF GroupOf
  <2>5. Start(w + 1) = Start(w) + B + 1
    BY <1>1, <2>1, <2>3, Starts
  <2>6. Start(w) = w * B + w
    BY <2>3 DEF Start
  <2>. QED BY <1>1, <2>1, <2>2, <2>3, <2>4, <2>5, <2>6
<1>3. CASE ~ (n < Threshold)
  <2>. DEFINE w == (n - R) \div B
              r == (n - R) % B
  <2>1. (B + 1) * R = R * B + R /\ R * B \in Nat
    BY <1>1, SMT
  <2>2. n - R \in Nat /\ n - R >= R * B
    BY <1>1, <1>3, <2>1 DEF Threshold
  <2>3. w \in Nat /\ r \in 0 .. B - 1 /\ n - R = w * B + r
    BY <1>1, <2>2, SMT
  <2>4. w >= R
    <3>1. w < R => (w + 1) * B <= R * B
      BY <1>1, <2>3, SMT
    <3>2. (w + 1) * B = w * B + B /\ w * B \in Nat
      BY <1>1, <2>3, SMT
    <3>. QED BY <1>1, <2>1, <2>2, <2>3, <3>1, <3>2
  <2>5. w < G
    <3>1. w >= G => w * B >= G * B
      BY <1>1, <2>3, SMT
    <3>2. w * B \in Nat /\ G * B \in Nat
      BY <1>1, <2>3, SMT
    <3>. QED BY <1>1, <2>3, <3>1, <3>2
  <2>6. GroupOf(n) = w
    BY <1>3 DEF GroupOf
  <2>7. Start(w + 1) = Start(w) + B
    BY <1>1, <2>3, <2>4, <2>5, Starts
  <2>8. Start(w) = w * B + R /\ w * B \in Nat
    BY <1>1, <2>3, <2>4, SMT DEF Start
  <2>. QED BY <1>1, <2>3, <2>4, <2>5, <2>6, <2>7, <2>8
<1>. QED BY <1>2, <1>3

-----------------------------------------------------------------------------
\* No code is placed at first.
LEMMA InitAssignment ==
    Init => AssignmentInv
<1>. SUFFICES ASSUME Init PROVE AssignmentInv
  OBVIOUS
<1>1. Configuration /\ next \in 0 .. codes
  BY BoundAssumption DEF Init, Configuration
<1>2. Offsets
  BY <1>1 DEF Init, Offsets, GroupCount, AtLeastOne, Configuration
<1>3. Runs
  <2>1. groups = [g \in 1 .. GroupCount |-> <<>>] /\ next = 0
    BY DEF Init
  <2>2. ASSUME NEW g \in 1 .. GroupCount
        PROVE  Placed(g - 1, 0) = 0
    <3>1. GroupCount \in Nat /\ GroupCount > 0 /\ g - 1 \in 0 .. GroupCount
      BY <1>1, <2>2 DEF GroupCount, AtLeastOne, Configuration
    <3>2. /\ Start(g - 1) \in Nat
          /\ Start(g - 1 + 1) = Start(g - 1) + BaseSize + (IF g - 1 < Remainder THEN 1 ELSE 0)
      BY <1>1, <3>1, Starts
    <3>3. BaseSize \in Nat \ {0} /\ Remainder \in Nat
      BY <1>1, <3>1, Division
    <3>. QED BY <3>2, <3>3 DEF Placed
  <2>. QED BY <2>1, <2>2 DEF Runs
<1>. QED BY <1>1, <1>2, <1>3 DEF AssignmentInv

\* What depends on the configuration only stays as it is.
LEMMA ConfigurationStays ==
    ASSUME UNCHANGED config
    PROVE  /\ codes' = codes /\ Configuration' = Configuration
           /\ GroupCount' = GroupCount
           /\ \A g : Start(g)' = Start(g)
           /\ \A g, n : Placed(g, n)' = Placed(g, n)
BY DEF config, Configuration, GroupCount, Start, BaseSize, Remainder, Placed

\* Placing a code makes the run of its group longer by one, and no other.
LEMMA PlaceKeeps ==
    ASSUME AssignmentInv, PlaceCode
    PROVE  AssignmentInv'
<1>. DEFINE i == GroupOf(next) + 1
<1>1. /\ Configuration /\ next \in 0 .. codes - 1 /\ codes \in Nat /\ GroupCount > 0
      /\ GroupCount \in Nat /\ BaseSize \in Nat \ {0} /\ Remainder \in Nat
      /\ UNCHANGED config /\ UNCHANGED offsets /\ next' = next + 1
      /\ groups' = [groups EXCEPT ![i] = Append(@, next)]
  BY Division DEF AssignmentInv, PlaceCode, Configuration
<1>2. i \in 1 .. GroupCount /\ Start(i - 1) <= next /\ next < Start(i)
  BY <1>1, GroupHasCode
<1>3. Configuration' /\ next' \in 0 .. codes'
  BY <1>1, ConfigurationStays
<1>4. Offsets'
  <2>1. offsets = <<>> /\ 0 <= GroupCount
    BY <1>1 DEF AssignmentInv, Offsets
  <2>. QED BY <1>1, <2>1, ConfigurationStays DEF Offsets
<1>5. Runs'
  <2>1. groups' \in [1 .. GroupCount -> Seq(Nat)]
    BY <1>1, <1>2 DEF AssignmentInv, Runs
  <2>2. ASSUME NEW g \in 1 .. GroupCount
        PROVE  /\ Len(groups'[g]) = Placed(g - 1, next + 1)
               /\ \A k \in 1 .. Len(groups'[g]) : groups'[g][k] = Start(g - 1) + k - 1
    <3>1. /\ Start(g - 1) \in Nat /\ Start(g) \in Nat /\ Start(g - 1) < Start(g)
          /\ Start(i - 1) \in Nat /\ Start(i) \in Nat /\ i - 1 + 1 = i /\ g - 1 + 1 = g
      <4>1. ASSUME NEW h \in 1 .. GroupCount
            PROVE  Start(h - 1) \in Nat /\ Start(h) \in Nat /\ Start(h - 1) < Start(h)
        <5>1. h - 1 \in 0 .. GroupCount /\ h \in 0 .. GroupCount /\ h - 1 + 1 = h
          BY <1>1
        <5>2. Start(h - 1) \in Nat /\ Start(h) \in Nat
          BY <1>1, <5>1, Starts
        <5>3. Start(h) = Start(h - 1) + BaseSize + (IF h - 1 < Remainder THEN 1 ELSE 0)
          BY <1>1, <5>1, Starts
        <5>. QED BY <1>1, <5>2, <5>3
      <4>. QED BY <1>1, <1>2, <4>1
    <3>2. /\ groups[g] \in Seq(Nat) /\ Len(groups[g]) = Placed(g - 1, next)
          /\ \A k \in 1 .. Len(groups[g]) : groups[g][k] = Start(g - 1) + k - 1
      BY DEF AssignmentInv, Runs
    <3>3. CASE g = i
      <4>1. Placed(g - 1, next) = next - Start(g - 1)
            /\ Placed(g - 1, next + 1) = next + 1 - Start(g - 1)
        BY <1>1, <1>2, <3>1, <3>3 DEF Placed
      <4>2. groups'[g] = Append(groups[g], next)
        BY <1>1, <1>2, <3>3 DEF AssignmentInv, Runs
      <4>3. Len(groups'[g]) = Len(groups[g]) + 1
            /\ \A k \in 1 .. Len(groups[g]) + 1 :
                  groups'[g][k] = IF k <= Len(groups[g]) THEN groups[g][k] ELSE next
        BY <3>2, <4>2
      <4>4. Len(groups'[g]) = Placed(g - 1, next + 1)
        BY <1>1, <3>1, <3>2, <4>1, <4>3
      <4>5. ASSUME NEW k \in 1 .. Len(groups'[g])
            PROVE  groups'[g][k] = Start(g - 1) + k - 1
        <5>1. Len(groups[g]) \in Nat /\ k \in 1 .. Len(groups[g]) + 1
          BY <3>2, <4>3
        <5>2. CASE k <= Len(groups[g])
          BY <3>2, <4>3, <5>1, <5>2
        <5>3. CASE k = Len(groups[g]) + 1
          <6>1. Len(groups[g]) = next - Start(g - 1)
            BY <3>2, <4>1
          <6>2. groups'[g][k] = next
            BY <4>3, <5>1, <5>3
          <6>3. Start(g - 1) + k - 1 = next
            BY <1>1, <3>1, <5>3, <6>1
          <6>. QED BY <6>2, <6>3
        <5>. QED BY <5>1, <5>2, <5>3
      <4>. QED BY <4>4, <4>5
    <3>4. CASE g # i
      <4>1. groups'[g] = groups[g]
        BY <1>1, <1>2, <3>4 DEF AssignmentInv, Runs
      <4>2. Start(g) <= next \/ next < Start(g - 1)
        <5>1. CASE g < i
          <6>1. g \in 0 .. GroupCount /\ i - 1 \in 0 .. GroupCount /\ g <= i - 1
            BY <1>1, <1>2, <5>1
          <6>2. Start(g) <= Start(i - 1)
            BY <1>1, <6>1, StartsAscend
          <6>. QED BY <1>1, <1>2, <3>1, <6>2
        <5>2. CASE g > i
          <6>1. i \in 0 .. GroupCount /\ g - 1 \in 0 .. GroupCount /\ i <= g - 1
            BY <1>1, <1>2, <5>2
          <6>2. Start(i) <= Start(g - 1)
            BY <1>1, <6>1, StartsAscend
          <6>. QED BY <1>1, <1>2, <3>1, <6>2
        <5>. QED BY <1>2, <3>4, <5>1, <5>2
      <4>3. Placed(g - 1, next + 1) = Placed(g - 1, next)
        BY <1>1, <3>1, <4>2 DEF Placed
      <4>. QED BY <3>2, <4>1, <4>3
    <3>. QED BY <3>3, <3>4
  <2>. QED BY <1>1, <2>1, <2>2, ConfigurationStays DEF Runs
<1>. QED BY <1>3, <1>4, <1>5 DEF AssignmentInv

\* Adding an offset adds the start of the next group.
LEMMA OffsetKeeps ==
    ASSUME AssignmentInv, AddOffset
    PROVE  AssignmentInv'
<1>. DEFINE i == Len(offsets) + 1
            o == IF i = 1 THEN 0 ELSE offsets[i - 1] + Len(groups[i - 1])
<1>1. /\ Configuration /\ next = codes /\ codes \in Nat /\ next \in 0 .. codes
      /\ offsets \in Seq(Nat) /\ GroupCount \in Nat /\ i \in 1 .. GroupCount /\ GroupCount > 0
      /\ UNCHANGED config /\ UNCHANGED <<next, groups>> /\ offsets' = Append(offsets, o)
      /\ BaseSize \in Nat /\ Remainder \in Nat
  BY Division DEF AssignmentInv, AddOffset, Configuration, Offsets, GroupCount, AtLeastOne
<1>2. o = Start(i - 1) /\ o \in Nat
  <2>1. CASE i = 1
    BY <1>1, <2>1, Starts
  <2>2. CASE i # 1
    <3>1. /\ i - 1 \in 1 .. GroupCount /\ i - 2 \in 0 .. GroupCount /\ i - 1 \in 0 .. GroupCount
          /\ GroupCount \in 0 .. GroupCount /\ i - 2 + 1 = i - 1 /\ i - 1 - 1 = i - 2
          /\ i - 1 \in 1 .. Len(offsets)
      BY <1>1, <2>2
    <3>2. Start(i - 2) \in Nat /\ Start(i - 1) \in Nat /\ Start(i - 2) <= Start(i - 1)
          /\ Start(i - 1) <= codes
      <4>1. Start(i - 2) \in Nat /\ Start(i - 1) \in Nat /\ Start(GroupCount) = codes
        BY <1>1, <3>1, Starts
      <4>2. i - 2 <= i - 1 /\ i - 1 <= GroupCount
        BY <1>1
      <4>3. Start(i - 2) <= Start(i - 1)
        BY <1>1, <3>1, <4>2, StartsAscend
      <4>4. Start(i - 1) <= Start(GroupCount)
        BY <1>1, <3>1, <4>2, StartsAscend
      <4>. QED BY <4>1, <4>3, <4>4
    <3>3. Placed(i - 2, next) = Start(i - 1) - Start(i - 2)
      BY <1>1, <3>1, <3>2 DEF Placed
    <3>4. offsets[i - 1] = Start(i - 2) /\ Len(groups[i - 1]) = Placed(i - 2, next)
      BY <3>1 DEF AssignmentInv, Offsets, Runs
    <3>. QED BY <2>2, <3>2, <3>3, <3>4
  <2>. QED BY <2>1, <2>2
<1>3. Configuration' /\ next' \in 0 .. codes'
  BY <1>1, ConfigurationStays
<1>4. Runs'
  BY <1>1, ConfigurationStays DEF AssignmentInv, Runs
<1>5. Offsets'
  <2>1. offsets' \in Seq(Nat) /\ Len(offsets') = i /\ offsets' # <<>>
    BY <1>1, <1>2
  <2>2. ASSUME NEW g \in 1 .. i PROVE offsets'[g] = Start(g - 1)
    <3>1. CASE g = i
      BY <1>1, <1>2, <3>1
    <3>2. CASE g # i
      <4>1. g \in 1 .. Len(offsets) /\ offsets'[g] = offsets[g]
        BY <1>1, <1>2, <3>2
      <4>. QED BY <4>1 DEF AssignmentInv, Offsets
    <3>. QED BY <3>1, <3>2
  <2>. QED BY <1>1, <2>1, <2>2, ConfigurationStays DEF Offsets
<1>. QED BY <1>3, <1>4, <1>5 DEF AssignmentInv

\* Every step keeps the inductive invariant.
LEMMA NextAssignment == AssignmentInv /\ [Next]_vars => AssignmentInv'
<1>. SUFFICES ASSUME AssignmentInv, [Next]_vars PROVE AssignmentInv'
  OBVIOUS
<1>1. CASE PlaceCode
  BY <1>1, PlaceKeeps
<1>2. CASE AddOffset
  BY <1>2, OffsetKeeps
<1>3. CASE UNCHANGED vars
  <2>1. UNCHANGED config /\ UNCHANGED <<next, groups, offsets>>
    BY <1>3 DEF vars, config
  <2>. QED BY <2>1, ConfigurationStays DEF AssignmentInv, Runs, Offsets
<1>. QED BY <1>1, <1>2, <1>3 DEF Next

-----------------------------------------------------------------------------
(* Every group is a run of codes and every offset its start, for every       *)
(* number of codes, threads and cross-sectional factors.                     *)
THEOREM AssignmentInvariant == Spec => []AssignmentInv
<1>. QED BY InitAssignment, NextAssignment, PTL DEF Spec

\* The runs of codes and the offsets agree row by row.
LEMMA AssignmentRows == AssignmentInv => RowsAgree
<1>. SUFFICES ASSUME AssignmentInv, NEW g \in 1 .. Len(offsets), NEW k \in 1 .. Len(groups[g])
              PROVE  offsets[g] + k - 1 = groups[g][k]
  BY DEF RowsAgree
<1>1. g \in 1 .. GroupCount
  BY DEF AssignmentInv, Offsets, Configuration, GroupCount, AtLeastOne
<1>2. offsets[g] = Start(g - 1) /\ groups[g][k] = Start(g - 1) + k - 1
  BY <1>1 DEF AssignmentInv, Runs, Offsets
<1>. QED BY <1>2

(* A thread writes the values of its codes to the rows that the scan thread  *)
(* and the file writer take for those codes, whatever the numbers of codes   *)
(* and threads (AssignThreadMapping).                                        *)
THEOREM Rows_Agree == Spec => []RowsAgree
BY AssignmentRows, AssignmentInvariant, PTL

(* For every number of codes and threads, once every code is assigned no      *)
(* calculation thread is idle, and none has two codes more than another      *)
(* (AssignWorkLoads takes no more groups than codes).                        *)
THEOREM Even_Sizes == Spec => [](Assigned => EvenSizes)
<1>1. AssignmentInv => (Assigned => EvenSizes)
  <2>. SUFFICES ASSUME AssignmentInv, Assigned PROVE EvenSizes
    OBVIOUS
  <2>1. /\ Configuration /\ GroupCount > 0 /\ GroupCount \in Nat /\ next = codes
        /\ BaseSize \in Nat \ {0} /\ GroupCount \in 0 .. GroupCount
    BY Division DEF AssignmentInv, Assigned, Offsets
  <2>2. ASSUME NEW g \in 1 .. GroupCount
        PROVE  Len(groups[g]) \in BaseSize .. BaseSize + 1
    <3>1. g - 1 \in 0 .. GroupCount /\ g \in 0 .. GroupCount /\ g - 1 + 1 = g
      BY <2>1
    <3>2. /\ Start(g - 1) \in Nat /\ Start(g) \in Nat
          /\ Start(g) \in Start(g - 1) + BaseSize .. Start(g - 1) + BaseSize + 1
      <4>1. Start(g - 1) \in Nat /\ Start(g) \in Nat
        BY <2>1, <3>1, Starts
      <4>2. Start(g) = Start(g - 1) + BaseSize + (IF g - 1 < Remainder THEN 1 ELSE 0)
        BY <2>1, <3>1, Starts
      <4>. QED BY <2>1, <4>1, <4>2
    <3>3. Start(g) <= codes
      BY <2>1, <3>1, Starts, StartsAscend
    <3>4. Placed(g - 1, codes) = Start(g) - Start(g - 1)
      BY <2>1, <3>1, <3>2, <3>3 DEF Placed, Configuration
    <3>5. Len(groups[g]) = Placed(g - 1, codes)
      BY <2>1 DEF AssignmentInv, Runs
    <3>. QED BY <2>1, <3>2, <3>4, <3>5
  <2>. QED BY <2>1, <2>2 DEF EvenSizes
<1>. QED BY <1>1, AssignmentInvariant, PTL

-----------------------------------------------------------------------------
\* Of a set of numbers that is not empty one is the least.
LEMMA Least ==
    ASSUME NEW N \in SUBSET Nat, N # {}
    PROVE  \E n \in N : \A k \in N : ~ (k < n)
<1>1. PICK n \in N : \A k \in N : ~ (<<k, n>> \in OpToRel(<, Nat))
  BY NatLessThanWellFounded, WFMin
<1> QED BY <1>1 DEF OpToRel

\* A set of numbers up to n that is not empty has its greatest.
LEMMA Greatest ==
    ASSUME NEW n \in Nat, NEW S \in SUBSET (1..n), S # {}
    PROVE  Max(S) \in S /\ \A x \in S : x <= Max(S)
<1> DEFINE N == {n - x : x \in S}
<1>1. N \in SUBSET Nat /\ N # {}
  OBVIOUS
<1>2. PICK d \in N : \A k \in N : ~ (k < d)
  BY <1>1, Least
<1>3. PICK m \in S : d = n - m
  BY <1>2
<1>4. ASSUME NEW x \in S PROVE x <= m
  <2>1. ~ (n - x < n - m)
    BY <1>2, <1>3
  <2> QED BY <2>1
<1>5. \E m1 \in S : \A y \in S : m1 >= y
  BY <1>4
<1> QED BY <1>5 DEF Max

\* The greatest of 1..k, and what is left without it.
LEMMA GreatestOfInterval ==
    ASSUME NEW n \in Nat, NEW k \in 1..n
    PROVE  Max(1..k) = k /\ (1..k) \ {Max(1..k)} = 1..(k - 1)
<1>1. 1..k \in SUBSET (1..n) /\ 1..k # {}
  OBVIOUS
<1>2. Max(1..k) \in 1..k /\ \A x \in 1..k : x <= Max(1..k)
  BY <1>1, Greatest
<1>3. Max(1..k) = k
  BY <1>2
<1> QED BY <1>3

\* A fold over the numbers from 1 to n, the i-th step of which takes x to
\* f[<<x, i>>].
IsFold(it, f, base, n) ==
    it = [S \in SUBSET (1..n) |->
             IF S = {} THEN base ELSE f[<<it[S \ {Max(S)}], Max(S)>>]]

\* Such a fold exists: a least n without one would follow from the fold before.
LEMMA FoldExists ==
    ASSUME NEW D, NEW n \in Nat, NEW f \in [D \X (1..n) -> D], NEW base \in D
    PROVE  \E it \in [SUBSET (1..n) -> D] : IsFold(it, f, base, n)
<1> DEFINE Sub(m) == SUBSET (1..m)
           Folds(g, m) == /\ g \in [Sub(m) -> D]
                          /\ g = [S \in Sub(m) |-> IF S = {} THEN base
                                                   ELSE f[<<g[S \ {Max(S)}], Max(S)>>]]
           Bad == {m \in Nat : m <= n /\ ~ \E g : Folds(g, m)}
<1>1. Bad = {}
  <2> SUFFICES ASSUME Bad # {} PROVE FALSE
    OBVIOUS
  <2>1. PICK m \in Bad : \A k \in Bad : ~ (k < m)
    BY Least
  <2>2. CASE m = 0
    <3>1. PICK g : g = [S \in Sub(0) |-> base]
      OBVIOUS
    <3>2. \A S \in Sub(0) : S = {}
      OBVIOUS
    <3> HIDE DEF Sub
    <3>3. Folds(g, 0)
      BY <3>1, <3>2
    <3> QED BY <2>1, <2>2, <3>3
  <2>3. CASE m # 0
    <3>1. m - 1 \in Nat /\ m - 1 < m /\ m - 1 <= n /\ m \in Nat /\ m <= n
      BY <2>1, <2>3
    <3>2. PICK g : Folds(g, m - 1)
      BY <2>1, <3>1
    <3>3. PICK h : h = [S \in Sub(m) |-> IF S = {} THEN base ELSE f[<<g[S \ {Max(S)}], Max(S)>>]]
      OBVIOUS
    <3>4. \A S \in Sub(m) : S # {} => /\ S \ {Max(S)} \in Sub(m - 1) /\ S \ {Max(S)} \in Sub(m)
                                      /\ Max(S) \in 1..n
      <4> SUFFICES ASSUME NEW S \in Sub(m), S # {}
                   PROVE  /\ S \ {Max(S)} \in Sub(m - 1) /\ S \ {Max(S)} \in Sub(m)
                          /\ Max(S) \in 1..n
        OBVIOUS
      <4>1. Max(S) \in S /\ \A x \in S : x <= Max(S)
        BY <3>1, Greatest
      <4>2. Max(S) \in 1..m
        BY <4>1
      <4>3. ASSUME NEW x \in S \ {Max(S)} PROVE x \in 1..(m - 1)
        <5>1. x \in 1..m /\ x <= Max(S) /\ x # Max(S)
          BY <4>1, <4>3
        <5> QED BY <3>1, <4>2, <5>1
      <4>4. S \ {Max(S)} \subseteq 1..(m - 1)
        BY <4>3
      <4>5. S \ {Max(S)} \subseteq 1..m
        OBVIOUS
      <4>6. Max(S) \in 1..n
        BY <3>1, <4>2
      <4> QED BY <4>4, <4>5, <4>6
    <3>5. \A S \in Sub(m - 1) : S \in Sub(m)
      BY <3>1
    <3> HIDE DEF Sub
    <3>6. g \in [Sub(m - 1) -> D]
      BY <3>2
    <3>7. \A S \in Sub(m) : S # {} => f[<<g[S \ {Max(S)}], Max(S)>>] \in D
      BY <3>4, <3>6
    <3>8. h \in [Sub(m) -> D]
      BY <3>3, <3>7
    <3>9. \A S \in Sub(m - 1) : h[S] = g[S]
      BY <3>2, <3>3, <3>5
    <3>10. \A S \in Sub(m) : S # {} => h[S \ {Max(S)}] = g[S \ {Max(S)}]
      BY <3>4, <3>9
    <3>11. h = [S \in Sub(m) |-> IF S = {} THEN base ELSE f[<<h[S \ {Max(S)}], Max(S)>>]]
      BY <3>3, <3>10
    <3>12. Folds(h, m)
      BY <3>8, <3>11
    <3> QED BY <2>1, <3>12
  <2> QED BY <2>2, <2>3
<1>2. n \in Nat /\ n <= n /\ n \notin Bad
  <2>1. n \in Nat /\ n <= n
    OBVIOUS
  <2> HIDE DEF Bad
  <2> QED BY <1>1, <2>1
<1>3. \E g : Folds(g, n)
  <2> HIDE DEF Folds
  <2> QED BY <1>2
<1>4. PICK g : Folds(g, n)
  BY <1>3
<1> QED BY <1>4 DEF IsFold

\* Its value over the first k numbers, one after another.
LEMMA FoldStates ==
    ASSUME NEW n \in Nat, NEW f, NEW base, NEW it, IsFold(it, f, base, n)
    PROVE  /\ it[{}] = base
           /\ \A k \in 1..n : it[1..k] = f[<<it[1..(k - 1)], k>>]
<1>1. {} \in SUBSET (1..n)
  OBVIOUS
<1>2. it[{}] = base
  BY <1>1 DEF IsFold
<1>3. ASSUME NEW k \in 1..n PROVE it[1..k] = f[<<it[1..(k - 1)], k>>]
  <2>1. 1..k \in SUBSET (1..n) /\ 1..k # {}
    OBVIOUS
  <2>2. it[1..k] = f[<<it[(1..k) \ {Max(1..k)}], Max(1..k)>>]
    BY <2>1 DEF IsFold
  <2> QED BY <2>2, GreatestOfInterval
<1> QED BY <1>2, <1>3

-----------------------------------------------------------------------------
Trees == [0..Size -> 0..Size]
Climbs == [s : 0..Size, tree : Trees]

\* A channel meets the loser at node i.
Meets(keys, climb, i) ==
    IF Loses(keys, climb.s, climb.tree[i])
    THEN [s |-> climb.tree[i], tree |-> [climb.tree EXCEPT ![i] = climb.s]]
    ELSE climb

\* What meets a node is again a channel and a tree.
LEMMA MeetsType ==
    ASSUME NEW keys, NEW climb \in Climbs, NEW i \in 0..Size
    PROVE  Meets(keys, climb, i) \in Climbs
BY DEF Meets, Climbs, Trees

\* Adjust goes through the states st[0], st[1], ... of the climb, one for each
\* node of the path.
ClimbStates(st, keys, tree, s, r) ==
    /\ st[0] = [s |-> s, tree |-> tree]
    /\ \A k \in 0..Len(r) : st[k] \in Climbs
    /\ \A k \in 1..Len(r) : st[k] = Meets(keys, st[k - 1], r[k])

Top(climb) == [climb.tree EXCEPT ![0] = climb.s]

\* Adjust is the fold of Meets over the path: its states exist, and it returns the
\* last one with the winner on top.
LEMMA AdjustSteps ==
    ASSUME Size \in Nat, NEW keys, NEW tree \in Trees, NEW s \in 0..Size,
           NEW r \in Seq(0..Size), r = PathFrom[(s + Size) \div 2]
    PROVE  \E st : /\ ClimbStates(st, keys, tree, s, r)
                   /\ Adjust(keys, tree, s) = Top(st[Len(r)])
<1> DEFINE n == Len(r)
           base == [s |-> s, tree |-> tree]
           step == [at \in Climbs \X (1..n) |-> Meets(keys, at[1], r[at[2]])]
           Iter(it) == it = [S \in SUBSET (1..n) |->
                               IF S = {} THEN base
                               ELSE Meets(keys, it[S \ {Max(S)}], r[Max(S)])]
<1>1. n \in Nat /\ base \in Climbs /\ \A k \in 1..n : r[k] \in 0..Size
  BY DEF Climbs
<1>2. step \in [Climbs \X (1..n) -> Climbs]
  BY <1>1, MeetsType
<1>3. \A x \in Climbs : \A k \in 1..n : step[<<x, k>>] = Meets(keys, x, r[k])
  OBVIOUS
<1> HIDE DEF n, base, step
<1>4. PICK it \in [SUBSET (1..n) -> Climbs] : IsFold(it, step, base, n)
  BY <1>1, <1>2, FoldExists
<1>5. Iter(it)
  <2>1. \A S \in SUBSET (1..n) : S # {} => S \ {Max(S)} \in SUBSET (1..n) /\ Max(S) \in 1..n
    BY <1>1, Greatest
  <2>2. \A S \in SUBSET (1..n) : S # {} =>
           step[<<it[S \ {Max(S)}], Max(S)>>] = Meets(keys, it[S \ {Max(S)}], r[Max(S)])
    BY <1>3, <1>4, <2>1
  <2> QED BY <1>4, <2>2 DEF IsFold
<1>6. PICK ch : ch = CHOOSE jt : Iter(jt)
  OBVIOUS
<1>7. Iter(ch)
  BY <1>5, <1>6
<1>8. Adjust(keys, tree, s) = [ch[1..n].tree EXCEPT ![0] = ch[1..n].s]
  <2>1. DOMAIN r = 1..n
    BY DEF n
  <2> QED BY <1>6, <2>1, Zenon DEF Adjust, FoldLeft, MapThenFoldSet, Meets, base
<1>9. PICK st : st = [k \in 0..n |-> ch[1..k]]
  OBVIOUS
<1>10. st[0] = base /\ \A k \in 1..n : st[k] = Meets(keys, st[k - 1], r[k])
  <2>1. st[0] = base
    <3>1. 1..0 = {} /\ {} \in SUBSET (1..n) /\ 0 \in 0..n
      BY <1>1
    <3>2. ch[{}] = base
      BY <1>7, <3>1
    <3> QED BY <1>9, <3>1, <3>2
  <2>2. ASSUME NEW k \in 1..n PROVE st[k] = Meets(keys, st[k - 1], r[k])
    <3>1. 1..k \in SUBSET (1..n) /\ 1..k # {} /\ k \in 0..n /\ k - 1 \in 0..n
      BY <1>1
    <3>2. Max(1..k) = k /\ (1..k) \ {Max(1..k)} = 1..(k - 1)
      BY <1>1, GreatestOfInterval
    <3>3. ch[1..k] = Meets(keys, ch[(1..k) \ {Max(1..k)}], r[Max(1..k)])
      BY <1>7, <3>1
    <3>4. st[k] = ch[1..k] /\ st[k - 1] = ch[1..(k - 1)]
      BY <1>9, <3>1
    <3> QED BY <3>2, <3>3, <3>4
  <2> QED BY <2>1, <2>2
<1>11. \A k \in 0..n : st[k] \in Climbs
  <2> DEFINE Bad == {k \in Nat : k <= n /\ st[k] \notin Climbs}
  <2> SUFFICES Bad = {}
    BY <1>1
  <2> SUFFICES ASSUME Bad # {} PROVE FALSE
    OBVIOUS
  <2>1. PICK k \in Bad : \A j \in Bad : ~ (j < k)
    BY Least
  <2>2. k # 0
    BY <1>1, <1>10, <2>1
  <2>3. k \in 1..n /\ k - 1 \in Nat /\ k - 1 <= n /\ k - 1 < k
    BY <1>1, <2>1, <2>2
  <2>4. st[k - 1] \in Climbs
    BY <2>1, <2>3
  <2>5. st[k] = Meets(keys, st[k - 1], r[k]) /\ r[k] \in 0..Size
    BY <1>1, <1>10, <2>3
  <2>6. st[k] \in Climbs
    BY <2>4, <2>5, MeetsType
  <2> QED BY <2>1, <2>6
<1>12. ClimbStates(st, keys, tree, s, r)
  BY <1>10, <1>11 DEF ClimbStates, base, n
<1>13. Adjust(keys, tree, s) = [st[n].tree EXCEPT ![0] = st[n].s]
  <2>1. st[n] = ch[1..n]
    BY <1>1, <1>9
  <2> QED BY <1>8, <2>1
<1>14. Adjust(keys, tree, s) = Top(st[n])
  BY <1>13 DEF Top
<1> QED BY <1>12, <1>14 DEF n

\* The tree with the last k channels in it, for k from 0.
TreeStates(st, keys) ==
    /\ st[0] = [i \in 0..Size |-> Size]
    /\ \A k \in 0..Size : st[k] \in Trees
    /\ \A k \in 1..Size : st[k] = Adjust(keys, st[k - 1], Size - k)

\* Built is the fold of Adjust over the channels: its states exist, and it returns
\* the last one.
LEMMA BuildSteps ==
    ASSUME Size \in Nat, NEW keys,
           \A tree \in Trees : \A s \in 0..Size : Adjust(keys, tree, s) \in Trees
    PROVE  \E st : TreeStates(st, keys) /\ Built(keys) = st[Size]
<1> DEFINE n == Size
           base == [i \in 0..Size |-> Size]
           step == [at \in Trees \X (1..n) |-> Adjust(keys, at[1], n - at[2])]
           Iter(it) == it = [S \in SUBSET (1..n) |->
                               IF S = {} THEN base
                               ELSE Adjust(keys, it[S \ {Max(S)}], n - [m \in 1..n |-> m][Max(S)])]
<1>1. n = Size /\ n \in Nat /\ base \in Trees /\ \A k \in 1..n : n - k \in 0..Size /\ [m \in 1..n |-> m][k] = k
  BY DEF Trees
<1>2. step \in [Trees \X (1..n) -> Trees]
  BY <1>1
<1>3. \A x \in Trees : \A k \in 1..n : step[<<x, k>>] = Adjust(keys, x, n - k)
  OBVIOUS
<1> HIDE DEF n, base, step
<1>4. PICK it \in [SUBSET (1..n) -> Trees] : IsFold(it, step, base, n)
  BY <1>1, <1>2, FoldExists
<1>5. Iter(it)
  <2>1. \A S \in SUBSET (1..n) : S # {} => S \ {Max(S)} \in SUBSET (1..n) /\ Max(S) \in 1..n
    BY <1>1, Greatest
  <2>2. \A S \in SUBSET (1..n) : S # {} =>
           step[<<it[S \ {Max(S)}], Max(S)>>] =
               Adjust(keys, it[S \ {Max(S)}], n - [m \in 1..n |-> m][Max(S)])
    BY <1>1, <1>3, <1>4, <2>1
  <2> QED BY <1>4, <2>2 DEF IsFold
<1>6. PICK ch : ch = CHOOSE jt : Iter(jt)
  OBVIOUS
<1>7. Iter(ch)
  BY <1>5, <1>6
<1>8. Built(keys) = ch[1..n]
  <2>1. DOMAIN [m \in 1..n |-> m] = 1..n
    OBVIOUS
  <2> QED BY <1>6, <2>1, Zenon DEF Built, FoldLeft, MapThenFoldSet, base, n
<1>9. PICK st : st = [k \in 0..n |-> ch[1..k]]
  OBVIOUS
<1>10. st[0] = base /\ \A k \in 1..n : st[k] = Adjust(keys, st[k - 1], n - k)
  <2>1. st[0] = base
    <3>1. 1..0 = {} /\ {} \in SUBSET (1..n) /\ 0 \in 0..n
      BY <1>1
    <3>2. ch[{}] = base
      BY <1>7, <3>1
    <3> QED BY <1>9, <3>1, <3>2
  <2>2. ASSUME NEW k \in 1..n PROVE st[k] = Adjust(keys, st[k - 1], n - k)
    <3>1. n \in Nat
      BY <1>1
    <3>2. 1..k \in SUBSET (1..n) /\ 1..k # {} /\ k \in 0..n /\ k - 1 \in 0..n
      BY <3>1
    <3>3. Max(1..k) = k /\ (1..k) \ {Max(1..k)} = 1..(k - 1)
      BY <1>1, GreatestOfInterval
    <3>4. ch[1..k] = Adjust(keys, ch[(1..k) \ {Max(1..k)}], n - [m \in 1..n |-> m][Max(1..k)])
      BY <1>7, <3>2
    <3>5. st[k] = ch[1..k] /\ st[k - 1] = ch[1..(k - 1)]
      BY <1>9, <3>2
    <3> QED BY <1>1, <3>3, <3>4, <3>5
  <2> QED BY <2>1, <2>2
<1>11. \A k \in 0..n : st[k] \in Trees
  <2> DEFINE Bad == {k \in Nat : k <= n /\ st[k] \notin Trees}
  <2> SUFFICES Bad = {}
    BY <1>1
  <2> SUFFICES ASSUME Bad # {} PROVE FALSE
    OBVIOUS
  <2>1. PICK k \in Bad : \A j \in Bad : ~ (j < k)
    BY Least
  <2>2. k # 0
    BY <1>1, <1>10, <2>1
  <2>3. k \in 1..n /\ k - 1 \in Nat /\ k - 1 <= n /\ k - 1 < k
    BY <1>1, <2>1, <2>2
  <2>4. st[k - 1] \in Trees
    BY <2>1, <2>3
  <2>5. st[k] \in Trees
    BY <1>1, <1>10, <2>3, <2>4
  <2> QED BY <2>1, <2>5
<1>12. TreeStates(st, keys)
  BY <1>1, <1>10, <1>11 DEF TreeStates, base
<1>13. Built(keys) = st[Size]
  BY <1>1, <1>8, <1>9
<1> QED BY <1>12, <1>13

-----------------------------------------------------------------------------
\* The paths from the nodes below n + 1.
IsPaths(p, S) == p = [i \in S |-> IF i = 0 THEN <<>> ELSE <<i>> \o p[i \div 2]]

\* The parent of a node is below it, and is the root or a node above the root.
LEMMA Half ==
    ASSUME NEW i \in Nat \ {0}
    PROVE  i \div 2 \in Nat /\ i \div 2 < i /\ (i >= 2 => i \div 2 >= 1) /\ (i = 1 => i \div 2 = 0)
BY SMT

\* Two tables of the paths agree where both have one.
LEMMA PathsAgree ==
    ASSUME NEW n \in Nat, NEW m \in Nat, NEW g, NEW h, IsPaths(g, 0..n), IsPaths(h, 0..m),
           NEW i \in Nat, i <= n, i <= m
    PROVE  g[i] = h[i]
<1> DEFINE Bad == {j \in Nat : j <= n /\ j <= m /\ g[j] # h[j]}
<1> SUFFICES Bad = {}
  OBVIOUS
<1> SUFFICES ASSUME Bad # {} PROVE FALSE
  OBVIOUS
<1>1. PICK j \in Bad : \A k \in Bad : ~ (k < j)
  BY Least
<1>2. j \in Nat /\ j \in 0..n /\ j \in 0..m /\ g[j] # h[j]
  BY <1>1
<1>3. /\ g[j] = IF j = 0 THEN <<>> ELSE <<j>> \o g[j \div 2]
      /\ h[j] = IF j = 0 THEN <<>> ELSE <<j>> \o h[j \div 2]
  BY <1>2 DEF IsPaths
<1>4. j # 0
  BY <1>2, <1>3
<1>5. j \div 2 \in Nat /\ j \div 2 < j
  BY <1>2, <1>4, Half
<1>6. g[j \div 2] = h[j \div 2]
  BY <1>1, <1>2, <1>5
<1> QED BY <1>2, <1>3, <1>4, <1>6

\* A table of the paths exists for every n.
LEMMA PathsExist ==
    ASSUME NEW n \in Nat
    PROVE  \E g : IsPaths(g, 0..n)
<1> DEFINE Bad == {j \in Nat : ~ \E g : IsPaths(g, 0..j)}
<1> SUFFICES Bad = {}
  OBVIOUS
<1> SUFFICES ASSUME Bad # {} PROVE FALSE
  OBVIOUS
<1>1. PICK j \in Bad : \A k \in Bad : ~ (k < j)
  BY Least
<1>2. j \in Nat
  BY <1>1
<1>3. CASE j = 0
  <2>1. PICK g : g = [i \in 0..0 |-> <<>>]
    OBVIOUS
  <2>2. IsPaths(g, 0..0)
    BY <2>1 DEF IsPaths
  <2> QED BY <1>1, <1>3, <2>2
<1>4. CASE j # 0
  <2>1. j - 1 \in Nat /\ j - 1 < j
    BY <1>2, <1>4
  <2>2. PICK g : IsPaths(g, 0..(j - 1))
    BY <1>1, <2>1
  <2>3. PICK h : h = [i \in 0..j |-> IF i = 0 THEN <<>> ELSE <<i>> \o g[i \div 2]]
    OBVIOUS
  <2>4. \A i \in 0..(j - 1) : i \in 0..j /\ h[i] = g[i]
    <3>1. \A i \in 0..(j - 1) : i \in 0..j
      BY <1>2, <2>1
    <3>2. \A i \in 0..(j - 1) : g[i] = IF i = 0 THEN <<>> ELSE <<i>> \o g[i \div 2]
      BY <2>2 DEF IsPaths
    <3> QED BY <2>3, <3>1, <3>2
  <2>5. \A i \in 0..j : i # 0 => i \div 2 \in 0..(j - 1)
    <3> SUFFICES ASSUME NEW i \in 0..j, i # 0 PROVE i \div 2 \in 0..(j - 1)
      OBVIOUS
    <3>1. i \in Nat \ {0} /\ i <= j
      BY <1>2
    <3> QED BY <1>2, <3>1, Half
  <2>6. \A i \in 0..j : i # 0 => h[i \div 2] = g[i \div 2]
    BY <2>4, <2>5
  <2>7. IsPaths(h, 0..j)
    BY <2>3, <2>6 DEF IsPaths
  <2> QED BY <1>1, <2>7
<1> QED BY <1>3, <1>4

\* PathFrom satisfies its recursive equation at every node.
LEMMA PathDef ==
    /\ PathFrom[0] = <<>>
    /\ \A i \in Nat \ {0} : PathFrom[i] = <<i>> \o PathFrom[i \div 2]
<1> DEFINE G(n) == CHOOSE g : IsPaths(g, 0..n)
<1>1. \A n \in Nat : IsPaths(G(n), 0..n)
  BY PathsExist
<1> HIDE DEF G
<1>2. PICK p : p = [i \in Nat |-> G(i)[i]]
  OBVIOUS
<1>3. ASSUME NEW i \in Nat, i # 0 PROVE p[i] = <<i>> \o p[i \div 2]
  <2>1. i \div 2 \in Nat /\ i \div 2 < i
    BY <1>3, Half
  <2>2. G(i)[i] = <<i>> \o G(i)[i \div 2]
    <3>1. IsPaths(G(i), 0..i) /\ i \in 0..i
      BY <1>1
    <3> QED BY <1>3, <3>1 DEF IsPaths
  <2>3. G(i)[i \div 2] = G(i \div 2)[i \div 2]
    <3>1. IsPaths(G(i), 0..i) /\ IsPaths(G(i \div 2), 0..(i \div 2)) /\ i \div 2 <= i
      BY <1>1, <2>1
    <3> QED BY <2>1, <3>1, PathsAgree
  <2> QED BY <1>2, <2>1, <2>2, <2>3
<1>4. p[0] = <<>>
  <2>1. IsPaths(G(0), 0..0) /\ 0 \in 0..0
    <3>1. 0 \in Nat /\ 0 \in 0..0
      OBVIOUS
    <3>2. IsPaths(G(0), 0..0)
      BY <1>1, <3>1, Zenon
    <3> QED BY <3>1, <3>2
  <2>2. G(0)[0] = <<>>
    BY <2>1 DEF IsPaths
  <2> QED BY <1>2, <2>2
<1>5. IsPaths(p, Nat)
  <2>1. \A i \in Nat : p[i] = IF i = 0 THEN <<>> ELSE <<i>> \o p[i \div 2]
    BY <1>3, <1>4
  <2> QED BY <1>2, <2>1 DEF IsPaths
<1>6. IsPaths(CHOOSE g : IsPaths(g, Nat), Nat)
  BY <1>5
<1>7. PathFrom = CHOOSE g : IsPaths(g, Nat)
  BY Zenon DEF PathFrom, IsPaths
<1>8. IsPaths(PathFrom, Nat)
  BY <1>6, <1>7
<1> QED BY <1>8 DEF IsPaths

\* The nodes of the path from x up to the root.
Above(x) == {PathFrom[x][k] : k \in 1..Len(PathFrom[x])}

\* Every node is half of the one before it, and the last one is the root.
IsPath(r, x) ==
    /\ r \in Seq(1..x) /\ Len(r) >= 1
    /\ r[1] = x /\ r[Len(r)] = 1
    /\ \A k \in 1..(Len(r) - 1) : r[k] >= 2 /\ r[k + 1] = r[k] \div 2

\* PathFrom leads from a node to the root, half by half.
LEMMA PathOf ==
    ASSUME NEW x \in Nat \ {0}
    PROVE  IsPath(PathFrom[x], x)
<1> DEFINE Bad == {j \in Nat : j # 0 /\ ~ IsPath(PathFrom[j], j)}
<1> SUFFICES Bad = {}
  OBVIOUS
<1> SUFFICES ASSUME Bad # {} PROVE FALSE
  OBVIOUS
<1>1. PICK j \in Bad : \A k \in Bad : ~ (k < j)
  BY Least
<1>2. j \in Nat \ {0}
  BY <1>1
<1>3. j \div 2 \in Nat /\ j \div 2 < j /\ (j >= 2 => j \div 2 >= 1) /\ (j = 1 => j \div 2 = 0)
  BY <1>2, Half
<1>4. PathFrom[j] = <<j>> \o PathFrom[j \div 2]
  BY <1>2, PathDef
<1>5. CASE j = 1
  <2>1. PathFrom[j] = <<1>>
    <3>1. <<1>> \o <<>> = <<1>>
      OBVIOUS
    <3> QED BY <1>3, <1>4, <1>5, <3>1, PathDef
  <2>2. IsPath(<<1>>, 1)
    BY DEF IsPath
  <2> QED BY <1>1, <1>5, <2>1, <2>2
<1>6. CASE j # 1
  <2> DEFINE h == j \div 2
             r == PathFrom[h]
             p == <<j>> \o r
  <2>1. j >= 2 /\ h \in Nat \ {0} /\ h < j
    BY <1>2, <1>3, <1>6
  <2>2. IsPath(r, h)
    BY <1>1, <2>1
  <2>3. PathFrom[j] = p
    BY <1>4
  <2> HIDE DEF h, r
  <2>4. r \in Seq(1..h) /\ Len(r) \in Nat /\ Len(r) >= 1 /\ r[1] = h /\ r[Len(r)] = 1
        /\ \A k \in 1..(Len(r) - 1) : r[k] >= 2 /\ r[k + 1] = r[k] \div 2
    BY <2>2 DEF IsPath
  <2>5. r \in Seq(1..j) /\ <<j>> \in Seq(1..j)
    <3>1. 1..h \subseteq 1..j
      BY <1>2, <2>1
    <3>2. j \in 1..j
      BY <1>2
    <3>3. r \in Seq(1..j)
      <4>1. \A k \in 1..Len(r) : r[k] \in 1..j
        <5> SUFFICES ASSUME NEW k \in 1..Len(r) PROVE r[k] \in 1..j
          OBVIOUS
        <5>1. r \in Seq(1..h) /\ k \in 1..Len(r)
          BY <2>4
        <5>2. r[k] \in 1..h
          BY <5>1, ElementOfSeq
        <5> QED BY <3>1, <5>2
      <4>2. r = [k \in 1..Len(r) |-> r[k]]
        BY <2>4
      <4> QED BY <2>4, <4>1, <4>2
    <3> QED BY <3>2, <3>3
  <2>6. p \in Seq(1..j) /\ Len(p) = Len(r) + 1 /\ p[1] = j
        /\ \A k \in 2..(Len(r) + 1) : p[k] = r[k - 1]
    BY <2>4, <2>5
  <2> HIDE DEF p
  <2>7. p[Len(p)] = 1
    <3>1. Len(p) \in 2..(Len(r) + 1) /\ Len(p) - 1 = Len(r)
      BY <2>4, <2>6
    <3> QED BY <2>4, <2>6, <3>1
  <2>8. ASSUME NEW k \in 1..(Len(p) - 1) PROVE p[k] >= 2 /\ p[k + 1] = p[k] \div 2
    <3>1. CASE k = 1
      <4>1. 2 \in 2..(Len(r) + 1) /\ 2 - 1 = 1 /\ 1 + 1 = 2
        BY <2>4
      <4>2. p[2] = r[1]
        BY <2>6, <4>1
      <4> QED BY <2>1, <2>4, <2>6, <3>1, <4>1, <4>2 DEF h
    <3>2. CASE k # 1
      <4>1. k \in 2..(Len(r) + 1) /\ k + 1 \in 2..(Len(r) + 1) /\ (k + 1) - 1 = k
            /\ k - 1 \in 1..(Len(r) - 1) /\ (k - 1) + 1 = k
        BY <2>4, <2>6, <3>2
      <4>2. p[k] = r[k - 1] /\ p[k + 1] = r[k]
        BY <2>6, <4>1
      <4>3. r[k - 1] >= 2 /\ r[k] = r[k - 1] \div 2
        BY <2>4, <4>1
      <4> QED BY <4>2, <4>3
    <3> QED BY <3>1, <3>2
  <2>9. IsPath(p, j)
    BY <2>4, <2>6, <2>7, <2>8 DEF IsPath
  <2> QED BY <1>1, <2>3, <2>9
<1> QED BY <1>5, <1>6

-----------------------------------------------------------------------------
\* What is above a node: the node, and what is above its parent.
LEMMA AboveNode ==
    /\ Above(1) = {1}
    /\ \A x \in Nat : x >= 2 => Above(x) = {x} \cup Above(x \div 2)
<1>1. Above(1) = {1}
  <2>1. PathFrom[1] = <<1>>
    <3>1. PathFrom[1] = <<1>> \o PathFrom[1 \div 2] /\ 1 \div 2 = 0
      BY PathDef
    <3>2. <<1>> \o <<>> = <<1>>
      OBVIOUS
    <3> QED BY <3>1, <3>2, PathDef
  <2>2. 1..Len(<<1>>) = {1} /\ <<1>>[1] = 1
    OBVIOUS
  <2> QED BY <2>1, <2>2 DEF Above
<1>2. ASSUME NEW x \in Nat, x >= 2 PROVE Above(x) = {x} \cup Above(x \div 2)
  <2> DEFINE r == PathFrom[x \div 2]
             p == <<x>> \o r
  <2>1. x \in Nat \ {0} /\ x \div 2 \in Nat \ {0}
    BY <1>2, Half
  <2>2. PathFrom[x] = p
    BY <2>1, PathDef
  <2>3. r \in Seq(1..(x \div 2))
    BY <2>1, PathOf DEF IsPath
  <2> HIDE DEF r
  <2>4. r \in Seq(Nat) /\ <<x>> \in Seq(Nat)
    <3>1. r \in Seq(Nat)
      <4>1. 1..(x \div 2) \subseteq Nat
        OBVIOUS
      <4> HIDE DEF r
      <4> QED BY <2>3, <4>1
    <3> QED BY <3>1
  <2>5. Len(r) \in Nat /\ Len(p) = Len(r) + 1 /\ p[1] = x /\ \A k \in 2..(Len(r) + 1) : p[k] = r[k - 1]
    BY <2>4
  <2> HIDE DEF p
  <2>6. Above(x) = {p[k] : k \in 1..Len(p)} /\ Above(x \div 2) = {r[k] : k \in 1..Len(r)}
    BY <2>2 DEF Above, r
  <2>7. ASSUME NEW k \in 1..Len(p) PROVE p[k] \in {x} \cup {r[j] : j \in 1..Len(r)}
    <3>1. CASE k = 1
      BY <2>5, <3>1
    <3>2. CASE k # 1
      <4>1. k \in 2..(Len(r) + 1) /\ k - 1 \in 1..Len(r)
        BY <2>5, <3>2
      <4> QED BY <2>5, <4>1
    <3> QED BY <3>1, <3>2
  <2>8. ASSUME NEW k \in 1..Len(r) PROVE r[k] \in {p[j] : j \in 1..Len(p)}
    <3>1. k + 1 \in 2..(Len(r) + 1) /\ k + 1 \in 1..Len(p) /\ (k + 1) - 1 = k
      BY <2>5
    <3>2. p[k + 1] = r[k]
      BY <2>5, <3>1
    <3> QED BY <3>1, <3>2
  <2>9. x \in {p[j] : j \in 1..Len(p)}
    <3>1. 1 \in 1..Len(p)
      BY <2>5
    <3> QED BY <2>5, <3>1
  <2> QED BY <2>6, <2>7, <2>8, <2>9
<1> QED BY <1>1, <1>2

\* The node itself and the root are above a node, and every other is at most half.
LEMMA AboveBounds ==
    ASSUME NEW x \in Nat \ {0}
    PROVE  /\ x \in Above(x) /\ 1 \in Above(x)
           /\ \A j \in Above(x) : j \in Nat /\ 1 <= j /\ j <= x /\ (j = x \/ j <= x \div 2)
<1> DEFINE Good(y) == /\ y \in Above(y) /\ 1 \in Above(y)
                      /\ \A j \in Above(y) : j \in Nat /\ 1 <= j /\ j <= y /\ (j = y \/ j <= y \div 2)
           Bad == {y \in Nat : y # 0 /\ ~ Good(y)}
<1> SUFFICES Bad = {}
  <2>1. Good(x)
    <3> HIDE DEF Good
    <3> QED OBVIOUS
  <2> QED BY <2>1
<1> SUFFICES ASSUME Bad # {} PROVE FALSE
  OBVIOUS
<1>1. PICK y \in Bad : \A k \in Bad : ~ (k < y)
  BY Least
<1>2. y \in Nat \ {0} /\ ~ Good(y)
  BY <1>1
<1>3. CASE y = 1
  BY <1>2, <1>3, AboveNode
<1>4. CASE y # 1
  <2>1. y >= 2 /\ y \div 2 \in Nat \ {0} /\ y \div 2 < y
    BY <1>2, <1>4, Half
  <2>2. Good(y \div 2)
    <3> HIDE DEF Good
    <3> QED BY <1>1, <2>1
  <2>3. Above(y) = {y} \cup Above(y \div 2)
    BY <1>2, <2>1, AboveNode
  <2>4. Good(y)
    BY <1>2, <2>1, <2>2, <2>3
  <2> QED BY <1>2, <2>4
<1> QED BY <1>3, <1>4

\* A path goes through a node when it ends there, at the bottom, or comes
\* through one of its two children, and never through both.
LEMMA AboveChild ==
    ASSUME NEW x \in Nat \ {0}, NEW i \in Nat \ {0}
    PROVE  /\ i \in Above(x) => i = x \/ 2 * i \in Above(x) \/ 2 * i + 1 \in Above(x)
           /\ 2 * i \in Above(x) => i \in Above(x)
           /\ 2 * i + 1 \in Above(x) => i \in Above(x)
           /\ ~ (2 * i \in Above(x) /\ 2 * i + 1 \in Above(x))
<1> DEFINE Good(y) ==
             /\ i \in Above(y) => i = y \/ 2 * i \in Above(y) \/ 2 * i + 1 \in Above(y)
             /\ 2 * i \in Above(y) => i \in Above(y)
             /\ 2 * i + 1 \in Above(y) => i \in Above(y)
             /\ ~ (2 * i \in Above(y) /\ 2 * i + 1 \in Above(y))
           Bad == {y \in Nat : y # 0 /\ ~ Good(y)}
<1> SUFFICES Bad = {}
  <2>1. Good(x)
    <3> HIDE DEF Good
    <3> QED OBVIOUS
  <2> QED BY <2>1
<1> SUFFICES ASSUME Bad # {} PROVE FALSE
  OBVIOUS
<1>1. PICK y \in Bad : \A k \in Bad : ~ (k < y)
  BY Least
<1>2. y \in Nat \ {0} /\ ~ Good(y)
  BY <1>1
<1>3. CASE y = 1
  BY <1>2, <1>3, AboveNode
<1>4. CASE y # 1
  <2> DEFINE h == y \div 2
  <2>1. y >= 2 /\ h \in Nat \ {0} /\ h < y /\ (y = 2 * h \/ y = 2 * h + 1)
    BY <1>2, <1>4, Half
  <2>2. Good(h)
    <3> HIDE DEF Good
    <3> QED BY <1>1, <2>1
  <2>3. Above(y) = {y} \cup Above(h) /\ h \in Above(h) /\ \A j \in Above(h) : j \in Nat /\ j <= h
    BY <1>2, <2>1, AboveNode, AboveBounds
  <2> HIDE DEF h
  <2>4. i \in Above(y) => i = y \/ 2 * i \in Above(y) \/ 2 * i + 1 \in Above(y)
    BY <2>1, <2>2, <2>3
  <2>5. /\ 2 * i \in Above(y) => i \in Above(y)
        /\ 2 * i + 1 \in Above(y) => i \in Above(y)
    BY <2>1, <2>2, <2>3
  <2>6. ~ (2 * i \in Above(y) /\ 2 * i + 1 \in Above(y))
    BY <2>1, <2>2, <2>3
  <2> QED BY <1>2, <2>4, <2>5, <2>6
<1> QED BY <1>3, <1>4

\* Of two nodes of a path, the one nearer to the root is the half of the other
\* at most.
LEMMA AboveDescends ==
    ASSUME NEW x \in Nat \ {0}, NEW j \in Above(x), NEW k \in Above(x), j < k
    PROVE  j <= k \div 2
<1> DEFINE Good(y) == \A a, b \in Above(y) : a < b => a <= b \div 2
           Bad == {y \in Nat : y # 0 /\ ~ Good(y)}
<1> SUFFICES Bad = {}
  <2>1. Good(x)
    <3> HIDE DEF Good
    <3> QED OBVIOUS
  <2> QED BY <2>1
<1> SUFFICES ASSUME Bad # {} PROVE FALSE
  OBVIOUS
<1>1. PICK y \in Bad : \A m \in Bad : ~ (m < y)
  BY Least
<1>2. y \in Nat \ {0} /\ ~ Good(y)
  BY <1>1
<1>3. CASE y = 1
  BY <1>2, <1>3, AboveNode
<1>4. CASE y # 1
  <2> DEFINE h == y \div 2
  <2>1. y >= 2 /\ h \in Nat \ {0} /\ h < y
    BY <1>2, <1>4, Half
  <2>2. Good(h)
    <3> HIDE DEF Good
    <3> QED BY <1>1, <2>1
  <2>3. Above(y) = {y} \cup Above(h) /\ \A m \in Above(h) : m \in Nat /\ m <= h
    BY <1>2, <2>1, AboveNode, AboveBounds
  <2>4. ASSUME NEW a \in Above(y), NEW b \in Above(y), a < b PROVE a <= b \div 2
    <3>1. CASE b = y
      BY <1>2, <2>1, <2>3, <2>4, <3>1
    <3>2. CASE b # y
      <4>1. b \in Above(h) /\ a \in Above(h)
        BY <1>2, <2>1, <2>3, <2>4, <3>2
      <4> QED BY <2>2, <2>4, <4>1
    <3> QED BY <3>1, <3>2
  <2> QED BY <1>2, <2>4
<1> QED BY <1>3, <1>4

-----------------------------------------------------------------------------
(* Channel c climbs from the leaf c + Size; node i plays the winners of its  *)
(* children 2i and 2i + 1, which are nodes below Size or leaves.             *)
Nodes == 1..(Size - 1)
Under(x) == {c \in Columns : x \in Above(c + Size)}
SizeOk == Size \in Nat /\ Size >= 2

\* The leaf of a channel is between Size and 2 * Size.
LEMMA ColumnOk ==
    ASSUME SizeOk, NEW c \in Columns
    PROVE  /\ c \in Nat /\ c < Size /\ c \in 0..Size /\ c # Size
           /\ c + Size \in Nat \ {0} /\ c + Size >= 2 /\ c + Size < 2 * Size
BY DEF SizeOk, Columns

\* A leaf has its own channel under it.
LEMMA UnderLeaf ==
    ASSUME SizeOk, NEW c \in Columns
    PROVE  Under(c + Size) = {c}
<1>1. c \in Under(c + Size)
  BY ColumnOk, AboveBounds DEF Under
<1>2. ASSUME NEW d \in Under(c + Size) PROVE d = c
  <2>1. d \in Columns /\ c + Size \in Above(d + Size)
    BY DEF Under
  <2>2. d + Size \in Nat \ {0} /\ d + Size < 2 * Size /\ c \in Nat /\ d \in Nat /\ Size \in Nat
    BY <2>1, ColumnOk DEF SizeOk
  <2>3. c + Size = d + Size \/ c + Size <= (d + Size) \div 2
    BY <2>1, <2>2, AboveBounds
  <2>4. (d + Size) \div 2 < Size
    BY <2>2
  <2> QED BY <2>2, <2>3, <2>4
<1> QED BY <1>1, <1>2

\* Every channel is under the root.
LEMMA UnderRoot ==
    ASSUME SizeOk
    PROVE  Under(1) = Columns
BY ColumnOk, AboveBounds DEF Under

\* A channel under a node is under one of its children, and only under one.
LEMMA UnderNode ==
    ASSUME SizeOk, NEW i \in Nodes
    PROVE  /\ Under(i) = Under(2 * i) \cup Under(2 * i + 1)
           /\ Under(2 * i) \cap Under(2 * i + 1) = {}
<1>1. i \in Nat \ {0} /\ i < Size
  BY DEF SizeOk, Nodes
<1>2. ASSUME NEW c \in Columns
      PROVE  /\ i \in Above(c + Size) <=> (2 * i \in Above(c + Size) \/ 2 * i + 1 \in Above(c + Size))
             /\ ~ (2 * i \in Above(c + Size) /\ 2 * i + 1 \in Above(c + Size))
  <2>1. c + Size \in Nat \ {0} /\ i # c + Size
    BY <1>1, ColumnOk DEF SizeOk
  <2> QED BY <1>1, <2>1, AboveChild
<1> QED BY <1>2 DEF Under

\* The parent of a node is an inner node, and has under it what the node has.
LEMMA UnderHalf ==
    ASSUME SizeOk, NEW x \in Nat, x >= 2, x < 2 * Size
    PROVE  /\ x \div 2 \in Nodes /\ Under(x) \subseteq Under(x \div 2)
           /\ x = 2 * (x \div 2) \/ x = 2 * (x \div 2) + 1
<1>1. x \div 2 \in Nat /\ x \div 2 >= 1 /\ x \div 2 < Size
      /\ (x = 2 * (x \div 2) \/ x = 2 * (x \div 2) + 1)
  BY DEF SizeOk
<1>2. x \div 2 \in Nodes
  BY <1>1 DEF SizeOk, Nodes
<1>3. Under(x \div 2) = Under(2 * (x \div 2)) \cup Under(2 * (x \div 2) + 1)
  BY <1>2, UnderNode
<1> HIDE DEF Under
<1> QED BY <1>1, <1>2, <1>3

\* No node is without a channel under it.
LEMMA UnderSome ==
    ASSUME SizeOk, NEW x \in Nat, 1 <= x, x < 2 * Size
    PROVE  Under(x) # {}
<1> DEFINE Bad == {d \in Nat : \E y \in Nat : 1 <= y /\ y < 2 * Size /\ Under(y) = {} /\ d = 2 * Size - y}
<1>1. Size \in Nat /\ Size >= 2
  BY DEF SizeOk
<1> SUFFICES Bad = {}
  <2> SUFFICES ASSUME Under(x) = {} PROVE FALSE
    OBVIOUS
  <2>1. 2 * Size - x \in Nat
    BY <1>1
  <2> HIDE DEF Under
  <2>2. 2 * Size - x \in Bad
    BY <2>1
  <2> QED BY <2>2
<1> SUFFICES ASSUME Bad # {} PROVE FALSE
  OBVIOUS
<1>2. PICK d \in Bad : \A k \in Bad : ~ (k < d)
  BY Least
<1>3. PICK y \in Nat : 1 <= y /\ y < 2 * Size /\ Under(y) = {} /\ d = 2 * Size - y
  BY <1>2
<1>4. CASE y < Size
  <2>1. 2 * y \in Nat /\ 1 <= 2 * y /\ 2 * y < 2 * Size /\ 2 * Size - 2 * y \in Nat
        /\ 2 * Size - 2 * y < d
    BY <1>1, <1>3, <1>4
  <2>2. Under(2 * y) # {}
    BY <1>2, <2>1
  <2>3. y \in Nodes
    BY <1>1, <1>3, <1>4 DEF Nodes
  <2> QED BY <1>3, <2>2, <2>3, UnderNode
<1>5. CASE ~ (y < Size)
  <2>1. y - Size \in Columns /\ (y - Size) + Size = y
    BY <1>1, <1>3, <1>5 DEF Columns
  <2>2. Under((y - Size) + Size) = {y - Size}
    BY <2>1, UnderLeaf
  <2> QED BY <1>3, <2>1, <2>2
<1> QED BY <1>4, <1>5

-----------------------------------------------------------------------------
\* The keys of the channels are above that of the sentinel.
KeysOk(keys) ==
    /\ \A c \in Columns : keys[c].local \in Nat \ {0} /\ keys[c].exch \in Nat
    /\ keys[Size].local = 0 /\ keys[Size].exch = 0

\* The sentinel never loses, and every channel loses against it.
LEMMA SentinelWins ==
    ASSUME SizeOk, NEW keys, KeysOk(keys)
    PROVE  /\ \A c \in Columns : Loses(keys, c, Size) /\ ~ Loses(keys, Size, c)
           /\ ~ Loses(keys, Size, Size)
BY DEF KeysOk, Loses, SizeOk

\* Of two channels, one loses.
LEMMA OneLoses ==
    ASSUME SizeOk, NEW keys, KeysOk(keys), NEW c \in Columns, NEW d \in Columns, c # d
    PROVE  Loses(keys, c, d) <=> ~ Loses(keys, d, c)
BY ColumnOk DEF KeysOk, Loses

\* One channel loses against no other.
LEMMA WinnerExists ==
    ASSUME SizeOk, NEW keys, KeysOk(keys)
    PROVE  \E w \in Columns : \A c \in Columns : ~ Loses(keys, w, c)
<1> DEFINE A == {keys[c].local : c \in Columns}
<1>1. 0 \in Columns /\ \A c \in Columns : c \in Nat
  BY ColumnOk DEF SizeOk, Columns
<1>2. A \in SUBSET Nat /\ A # {}
  BY <1>1 DEF KeysOk
<1>3. PICK a \in A : \A k \in A : ~ (k < a)
  BY <1>2, Least
<1> DEFINE C == {c \in Columns : keys[c].local = a}
           B == {keys[c].exch : c \in C}
<1>4. B \in SUBSET Nat /\ B # {} /\ C \in SUBSET Nat
  BY <1>1, <1>3 DEF KeysOk
<1>5. PICK b \in B : \A k \in B : ~ (k < b)
  BY <1>4, Least
<1> DEFINE E == {c \in C : keys[c].exch = b}
<1>6. E \in SUBSET Nat /\ E # {}
  BY <1>4, <1>5
<1>7. PICK w \in E : \A k \in E : ~ (k < w)
  BY <1>6, Least
<1>8. w \in Columns /\ keys[w].local = a /\ keys[w].exch = b
  BY <1>7
<1>9. ASSUME NEW c \in Columns PROVE ~ Loses(keys, w, c)
  <2>1. ~ (keys[c].local < a)
    BY <1>3
  <2>2. keys[c].local = a => ~ (keys[c].exch < b)
    BY <1>5
  <2>3. keys[c].local = a /\ keys[c].exch = b => ~ (c < w)
    BY <1>7
  <2>4. /\ keys[c].local \in Nat /\ keys[w].local \in Nat /\ keys[c].exch \in Nat
        /\ keys[w].exch \in Nat /\ c \in Nat /\ w \in Nat
    BY <1>1, <1>8 DEF KeysOk
  <2> QED BY <1>8, <2>1, <2>2, <2>3, <2>4 DEF Loses
<1> QED BY <1>8, <1>9

-----------------------------------------------------------------------------
\* Node i has a loser when all channels under one of its children are in the
\* tree; when all under both are, another channel there beats that loser.
GoodNode(keys, tree, In, i) ==
    /\ tree[i] # Size <=> (Under(2 * i) \subseteq In \/ Under(2 * i + 1) \subseteq In)
    /\ Under(i) \subseteq In => \E w \in Under(i) : Loses(keys, tree[i], w)

\* What the nodes hold when the channels of In are in the tree, and only they.
Held(tree, In) ==
    /\ \A i \in Nodes : tree[i] # Size => tree[i] \in In /\ tree[i] \in Under(i)
    /\ \A i, j \in Nodes : tree[i] = tree[j] /\ tree[i] # Size => i = j

\* A tree some channels of which are missing: every one of In is a loser.
Resting(keys, tree, In) ==
    /\ tree \in Trees /\ In \subseteq Columns
    /\ Held(tree, In)
    /\ \A c \in In : \E i \in Nodes : tree[i] = c
    /\ \A i \in Nodes : GoodNode(keys, tree, In, i)

\* A tree with every channel: each is the champion or the loser at one node.
Complete(keys, tree) ==
    /\ tree \in Trees /\ tree[0] \in Columns
    /\ Held(tree, Columns)
    /\ \A i \in Nodes : tree[i] # Size /\ tree[i] # tree[0]
    /\ \A c \in Columns : c = tree[0] \/ \E i \in Nodes : tree[i] = c
    /\ \A i \in Nodes : \E w \in Under(i) : Loses(keys, tree[i], w)

\* Channel s climbs into a tree that has those of In, and the climb has come to
\* node x: the nodes above x are as they were, those of the path up to x are
\* as they shall be, and what climbs on is a channel when all those under x
\* are in the tree.
ClimbInv(keys, tree, In, s, x, climb) ==
    /\ climb \in Climbs
    /\ Held(climb.tree, In \cup {s})
    /\ \A i \in Nodes : climb.tree[i] # Size => climb.tree[i] # climb.s
    /\ \A c \in In \cup {s} : c = climb.s \/ \E i \in Nodes : climb.tree[i] = c
    /\ \A i \in Nodes : i \notin Above(s + Size) \/ i < x => climb.tree[i] = tree[i]
    /\ climb.s # Size => climb.s \in In \cup {s} /\ climb.s \in Under(x)
    /\ climb.s # Size <=> Under(x) \subseteq In \cup {s}
    /\ \A i \in Nodes : i \in Above(s + Size) /\ i >= x => GoodNode(keys, climb.tree, In \cup {s}, i)

\* At its leaf, the channel that climbs satisfies the invariant of the climb.
LEMMA ClimbStart ==
    ASSUME SizeOk, NEW keys, NEW tree, NEW In, Resting(keys, tree, In), NEW s \in Columns, s \notin In
    PROVE  ClimbInv(keys, tree, In, s, s + Size, [s |-> s, tree |-> tree])
<1> DEFINE climb == [s |-> s, tree |-> tree]
<1>1. climb.s = s /\ climb.tree = tree /\ climb \in Climbs /\ s # Size /\ s + Size \in Nat
  BY ColumnOk DEF Resting, Climbs
<1>2. s \in Under(s + Size) /\ Under(s + Size) = {s}
  BY UnderLeaf
<1>3. \A i \in Nodes : ~ (i >= s + Size)
  BY ColumnOk DEF Nodes, SizeOk
<1>4. Held(tree, In \cup {s})
  BY DEF Resting, Held
<1>5. \A i \in Nodes : tree[i] # Size => tree[i] # s
  BY DEF Resting, Held
<1>6. \A c \in In \cup {s} : c = s \/ \E i \in Nodes : tree[i] = c
  BY DEF Resting
<1> HIDE DEF climb
<1>7. ClimbInv(keys, tree, In, s, s + Size, climb)
  BY <1>1, <1>2, <1>3, <1>4, <1>5, <1>6 DEF ClimbInv
<1> QED BY <1>7 DEF climb

\* The invariant of the climb is kept from a node to its parent.
LEMMA ClimbStep ==
    ASSUME SizeOk, NEW keys, KeysOk(keys), NEW tree, NEW In, Resting(keys, tree, In),
           NEW s \in Columns, s \notin In, NEW x \in Above(s + Size), x >= 2, NEW climb,
           ClimbInv(keys, tree, In, s, x, climb)
    PROVE  ClimbInv(keys, tree, In, s, x \div 2, Meets(keys, climb, x \div 2))
<1> DEFINE h == x \div 2
           N == In \cup {s}
           P == Above(s + Size)
           c == climb.s
           t == climb.tree
           new == Meets(keys, climb, h)
<1>1. /\ s + Size \in Nat \ {0} /\ x \in Nat /\ x < 2 * Size /\ Size \in Nat /\ Size >= 2
  BY ColumnOk, AboveBounds DEF SizeOk
<1>2. /\ h \in Nodes /\ Under(x) \subseteq Under(h) /\ (x = 2 * h \/ x = 2 * h + 1)
      /\ h \in Nat \ {0} /\ h < x /\ h \in 0..Size
  <2>1. h \in Nodes /\ Under(x) \subseteq Under(h) /\ (x = 2 * h \/ x = 2 * h + 1)
    BY <1>1, UnderHalf
  <2>2. h \in Nat \ {0} /\ h <= Size
    BY <1>1, <2>1 DEF Nodes
  <2> QED BY <1>1, <2>1, <2>2
<1> DEFINE y == IF x = 2 * h THEN 2 * h + 1 ELSE 2 * h
<1>3. /\ h \in P
      /\ \A i \in Nodes : i \in P /\ i >= h => i = h \/ i >= x
      /\ \A i \in Nodes : i < h => i < x
  <2>1. h \in P
    <3>1. h \in Nat \ {0} /\ s + Size \in Nat \ {0} /\ x \in P
      BY <1>1, <1>2
    <3>2. (2 * h \in P => h \in P) /\ (2 * h + 1 \in P => h \in P)
      <4> HIDE DEF h
      <4> QED BY <3>1, AboveChild
    <3>3. x = 2 * h \/ x = 2 * h + 1
      BY <1>2
    <3> HIDE DEF h, P
    <3> QED BY <3>1, <3>2, <3>3
  <2>2. ASSUME NEW i \in Nodes, i \in P, i >= h, i < x PROVE i = h
    <3>1. i <= h
      BY <1>1, <2>2, AboveDescends
    <3> QED BY <1>2, <2>2, <3>1 DEF Nodes
  <2> QED BY <1>1, <1>2, <2>1, <2>2 DEF Nodes
<1>4. /\ y \notin P /\ s \notin Under(y) /\ Under(h) = Under(x) \cup Under(y)
      /\ {x, y} = {2 * h, 2 * h + 1}
  <2>1. ~ (2 * h \in P /\ 2 * h + 1 \in P)
    BY <1>1, <1>2, AboveChild
  <2>2. y \notin P /\ {x, y} = {2 * h, 2 * h + 1}
    BY <1>2, <2>1
  <2>3. Under(h) = Under(2 * h) \cup Under(2 * h + 1)
    BY <1>2, UnderNode
  <2>4. s \notin Under(y)
    BY <2>2 DEF Under
  <2> QED BY <1>2, <2>2, <2>3, <2>4
<1>5. Under(y) \subseteq In <=> Under(y) \subseteq N
  BY <1>4
<1>6. /\ c \in 0..Size /\ t \in Trees /\ climb = [s |-> c, tree |-> t] /\ tree \in Trees
      /\ Held(t, N)
      /\ \A i \in Nodes : t[i] # Size => t[i] # c
      /\ \A d \in N : d = c \/ \E i \in Nodes : t[i] = d
      /\ \A i \in Nodes : i \notin P \/ i < x => t[i] = tree[i]
      /\ c # Size => c \in N /\ c \in Under(x)
      /\ c # Size <=> Under(x) \subseteq N
      /\ \A i \in Nodes : i \in P /\ i >= x => GoodNode(keys, t, N, i)
  BY DEF ClimbInv, Climbs, Resting
<1>7. /\ N \subseteq Columns /\ Size \notin Columns /\ Columns \subseteq 0..Size
      /\ \A i \in Nodes : i \in 0..Size /\ t[i] \in 0..Size
  <2>1. Size \notin Columns /\ Columns \subseteq 0..Size
    BY ColumnOk
  <2>2. \A i \in Nodes : i \in 0..Size
    BY <1>1 DEF Nodes
  <2>3. \A i \in Nodes : t[i] \in 0..Size
    BY <1>6, <2>2 DEF Trees
  <2> QED BY <2>1, <2>2, <2>3 DEF Resting
<1>8. t[h] # Size <=> Under(y) \subseteq N
  <2>1. t[h] = tree[h]
    BY <1>2, <1>6
  <2>2. ~ (Under(x) \subseteq In)
    <3>1. s \in Under(x)
      BY DEF Under
    <3> QED BY <3>1
  <2>3. tree[h] # Size <=> (Under(2 * h) \subseteq In \/ Under(2 * h + 1) \subseteq In)
    BY <1>2 DEF Resting, GoodNode
  <2>4. tree[h] # Size <=> (Under(x) \subseteq In \/ Under(y) \subseteq In)
    BY <1>2, <2>3
  <2> QED BY <1>5, <2>1, <2>2, <2>4
<1> HIDE DEF c, t, N, P, y
<1>9. Under(h) \subseteq N <=> (Under(x) \subseteq N /\ Under(y) \subseteq N)
  BY <1>4
<1>10. t[h] # Size => t[h] \in N /\ t[h] \in Under(h) /\ t[h] \in Columns /\ t[h] # c
  BY <1>2, <1>6, <1>7 DEF Held
<1>11. c # Size => c \in N /\ c \in Columns /\ c \in Under(h)
  BY <1>2, <1>6, <1>7
\* What climbs is taken up: the channel stays at node h.
<1>12. CASE c # Size /\ Loses(keys, c, t[h])
  <2> DEFINE u == [t EXCEPT ![h] = c]
             d == t[h]
             won == [s |-> d, tree |-> u]
  <2>1. new = won
    BY <1>12 DEF Meets, c, t
  <2>2. won.s = d /\ won.tree = u /\ won \in Climbs
    BY <1>2, <1>6, <1>7 DEF Climbs, Trees
  <2>3. u[h] = c /\ \A i \in Nodes : i # h => u[i] = t[i]
    BY <1>2, <1>6, <1>7 DEF Trees
  <2> HIDE DEF u, won
  <2>4. Held(u, N)
    <3>1. ASSUME NEW i \in Nodes, u[i] # Size PROVE u[i] \in N /\ u[i] \in Under(i)
      <4>1. CASE i = h
        BY <1>11, <1>12, <2>3, <4>1
      <4>2. CASE i # h
        BY <1>6, <2>3, <3>1, <4>2 DEF Held
      <4> QED BY <4>1, <4>2
    <3>2. ASSUME NEW i \in Nodes, NEW j \in Nodes, u[i] = u[j], u[i] # Size PROVE i = j
      <4>1. CASE i # h /\ j # h
        BY <1>6, <2>3, <3>2, <4>1 DEF Held
      <4>2. CASE i = h /\ j # h
        BY <1>6, <2>3, <3>2, <4>2
      <4>3. CASE i # h /\ j = h
        BY <1>6, <2>3, <3>2, <4>3
      <4> QED BY <4>1, <4>2, <4>3
    <3> QED BY <3>1, <3>2 DEF Held
  <2>5. \A i \in Nodes : u[i] # Size => u[i] # d
    <3> SUFFICES ASSUME NEW i \in Nodes, u[i] # Size, u[i] = d PROVE FALSE
      OBVIOUS
    <3>1. CASE i = h
      BY <1>10, <1>12, <2>3, <3>1
    <3>2. CASE i # h
      BY <1>2, <1>6, <2>3, <3>2 DEF Held
    <3> QED BY <3>1, <3>2
  <2>6. \A e \in N : e = d \/ \E i \in Nodes : u[i] = e
    <3> SUFFICES ASSUME NEW e \in N, e # d PROVE \E i \in Nodes : u[i] = e
      OBVIOUS
    <3>1. CASE e = c
      BY <1>2, <2>3, <3>1
    <3>2. CASE e # c
      <4>1. PICK i \in Nodes : t[i] = e
        BY <1>6, <3>2
      <4>2. i # h
        BY <4>1
      <4> QED BY <2>3, <4>1, <4>2
    <3> QED BY <3>1, <3>2
  <2>7. \A i \in Nodes : i \notin P \/ i < h => u[i] = tree[i]
    <3> SUFFICES ASSUME NEW i \in Nodes, i \notin P \/ i < h PROVE u[i] = tree[i]
      OBVIOUS
    <3>1. i # h
      BY <1>2, <1>3
    <3>2. i \notin P \/ i < x
      BY <1>3
    <3> QED BY <1>6, <2>3, <3>1, <3>2
  <2>8. d # Size => d \in N /\ d \in Under(h)
    BY <1>10
  <2>9. d # Size <=> Under(h) \subseteq N
    BY <1>6, <1>8, <1>9, <1>12
  <2>10. ASSUME NEW i \in Nodes, i \in P, i >= h PROVE GoodNode(keys, u, N, i)
    <3>1. CASE i = h
      <4>1. u[h] # Size /\ (Under(2 * h) \subseteq N \/ Under(2 * h + 1) \subseteq N)
        BY <1>2, <1>6, <1>12, <2>3
      <4>2. Under(h) \subseteq N => \E w \in Under(h) : Loses(keys, u[h], w)
        BY <1>10, <1>12, <2>3, <2>9
      <4> QED BY <3>1, <4>1, <4>2 DEF GoodNode
    <3>2. CASE i # h
      <4>1. i >= x /\ u[i] = t[i]
        BY <1>3, <2>3, <2>10, <3>2
      <4>2. GoodNode(keys, t, N, i)
        BY <1>6, <2>10, <4>1
      <4> QED BY <4>1, <4>2 DEF GoodNode
    <3> QED BY <3>1, <3>2
  <2>11. ClimbInv(keys, tree, In, s, h, won)
    BY <2>2, <2>4, <2>5, <2>6, <2>7, <2>8, <2>9, <2>10 DEF ClimbInv, N, P
  <2> QED BY <2>1, <2>11
\* What climbs goes on.
<1>13. CASE ~ (c # Size /\ Loses(keys, c, t[h]))
  <2>1. ~ Loses(keys, c, t[h])
    <3>1. CASE c = Size
      BY <1>10, <3>1, SentinelWins
    <3>2. CASE c # Size
      BY <1>13, <3>2
    <3> QED BY <3>1, <3>2
  <2>2. new = climb
    BY <2>1 DEF Meets, c, t
  <2>3. c # Size => t[h] # Size
    BY <1>11, <2>1, SentinelWins
  <2>4. c # Size <=> Under(h) \subseteq N
    BY <1>6, <1>8, <1>9, <2>3
  <2>5. \A i \in Nodes : i \notin P \/ i < h => t[i] = tree[i]
    BY <1>3, <1>6
  <2>6. ASSUME NEW i \in Nodes, i \in P, i >= h PROVE GoodNode(keys, t, N, i)
    <3>1. CASE i = h
      <4>1. t[h] # Size <=> (Under(2 * h) \subseteq N \/ Under(2 * h + 1) \subseteq N)
        <5>1. t[h] # Size <=> (Under(x) \subseteq N \/ Under(y) \subseteq N)
          BY <1>6, <1>8, <2>3
        <5> QED BY <1>2, <1>4, <5>1 DEF y
      <4>2. Under(h) \subseteq N => \E w \in Under(h) : Loses(keys, t[h], w)
        <5> SUFFICES ASSUME Under(h) \subseteq N PROVE \E w \in Under(h) : Loses(keys, t[h], w)
          OBVIOUS
        <5>1. c # Size /\ t[h] # Size
          BY <2>3, <2>4
        <5>2. c \in Columns /\ c \in Under(h) /\ t[h] \in Columns /\ t[h] # c
          BY <1>10, <1>11, <5>1
        <5>3. Loses(keys, t[h], c)
          BY <2>1, <5>2, OneLoses
        <5> QED BY <5>2, <5>3
      <4> QED BY <3>1, <4>1, <4>2 DEF GoodNode
    <3>2. CASE i # h
      BY <1>3, <1>6, <2>6, <3>2
    <3> QED BY <3>1, <3>2
  <2>7. c # Size => c \in N /\ c \in Under(h)
    BY <1>11
  <2>8. ClimbInv(keys, tree, In, s, h, climb)
    <3>1. climb \in Climbs
      BY DEF ClimbInv
    <3> QED BY <1>6, <2>4, <2>5, <2>6, <2>7, <3>1 DEF ClimbInv, N, P, c, t
  <2> QED BY <2>2, <2>8
<1> QED BY <1>12, <1>13

\* At the root, the tree is as it shall be.
LEMMA ClimbEnd ==
    ASSUME SizeOk, NEW keys, NEW tree, NEW In, Resting(keys, tree, In),
           NEW s \in Columns, s \notin In, NEW climb, ClimbInv(keys, tree, In, s, 1, climb),
           NEW new, new = [climb.tree EXCEPT ![0] = climb.s]
    PROVE  /\ In \cup {s} = Columns => Complete(keys, new)
           /\ In \cup {s} # Columns => Resting(keys, new, In \cup {s})
<1> DEFINE N == In \cup {s}
           c == climb.s
           t == climb.tree
<1>1. /\ c \in 0..Size /\ t \in Trees /\ Size \in Nat /\ Size >= 2 /\ N \subseteq Columns
      /\ Held(t, N)
      /\ \A i \in Nodes : t[i] # Size => t[i] # c
      /\ \A d \in N : d = c \/ \E i \in Nodes : t[i] = d
      /\ \A i \in Nodes : i \notin Above(s + Size) => t[i] = tree[i]
      /\ c # Size => c \in N
      /\ c # Size <=> Under(1) \subseteq N
      /\ \A i \in Nodes : i \in Above(s + Size) /\ i >= 1 => GoodNode(keys, t, N, i)
  BY DEF ClimbInv, Climbs, Resting, SizeOk
<1>2. \A i \in Nodes : i >= 1 /\ i # 0
  BY <1>1 DEF Nodes
<1>3. new \in Trees /\ new[0] = c /\ \A i \in Nodes : new[i] = t[i]
  <2>1. 0 \in 0..Size /\ t \in [0..Size -> 0..Size] /\ c \in 0..Size /\ new = [t EXCEPT ![0] = c]
    <3>1. t \in [0..Size -> 0..Size] /\ c \in 0..Size /\ Size \in Nat
      <4>1. t \in Trees /\ c \in 0..Size /\ Size \in Nat
        BY <1>1
      <4> HIDE DEF t, c
      <4> QED BY <4>1 DEF Trees
    <3>2. 0 \in 0..Size
      BY <3>1
    <3>3. new = [t EXCEPT ![0] = c]
      OBVIOUS
    <3> QED BY <3>1, <3>3, <3>2
  <2>2. \A i \in Nodes : i \in 0..Size /\ i # 0
    BY <1>1, <1>2 DEF Nodes
  <2> HIDE DEF c, t
  <2>3. new \in [0..Size -> 0..Size] /\ new[0] = c /\ \A i \in 0..Size : i # 0 => new[i] = t[i]
    BY <2>1
  <2> QED BY <2>2, <2>3 DEF Trees
<1>4. c # Size <=> N = Columns
  BY <1>1, UnderRoot
<1>5. ASSUME NEW i \in Nodes PROVE GoodNode(keys, t, N, i)
  <2>1. CASE i \in Above(s + Size)
    BY <1>1, <1>2, <2>1
  <2>2. CASE i \notin Above(s + Size)
    <3>1. GoodNode(keys, tree, In, i) /\ t[i] = tree[i]
      BY <1>1, <2>2 DEF Resting
    <3>2. s \notin Under(i) /\ s \notin Under(2 * i) /\ s \notin Under(2 * i + 1)
      <4>1. s \notin Under(i)
        BY <2>2 DEF Under
      <4> QED BY <4>1, UnderNode
    <3> QED BY <3>1, <3>2 DEF GoodNode
  <2> QED BY <2>1, <2>2
<1> HIDE DEF N, c, t
<1>6. ASSUME N = Columns PROVE Complete(keys, new)
  <2>1. c \in Columns /\ c # Size
    BY <1>1, <1>4, <1>6
  <2>2. ASSUME NEW i \in Nodes
        PROVE  new[i] # Size /\ new[i] # new[0] /\ \E w \in Under(i) : Loses(keys, new[i], w)
    <3>1. Under(i) \subseteq N /\ Under(2 * i) \subseteq N
      BY <1>6 DEF Under
    <3>2. t[i] # Size /\ \E w \in Under(i) : Loses(keys, t[i], w)
      BY <1>5, <3>1 DEF GoodNode
    <3> QED BY <1>1, <1>3, <3>2
  <2>3. Held(new, Columns)
    BY <1>1, <1>3, <1>6 DEF Held
  <2>4. \A d \in Columns : d = new[0] \/ \E i \in Nodes : new[i] = d
    BY <1>1, <1>3, <1>6
  <2> QED BY <1>3, <2>1, <2>2, <2>3, <2>4 DEF Complete
<1>7. ASSUME N # Columns PROVE Resting(keys, new, N)
  <2>1. c = Size /\ Size \notin N
    BY <1>1, <1>4, <1>7, ColumnOk
  <2>2. Held(new, N)
    BY <1>1, <1>3 DEF Held
  <2>3. \A d \in N : \E i \in Nodes : new[i] = d
    BY <1>1, <1>3, <2>1
  <2>4. \A i \in Nodes : GoodNode(keys, new, N, i)
    BY <1>3, <1>5 DEF GoodNode
  <2> QED BY <1>1, <1>3, <2>2, <2>3, <2>4 DEF Resting
<1> QED BY <1>6, <1>7 DEF N

-----------------------------------------------------------------------------
\* The nodes that a channel meets are nodes of the tree.
LEMMA PathInTree ==
    ASSUME SizeOk, NEW s \in 0..Size
    PROVE  /\ IsPath(PathFrom[(s + Size) \div 2], (s + Size) \div 2)
           /\ PathFrom[(s + Size) \div 2] \in Seq(0..Size)
<1> DEFINE x == (s + Size) \div 2
           r == PathFrom[x]
<1>1. x \in Nat \ {0} /\ x <= Size /\ Size \in Nat
  BY DEF SizeOk
<1> HIDE DEF x
<1>2. IsPath(r, x)
  BY <1>1, PathOf
<1>3. r \in Seq(1..x) /\ 1..x \subseteq 0..Size
  BY <1>1, <1>2 DEF IsPath
<1> HIDE DEF r
<1>4. r \in Seq(0..Size)
  <2>1. ASSUME NEW k \in 1..Len(r) PROVE r[k] \in 0..Size
    BY <1>3, ElementOfSeq
  <2>2. Len(r) \in Nat /\ r = [k \in 1..Len(r) |-> r[k]]
    BY <1>3
  <2>3. r \in [1..Len(r) -> 0..Size]
    BY <2>1, <2>2
  <2> QED BY <2>2, <2>3, SeqDef
<1> QED BY <1>2, <1>4 DEF r, x

\* Adjust returns a tree.
LEMMA AdjustType ==
    ASSUME SizeOk, NEW keys, NEW tree \in Trees, NEW s \in 0..Size
    PROVE  Adjust(keys, tree, s) \in Trees
<1>1. PICK r : r = PathFrom[(s + Size) \div 2] /\ r \in Seq(0..Size) /\ Size \in Nat
  BY PathInTree DEF SizeOk
<1>2. PICK st : /\ ClimbStates(st, keys, tree, s, r)
                /\ Adjust(keys, tree, s) = Top(st[Len(r)])
  BY <1>1, AdjustSteps
<1>3. Len(r) \in 0..Len(r)
  BY <1>1
<1>4. st[Len(r)] \in Climbs
  BY <1>2, <1>3 DEF ClimbStates
<1> QED BY <1>1, <1>2, <1>4 DEF Climbs, Trees, Top

\* adjust_by_local_time puts one more channel into the tree.
LEMMA AdjustKeeps ==
    ASSUME SizeOk, NEW keys, KeysOk(keys), NEW tree, NEW In, Resting(keys, tree, In),
           NEW s \in Columns, s \notin In
    PROVE  /\ In \cup {s} = Columns => Complete(keys, Adjust(keys, tree, s))
           /\ In \cup {s} # Columns => Resting(keys, Adjust(keys, tree, s), In \cup {s})
<1> DEFINE x == (s + Size) \div 2
<1>1. /\ Size \in Nat /\ s \in 0..Size /\ tree \in Trees
      /\ s + Size \in Nat \ {0} /\ s + Size >= 2
      /\ IsPath(PathFrom[x], x) /\ PathFrom[x] \in Seq(0..Size)
  BY ColumnOk, PathInTree DEF SizeOk, Resting
<1>2. PICK r : r = PathFrom[x] /\ IsPath(r, x) /\ r \in Seq(0..Size)
  BY <1>1
<1>3. PICK st : /\ ClimbStates(st, keys, tree, s, r)
                /\ Adjust(keys, tree, s) = Top(st[Len(r)])
  BY <1>2, <1>1, AdjustSteps
<1> DEFINE At(k) == IF k = 0 THEN s + Size ELSE r[k]
<1> HIDE DEF x
<1>4. /\ Len(r) \in Nat /\ Len(r) >= 1 /\ r[1] = x /\ r[Len(r)] = 1
      /\ \A k \in 1..(Len(r) - 1) : r[k] >= 2 /\ r[k + 1] = r[k] \div 2
  BY <1>2 DEF IsPath
<1>5. ASSUME NEW k \in 1..Len(r) PROVE At(k - 1) >= 2 /\ At(k) = At(k - 1) \div 2 /\ At(k) = r[k]
  <2>1. CASE k = 1
    BY <1>1, <1>4, <2>1 DEF x
  <2>2. CASE k # 1
    <3>1. k - 1 \in 1..(Len(r) - 1) /\ (k - 1) + 1 = k /\ k - 1 # 0 /\ k # 0
      BY <1>4, <2>2
    <3>2. r[k - 1] >= 2 /\ r[k] = r[k - 1] \div 2
      BY <1>4, <3>1
    <3> QED BY <3>1, <3>2
  <2> QED BY <2>1, <2>2
<1> DEFINE Good(k) == At(k) \in Above(s + Size) /\ ClimbInv(keys, tree, In, s, At(k), st[k])
           Bad == {k \in Nat : k <= Len(r) /\ ~ Good(k)}
<1>6. Good(0)
  <2>1. At(0) = s + Size
    OBVIOUS
  <2>2. s + Size \in Above(s + Size)
    BY <1>1, AboveBounds
  <2>3. st[0] = [s |-> s, tree |-> tree]
    BY <1>3 DEF ClimbStates
  <2>4. ClimbInv(keys, tree, In, s, s + Size, [s |-> s, tree |-> tree])
    BY ClimbStart
  <2> HIDE DEF At
  <2> QED BY <2>1, <2>2, <2>3, <2>4
<1>7. ASSUME NEW k \in 1..Len(r), Good(k - 1) PROVE Good(k)
  <2> DEFINE y == At(k - 1)
             climb == st[k - 1]
  <2>1. y >= 2 /\ At(k) = y \div 2 /\ y \in Above(s + Size) /\ At(k) = r[k]
    BY <1>5, <1>7
  <2>2. ClimbInv(keys, tree, In, s, y, climb)
    BY <1>7
  <2>3. st[k] = Meets(keys, climb, y \div 2)
    <3>1. st[k] = Meets(keys, st[k - 1], r[k])
      BY <1>3 DEF ClimbStates
    <3> HIDE DEF At
    <3> QED BY <2>1, <3>1
  <2> HIDE DEF At, y, climb
  <2>4. ClimbInv(keys, tree, In, s, y \div 2, Meets(keys, climb, y \div 2))
    BY <2>1, <2>2, ClimbStep
  <2>5. y \div 2 \in Above(s + Size)
    <3>1. y \in Nat /\ y \div 2 \in Nat \ {0} /\ (y = 2 * (y \div 2) \/ y = 2 * (y \div 2) + 1)
      <4>1. y \in Nat
        BY <1>1, <2>1, AboveBounds
      <4> QED BY <2>1, <4>1
    <3>2. 2 * (y \div 2) \in Above(s + Size) \/ 2 * (y \div 2) + 1 \in Above(s + Size)
      BY <2>1, <3>1
    <3> QED BY <1>1, <3>1, <3>2, AboveChild
  <2> QED BY <2>1, <2>3, <2>4, <2>5
<1>8. Bad = {}
  <2> SUFFICES ASSUME Bad # {} PROVE FALSE
    OBVIOUS
  <2> HIDE DEF Good
  <2>1. PICK k \in Bad : \A j \in Bad : ~ (j < k)
    BY Least
  <2>2. k # 0
    BY <1>6, <2>1
  <2>3. k \in 1..Len(r) /\ k - 1 \in Nat /\ k - 1 <= Len(r) /\ k - 1 < k
    BY <1>4, <2>1, <2>2
  <2>4. Good(k - 1)
    BY <2>1, <2>3
  <2> QED BY <1>7, <2>1, <2>3, <2>4
<1>9. ClimbInv(keys, tree, In, s, 1, st[Len(r)])
  <2>1. Good(Len(r))
    <3> HIDE DEF Good
    <3> QED BY <1>4, <1>8
  <2>2. At(Len(r)) = 1
    BY <1>4
  <2> QED BY <2>1, <2>2
<1>10. Adjust(keys, tree, s) = [st[Len(r)].tree EXCEPT ![0] = st[Len(r)].s]
  BY <1>3 DEF Top
<1> QED BY <1>9, <1>10, ClimbEnd

\* init_loser_tree leaves a tree with every channel.
LEMMA BuildKeeps ==
    ASSUME SizeOk, NEW keys, KeysOk(keys)
    PROVE  Complete(keys, Built(keys))
<1>1. Size \in Nat /\ Size >= 2 /\ Columns = 0..(Size - 1)
  BY DEF SizeOk, Columns
<1>2. \A tree \in Trees : \A s \in 0..Size : Adjust(keys, tree, s) \in Trees
  BY AdjustType
<1>3. PICK st : TreeStates(st, keys) /\ Built(keys) = st[Size]
  BY <1>1, <1>2, BuildSteps
<1>4. /\ st[0] = [i \in 0..Size |-> Size]
      /\ \A k \in 1..Size : st[k] = Adjust(keys, st[k - 1], Size - k)
  BY <1>3 DEF TreeStates
<1> DEFINE In(k) == (Size - k)..(Size - 1)
           Good(k) == Resting(keys, st[k], In(k))
           Bad == {k \in Nat : k < Size /\ ~ Good(k)}
<1>5. In(0) = {} /\ In(Size) = Columns
  BY <1>1
<1>6. ASSUME NEW k \in 1..Size
      PROVE  /\ Size - k \in Columns /\ Size - k \notin In(k - 1)
             /\ In(k - 1) \cup {Size - k} = In(k) /\ (k # Size => In(k) # Columns)
  <2>1. Size - k \in Columns /\ Size - k \notin In(k - 1)
    BY <1>1
  <2>2. In(k - 1) \cup {Size - k} = In(k)
    BY <1>1
  <2>3. k # Size => 0 \in Columns /\ 0 \notin In(k)
    BY <1>1
  <2> QED BY <2>1, <2>2, <2>3
<1>7. Good(0)
  <2>1. st[0] \in Trees
    BY <1>1, <1>4 DEF Trees
  <2>2. ASSUME NEW i \in Nodes PROVE st[0][i] = Size /\ GoodNode(keys, st[0], {}, i)
    <3>1. /\ i \in Nat /\ 1 <= i /\ i < 2 * Size /\ i \in 0..Size
          /\ 2 * i \in Nat /\ 1 <= 2 * i /\ 2 * i < 2 * Size
          /\ 2 * i + 1 \in Nat /\ 1 <= 2 * i + 1 /\ 2 * i + 1 < 2 * Size
      BY <1>1 DEF Nodes
    <3>2. st[0][i] = Size
      BY <1>4, <3>1
    <3>3. Under(i) # {} /\ Under(2 * i) # {} /\ Under(2 * i + 1) # {}
      BY <3>1, UnderSome
    <3> QED BY <3>2, <3>3 DEF GoodNode
  <2>3. Held(st[0], {})
    BY <2>2 DEF Held
  <2> QED BY <1>5, <2>1, <2>2, <2>3 DEF Resting
<1> HIDE DEF In
<1>8. Bad = {}
  <2> SUFFICES ASSUME Bad # {} PROVE FALSE
    OBVIOUS
  <2>1. PICK k \in Bad : \A j \in Bad : ~ (j < k)
    BY Least
  <2>2. k # 0
    BY <1>7, <2>1
  <2>3. k \in 1..Size /\ k # Size /\ k - 1 \in Nat /\ k - 1 < Size /\ k - 1 < k
    BY <1>1, <2>1, <2>2
  <2>4. Resting(keys, st[k - 1], In(k - 1))
    BY <2>1, <2>3
  <2>5. Resting(keys, Adjust(keys, st[k - 1], Size - k), In(k - 1) \cup {Size - k})
    BY <1>6, <2>3, <2>4, AdjustKeeps
  <2>6. Good(k)
    BY <1>4, <1>6, <2>3, <2>5
  <2> QED BY <2>1, <2>6
<1>9. Size - 1 \in Nat /\ Size - 1 < Size /\ Size \in 1..Size
  BY <1>1
<1>10. Resting(keys, st[Size - 1], In(Size - 1))
  BY <1>8, <1>9
<1>11. Complete(keys, Adjust(keys, st[Size - 1], Size - Size))
  BY <1>5, <1>6, <1>9, <1>10, AdjustKeeps
<1> QED BY <1>3, <1>4, <1>9, <1>11

\* The champion has a new key: without it, the tree is at rest.
LEMMA ChampionLeaves ==
    ASSUME SizeOk, NEW keys, NEW tree, Complete(keys, tree), NEW new,
           \A c \in Columns : c # tree[0] => new[c] = keys[c]
    PROVE  Resting(new, tree, Columns \ {tree[0]})
<1> DEFINE In == Columns \ {tree[0]}
<1>1. /\ tree \in Trees /\ tree[0] \in Columns /\ Held(tree, Columns)
      /\ \A i \in Nodes : tree[i] # Size /\ tree[i] # tree[0] /\ tree[i] \in Columns
      /\ \A c \in Columns : c = tree[0] \/ \E i \in Nodes : tree[i] = c
      /\ \A i \in Nodes : \E w \in Under(i) : Loses(keys, tree[i], w)
  BY DEF Complete, Held
<1>2. Held(tree, In) /\ \A c \in In : \E i \in Nodes : tree[i] = c
  BY <1>1 DEF Held
<1>3. ASSUME NEW i \in Nodes PROVE GoodNode(new, tree, In, i)
  <2>1. Under(2 * i) \subseteq In \/ Under(2 * i + 1) \subseteq In
    <3>1. Under(2 * i) \cap Under(2 * i + 1) = {}
      BY UnderNode
    <3>2. Under(2 * i) \subseteq Columns /\ Under(2 * i + 1) \subseteq Columns
      BY DEF Under
    <3> QED BY <3>1, <3>2
  <2>2. ASSUME Under(i) \subseteq In PROVE \E w \in Under(i) : Loses(new, tree[i], w)
    <3>1. PICK w \in Under(i) : Loses(keys, tree[i], w)
      BY <1>1
    <3>2. w \in Columns /\ w # tree[0]
      BY <2>2
    <3>3. new[w] = keys[w] /\ new[tree[i]] = keys[tree[i]]
      BY <1>1, <3>2
    <3>4. Loses(new, tree[i], w)
      BY <3>1, <3>3 DEF Loses
    <3> QED BY <3>4
  <2> QED BY <1>1, <2>1, <2>2 DEF GoodNode
<1> QED BY <1>1, <1>2, <1>3 DEF Resting

\* pop_tick: the champion plays again with the key of its next record.
LEMMA PlayKeeps ==
    ASSUME SizeOk, NEW keys, NEW tree, Complete(keys, tree), NEW new, KeysOk(new),
           \A c \in Columns : c # tree[0] => new[c] = keys[c]
    PROVE  Complete(new, Adjust(new, tree, tree[0]))
<1>1. Resting(new, tree, Columns \ {tree[0]})
  BY ChampionLeaves
<1>2. tree[0] \in Columns
  BY DEF Complete
<1>3. tree[0] \notin Columns \ {tree[0]} /\ (Columns \ {tree[0]}) \cup {tree[0]} = Columns
  BY <1>2
<1> QED BY <1>1, <1>2, <1>3, AdjustKeeps

\* The champion loses against no other channel.
LEMMA ChampionLeast ==
    ASSUME SizeOk, NEW keys, KeysOk(keys), NEW tree, Complete(keys, tree), NEW c \in Columns
    PROVE  ~ Loses(keys, tree[0], c)
<1>1. PICK w \in Columns : \A d \in Columns : ~ Loses(keys, w, d)
  BY WinnerExists
<1>2. \A i \in Nodes : tree[i] # w
  <2> SUFFICES ASSUME NEW i \in Nodes, tree[i] = w PROVE FALSE
    OBVIOUS
  <2>1. PICK d \in Under(i) : Loses(keys, tree[i], d)
    BY DEF Complete
  <2>2. d \in Columns
    BY DEF Under
  <2> QED BY <1>1, <2>1, <2>2
<1>3. w = tree[0]
  BY <1>2 DEF Complete
<1> QED BY <1>1, <1>3

-----------------------------------------------------------------------------
\* The counts of the model, for any list of records.
TakenOf(d, c, n) == Cardinality({i \in 1..n : d[i].col = c})
HeadsOf(d, n) ==
    {[col |-> c, row |-> TakenOf(d, c, n) + 1] :
        c \in {c \in Columns : TakenOf(d, c, n) < Len(channels[c])}}
LeastAt(d, n) ==
    d[n] \in HeadsOf(d, n - 1) /\ \A head \in HeadsOf(d, n - 1) : ~ Before(head, d[n])

\* Appending a record adds one to what its channel has delivered, and nothing else.
LEMMA TakenAppend ==
    ASSUME NEW S, NEW d \in Seq(S), NEW e, NEW c, NEW n \in 0..Len(d)
    PROVE  /\ TakenOf(d, c, n) \in Nat
           /\ TakenOf(Append(d, e), c, n) = TakenOf(d, c, n)
           /\ TakenOf(Append(d, e), c, Len(d) + 1) =
                  TakenOf(d, c, Len(d)) + (IF e.col = c THEN 1 ELSE 0)
<1> DEFINE new == Append(d, e)
           A(m) == {i \in 1..m : d[i].col = c}
           B(m) == {i \in 1..m : new[i].col = c}
<1>1. Len(d) \in Nat /\ new[Len(d) + 1] = e /\ \A i \in 1..Len(d) : new[i] = d[i]
  BY AppendProperties
<1>2. \A m \in 0..Len(d) : IsFiniteSet(A(m)) /\ Cardinality(A(m)) \in Nat
  <2> SUFFICES ASSUME NEW m \in 0..Len(d) PROVE IsFiniteSet(A(m)) /\ Cardinality(A(m)) \in Nat
    OBVIOUS
  <2>1. m \in Nat /\ m \in Int /\ 1 \in Int
    BY <1>1
  <2>2. IsFiniteSet(1..m)
    BY <2>1, FS_Interval
  <2>3. A(m) \subseteq 1..m
    OBVIOUS
  <2> QED BY <2>2, <2>3, FS_Subset, FS_CardinalityType
<1>3. \A m \in 0..Len(d) : B(m) = A(m)
  BY <1>1
<1>4. B(Len(d) + 1) = IF e.col = c THEN A(Len(d)) \cup {Len(d) + 1} ELSE A(Len(d))
  <2>1. 1..(Len(d) + 1) = (1..Len(d)) \cup {Len(d) + 1}
    BY <1>1
  <2> QED BY <1>1, <2>1
<1>5. Len(d) + 1 \notin A(Len(d)) /\ Len(d) \in 0..Len(d)
  BY <1>1
<1> HIDE DEF A, B
<1>6. Cardinality(B(Len(d) + 1)) = Cardinality(A(Len(d))) + (IF e.col = c THEN 1 ELSE 0)
  <2>1. IsFiniteSet(A(Len(d))) /\ Cardinality(A(Len(d))) \in Nat
    BY <1>2, <1>5
  <2>2. Cardinality(A(Len(d)) \cup {Len(d) + 1}) = Cardinality(A(Len(d))) + 1
    BY <1>5, <2>1, FS_AddElement
  <2> QED BY <1>4, <2>1, <2>2
<1> QED BY <1>2, <1>3, <1>5, <1>6 DEF TakenOf, A, B

\* Records delivered earlier are judged as they were.
LEMMA LeastAppend ==
    ASSUME NEW S, NEW d \in Seq(S), NEW e, NEW n \in 1..Len(d), LeastAt(d, n)
    PROVE  LeastAt(Append(d, e), n)
<1>1. n - 1 \in 0..Len(d) /\ Append(d, e)[n] = d[n]
  BY AppendProperties
<1>2. \A c : TakenOf(Append(d, e), c, n - 1) = TakenOf(d, c, n - 1)
  BY <1>1, TakenAppend
<1>3. HeadsOf(Append(d, e), n - 1) = HeadsOf(d, n - 1)
  BY <1>2 DEF HeadsOf
<1> QED BY <1>1, <1>3 DEF LeastAt

-----------------------------------------------------------------------------
ChannelsOk ==
    /\ SizeOk /\ DOMAIN channels = Columns
    /\ \A c \in Columns : channels[c] \in Seq(RecordSet) /\ Len(channels[c]) >= 1
Deliveries == [col : Columns, row : Nat]

\* The key of channel c, when those of d have been delivered.
KeyAfter(d, c) ==
    IF TakenOf(d, c, Len(d)) < Len(channels[c]) THEN Tick(c, TakenOf(d, c, Len(d)) + 1)
    ELSE FillTick
QueueOk(keys, d) ==
    /\ keys = [i \in 0..Size |-> keys[i]]
    /\ keys[Size] = Sentinel
    /\ \A c \in Columns : keys[c] = KeyAfter(d, c)

(* The inductive invariant: the queue has the first record of each channel   *)
(* that has not been delivered, and the tree is complete for these keys.     *)
MergeInv ==
    /\ ChannelsOk
    /\ delivered \in Seq(Deliveries)
    /\ \A n \in 1..Len(delivered) : LeastAt(delivered, n)
    /\ l = <<>> => delivered = <<>>
    /\ l # <<>> => QueueOk(q, delivered) /\ Complete(q, l)

\* The key of a record: its times are those of the record, below Infinite.
LEMMA TickType ==
    ASSUME ChannelsOk, NEW c \in Columns, NEW row \in 1..Len(channels[c])
    PROVE  /\ channels[c][row].local \in Nat /\ channels[c][row].exch \in Nat
           /\ Tick(c, row).local = channels[c][row].local + (IF c % 3 = 1 THEN 1 ELSE 0) + 1
           /\ Tick(c, row).exch = channels[c][row].exch + 1
           /\ Tick(c, row).local \in Nat \ {0} /\ Tick(c, row).exch \in Nat
           /\ Tick(c, row).local < Infinite
           /\ Tick(c, row).col = c /\ Tick(c, row).row = row /\ Tick(c, row).col # NoColumn
<1>1. channels[c] \in Seq(RecordSet)
  BY DEF ChannelsOk
<1>2. channels[c][row] \in RecordSet
  BY <1>1, ElementOfSeq
<1>3. MaxLocal \in Nat /\ MaxExch \in Nat /\ c \in Nat
  BY MergeAssumption, ColumnOk DEF ChannelsOk
<1>4. channels[c][row].local \in 0..MaxLocal /\ channels[c][row].exch \in 0..MaxExch
  BY <1>2 DEF RecordSet
<1>5. /\ Tick(c, row).local = channels[c][row].local + (IF c % 3 = 1 THEN 1 ELSE 0) + 1
      /\ Tick(c, row).exch = channels[c][row].exch + 1
      /\ Tick(c, row).col = c /\ Tick(c, row).row = row
  BY DEF Tick, IsTrade
<1> DEFINE t == IF c % 3 = 1 THEN 1 ELSE 0
<1>6. t \in 0..1 /\ Tick(c, row).local = channels[c][row].local + t + 1
  BY <1>5
<1> HIDE DEF t
<1>7. /\ Tick(c, row).local \in Nat \ {0} /\ Tick(c, row).exch \in Nat
      /\ Tick(c, row).local < Infinite
  <2>1. PICK a, b, u, v : /\ a = channels[c][row].local /\ b = channels[c][row].exch
                          /\ u = Tick(c, row).local /\ v = Tick(c, row).exch
    OBVIOUS
  <2>2. a \in 0..MaxLocal /\ b \in 0..MaxExch /\ u = a + t + 1 /\ v = b + 1
    BY <1>4, <1>5, <1>6, <2>1
  <2>3. Infinite = MaxLocal + MaxExch + 4
    BY DEF Infinite
  <2>4. u \in Nat \ {0} /\ v \in Nat /\ u < Infinite
    BY <1>3, <1>6, <2>2, <2>3
  <2> QED BY <2>1, <2>4
<1>8. Tick(c, row).col # NoColumn
  BY <1>3, <1>5 DEF NoColumn
<1>9. channels[c][row].local \in Nat /\ channels[c][row].exch \in Nat
  BY <1>4
<1> QED BY <1>5, <1>7, <1>8, <1>9

\* A channel that is exhausted has a key above every record's.
LEMMA KeyType ==
    ASSUME ChannelsOk, NEW d \in Seq(Deliveries), NEW c \in Columns
    PROVE  /\ TakenOf(d, c, Len(d)) \in Nat /\ Len(channels[c]) \in Nat
           /\ KeyAfter(d, c).local \in Nat \ {0} /\ KeyAfter(d, c).exch \in Nat
           /\ TakenOf(d, c, Len(d)) < Len(channels[c]) =>
                 /\ KeyAfter(d, c) = Tick(c, TakenOf(d, c, Len(d)) + 1)
                 /\ KeyAfter(d, c).local < Infinite /\ KeyAfter(d, c).col = c
                 /\ TakenOf(d, c, Len(d)) + 1 \in 1..Len(channels[c])
           /\ ~ (TakenOf(d, c, Len(d)) < Len(channels[c])) =>
                 KeyAfter(d, c).local = Infinite /\ KeyAfter(d, c).col = NoColumn
<1>1. Len(d) \in 0..Len(d) /\ Len(channels[c]) \in Nat
  BY DEF ChannelsOk
<1>2. TakenOf(d, c, Len(d)) \in Nat
  BY <1>1, TakenAppend
<1>3. CASE TakenOf(d, c, Len(d)) < Len(channels[c])
  <2> DEFINE row == TakenOf(d, c, Len(d)) + 1
  <2>1. row \in 1..Len(channels[c]) /\ KeyAfter(d, c) = Tick(c, row)
    BY <1>1, <1>2, <1>3 DEF KeyAfter
  <2> HIDE DEF row
  <2>2. /\ Tick(c, row).local \in Nat \ {0} /\ Tick(c, row).exch \in Nat
        /\ Tick(c, row).local < Infinite /\ Tick(c, row).col = c
    BY <2>1, TickType
  <2> QED BY <1>1, <1>2, <1>3, <2>1, <2>2 DEF row
<1>4. CASE ~ (TakenOf(d, c, Len(d)) < Len(channels[c]))
  <2>1. KeyAfter(d, c) = FillTick
    BY <1>4 DEF KeyAfter
  <2>2. MaxLocal \in Nat /\ MaxExch \in Nat
    BY MergeAssumption
  <2> QED BY <1>1, <1>2, <1>4, <2>1, <2>2 DEF FillTick, Infinite
<1> QED BY <1>3, <1>4

\* The keys of a queue are above the sentinel.
LEMMA QueueKeys ==
    ASSUME ChannelsOk, NEW d \in Seq(Deliveries), NEW keys, QueueOk(keys, d)
    PROVE  KeysOk(keys)
<1>1. \A c \in Columns : keys[c] = KeyAfter(d, c)
  BY DEF QueueOk
<1>2. \A c \in Columns : keys[c].local \in Nat \ {0} /\ keys[c].exch \in Nat
  BY <1>1, KeyType
<1> QED BY <1>2 DEF KeysOk, QueueOk, Sentinel

\* Before is the order of the keys.
LEMMA BeforeIsLoses ==
    ASSUME ChannelsOk, NEW keys, NEW c \in Columns, NEW d \in Columns,
           NEW n \in 1..Len(channels[c]), NEW m \in 1..Len(channels[d]),
           keys[c] = Tick(c, n), keys[d] = Tick(d, m),
           Before([col |-> d, row |-> m], [col |-> c, row |-> n])
    PROVE  Loses(keys, c, d)
<1>1. /\ channels[c][n].local \in Nat /\ channels[c][n].exch \in Nat
      /\ keys[c].local = channels[c][n].local + (IF c % 3 = 1 THEN 1 ELSE 0) + 1
      /\ keys[c].exch = channels[c][n].exch + 1
  BY TickType
<1>2. /\ channels[d][m].local \in Nat /\ channels[d][m].exch \in Nat
      /\ keys[d].local = channels[d][m].local + (IF d % 3 = 1 THEN 1 ELSE 0) + 1
      /\ keys[d].exch = channels[d][m].exch + 1
  BY TickType
<1>3. c \in Nat /\ d \in Nat
  BY ColumnOk DEF ChannelsOk
<1> DEFINE uc == IF c % 3 = 1 THEN 1 ELSE 0
           ud == IF d % 3 = 1 THEN 1 ELSE 0
           tc == channels[c][n].local + uc
           td == channels[d][m].local + ud
           xc == channels[c][n].exch
           xd == channels[d][m].exch
<1>4. td < tc \/ (td = tc /\ xd < xc) \/ (td = tc /\ xd = xc /\ d < c)
  BY DEF Before
<1>5. uc \in 0..1 /\ ud \in 0..1 /\ keys[c].local = tc + 1 /\ keys[d].local = td + 1
  BY <1>1, <1>2
<1> HIDE DEF uc, ud
<1>6. tc \in Nat /\ td \in Nat /\ xc \in Nat /\ xd \in Nat
      /\ keys[c].exch = xc + 1 /\ keys[d].exch = xd + 1
  <2>1. xc \in Nat /\ xd \in Nat /\ keys[c].exch = xc + 1 /\ keys[d].exch = xd + 1
    BY <1>1, <1>2
  <2>2. channels[c][n].local \in Nat /\ channels[d][m].local \in Nat
    BY <1>1, <1>2
  <2>3. tc \in Nat /\ td \in Nat
    <3>1. uc \in 0..1 /\ ud \in 0..1
      BY <1>5
    <3>2. \A a \in Nat, b \in 0..1 : a + b \in Nat
      OBVIOUS
    <3> QED BY <2>2, <3>1, <3>2
  <2> QED BY <2>1, <2>3
<1> HIDE DEF tc, td, xc, xd
<1>7. /\ td < tc => tc + 1 > td + 1
      /\ xd < xc => xc + 1 > xd + 1
      /\ d < c => c > d
  BY <1>3, <1>6
<1>8. td = tc => tc + 1 = td + 1
  OBVIOUS
<1>9. xd = xc => xc + 1 = xd + 1
  OBVIOUS
<1> QED BY <1>4, <1>5, <1>6, <1>7, <1>8, <1>9 DEF Loses

-----------------------------------------------------------------------------
\* The records are dealt out to at least three channels, none of them empty.
LEMMA InitChannels ==
    ASSUME InitMerge
    PROVE  ChannelsOk
<1>1. PICK assets \in 1..MaxAssets : \E length \in Lengths(3 * assets) :
         \E records \in [{at \in (DOMAIN length) \X (1..MaxRecords) : at[2] <= length[at[1]]} -> RecordSet] :
            channels = [c \in DOMAIN length |-> [row \in 1..length[c] |-> records[<<c, row>>]]]
  BY DEF InitMerge
<1> DEFINE n == 3 * assets
<1>2. assets \in Nat /\ n \in Nat /\ n >= 3
  BY MergeAssumption
<1>3. PICK length \in Lengths(n) :
         \E records \in [{at \in (DOMAIN length) \X (1..MaxRecords) : at[2] <= length[at[1]]} -> RecordSet] :
            channels = [c \in DOMAIN length |-> [row \in 1..length[c] |-> records[<<c, row>>]]]
  BY <1>1
<1> HIDE DEF n
<1>4. length \in [0..(n - 1) -> 1..(MaxRecords + 1 - n)]
  BY DEF Lengths
<1>5. PICK records \in [{at \in (DOMAIN length) \X (1..MaxRecords) : at[2] <= length[at[1]]} -> RecordSet] :
         channels = [c \in DOMAIN length |-> [row \in 1..length[c] |-> records[<<c, row>>]]]
  BY <1>3
<1>6. DOMAIN channels = 0..(n - 1)
  BY <1>4, <1>5
<1>7. Size = n
  <2>1. 0 \in Int /\ n - 1 \in Int /\ 0 <= n - 1
    BY <1>2
  <2>2. Cardinality(0..(n - 1)) = ((n - 1) - 0) + 1
    <3>1. Cardinality(0..(n - 1)) = IF 0 > n - 1 THEN 0 ELSE ((n - 1) - 0) + 1
      BY <2>1, FS_Interval
    <3> QED BY <1>2, <3>1
  <2> QED BY <1>2, <1>6, <2>2 DEF Size
<1>8. ASSUME NEW c \in 0..(n - 1)
      PROVE  channels[c] \in Seq(RecordSet) /\ Len(channels[c]) >= 1
  <2> DEFINE k == length[c]
  <2>1. k \in Nat /\ k >= 1 /\ k <= MaxRecords
    BY <1>2, <1>4, MergeAssumption
  <2>2. channels[c] = [row \in 1..k |-> records[<<c, row>>]]
    BY <1>4, <1>5
  <2>3. \A row \in 1..k : records[<<c, row>>] \in RecordSet
    <3> SUFFICES ASSUME NEW row \in 1..k PROVE records[<<c, row>>] \in RecordSet
      OBVIOUS
    <3>1. c \in DOMAIN length /\ row \in 1..MaxRecords /\ row <= length[c]
      BY <1>4, <2>1, MergeAssumption
    <3>2. <<c, row>> \in {at \in (DOMAIN length) \X (1..MaxRecords) : at[2] <= length[at[1]]}
      BY <3>1
    <3> QED BY <3>2
  <2> HIDE DEF k
  <2>4. channels[c] \in [1..k -> RecordSet]
    BY <2>2, <2>3
  <2>5. channels[c] \in Seq(RecordSet)
    BY <2>1, <2>4, SeqDef
  <2>6. Len(channels[c]) = k
    BY <2>1, <2>4, <2>5
  <2> QED BY <2>1, <2>5, <2>6
<1> QED BY <1>2, <1>6, <1>7, <1>8 DEF ChannelsOk, SizeOk, Columns

\* The merge starts in the inductive invariant.
LEMMA InitMergeInv == InitMerge => MergeInv
<1> SUFFICES ASSUME InitMerge PROVE MergeInv
  OBVIOUS
<1>1. delivered = <<>> /\ l = <<>>
  BY DEF InitMerge
<1> QED BY <1>1, InitChannels DEF MergeInv

\* The channels do not change, nor what is said of them.
LEMMA ChannelsStay ==
    ASSUME channels' = channels
    PROVE  /\ Size' = Size /\ Columns' = Columns /\ (ChannelsOk => ChannelsOk')
           /\ Deliveries' = Deliveries
BY DEF Size, Columns, ChannelsOk, SizeOk, Deliveries

\* What was delivered stays the least while the channels do not change.
LEMMA LeastStays ==
    ASSUME channels' = channels, NEW n, LeastAt(delivered', n)
    PROVE  LeastAt(delivered, n)'
<1>1. Columns' = Columns
  BY ChannelsStay
<1> QED BY <1>1 DEF LeastAt, HeadsOf, TakenOf, Before

\* The keys are those of the next records, read in the next state.
LEMMA QueueStays ==
    ASSUME channels' = channels, QueueOk(q', delivered')
    PROVE  QueueOk(q, delivered)'
<1>1. Columns' = Columns /\ Size' = Size
  BY ChannelsStay
<1> QED BY <1>1 DEF QueueOk, KeyAfter, TakenOf, Tick

\* The tree is complete, read in the next state.
LEMMA CompleteStays ==
    ASSUME channels' = channels, Complete(q', l')
    PROVE  Complete(q, l)'
<1>1. Columns' = Columns /\ Size' = Size
  BY ChannelsStay
<1> QED BY <1>1 DEF Complete, Held, Trees, Nodes, Under, Loses

\* Building the tree keeps the invariant: every channel is in it, once.
LEMMA LoadKeeps ==
    ASSUME MergeInv, LoadQuotes
    PROVE  MergeInv'
<1>1. /\ ChannelsOk /\ SizeOk /\ Size \in Nat /\ l = <<>> /\ delivered = <<>>
      /\ q' = [i \in 0..Size |-> IF i = Size THEN Sentinel ELSE Tick(i, 1)]
      /\ l' = Built(q') /\ channels' = channels /\ delivered' = <<>>
  BY DEF MergeInv, LoadQuotes, ChannelsOk, SizeOk
<1>2. PICK keys : keys = q'
  OBVIOUS
<1>3. QueueOk(keys, <<>>)
  <2>1. keys = [i \in 0..Size |-> keys[i]] /\ keys[Size] = Sentinel
    BY <1>1, <1>2
  <2>2. ASSUME NEW c \in Columns PROVE keys[c] = KeyAfter(<<>>, c)
    <3>1. c \in 0..Size /\ c # Size /\ Len(channels[c]) >= 1 /\ Len(channels[c]) \in Nat
      BY <1>1, ColumnOk DEF ChannelsOk
    <3>2. TakenOf(<<>>, c, Len(<<>>)) = 0
      <4>1. {i \in 1..0 : <<>>[i].col = c} = {} /\ Len(<<>>) = 0
        OBVIOUS
      <4> QED BY <4>1, FS_EmptySet DEF TakenOf
    <3>3. keys[c] = Tick(c, 1)
      BY <1>1, <1>2, <3>1
    <3> QED BY <3>1, <3>2, <3>3 DEF KeyAfter
  <2> QED BY <2>1, <2>2 DEF QueueOk
<1>4. <<>> \in Seq(Deliveries)
  OBVIOUS
<1>5. KeysOk(keys)
  BY <1>1, <1>3, <1>4, QueueKeys
<1>6. Complete(keys, Built(keys))
  BY <1>1, <1>5, BuildKeeps
<1>7. QueueOk(q, delivered)' /\ Complete(q, l)'
  <2>1. QueueOk(q', delivered')
    BY <1>1, <1>2, <1>3
  <2>2. Complete(q', l')
    BY <1>1, <1>2, <1>6
  <2> QED BY <1>1, <2>1, <2>2, QueueStays, CompleteStays
<1> QED BY <1>1, <1>4, <1>7, ChannelsStay DEF MergeInv

\* Taking the champion keeps the invariant: it was a least head, its channel climbs
\* again with its next key, and the tree is complete again.
LEMMA PopKeeps ==
    ASSUME MergeInv, PopTick
    PROVE  MergeInv'
<1> DEFINE c0 == l[0]
           d == delivered
           T(c) == TakenOf(d, c, Len(d))
           e == [col |-> c0, row |-> T(c0) + 1]
<1>1. /\ ChannelsOk /\ SizeOk /\ Size \in Nat /\ l # <<>> /\ d \in Seq(Deliveries)
      /\ QueueOk(q, d) /\ Complete(q, l) /\ channels' = channels
      /\ \A n \in 1..Len(d) : LeastAt(d, n)
      /\ Champion.col # NoColumn
      /\ delivered' = Append(d, [col |-> Champion.col, row |-> Champion.row])
      /\ q' = [q EXCEPT ![Champion.col] = Refill(Champion)]
      /\ l' = Adjust(q', l, Champion.col)
  BY DEF MergeInv, PopTick, ChannelsOk, SizeOk
<1>2. c0 \in Columns /\ c0 \in 0..Size /\ c0 # Size
  BY <1>1, ColumnOk DEF Complete
<1> HIDE DEF c0, d
<1>3. Champion = KeyAfter(d, c0)
  BY <1>1, <1>2 DEF Champion, QueueOk, c0
<1>4. T(c0) < Len(channels[c0])
  BY <1>1, <1>2, <1>3, KeyType
<1>5. /\ T(c0) \in Nat /\ Len(channels[c0]) \in Nat /\ T(c0) + 1 \in 1..Len(channels[c0])
      /\ Champion = Tick(c0, T(c0) + 1)
  BY <1>1, <1>2, <1>3, <1>4, KeyType
<1>6. Champion.col = c0 /\ Champion.row = T(c0) + 1
  BY <1>5 DEF Tick
<1>7. e \in Deliveries /\ delivered' = Append(d, e)
  BY <1>1, <1>2, <1>5, <1>6 DEF Deliveries
<1> DEFINE new == Append(d, e)
<1>8. new \in Seq(Deliveries) /\ Len(new) = Len(d) + 1 /\ Len(d) \in Nat /\ new[Len(d) + 1] = e
      /\ Len(d) \in 0..Len(d)
  BY <1>1, <1>7, AppendProperties
<1>9. PICK keys : keys = q'
  OBVIOUS
<1>10. \A c \in Columns : TakenOf(new, c, Len(new)) = T(c) + (IF c = c0 THEN 1 ELSE 0)
  <2> SUFFICES ASSUME NEW c \in Columns
               PROVE  TakenOf(new, c, Len(new)) = T(c) + (IF c = c0 THEN 1 ELSE 0)
    OBVIOUS
  <2>1. TakenOf(new, c, Len(d) + 1) = T(c) + (IF e.col = c THEN 1 ELSE 0)
    BY <1>1, <1>8, TakenAppend
  <2>2. e.col = c0
    OBVIOUS
  <2> QED BY <1>8, <2>1, <2>2
<1> HIDE DEF e, new
<1>11. QueueOk(keys, new)
  <2>1. q = [i \in 0..Size |-> q[i]] /\ q[Size] = Sentinel /\ \A c \in Columns : q[c] = KeyAfter(d, c)
    BY <1>1 DEF QueueOk
  <2>2. keys = [q EXCEPT ![c0] = Refill(Champion)]
    BY <1>1, <1>6, <1>9
  <2>3. /\ keys = [i \in 0..Size |-> keys[i]] /\ keys[c0] = Refill(Champion)
        /\ \A i \in 0..Size : i # c0 => keys[i] = q[i]
    BY <1>2, <2>1, <2>2
  <2>4. keys[Size] = Sentinel
    BY <1>1, <1>2, <2>1, <2>3
  <2>5. ASSUME NEW c \in Columns PROVE keys[c] = KeyAfter(new, c)
    <3>1. CASE c # c0
      <4>1. keys[c] = KeyAfter(d, c)
        BY <1>1, <2>1, <2>3, <3>1, ColumnOk
      <4>2. TakenOf(new, c, Len(new)) = T(c)
        <5>1. T(c) \in Nat
          BY <1>1, KeyType
        <5> QED BY <1>10, <3>1, <5>1
      <4> QED BY <4>1, <4>2 DEF KeyAfter
    <3>2. CASE c = c0
      <4>1. TakenOf(new, c0, Len(new)) = T(c0) + 1
        BY <1>2, <1>10
      <4>2. Refill(Champion) = IF T(c0) + 1 < Len(channels[c0]) THEN Tick(c0, (T(c0) + 1) + 1) ELSE FillTick
        BY <1>6 DEF Refill
      <4> QED BY <2>3, <3>2, <4>1, <4>2 DEF KeyAfter
    <3> QED BY <3>1, <3>2
  <2> QED BY <2>3, <2>4, <2>5 DEF QueueOk
<1>12. KeysOk(keys) /\ KeysOk(q)
  BY <1>1, <1>8, <1>11, QueueKeys
<1>13. Complete(keys, Adjust(keys, l, c0))
  <2>1. \A c \in Columns : c # c0 => keys[c] = q[c]
    BY <1>1, <1>2, <1>6, <1>9, ColumnOk DEF QueueOk
  <2>2. Complete(keys, Adjust(keys, l, l[0]))
    BY <1>1, <1>12, <2>1, PlayKeeps DEF c0
  <2> QED BY <2>2 DEF c0
<1>14. LeastAt(new, Len(d) + 1)
  <2>1. \A c : TakenOf(new, c, Len(d)) = T(c)
    BY <1>1, <1>8, TakenAppend DEF new
  <2>2. HeadsOf(new, Len(d)) = HeadsOf(d, Len(d))
    BY <2>1 DEF HeadsOf
  <2>3. e \in HeadsOf(d, Len(d))
    BY <1>2, <1>4 DEF HeadsOf, e
  <2>4. ASSUME NEW head \in HeadsOf(d, Len(d)), Before(head, e) PROVE FALSE
    <3>1. PICK c \in Columns : T(c) < Len(channels[c]) /\ head = [col |-> c, row |-> T(c) + 1]
      BY DEF HeadsOf
    <3>2. q[c] = Tick(c, T(c) + 1) /\ T(c) + 1 \in 1..Len(channels[c])
      BY <1>1, <3>1, KeyType DEF QueueOk
    <3>3. q[c0] = Tick(c0, T(c0) + 1)
      BY <1>5 DEF Champion, c0
    <3>4. Loses(q, c0, c)
      <4> HIDE DEF T
      <4> QED BY <1>1, <1>2, <1>5, <2>4, <3>1, <3>2, <3>3, BeforeIsLoses DEF e
    <3> QED BY <1>1, <1>12, <3>4, ChampionLeast DEF c0
  <2>5. (Len(d) + 1) - 1 = Len(d)
    BY <1>8
  <2> QED BY <1>8, <2>2, <2>3, <2>4, <2>5 DEF LeastAt
<1>15. \A n \in 1..Len(new) : LeastAt(new, n)
  <2> SUFFICES ASSUME NEW n \in 1..Len(new) PROVE LeastAt(new, n)
    OBVIOUS
  <2>1. CASE n = Len(d) + 1
    BY <1>14, <2>1
  <2>2. CASE n # Len(d) + 1
    <3>1. n \in 1..Len(d)
      BY <1>8, <2>2
    <3> QED BY <1>1, <3>1, LeastAppend DEF new
  <2> QED BY <2>1, <2>2
<1>16. delivered' = new /\ l' = Adjust(q', l, c0)
  BY <1>1, <1>6, <1>7 DEF new
<1>17. QueueOk(q, delivered)' /\ Complete(q, l)'
  <2>1. QueueOk(q', delivered')
    BY <1>9, <1>11, <1>16
  <2>2. Complete(q', l')
    BY <1>9, <1>13, <1>16
  <2> QED BY <1>1, <2>1, <2>2, QueueStays, CompleteStays
<1>18. \A n \in 1..Len(delivered') : LeastAt(delivered, n)'
  <2> SUFFICES ASSUME NEW n \in 1..Len(delivered') PROVE LeastAt(delivered, n)'
    OBVIOUS
  <2>1. LeastAt(delivered', n)
    BY <1>15, <1>16
  <2> QED BY <1>1, <2>1, LeastStays
<1>19. l' # <<>>
  <2>1. DOMAIN l' = 0..Size
    BY <1>13, <1>9, <1>16 DEF Complete, Trees
  <2>2. 0 \in 0..Size /\ DOMAIN <<>> = {}
    BY <1>1
  <2> QED BY <2>1, <2>2
<1>20. delivered' \in Seq(Deliveries')
  BY <1>1, <1>8, <1>16, ChannelsStay
<1> QED BY <1>1, <1>17, <1>18, <1>19, <1>20, ChannelsStay DEF MergeInv

-----------------------------------------------------------------------------
\* The digits of a time: hours, minutes, seconds and milliseconds.
Reads(t, h, m, s, x) ==
    /\ h \in Nat /\ m \in 0..99 /\ s \in 0..99 /\ x \in 0..999
    /\ t = h * 10000000 + m * 100000 + s * 1000 + x

\* The digits of a time make up the time.
LEMMA DigitsOf ==
    ASSUME NEW t \in Nat
    PROVE  Reads(t, t \div 10000000, (t \div 100000) % 100, (t \div 1000) % 100, t % 1000)
<1>1. PICK a \in Nat, x \in 0..999 : a = t \div 1000 /\ x = t % 1000 /\ t = a * 1000 + x
  BY SMT
<1>2. PICK b \in Nat, s \in 0..99 : b = a \div 100 /\ s = a % 100 /\ a = b * 100 + s
  BY SMT
<1>3. PICK h \in Nat, m \in 0..99 : h = b \div 100 /\ m = b % 100 /\ b = h * 100 + m
  BY SMT
<1>4. t \div 100000 = b
  BY <1>1, <1>2, SMT
<1>5. t \div 10000000 = h
  BY <1>1, <1>2, <1>3, SMT
<1>6. t = h * 10000000 + m * 100000 + s * 1000 + x
  BY <1>1, <1>2, <1>3, SMT
<1>7. Reads(t, h, m, s, x)
  BY <1>6, SMT DEF Reads
<1>8. (t \div 100000) % 100 = m /\ (t \div 1000) % 100 = s
  BY <1>1, <1>2, <1>3, <1>4, SMT
<1> QED BY <1>1, <1>5, <1>7, <1>8, SMT

\* Digits that make up a time are its digits.
LEMMA DigitsUnique ==
    ASSUME NEW t \in Nat, NEW h, NEW m, NEW s, NEW x, Reads(t, h, m, s, x)
    PROVE  /\ t \div 10000000 = h /\ (t \div 100000) % 100 = m /\ (t \div 1000) % 100 = s
           /\ t % 1000 = x /\ t % 100000 = s * 1000 + x
           /\ (t % 100000) \div 1000 = s /\ (t % 10000000) \div 100000 = m
<1>1. h \in Nat /\ m \in 0..99 /\ s \in 0..99 /\ x \in 0..999
      /\ t = h * 10000000 + m * 100000 + s * 1000 + x
  BY SMT DEF Reads
<1>2. t \div 10000000 = h
  BY <1>1, SMT
<1>3. t \div 100000 = h * 100 + m /\ (t \div 100000) % 100 = m
  BY <1>1, SMT
<1>4. t \div 1000 = (h * 100 + m) * 100 + s /\ (t \div 1000) % 100 = s
  BY <1>1, SMT
<1>5. t % 1000 = x
  BY <1>1, SMT
<1>6. t % 100000 = s * 1000 + x /\ (t % 100000) \div 1000 = s
  BY <1>1, SMT
<1>7. t % 10000000 = m * 100000 + s * 1000 + x /\ (t % 10000000) \div 100000 = m
  BY <1>1, SMT
<1> QED BY <1>2, <1>3, <1>4, <1>5, <1>6, <1>7, SMT

\* The minutes and seconds are below 60.
Shown(t) == (t \div 100000) % 100 < 60 /\ (t \div 1000) % 100 < 60

\* The clock counts the digits.
LEMMA ClockOf ==
    ASSUME NEW t \in Nat, NEW h, NEW m, NEW s, NEW x, Reads(t, h, m, s, x)
    PROVE  Clock(t) = h * 3600000 + m * 60000 + s * 1000 + x /\ Clock(t) \in Nat
<1>1. /\ t \div 10000000 = h /\ (t \div 100000) % 100 = m /\ t % 100000 = s * 1000 + x
  BY DigitsUnique, SMT
<1>2. h \in Nat /\ m \in Nat /\ s \in Nat /\ x \in Nat
  BY SMT DEF Reads
<1>3. Clock(t) = h * 3600000 + m * 60000 + (s * 1000 + x)
  BY <1>1, SMT DEF Clock
<1> QED BY <1>2, <1>3, SMT

\* What the clock counts, the face shows again.
LEMMA FaceClock ==
    ASSUME NEW t \in Nat, Shown(t)
    PROVE  Clock(t) \in Nat /\ Face(Clock(t)) = t
<1> DEFINE h == t \div 10000000
           m == (t \div 100000) % 100
           s == (t \div 1000) % 100
           x == t % 1000
<1>1. Reads(t, h, m, s, x) /\ m < 60 /\ s < 60
  BY DigitsOf, SMT DEF Shown
<1> HIDE DEF h, m, s, x
<1>2. /\ h \in Nat /\ m \in 0..59 /\ s \in 0..59 /\ x \in 0..999
      /\ t = h * 10000000 + m * 100000 + s * 1000 + x
  BY <1>1, SMT DEF Reads
<1>3. Clock(t) = h * 3600000 + m * 60000 + s * 1000 + x /\ Clock(t) \in Nat
  BY <1>1, ClockOf, SMT
<1>4. PICK c \in Nat : c = Clock(t)
  BY <1>3, SMT
<1>5. c \div 3600000 = h
  BY <1>2, <1>3, <1>4, SMT
<1>6. c \div 60000 = h * 60 + m /\ (c \div 60000) % 60 = m
  BY <1>2, <1>3, <1>4, SMT
<1>7. c % 60000 = s * 1000 + x
  BY <1>2, <1>3, <1>4, SMT
<1>8. Face(c) = h * 10000000 + m * 100000 + (s * 1000 + x)
  BY <1>5, <1>6, <1>7, SMT DEF Face
<1>9. Face(c) = t
  BY <1>2, <1>8, SMT
<1> QED BY <1>4, <1>9, SMT

\* The hours, the minutes and the rest of t, on the face and on the clock.
Shows(t, h, m, r) ==
    /\ h \in Nat /\ m \in Nat /\ r \in Nat /\ m < 60 /\ r < 60000
    /\ t = h * 10000000 + m * 100000 + r
    /\ Clock(t) = h * 3600000 + m * 60000 + r

\* A time that a clock can show has hours, minutes and a rest.
LEMMA ShownDigits ==
    ASSUME NEW t \in Nat, Shown(t)
    PROVE  \E h, m, r : Shows(t, h, m, r)
<1> DEFINE h == t \div 10000000
           m == (t \div 100000) % 100
           s == (t \div 1000) % 100
           x == t % 1000
<1>1. Reads(t, h, m, s, x) /\ m < 60 /\ s < 60
  BY DigitsOf, SMT DEF Shown
<1> HIDE DEF h, m, s, x
<1>2. /\ h \in Nat /\ m \in 0..59 /\ s \in 0..59 /\ x \in 0..999
      /\ t = h * 10000000 + m * 100000 + s * 1000 + x
  BY <1>1, SMT DEF Reads
<1>3. Clock(t) = h * 3600000 + m * 60000 + s * 1000 + x
  BY <1>1, ClockOf, SMT
<1> DEFINE r == s * 1000 + x
<1>4. r \in Nat /\ r < 60000 /\ m \in Nat /\ m < 60 /\ h \in Nat
  BY <1>2, SMT
<1>5. t = h * 10000000 + m * 100000 + r /\ Clock(t) = h * 3600000 + m * 60000 + r
  BY <1>2, <1>3, SMT
<1> HIDE DEF r
<1>6. Shows(t, h, m, r)
  BY <1>4, <1>5, SMT DEF Shows
<1> QED BY <1>6

\* Times that a clock can show are in the order of the clock.
LEMMA ClockOrder ==
    ASSUME NEW t \in Nat, NEW u \in Nat, Shown(t), Shown(u)
    PROVE  t <= u <=> Clock(t) <= Clock(u)
<1>1. PICK h, m, r : Shows(t, h, m, r)
  BY ShownDigits
<1>2. PICK i, n, y : Shows(u, i, n, y)
  BY ShownDigits
<1>3. CASE h < i
  BY <1>1, <1>2, <1>3, SMT DEF Shows
<1>4. CASE h > i
  BY <1>1, <1>2, <1>4, SMT DEF Shows
<1>5. CASE h = i /\ m < n
  BY <1>1, <1>2, <1>5, SMT DEF Shows
<1>6. CASE h = i /\ m > n
  BY <1>1, <1>2, <1>6, SMT DEF Shows
<1>7. CASE h = i /\ m = n
  BY <1>1, <1>2, <1>7, SMT DEF Shows
<1> QED BY <1>1, <1>2, <1>3, <1>4, <1>5, <1>6, <1>7, SMT DEF Shows

\* AddMillisecondsToHHMMSSmsTimestamp shows a time that a clock can show; it
\* is later by delta on the clock, and by as much or more as a number.
LEMMA AddIsLater ==
    ASSUME NEW t \in Nat, NEW delta \in Nat
    PROVE  /\ AddMilliseconds(t, delta) \in Nat
           /\ AddMilliseconds(t, delta) >= t + delta
           /\ Shown(AddMilliseconds(t, delta))
           /\ Clock(AddMilliseconds(t, delta)) = Clock(t) + delta
<1>1. PICK h, m, s, x : Reads(t, h, m, s, x)
  <2>1. Reads(t, t \div 10000000, (t \div 100000) % 100, (t \div 1000) % 100, t % 1000)
    BY DigitsOf, SMT
  <2> QED BY <2>1, SMT
<1>2. /\ h \in Nat /\ m \in 0..99 /\ s \in 0..99 /\ x \in 0..999
      /\ t = h * 10000000 + m * 100000 + s * 1000 + x
  BY <1>1, SMT DEF Reads
<1> DEFINE a == x + delta
           b == s + a \div 1000
           c == m + b \div 60
           e == h + c \div 60
           new == e * 10000000 + (c % 60) * 100000 + (b % 60) * 1000 + (a % 1000)
<1>3. AddMilliseconds(t, delta) = new
  <2>1. t % 1000 = x /\ (t % 100000) \div 1000 = s /\ (t % 10000000) \div 100000 = m
        /\ t \div 10000000 = h
    BY <1>1, DigitsUnique, SMT
  <2>2. /\ a = (t % 1000) + delta /\ b = (t % 100000) \div 1000 + a \div 1000
        /\ c = (t % 10000000) \div 100000 + b \div 60
        /\ e = t \div 10000000 + c \div 60
    BY <2>1, SMT
  <2> HIDE DEF a, b, c, e
  <2> QED BY <2>2, SMT DEF AddMilliseconds
<1>4. a \in Nat /\ a \div 1000 \in Nat /\ a % 1000 \in 0..999 /\ a = (a \div 1000) * 1000 + (a % 1000)
  BY <1>2, SMT
<1> HIDE DEF a
<1>5. b \in Nat /\ b \div 60 \in Nat /\ b % 60 \in 0..59 /\ b = (b \div 60) * 60 + (b % 60)
  BY <1>2, <1>4, SMT
<1> HIDE DEF b
<1>6. c \in Nat /\ c \div 60 \in Nat /\ c % 60 \in 0..59 /\ c = (c \div 60) * 60 + (c % 60)
  BY <1>2, <1>5, SMT
<1> HIDE DEF c
<1>7. e \in Nat
  BY <1>2, <1>6, SMT
<1>8. a = x + delta /\ b = s + a \div 1000 /\ c = m + b \div 60 /\ e = h + c \div 60
  BY SMT DEF a, b, c
<1> HIDE DEF e
<1>9. new \in Nat
  BY <1>4, <1>5, <1>6, <1>7, SMT
<1>10. Reads(new, e, c % 60, b % 60, a % 1000)
  BY <1>4, <1>5, <1>6, <1>7, SMT DEF Reads
<1> HIDE DEF new
<1>11. new = e * 10000000 + (c % 60) * 100000 + (b % 60) * 1000 + (a % 1000)
  BY SMT DEF new
<1>12. new >= t + delta
  BY <1>2, <1>4, <1>5, <1>6, <1>7, <1>8, <1>11, SMT
<1>13. Shown(new)
  <2>1. (new \div 100000) % 100 = c % 60 /\ (new \div 1000) % 100 = b % 60
    BY <1>9, <1>10, DigitsUnique, SMT
  <2> QED BY <1>5, <1>6, <2>1, SMT DEF Shown
<1>14. Clock(new) = Clock(t) + delta
  <2>1. Clock(new) = e * 3600000 + (c % 60) * 60000 + (b % 60) * 1000 + (a % 1000)
    BY <1>9, <1>10, ClockOf, SMT
  <2>2. Clock(t) = h * 3600000 + m * 60000 + s * 1000 + x
    BY <1>1, ClockOf, SMT
  <2> QED BY <1>2, <1>4, <1>5, <1>6, <1>7, <1>8, <2>1, <2>2, SMT
<1> QED BY <1>3, <1>9, <1>12, <1>13, <1>14, SMT

-----------------------------------------------------------------------------
\* Naturals with an upper bound.
Bounded(S) == S \subseteq Nat /\ \E b \in Nat : \A x \in S : x <= b

\* A finite set of naturals has an upper bound.
LEMMA FiniteBounded ==
    ASSUME NEW S, S \subseteq Nat, IsFiniteSet(S)
    PROVE  Bounded(S)
<1> DEFINE Bad == {n \in Nat : \E T \in SUBSET Nat : IsFiniteSet(T) /\ Cardinality(T) = n /\ ~ Bounded(T)}
<1>1. Bad = {}
  <2> SUFFICES ASSUME Bad # {} PROVE FALSE
    OBVIOUS
  <2>1. PICK n \in Bad : \A k \in Bad : ~ (k < n)
    BY Least
  <2>2. PICK T \in SUBSET Nat : IsFiniteSet(T) /\ Cardinality(T) = n /\ ~ Bounded(T)
    BY <2>1
  <2>3. T # {}
    <3>1. 0 \in Nat
      OBVIOUS
    <3> QED BY <2>2, <3>1 DEF Bounded
  <2>4. PICK a \in T : TRUE
    BY <2>3
  <2>5. IsFiniteSet(T \ {a}) /\ Cardinality(T \ {a}) = Cardinality(T) - 1 /\ Cardinality(T \ {a}) \in Nat
    BY <2>2, <2>4, FS_RemoveElement, FS_CardinalityType
  <2>6. Cardinality(T \ {a}) < n
    BY <2>1, <2>2, <2>5
  <2>7. Bounded(T \ {a})
    BY <2>1, <2>5, <2>6
  <2>8. PICK b \in Nat : \A x \in T \ {a} : x <= b
    BY <2>7 DEF Bounded
  <2>9. a \in Nat /\ a + b \in Nat /\ \A x \in T : x \in Nat
    BY <2>2, <2>4
  <2>10. \A x \in T : x <= a + b
    BY <2>8, <2>9
  <2> QED BY <2>2, <2>9, <2>10 DEF Bounded
<1>2. Cardinality(S) \in Nat
  BY FS_CardinalityType
<1> HIDE DEF Bad
<1>3. Cardinality(S) \notin Bad
  BY <1>1
<1> QED BY <1>2, <1>3 DEF Bad

\* Max is the greatest element of a bounded set.
LEMMA MaxBounded ==
    ASSUME NEW S, Bounded(S), S # {}
    PROVE  Max(S) \in S /\ \A x \in S : x <= Max(S)
<1>1. S \subseteq Nat
  BY DEF Bounded
<1>2. PICK b \in Nat : \A x \in S : x <= b
  BY DEF Bounded
<1> DEFINE N == {b - x : x \in S}
<1>3. N \in SUBSET Nat /\ N # {}
  <2>1. \A x \in S : x \in Nat /\ b - x \in Nat
    <3> SUFFICES ASSUME NEW x \in S PROVE x \in Nat /\ b - x \in Nat
      OBVIOUS
    <3>1. x \in Nat /\ x <= b
      BY <1>1, <1>2
    <3> QED BY <3>1
  <2> QED BY <2>1
<1>4. PICK d \in N : \A k \in N : ~ (k < d)
  BY <1>3, Least
<1>5. PICK m \in S : d = b - m
  BY <1>4
<1>6. ASSUME NEW x \in S PROVE m >= x
  <2>1. ~ (b - x < b - m)
    BY <1>4, <1>5
  <2>2. x \in Nat /\ m \in Nat
    BY <1>1
  <2> QED BY <2>1, <2>2
<1>7. \E a \in S : \A x \in S : a >= x
  BY <1>6
<1>8. Max(S) \in S /\ \A x \in S : Max(S) >= x
  BY <1>7 DEF Max
<1>9. \A x \in S : x \in Nat /\ Max(S) \in Nat
  BY <1>1, <1>8
<1> QED BY <1>8, <1>9

\* A maximum is where it is shown to be.
LEMMA MaxIs ==
    ASSUME NEW S, S \subseteq Nat, NEW m \in S, \A x \in S : x <= m
    PROVE  Max(S) = m
<1>1. m \in Nat /\ \A x \in S : x \in Nat /\ m >= x
  OBVIOUS
<1>2. Max(S) \in S /\ \A x \in S : Max(S) >= x
  BY <1>1 DEF Max
<1>3. Max(S) \in Nat /\ m >= Max(S) /\ Max(S) >= m
  BY <1>1, <1>2
<1> QED BY <1>1, <1>3

-----------------------------------------------------------------------------
\* The points from t on, an interval after another, up to e.
IsWalk(w, e, D) ==
    w = [t \in D |-> IF t > e THEN {} ELSE {t} \cup w[AddMilliseconds(t, GlobalInterval)]]

\* The next point of OnGlobalTime is later.
LEMMA AddAdvances ==
    ASSUME NEW t \in Nat
    PROVE  AddMilliseconds(t, GlobalInterval) \in Nat /\ AddMilliseconds(t, GlobalInterval) > t
<1>1. GlobalInterval \in Nat \ {0}
  BY GridAssumption
<1>2. AddMilliseconds(t, GlobalInterval) \in Nat /\ AddMilliseconds(t, GlobalInterval) >= t + GlobalInterval
  BY <1>1, AddIsLater
<1> QED BY <1>1, <1>2

\* The recursion of GlobalPoints is well founded: each call is nearer to the end.
LEMMA WalkExists ==
    ASSUME NEW e \in Nat
    PROVE  \E w : IsWalk(w, e, Nat)
<1> DEFINE Upper(n) == {t \in Nat : t + n > e}
           after(t) == AddMilliseconds(t, GlobalInterval)
           Bad == {n \in Nat : ~ \E g : IsWalk(g, e, Upper(n))}
<1>1. Bad = {}
  <2> SUFFICES ASSUME Bad # {} PROVE FALSE
    OBVIOUS
  <2>1. PICK n \in Bad : \A k \in Bad : ~ (k < n)
    BY Least
  <2>2. CASE n = 0
    <3>1. PICK g : g = [t \in Upper(0) |-> {}]
      OBVIOUS
    <3>2. \A t \in Upper(0) : t > e
      OBVIOUS
    <3> HIDE DEF Upper
    <3>3. IsWalk(g, e, Upper(0))
      BY <3>1, <3>2 DEF IsWalk
    <3> QED BY <2>1, <2>2, <3>3
  <2>3. CASE n # 0
    <3>1. n - 1 \in Nat /\ n - 1 < n
      BY <2>1, <2>3
    <3>2. PICK g : IsWalk(g, e, Upper(n - 1))
      BY <2>1, <3>1
    <3>3. PICK h : h = [t \in Upper(n) |-> IF t > e THEN {} ELSE {t} \cup g[after(t)]]
      OBVIOUS
    <3>4. \A t \in Upper(n - 1) : t \in Upper(n)
      BY <2>1, <3>1
    <3>5. \A t \in Upper(n) : t \in Nat /\ after(t) \in Upper(n - 1)
      <4> SUFFICES ASSUME NEW t \in Upper(n) PROVE t \in Nat /\ after(t) \in Upper(n - 1)
        OBVIOUS
      <4>1. t \in Nat /\ t + n > e
        OBVIOUS
      <4>2. after(t) \in Nat /\ after(t) > t
        BY <4>1, AddAdvances
      <4> HIDE DEF after
      <4> QED BY <2>1, <3>1, <4>1, <4>2
    <3> HIDE DEF Upper, after
    <3>6. \A t \in Upper(n - 1) : g[t] = IF t > e THEN {} ELSE {t} \cup g[after(t)]
      BY <3>2 DEF IsWalk, after
    <3>7. \A t \in Upper(n - 1) : h[t] = g[t]
      BY <3>3, <3>4, <3>6
    <3>8. \A t \in Upper(n) : h[after(t)] = g[after(t)]
      BY <3>5, <3>7
    <3>9. h = [t \in Upper(n) |-> IF t > e THEN {} ELSE {t} \cup h[after(t)]]
      BY <3>3, <3>8
    <3>10. IsWalk(h, e, Upper(n))
      BY <3>9 DEF IsWalk, after
    <3> QED BY <2>1, <3>10
  <2> QED BY <2>2, <2>3
<1>2. Upper(e + 1) = Nat /\ e + 1 \in Nat
  OBVIOUS
<1> HIDE DEF Upper
<1>3. \E g : IsWalk(g, e, Upper(e + 1))
  BY <1>1, <1>2
<1> QED BY <1>2, <1>3

\* No point of the walk is after its end.
LEMMA WalkBounded ==
    ASSUME NEW e \in Nat, NEW w, IsWalk(w, e, Nat), NEW t \in Nat
    PROVE  \A u \in w[t] : u \in Nat /\ u <= e
<1> DEFINE Good(v) == \A u \in w[v] : u \in Nat /\ u <= e
           Bad == {n \in Nat : \E v \in Nat : v + n > e /\ ~ Good(v)}
<1>1. Bad = {}
  <2> SUFFICES ASSUME Bad # {} PROVE FALSE
    OBVIOUS
  <2>1. PICK n \in Bad : \A k \in Bad : ~ (k < n)
    BY Least
  <2>2. PICK v \in Nat : v + n > e /\ ~ Good(v)
    BY <2>1
  <2>3. w[v] = IF v > e THEN {} ELSE {v} \cup w[AddMilliseconds(v, GlobalInterval)]
    BY DEF IsWalk
  <2>4. ~ (v > e)
    BY <2>2, <2>3
  <2>5. PICK a : a = AddMilliseconds(v, GlobalInterval)
    OBVIOUS
  <2>6. a \in Nat /\ a > v
    BY <2>5, AddAdvances
  <2>7. n \in Nat /\ n # 0 /\ n - 1 \in Nat /\ n - 1 < n /\ a + (n - 1) > e
    BY <2>1, <2>2, <2>4, <2>6
  <2>8. Good(a)
    <3> HIDE DEF Good
    <3> QED BY <2>1, <2>6, <2>7
  <2>9. w[v] = {v} \cup w[a]
    BY <2>3, <2>4, <2>5
  <2> QED BY <2>2, <2>4, <2>8, <2>9
<1>2. e + 1 \in Nat /\ t + (e + 1) > e
  OBVIOUS
<1>3. Good(t)
  <2> HIDE DEF Good
  <2> QED BY <1>1, <1>2
<1> QED BY <1>3

\* No point of OnGlobalTime is after the end of its grid.
LEMMA GlobalPointsBounded ==
    ASSUME GlobalGrid.end \in Nat
    PROVE  \A u \in GlobalPoints : u \in Nat /\ u <= GlobalGrid.end
<1> DEFINE e == GlobalGrid.end
<1>1. PICK w : w = CHOOSE v : IsWalk(v, e, Nat)
  OBVIOUS
<1>2. IsWalk(w, e, Nat)
  <2>1. \E v : IsWalk(v, e, Nat)
    <3> HIDE DEF e
    <3>1. e \in Nat
      BY DEF e
    <3> QED BY <3>1, WalkExists
  <2> HIDE DEF e
  <2> QED BY <1>1, <2>1
<1>3. GlobalPoints = w[GlobalStart]
  BY <1>1, Zenon DEF GlobalPoints, IsWalk
<1>4. GlobalStart \in Nat
  BY GridAssumption
<1> HIDE DEF e
<1>5. e \in Nat
  BY DEF e
<1>6. \A u \in w[GlobalStart] : u \in Nat /\ u <= e
  BY <1>2, <1>4, <1>5, WalkBounded
<1> QED BY <1>3, <1>6 DEF e

-----------------------------------------------------------------------------
\* The grid as it is meant, counted on the clock: its first and last times, its
\* interval, and its n-th point.
FirstTick == Clock(given.start * MeantUnit)
FinalTick == Clock(given.end * MeantUnit)
Period == given.interval * MeantUnit
Point(n) == Face(FirstTick + n * Period)
Skipped == {t * MeantUnit : t \in given.skip}
Added == {t * MeantUnit : t \in given.add}

\* The fields of a configured grid, and their unit: the guess of the code is right
\* for a grid between two times of the day.
LEMMA UnitMeant ==
    ASSUME given \in TimesInfos
    PROVE  /\ MeantUnit \in {1, 1000} /\ UnitOf(given) \in {1, 1000}
           /\ given.start * MeantUnit \in Nat /\ given.end * MeantUnit \in Nat /\ Period \in Nat
           /\ OfTheDay => UnitOf(given) = MeantUnit /\ Shown(given.start * MeantUnit)
                          /\ Shown(given.end * MeantUnit)
           /\ given.start \in Nat /\ given.end \in Nat /\ given.interval \in Nat
           /\ given.add \subseteq Nat /\ IsFiniteSet(given.add)
<1>1. /\ given.start \in Nat /\ given.end \in Nat /\ given.interval \in Nat
      /\ given.add \subseteq Nat /\ IsFiniteSet(given.add)
  BY GridAssumption
<1>2. MeantUnit \in {1, 1000} /\ UnitOf(given) \in {1, 1000}
  BY SMT DEF MeantUnit, UnitOf
<1>3. /\ given.start * MeantUnit \in Nat /\ given.end * MeantUnit \in Nat
      /\ given.interval * MeantUnit \in Nat
  <2>1. CASE MeantUnit = 1
    BY <1>1, <2>1
  <2>2. CASE MeantUnit = 1000
    BY <1>1, <2>2, SMT
  <2> QED BY <1>2, <2>1, <2>2
<1>4. ASSUME OfTheDay
      PROVE  UnitOf(given) = MeantUnit /\ Shown(given.start * MeantUnit) /\ Shown(given.end * MeantUnit)
  <2>1. IsTime(given.start * MeantUnit) /\ IsTime(given.end * MeantUnit)
    BY <1>4 DEF OfTheDay
  <2>2. Shown(given.start * MeantUnit) /\ Shown(given.end * MeantUnit)
    BY <2>1, SMT DEF IsTime, Shown
  <2>3. given.start * MeantUnit <= 240000000
    BY <2>1, SMT DEF IsTime
  <2>4. UnitOf(given) = MeantUnit
    BY <1>1, <2>3, SMT DEF UnitOf, MeantUnit
  <2> QED BY <2>2, <2>4
<1> QED BY <1>1, <1>2, <1>3, <1>4 DEF Period

\* The loop has made n steps.
AtPoint(n) ==
    /\ n \in Nat /\ Shown(stamp) /\ Clock(stamp) = FirstTick + n * Period
    /\ times = {Point(k) : k \in 0..(n - 1)} \ Skipped
    /\ n > 0 => FirstTick + (n - 1) * Period <= FinalTick

Forward == OfTheDay /\ given.end >= given.start

(* The inductive invariant: the loop is at a point of the grid, and has       *)
(* listed those before it.                                                   *)
GridInv ==
    /\ given \in TimesInfos /\ computeAt \in ComputeTimes
    /\ Bounded(times)
    /\ gridStage \in {"given", "stepping", "listed", "merged", "fault"}
    /\ gridStage = "given" => info = given /\ times = {}
    /\ gridStage # "given" => info = Scaled(given, UnitOf(given))
    /\ gridStage = "stepping" =>
          stamp \in Nat /\ given.interval # 0 /\ (OfTheDay => \E n \in Nat : AtPoint(n))
    /\ gridStage \in {"listed", "merged"} => (Forward => times = Meant)
    /\ gridStage = "fault" =>
          \/ given.interval = 0 \/ given.end < given.start
          \/ LastSend < GlobalStart /\ (OfTheDay => times = Meant)
    /\ gridStage = "merged" /\ times # {} => Max(allPoints) = LastSend

\* The fields of a grid in milliseconds.
LEMMA ScaledFields ==
    ASSUME NEW i, NEW unit
    PROVE  /\ Scaled(i, unit).start = i.start * unit /\ Scaled(i, unit).end = i.end * unit
           /\ Scaled(i, unit).interval = i.interval * unit
           /\ Scaled(i, unit).add = {t * unit : t \in i.add}
           /\ Scaled(i, unit).skip = {t * unit : t \in i.skip}
BY DEF Scaled

\* Meant, point by point.
LEMMA MeantPoints ==
    ASSUME given \in TimesInfos
    PROVE  Meant = ({Point(n) : n \in 0..((FinalTick - FirstTick) \div Period)} \ Skipped) \cup Added
<1>1. \A n \in Nat : n * given.interval * MeantUnit = n * Period
  <2> SUFFICES ASSUME NEW n \in Nat PROVE n * given.interval * MeantUnit = n * Period
    OBVIOUS
  <2>1. \A a, b, c \in Nat : a * b * c = a * (b * c)
    BY SMT
  <2>2. given.interval \in Nat /\ MeantUnit \in Nat
    BY UnitMeant
  <2> QED BY <2>1, <2>2 DEF Period
<1> DEFINE last == (FinalTick - FirstTick) \div Period
<1>2. {Face(FirstTick + n * given.interval * MeantUnit) : n \in 0..last} = {Point(n) : n \in 0..last}
  <2>1. \A n \in 0..last : n \in Nat
    OBVIOUS
  <2> HIDE DEF last
  <2> QED BY <1>1, <2>1 DEF Point
<1> QED BY <1>2 DEF Meant, FirstTick, FinalTick, Period, Skipped, Added

\* A time with digits a clock can show, at the n-th point, is that point.
LEMMA PointIs ==
    ASSUME stamp \in Nat, NEW n, AtPoint(n)
    PROVE  stamp = Point(n)
<1>1. Face(Clock(stamp)) = stamp
  BY FaceClock DEF AtPoint
<1> QED BY <1>1 DEF AtPoint, Point

\* The first and last times are naturals in the order of the configuration.
LEMMA TickTypes ==
    ASSUME given \in TimesInfos, OfTheDay
    PROVE  FirstTick \in Nat /\ FinalTick \in Nat /\ Period \in Nat
           /\ (given.start <= given.end => FirstTick <= FinalTick)
<1>1. /\ given.start * MeantUnit \in Nat /\ given.end * MeantUnit \in Nat
      /\ Shown(given.start * MeantUnit) /\ Shown(given.end * MeantUnit) /\ Period \in Nat
  BY UnitMeant
<1>2. FirstTick \in Nat /\ FinalTick \in Nat
  BY <1>1, FaceClock DEF FirstTick, FinalTick
<1>3. ASSUME given.start <= given.end PROVE FirstTick <= FinalTick
  <2>1. given.start * MeantUnit <= given.end * MeantUnit
    <3>1. MeantUnit \in {1, 1000} /\ given.start \in Nat /\ given.end \in Nat
      BY UnitMeant
    <3>2. CASE MeantUnit = 1
      BY <1>3, <3>1, <3>2, SMT
    <3>3. CASE MeantUnit = 1000
      BY <1>3, <3>1, <3>3, SMT
    <3> QED BY <3>1, <3>2, <3>3
  <2> QED BY <1>1, <2>1, ClockOrder DEF FirstTick, FinalTick
<1> QED BY <1>1, <1>2, <1>3

\* When the loop ends it has listed the last point, and no later one.
LEMMA LastPoint ==
    ASSUME given \in TimesInfos, Forward, given.interval # 0, NEW n, AtPoint(n),
           FirstTick + n * Period > FinalTick
    PROVE  n - 1 = (FinalTick - FirstTick) \div Period
<1>1. /\ FirstTick \in Nat /\ FinalTick \in Nat /\ Period \in Nat /\ FirstTick <= FinalTick
      /\ given.interval \in Nat /\ given.start \in Nat /\ given.end \in Nat
  BY TickTypes, UnitMeant DEF Forward
<1>2. Period # 0
  <2>1. MeantUnit \in {1, 1000} /\ given.interval \in Nat \ {0}
    BY <1>1, UnitMeant
  <2>2. CASE MeantUnit = 1
    BY <2>1, <2>2 DEF Period
  <2>3. CASE MeantUnit = 1000
    BY <2>1, <2>3, SMT DEF Period
  <2> QED BY <2>1, <2>2, <2>3
<1>3. n \in Nat /\ n # 0
  <2>1. n = 0 => n * Period = 0
    BY <1>1
  <2> QED BY <1>1, <2>1 DEF AtPoint
<1>4. FirstTick + (n - 1) * Period <= FinalTick
  BY <1>3 DEF AtPoint
<1>5. n - 1 \in Nat /\ (n - 1) * Period \in Nat /\ n * Period = (n - 1) * Period + Period
  BY <1>1, <1>3, SMT
<1> DEFINE r == (FinalTick - FirstTick) - (n - 1) * Period
<1>6. r \in 0..(Period - 1) /\ FinalTick - FirstTick = (n - 1) * Period + r
  BY <1>1, <1>4, <1>5
<1> HIDE DEF r
<1>7. ((n - 1) * Period + r) \div Period = n - 1
  BY <1>1, <1>2, <1>5, <1>6, QuotientOfSum
<1> QED BY <1>6, <1>7

-----------------------------------------------------------------------------
\* The first points of the grid.
PointsTo(n) == {Point(k) : k \in 0..n}

\* What the configuration means does not change.
LEMMA GivenStays ==
    ASSUME given' = given
    PROVE  /\ MeantUnit' = MeantUnit /\ (OfTheDay' <=> OfTheDay) /\ Meant' = Meant
           /\ FirstTick' = FirstTick /\ FinalTick' = FinalTick /\ Period' = Period
           /\ Skipped' = Skipped /\ (Forward' <=> Forward)
           /\ \A n : PointsTo(n)' = PointsTo(n)
<1>1. MeantUnit' = MeantUnit
  BY SMT DEF MeantUnit
<1>2. (OfTheDay' <=> OfTheDay) /\ FirstTick' = FirstTick /\ FinalTick' = FinalTick
      /\ Period' = Period /\ Skipped' = Skipped
  BY <1>1 DEF OfTheDay, FirstTick, FinalTick, Period, Skipped
<1>3. Forward' <=> Forward
  BY <1>2 DEF Forward
<1>4. Meant' = Meant
  BY <1>1 DEF Meant
<1>5. \A n : PointsTo(n)' = PointsTo(n)
  BY <1>2 DEF PointsTo, Point
<1> QED BY <1>1, <1>2, <1>3, <1>4, <1>5

\* A configured grid starts in the inductive invariant.
LEMMA InitGridInv == InitGrid => GridInv
<1> SUFFICES ASSUME InitGrid PROVE GridInv
  OBVIOUS
<1>1. /\ info \in TimesInfos /\ given = info /\ computeAt \in ComputeTimes
      /\ gridStage = "given" /\ times = {}
  BY DEF InitGrid
<1>2. Bounded({})
  <2>1. 0 \in Nat
    OBVIOUS
  <2> QED BY <2>1 DEF Bounded
<1> QED BY <1>1, <1>2 DEF GridInv

\* Room is refused to a grid that goes backward, and to one without interval.
LEMMA RefusedBackward ==
    ASSUME NEW i, i.start \in Nat, i.end \in Nat, i.interval \in Nat, i.interval # 0, ReserveFaults(i)
    PROVE  i.end < i.start
<1> SUFFICES ASSUME i.end >= i.start PROVE FALSE
  OBVIOUS
<1> DEFINE a == i.end - i.start
<1>1. a \in Nat /\ a >= 0
  OBVIOUS
<1>2. Quotient(a, i.interval) + 1 < 0
  BY DEF ReserveFaults
<1> HIDE DEF a
<1>3. Quotient(a, i.interval) = a \div i.interval
  BY <1>1 DEF Quotient
<1>4. \A c \in Nat, d \in Nat \ {0} : c \div d \in Nat
  BY SMT
<1>5. i.interval \in Nat \ {0}
  OBVIOUS
<1>6. a \div i.interval \in Nat
  BY <1>1, <1>4, <1>5
<1> QED BY <1>2, <1>3, <1>6

\* ParseAndReserve keeps the invariant: the loop starts at the first point.
LEMMA ParseKeeps ==
    ASSUME GridInv, ParseAndReserve
    PROVE  GridInv'
<1>1. /\ given \in TimesInfos /\ computeAt \in ComputeTimes /\ Bounded(times)
      /\ gridStage = "given" /\ info = given /\ times = {}
  BY DEF GridInv, ParseAndReserve
<1>2. /\ given' = given /\ computeAt' = computeAt /\ times' = times /\ allPoints' = allPoints
      /\ info' = Scaled(given, UnitOf(given)) /\ stamp' = info'.start
      /\ gridStage' = IF ReserveFaults(info') THEN "fault" ELSE "stepping"
  BY <1>1 DEF ParseAndReserve
<1>3. PICK u, i : u = UnitOf(given) /\ i = info'
  OBVIOUS
<1>4. /\ i.start = given.start * u /\ i.end = given.end * u /\ i.interval = given.interval * u
  BY <1>2, <1>3, ScaledFields
<1>5. /\ u \in {1, 1000} /\ given.start \in Nat /\ given.end \in Nat /\ given.interval \in Nat
  BY <1>1, <1>3, UnitMeant
<1>6. /\ i.start \in Nat /\ i.end \in Nat /\ i.interval \in Nat
      /\ (i.interval = 0 <=> given.interval = 0) /\ (i.end < i.start => given.end < given.start)
  <2>1. CASE u = 1
    BY <1>4, <1>5, <2>1
  <2>2. CASE u = 1000
    BY <1>4, <1>5, <2>2, SMT
  <2> QED BY <1>5, <2>1, <2>2
<1>7. info' = Scaled(given', UnitOf(given'))
  BY <1>2
<1>8. CASE ReserveFaults(i)
  <2>1. gridStage' = "fault"
    BY <1>2, <1>3, <1>8
  <2>2. given.interval = 0 \/ given.end < given.start
    BY <1>6, <1>8, RefusedBackward
  <2> QED BY <1>1, <1>2, <1>7, <2>1, <2>2 DEF GridInv
<1>9. CASE ~ ReserveFaults(i)
  <2>1. gridStage' = "stepping" /\ stamp' = i.start
    BY <1>2, <1>3, <1>9
  <2>2. given.interval # 0
    BY <1>6, <1>9 DEF ReserveFaults
  <2>3. ASSUME OfTheDay PROVE AtPoint(0)'
    <3>1. u = MeantUnit /\ Shown(given.start * MeantUnit)
      BY <1>1, <1>3, <2>3, UnitMeant
    <3>2. stamp' = given.start * MeantUnit
      BY <1>4, <2>1, <3>1
    <3>3. Shown(stamp') /\ Clock(stamp') = FirstTick
      BY <3>1, <3>2 DEF FirstTick
    <3>4. FirstTick \in Nat /\ Period \in Nat
      BY <1>1, <2>3, TickTypes
    <3>5. FirstTick = FirstTick + 0 * Period
      BY <3>4
    <3>6. times' = PointsTo(0 - 1)' \ Skipped'
      <4>1. 0..(0 - 1) = {}
        OBVIOUS
      <4>2. PointsTo(0 - 1)' = {}
        BY <4>1 DEF PointsTo
      <4> QED BY <1>1, <1>2, <4>2
    <3>7. 0 \in Nat /\ ~ (0 > 0)
      OBVIOUS
    <3> QED BY <1>2, <3>3, <3>5, <3>6, <3>7, GivenStays DEF AtPoint, PointsTo
  <2>4. OfTheDay' => (\E n \in Nat : AtPoint(n))'
    <3>1. 0 \in Nat
      OBVIOUS
    <3> QED BY <1>2, <2>3, <3>1, GivenStays
  <2> QED BY <1>1, <1>2, <1>6, <1>7, <2>1, <2>2, <2>4 DEF GridInv
<1> QED BY <1>8, <1>9

\* StepGrid keeps the invariant: it lists a point and goes to the next one.
LEMMA StepKeeps ==
    ASSUME GridInv, StepGrid
    PROVE  GridInv'
<1>1. /\ given \in TimesInfos /\ computeAt \in ComputeTimes /\ Bounded(times)
      /\ gridStage = "stepping" /\ info = Scaled(given, UnitOf(given))
      /\ stamp \in Nat /\ given.interval # 0 /\ (OfTheDay => \E n \in Nat : AtPoint(n))
  BY DEF GridInv, StepGrid
<1>2. /\ given' = given /\ computeAt' = computeAt /\ info' = info /\ gridStage' = gridStage
      /\ times' = times \cup ({stamp} \ info.skip) /\ stamp <= info.end
      /\ stamp' = AddMilliseconds(stamp, info.interval)
  BY DEF StepGrid
<1>3. PICK u : u = UnitOf(given)
  OBVIOUS
<1>4. /\ info.end = given.end * u /\ info.interval = given.interval * u
      /\ info.skip = {t * u : t \in given.skip}
  BY <1>1, <1>3, ScaledFields
<1>5. info.interval \in Nat
  <2>1. u \in {1, 1000} /\ given.interval \in Nat
    BY <1>1, <1>3, UnitMeant
  <2>2. CASE u = 1
    BY <1>4, <2>1, <2>2
  <2>3. CASE u = 1000
    BY <1>4, <2>1, <2>3, SMT
  <2> QED BY <2>1, <2>2, <2>3
<1>6. stamp' \in Nat /\ Shown(stamp') /\ Clock(stamp') = Clock(stamp) + info.interval
  BY <1>1, <1>2, <1>5, AddIsLater
<1>7. Bounded(times')
  <2>1. PICK b \in Nat : \A x \in times : x <= b
    BY <1>1 DEF Bounded
  <2>2. times \subseteq Nat
    BY <1>1 DEF Bounded
  <2>3. b + stamp \in Nat /\ times' \subseteq times \cup {stamp}
    BY <1>1, <1>2, <2>1
  <2>4. \A x \in times' : x \in Nat /\ x <= b + stamp
    <3> SUFFICES ASSUME NEW x \in times' PROVE x \in Nat /\ x <= b + stamp
      OBVIOUS
    <3>1. CASE x = stamp
      BY <1>1, <2>1, <3>1
    <3>2. CASE x \in times
      BY <1>1, <2>1, <2>2, <3>2
    <3> QED BY <2>3, <3>1, <3>2
  <2> QED BY <2>3, <2>4 DEF Bounded
<1>8. ASSUME OfTheDay PROVE \E n \in Nat : AtPoint(n)'
  <2>1. PICK n \in Nat : AtPoint(n)
    BY <1>1, <1>8
  <2>2. u = MeantUnit /\ given.end * MeantUnit \in Nat /\ Shown(given.end * MeantUnit)
    BY <1>1, <1>3, <1>8, UnitMeant
  <2>3. info.interval = Period /\ info.skip = Skipped /\ info.end = given.end * MeantUnit
    BY <1>4, <2>2 DEF Period, Skipped
  <2>4. FirstTick \in Nat /\ FinalTick \in Nat /\ Period \in Nat
    BY <1>1, <1>8, TickTypes
  <2>5. Clock(stamp) = FirstTick + n * Period /\ times = PointsTo(n - 1) \ Skipped /\ Shown(stamp)
    BY <2>1 DEF AtPoint, PointsTo
  <2>6. Clock(stamp') = FirstTick + (n + 1) * Period
    <3>1. n * Period \in Nat /\ (n + 1) * Period = n * Period + Period
      BY <2>1, <2>4, SMT
    <3> QED BY <1>6, <2>3, <2>4, <2>5, <3>1
  <2>7. FirstTick + n * Period <= FinalTick
    <3>1. Clock(stamp) <= Clock(given.end * MeantUnit)
      BY <1>1, <1>2, <2>2, <2>3, <2>5, ClockOrder
    <3> QED BY <2>5, <3>1 DEF FinalTick
  <2>8. times' = PointsTo(n) \ Skipped
    <3>1. stamp = Point(n)
      BY <1>1, <2>1, PointIs
    <3>2. PointsTo(n) = PointsTo(n - 1) \cup {Point(n)}
      <4>1. 0..n = 0..(n - 1) \cup {n}
        BY <2>1
      <4> QED BY <4>1 DEF PointsTo
    <3> QED BY <1>2, <2>3, <2>5, <3>1, <3>2
  <2>9. n + 1 \in Nat /\ (n + 1) - 1 = n
    BY <2>1
  <2>10. PICK k \in Nat : k = n + 1
    BY <2>9
  <2>11. k - 1 = n
    BY <2>9, <2>10
  <2>12. /\ Clock(stamp') = FirstTick + k * Period /\ times' = PointsTo(k - 1) \ Skipped
         /\ FirstTick + (k - 1) * Period <= FinalTick
    BY <2>6, <2>7, <2>8, <2>10, <2>11
  <2>13. AtPoint(k)'
    <3>1. times' = PointsTo(k - 1)' \ Skipped'
      BY <1>2, <2>12, GivenStays
    <3>2. /\ Clock(stamp') = FirstTick' + k * Period' /\ FirstTick' + (k - 1) * Period' <= FinalTick'
      BY <1>2, <2>12, GivenStays
    <3> QED BY <1>6, <2>10, <3>1, <3>2 DEF AtPoint, PointsTo
  <2> QED BY <2>13
<1>9. OfTheDay' => (\E n \in Nat : AtPoint(n))'
  BY <1>2, <1>8, GivenStays
<1>10. info' = Scaled(given', UnitOf(given'))
  BY <1>1, <1>2
<1> QED BY <1>1, <1>2, <1>6, <1>7, <1>9, <1>10 DEF GridInv

\* EndGrid keeps the invariant: the list is complete.
LEMMA EndKeeps ==
    ASSUME GridInv, EndGrid
    PROVE  GridInv'
<1>1. /\ given \in TimesInfos /\ computeAt \in ComputeTimes /\ Bounded(times)
      /\ gridStage = "stepping" /\ info = Scaled(given, UnitOf(given))
      /\ stamp \in Nat /\ given.interval # 0 /\ (OfTheDay => \E n \in Nat : AtPoint(n))
  BY DEF GridInv, EndGrid
<1>2. /\ given' = given /\ computeAt' = computeAt /\ info' = info /\ gridStage' = "listed"
      /\ times' = times \cup info.add /\ stamp > info.end
  BY DEF EndGrid
<1>3. PICK u : u = UnitOf(given)
  OBVIOUS
<1>4. info.end = given.end * u /\ info.add = {t * u : t \in given.add}
  BY <1>1, <1>3, ScaledFields
<1>5. Bounded(times')
  <2>1. PICK b \in Nat : \A x \in times : x <= b
    BY <1>1 DEF Bounded
  <2>2. given.add \subseteq Nat /\ Bounded(given.add) /\ u \in {1, 1000}
    BY <1>1, <1>3, UnitMeant, FiniteBounded
  <2>3. PICK c \in Nat : \A x \in given.add : x <= c
    BY <2>2 DEF Bounded
  <2>4. \A t \in given.add : t * u \in Nat /\ t * u <= c * 1000
    <3> SUFFICES ASSUME NEW t \in given.add PROVE t * u \in Nat /\ t * u <= c * 1000
      OBVIOUS
    <3>1. t \in Nat /\ t <= c
      BY <2>2, <2>3
    <3>2. CASE u = 1
      BY <2>3, <3>1, <3>2, SMT
    <3>3. CASE u = 1000
      BY <2>3, <3>1, <3>3, SMT
    <3> QED BY <2>2, <3>2, <3>3
  <2>5. \A x \in info.add : x \in Nat /\ x <= c * 1000
    BY <1>4, <2>4
  <2>6. times \subseteq Nat
    BY <1>1 DEF Bounded
  <2>7. PICK e \in Nat : e = c * 1000
    BY <2>3, SMT
  <2>8. \A x \in times' : x \in Nat /\ x <= b + e
    <3> SUFFICES ASSUME NEW x \in times' PROVE x \in Nat /\ x <= b + e
      OBVIOUS
    <3>1. CASE x \in times
      BY <2>1, <2>6, <2>7, <3>1
    <3>2. CASE x \in info.add
      BY <2>1, <2>5, <2>7, <3>2
    <3> QED BY <1>2, <3>1, <3>2
  <2>9. b + e \in Nat
    BY <2>1, <2>7
  <2> QED BY <2>8, <2>9 DEF Bounded
<1>6. ASSUME Forward PROVE times' = Meant
  <2>1. PICK n \in Nat : AtPoint(n)
    BY <1>1, <1>6 DEF Forward
  <2>2. u = MeantUnit /\ given.end * MeantUnit \in Nat /\ Shown(given.end * MeantUnit)
    BY <1>1, <1>3, <1>6, UnitMeant DEF Forward
  <2>3. info.add = Added /\ info.end = given.end * MeantUnit
    BY <1>4, <2>2 DEF Added
  <2>4. Clock(stamp) = FirstTick + n * Period /\ times = PointsTo(n - 1) \ Skipped /\ Shown(stamp)
    BY <2>1 DEF AtPoint, PointsTo
  <2>5. FirstTick + n * Period > FinalTick
    <3>1. ~ (stamp <= given.end * MeantUnit)
      BY <1>1, <1>2, <2>2, <2>3
    <3>2. ~ (Clock(stamp) <= Clock(given.end * MeantUnit))
      BY <1>1, <2>2, <2>4, <3>1, ClockOrder
    <3>3. Clock(stamp) \in Nat /\ Clock(given.end * MeantUnit) \in Nat
      BY <1>1, <2>2, <2>4, FaceClock
    <3> QED BY <2>4, <3>2, <3>3 DEF FinalTick
  <2>6. n - 1 = (FinalTick - FirstTick) \div Period
    BY <1>1, <1>6, <2>1, <2>5, LastPoint
  <2>7. Meant = (PointsTo((FinalTick - FirstTick) \div Period) \ Skipped) \cup Added
    BY <1>1, MeantPoints DEF PointsTo
  <2> QED BY <1>2, <2>3, <2>4, <2>6, <2>7
<1>7. Forward' => times' = Meant'
  BY <1>2, <1>6, GivenStays
<1>8. info' = Scaled(given', UnitOf(given'))
  BY <1>1, <1>2
<1> QED BY <1>1, <1>2, <1>5, <1>7, <1>8 DEF GridInv

\* The last send point, and the end of the points of OnGlobalTime.
LEMMA LastSendIs ==
    ASSUME Bounded(times)
    PROVE  /\ LastSend \in Nat /\ \A x \in times : x \in Nat /\ x <= LastSend
           /\ times # {} => LastSend \in times
           /\ GlobalGrid.end \in Nat /\ GlobalGrid.end <= LastSend
           /\ GlobalGrid.end < GlobalStart => LastSend < GlobalStart
           /\ GlobalGrid.start = GlobalStart /\ GlobalGrid.interval = GlobalInterval
<1> DEFINE S == times \cup {0}
<1>1. times \subseteq Nat /\ 0 \in S
  BY DEF Bounded
<1>2. Bounded(S) /\ S # {}
  <2>1. PICK b \in Nat : \A x \in times : x <= b
    BY DEF Bounded
  <2>2. \A x \in S : x \in Nat /\ x <= b
    BY <1>1, <2>1
  <2> QED BY <1>1, <2>1, <2>2 DEF Bounded
<1>3. Max(S) \in S /\ \A x \in S : x <= Max(S)
  <2> HIDE DEF S
  <2> QED BY <1>2, MaxBounded
<1>4. LastSend = Max(S)
  BY DEF LastSend
<1>5. LastSend \in Nat /\ \A x \in times : x \in Nat /\ x <= LastSend
  <2>1. \A x \in S : x \in Nat
    BY <1>2 DEF Bounded
  <2>2. \A x \in times : x \in S
    OBVIOUS
  <2>3. LastSend \in S /\ \A x \in S : x <= LastSend
    BY <1>3, <1>4
  <2> HIDE DEF S
  <2> QED BY <2>1, <2>2, <2>3
<1>6. times # {} => LastSend \in times
  <2> SUFFICES ASSUME times # {} PROVE LastSend \in times
    OBVIOUS
  <2>1. PICK x \in times : TRUE
    OBVIOUS
  <2>2. CASE LastSend = 0
    <3>1. x = 0
      BY <1>5, <2>1, <2>2
    <3> QED BY <2>1, <2>2, <3>1
  <2>3. CASE LastSend # 0
    BY <1>3, <1>4, <2>3
  <2> QED BY <2>2, <2>3
<1>7. /\ GlobalGrid.start = GlobalStart /\ GlobalGrid.interval = GlobalInterval
      /\ GlobalGrid.end = Min({LastSend, GlobalEnd})
  BY DEF GlobalGrid
<1>8. GlobalStart \in Nat /\ GlobalEnd \in Nat /\ GlobalStart <= GlobalEnd
  BY GridAssumption
<1>9. PICK a, b : a = LastSend /\ b = GlobalEnd
  OBVIOUS
<1>10. Min({a, b}) \in {a, b} /\ Min({a, b}) <= a
  <2>1. \E x \in {a, b} : \A y \in {a, b} : x <= y
    <3>1. a \in Nat /\ b \in Nat
      BY <1>5, <1>8, <1>9
    <3>2. CASE a <= b
      BY <3>1, <3>2
    <3>3. CASE b <= a
      BY <3>1, <3>3
    <3> QED BY <3>1, <3>2, <3>3
  <2> QED BY <2>1 DEF Min
<1>11. GlobalGrid.end \in Nat /\ GlobalGrid.end <= LastSend /\ GlobalGrid.end \in {LastSend, GlobalEnd}
  BY <1>5, <1>7, <1>8, <1>9, <1>10
<1>12. GlobalGrid.end < GlobalStart => LastSend < GlobalStart
  BY <1>5, <1>8, <1>11
<1> QED BY <1>5, <1>6, <1>7, <1>11, <1>12

\* MergePoints keeps the invariant: no point is after the last send point.
LEMMA MergePointsKeeps ==
    ASSUME GridInv, MergePoints
    PROVE  GridInv'
<1>1. /\ given \in TimesInfos /\ computeAt \in ComputeTimes /\ Bounded(times)
      /\ gridStage = "listed" /\ info = Scaled(given, UnitOf(given)) /\ (Forward => times = Meant)
  BY DEF GridInv, MergePoints
<1>2. given' = given /\ computeAt' = computeAt /\ info' = info /\ times' = times
  BY DEF MergePoints
<1>3. (Forward' => times' = Meant') /\ info' = Scaled(given', UnitOf(given'))
  BY <1>1, <1>2, GivenStays
<1>4. LastSend' = LastSend
  BY <1>2 DEF LastSend
<1>5. CASE ReserveFaults(GlobalGrid)
  <2>1. gridStage' = "fault"
    BY <1>5 DEF MergePoints
  <2>2. LastSend < GlobalStart
    <3>1. PICK g : g = GlobalGrid
      OBVIOUS
    <3>2. g.start \in Nat /\ g.end \in Nat /\ g.interval \in Nat /\ g.interval # 0
      BY <1>1, <3>1, LastSendIs, GridAssumption
    <3>3. g.end < g.start
      BY <1>5, <3>1, <3>2, RefusedBackward
    <3> QED BY <1>1, <3>1, <3>3, LastSendIs
  <2>3. given.end < given.start \/ (OfTheDay => times = Meant)
    <3>1. given.start \in Nat /\ given.end \in Nat
      BY <1>1, UnitMeant
    <3> QED BY <1>1, <3>1 DEF Forward
  <2>4. given'.end < given'.start \/ (OfTheDay' => times' = Meant')
    BY <1>2, <2>3, GivenStays
  <2> QED BY <1>1, <1>2, <1>3, <1>4, <2>1, <2>2, <2>4 DEF GridInv
<1>6. CASE ~ ReserveFaults(GlobalGrid)
  <2>1. gridStage' = "merged" /\ allPoints' = times \cup ComputePointsKept \cup GlobalPoints
    BY <1>6 DEF MergePoints
  <2>2. ASSUME times # {} PROVE Max(allPoints') = LastSend
    <3>1. LastSend \in allPoints'
      BY <1>1, <2>1, <2>2, LastSendIs
    <3>2. \A x \in times : x \in Nat /\ x <= LastSend
      BY <1>1, LastSendIs
    <3>3. \A x \in ComputePointsKept : x \in Nat /\ x <= LastSend
      BY <1>1, GridAssumption DEF ComputePointsKept
    <3>4. \A x \in GlobalPoints : x \in Nat /\ x <= LastSend
      <4>1. GlobalGrid.end \in Nat /\ GlobalGrid.end <= LastSend /\ LastSend \in Nat
        BY <1>1, LastSendIs
      <4>2. \A x \in GlobalPoints : x \in Nat /\ x <= GlobalGrid.end
        BY <4>1, GlobalPointsBounded
      <4> QED BY <4>1, <4>2
    <3>5. PICK S, m : S = allPoints' /\ m = LastSend
      OBVIOUS
    <3>6. S \subseteq Nat /\ m \in S /\ \A x \in S : x <= m
      BY <2>1, <3>1, <3>2, <3>3, <3>4, <3>5
    <3> QED BY <3>5, <3>6, MaxIs
  <2>3. gridStage' = "merged" /\ times' # {} => Max(allPoints') = LastSend'
    BY <1>2, <1>4, <2>2
  <2> QED BY <1>1, <1>2, <1>3, <2>1, <2>3 DEF GridInv
<1> QED BY <1>5, <1>6

\* Every step of the grid keeps its inductive invariant.
LEMMA NextGridInv == GridInv /\ [NextGrid]_gridVars => GridInv'
<1> SUFFICES ASSUME GridInv, [NextGrid]_gridVars PROVE GridInv'
  OBVIOUS
<1>1. CASE ParseAndReserve
  BY <1>1, ParseKeeps
<1>2. CASE StepGrid
  BY <1>2, StepKeeps
<1>3. CASE EndGrid
  BY <1>3, EndKeeps
<1>4. CASE MergePoints
  BY <1>4, MergePointsKeeps
<1>5. CASE UNCHANGED gridVars
  <2>1. /\ given' = given /\ computeAt' = computeAt /\ info' = info /\ times' = times
        /\ gridStage' = gridStage /\ stamp' = stamp /\ allPoints' = allPoints
    BY <1>5 DEF gridVars
  <2>2. LastSend' = LastSend
    BY <2>1 DEF LastSend
  <2>3. \A n \in Nat : AtPoint(n) => AtPoint(n)'
    <3> SUFFICES ASSUME NEW n \in Nat, AtPoint(n) PROVE AtPoint(n)'
      OBVIOUS
    <3>1. /\ Shown(stamp) /\ Clock(stamp) = FirstTick + n * Period /\ times = PointsTo(n - 1) \ Skipped
          /\ (n > 0 => FirstTick + (n - 1) * Period <= FinalTick)
      BY DEF AtPoint, PointsTo
    <3>2. times' = PointsTo(n - 1)' \ Skipped'
      BY <2>1, <3>1, GivenStays
    <3>3. /\ Clock(stamp') = FirstTick' + n * Period'
          /\ (n > 0 => FirstTick' + (n - 1) * Period' <= FinalTick')
      BY <2>1, <3>1, GivenStays
    <3> QED BY <2>1, <3>1, <3>2, <3>3 DEF AtPoint, PointsTo
  <2>4. gridStage = "stepping" => (OfTheDay' => (\E n \in Nat : AtPoint(n))')
    BY <2>1, <2>3, GivenStays DEF GridInv
  <2>5. (Forward' <=> Forward) /\ Meant' = Meant /\ (OfTheDay' <=> OfTheDay)
    BY <2>1, GivenStays
  <2>6. gridStage \in {"listed", "merged"} => (Forward' => times' = Meant')
    BY <2>1, <2>5 DEF GridInv
  <2>7. gridStage = "fault" =>
          \/ given'.interval = 0 \/ given'.end < given'.start
          \/ LastSend' < GlobalStart /\ (OfTheDay' => times' = Meant')
    BY <2>1, <2>2, <2>5 DEF GridInv
  <2>8. /\ given' \in TimesInfos /\ computeAt' \in ComputeTimes /\ Bounded(times')
        /\ gridStage' \in {"given", "stepping", "listed", "merged", "fault"}
        /\ (gridStage' = "given" => info' = given' /\ times' = {})
        /\ (gridStage' # "given" => info' = Scaled(given', UnitOf(given')))
    BY <2>1 DEF GridInv
  <2>9. gridStage' = "stepping" => stamp' \in Nat /\ given'.interval # 0
    BY <2>1 DEF GridInv
  <2>10. gridStage' = "merged" /\ times' # {} => Max(allPoints') = LastSend'
    BY <2>1, <2>2 DEF GridInv
  <2> QED BY <2>1, <2>4, <2>6, <2>7, <2>8, <2>9, <2>10 DEF GridInv
<1> QED BY <1>1, <1>2, <1>3, <1>4, <1>5 DEF NextGrid

\* What the invariant says of the finished lists.
LEMMA GridInvExact == GridInv => GridExact
BY DEF GridInv, GridExact, Forward

\* Every step of the merge keeps the inductive invariant.
LEMMA NextMergeInv == MergeInv /\ [NextMerge]_mergeVars => MergeInv'
<1> SUFFICES ASSUME MergeInv, [NextMerge]_mergeVars PROVE MergeInv'
  OBVIOUS
<1>1. CASE LoadQuotes
  BY <1>1, LoadKeeps
<1>2. CASE PopTick
  BY <1>2, PopKeeps
<1>3. CASE UNCHANGED mergeVars
  <2>1. channels' = channels /\ q' = q /\ l' = l /\ delivered' = delivered
    BY <1>3 DEF mergeVars
  <2>2. ChannelsOk' /\ delivered' \in Seq(Deliveries')
    BY <2>1, ChannelsStay DEF MergeInv
  <2>3. \A n \in 1..Len(delivered') : LeastAt(delivered, n)'
    BY <2>1, LeastStays DEF MergeInv
  <2>4. l' # <<>> => QueueOk(q, delivered)' /\ Complete(q, l)'
    BY <2>1, QueueStays, CompleteStays DEF MergeInv
  <2>5. l' = <<>> => delivered' = <<>>
    BY <2>1 DEF MergeInv
  <2> QED BY <2>2, <2>3, <2>4, <2>5 DEF MergeInv
<1> QED BY <1>1, <1>2, <1>3 DEF NextMerge

\* What the invariant says of the order.
LEMMA MergeInvLeast == MergeInv => LeastFirst
<1> SUFFICES ASSUME MergeInv PROVE LeastFirst
  OBVIOUS
<1>1. DOMAIN delivered = 1..Len(delivered)
  BY DEF MergeInv
<1>2. \A n \in 1..Len(delivered) : LeastAt(delivered, n)
  BY DEF MergeInv
<1> QED BY <1>1, <1>2 DEF LeastFirst, LeastAt, HeadsOf, HeadsAfter, TakenOf, Taken

\* What the invariant says of the end.
LEMMA MergeInvDelivers == MergeInv => DeliversAll
<1> SUFFICES ASSUME MergeInv, l # <<>>
             PROVE  Champion.col = NoColumn <=> HeadsAfter(Len(delivered)) = {}
  BY DEF DeliversAll
<1> DEFINE d == delivered
           T(c) == TakenOf(d, c, Len(d))
<1>1. /\ ChannelsOk /\ SizeOk /\ d \in Seq(Deliveries) /\ QueueOk(q, d) /\ Complete(q, l)
      /\ l[0] \in Columns
  BY DEF MergeInv, ChannelsOk, Complete
<1>2. \A c \in Columns : q[c] = KeyAfter(d, c)
  BY <1>1 DEF QueueOk
<1>3. HeadsAfter(Len(delivered)) = {} <=> \A c \in Columns : ~ (T(c) < Len(channels[c]))
  BY DEF HeadsAfter, Taken, TakenOf
<1> HIDE DEF d
<1>4. Champion = KeyAfter(d, l[0])
  BY <1>1, <1>2 DEF Champion
<1>5. ASSUME Champion.col = NoColumn, NEW c \in Columns, T(c) < Len(channels[c]) PROVE FALSE
  <2>1. ~ (T(l[0]) < Len(channels[l[0]]))
    <3>1. l[0] # NoColumn
      BY <1>1, ColumnOk DEF NoColumn
    <3> QED BY <1>1, <1>4, <1>5, <3>1, KeyType
  <2>2. q[l[0]].local = Infinite /\ q[l[0]].local \in Nat
    BY <1>1, <1>2, <2>1, KeyType
  <2>3. q[c].local < Infinite /\ q[c].local \in Nat
    BY <1>1, <1>2, <1>5, KeyType
  <2>4. Loses(q, l[0], c)
    BY <2>2, <2>3 DEF Loses
  <2>5. KeysOk(q)
    BY <1>1, QueueKeys
  <2> QED BY <1>1, <2>4, <2>5, ChampionLeast
<1>6. ASSUME Champion.col # NoColumn PROVE T(l[0]) < Len(channels[l[0]])
  BY <1>1, <1>4, <1>6, KeyType
<1> QED BY <1>1, <1>3, <1>5, <1>6

-----------------------------------------------------------------------------
\* The part that runs keeps its invariant; the others have not started.
InputInv ==
    /\ part = "assignment" => AssignmentInv
    /\ part # "assignment" => offsets = <<>>
    /\ part = "grid" => GridInv
    /\ part # "grid" => gridStage = "none"
    /\ part = "merge" => MergeInv
    /\ part # "merge" => l = <<>> /\ delivered = <<>>

\* The part that runs starts in its invariant.
LEMMA InitInputInv == InitInput => InputInv
BY InitAssignment, InitGridInv, InitMergeInv DEF InitInput, InputInv

\* Every step keeps the invariant of the part that runs.
LEMMA NextInputInv == InputInv /\ [NextInput]_inputVars => InputInv'
<1> SUFFICES ASSUME InputInv, [NextInput]_inputVars PROVE InputInv'
  OBVIOUS
<1>1. CASE part = "assignment" /\ Next /\ UNCHANGED <<gridVars, mergeVars>> /\ UNCHANGED part
  <2>1. AssignmentInv'
    BY <1>1, NextAssignment DEF InputInv
  <2> QED BY <1>1, <2>1 DEF InputInv, gridVars, mergeVars
<1>2. CASE part = "grid" /\ NextGrid /\ UNCHANGED <<vars, mergeVars>> /\ UNCHANGED part
  <2>1. GridInv'
    BY <1>2, NextGridInv DEF InputInv
  <2> QED BY <1>2, <2>1 DEF InputInv, mergeVars, vars
<1>3. CASE part = "merge" /\ NextMerge /\ UNCHANGED <<vars, gridVars>> /\ UNCHANGED part
  <2>1. MergeInv'
    BY <1>3, NextMergeInv DEF InputInv
  <2> QED BY <1>3, <2>1 DEF InputInv, gridVars, vars
<1>4. CASE UNCHANGED inputVars
  <2>1. UNCHANGED vars /\ UNCHANGED gridVars /\ UNCHANGED mergeVars /\ UNCHANGED part
    BY <1>4 DEF inputVars
  <2>2. part = "assignment" => AssignmentInv'
    BY <2>1, NextAssignment DEF InputInv
  <2>3. part = "grid" => GridInv'
    BY <2>1, NextGridInv DEF InputInv
  <2>4. part = "merge" => MergeInv'
    BY <2>1, NextMergeInv DEF InputInv
  <2> QED BY <2>1, <2>2, <2>3, <2>4 DEF InputInv, vars, gridVars, mergeVars
<1> QED BY <1>1, <1>2, <1>3, <1>4 DEF NextInput

(* What the engine is given keeps its inductive invariant: whichever of the  *)
(* assignment of the codes, the lists of times and the merge of the records  *)
(* runs (Initialize, InitConfig, LoadQuotes and Pop), from the configurations *)
(* that the assumptions on the constants admit.                              *)
THEOREM InputInvariant == SpecInput => []InputInv
BY InitInputInv, NextInputInv, PTL DEF SpecInput

(* The engine's day has the rows of its threads, for every number of codes   *)
(* and threads: a thread writes the values of its codes to the rows that the *)
(* scan thread and the file writer take for those codes.                     *)
THEOREM Input_Rows_Agree == SpecInput => []RowsAgree
<1>1. InputInv => RowsAgree
  <2>1. CASE part = "assignment"
    BY <2>1, AssignmentRows DEF InputInv
  <2>2. CASE part # "assignment"
    <3>1. ASSUME offsets = <<>>, NEW g \in 1..Len(offsets) PROVE FALSE
      BY <3>1
    <3> QED BY <2>2, <3>1 DEF InputInv, RowsAgree
  <2> QED BY <2>1, <2>2
<1> QED BY <1>1, InputInvariant, PTL

(* The send times of every grid between two times of the day, of any start,  *)
(* end, interval and unit, are what the configuration means, counted on the  *)
(* clock; a grid that goes forward faults only when it is over before the    *)
(* first point of OnGlobalTime; and no point of the day is after the last    *)
(* send point (ParseTimesInfo, GenerateUniformHHMMSSmsTimestampList,         *)
(* AddMillisecondsToHHMMSSmsTimestamp, InitConfig).                          *)
THEOREM Grid_Exact == SpecInput => []GridExact
<1>1. InputInv => GridExact
  <2>1. part = "grid" /\ InputInv => GridExact
    BY GridInvExact DEF InputInv
  <2>2. part # "grid" /\ InputInv => GridExact
    BY DEF InputInv, GridExact
  <2> QED BY <2>1, <2>2
<1> QED BY <1>1, InputInvariant, PTL

(* Every record that the loader hands over is a least one of the channels'    *)
(* next records, in the order of local time, exchange time and channel, for  *)
(* every number of channels and records (the loser tree of LoadQuotes, Pop   *)
(* and adjust).                                                              *)
THEOREM Least_First == SpecInput => []LeastFirst
<1>1. InputInv => LeastFirst
  <2>1. part = "merge" /\ InputInv => LeastFirst
    BY MergeInvLeast DEF InputInv
  <2>2. part # "merge" /\ InputInv => LeastFirst
    BY DEF InputInv, LeastFirst
  <2> QED BY <2>1, <2>2
<1> QED BY <1>1, InputInvariant, PTL

(* The champion of the loser tree is the end mark exactly when every record   *)
(* of every channel has been handed over: Pop neither stops early nor reads  *)
(* past the end.                                                             *)
THEOREM Delivers_All == SpecInput => []DeliversAll
<1>1. InputInv => DeliversAll
  <2>1. part = "merge" /\ InputInv => DeliversAll
    BY MergeInvDelivers DEF InputInv
  <2>2. part # "merge" /\ InputInv => DeliversAll
    BY DEF InputInv, DeliversAll
  <2> QED BY <2>1, <2>2
<1> QED BY <1>1, InputInvariant, PTL
=============================================================================
