------------------------- MODULE FactorEngineProofs -------------------------
(* The factor engine, for every number of threads and codes, every schedule  *)
(* of times and every order of records.                                      *)
EXTENDS FactorEngine, FiniteSetTheorems, SequenceTheorems, WellFoundedInduction, TLAPS

-----------------------------------------------------------------------------
(* Finite sets of numbers in order.                                          *)

\* The numbers of S below x.
Below(S, x) == {y \in S : y < x}

\* A bigger number has more numbers below it.
LEMMA RankGrows ==
    ASSUME NEW S \in SUBSET Nat, IsFiniteSet(S), NEW x \in S
    PROVE  /\ Cardinality(Below(S, x)) \in 0 .. Cardinality(S) - 1
           /\ \A y \in S : y < x => Cardinality(Below(S, y)) < Cardinality(Below(S, x))
<1>1. ASSUME NEW A \in SUBSET S, NEW B \in SUBSET A, NEW z \in A, z \notin B
      PROVE  Cardinality(B) < Cardinality(A) /\ Cardinality(B) \in Nat /\ Cardinality(A) \in Nat
  <2>1. IsFiniteSet(A)
    BY FS_Subset
  <2>2. Cardinality(B) <= Cardinality(A) /\ (Cardinality(A) = Cardinality(B) => A = B) /\ IsFiniteSet(B)
    BY <2>1, FS_Subset
  <2>3. Cardinality(A) \in Nat /\ Cardinality(B) \in Nat
    BY <2>1, <2>2, FS_CardinalityType
  <2> QED BY <1>1, <2>2, <2>3
<1>2. Cardinality(Below(S, x)) < Cardinality(S) /\ Cardinality(Below(S, x)) \in Nat
      /\ Cardinality(S) \in Nat
  <2>1. x \notin Below(S, x) /\ Below(S, x) \in SUBSET S
    BY DEF Below
  <2> QED BY <1>1, <2>1
<1>3. ASSUME NEW y \in S, y < x
      PROVE  Cardinality(Below(S, y)) < Cardinality(Below(S, x))
  <2>1. y \in Below(S, x) /\ y \notin Below(S, y) /\ Below(S, x) \in SUBSET S
    BY <1>3 DEF Below
  <2>2. \A z \in S : z < y => z < x
    BY <1>3
  <2>3. Below(S, y) \in SUBSET Below(S, x)
    BY <2>2 DEF Below
  <2> QED BY <1>1, <2>1, <2>3
<1> QED BY <1>2, <1>3

\* A set of numbers that is finite and not empty has a largest element.
LEMMA LargestExists ==
    ASSUME NEW S \in SUBSET Nat, IsFiniteSet(S), S # {}
    PROVE  Max(S) \in S /\ \A y \in S : y <= Max(S)
<1>1. Cardinality(S) \in Nat
  BY FS_CardinalityType
<1>2. PICK D \in SUBSET Nat : D = {Cardinality(S) - Cardinality(Below(S, x)) : x \in S}
  <2>1. \A x \in S : Cardinality(Below(S, x)) \in 0 .. Cardinality(S) - 1
    BY RankGrows
  <2>2. \A x \in S : Cardinality(S) - Cardinality(Below(S, x)) \in Nat
    BY <1>1, <2>1
  <2> QED BY <2>2
<1>3. PICK d \in D : \A e \in D : ~ (<<e, d>> \in OpToRel(<, Nat))
  <2>1. D # {}
    BY <1>2
  <2> QED BY <2>1, NatLessThanWellFounded, WFMin
<1>4. PICK x \in S : d = Cardinality(S) - Cardinality(Below(S, x))
  BY <1>2
<1>5. \A e \in D : ~ (e < d)
  BY <1>3 DEF OpToRel
<1>6. ASSUME NEW y \in S
      PROVE  y <= x
  <2>1. SUFFICES ASSUME x < y PROVE FALSE
    OBVIOUS
  <2>2. Cardinality(Below(S, x)) < Cardinality(Below(S, y))
        /\ Cardinality(Below(S, y)) \in Int /\ Cardinality(Below(S, x)) \in Int
    BY <2>1, RankGrows
  <2>3. Cardinality(S) - Cardinality(Below(S, y)) \in D
    BY <1>2
  <2> QED BY <1>1, <1>4, <1>5, <2>2, <2>3
<1>7. \A y \in S : x >= y
  BY <1>6
<1> QED BY <1>7 DEF Max

\* The sorted vector of a set has its elements, each once, in order.
LEMMA AscendingVector ==
    ASSUME NEW S \in SUBSET Nat, IsFiniteSet(S)
    PROVE  /\ Cardinality(S) \in Nat
           /\ Ascending(S) \in [1 .. Cardinality(S) -> S]
           /\ \A i, j \in 1 .. Cardinality(S) : i < j => Ascending(S)[i] < Ascending(S)[j]
           /\ \A x \in S : \E i \in 1 .. Cardinality(S) : Ascending(S)[i] = x
           /\ \A i \in 1 .. Cardinality(S) : Cardinality(Below(S, Ascending(S)[i])) = i - 1
<1>1. PICK n \in Nat : n = Cardinality(S)
  BY FS_CardinalityType
<1>2. PICK r \in [S -> 0 .. n - 1] : r = [x \in S |-> Cardinality(Below(S, x))]
  BY <1>1, RankGrows
<1>3. \A x, y \in S : (x < y => r[x] < r[y]) /\ (r[x] = r[y] => x = y)
  <2>1. \A x, y \in S : x < y => r[x] < r[y]
    BY <1>2, RankGrows
  <2>2. \A x, y \in S : x < y \/ x = y \/ y < x
    OBVIOUS
  <2>3. \A x, y \in S : r[x] = r[y] => ~ (r[x] < r[y]) /\ ~ (r[y] < r[x])
    OBVIOUS
  <2> QED BY <2>1, <2>2, <2>3
<1>4. \A k \in 0 .. n - 1 : \E x \in S : r[x] = k
  <2>1. r \in Injection(S, 0 .. n - 1)
    BY <1>3 DEF Injection, IsInjective
  <2>2. IsFiniteSet(0 .. n - 1) /\ Cardinality(0 .. n - 1) = n
    <3>1. Cardinality(0 .. n - 1) = (IF 0 > n - 1 THEN 0 ELSE n - 1 - 0 + 1) /\ IsFiniteSet(0 .. n - 1)
      BY FS_Interval
    <3> QED BY <3>1
  <2>3. r \in Surjection(S, 0 .. n - 1)
    BY <1>1, <2>1, <2>2, FS_Injection
  <2> QED BY <2>3 DEF Surjection
<1>5. ASSUME NEW i \in 1 .. n
      PROVE  Ascending(S)[i] \in S /\ r[Ascending(S)[i]] = i - 1
  <2>1. Ascending(S)[i] = CHOOSE x \in S : Cardinality(Below(S, x)) = i - 1
    BY <1>1 DEF Ascending, Below
  <2>2. \E x \in S : Cardinality(Below(S, x)) = i - 1
    BY <1>2, <1>4
  <2>3. Ascending(S)[i] \in S /\ Cardinality(Below(S, Ascending(S)[i])) = i - 1
    BY <2>1, <2>2
  <2> QED BY <1>2, <2>3
<1>6. Ascending(S) \in [1 .. n -> S]
  <2> DEFINE e(i) == CHOOSE x \in S : Cardinality({y \in S : y < x}) = i - 1
  <2>1. Ascending(S) = [i \in 1 .. n |-> e(i)]
    BY <1>1 DEF Ascending
  <2> HIDE DEF e
  <2>2. \A i \in 1 .. n : e(i) \in S
    BY <1>5, <2>1
  <2> QED BY <2>1, <2>2
<1>7. \A i, j \in 1 .. n : i < j => Ascending(S)[i] < Ascending(S)[j]
  <2>1. SUFFICES ASSUME NEW i \in 1 .. n, NEW j \in 1 .. n, i < j
                 PROVE  Ascending(S)[i] < Ascending(S)[j]
    OBVIOUS
  <2>2. /\ Ascending(S)[i] \in S /\ r[Ascending(S)[i]] = i - 1
        /\ Ascending(S)[j] \in S /\ r[Ascending(S)[j]] = j - 1
    BY <1>5
  <2>3. \A a, b \in S : r[a] = i - 1 /\ r[b] = j - 1 => a < b
    <3>1. SUFFICES ASSUME NEW a \in S, NEW b \in S, r[a] = i - 1, r[b] = j - 1
                   PROVE  a < b
      OBVIOUS
    <3>2. r[a] < r[b]
      BY <2>1, <3>1
    <3>3. a # b /\ ~ (b < a)
      BY <1>3, <3>2
    <3> QED BY <3>3
  <2> QED BY <2>2, <2>3
<1>8. ASSUME NEW x \in S
      PROVE  \E i \in 1 .. n : Ascending(S)[i] = x
  <2>1. r[x] + 1 \in 1 .. n
    BY <1>2
  <2>2. r[Ascending(S)[r[x] + 1]] = r[x] /\ Ascending(S)[r[x] + 1] \in S
    BY <1>5, <2>1
  <2> QED BY <1>3, <2>1, <2>2
<1>9. \A i \in 1 .. n : Cardinality(Below(S, Ascending(S)[i])) = i - 1
  BY <1>2, <1>5
<1> QED BY <1>1, <1>6, <1>7, <1>8, <1>9

\* There is only one way to sort a set.
LEMMA AscendingUnique ==
    ASSUME NEW S \in SUBSET Nat, IsFiniteSet(S), NEW n \in Nat, NEW t \in [1 .. n -> S],
           \A i, j \in 1 .. n : i < j => t[i] < t[j],
           \A x \in S : \E i \in 1 .. n : t[i] = x
    PROVE  t = Ascending(S)
<1>1. \A i, j \in 1 .. n : t[i] = t[j] => i = j
  <2>1. \A i \in 1 .. n : t[i] \in Nat
    OBVIOUS
  <2>2. \A i, j \in 1 .. n : i < j \/ i = j \/ j < i
    OBVIOUS
  <2> QED BY <2>1, <2>2
<1>2. ASSUME NEW i \in 1 .. n
      PROVE  Cardinality(Below(S, t[i])) = i - 1
  <2>1. PICK f \in [1 .. i - 1 -> Below(S, t[i])] : f = [j \in 1 .. i - 1 |-> t[j]]
    <3>1. \A j \in 1 .. i - 1 : t[j] \in Below(S, t[i])
      BY DEF Below
    <3> QED BY <3>1
  <2>2. f \in Bijection(1 .. i - 1, Below(S, t[i]))
    <3>1. \A j, k \in 1 .. i - 1 : f[j] = f[k] => j = k
      BY <1>1, <2>1
    <3>2. ASSUME NEW y \in Below(S, t[i])
          PROVE  \E j \in 1 .. i - 1 : f[j] = y
      <4>1. PICK j \in 1 .. n : t[j] = y
        BY DEF Below
      <4>2. y < t[i] /\ y \in Nat /\ t[i] \in Nat
        BY DEF Below
      <4>3. ~ (i < j) /\ i # j
        BY <4>1, <4>2
      <4> QED BY <2>1, <4>1, <4>3
    <3> QED BY <3>1, <3>2 DEF Bijection, Injection, Surjection, IsInjective
  <2>3. IsFiniteSet(1 .. i - 1) /\ Cardinality(1 .. i - 1) = i - 1
    <3>1. IsFiniteSet(1 .. i - 1) /\ Cardinality(1 .. i - 1) = (IF 1 > i - 1 THEN 0 ELSE i - 1 - 1 + 1)
      BY FS_Interval
    <3> QED BY <3>1
  <2> QED BY <2>2, <2>3, FS_Bijection DEF ExistsBijection
<1>3. Cardinality(S) = n
  <2>1. t \in Bijection(1 .. n, S)
    BY <1>1 DEF Bijection, Injection, Surjection, IsInjective
  <2> QED BY <2>1, FS_CountingElements DEF ExistsBijection
<1>4. ASSUME NEW i \in 1 .. n
      PROVE  t[i] = Ascending(S)[i]
  <2>1. Ascending(S)[i] \in S /\ Cardinality(Below(S, Ascending(S)[i])) = i - 1
    BY <1>3, AscendingVector
  <2>2. PICK j \in 1 .. n : t[j] = Ascending(S)[i]
    BY <2>1
  <2>3. j = i
    BY <1>2, <2>1, <2>2
  <2> QED BY <2>2, <2>3
<1>5. Ascending(S) \in [1 .. n -> S]
  BY <1>3, AscendingVector
<1> QED BY <1>4, <1>5

-----------------------------------------------------------------------------
(* The configuration: vectors of points, the order of the queues.            *)

\* A function on 1 .. n is a sequence of length n.
LEMMA FunctionIsSeq ==
    ASSUME NEW S, NEW n \in Nat, NEW f \in [1 .. n -> S]
    PROVE  f \in Seq(S) /\ Len(f) = n
<1>1. f \in Seq(S)
  BY SeqDef
<1>2. DOMAIN f = 1 .. Len(f) /\ Len(f) \in Nat
  BY <1>1, LenProperties
<1>3. 1 .. n = 1 .. Len(f)
  BY <1>2
<1> QED BY <1>1, <1>2, <1>3

\* There are finitely many time points, the send points among them.
LEMMA PointsFinite ==
    /\ TimePoints \in SUBSET Nat /\ IsFiniteSet(TimePoints)
    /\ SendPoints \in SUBSET TimePoints
    /\ \A w \in Threads : ComputePoints[w] \in SUBSET TimePoints
<1>1. TimePoints \in SUBSET Nat
  BY EngineAssumption DEF TimePoints
<1>2. PICK m \in Nat : \A s \in SendPoints : s <= m
  BY EngineAssumption, LargestExists
<1>3. \A p \in TimePoints : p <= m
  <2>1. SUFFICES ASSUME NEW p \in TimePoints
                 PROVE  p <= m
    OBVIOUS
  <2>2. PICK s \in SendPoints : p <= s
    BY EngineAssumption
  <2>3. p \in Nat /\ s \in Nat /\ s <= m
    BY <1>1, <1>2, EngineAssumption
  <2> QED BY <2>2, <2>3
<1>4. IsFiniteSet(TimePoints)
  BY <1>1, <1>2, <1>3, FS_BoundedSetOfNaturals
<1> QED BY <1>1, <1>4 DEF TimePoints

\* The send points, sorted: each has its batch.
LEMMA SendVectorFacts ==
    /\ NumSends \in Nat \ {0} /\ Batches = 1 .. NumSends /\ Batches \in SUBSET Nat
    /\ IsFiniteSet(Batches)
    /\ \A b \in Batches : SendVector[b] \in SendPoints /\ SendVector[b] \in Nat
    /\ \A a, b \in Batches : a < b <=> SendVector[a] < SendVector[b]
    /\ \A a, b \in Batches : SendVector[a] = SendVector[b] => a = b
    /\ \A p \in SendPoints : BatchOf(p) \in Batches /\ SendVector[BatchOf(p)] = p
<1>1. PICK n \in Nat : n = Cardinality(SendPoints) /\ n # 0
  BY EngineAssumption, FS_CardinalityType, FS_EmptySet
<1>2. /\ SendVector \in [1 .. n -> SendPoints]
      /\ \A i, j \in 1 .. n : i < j => SendVector[i] < SendVector[j]
      /\ \A x \in SendPoints : \E i \in 1 .. n : SendVector[i] = x
  BY <1>1, AscendingVector, EngineAssumption DEF SendVector
<1>3. NumSends = n /\ Batches = 1 .. n
  BY <1>1, <1>2, FunctionIsSeq DEF NumSends, Batches
<1>4. IsFiniteSet(Batches)
  BY <1>3, FS_Interval
<1>5. \A b \in Batches : SendVector[b] \in SendPoints /\ SendVector[b] \in Nat
  BY <1>2, <1>3, EngineAssumption
<1>6. ASSUME NEW a \in Batches, NEW b \in Batches
      PROVE  (a < b <=> SendVector[a] < SendVector[b]) /\ (SendVector[a] = SendVector[b] => a = b)
  <2>1. a \in Nat /\ b \in Nat /\ SendVector[a] \in Nat /\ SendVector[b] \in Nat
    BY <1>3, <1>5
  <2>2. (a < b => SendVector[a] < SendVector[b]) /\ (b < a => SendVector[b] < SendVector[a])
    BY <1>2, <1>3
  <2>3. a < b \/ a = b \/ b < a
    BY <2>1
  <2> QED BY <2>1, <2>2, <2>3
<1>7. \A p \in SendPoints : BatchOf(p) \in Batches /\ SendVector[BatchOf(p)] = p
  BY <1>2, <1>3 DEF BatchOf
<1> QED BY <1>1, <1>3, <1>4, <1>5, <1>6, <1>7

\* All time points, sorted.
LEMMA AllVectorFacts ==
    /\ Len(AllVector) \in Nat
    /\ \A k \in 1 .. Len(AllVector) : AllVector[k] \in TimePoints /\ AllVector[k] \in Nat
    /\ \A i, j \in 1 .. Len(AllVector) : i < j <=> AllVector[i] < AllVector[j]
    /\ \A p \in TimePoints : \E k \in 1 .. Len(AllVector) : AllVector[k] = p
<1>1. PICK n \in Nat : n = Cardinality(TimePoints)
  BY PointsFinite, FS_CardinalityType
<1>2. /\ AllVector \in [1 .. n -> TimePoints]
      /\ \A i, j \in 1 .. n : i < j => AllVector[i] < AllVector[j]
      /\ \A x \in TimePoints : \E i \in 1 .. n : AllVector[i] = x
  BY <1>1, AscendingVector, PointsFinite DEF AllVector
<1>3. Len(AllVector) = n
  BY <1>2, FunctionIsSeq
<1>4. \A k \in 1 .. n : AllVector[k] \in TimePoints /\ AllVector[k] \in Nat
  BY <1>2, PointsFinite
<1>5. ASSUME NEW i \in 1 .. n, NEW j \in 1 .. n
      PROVE  i < j <=> AllVector[i] < AllVector[j]
  <2>1. AllVector[i] \in Nat /\ AllVector[j] \in Nat
    BY <1>4
  <2>2. (i < j => AllVector[i] < AllVector[j]) /\ (j < i => AllVector[j] < AllVector[i])
    BY <1>2
  <2>3. i < j \/ i = j \/ j < i
    OBVIOUS
  <2> QED BY <2>1, <2>2, <2>3
<1> QED BY <1>2, <1>3, <1>4, <1>5

\* The latest send point that a time has reached divides the send points.
LEMMA LastDueFacts ==
    ASSUME NEW t \in Nat, NEW s \in Batches, t >= SendVector[s]
    PROVE  /\ LastDue(t) \in Batches
           /\ \A b \in Batches : b <= LastDue(t) <=> SendVector[b] <= t
<1>1. PICK D \in SUBSET Batches : D = {b \in Batches : SendVector[b] <= t}
  OBVIOUS
<1>2. SendVector[s] \in Nat
  BY SendVectorFacts
<1>3. s \in D
  BY <1>1, <1>2
<1>4. IsFiniteSet(D) /\ D \in SUBSET Nat
  BY SendVectorFacts, FS_Subset
<1>5. PICK m \in D : \A b \in D : b <= m
  BY <1>3, <1>4, LargestExists
<1>6. m \in Batches /\ SendVector[m] <= t /\ (m = NumSends \/ SendVector[m + 1] > t)
  <2>1. m \in 1 .. NumSends /\ NumSends \in Nat /\ SendVector[m] <= t
    BY <1>1, SendVectorFacts
  <2>2. CASE m # NumSends
    <3>1. m + 1 \in Batches /\ SendVector[m + 1] \in Nat
      BY <2>1, <2>2, SendVectorFacts
    <3>2. m + 1 \notin D
      BY <1>5, <2>1
    <3> QED BY <1>1, <2>1, <3>1, <3>2
  <2> QED BY <1>1, <2>1, <2>2
<1>7. PICK l \in Batches : l = LastDue(t) /\ SendVector[l] <= t /\ (l = NumSends \/ SendVector[l + 1] > t)
  BY <1>6 DEF LastDue
<1>8. ASSUME NEW b \in Batches
      PROVE  b <= l <=> SendVector[b] <= t
  <2>1. b \in 1 .. NumSends /\ l \in 1 .. NumSends /\ NumSends \in Nat
        /\ SendVector[b] \in Nat /\ SendVector[l] \in Nat
    BY SendVectorFacts
  <2>2. CASE b <= l
    <3>1. b < l => SendVector[b] < SendVector[l]
      BY SendVectorFacts
    <3>2. b < l \/ b = l
      BY <2>1, <2>2
    <3> QED BY <1>7, <2>1, <2>2, <3>1, <3>2
  <2>3. CASE l < b
    <3>1. l + 1 \in Batches /\ SendVector[l + 1] \in Nat /\ SendVector[l + 1] > t
      BY <1>7, <2>1, <2>3, SendVectorFacts, SMTT(40)
    <3>2. l + 1 < b => SendVector[l + 1] < SendVector[b]
      BY <3>1, SendVectorFacts
    <3>3. l + 1 < b \/ l + 1 = b
      BY <2>1, <2>3
    <3> QED BY <2>1, <2>3, <3>1, <3>2, <3>3
  <2> QED BY <2>1, <2>2, <2>3
<1> QED BY <1>7, <1>8

\* The scan thread visits as many queues as there are threads.
LEMMA QueueOrderFacts ==
    /\ Cardinality(Threads) \in Nat
    /\ Len(QueueOrder) = Cardinality(Threads)
    /\ \A k \in 1 .. Len(QueueOrder) : QueueOrder[k] \in Threads
<1>1. ASSUME NEW S \in SUBSET Threads
      PROVE  /\ IsFiniteSet(S) /\ Cardinality(S) \in Nat
             /\ SetToSeq(S) \in Seq(S) /\ Len(SetToSeq(S)) = Cardinality(S)
  <2>1. IsFiniteSet(S) /\ Cardinality(S) \in Nat
    BY EngineAssumption, FS_Subset, FS_CardinalityType
  <2>2. PICK n \in Nat : ExistsBijection(1 .. n, S)
    BY <2>1, FS_NatBijection
  <2>3. n = Cardinality(S)
    BY <2>2, FS_CountingElements
  <2>4. \E f \in [1 .. Cardinality(S) -> S] : IsInjective(f)
    BY <2>2, <2>3 DEF ExistsBijection, Bijection, Injection
  <2>5. SetToSeq(S) \in [1 .. Cardinality(S) -> S]
    BY <2>4 DEF SetToSeq
  <2> QED BY <2>1, <2>5, FunctionIsSeq
<1>2. TsThreads \in SUBSET Threads /\ CsThreads \in SUBSET Threads
  BY DEF Threads
<1>3. SetToSeq(TsThreads) \in Seq(Threads) /\ SetToSeq(CsThreads) \in Seq(Threads)
  BY <1>1, <1>2, SeqMonotonic
<1>4. QueueOrder \in Seq(Threads) /\ Len(QueueOrder) = Cardinality(TsThreads) + Cardinality(CsThreads)
  BY <1>1, <1>2, <1>3, ConcatProperties DEF QueueOrder
<1>5. Cardinality(Threads) = Cardinality(TsThreads) + Cardinality(CsThreads)
  <2>1. TsThreads \cap CsThreads = {}
    BY EngineAssumption
  <2>2. Cardinality(TsThreads \cap CsThreads) = 0
    BY <2>1, FS_EmptySet
  <2>3. Cardinality(Threads) = Cardinality(TsThreads) + Cardinality(CsThreads)
                               - Cardinality(TsThreads \cap CsThreads)
    BY <1>1, <1>2, FS_Union DEF Threads
  <2> QED BY <1>1, <1>2, <2>2, <2>3
<1> QED BY <1>1, <1>4, <1>5, ElementOfSeq

-----------------------------------------------------------------------------
(* Types.                                                                    *)

Records == [time : Nat, group : Groups]
TimeItems == [kind : {"time"}, at : Nat, send : Batches \union {NoBatch}]
Items == {Data} \union TimeItems
Rows == [batch : Batches, code : Nat, values : [Threads -> Nat]]

TypeMain ==
    /\ mpc \in {"idle", "timer", "stop", "join", "joinScan", "save", "done"}
    /\ record \in Records /\ arrived \in Seq(Records) /\ Len(arrived) <= MaxRecords
    /\ sendIdx \in Nat \ {0} /\ (mpc = "idle" => sendIdx \in Batches)
    /\ timeIdx \in 1 .. Len(AllVector) + 1 /\ threshold \in Nat
    /\ sent \in Seq(Batches)
    /\ stopFlag \in BOOLEAN /\ scanStop \in BOOLEAN

TypeWork ==
    /\ input \in [Threads -> Seq(Items)]
    /\ wpc \in [Threads -> {"idle", "write", "notify", "exited"}]
    /\ seen \in [Threads -> Nat] /\ computed \in [Threads -> Nat]
    /\ batch \in [Threads -> Batches \union {NoBatch}]
    /\ \A w \in Threads : batch[w] \in Batches <=> wpc[w] \in {"write", "notify"}
    /\ cache \in [Batches -> [Threads -> Nat]]
    /\ results \in [Threads -> Seq(Batches)]

TypeScan ==
    /\ spc \in {"scan", "exited"} /\ cursor \in Nat \ {0}
    /\ counters \in [Batches -> Nat]
    /\ resultData \in Seq(Rows) /\ kept \in Seq(Batches)

TypeSave ==
    /\ saveIdx \in Nat \ {0} /\ pos \in Nat
    /\ files \in [SendPoints -> Seq(Rows \union {NoRow})]

TypeInv == TypeMain /\ TypeWork /\ TypeScan /\ TypeSave

\* Initially every variable has its type.
LEMMA TypeInit == Init => TypeInv
<1> SUFFICES ASSUME Init PROVE TypeInv
  OBVIOUS
<1>1. TypeMain
  <2>1. NoRecord \in Records
    BY DEF NoRecord, Records, Groups
  <2>2. Len(<<>>) = 0 /\ MaxRecords \in Nat
    BY EngineAssumption
  <2>3. 1 \in Batches /\ 1 \in 1 .. Len(AllVector) + 1
    BY SendVectorFacts, AllVectorFacts
  <2>4. arrived \in Seq(Records) /\ Len(arrived) <= MaxRecords /\ sent \in Seq(Batches)
    BY <2>2 DEF Init
  <2>5. mpc = "idle" /\ record \in Records /\ threshold \in Nat
    BY <2>1 DEF Init
  <2>6. stopFlag \in BOOLEAN /\ scanStop \in BOOLEAN
    BY DEF Init
  <2>7. sendIdx \in Batches /\ sendIdx \in Nat \ {0} /\ timeIdx \in 1 .. Len(AllVector) + 1
    BY <2>3 DEF Init
  <2> QED BY <2>4, <2>5, <2>6, <2>7 DEF TypeMain
<1>2. TypeWork
  <2>1. NoBatch \notin Batches
    BY SendVectorFacts DEF NoBatch
  <2>2. Unwritten \in Nat
    BY EngineAssumption DEF Unwritten
  <2> QED BY <2>1, <2>2 DEF Init, TypeWork
<1>3. TypeScan
  BY DEF Init, TypeScan
<1>4. TypeSave
  BY DEF Init, TypeSave
<1> QED BY <1>1, <1>2, <1>3, <1>4 DEF TypeInv

\* Parts of the state that an action leaves alone keep their types.
LEMMA TypeUnchanged ==
    ASSUME TypeInv
    PROVE  /\ UNCHANGED <<mainVars, stopVars>> => TypeMain'
           /\ UNCHANGED <<input, workVars, results>> => TypeWork'
           /\ UNCHANGED scanVars => TypeScan'
           /\ UNCHANGED saveVars => TypeSave'
<1>1. UNCHANGED <<mainVars, stopVars>> => TypeMain'
  BY DEF TypeInv, TypeMain, mainVars, stopVars
<1>2. UNCHANGED <<input, workVars, results>> => TypeWork'
  BY DEF TypeInv, TypeWork, workVars
<1>3. UNCHANGED scanVars => TypeScan'
  BY DEF TypeInv, TypeScan, scanVars
<1>4. UNCHANGED saveVars => TypeSave'
  BY DEF TypeInv, TypeSave, saveVars
<1> QED BY <1>1, <1>2, <1>3, <1>4

\* A record arrives.
LEMMA TypeArrive ==
    ASSUME TypeInv, NEW t \in 0 .. MaxTime, NEW g \in Groups, Arrive(t, g)
    PROVE  TypeInv'
<1>1. t \in Nat /\ sendIdx \in Batches /\ MaxTime \in Nat
  BY EngineAssumption DEF TypeInv, TypeMain, Arrive
<1>2. SendVector[sendIdx] \in Nat
  BY <1>1, SendVectorFacts
<1>3. threshold' \in Nat /\ sendIdx' \in Nat \ {0}
  <2>1. t >= SendVector[sendIdx] => LastDue(t) \in Batches /\ LastDue(t) + 1 \in Nat \ {0} /\ SendVector[LastDue(t)] \in Nat
    BY <1>1, LastDueFacts, SendVectorFacts
  <2>2. sendIdx \in Nat \ {0}
    BY DEF TypeInv, TypeMain
  <2> QED BY <1>1, <1>2, <2>1, <2>2 DEF Arrive, ThresholdFor
<1>4. record' \in Records /\ arrived' = Append(arrived, record') /\ arrived \in Seq(Records)
  BY <1>1 DEF Arrive, Records, TypeInv, TypeMain
<1>5. arrived' \in Seq(Records) /\ Len(arrived') <= MaxRecords
  <2>1. Len(arrived') = Len(arrived) + 1 /\ arrived' \in Seq(Records) /\ Len(arrived) \in Nat
    BY <1>4, AppendProperties, LenProperties
  <2>2. Len(arrived) < MaxRecords /\ MaxRecords \in Nat
    BY EngineAssumption DEF Arrive
  <2> QED BY <2>1, <2>2
<1>6. TypeMain'
  BY <1>3, <1>4, <1>5 DEF TypeInv, TypeMain, Arrive, stopVars
<1> QED BY <1>6, TypeUnchanged DEF Arrive, TypeInv

\* What EmitTimePoint does, with its batch named.
LEMMA EmitFacts ==
    ASSUME TypeInv, EmitTimePoint
    PROVE  \E p \in TimePoints, b \in Batches \union {NoBatch} :
             /\ timeIdx \in 1 .. Len(AllVector) /\ p = AllVector[timeIdx] /\ p \in Nat
             /\ record.time >= p
             /\ b \in Batches => p \in SendPoints /\ p >= threshold /\ SendVector[b] = p
             /\ b = NoBatch => p \notin SendPoints \/ p < threshold
             /\ input' = [w \in Threads |-> Append(input[w], [kind |-> "time", at |-> p, send |-> b])]
             /\ sent' = IF b = NoBatch THEN sent ELSE Append(sent, b)
             /\ [kind |-> "time", at |-> p, send |-> b] \in TimeItems
             /\ timeIdx' = timeIdx + 1 /\ timeIdx' \in 1 .. Len(AllVector) + 1
<1> DEFINE p == AllVector[timeIdx]
           b == IF p \in SendPoints /\ p >= threshold THEN BatchOf(p) ELSE NoBatch
<1>1. timeIdx \in 1 .. Len(AllVector) /\ record.time >= p /\ timeIdx + 1 \in 1 .. Len(AllVector) + 1
  BY AllVectorFacts DEF TypeInv, TypeMain, EmitTimePoint, PointDue
<1>2. p \in TimePoints /\ p \in Nat /\ threshold \in Nat
  BY <1>1, AllVectorFacts DEF TypeInv, TypeMain
<1>3. b \in Batches \union {NoBatch} /\ NoBatch \notin Batches
      /\ (b \in Batches => p \in SendPoints /\ p >= threshold /\ SendVector[b] = p)
      /\ (b = NoBatch => p \notin SendPoints \/ p < threshold)
  BY <1>2, SendVectorFacts DEF NoBatch
<1>4. /\ input' = [w \in Threads |-> Append(input[w], [kind |-> "time", at |-> p, send |-> b])]
      /\ sent' = IF b = NoBatch THEN sent ELSE Append(sent, b)
      /\ timeIdx' = timeIdx + 1
  BY DEF EmitTimePoint
<1>5. [kind |-> "time", at |-> p, send |-> b] \in TimeItems
  BY <1>2, <1>3 DEF TimeItems
<1> HIDE DEF p, b
<1> QED BY <1>1, <1>2, <1>3, <1>4, <1>5 DEF p

\* A time point goes to the threads.
LEMMA TypeEmit ==
    ASSUME TypeInv, EmitTimePoint
    PROVE  TypeInv'
<1>1. PICK p \in TimePoints, b \in Batches \union {NoBatch} :
             /\ input' = [w \in Threads |-> Append(input[w], [kind |-> "time", at |-> p, send |-> b])]
             /\ sent' = IF b = NoBatch THEN sent ELSE Append(sent, b)
             /\ [kind |-> "time", at |-> p, send |-> b] \in TimeItems
             /\ timeIdx' \in 1 .. Len(AllVector) + 1
  BY EmitFacts
<1>2. sent' \in Seq(Batches)
  BY <1>1, AppendProperties DEF TypeInv, TypeMain
<1>3. TypeMain'
  BY <1>1, <1>2 DEF TypeInv, TypeMain, EmitTimePoint, stopVars
<1>4. input' \in [Threads -> Seq(Items)]
  <2>1. \A w \in Threads : Append(input[w], [kind |-> "time", at |-> p, send |-> b]) \in Seq(Items)
    BY <1>1, AppendProperties DEF TypeInv, TypeWork, Items
  <2> QED BY <1>1, <2>1
<1>5. TypeWork'
  BY <1>4 DEF TypeInv, TypeWork, EmitTimePoint, workVars
<1> QED BY <1>3, <1>5, TypeUnchanged DEF EmitTimePoint, TypeInv

\* A record goes to the threads it is for.
LEMMA TypeDispatch ==
    ASSUME TypeInv, DispatchRecord
    PROVE  TypeInv'
<1>1. sendIdx \in Batches
  BY SendVectorFacts DEF TypeInv, TypeMain, DispatchRecord
<1>2. TypeMain'
  BY <1>1 DEF TypeInv, TypeMain, DispatchRecord, stopVars
<1>3. input' \in [Threads -> Seq(Items)]
  <2>1. \A w \in Threads : Append(input[w], Data) \in Seq(Items) /\ input[w] \in Seq(Items)
    BY AppendProperties DEF TypeInv, TypeWork, Items
  <2> QED BY <2>1 DEF DispatchRecord
<1>4. TypeWork'
  BY <1>3 DEF TypeInv, TypeWork, DispatchRecord, workVars
<1> QED BY <1>2, <1>4, TypeUnchanged DEF DispatchRecord, TypeInv

\* The other steps of the main thread until the rows are saved.
LEMMA TypeStop ==
    ASSUME TypeInv, LastPointReached \/ FeedEnds \/ StopThreads \/ JoinThreads \/ JoinScan
    PROVE  TypeInv'
<1>1. TypeMain'
  <2>1. CASE LastPointReached
    BY <2>1 DEF TypeInv, TypeMain, LastPointReached, stopVars
  <2>2. CASE FeedEnds
    BY <2>2 DEF TypeInv, TypeMain, FeedEnds, stopVars
  <2>3. CASE StopThreads
    BY <2>3 DEF TypeInv, TypeMain, StopThreads
  <2>4. CASE JoinThreads
    BY <2>4 DEF TypeInv, TypeMain, JoinThreads
  <2>5. CASE JoinScan
    BY <2>5 DEF TypeInv, TypeMain, JoinScan, stopVars
  <2> QED BY <2>1, <2>2, <2>3, <2>4, <2>5
<1>2. UNCHANGED <<input, workVars, results, scanVars, saveVars>>
  BY DEF LastPointReached, FeedEnds, StopThreads, JoinThreads, JoinScan
<1> QED BY <1>1, <1>2, TypeUnchanged DEF TypeInv

\* The rows of a batch.
LEMMA RowsOfType ==
    ASSUME TypeInv, NEW b \in Batches
    PROVE  /\ ValidRows(b) \in Nat /\ RowsOf(b) \in Seq(Rows) /\ Len(RowsOf(b)) = ValidRows(b)
           /\ \A i \in 1 .. ValidRows(b) : RowsOf(b)[i] = [batch |-> b, code |-> i, values |-> cache[b]]
<1>1. ValidRows(b) \in Nat
  BY EngineAssumption DEF ValidRows
<1>2. \A i \in 1 .. ValidRows(b) : [batch |-> b, code |-> i, values |-> cache[b]] \in Rows
  BY <1>1 DEF TypeInv, TypeWork, Rows
<1>3. RowsOf(b) \in [1 .. ValidRows(b) -> Rows]
  BY <1>2 DEF RowsOf
<1> QED BY <1>1, <1>3, FunctionIsSeq DEF RowsOf

\* A turn of the save loop, and its end.
LEMMA TypeSaving ==
    ASSUME TypeInv, NEW ok \in BOOLEAN, SaveBatch(ok) \/ FinishSave(ok)
    PROVE  TypeInv'
<1>1. CASE SaveBatch(ok)
  <2>1. saveIdx \in Batches
    BY <1>1, SendVectorFacts DEF TypeInv, TypeSave, SaveBatch
  <2>2. RowsPassed(saveIdx) \in Nat
    BY <2>1, RowsOfType DEF RowsPassed
  <2>3. RowsAt(saveIdx) \in Seq(Rows \union {NoRow})
    <3>1. ValidRows(saveIdx) \in Nat
      BY <2>1, RowsOfType
    <3>2. \A i \in 1 .. ValidRows(saveIdx) :
            pos + i <= Len(resultData) => resultData[pos + i] \in Rows
      BY <3>1, LenProperties, ElementOfSeq DEF TypeInv, TypeScan, TypeSave
    <3>3. RowsAt(saveIdx) \in [1 .. ValidRows(saveIdx) -> Rows \union {NoRow}]
      BY <3>1, <3>2 DEF RowsAt
    <3> QED BY <3>1, <3>3, FunctionIsSeq
  <2>4. files' \in [SendPoints -> Seq(Rows \union {NoRow})]
    <3>1. files' = files \/ files' = [files EXCEPT ![SendVector[saveIdx]] = RowsAt(saveIdx)]
      BY <1>1 DEF SaveBatch
    <3> QED BY <2>3, <3>1 DEF TypeInv, TypeSave
  <2>5. saveIdx' \in Nat \ {0} /\ pos' \in Nat
    BY <1>1, <2>2 DEF TypeInv, TypeSave, SaveBatch
  <2>6. TypeSave'
    BY <2>4, <2>5 DEF TypeSave
  <2> QED BY <1>1, <2>6, TypeUnchanged DEF SaveBatch, TypeInv
<1>2. CASE FinishSave(ok)
  <2>1. TypeSave'
    BY <1>2 DEF TypeInv, TypeSave, FinishSave
  <2>2. TypeMain'
    BY <1>2 DEF TypeInv, TypeMain, FinishSave, stopVars
  <2> QED BY <1>2, <2>1, <2>2, TypeUnchanged DEF FinishSave, TypeInv
<1> QED BY <1>1, <1>2

\* What TakeTimePoint takes.
LEMMA HeadItem ==
    ASSUME TypeInv, NEW w \in Threads, input[w] # <<>>
    PROVE  /\ Head(input[w]) \in Items /\ Head(input[w]) = input[w][1]
           /\ Tail(input[w]) \in Seq(Items) /\ Len(Tail(input[w])) = Len(input[w]) - 1
           /\ \A i \in 1 .. Len(Tail(input[w])) : Tail(input[w])[i] = input[w][i + 1]
           /\ Len(input[w]) \in Nat \ {0}
           /\ Head(input[w]).kind = "time" => Head(input[w]) \in TimeItems
           /\ Head(input[w]).kind = "data" => Head(input[w]) = Data
<1>1. input[w] \in Seq(Items)
  BY DEF TypeInv, TypeWork
<1>2. Head(input[w]) \in Items
  BY <1>1, HeadTailProperties
<1>3. (Head(input[w]).kind = "time" => Head(input[w]) \in TimeItems)
      /\ (Head(input[w]).kind = "data" => Head(input[w]) = Data)
  BY <1>2 DEF Items, TimeItems, Data
<1> QED BY <1>1, <1>2, <1>3, HeadTailProperties, EmptySeq

\* A step of a calculation thread.
LEMMA TypeCalc ==
    ASSUME TypeInv, NEW w \in Threads, Calc(w)
    PROVE  TypeInv'
<1>1. UNCHANGED <<mainVars, stopVars, scanVars, saveVars>>
  BY DEF Calc, TakeRecord, TakeTimePoint, WriteRows, Notify, Exit
<1>2. NoBatch \notin Batches
  BY SendVectorFacts DEF NoBatch
<1>3. TypeWork'
  <2>1. CASE TakeRecord(w)
    <3>1. Tail(input[w]) \in Seq(Items)
      BY <2>1, HeadItem DEF TakeRecord
    <3> QED BY <2>1, <3>1 DEF TypeInv, TypeWork, TakeRecord
  <2>2. CASE TakeTimePoint(w)
    <3>1. Tail(input[w]) \in Seq(Items) /\ Head(input[w]).send \in Batches \union {NoBatch}
      BY <2>2, HeadItem DEF TakeTimePoint, TimeItems
    <3>2. input' \in [Threads -> Seq(Items)]
      BY <2>2, <3>1 DEF TypeInv, TypeWork, TakeTimePoint
    <3>3. computed' \in [Threads -> Nat]
      BY <2>2 DEF TypeInv, TypeWork, TakeTimePoint
    <3>4. PICK s \in Batches \union {NoBatch} :
            batch' = [batch EXCEPT ![w] = s]
            /\ wpc' = [wpc EXCEPT ![w] = IF s = NoBatch THEN "idle" ELSE "write"]
      BY <2>2, <3>1 DEF TakeTimePoint
    <3>5. /\ wpc' \in [Threads -> {"idle", "write", "notify", "exited"}]
          /\ batch' \in [Threads -> Batches \union {NoBatch}]
          /\ \A v \in Threads : batch'[v] \in Batches <=> wpc'[v] \in {"write", "notify"}
      BY <1>2, <3>4 DEF TypeInv, TypeWork
    <3> QED BY <2>2, <3>2, <3>3, <3>5 DEF TypeInv, TypeWork, TakeTimePoint
  <2>3. CASE WriteRows(w)
    <3>1. wpc[w] = "write" /\ batch[w] \in Batches
      BY <2>3 DEF TypeInv, TypeWork, WriteRows
    <3> QED BY <2>3, <3>1 DEF TypeInv, TypeWork, WriteRows
  <2>4. CASE Notify(w)
    <3>1. Append(results[w], batch[w]) \in Seq(Batches)
      BY <2>4, AppendProperties DEF TypeInv, TypeWork, Notify
    <3> QED BY <1>2, <2>4, <3>1 DEF TypeInv, TypeWork, Notify
  <2>5. CASE Exit(w)
    BY <2>5 DEF TypeInv, TypeWork, Exit
  <2> QED BY <2>1, <2>2, <2>3, <2>4, <2>5 DEF Calc
<1> QED BY <1>1, <1>3, TypeUnchanged DEF TypeInv

\* What CollectOne does, with the queue and the batch named.
LEMMA CollectFacts ==
    ASSUME TypeInv, CollectOne
    PROVE  /\ UNCHANGED <<mainVars, stopVars, input, workVars, spc, saveVars>>
           /\ cursor' = cursor + 1 /\ spc = "scan"
           /\ \/ UNCHANGED <<results, counters, resultData, kept>>
              \/ \E q \in Threads, b \in Batches :
                   /\ results[q] \in Seq(Batches) /\ Len(results[q]) \in Nat \ {0} /\ b = results[q][1]
                   /\ results' = [results EXCEPT ![q] = Tail(@)]
                   /\ Tail(results[q]) \in Seq(Batches) /\ Len(Tail(results[q])) = Len(results[q]) - 1
                   /\ \A i \in 1 .. Len(results[q]) - 1 : Tail(results[q])[i] = results[q][i + 1]
                   /\ counters' = [counters EXCEPT ![b] = @ + 1]
                   /\ IF counters[b] + 1 = Cardinality(Threads)
                        THEN resultData' = resultData \o RowsOf(b) /\ kept' = Append(kept, b)
                        ELSE UNCHANGED <<resultData, kept>>
<1> DEFINE q == QueueOrder[cursor]
           b == Head(results[q])
<1>1. q \in Threads
  BY QueueOrderFacts DEF TypeInv, TypeScan, CollectOne
<1>2. results[q] \in Seq(Batches)
  BY <1>1 DEF TypeInv, TypeWork
<1>3. UNCHANGED <<mainVars, stopVars, input, workVars, spc, saveVars>> /\ cursor' = cursor + 1 /\ spc = "scan"
  BY DEF CollectOne
<1>4. CASE results[q] = <<>>
  BY <1>3, <1>4 DEF CollectOne
<1>5. CASE results[q] # <<>>
  <2>1. /\ b \in Batches /\ b = results[q][1] /\ Len(results[q]) \in Nat \ {0}
        /\ Tail(results[q]) \in Seq(Batches) /\ Len(Tail(results[q])) = Len(results[q]) - 1
        /\ \A i \in 1 .. Len(results[q]) - 1 : Tail(results[q])[i] = results[q][i + 1]
    BY <1>2, <1>5, HeadTailProperties, EmptySeq
  <2>2. /\ results' = [results EXCEPT ![q] = Tail(@)]
        /\ counters' = [counters EXCEPT ![b] = @ + 1]
        /\ IF LastOneIn(b)
             THEN resultData' = resultData \o RowsOf(b) /\ kept' = Append(kept, b)
             ELSE UNCHANGED <<resultData, kept>>
    BY <1>5 DEF CollectOne
  <2>3. LastOneIn(b) <=> counters[b] + 1 = Cardinality(Threads)
    BY QueueOrderFacts DEF LastOneIn
  <2> HIDE DEF q, b
  <2> QED BY <1>1, <1>2, <1>3, <2>1, <2>2, <2>3
<1> QED BY <1>4, <1>5

\* A step of the scan thread.
LEMMA TypeScanStep ==
    ASSUME TypeInv, Scan
    PROVE  TypeInv'
<1>1. CASE CollectOne
  <2>0. UNCHANGED <<mainVars, stopVars, input, workVars, spc, saveVars>> /\ cursor' = cursor + 1
    BY <1>1, CollectFacts
  <2>1. CASE UNCHANGED <<results, counters, resultData, kept>>
    <3>1. TypeScan'
      BY <2>0, <2>1 DEF TypeInv, TypeScan
    <3> QED BY <2>0, <2>1, <3>1, TypeUnchanged DEF TypeInv
  <2>2. CASE ~ UNCHANGED <<results, counters, resultData, kept>>
    <3>1. PICK q \in Threads, b \in Batches :
                   /\ results' = [results EXCEPT ![q] = Tail(@)]
                   /\ Tail(results[q]) \in Seq(Batches)
                   /\ counters' = [counters EXCEPT ![b] = @ + 1]
                   /\ IF counters[b] + 1 = Cardinality(Threads)
                        THEN resultData' = resultData \o RowsOf(b) /\ kept' = Append(kept, b)
                        ELSE UNCHANGED <<resultData, kept>>
      BY <1>1, <2>2, CollectFacts
    <3>2. resultData \o RowsOf(b) \in Seq(Rows) /\ Append(kept, b) \in Seq(Batches)
      BY RowsOfType, ConcatProperties, AppendProperties DEF TypeInv, TypeScan
    <3>3. resultData' \in Seq(Rows) /\ kept' \in Seq(Batches)
      BY <3>1, <3>2 DEF TypeInv, TypeScan
    <3>4. counters' \in [Batches -> Nat]
      BY <3>1 DEF TypeInv, TypeScan
    <3>5. TypeScan'
      BY <2>0, <3>3, <3>4 DEF TypeInv, TypeScan
    <3>6. TypeWork'
      BY <2>0, <3>1 DEF TypeInv, TypeWork, workVars
    <3> QED BY <2>0, <3>5, <3>6, TypeUnchanged DEF TypeInv
  <2> QED BY <2>1, <2>2
<1>2. CASE EndPass
  <2>1. TypeScan'
    BY <1>2 DEF TypeInv, TypeScan, EndPass
  <2> QED BY <1>2, <2>1, TypeUnchanged DEF EndPass, TypeInv
<1> QED BY <1>1, <1>2 DEF Scan

\* Every step keeps the types.
LEMMA TypeNext ==
    ASSUME TypeInv, [Next]_vars
    PROVE  TypeInv'
<1>1. CASE Main
  BY <1>1, TypeArrive, TypeEmit, TypeDispatch, TypeStop, TypeSaving DEF Main
<1>2. CASE Scan
  BY <1>2, TypeScanStep
<1>3. CASE \E w \in Threads : Calc(w)
  BY <1>3, TypeCalc
<1>4. CASE UNCHANGED vars
  BY <1>4, TypeUnchanged DEF vars, TypeInv
<1> QED BY <1>1, <1>2, <1>3, <1>4 DEF Next

\* Every variable of the engine keeps its type, for every configuration.
THEOREM EngineTypes == Spec => []TypeInv
<1> QED BY TypeInit, TypeNext, PTL DEF Spec

-----------------------------------------------------------------------------
(* The stop protocol: who has left, and what it left behind.                 *)

StopInv ==
    /\ stopFlag <=> mpc \in {"join", "joinScan", "save", "done"}
    /\ scanStop <=> mpc \in {"joinScan", "save", "done"}
    /\ scanStop => \A w \in Threads : wpc[w] = "exited"
    /\ \A w \in Threads : wpc[w] = "exited" => stopFlag /\ input[w] = <<>>
    /\ spc = "exited" => scanStop /\ \A w \in Threads : results[w] = <<>>
    /\ mpc \in {"save", "done"} => spc = "exited"

\* At the start nobody has left.
LEMMA StopInit == Init => StopInv
<1> QED BY DEF Init, StopInv

\* Every step keeps the order in which the threads leave.
LEMMA StopNext ==
    ASSUME TypeInv, StopInv, [Next]_vars
    PROVE  StopInv'
<1>1. ASSUME NEW t, NEW g, Arrive(t, g)
      PROVE  StopInv'
  BY <1>1 DEF StopInv, Arrive, stopVars, workVars, scanVars, saveVars
<1>2. CASE EmitTimePoint \/ DispatchRecord
  <2>1. mpc = "timer" /\ mpc' \in {"timer", "idle"} /\ UNCHANGED <<stopVars, workVars, results, scanVars>>
    BY <1>2 DEF EmitTimePoint, DispatchRecord
  <2> QED BY <2>1 DEF StopInv, stopVars, workVars, scanVars
<1>3. CASE LastPointReached \/ FeedEnds
  <2>1. mpc \in {"timer", "idle"} /\ mpc' = "stop" /\ UNCHANGED <<stopVars, input, workVars, results, scanVars>>
    BY <1>3 DEF LastPointReached, FeedEnds
  <2> QED BY <2>1 DEF StopInv, stopVars, workVars, scanVars
<1>4. CASE StopThreads
  BY <1>4 DEF StopInv, StopThreads, workVars, scanVars
<1>5. CASE JoinThreads
  BY <1>5 DEF StopInv, JoinThreads, ThreadsDone, workVars, scanVars
<1>6. CASE JoinScan
  BY <1>6 DEF StopInv, JoinScan, stopVars, workVars, scanVars
<1>7. ASSUME NEW ok \in BOOLEAN, SaveBatch(ok) \/ FinishSave(ok)
      PROVE  StopInv'
  <2>1. mpc = "save" /\ mpc' \in {"save", "done"} /\ UNCHANGED <<stopVars, input, workVars, results, scanVars>>
    BY <1>7 DEF SaveBatch, FinishSave, mainVars
  <2> QED BY <2>1 DEF StopInv, stopVars, workVars, scanVars
<1>8. ASSUME NEW w \in Threads, Calc(w)
      PROVE  StopInv'
  <2>1. UNCHANGED <<mpc, stopFlag, scanStop, spc>>
    BY <1>8 DEF Calc, TakeRecord, TakeTimePoint, WriteRows, Notify, Exit, mainVars, stopVars, scanVars
  <2>2. wpc[w] # "exited" /\ ~ scanStop
    BY <1>8 DEF Calc, TakeRecord, TakeTimePoint, WriteRows, Notify, Exit, StopInv
  <2>3. \A v \in Threads : wpc'[v] = "exited" => stopFlag /\ input'[v] = <<>>
    <3>1. CASE Exit(w)
      BY <3>1 DEF StopInv, Exit, TypeInv, TypeWork
    <3>2. CASE ~ Exit(w)
      <4>1. wpc'[w] # "exited"
        BY <1>8, <2>2, <3>2 DEF Calc, TakeRecord, TakeTimePoint, WriteRows, Notify, TypeInv, TypeWork
      <4>2. \A v \in Threads : v # w => wpc'[v] = wpc[v] /\ input'[v] = input[v]
        BY <1>8 DEF Calc, TakeRecord, TakeTimePoint, WriteRows, Notify, Exit, TypeInv, TypeWork
      <4> QED BY <4>1, <4>2 DEF StopInv
    <3> QED BY <3>1, <3>2
  <2> QED BY <2>1, <2>2, <2>3 DEF StopInv
<1>9. CASE CollectOne
  <2>1. UNCHANGED <<mpc, stopFlag, scanStop, input, wpc, spc>> /\ spc = "scan"
    BY <1>9, CollectFacts DEF mainVars, stopVars, workVars
  <2> QED BY <2>1 DEF StopInv
<1>10. CASE EndPass
  BY <1>10 DEF StopInv, EndPass, MayEnd, mainVars, stopVars, workVars
<1>11. CASE UNCHANGED vars
  BY <1>11 DEF StopInv, vars, mainVars, stopVars, workVars, scanVars, saveVars
<1> QED BY <1>1, <1>2, <1>3, <1>4, <1>5, <1>6, <1>7, <1>8, <1>9, <1>10, <1>11
      DEF Next, Main, Scan

-----------------------------------------------------------------------------
(* The main thread: which points have been reached, emitted and sent.        *)

\* One of the first n records has reached p.
Reached(n, p) == \E i \in 1 .. n : arrived[i].time >= p

Emitted(p) == \E k \in 1 .. timeIdx - 1 : AllVector[k] = p

\* The records whose OnTimer has returned.
Handled == IF mpc = "timer" THEN Len(arrived) - 1 ELSE Len(arrived)

\* What the configuration asks for of the batches that record i made due.
Wanted(i) == IF SkipMissed /\ NewlyDue(i) # {} THEN {Max(NewlyDue(i))} ELSE NewlyDue(i)

PointsInv ==
    /\ mpc = "timer" => Len(arrived) > 0 /\ record = arrived[Len(arrived)]
    /\ \A n \in Nat, k \in timeIdx .. Len(AllVector) : n = Handled => ~ Reached(n, AllVector[k])
    /\ \A n \in Nat, k \in 1 .. timeIdx - 1 : n = Len(arrived) => Reached(n, AllVector[k])

SendIdxInv ==
    \A n \in Nat : n = Len(arrived) =>
        /\ \A b \in Batches : b < sendIdx <=> Reached(n, SendVector[b])
        /\ mpc = "timer" => \A b \in NewlyDue(n) : SendVector[b] >= threshold <=> b \in Wanted(n)

SentInv ==
    /\ \A b \in Batches : (\E i \in 1 .. Len(sent) : sent[i] = b) <=>
                              Emitted(SendVector[b]) /\ \E i \in 1 .. Len(arrived) : b \in Wanted(i)
    /\ \A i, j \in 1 .. Len(sent) : i < j => sent[i] < sent[j]

MainInv == PointsInv /\ SendIdxInv /\ SentInv

\* Times are numbers.
LEMMA ArrivedFacts ==
    ASSUME TypeInv
    PROVE  /\ Len(arrived) \in Nat /\ DOMAIN arrived = 1 .. Len(arrived) /\ record.time \in Nat
           /\ \A i \in 1 .. Len(arrived) : arrived[i].time \in Nat
           /\ Len(sent) \in Nat /\ DOMAIN sent = 1 .. Len(sent)
           /\ \A i \in 1 .. Len(sent) : sent[i] \in Batches
<1>1. arrived \in Seq(Records) /\ record \in Records /\ sent \in Seq(Batches)
  BY DEF TypeInv, TypeMain
<1>2. /\ Len(arrived) \in Nat /\ DOMAIN arrived = 1 .. Len(arrived)
      /\ \A i \in 1 .. Len(arrived) : arrived[i] \in Records
  BY <1>1, LenProperties, ElementOfSeq
<1>3. /\ Len(sent) \in Nat /\ DOMAIN sent = 1 .. Len(sent)
      /\ \A i \in 1 .. Len(sent) : sent[i] \in Batches
  BY <1>1, LenProperties, ElementOfSeq
<1>4. \A r \in Records : r.time \in Nat
  BY DEF Records
<1> QED BY <1>1, <1>2, <1>3, <1>4

\* A batch is due with the first record that reaches its point.
LEMMA NewlyDueFacts ==
    ASSUME TypeInv, NEW i \in 1 .. Len(arrived)
    PROVE  /\ NewlyDue(i) \in SUBSET Batches /\ Wanted(i) \in SUBSET NewlyDue(i)
           /\ \A b \in Batches : b \in NewlyDue(i) <=>
                  SendVector[b] <= arrived[i].time /\ ~ Reached(i - 1, SendVector[b])
           /\ \A b \in NewlyDue(i) : Reached(i, SendVector[b])
<1>1. \A j \in 1 .. i : arrived[j].time \in Nat
  BY ArrivedFacts
<1>2. \A b \in Batches : SendVector[b] \in Nat
  BY SendVectorFacts
<1>3. \A b \in Batches : b \in NewlyDue(i) <=>
                  SendVector[b] <= arrived[i].time /\ ~ Reached(i - 1, SendVector[b])
  BY <1>1, <1>2, ArrivedFacts DEF NewlyDue, Reached
<1>4. NewlyDue(i) \in SUBSET Batches
  BY DEF NewlyDue
<1>5. Wanted(i) \in SUBSET NewlyDue(i)
  <2>1. CASE NewlyDue(i) # {}
    <3>1. NewlyDue(i) \in SUBSET Nat /\ IsFiniteSet(NewlyDue(i))
      BY <1>4, SendVectorFacts, FS_Subset
    <3> QED BY <2>1, <3>1, LargestExists DEF Wanted
  <2>2. CASE NewlyDue(i) = {}
    BY <2>2 DEF Wanted
  <2> QED BY <2>1, <2>2
<1>6. \A b \in NewlyDue(i) : Reached(i, SendVector[b])
  BY <1>1, <1>2, <1>3, <1>4 DEF Reached
<1> QED BY <1>3, <1>4, <1>5, <1>6

\* The same of the next state.
DueFacts ==
    \A i \in 1 .. Len(arrived) :
        /\ NewlyDue(i) \in SUBSET Batches /\ Wanted(i) \in SUBSET NewlyDue(i)
        /\ \A b \in Batches : b \in NewlyDue(i) <=>
               SendVector[b] <= arrived[i].time /\ ~ Reached(i - 1, SendVector[b])

\* They hold before and after every step.
LEMMA DueFactsHold == (TypeInv => DueFacts) /\ (TypeInv' => DueFacts')
<1>1. TypeInv => DueFacts
  BY NewlyDueFacts DEF DueFacts
<1>2. TypeInv' => DueFacts'
  BY <1>1, PTL
<1> QED BY <1>1, <1>2

\* More records reach more points, and later points are reached later.
LEMMA ReachedMonotone ==
    ASSUME TypeInv, NEW m \in Nat, NEW n \in Nat, m <= n, n <= Len(arrived), NEW p \in Nat, NEW q \in Nat, q <= p
    PROVE  Reached(m, p) => Reached(n, q)
<1>1. SUFFICES ASSUME NEW i \in 1 .. m, arrived[i].time >= p
               PROVE  Reached(n, q)
  BY DEF Reached
<1>2. i \in 1 .. n /\ arrived[i].time \in Nat
  BY ArrivedFacts
<1>3. arrived[i].time >= q
  BY <1>1, <1>2
<1> QED BY <1>2, <1>3 DEF Reached

\* Nothing has arrived and no point has been reached.
LEMMA MainInit == Init => MainInv
<1> SUFFICES ASSUME Init PROVE MainInv
  OBVIOUS
<1>1. Len(arrived) = 0 /\ Len(sent) = 0 /\ mpc = "idle" /\ timeIdx = 1 /\ sendIdx = 1
  BY DEF Init
<1>2. \A p : ~ Reached(0, p)
  BY DEF Reached
<1>3. PointsInv
  BY <1>1, <1>2 DEF PointsInv, Handled
<1>4. SendIdxInv
  BY <1>1, <1>2, SendVectorFacts DEF SendIdxInv
<1>5. SentInv
  BY <1>1 DEF SentInv
<1> QED BY <1>3, <1>4, <1>5 DEF MainInv

\* A new record changes nothing for the records before it.
LEMMA ArriveFacts ==
    ASSUME TypeInv, NEW t \in 0 .. MaxTime, NEW g \in Groups, Arrive(t, g)
    PROVE  /\ Len(arrived') = Len(arrived) + 1 /\ Len(arrived) \in Nat
           /\ record' = arrived'[Len(arrived')] /\ record'.time = t /\ t \in Nat
           /\ arrived'[Len(arrived) + 1] = record' /\ record'.group = g
           /\ \A i \in 1 .. Len(arrived) : arrived'[i] = arrived[i]
           /\ \A n \in 0 .. Len(arrived) : \A p : Reached(n, p)' = Reached(n, p)
           /\ \A i \in 1 .. Len(arrived) : NewlyDue(i)' = NewlyDue(i) /\ Wanted(i)' = Wanted(i)
           /\ \A n \in Nat : \A p : n = Len(arrived) => (Reached(n + 1, p)' <=> Reached(n, p) \/ t >= p)
           /\ mpc = "idle" /\ mpc' = "timer"
           /\ UNCHANGED <<timeIdx, sent, stopVars, input, workVars, results, scanVars, saveVars>>
<1>1. arrived' = Append(arrived, record') /\ record' = [time |-> t, group |-> g] /\ t \in Nat
      /\ mpc = "idle" /\ mpc' = "timer"
      /\ UNCHANGED <<timeIdx, sent, stopVars, input, workVars, results, scanVars, saveVars>>
  BY EngineAssumption DEF Arrive
<1>2. /\ Len(arrived') = Len(arrived) + 1 /\ Len(arrived) \in Nat
      /\ arrived'[Len(arrived) + 1] = record'
      /\ \A i \in 1 .. Len(arrived) : arrived'[i] = arrived[i]
  BY <1>1, AppendProperties, LenProperties DEF Arrive, Records, TypeInv, TypeMain
<1>3. \A n \in 0 .. Len(arrived) : \A p : Reached(n, p)' = Reached(n, p)
  <2>1. \A n \in 0 .. Len(arrived) : 1 .. n \subseteq 1 .. Len(arrived)
    BY <1>2
  <2> QED BY <1>2, <2>1 DEF Reached
<1>4. \A i \in 1 .. Len(arrived) : NewlyDue(i)' = NewlyDue(i)
  <2>1. \A i \in 1 .. Len(arrived) : 1 .. i - 1 \subseteq 1 .. Len(arrived)
    BY <1>2
  <2> QED BY <1>2, <2>1 DEF NewlyDue
<1>5. \A i \in 1 .. Len(arrived) : Wanted(i)' = Wanted(i)
  BY <1>4 DEF Wanted
<1>6. ASSUME NEW n \in Nat, NEW p, n = Len(arrived)
      PROVE  Reached(n + 1, p)' <=> Reached(n, p) \/ t >= p
  <2>1. \A i : i \in 1 .. n + 1 <=> i \in 1 .. n \/ i = n + 1
    OBVIOUS
  <2> QED BY <1>1, <1>2, <1>6, <2>1 DEF Reached
<1> QED BY <1>1, <1>2, <1>3, <1>4, <1>5, <1>6

\* A record arrives: the send index passes what it made due, the threshold
\* tells what is to be sent.
LEMMA MainArrive ==
    ASSUME TypeInv, MainInv, NEW t \in 0 .. MaxTime, NEW g \in Groups, Arrive(t, g)
    PROVE  MainInv'
<1>0. PICK n \in Nat : n = Len(arrived)
  BY ArrivedFacts
<1>1. /\ Len(arrived') = n + 1 /\ n \in Nat /\ t \in Nat
      /\ record' = arrived'[n + 1] /\ record'.time = t
      /\ mpc = "idle" /\ mpc' = "timer" /\ timeIdx' = timeIdx /\ sent' = sent
  BY <1>0, ArriveFacts
<1>2. TypeInv'
  BY TypeArrive
<1>3. PointsInv'
  <2>1. Handled' = n /\ Handled = n
    BY <1>0, <1>1 DEF Handled
  <2>2. \A p : Reached(n, p)' = Reached(n, p)
    BY <1>0, <1>1, ArriveFacts
  <2>3. \A m \in Nat, k \in timeIdx .. Len(AllVector) : m = Handled' => ~ Reached(m, AllVector[k])'
    BY <2>1, <2>2 DEF MainInv, PointsInv
  <2>4. \A m \in Nat, k \in 1 .. timeIdx - 1 : m = Len(arrived') => Reached(m, AllVector[k])'
    <3>1. \A k \in 1 .. timeIdx - 1 : Reached(n, AllVector[k])
      BY <1>0 DEF MainInv, PointsInv
    <3> QED BY <1>0, <1>1, <3>1, ArriveFacts
  <2> QED BY <1>1, <2>3, <2>4, SMTT(40) DEF PointsInv
<1>4. /\ sendIdx \in Batches /\ sendIdx' = IF t >= SendVector[sendIdx] THEN LastDue(t) + 1 ELSE sendIdx
      /\ threshold' = IF SkipMissed /\ t >= SendVector[sendIdx] THEN SendVector[LastDue(t)] ELSE SendVector[sendIdx]
      /\ SendVector[sendIdx] \in Nat
  BY SendVectorFacts DEF TypeInv, TypeMain, Arrive, ThresholdFor
<1>5. \A b \in Batches : /\ b \in Nat /\ SendVector[b] \in Nat
                         /\ b < sendIdx <=> Reached(n, SendVector[b])
                         /\ b < sendIdx <=> SendVector[b] < SendVector[sendIdx]
                         /\ SendVector[b] = SendVector[sendIdx] => b = sendIdx
  BY <1>0, <1>4, SendVectorFacts DEF MainInv, SendIdxInv
<1>6. t >= SendVector[sendIdx] =>
         /\ LastDue(t) \in Batches
         /\ \A b \in Batches : b <= LastDue(t) <=> SendVector[b] <= t
  BY <1>1, <1>4, LastDueFacts
<1>7. \A b \in Batches : b < sendIdx' <=> Reached(n + 1, SendVector[b])'
  <2>1. SUFFICES ASSUME NEW b \in Batches
                 PROVE  b < sendIdx' <=> Reached(n, SendVector[b]) \/ t >= SendVector[b]
    BY <1>0, ArriveFacts
  <2>2. b \in Nat /\ SendVector[b] \in Nat /\ sendIdx \in Nat
    BY <1>4, <1>5
  <2>3. CASE t >= SendVector[sendIdx]
    <3>1. LastDue(t) \in Nat /\ sendIdx <= LastDue(t) /\ sendIdx' = LastDue(t) + 1
          /\ (b <= LastDue(t) <=> SendVector[b] <= t)
      BY <1>1, <1>4, <1>5, <1>6, <2>3
    <3> QED BY <1>1, <1>5, <2>2, <3>1
  <2>4. CASE t < SendVector[sendIdx]
    <3>1. sendIdx' = sendIdx
      BY <1>1, <1>4, <2>4
    <3>2. t >= SendVector[b] => b < sendIdx
      BY <1>1, <1>4, <1>5, <2>2, <2>4
    <3> QED BY <1>5, <3>1, <3>2
  <2> QED BY <1>1, <1>4, <2>3, <2>4
<1>8. ASSUME NEW b \in NewlyDue(n + 1)'
      PROVE  SendVector[b] >= threshold' <=> b \in Wanted(n + 1)'
  <2>1. n + 1 \in 1 .. Len(arrived')
    BY <1>1
  <2>2. NewlyDue(n + 1)' \in SUBSET Batches
        /\ \A a \in Batches : a \in NewlyDue(n + 1)' <=> SendVector[a] <= t /\ ~ Reached(n, SendVector[a])
    <3>1. NewlyDue(n + 1)' \in SUBSET Batches
          /\ \A a \in Batches : a \in NewlyDue(n + 1)' <=>
                 SendVector[a] <= arrived'[n + 1].time /\ ~ Reached(n + 1 - 1, SendVector[a])'
      BY <1>2, <2>1, DueFactsHold DEF DueFacts
    <3>2. \A p : Reached(n, p)' = Reached(n, p) /\ n + 1 - 1 = n
      BY <1>0, <1>1, ArriveFacts
    <3> QED BY <1>1, <3>1, <3>2
  <2>3. b \in Batches /\ b \in Nat /\ SendVector[b] \in Nat /\ SendVector[b] <= t /\ ~ (b < sendIdx)
    BY <1>5, <2>2
  <2>4. SendVector[sendIdx] <= SendVector[b] /\ t >= SendVector[sendIdx]
    BY <1>1, <1>4, <1>5, <2>3
  <2>5. CASE ~ SkipMissed
    BY <1>4, <2>3, <2>4, <2>5 DEF Wanted
  <2>6. CASE SkipMissed
    <3>1. PICK l \in Batches : l = LastDue(t) /\ \A a \in Batches : a <= l <=> SendVector[a] <= t
      BY <1>6, <2>4
    <3>2. l \in Nat /\ SendVector[l] \in Nat /\ b <= l /\ SendVector[l] <= t /\ sendIdx \in Nat
      BY <1>4, <1>5, <2>3, <3>1
    <3>3. l \in NewlyDue(n + 1)'
      BY <1>5, <2>2, <2>3, <3>2
    <3>4. \A a \in NewlyDue(n + 1)' : a <= l
      BY <2>2, <3>1
    <3>5. Max(NewlyDue(n + 1)') = l
      <4>1. PICK D \in SUBSET Nat : D = NewlyDue(n + 1)' /\ IsFiniteSet(D)
        BY <2>2, SendVectorFacts, FS_Subset
      <4>2. Max(D) \in D /\ \A y \in D : y <= Max(D)
        BY <3>3, <4>1, LargestExists
      <4>3. Max(D) \in Nat /\ Max(D) <= l /\ l <= Max(D)
        BY <3>3, <3>4, <4>1, <4>2
      <4> QED BY <3>2, <4>1, <4>3
    <3>6. Wanted(n + 1)' = {l}
      BY <2>6, <3>3, <3>5 DEF Wanted
    <3>7. threshold' = SendVector[l]
      BY <1>4, <2>4, <2>6, <3>1
    <3>8. SendVector[b] >= SendVector[l] <=> b = l
      <4>1. b < l <=> SendVector[b] < SendVector[l]
        BY <2>3, <3>1, SendVectorFacts
      <4> QED BY <2>3, <3>2, <4>1
    <3> QED BY <3>6, <3>7, <3>8
  <2> QED BY <2>5, <2>6
<1>9. SendIdxInv'
  BY <1>1, <1>7, <1>8 DEF SendIdxInv
<1>10. SentInv'
  <2>1. ASSUME NEW b \in Batches, Emitted(SendVector[b])
        PROVE  b \notin Wanted(n + 1)'
    <3>1. Reached(n, SendVector[b])
      BY <1>0, <2>1 DEF Emitted, MainInv, PointsInv
    <3>2. n + 1 \in 1 .. Len(arrived')
      BY <1>1
    <3>3. Wanted(n + 1)' \in SUBSET NewlyDue(n + 1)'
          /\ (b \in NewlyDue(n + 1)' => ~ Reached(n + 1 - 1, SendVector[b])')
      BY <1>2, <3>2, DueFactsHold DEF DueFacts
    <3>4. Reached(n, SendVector[b])' = Reached(n, SendVector[b]) /\ n + 1 - 1 = n
      BY <1>0, <1>1, ArriveFacts
    <3> QED BY <3>1, <3>3, <3>4
  <2>2. \A i : i \in 1 .. n + 1 <=> i \in 1 .. n \/ i = n + 1
    BY <1>1
  <2>3. \A i \in 1 .. n : Wanted(i)' = Wanted(i)
    BY <1>0, ArriveFacts
  <2>4. ASSUME NEW b \in Batches, Emitted(SendVector[b])
        PROVE  (\E i \in 1 .. n + 1 : b \in Wanted(i)') <=> \E i \in 1 .. n : b \in Wanted(i)
    BY <2>1, <2>2, <2>3, <2>4
  <2>5. \A b \in Batches : Emitted(SendVector[b])' = Emitted(SendVector[b])
    BY <1>1 DEF Emitted
  <2>6. ASSUME NEW b \in Batches
        PROVE  (\E i \in 1 .. Len(sent) : sent[i] = b) <=>
                   Emitted(SendVector[b])' /\ \E i \in 1 .. n + 1 : b \in Wanted(i)'
    <3>1. (\E i \in 1 .. Len(sent) : sent[i] = b) <=>
                   Emitted(SendVector[b]) /\ \E i \in 1 .. n : b \in Wanted(i)
      BY <1>0 DEF MainInv, SentInv
    <3> QED BY <2>4, <2>5, <3>1
  <2> QED BY <1>1, <2>6 DEF MainInv, SentInv
<1> QED BY <1>3, <1>9, <1>10, SMTT(40) DEF MainInv

\* A step that leaves the records alone leaves alone what they have reached.
LEMMA SameArrived ==
    ASSUME UNCHANGED arrived
    PROVE  /\ \A n, p : Reached(n, p)' = Reached(n, p)
           /\ \A i : NewlyDue(i)' = NewlyDue(i)
           /\ \A i : Wanted(i)' = Wanted(i)
<1>1. \A n, p : Reached(n, p)' = Reached(n, p)
  BY DEF Reached
<1>2. \A i : NewlyDue(i)' = NewlyDue(i)
  BY DEF NewlyDue
<1> QED BY <1>1, <1>2 DEF Wanted

\* A time point is emitted: exactly the record being handled has reached it,
\* and it is sent exactly if the configuration asks for it.
LEMMA MainEmit ==
    ASSUME TypeInv, MainInv, EmitTimePoint
    PROVE  MainInv'
<1>1. PICK p \in TimePoints, b \in Batches \union {NoBatch} :
             /\ timeIdx \in 1 .. Len(AllVector) /\ p = AllVector[timeIdx] /\ p \in Nat
             /\ record.time >= p
             /\ b \in Batches => p \in SendPoints /\ p >= threshold /\ SendVector[b] = p
             /\ b = NoBatch => p \notin SendPoints \/ p < threshold
             /\ sent' = IF b = NoBatch THEN sent ELSE Append(sent, b)
             /\ timeIdx' = timeIdx + 1
  BY EmitFacts
<1>2. PICK n \in Nat : n = Len(arrived) /\ n > 0 /\ record = arrived[n]
  BY ArrivedFacts DEF MainInv, PointsInv, EmitTimePoint
<1>3. mpc = "timer" /\ mpc' = "timer" /\ UNCHANGED <<record, arrived, sendIdx, threshold>> /\ Handled = n - 1
  BY <1>2 DEF EmitTimePoint, Handled
<1>4. Handled' = n - 1 /\ n - 1 \in Nat
  BY <1>2, <1>3 DEF Handled
<1>5. /\ \A m, q : Reached(m, q)' = Reached(m, q)
      /\ \A i : NewlyDue(i)' = NewlyDue(i) /\ Wanted(i)' = Wanted(i)
  BY <1>3, SameArrived
<1>6. ~ Reached(n - 1, p) /\ Reached(n, p)
  BY <1>1, <1>2, <1>3, <1>4, SMTT(40) DEF MainInv, PointsInv, Reached
<1>7. PointsInv'
  <2>1. \A m \in Nat, k \in timeIdx' .. Len(AllVector) : m = Handled' => ~ Reached(m, AllVector[k])'
    BY <1>1, <1>3, <1>4, <1>5 DEF MainInv, PointsInv
  <2>2. \A m \in Nat, k \in 1 .. timeIdx' - 1 : m = Len(arrived') => Reached(m, AllVector[k])'
    BY <1>1, <1>2, <1>3, <1>5, <1>6 DEF MainInv, PointsInv
  <2> QED BY <1>2, <1>3, <2>1, <2>2 DEF PointsInv
<1>8. SendIdxInv'
  BY <1>3, <1>5 DEF MainInv, SendIdxInv
<1>9. \A q : Emitted(q)' <=> Emitted(q) \/ q = p
  BY <1>1 DEF Emitted
<1>10. ASSUME NEW a \in Batches, SendVector[a] = p, NEW i \in 1 .. n, a \in Wanted(i)
       PROVE  i = n /\ p >= threshold
  <2>1. /\ i \in 1 .. Len(arrived) /\ i \in Nat
        /\ a \in NewlyDue(i) /\ Reached(i, p)
    BY <1>2, <1>10, NewlyDueFacts
  <2>2. i = n
    <3>1. SUFFICES ASSUME i <= n - 1 PROVE FALSE
      OBVIOUS
    <3>2. n - 1 <= Len(arrived)
      BY <1>2
    <3> QED BY <1>1, <1>4, <1>6, <2>1, <3>1, <3>2, ReachedMonotone
  <2>3. SendVector[a] >= threshold <=> a \in Wanted(n)
    BY <1>2, <1>3, <2>1, <2>2 DEF MainInv, SendIdxInv
  <2> QED BY <1>10, <2>2, <2>3
<1>11. CASE b = NoBatch
  <2>1. sent' = sent
    BY <1>1, <1>11
  <2>2. ASSUME NEW a \in Batches, SendVector[a] = p, NEW i \in 1 .. n, a \in Wanted(i)
        PROVE  FALSE
    <3>1. p >= threshold /\ threshold \in Nat /\ SendVector[a] \in SendPoints
      BY <1>10, <2>2, SendVectorFacts DEF TypeInv, TypeMain
    <3> QED BY <1>1, <1>11, <2>2, <3>1
  <2>3. \A a \in Batches : (\E i \in 1 .. Len(sent) : sent[i] = a) <=>
              Emitted(SendVector[a])' /\ \E i \in 1 .. n : a \in Wanted(i)
    BY <1>2, <1>9, <2>2 DEF MainInv, SentInv
  <2>4. SentInv'
    BY <1>2, <1>3, <1>5, <2>1, <2>3 DEF MainInv, SentInv
  <2> QED BY <1>7, <1>8, <2>4 DEF MainInv
<1>12. CASE b \in Batches
  <2>1. PICK m \in Nat : m = Len(sent)
    BY ArrivedFacts
  <2>2. /\ Len(sent') = m + 1 /\ sent'[m + 1] = b
        /\ \A i \in 1 .. m : sent'[i] = sent[i] /\ sent[i] \in Batches
    <3>1. sent' = Append(sent, b) /\ sent \in Seq(Batches)
      BY <1>1, <1>12, SendVectorFacts DEF NoBatch, TypeInv, TypeMain
    <3> QED BY <1>12, <2>1, <3>1, AppendProperties, ArrivedFacts
  <2>3. b \in Wanted(n) /\ n \in 1 .. n
    <3>1. n \in 1 .. Len(arrived)
      BY <1>2
    <3>2. b \in NewlyDue(n)
      BY <1>1, <1>2, <1>6, <1>12, <3>1, NewlyDueFacts
    <3> QED BY <1>1, <1>2, <1>3, <1>12, <3>2 DEF MainInv, SendIdxInv
  <2>4. ASSUME NEW a \in Batches
        PROVE  (\E i \in 1 .. m + 1 : sent'[i] = a) <=>
                   Emitted(SendVector[a])' /\ \E i \in 1 .. n : a \in Wanted(i)
    <3>1. (\E i \in 1 .. m + 1 : sent'[i] = a) <=> (\E i \in 1 .. m : sent[i] = a) \/ a = b
      <4>1. \A i : i \in 1 .. m + 1 <=> i \in 1 .. m \/ i = m + 1
        BY <2>1
      <4> QED BY <2>2, <4>1
    <3>2. (\E i \in 1 .. m : sent[i] = a) <=>
              Emitted(SendVector[a]) /\ \E i \in 1 .. n : a \in Wanted(i)
      BY <1>2, <2>1 DEF MainInv, SentInv
    <3>3. SendVector[a] = p => a = b
      BY <1>1, <1>12, SendVectorFacts
    <3> QED BY <1>1, <1>9, <1>12, <2>3, <3>1, <3>2, <3>3
  <2>5. ASSUME NEW i \in 1 .. m
        PROVE  sent[i] < b
    <3>1. sent[i] \in Batches /\ Emitted(SendVector[sent[i]])
      BY <2>1, <2>2 DEF MainInv, SentInv
    <3>2. PICK k \in 1 .. timeIdx - 1 : AllVector[k] = SendVector[sent[i]]
      BY <3>1 DEF Emitted
    <3>3. AllVector[k] < AllVector[timeIdx]
      BY <1>1, <3>2, AllVectorFacts
    <3>4. SendVector[sent[i]] < SendVector[b]
      BY <1>1, <1>12, <3>2, <3>3
    <3> QED BY <1>12, <3>1, <3>4, SendVectorFacts
  <2>6. \A i, j \in 1 .. m + 1 : i < j => sent'[i] < sent'[j]
    <3>1. SUFFICES ASSUME NEW i \in 1 .. m + 1, NEW j \in 1 .. m + 1, i < j
                   PROVE  sent'[i] < sent'[j]
      OBVIOUS
    <3>2. i \in 1 .. m /\ (j \in 1 .. m \/ j = m + 1)
      BY <2>1, <3>1
    <3>3. j \in 1 .. m => sent[i] < sent[j]
      BY <2>1, <3>1, <3>2 DEF MainInv, SentInv
    <3> QED BY <2>2, <2>5, <3>2, <3>3
  <2>7. SentInv'
    BY <1>2, <1>3, <1>5, <2>2, <2>4, <2>6 DEF SentInv
  <2> QED BY <1>7, <1>8, <2>7, SMTT(40) DEF MainInv
<1> QED BY <1>11, <1>12

\* OnTimer returns only when no due point is left; after it, and in every
\* step that leaves the main thread's state alone, nothing changes.
LEMMA MainOther ==
    ASSUME TypeInv, MainInv, UNCHANGED <<arrived, sendIdx, timeIdx, sent>>,
           \/ UNCHANGED mainVars
           \/ mpc # "timer" /\ mpc' # "timer"
           \/ DispatchRecord \/ LastPointReached
    PROVE  MainInv'
<1>1. PICK n \in Nat : n = Len(arrived)
  BY ArrivedFacts
<1>2. /\ \A m, q : Reached(m, q)' = Reached(m, q)
      /\ \A i : NewlyDue(i)' = NewlyDue(i) /\ Wanted(i)' = Wanted(i)
      /\ \A q : Emitted(q)' = Emitted(q)
  BY SameArrived DEF Emitted
<1>3. mpc' = "timer" => mpc = "timer" /\ record' = record /\ threshold' = threshold
  BY DEF mainVars, DispatchRecord, LastPointReached
<1>4. \A m \in Nat, k \in timeIdx .. Len(AllVector) : m = Handled' => ~ Reached(m, AllVector[k])
  <2>1. CASE UNCHANGED mainVars \/ (mpc # "timer" /\ mpc' # "timer")
    <3>1. Handled' = Handled
      BY <2>1 DEF Handled, mainVars
    <3> QED BY <3>1 DEF MainInv, PointsInv
  <2>2. CASE DispatchRecord \/ LastPointReached
    <3>1. mpc = "timer" /\ mpc' # "timer" /\ ~ PointDue
      BY <2>2 DEF DispatchRecord, LastPointReached
    <3>2. n > 0 /\ record = arrived[n] /\ record.time \in Nat /\ Handled = n - 1 /\ Handled' = n /\ n - 1 \in Nat
      BY <1>1, <3>1, ArrivedFacts DEF MainInv, PointsInv, Handled
    <3>3. ASSUME NEW k \in timeIdx .. Len(AllVector)
          PROVE  ~ Reached(n, AllVector[k])
      <4>1. timeIdx \in 1 .. Len(AllVector) /\ k \in 1 .. Len(AllVector)
            /\ AllVector[timeIdx] \in Nat /\ AllVector[k] \in Nat
        BY AllVectorFacts DEF TypeInv, TypeMain
      <4>2. record.time < AllVector[timeIdx]
        BY <3>1, <3>2, <4>1 DEF PointDue
      <4>3. timeIdx < k => AllVector[timeIdx] < AllVector[k]
        BY <4>1, AllVectorFacts
      <4>4. record.time < AllVector[k]
        BY <3>2, <4>1, <4>2, <4>3
      <4>5. ~ Reached(n - 1, AllVector[k])
        BY <3>2 DEF MainInv, PointsInv
      <4> QED BY <3>2, <4>1, <4>4, <4>5 DEF Reached
    <3> QED BY <3>2, <3>3
  <2> QED BY <2>1, <2>2
<1>5. PointsInv'
  BY <1>2, <1>3, <1>4 DEF MainInv, PointsInv
<1>6. SendIdxInv'
  BY <1>2, <1>3 DEF MainInv, SendIdxInv
<1>7. SentInv'
  BY <1>2 DEF MainInv, SentInv
<1> QED BY <1>5, <1>6, <1>7, SMTT(40) DEF MainInv

\* Every step keeps the main thread's account of the points.
LEMMA MainNext ==
    ASSUME TypeInv, MainInv, [Next]_vars
    PROVE  MainInv'
<1>1. CASE \E t \in 0 .. MaxTime, g \in Groups : Arrive(t, g)
  BY <1>1, MainArrive
<1>2. CASE EmitTimePoint
  BY <1>2, MainEmit
<1>3. CASE DispatchRecord \/ LastPointReached
  <2>1. UNCHANGED <<arrived, sendIdx, timeIdx, sent>>
    BY <1>3 DEF DispatchRecord, LastPointReached
  <2> QED BY <1>3, <2>1, MainOther
<1>4. CASE FeedEnds \/ StopThreads \/ JoinThreads \/ JoinScan
  <2>1. UNCHANGED <<arrived, sendIdx, timeIdx, sent>> /\ mpc # "timer" /\ mpc' # "timer"
    BY <1>4 DEF FeedEnds, StopThreads, JoinThreads, JoinScan
  <2> QED BY <2>1, MainOther
<1>5. CASE \E ok \in BOOLEAN : SaveBatch(ok) \/ FinishSave(ok)
  <2>1. UNCHANGED <<arrived, sendIdx, timeIdx, sent>> /\ mpc # "timer" /\ mpc' # "timer"
    BY <1>5 DEF SaveBatch, FinishSave, mainVars
  <2> QED BY <2>1, MainOther
<1>6. CASE Scan \/ (\E w \in Threads : Calc(w)) \/ UNCHANGED vars
  <2>1. UNCHANGED mainVars
    BY <1>6 DEF Scan, CollectOne, EndPass, Calc, TakeRecord, TakeTimePoint, WriteRows, Notify, Exit, vars
  <2> QED BY <2>1, MainOther DEF mainVars
<1> QED BY <1>1, <1>2, <1>3, <1>4, <1>5, <1>6 DEF Next, Main

\* Between two records, what has been sent is what was asked for, sorted.
LEMMA SentAsConfigured ==
    ASSUME TypeInv, MainInv
    PROVE  SendsAsConfigured
<1> SUFFICES ASSUME mpc # "timer" PROVE sent = Ascending(Configured)
  BY SMTT(40) DEF SendsAsConfigured
<1>1. PICK n \in Nat : n = Len(arrived) /\ DOMAIN arrived = 1 .. n /\ Handled = n
  BY ArrivedFacts DEF Handled
<1>2. Configured = UNION {Wanted(i) : i \in 1 .. n}
  BY <1>1 DEF Configured, Wanted
<1>3. Configured \in SUBSET Batches
  BY <1>1, <1>2, NewlyDueFacts
<1>4. ASSUME NEW b \in Configured
      PROVE  Emitted(SendVector[b])
  <2>1. PICK i \in 1 .. n : b \in Wanted(i)
    BY <1>2
  <2>2. b \in Batches /\ SendVector[b] \in SendPoints /\ SendVector[b] \in Nat
    BY <1>3, SendVectorFacts
  <2>3. Reached(i, SendVector[b]) /\ i \in Nat /\ i <= n /\ n <= Len(arrived)
    BY <1>1, <2>1, NewlyDueFacts
  <2>4. Reached(n, SendVector[b])
    BY <2>2, <2>3, ReachedMonotone
  <2>5. PICK k \in 1 .. Len(AllVector) : AllVector[k] = SendVector[b]
    BY <2>2, PointsFinite, AllVectorFacts, SMTT(40)
  <2>6. k \notin timeIdx .. Len(AllVector)
    BY <1>1, <2>4, <2>5 DEF MainInv, PointsInv
  <2>7. k \in 1 .. timeIdx - 1
    BY <2>5, <2>6, AllVectorFacts DEF TypeInv, TypeMain
  <2> QED BY <2>5, <2>7 DEF Emitted
<1>5. \A b \in Batches : b \in Configured <=> \E i \in 1 .. n : b \in Wanted(i)
  BY <1>2
<1>6. PICK m \in Nat : m = Len(sent) /\ \A i \in 1 .. m : sent[i] \in Batches
  BY ArrivedFacts
<1>7. \A b \in Batches : (\E i \in 1 .. m : sent[i] = b) <=> b \in Configured
  BY <1>1, <1>4, <1>5, <1>6 DEF MainInv, SentInv
<1>8. sent \in [1 .. m -> Configured]
  <2>1. \A i \in 1 .. m : sent[i] \in Configured
    BY <1>6, <1>7
  <2>2. sent \in [1 .. m -> Batches]
    BY <1>6, LenProperties DEF TypeInv, TypeMain
  <2> QED BY <2>1, <2>2
<1>9. \A x \in Configured : \E i \in 1 .. m : sent[i] = x
  BY <1>3, <1>7
<1>10. \A i, j \in 1 .. m : i < j => sent[i] < sent[j]
  BY <1>6 DEF MainInv, SentInv
<1>11. Configured \in SUBSET Nat /\ IsFiniteSet(Configured)
  BY <1>3, SendVectorFacts, FS_Subset
<1> QED BY <1>6, <1>8, <1>9, <1>10, <1>11, AscendingUnique

\* OnTimer, for every configuration and every order of times: between two
\* records the batches triggered are those the configuration asks for, each
\* once and in ascending order.
THEOREM EngineSends == Spec => []SendsAsConfigured
<1>1. Init => TypeInv /\ MainInv
  BY TypeInit, MainInit
<1>2. TypeInv /\ MainInv /\ [Next]_vars => TypeInv' /\ MainInv'
  BY TypeNext, MainNext
<1>3. TypeInv /\ MainInv => SendsAsConfigured
  BY SentAsConfigured
<1> QED BY <1>1, <1>2, <1>3, PTL DEF Spec

-----------------------------------------------------------------------------
(* What lies between the main thread and a calculation thread: the items of  *)
(* its input, with the number of records (d) and of time points (j) the      *)
(* thread will have taken after each.                                        *)

\* The first n records of thread w.
RoutedUpTo(w, n) == {i \in 1 .. n : RoutedTo(arrived[i], w)}

\* The compute points of w among the first x time points, and the value of
\* the last computation they caused.
DuePoints(w, x) == {p \in ComputePoints[w] : \E k \in 1 .. x : AllVector[k] = p}
ValueAt(w, x) == IF DuePoints(w, x) = {} THEN 0
                 ELSE Cardinality(RecordsBefore(w, Max(DuePoints(w, x))))

\* What a thread should write into batch b.
Snapshot(w, b) == IF ComputePointFor(w, b) = {} THEN 0
                  ELSE Cardinality(RecordsBefore(w, Max(ComputePointFor(w, b))))

\* An item and the counts before and after it.
ItemOK(w, it, d0, d1, j0, j1) ==
    \/ it = Data /\ d1 = d0 + 1 /\ j1 = j0
    \/ /\ it \in TimeItems /\ d1 = d0 /\ j1 = j0 + 1
       /\ j1 \in 1 .. Len(AllVector) /\ it.at = AllVector[j1]
       /\ it.send \in Batches => SendVector[it.send] = it.at
       /\ Cardinality(RecordsBefore(w, it.at)) = d1

LaneItems(w, q, d, j) ==
    /\ q \in Seq(Items) /\ d \in [0 .. Len(q) -> Nat] /\ j \in [0 .. Len(q) -> Nat]
    /\ \A i \in 1 .. Len(q) : ItemOK(w, q[i], d[i - 1], d[i], j[i - 1], j[i])

Lane(w, q, d, j) ==
    /\ q = input[w] /\ LaneItems(w, q, d, j)
    /\ d[0] = seen[w]
    /\ \A i \in 0 .. Len(q) : j[i] <= timeIdx - 1
    /\ j[Len(q)] = timeIdx - 1
    /\ \A n \in Nat : mpc \in {"idle", "timer"} /\ n = Handled =>
           d[Len(q)] = Cardinality(RoutedUpTo(w, n))
    /\ computed[w] = ValueAt(w, j[0])
    /\ batch[w] \in Batches => j[0] > 0 /\ SendVector[batch[w]] = AllVector[j[0]]

LanesInv == \A w \in Threads : \E q, d, j : Lane(w, q, d, j)

WrittenInv ==
    \A b \in Batches, w \in Threads, n \in Nat :
        cache[b][w] # Unwritten /\ n = Len(arrived) =>
            Reached(n, SendVector[b]) /\ cache[b][w] = Snapshot(w, b)

\* An item is added at the end of a lane.
LEMMA LaneAppend ==
    ASSUME NEW w \in Threads, NEW q, NEW d, NEW j, LaneItems(w, q, d, j),
           NEW it \in Items, NEW d1 \in Nat, NEW j1 \in Nat,
           ItemOK(w, it, d[Len(q)], d1, j[Len(q)], j1)
    PROVE  \E e, k : /\ LaneItems(w, Append(q, it), e, k)
                     /\ Len(Append(q, it)) = Len(q) + 1
                     /\ \A i \in 0 .. Len(q) : e[i] = d[i] /\ k[i] = j[i]
                     /\ e[Len(q) + 1] = d1 /\ k[Len(q) + 1] = j1
<1>1. q \in Seq(Items) /\ d \in [0 .. Len(q) -> Nat] /\ j \in [0 .. Len(q) -> Nat]
  BY DEF LaneItems
<1>2. PICK m \in Nat : m = Len(q)
  BY <1>1, LenProperties
<1>3. PICK r \in Seq(Items) :
        /\ r = Append(q, it) /\ Len(r) = m + 1 /\ r[m + 1] = it
        /\ \A i \in 1 .. m : r[i] = q[i]
  BY <1>1, <1>2, AppendProperties
<1>4. PICK e \in [0 .. m + 1 -> Nat] : /\ \A i \in 0 .. m : e[i] = d[i]
                                       /\ e[m + 1] = d1
  <2>0. d \in [0 .. m -> Nat]
    BY <1>1, <1>2
  <2>1. \A i \in 0 .. m + 1 : i = m + 1 \/ i \in 0 .. m
    OBVIOUS
  <2>2. \A i \in 0 .. m + 1 : (IF i = m + 1 THEN d1 ELSE d[i]) \in Nat
    BY <2>0, <2>1
  <2>3. PICK f : f = [i \in 0 .. m + 1 |-> IF i = m + 1 THEN d1 ELSE d[i]]
    OBVIOUS
  <2>4. f \in [0 .. m + 1 -> Nat]
    BY <2>2, <2>3
  <2>5. (\A i \in 0 .. m : f[i] = d[i]) /\ f[m + 1] = d1
    BY <2>3
  <2> QED BY <2>4, <2>5
<1>5. PICK k \in [0 .. m + 1 -> Nat] : /\ \A i \in 0 .. m : k[i] = j[i]
                                       /\ k[m + 1] = j1
  <2>0. j \in [0 .. m -> Nat]
    BY <1>1, <1>2
  <2>1. \A i \in 0 .. m + 1 : i = m + 1 \/ i \in 0 .. m
    OBVIOUS
  <2>2. \A i \in 0 .. m + 1 : (IF i = m + 1 THEN j1 ELSE j[i]) \in Nat
    BY <2>0, <2>1
  <2>3. PICK f : f = [i \in 0 .. m + 1 |-> IF i = m + 1 THEN j1 ELSE j[i]]
    OBVIOUS
  <2>4. f \in [0 .. m + 1 -> Nat]
    BY <2>2, <2>3
  <2>5. (\A i \in 0 .. m : f[i] = j[i]) /\ f[m + 1] = j1
    BY <2>3
  <2> QED BY <2>4, <2>5
<1>6. ASSUME NEW i \in 1 .. m + 1
      PROVE  ItemOK(w, r[i], e[i - 1], e[i], k[i - 1], k[i])
  <2>1. CASE i = m + 1
    <3>1. i - 1 = m /\ m \in 0 .. m
      BY <2>1
    <3>2. r[i] = it /\ e[i - 1] = d[m] /\ e[i] = d1 /\ k[i - 1] = j[m] /\ k[i] = j1
      BY <1>3, <1>4, <1>5, <2>1, <3>1
    <3> QED BY <1>2, <3>2
  <2>2. CASE i # m + 1
    <3>1. i \in 1 .. m /\ i - 1 \in 0 .. m /\ i \in 0 .. m
      BY <2>2
    <3>2. r[i] = q[i] /\ e[i - 1] = d[i - 1] /\ e[i] = d[i] /\ k[i - 1] = j[i - 1] /\ k[i] = j[i]
      BY <1>3, <1>4, <1>5, <3>1
    <3>3. ItemOK(w, q[i], d[i - 1], d[i], j[i - 1], j[i])
      BY <1>2, <3>1 DEF LaneItems
    <3> QED BY <3>2, <3>3
  <2> QED BY <2>1, <2>2
<1>7. LaneItems(w, r, e, k)
  BY <1>3, <1>4, <1>5, <1>6 DEF LaneItems
<1> QED BY <1>2, <1>3, <1>4, <1>5, <1>7

\* The first item of a lane is taken.
LEMMA LaneTail ==
    ASSUME NEW w \in Threads, NEW q, NEW d, NEW j, LaneItems(w, q, d, j), q # <<>>
    PROVE  /\ ItemOK(w, q[1], d[0], d[1], j[0], j[1]) /\ Len(q) \in Nat \ {0}
           /\ d[1] \in Nat /\ j[1] \in Nat /\ d[0] \in Nat /\ j[0] \in Nat
           /\ \E f, h : /\ LaneItems(w, Tail(q), f, h)
                        /\ Len(Tail(q)) = Len(q) - 1
                        /\ \A i \in 0 .. Len(q) - 1 : f[i] = d[i + 1] /\ h[i] = j[i + 1]
<1>1. q \in Seq(Items) /\ d \in [0 .. Len(q) -> Nat] /\ j \in [0 .. Len(q) -> Nat]
  BY DEF LaneItems
<1>2. PICK m \in Nat : m + 1 = Len(q)
  <2>1. Len(q) \in Nat \ {0}
    BY <1>1, EmptySeq
  <2>2. Len(q) - 1 \in Nat
    BY <2>1
  <2> QED BY <2>1, <2>2
<1>3. PICK r \in Seq(Items) : r = Tail(q) /\ Len(r) = m /\ \A i \in 1 .. m : r[i] = q[i + 1]
  BY <1>1, <1>2, HeadTailProperties
<1>4. PICK e \in [0 .. m -> Nat] : \A i \in 0 .. m : e[i] = d[i + 1]
  <2>1. \A i \in 0 .. m : d[i + 1] \in Nat
    BY <1>1, <1>2
  <2>2. [i \in 0 .. m |-> d[i + 1]] \in [0 .. m -> Nat]
    BY <2>1
  <2> QED BY <2>2
<1>5. PICK k \in [0 .. m -> Nat] : \A i \in 0 .. m : k[i] = j[i + 1]
  <2>1. \A i \in 0 .. m : j[i + 1] \in Nat
    BY <1>1, <1>2, SMTT(40)
  <2>2. [i \in 0 .. m |-> j[i + 1]] \in [0 .. m -> Nat]
    BY <2>1
  <2> QED BY <2>2
<1>6. ASSUME NEW i \in 1 .. m
      PROVE  ItemOK(w, r[i], e[i - 1], e[i], k[i - 1], k[i])
  <2>1. i - 1 \in 0 .. m /\ i \in 0 .. m /\ i - 1 + 1 = i /\ i + 1 \in 1 .. m + 1 /\ i + 1 - 1 = i
    OBVIOUS
  <2>2. r[i] = q[i + 1] /\ e[i - 1] = d[i] /\ e[i] = d[i + 1] /\ k[i - 1] = j[i] /\ k[i] = j[i + 1]
    BY <1>3, <1>4, <1>5, <2>1
  <2>3. ItemOK(w, q[i + 1], d[i + 1 - 1], d[i + 1], j[i + 1 - 1], j[i + 1])
    BY <1>2, <2>1 DEF LaneItems
  <2> QED BY <2>1, <2>2, <2>3
<1>7. LaneItems(w, r, e, k)
  BY <1>3, <1>4, <1>5, <1>6 DEF LaneItems
<1>8. ItemOK(w, q[1], d[1 - 1], d[1], j[1 - 1], j[1]) /\ 1 - 1 = 0 /\ 1 \in 0 .. m + 1 /\ 0 \in 0 .. m + 1
  <2>1. 1 \in 1 .. Len(q)
    BY <1>2
  <2> QED BY <2>1 DEF LaneItems
<1>9. d[1] \in Nat /\ j[1] \in Nat /\ d[0] \in Nat /\ j[0] \in Nat
  BY <1>1, <1>2, <1>8
<1>10. \E f, h : /\ LaneItems(w, Tail(q), f, h)
                 /\ Len(Tail(q)) = Len(q) - 1
                 /\ \A i \in 0 .. Len(q) - 1 : f[i] = d[i + 1] /\ h[i] = j[i + 1]
  <2>1. Len(q) - 1 = m
    BY <1>2
  <2>2. LaneItems(w, Tail(q), e, k) /\ Len(Tail(q)) = Len(q) - 1
    BY <1>3, <1>7, <2>1
  <2>3. \A i \in 0 .. Len(q) - 1 : e[i] = d[i + 1] /\ k[i] = j[i + 1]
    BY <1>4, <1>5, <2>1
  <2> QED BY <2>2, <2>3, ZenonT(40)
<1>11. ItemOK(w, q[1], d[0], d[1], j[0], j[1]) /\ Len(q) \in Nat \ {0}
  BY <1>2, <1>8
<1> QED BY <1>9, <1>10, <1>11

\* The value of the last computation after one more time point.
LEMMA ValueStep ==
    ASSUME TypeInv, NEW w \in Threads, NEW x \in Nat, x + 1 \in 1 .. Len(AllVector)
    PROVE  ValueAt(w, x + 1) = IF AllVector[x + 1] \in ComputePoints[w]
                                 THEN Cardinality(RecordsBefore(w, AllVector[x + 1]))
                                 ELSE ValueAt(w, x)
<1>1. \A k : k \in 1 .. x + 1 <=> k \in 1 .. x \/ k = x + 1
  OBVIOUS
<1>2. CASE AllVector[x + 1] \notin ComputePoints[w]
  <2>1. DuePoints(w, x + 1) = DuePoints(w, x)
    BY <1>1, <1>2 DEF DuePoints
  <2> QED BY <1>2, <2>1 DEF ValueAt
<1>3. CASE AllVector[x + 1] \in ComputePoints[w]
  <2>1. PICK p : p = AllVector[x + 1] /\ p \in ComputePoints[w] /\ p \in Nat
    BY <1>3, AllVectorFacts
  <2>2. PICK D : D = DuePoints(w, x + 1)
    OBVIOUS
  <2>3. p \in D /\ D \in SUBSET Nat /\ IsFiniteSet(D)
    <3>1. D \in SUBSET TimePoints
      BY <2>2, PointsFinite DEF DuePoints
    <3>2. p \in D
      <4>1. x + 1 \in 1 .. x + 1
        OBVIOUS
      <4> QED BY <2>1, <2>2, <4>1 DEF DuePoints
    <3>3. TimePoints \in SUBSET Nat /\ IsFiniteSet(TimePoints)
      BY PointsFinite
    <3> QED BY <3>1, <3>2, <3>3, FS_Subset
  <2>4. \A y \in D : y <= p
    <3>1. SUFFICES ASSUME NEW y \in D PROVE y <= p
      OBVIOUS
    <3>2. PICK k \in 1 .. x + 1 : AllVector[k] = y
      BY <2>2 DEF DuePoints
    <3>3. k \in 1 .. Len(AllVector) /\ (k < x + 1 \/ k = x + 1)
      BY AllVectorFacts
    <3>4. k < x + 1 => AllVector[k] < AllVector[x + 1]
      BY <3>3, AllVectorFacts
    <3>5. y \in Nat
      BY <2>3
    <3> QED BY <2>1, <3>2, <3>3, <3>4, <3>5
  <2>5. Max(D) = p
    <3>1. Max(D) \in D /\ \A y \in D : y <= Max(D)
      BY <2>3, LargestExists
    <3>2. Max(D) \in Nat /\ Max(D) <= p /\ p <= Max(D)
      BY <2>3, <2>4, <3>1
    <3> QED BY <2>1, <3>2
  <2> QED BY <1>3, <2>1, <2>2, <2>3, <2>5 DEF ValueAt
<1> QED BY <1>2, <1>3

\* At a send point, that is the value its batch should hold.
LEMMA ValueIsSnapshot ==
    ASSUME NEW w \in Threads, NEW x \in 1 .. Len(AllVector), NEW b \in Batches,
           SendVector[b] = AllVector[x]
    PROVE  ValueAt(w, x) = Snapshot(w, b)
<1>1. ASSUME NEW p \in ComputePoints[w]
      PROVE  (\E k \in 1 .. x : AllVector[k] = p) <=> p <= SendVector[b]
  <2>1. PICK m \in 1 .. Len(AllVector) : AllVector[m] = p /\ p \in Nat
    BY PointsFinite, AllVectorFacts
  <2>2. AllVector[x] \in Nat /\ Len(AllVector) \in Nat
    BY AllVectorFacts
  <2>3. \A k \in 1 .. Len(AllVector) : (k < x <=> AllVector[k] < AllVector[x]) /\ AllVector[k] \in Nat
                                        /\ (x < k <=> AllVector[x] < AllVector[k])
    BY AllVectorFacts
  <2>4. \A k \in 1 .. Len(AllVector) : k <= x <=> AllVector[k] <= AllVector[x]
    BY <2>2, <2>3
  <2>5. \A k \in 1 .. x : k \in 1 .. Len(AllVector) /\ k <= x
    BY <2>2
  <2>6. m <= x => m \in 1 .. x
    BY <2>2
  <2> QED BY <2>1, <2>4, <2>5, <2>6
<1>2. DuePoints(w, x) = ComputePointFor(w, b)
  BY <1>1 DEF DuePoints, ComputePointFor
<1> QED BY <1>2 DEF ValueAt, Snapshot

\* No value is the mark of an unwritten part.
LEMMA ValueBound ==
    ASSUME TypeInv, NEW w \in Threads, NEW x
    PROVE  ValueAt(w, x) \in 0 .. MaxRecords
<1>1. \A p : Cardinality(RecordsBefore(w, p)) \in 0 .. MaxRecords
  <2>1. SUFFICES ASSUME NEW p PROVE Cardinality(RecordsBefore(w, p)) \in 0 .. MaxRecords
    OBVIOUS
  <2>2. PICK n \in Nat : n = Len(arrived) /\ n <= MaxRecords /\ DOMAIN arrived = 1 .. n
    BY ArrivedFacts DEF TypeInv, TypeMain
  <2>3. IsFiniteSet(1 .. n) /\ Cardinality(1 .. n) = n
    <3>1. IsFiniteSet(1 .. n) /\ Cardinality(1 .. n) = (IF 1 > n THEN 0 ELSE n - 1 + 1)
      BY FS_Interval
    <3> QED BY <3>1
  <2>4. RecordsBefore(w, p) \in SUBSET (1 .. n)
    BY <2>2 DEF RecordsBefore
  <2>5. Cardinality(RecordsBefore(w, p)) <= n /\ Cardinality(RecordsBefore(w, p)) \in Nat
    BY <2>3, <2>4, FS_Subset, FS_CardinalityType
  <2> QED BY <2>2, <2>5, EngineAssumption
<1>2. 0 \in 0 .. MaxRecords
  BY EngineAssumption
<1> QED BY <1>1, <1>2 DEF ValueAt

\* Without a new record, no count of records changes.
LEMMA SameRecords ==
    ASSUME UNCHANGED arrived
    PROVE  /\ \A w, p : RecordsBefore(w, p)' = RecordsBefore(w, p)
           /\ \A w, n : RoutedUpTo(w, n)' = RoutedUpTo(w, n)
           /\ \A w, x : ValueAt(w, x)' = ValueAt(w, x)
           /\ \A w, b : Snapshot(w, b)' = Snapshot(w, b)
           /\ \A w, q, d, j : LaneItems(w, q, d, j) => LaneItems(w, q, d, j)'
<1>1. \A w, p : RecordsBefore(w, p)' = RecordsBefore(w, p)
  BY DEF RecordsBefore, RoutedTo
<1>2. \A w, n : RoutedUpTo(w, n)' = RoutedUpTo(w, n)
  BY DEF RoutedUpTo, RoutedTo
<1>3. \A w, x : ValueAt(w, x)' = ValueAt(w, x)
  BY <1>1 DEF ValueAt, DuePoints
<1>4. \A w, b : Snapshot(w, b)' = Snapshot(w, b)
  BY <1>1 DEF Snapshot, ComputePointFor
<1>5. ASSUME NEW w, NEW q, NEW d, NEW j, LaneItems(w, q, d, j)
      PROVE  LaneItems(w, q, d, j)'
  BY <1>1, <1>5 DEF LaneItems, ItemOK
<1> QED BY <1>1, <1>2, <1>3, <1>4, <1>5

\* A step that neither adds to nor takes from a lane.
LEMMA LaneFrame ==
    ASSUME TypeInv, NEW w \in Threads, NEW q, NEW d, NEW j, Lane(w, q, d, j),
           UNCHANGED <<arrived, timeIdx>>, input'[w] = input[w], seen'[w] = seen[w],
           computed'[w] = computed[w], batch'[w] = batch[w] \/ batch'[w] \notin Batches,
           mpc' \in {"idle", "timer"} => mpc' = mpc
    PROVE  Lane(w, q, d, j)'
<1>1. LaneItems(w, q, d, j)'
  BY SameRecords DEF Lane
<1>2. \A n \in Nat : mpc' \in {"idle", "timer"} /\ n = Handled' =>
           d[Len(q)] = Cardinality(RoutedUpTo(w, n)')
  <2>1. mpc' \in {"idle", "timer"} => Handled' = Handled
    BY DEF Handled
  <2> QED BY <2>1, SameRecords DEF Lane
<1>3. computed'[w] = ValueAt(w, j[0])'
  BY SameRecords DEF Lane
<1>4. q = input[w] /\ d[0] = seen[w] /\ (\A i \in 0 .. Len(q) : j[i] <= timeIdx - 1)
      /\ j[Len(q)] = timeIdx - 1
      /\ (batch[w] \in Batches => j[0] > 0 /\ SendVector[batch[w]] = AllVector[j[0]])
  BY DEF Lane
<1> QED BY <1>1, <1>2, <1>3, <1>4 DEF Lane

\* A record that arrives after a point does not count among those before it.
LEMMA RecordsBeforeStable ==
    ASSUME TypeInv, NEW t \in 0 .. MaxTime, NEW g \in Groups, Arrive(t, g),
           NEW n \in Nat, n = Len(arrived), NEW w, NEW p \in Nat, Reached(n, p)
    PROVE  RecordsBefore(w, p)' = RecordsBefore(w, p)
<1>1. /\ Len(arrived') = n + 1
      /\ \A i \in 1 .. n : arrived'[i] = arrived[i]
  BY ArriveFacts
<1>2. DOMAIN arrived = 1 .. n /\ DOMAIN arrived' = 1 .. n + 1
  <2>1. arrived' \in Seq(Records)
    BY TypeArrive DEF TypeInv, TypeMain
  <2>2. DOMAIN arrived' = 1 .. Len(arrived')
    BY <2>1, LenProperties
  <2> QED BY <1>1, <2>2, ArrivedFacts
<1>3. PICK k \in 1 .. n : arrived[k].time >= p /\ arrived[k].time \in Nat
  BY ArrivedFacts DEF Reached
<1>4. ASSUME NEW i \in 1 .. n + 1
      PROVE  (RoutedTo(arrived'[i], w) /\ \A m \in 1 .. i : arrived'[m].time < p)
             <=> i \in 1 .. n /\ RoutedTo(arrived[i], w) /\ \A m \in 1 .. i : arrived[m].time < p
  <2>1. CASE i = n + 1
    <3>1. k \in 1 .. i /\ ~ (arrived'[k].time < p)
      BY <1>1, <1>3, <2>1
    <3> QED BY <2>1, <3>1
  <2>2. CASE i \in 1 .. n
    <3>1. \A m \in 1 .. i : m \in 1 .. n
      BY <2>2
    <3> QED BY <1>1, <2>2, <3>1
  <2> QED BY <2>1, <2>2
<1>5. \A i \in 1 .. n : i \in 1 .. n + 1
  OBVIOUS
<1>6. RecordsBefore(w, p)' = {i \in 1 .. n + 1 : RoutedTo(arrived'[i], w) /\ \A m \in 1 .. i : arrived'[m].time < p}
  BY <1>2 DEF RecordsBefore, RoutedTo
<1>7. RecordsBefore(w, p) = {i \in 1 .. n : RoutedTo(arrived[i], w) /\ \A m \in 1 .. i : arrived[m].time < p}
  BY <1>2 DEF RecordsBefore
<1> QED BY <1>4, <1>5, <1>6, <1>7

\* The points a thread computes with are points that have been reached.
LEMMA DuePointReached ==
    ASSUME TypeInv, MainInv, NEW n \in Nat, n = Len(arrived),
           NEW w \in Threads, NEW x \in Nat, x <= timeIdx - 1, DuePoints(w, x) # {}
    PROVE  Max(DuePoints(w, x)) \in Nat /\ Reached(n, Max(DuePoints(w, x)))
<1>1. DuePoints(w, x) \in SUBSET Nat /\ IsFiniteSet(DuePoints(w, x))
  <2>1. DuePoints(w, x) \in SUBSET TimePoints
    BY PointsFinite DEF DuePoints
  <2>2. TimePoints \in SUBSET Nat /\ IsFiniteSet(TimePoints)
    BY PointsFinite
  <2> QED BY <2>1, <2>2, FS_Subset
<1>2. PICK p \in Nat : p = Max(DuePoints(w, x)) /\ p \in DuePoints(w, x)
  BY <1>1, LargestExists
<1>3. PICK k \in 1 .. x : AllVector[k] = p
  BY <1>2 DEF DuePoints
<1>4. k \in 1 .. timeIdx - 1
  BY DEF TypeInv, TypeMain
<1> QED BY <1>2, <1>3, <1>4 DEF MainInv, PointsInv

\* A record arrives: what is in the lanes stays true.
LEMMA LaneArrive ==
    ASSUME TypeInv, MainInv, NEW t \in 0 .. MaxTime, NEW g \in Groups, Arrive(t, g),
           NEW w \in Threads, NEW q, NEW d, NEW j, Lane(w, q, d, j)
    PROVE  Lane(w, q, d, j)'
<1>1. PICK n \in Nat : n = Len(arrived)
  BY ArrivedFacts
<1>2. /\ Len(arrived') = n + 1 /\ \A i \in 1 .. n : arrived'[i] = arrived[i]
      /\ mpc = "idle" /\ mpc' = "timer"
      /\ UNCHANGED <<timeIdx, input, seen, computed, batch>>
  BY <1>1, ArriveFacts DEF workVars
<1>3. \A k \in 1 .. Len(AllVector) : k <= timeIdx - 1 =>
          RecordsBefore(w, AllVector[k])' = RecordsBefore(w, AllVector[k])
  <2>1. SUFFICES ASSUME NEW k \in 1 .. Len(AllVector), k <= timeIdx - 1
                 PROVE  RecordsBefore(w, AllVector[k])' = RecordsBefore(w, AllVector[k])
    OBVIOUS
  <2>2. AllVector[k] \in Nat /\ k \in 1 .. timeIdx - 1
    BY <2>1, AllVectorFacts DEF TypeInv, TypeMain
  <2>3. Reached(n, AllVector[k])
    BY <1>1, <2>2 DEF MainInv, PointsInv
  <2>4. \A p \in Nat : Reached(n, p) => RecordsBefore(w, p)' = RecordsBefore(w, p)
    BY <1>1, RecordsBeforeStable
  <2> QED BY <2>2, <2>3, <2>4
<1>4. /\ q = input[w] /\ LaneItems(w, q, d, j) /\ d[0] = seen[w]
      /\ (\A i \in 0 .. Len(q) : j[i] <= timeIdx - 1) /\ j[Len(q)] = timeIdx - 1
      /\ computed[w] = ValueAt(w, j[0])
      /\ (batch[w] \in Batches => j[0] > 0 /\ SendVector[batch[w]] = AllVector[j[0]])
  BY DEF Lane
<1>5. LaneItems(w, q, d, j)'
  <2>1. SUFFICES ASSUME NEW i \in 1 .. Len(q)
                 PROVE  ItemOK(w, q[i], d[i - 1], d[i], j[i - 1], j[i])'
    BY <1>4 DEF LaneItems
  <2>2. ItemOK(w, q[i], d[i - 1], d[i], j[i - 1], j[i]) /\ j[i] <= timeIdx - 1
    <3>1. i \in 0 .. Len(q)
      BY <2>1
    <3> QED BY <1>4, <3>1 DEF LaneItems
  <2> QED BY <1>3, <2>2 DEF ItemOK
<1>6. \A m \in Nat : m = Handled' => d[Len(q)] = Cardinality(RoutedUpTo(w, m)')
  <2>1. Handled' = n /\ Handled = n
    BY <1>1, <1>2 DEF Handled
  <2>2. RoutedUpTo(w, n)' = RoutedUpTo(w, n)
    BY <1>2 DEF RoutedUpTo, RoutedTo
  <2>3. d[Len(q)] = Cardinality(RoutedUpTo(w, n))
    BY <1>2, <2>1 DEF Lane
  <2> QED BY <2>1, <2>2, <2>3
<1>7. ValueAt(w, j[0])' = ValueAt(w, j[0])
  <2>1. j[0] \in Nat /\ j[0] <= timeIdx - 1
    <3>1. 0 \in 0 .. Len(q)
      BY <1>4, LenProperties DEF LaneItems
    <3> QED BY <1>4, <3>1 DEF LaneItems
  <2>2. PICK x \in Nat : x = j[0]
    BY <2>1
  <2>3. ValueAt(w, x)' = ValueAt(w, x)
    <3>1. CASE DuePoints(w, x) = {}
      BY <3>1 DEF ValueAt, DuePoints
    <3>2. CASE DuePoints(w, x) # {}
      <4>1. PICK p \in Nat : p = Max(DuePoints(w, x)) /\ Reached(n, p)
        BY <1>1, <2>1, <2>2, <3>2, DuePointReached
      <4>2. RecordsBefore(w, p)' = RecordsBefore(w, p)
        BY <1>1, <4>1, RecordsBeforeStable
      <4>3. ValueAt(w, x) = Cardinality(RecordsBefore(w, p))
        BY <3>2, <4>1 DEF ValueAt
      <4>4. ValueAt(w, x)' = Cardinality(RecordsBefore(w, p)')
        <5>1. DuePoints(w, x)' = DuePoints(w, x)
          BY DEF DuePoints
        <5> QED BY <3>2, <4>1, <5>1 DEF ValueAt
      <4> QED BY <4>2, <4>3, <4>4
    <3> QED BY <3>1, <3>2
  <2> QED BY <2>2, <2>3
<1> QED BY <1>2, <1>4, <1>5, <1>6, <1>7 DEF Lane

\* A time point is emitted: the records before it are those handled so far.
LEMMA LaneEmit ==
    ASSUME TypeInv, MainInv, EmitTimePoint,
           NEW w \in Threads, NEW q, NEW d, NEW j, Lane(w, q, d, j)
    PROVE  \E r, e, k : Lane(w, r, e, k)'
<1>1. PICK p \in TimePoints, b \in Batches \union {NoBatch} :
             /\ timeIdx \in 1 .. Len(AllVector) /\ p = AllVector[timeIdx] /\ p \in Nat
             /\ record.time >= p
             /\ b \in Batches => SendVector[b] = p
             /\ input' = [v \in Threads |-> Append(input[v], [kind |-> "time", at |-> p, send |-> b])]
             /\ [kind |-> "time", at |-> p, send |-> b] \in TimeItems
             /\ timeIdx' = timeIdx + 1
  BY EmitFacts
<1>2. PICK n \in Nat : n = Len(arrived) /\ n > 0 /\ record = arrived[n] /\ DOMAIN arrived = 1 .. n
  BY ArrivedFacts DEF MainInv, PointsInv, EmitTimePoint
<1>3. mpc = "timer" /\ mpc' = "timer" /\ UNCHANGED <<arrived, seen, computed, batch>>
      /\ Handled = n - 1 /\ Handled' = n - 1 /\ n - 1 \in Nat
  BY <1>2 DEF EmitTimePoint, Handled, workVars
<1>4. PICK it \in TimeItems : it = [kind |-> "time", at |-> p, send |-> b]
  BY <1>1
<1>5. /\ q = input[w] /\ LaneItems(w, q, d, j) /\ d[0] = seen[w]
      /\ (\A i \in 0 .. Len(q) : j[i] <= timeIdx - 1) /\ j[Len(q)] = timeIdx - 1
      /\ d[Len(q)] = Cardinality(RoutedUpTo(w, n - 1))
      /\ computed[w] = ValueAt(w, j[0])
      /\ (batch[w] \in Batches => j[0] > 0 /\ SendVector[batch[w]] = AllVector[j[0]])
  BY <1>3 DEF Lane
<1>6. PICK m \in Nat : m = Len(q) /\ d[m] \in Nat /\ j[m] \in Nat
  <2>1. Len(q) \in Nat /\ d \in [0 .. Len(q) -> Nat] /\ j \in [0 .. Len(q) -> Nat]
    BY <1>5, LenProperties DEF LaneItems
  <2> QED BY <2>1
<1>7. RecordsBefore(w, p) = RoutedUpTo(w, n - 1)
  <2>1. ~ Reached(n - 1, p)
    BY <1>1, <1>3 DEF MainInv, PointsInv
  <2>2. \A i \in 1 .. n : arrived[i].time \in Nat
    BY <1>2, ArrivedFacts
  <2>3. \A i \in 1 .. n - 1 : arrived[i].time < p
    BY <1>1, <2>1, <2>2 DEF Reached
  <2>4. n \in 1 .. n /\ ~ (arrived[n].time < p)
    BY <1>1, <1>2, <2>2
  <2>5. ASSUME NEW i
        PROVE  (i \in 1 .. n /\ \A l \in 1 .. i : arrived[l].time < p) <=> i \in 1 .. n - 1
    BY <1>2, <2>3, <2>4
  <2> QED BY <1>2, <2>5 DEF RecordsBefore, RoutedUpTo
<1>8. ItemOK(w, it, d[m], d[m], j[m], timeIdx)
  <2>1. it.at = p /\ it.send = b
    BY <1>4
  <2> QED BY <1>1, <1>4, <1>5, <1>6, <1>7, <2>1 DEF ItemOK
<1>9. it \in Items /\ timeIdx \in Nat
  BY <1>1, <1>4 DEF Items
<1>a. PICK e, k : /\ LaneItems(w, Append(q, it), e, k)
                  /\ Len(Append(q, it)) = Len(q) + 1
                  /\ \A i \in 0 .. Len(q) : e[i] = d[i] /\ k[i] = j[i]
                  /\ e[Len(q) + 1] = d[m] /\ k[Len(q) + 1] = timeIdx
  <2>1. PICK d1 \in Nat, j1 \in Nat : d1 = d[m] /\ j1 = timeIdx
    BY <1>6, <1>9
  <2>2. ItemOK(w, it, d[Len(q)], d1, j[Len(q)], j1)
    BY <1>6, <1>8, <2>1
  <2>3. \E e, k : /\ LaneItems(w, Append(q, it), e, k)
                  /\ Len(Append(q, it)) = Len(q) + 1
                  /\ \A i \in 0 .. Len(q) : e[i] = d[i] /\ k[i] = j[i]
                  /\ e[Len(q) + 1] = d1 /\ k[Len(q) + 1] = j1
    <3>1. it \in Items /\ LaneItems(w, q, d, j)
      BY <1>5, <1>9
    <3> QED BY <2>2, <3>1, LaneAppend
  <2> QED BY <2>1, <2>3
<1>b. PICK r : r = Append(q, it)
  OBVIOUS
<1>10. /\ r = Append(q, it) /\ LaneItems(w, r, e, k) /\ Len(r) = m + 1
       /\ \A i \in 0 .. m : e[i] = d[i] /\ k[i] = j[i]
       /\ e[m + 1] = d[m] /\ k[m + 1] = timeIdx
  BY <1>6, <1>a, <1>b
<1>11. LaneItems(w, r, e, k)'
  BY <1>3, <1>10, SameRecords
<1>12. r = input'[w]
  BY <1>1, <1>4, <1>5, <1>10
<1>13. e[0] = d[0] /\ k[0] = j[0]
  <2>1. 0 \in 0 .. m
    BY <1>6
  <2> QED BY <1>10, <2>1
<1>14. (\A i \in 0 .. Len(r) : k[i] <= timeIdx' - 1) /\ k[Len(r)] = timeIdx' - 1
  <2>1. \A i \in 0 .. m + 1 : i \in 0 .. m \/ i = m + 1
    OBVIOUS
  <2>2. \A i \in 0 .. m : k[i] \in Nat /\ k[i] <= timeIdx - 1
    <3>1. \A i \in 0 .. m : j[i] \in Nat /\ j[i] <= timeIdx - 1
      BY <1>5, <1>6 DEF LaneItems
    <3> QED BY <1>10, <3>1
  <2> QED BY <1>1, <1>9, <1>10, <2>1, <2>2
<1>15. \A l \in Nat : l = Handled' => e[Len(r)] = Cardinality(RoutedUpTo(w, l)')
  BY <1>3, <1>5, <1>6, <1>10, SameRecords
<1>16. computed'[w] = ValueAt(w, k[0])'
  <2>1. computed'[w] = ValueAt(w, j[0])'
    BY <1>3, <1>5, SameRecords
  <2> QED BY <1>13, <2>1
<1>17. d[0] = seen'[w] /\ (batch'[w] \in Batches => j[0] > 0 /\ SendVector[batch'[w]] = AllVector[j[0]])
  BY <1>3, <1>5
<1>18. Lane(w, r, e, k)'
  BY <1>11, <1>12, <1>13, <1>14, <1>15, <1>16, <1>17 DEF Lane
<1> QED BY <1>18

\* The record just handled is dispatched to the threads it is for.
LEMMA LaneDispatch ==
    ASSUME TypeInv, MainInv, DispatchRecord,
           NEW w \in Threads, NEW q, NEW d, NEW j, Lane(w, q, d, j)
    PROVE  \E r, e, k : Lane(w, r, e, k)'
<1>1. PICK n \in Nat : n = Len(arrived) /\ n > 0 /\ record = arrived[n]
  BY ArrivedFacts DEF MainInv, PointsInv, DispatchRecord
<1>2. mpc = "timer" /\ mpc' = "idle" /\ UNCHANGED <<arrived, timeIdx, seen, computed, batch>>
      /\ Handled = n - 1 /\ Handled' = n /\ n - 1 \in Nat
      /\ input'[w] = IF RoutedTo(record, w) THEN Append(input[w], Data) ELSE input[w]
  BY <1>1 DEF DispatchRecord, Handled, workVars
<1>3. /\ q = input[w] /\ LaneItems(w, q, d, j) /\ d[0] = seen[w]
      /\ (\A i \in 0 .. Len(q) : j[i] <= timeIdx - 1) /\ j[Len(q)] = timeIdx - 1
      /\ d[Len(q)] = Cardinality(RoutedUpTo(w, n - 1))
      /\ computed[w] = ValueAt(w, j[0])
      /\ (batch[w] \in Batches => j[0] > 0 /\ SendVector[batch[w]] = AllVector[j[0]])
  BY <1>2 DEF Lane
<1>4. PICK m \in Nat : m = Len(q) /\ d[m] \in Nat /\ j[m] \in Nat
  <2>1. Len(q) \in Nat /\ d \in [0 .. Len(q) -> Nat] /\ j \in [0 .. Len(q) -> Nat]
    BY <1>3, LenProperties DEF LaneItems
  <2> QED BY <2>1
<1>5. \A i : i \in 1 .. n <=> i \in 1 .. n - 1 \/ i = n
  BY <1>1
<1>6. CASE ~ RoutedTo(record, w)
  <2>1. RoutedUpTo(w, n) = RoutedUpTo(w, n - 1)
    BY <1>1, <1>5, <1>6 DEF RoutedUpTo
  <2>2. \A l \in Nat : l = Handled' => d[Len(q)] = Cardinality(RoutedUpTo(w, l)')
    BY <1>2, <1>3, <2>1, SameRecords
  <2>3. LaneItems(w, q, d, j)' /\ computed'[w] = ValueAt(w, j[0])'
    BY <1>2, <1>3, SameRecords
  <2>4. Lane(w, q, d, j)'
    BY <1>2, <1>3, <1>6, <2>2, <2>3 DEF Lane
  <2> QED BY <2>4
<1>7. CASE RoutedTo(record, w)
  <2>1. RoutedUpTo(w, n) = RoutedUpTo(w, n - 1) \union {n} /\ n \notin RoutedUpTo(w, n - 1)
    BY <1>1, <1>5, <1>7 DEF RoutedUpTo
  <2>2. Cardinality(RoutedUpTo(w, n)) = d[m] + 1
    <3>1. RoutedUpTo(w, n - 1) \in SUBSET (1 .. n - 1) /\ IsFiniteSet(1 .. n - 1)
      BY FS_Interval DEF RoutedUpTo
    <3>2. IsFiniteSet(RoutedUpTo(w, n - 1))
      BY <3>1, FS_Subset
    <3> QED BY <1>3, <1>4, <2>1, <3>2, FS_AddElement
  <2>3. ItemOK(w, Data, d[m], d[m] + 1, j[m], j[m]) /\ Data \in Items /\ d[m] + 1 \in Nat
    BY <1>4 DEF ItemOK, Items
  <2>a. PICK e, k : /\ LaneItems(w, Append(q, Data), e, k)
                    /\ Len(Append(q, Data)) = Len(q) + 1
                    /\ \A i \in 0 .. Len(q) : e[i] = d[i] /\ k[i] = j[i]
                    /\ e[Len(q) + 1] = d[m] + 1 /\ k[Len(q) + 1] = j[m]
    <3>1. PICK d1 \in Nat, j1 \in Nat : d1 = d[m] + 1 /\ j1 = j[m]
      BY <1>4, <2>3
    <3>2. ItemOK(w, Data, d[Len(q)], d1, j[Len(q)], j1)
      BY <1>4, <2>3, <3>1
    <3>3. \E e, k : /\ LaneItems(w, Append(q, Data), e, k)
                    /\ Len(Append(q, Data)) = Len(q) + 1
                    /\ \A i \in 0 .. Len(q) : e[i] = d[i] /\ k[i] = j[i]
                    /\ e[Len(q) + 1] = d1 /\ k[Len(q) + 1] = j1
      BY <1>3, <2>3, <3>2, LaneAppend
    <3> QED BY <3>1, <3>3
  <2>b. PICK r : r = Append(q, Data)
    OBVIOUS
  <2>4. /\ r = Append(q, Data) /\ LaneItems(w, r, e, k) /\ Len(r) = m + 1
        /\ \A i \in 0 .. m : e[i] = d[i] /\ k[i] = j[i]
        /\ e[m + 1] = d[m] + 1 /\ k[m + 1] = j[m]
    BY <1>4, <2>a, <2>b
  <2>5. LaneItems(w, r, e, k)' /\ r = input'[w]
    BY <1>2, <1>3, <1>7, <2>4, SameRecords
  <2>6. e[0] = d[0] /\ k[0] = j[0]
    <3>1. 0 \in 0 .. m
      BY <1>4
    <3> QED BY <2>4, <3>1
  <2>7. (\A i \in 0 .. Len(r) : k[i] <= timeIdx' - 1) /\ k[Len(r)] = timeIdx' - 1
    <3>1. \A i \in 0 .. m + 1 : i \in 0 .. m \/ i = m + 1
      OBVIOUS
    <3>2. \A i \in 0 .. m : k[i] <= timeIdx - 1
      BY <1>3, <1>4, <2>4
    <3>3. m \in 0 .. m
      BY <1>4
    <3> QED BY <1>2, <1>3, <1>4, <2>4, <3>1, <3>2, <3>3
  <2>8. \A l \in Nat : l = Handled' => e[Len(r)] = Cardinality(RoutedUpTo(w, l)')
    BY <1>2, <2>2, <2>4, SameRecords
  <2>9. computed'[w] = ValueAt(w, k[0])'
    <3>1. computed'[w] = ValueAt(w, j[0])'
      BY <1>2, <1>3, SameRecords
    <3> QED BY <2>6, <3>1
  <2>10. d[0] = seen'[w] /\ (batch'[w] \in Batches => j[0] > 0 /\ SendVector[batch'[w]] = AllVector[j[0]])
    BY <1>2, <1>3
  <2>11. Lane(w, r, e, k)'
    BY <2>5, <2>6, <2>7, <2>8, <2>9, <2>10 DEF Lane
  <2> QED BY <2>11
<1> QED BY <1>6, <1>7, SMTT(40)

\* A thread takes the first item of its lane.
LEMMA LaneTake ==
    ASSUME TypeInv, MainInv, NEW w \in Threads, TakeRecord(w) \/ TakeTimePoint(w),
           NEW q, NEW d, NEW j, Lane(w, q, d, j)
    PROVE  \E r, e, k : Lane(w, r, e, k)'
<1>1. UNCHANGED mainVars /\ q = input[w] /\ q # <<>> /\ LaneItems(w, q, d, j) /\ d[0] = seen[w]
  BY DEF TakeRecord, TakeTimePoint, Lane
<1>2. UNCHANGED <<arrived, timeIdx, mpc>> /\ Handled' = Handled
  BY <1>1 DEF mainVars, Handled
<1>3. /\ ItemOK(w, q[1], d[0], d[1], j[0], j[1]) /\ Len(q) \in Nat \ {0}
      /\ d[1] \in Nat /\ j[1] \in Nat /\ d[0] \in Nat /\ j[0] \in Nat
  BY <1>1, LaneTail, SMTT(40)
<1>4. PICK m \in Nat : m + 1 = Len(q) /\ m = Len(q) - 1
  <2>1. Len(q) - 1 \in Nat /\ (Len(q) - 1) + 1 = Len(q)
    BY <1>3
  <2> QED BY <2>1
<1>a. PICK e, k : /\ LaneItems(w, Tail(q), e, k)
                  /\ Len(Tail(q)) = Len(q) - 1
                  /\ \A i \in 0 .. Len(q) - 1 : e[i] = d[i + 1] /\ k[i] = j[i + 1]
  BY <1>1, LaneTail
<1>b. PICK r : r = Tail(q)
  OBVIOUS
<1>5. /\ r = Tail(q) /\ LaneItems(w, r, e, k) /\ Len(r) = m
      /\ \A i \in 0 .. m : e[i] = d[i + 1] /\ k[i] = j[i + 1]
  BY <1>4, <1>a, <1>b
<1>6. e[0] = d[1] /\ k[0] = j[1] /\ e[m] = d[m + 1] /\ k[m] = j[m + 1]
  <2>1. 0 \in 0 .. m /\ m \in 0 .. m /\ 0 + 1 = 1
    BY <1>4
  <2> QED BY <1>5, <2>1
<1>7. r = input'[w] /\ Head(q) = q[1] /\ Head(q) \in Items
  <2>1. input'[w] = Tail(input[w])
    BY DEF TakeRecord, TakeTimePoint, TypeInv, TypeWork
  <2> QED BY <1>1, <1>5, <2>1, HeadItem
<1>8. LaneItems(w, r, e, k)'
  BY <1>2, <1>5, SameRecords
<1>9. (\A i \in 0 .. Len(r) : k[i] <= timeIdx' - 1) /\ k[Len(r)] = timeIdx' - 1
  <2>1. (\A i \in 0 .. m + 1 : j[i] <= timeIdx - 1) /\ j[m + 1] = timeIdx - 1
    BY <1>4 DEF Lane
  <2>2. \A i \in 0 .. m : i + 1 \in 0 .. m + 1
    OBVIOUS
  <2> QED BY <1>2, <1>5, <1>6, <2>1, <2>2
<1>10. \A n \in Nat : mpc' \in {"idle", "timer"} /\ n = Handled' =>
           e[Len(r)] = Cardinality(RoutedUpTo(w, n)')
  <2>1. \A n \in Nat : mpc \in {"idle", "timer"} /\ n = Handled =>
           d[m + 1] = Cardinality(RoutedUpTo(w, n))
    BY <1>4 DEF Lane
  <2> QED BY <1>2, <1>5, <1>6, <2>1, SameRecords
<1>11. computed[w] = ValueAt(w, j[0]) /\ j[1] <= timeIdx - 1
  <2>1. 1 \in 0 .. Len(q)
    BY <1>3
  <2> QED BY <2>1 DEF Lane
<1>12. CASE TakeRecord(w)
  <2>1. q[1] = Data /\ d[1] = d[0] + 1 /\ j[1] = j[0]
    BY <1>1, <1>3, <1>7, <1>12 DEF TakeRecord, ItemOK, TimeItems
  <2>2. seen'[w] = e[0] /\ computed'[w] = computed[w] /\ batch'[w] = batch[w]
    BY <1>1, <1>6, <1>12, <2>1 DEF TakeRecord, TypeInv, TypeWork
  <2>3. batch[w] \in Batches => k[0] > 0 /\ SendVector[batch[w]] = AllVector[k[0]]
    BY <1>6, <2>1 DEF Lane
  <2>4. computed'[w] = ValueAt(w, k[0])'
    BY <1>2, <1>6, <1>11, <2>1, <2>2, SameRecords
  <2>5. Lane(w, r, e, k)'
    BY <1>7, <1>8, <1>9, <1>10, <2>2, <2>3, <2>4 DEF Lane
  <2> QED BY <2>5
<1>13. CASE TakeTimePoint(w)
  <2>1. /\ q[1] \in TimeItems /\ d[1] = d[0] /\ j[1] = j[0] + 1
        /\ j[1] \in 1 .. Len(AllVector) /\ q[1].at = AllVector[j[1]]
        /\ q[1].send \in Batches => SendVector[q[1].send] = q[1].at
        /\ Cardinality(RecordsBefore(w, q[1].at)) = d[1]
    BY <1>1, <1>3, <1>7, <1>13 DEF TakeTimePoint, ItemOK, Data
  <2>2. /\ seen'[w] = seen[w] /\ batch'[w] = q[1].send
        /\ computed'[w] = IF q[1].at \in ComputePoints[w] THEN seen[w] ELSE computed[w]
    BY <1>1, <1>7, <1>13 DEF TakeTimePoint, TypeInv, TypeWork
  <2>3. PICK x \in Nat : x = j[0] /\ x + 1 = j[1]
    BY <1>3, <2>1
  <2>4. computed'[w] = ValueAt(w, x + 1)
    <3>1. ValueAt(w, x + 1) = IF AllVector[x + 1] \in ComputePoints[w]
                                THEN Cardinality(RecordsBefore(w, AllVector[x + 1]))
                                ELSE ValueAt(w, x)
      BY <2>1, <2>3, ValueStep
    <3> QED BY <1>1, <1>11, <2>1, <2>2, <2>3, <3>1
  <2>5. computed'[w] = ValueAt(w, k[0])'
    <3>1. ValueAt(w, x + 1)' = ValueAt(w, x + 1)
      BY <1>2, SameRecords
    <3>2. k[0] = x + 1
      BY <1>6, <2>3
    <3> QED BY <2>4, <3>1, <3>2
  <2>6. batch'[w] \in Batches => k[0] > 0 /\ SendVector[batch'[w]] = AllVector[k[0]]
    BY <1>6, <2>1, <2>2
  <2>7. Lane(w, r, e, k)'
    BY <1>1, <1>6, <1>7, <1>8, <1>9, <1>10, <2>1, <2>2, <2>5, <2>6 DEF Lane
  <2> QED BY <2>7
<1> QED BY <1>12, <1>13

\* Every input is empty and no part of a batch has been written.
LEMMA LanesInit == Init => LanesInv /\ WrittenInv
<1> SUFFICES ASSUME Init PROVE LanesInv /\ WrittenInv
  OBVIOUS
<1>1. ASSUME NEW w \in Threads
      PROVE  \E q, d, j : Lane(w, q, d, j)
  <2>1. PICK z \in [0 .. 0 -> Nat] : z[0] = 0
    <3>1. [i \in 0 .. 0 |-> 0] \in [0 .. 0 -> Nat]
      OBVIOUS
    <3>2. [i \in 0 .. 0 |-> 0][0] = 0
      OBVIOUS
    <3> QED BY <3>1, <3>2
  <2>2. PICK q \in Seq(Items) : q = <<>> /\ Len(q) = 0
    BY EmptySeq
  <2>3. LaneItems(w, q, z, z)
    BY <2>1, <2>2 DEF LaneItems
  <2>4. input[w] = q /\ seen[w] = 0 /\ computed[w] = 0 /\ batch[w] = NoBatch /\ timeIdx = 1 /\ Handled = 0
    BY <2>2 DEF Init, Handled
  <2>5. RoutedUpTo(w, 0) = {} /\ Cardinality(RoutedUpTo(w, 0)) = 0
    <3>1. RoutedUpTo(w, 0) = {}
      BY DEF RoutedUpTo
    <3> QED BY <3>1, FS_EmptySet
  <2>6. ValueAt(w, 0) = 0
    BY DEF ValueAt, DuePoints
  <2>7. NoBatch \notin Batches
    BY SendVectorFacts DEF NoBatch
  <2>8. Lane(w, q, z, z)
    BY <2>1, <2>2, <2>3, <2>4, <2>5, <2>6, <2>7 DEF Lane
  <2> QED BY <2>8
<1>2. WrittenInv
  BY DEF Init, WrittenInv
<1> QED BY <1>1, <1>2 DEF LanesInv

\* Every step keeps the lanes right.
LEMMA LanesNext ==
    ASSUME TypeInv, MainInv, LanesInv, [Next]_vars
    PROVE  LanesInv'
<1> SUFFICES ASSUME NEW w \in Threads PROVE \E r, e, k : Lane(w, r, e, k)'
  BY DEF LanesInv
<1>1. PICK q, d, j : Lane(w, q, d, j)
  BY DEF LanesInv
<1>2. CASE \E t \in 0 .. MaxTime, g \in Groups : Arrive(t, g)
  BY <1>1, <1>2, LaneArrive
<1>3. CASE EmitTimePoint
  BY <1>1, <1>3, LaneEmit
<1>4. CASE DispatchRecord
  BY <1>1, <1>4, LaneDispatch
<1>5. CASE LastPointReached \/ FeedEnds \/ StopThreads \/ JoinThreads \/ JoinScan
           \/ \E ok \in BOOLEAN : SaveBatch(ok) \/ FinishSave(ok)
  <2>1. UNCHANGED <<arrived, timeIdx, input, seen, computed, batch>>
        /\ (mpc' \in {"idle", "timer"} => mpc' = mpc)
    BY <1>5 DEF LastPointReached, FeedEnds, StopThreads, JoinThreads, JoinScan, SaveBatch, FinishSave,
                mainVars, workVars
  <2> QED BY <1>1, <2>1, LaneFrame
<1>6. CASE Scan \/ UNCHANGED vars
  <2>1. UNCHANGED <<arrived, timeIdx, input, seen, computed, batch, mpc>>
    BY <1>6 DEF Scan, CollectOne, EndPass, vars, mainVars, workVars
  <2> QED BY <1>1, <2>1, LaneFrame
<1>7. ASSUME NEW v \in Threads, Calc(v)
      PROVE  \E r, e, k : Lane(w, r, e, k)'
  <2>1. UNCHANGED <<arrived, timeIdx, mpc>>
    BY <1>7 DEF Calc, TakeRecord, TakeTimePoint, WriteRows, Notify, Exit, mainVars
  <2>2. CASE v = w /\ (TakeRecord(w) \/ TakeTimePoint(w))
    BY <1>1, <2>2, LaneTake
  <2>3. CASE v # w \/ WriteRows(v) \/ Notify(v) \/ Exit(v)
    <3>1. input'[w] = input[w] /\ seen'[w] = seen[w] /\ computed'[w] = computed[w]
      BY <1>7, <2>3 DEF Calc, TakeRecord, TakeTimePoint, WriteRows, Notify, Exit, TypeInv, TypeWork
    <3>2. batch'[w] = batch[w] \/ batch'[w] \notin Batches
      <4>1. NoBatch \notin Batches
        BY SendVectorFacts DEF NoBatch
      <4> QED BY <1>7, <2>3, <4>1 DEF Calc, TakeRecord, TakeTimePoint, WriteRows, Notify, Exit, TypeInv, TypeWork
    <3> QED BY <1>1, <2>1, <3>1, <3>2, LaneFrame
  <2> QED BY <1>7, <2>2, <2>3 DEF Calc
<1> QED BY <1>2, <1>3, <1>4, <1>5, <1>6, <1>7 DEF Next, Main

\* What a thread is about to write is what the batch should hold.
LEMMA WriteFacts ==
    ASSUME TypeInv, MainInv, LanesInv, NEW w \in Threads, batch[w] \in Batches,
           NEW n \in Nat, n = Len(arrived)
    PROVE  computed[w] = Snapshot(w, batch[w]) /\ Reached(n, SendVector[batch[w]])
<1>1. PICK q, d, j : Lane(w, q, d, j)
  BY DEF LanesInv
<1>2. q \in Seq(Items) /\ j \in [0 .. Len(q) -> Nat]
  BY <1>1 DEF Lane, LaneItems
<1>3. 0 \in 0 .. Len(q)
  BY <1>2, LenProperties
<1>4. j[0] > 0 /\ j[0] \in Nat /\ j[0] <= timeIdx - 1 /\ SendVector[batch[w]] = AllVector[j[0]]
      /\ computed[w] = ValueAt(w, j[0])
  BY <1>1, <1>2, <1>3 DEF Lane
<1>5. PICK x \in 1 .. Len(AllVector) : x = j[0] /\ x \in 1 .. timeIdx - 1
  BY <1>4, AllVectorFacts DEF TypeInv, TypeMain
<1>6. computed[w] = Snapshot(w, batch[w])
  BY <1>4, <1>5, ValueIsSnapshot
<1>7. Reached(n, AllVector[x])
  BY <1>5 DEF MainInv, PointsInv
<1> QED BY <1>4, <1>5, <1>6, <1>7

\* What has been written stays what it should be, though records arrive.
LEMMA WrittenNext ==
    ASSUME TypeInv, MainInv, LanesInv, WrittenInv, [Next]_vars
    PROVE  WrittenInv'
<1>1. CASE \E t \in 0 .. MaxTime, g \in Groups : Arrive(t, g)
  <2>1. PICK t \in 0 .. MaxTime, g \in Groups : Arrive(t, g)
    BY <1>1
  <2>2. PICK n \in Nat : n = Len(arrived) /\ Len(arrived') = n + 1 /\ cache' = cache
    BY <2>1, ArriveFacts DEF workVars
  <2>3. ASSUME NEW b \in Batches, NEW w \in Threads, cache[b][w] # Unwritten
        PROVE  Reached(n + 1, SendVector[b])' /\ cache[b][w] = Snapshot(w, b)'
    <3>1. Reached(n, SendVector[b]) /\ cache[b][w] = Snapshot(w, b)
      BY <2>2, <2>3 DEF WrittenInv
    <3>2. Reached(n + 1, SendVector[b])'
      BY <2>1, <2>2, <3>1, ArriveFacts
    <3>3. PICK C : C = ComputePointFor(w, b)
      OBVIOUS
    <3>4. ComputePointFor(w, b)' = C
      BY <3>3 DEF ComputePointFor
    <3>5. CASE C = {}
      BY <3>1, <3>2, <3>3, <3>4, <3>5 DEF Snapshot
    <3>6. CASE C # {}
      <4>1. C \in SUBSET Nat /\ IsFiniteSet(C)
        <5>1. C \in SUBSET TimePoints /\ TimePoints \in SUBSET Nat /\ IsFiniteSet(TimePoints)
          BY <3>3, PointsFinite DEF ComputePointFor
        <5> QED BY <5>1, FS_Subset
      <4>2. PICK p \in Nat : p = Max(C) /\ p <= SendVector[b]
        BY <3>3, <3>6, <4>1, LargestExists DEF ComputePointFor
      <4>3. Reached(n, p)
        BY <2>2, <3>1, <4>2, ReachedMonotone, SendVectorFacts
      <4>4. RecordsBefore(w, p)' = RecordsBefore(w, p)
        BY <2>1, <2>2, <4>2, <4>3, RecordsBeforeStable
      <4>5. Snapshot(w, b) = Cardinality(RecordsBefore(w, p))
        BY <3>3, <3>6, <4>2 DEF Snapshot
      <4>6. Snapshot(w, b)' = Cardinality(RecordsBefore(w, p)')
        BY <3>4, <3>6, <4>2 DEF Snapshot
      <4> QED BY <3>1, <3>2, <4>4, <4>5, <4>6
    <3> QED BY <3>5, <3>6
  <2> QED BY <2>2, <2>3 DEF WrittenInv
<1>2. CASE \E w \in Threads : WriteRows(w)
  <2>1. PICK v \in Threads : WriteRows(v)
    BY <1>2
  <2>2. UNCHANGED arrived /\ batch[v] \in Batches
    BY <2>1 DEF WriteRows, mainVars, TypeInv, TypeWork
  <2>3. \A b \in Batches, w \in Threads :
          cache'[b][w] = IF b = batch[v] /\ w = v THEN computed[v] ELSE cache[b][w]
    BY <2>1, <2>2 DEF WriteRows, TypeInv, TypeWork
  <2>4. \A n \in Nat : n = Len(arrived) =>
          computed[v] = Snapshot(v, batch[v]) /\ Reached(n, SendVector[batch[v]])
    BY <2>2, WriteFacts
  <2> QED BY <2>2, <2>3, <2>4, SameRecords, SameArrived DEF WrittenInv
<1>3. CASE UNCHANGED <<arrived, cache>>
  BY <1>3, SameRecords, SameArrived DEF WrittenInv
<1>4. \/ \E t \in 0 .. MaxTime, g \in Groups : Arrive(t, g)
      \/ \E w \in Threads : WriteRows(w)
      \/ UNCHANGED <<arrived, cache>>
  <2>1. CASE EmitTimePoint \/ DispatchRecord \/ LastPointReached \/ FeedEnds \/ StopThreads
             \/ JoinThreads \/ JoinScan \/ \E ok \in BOOLEAN : SaveBatch(ok) \/ FinishSave(ok)
    BY <2>1 DEF EmitTimePoint, DispatchRecord, LastPointReached, FeedEnds, StopThreads, JoinThreads,
                JoinScan, SaveBatch, FinishSave, mainVars, workVars
  <2>2. CASE Scan \/ UNCHANGED vars
    BY <2>2 DEF Scan, CollectOne, EndPass, vars, mainVars, workVars
  <2>3. ASSUME NEW w \in Threads, Calc(w)
        PROVE  WriteRows(w) \/ UNCHANGED <<arrived, cache>>
    BY <2>3 DEF Calc, TakeRecord, TakeTimePoint, Notify, Exit, mainVars
  <2> QED BY <2>1, <2>2, <2>3 DEF Next, Main
<1> QED BY <1>1, <1>2, <1>3, <1>4

\* No look-ahead, for every number of threads and every schedule: whatever
\* the main thread has run ahead to, what a thread writes into a batch was
\* computed from exactly the records routed to it before the compute point.
THEOREM EngineSnapshots == Spec => []SnapshotExact
<1>1. Init => TypeInv /\ MainInv /\ LanesInv /\ WrittenInv
  BY TypeInit, MainInit, LanesInit
<1>2. TypeInv /\ MainInv /\ LanesInv /\ WrittenInv /\ [Next]_vars
        => TypeInv' /\ MainInv' /\ LanesInv' /\ WrittenInv'
  BY TypeNext, MainNext, LanesNext, WrittenNext, SMTT(40)
<1>3. TypeInv /\ WrittenInv => SnapshotExact
  BY ArrivedFacts DEF SnapshotExact, WrittenInv, Snapshot
<1> QED BY <1>1, <1>2, <1>3, PTL DEF Spec

-----------------------------------------------------------------------------
(* The way of the batches: through the input of a thread, the thread itself  *)
(* and its result queue, to the scan thread.                                 *)

\* An item and the number of batches sent up to it (c0 before, c1 with it).
SendOK(s, it, c0, c1) ==
    \/ it = Data /\ c1 = c0
    \/ it \in TimeItems /\ it.send = NoBatch /\ c1 = c0
    \/ it \in TimeItems /\ it.send \in Batches /\ c1 = c0 + 1 /\ c1 \in 1 .. Len(s) /\ it.send = s[c1]

\* The items of q announce the last batches of s, c counts them.
SendItems(s, q, c) ==
    /\ s \in Seq(Batches) /\ q \in Seq(Items) /\ c \in [0 .. Len(q) -> 0 .. Len(s)]
    /\ c[Len(q)] = Len(s)
    /\ \A i \in 1 .. Len(q) : SendOK(s, q[i], c[i - 1], c[i])

Busy(w) == IF wpc[w] \in {"write", "notify"} THEN 1 ELSE 0

\* Of the batches s that were sent, g notices of w have been collected, those
\* in r lie in its queue, one may be in its hands, the others in its input.
Pipe(w, g, s, q, r, c) ==
    /\ s = sent /\ q = input[w] /\ r = results[w] /\ SendItems(s, q, c)
    /\ c[0] = g + Len(r) + Busy(w)
    /\ \A i \in 1 .. Len(r) : r[i] = s[g + i]
    /\ Busy(w) = 1 => batch[w] = s[c[0]]
    /\ \A i \in 1 .. c[0] : (i = c[0] /\ wpc[w] = "write") \/ cache[s[i]][w] # Unwritten

\* g tells how many notices of each thread have been collected.
Tally(g) ==
    /\ g \in [Threads -> Nat]
    /\ \A w \in Threads : \E s, q, r, c : Pipe(w, g[w], s, q, r, c)
    /\ \A i \in 1 .. Len(sent) : counters[sent[i]] = Cardinality({w \in Threads : g[w] >= i})
    /\ \A b \in Batches : (\A i \in 1 .. Len(sent) : sent[i] # b) => counters[b] = 0
    /\ Len(kept) <= Len(sent) /\ \A k \in 1 .. Len(kept) : kept[k] = sent[k]
    /\ \A w \in Threads : Len(kept) <= g[w]
    /\ \E w \in Threads : Len(kept) = g[w]

BatchInv == \E g : Tally(g)

\* An item goes to the end of an input; it may announce a new batch.
LEMMA SendAppend ==
    ASSUME NEW s, NEW q, NEW c, SendItems(s, q, c),
           NEW t \in Seq(Batches), Len(s) <= Len(t), \A i \in 1 .. Len(s) : t[i] = s[i],
           NEW it \in Items, SendOK(t, it, Len(s), Len(t))
    PROVE  \E e : SendItems(t, Append(q, it), e) /\ e[0] = c[0]
<1>1. s \in Seq(Batches) /\ q \in Seq(Items) /\ c \in [0 .. Len(q) -> 0 .. Len(s)] /\ c[Len(q)] = Len(s)
  BY DEF SendItems
<1>2. PICK m \in Nat : m = Len(q)
  BY <1>1, LenProperties
<1>3. PICK n \in Nat, l \in Nat : n = Len(s) /\ l = Len(t) /\ n <= l
  BY <1>1, LenProperties
<1>4. PICK r \in Seq(Items) :
        /\ r = Append(q, it) /\ Len(r) = m + 1 /\ r[m + 1] = it
        /\ \A i \in 1 .. m : r[i] = q[i]
  BY <1>1, <1>2, AppendProperties
<1>5. PICK e \in [0 .. m + 1 -> 0 .. l] : /\ \A i \in 0 .. m : e[i] = c[i]
                                          /\ e[m + 1] = l
  <2>1. \A i \in 0 .. m : c[i] \in 0 .. l
    BY <1>1, <1>2, <1>3
  <2>2. \A i \in 0 .. m + 1 : i = m + 1 \/ i \in 0 .. m
    OBVIOUS
  <2>3. \A i \in 0 .. m + 1 : (IF i = m + 1 THEN l ELSE c[i]) \in 0 .. l
    BY <2>1, <2>2
  <2>4. PICK f : f = [i \in 0 .. m + 1 |-> IF i = m + 1 THEN l ELSE c[i]]
    OBVIOUS
  <2>5. f \in [0 .. m + 1 -> 0 .. l]
    BY <2>3, <2>4
  <2>6. (\A i \in 0 .. m : f[i] = c[i]) /\ f[m + 1] = l
    BY <2>4
  <2> QED BY <2>5, <2>6
<1>6. ASSUME NEW i \in 1 .. m + 1
      PROVE  SendOK(t, r[i], e[i - 1], e[i])
  <2>1. CASE i = m + 1
    <3>1. i - 1 = m /\ m \in 0 .. m
      BY <2>1
    <3>2. r[i] = it /\ e[i - 1] = n /\ e[i] = l
      BY <1>1, <1>2, <1>3, <1>4, <1>5, <2>1, <3>1
    <3>3. SendOK(t, it, n, l)
      BY <1>3
    <3> QED BY <3>2, <3>3
  <2>2. CASE i # m + 1
    <3>1. i \in 1 .. m /\ i - 1 \in 0 .. m /\ i \in 0 .. m
      BY <2>2
    <3>2. r[i] = q[i] /\ e[i - 1] = c[i - 1] /\ e[i] = c[i]
      BY <1>4, <1>5, <3>1
    <3>3. SendOK(s, q[i], c[i - 1], c[i])
      BY <1>2, <3>1 DEF SendItems
    <3>4. \A x \in 1 .. n : x \in 1 .. l /\ t[x] = s[x]
      BY <1>3
    <3>5. SendOK(t, q[i], c[i - 1], c[i])
      BY <1>3, <3>3, <3>4 DEF SendOK
    <3> QED BY <3>2, <3>5
  <2> QED BY <2>1, <2>2
<1>7. SendItems(t, r, e)
  BY <1>3, <1>4, <1>5, <1>6 DEF SendItems
<1>8. e[0] = c[0]
  <2>1. 0 \in 0 .. m
    BY <1>2
  <2> QED BY <1>5, <2>1
<1> QED BY <1>4, <1>7, <1>8

\* The first item of an input is taken.
LEMMA SendTail ==
    ASSUME NEW s, NEW q, NEW c, SendItems(s, q, c), q # <<>>
    PROVE  /\ SendOK(s, q[1], c[0], c[1]) /\ c[0] \in 0 .. Len(s) /\ c[1] \in 0 .. Len(s)
           /\ \E e : SendItems(s, Tail(q), e) /\ e[0] = c[1]
<1>1. s \in Seq(Batches) /\ q \in Seq(Items) /\ c \in [0 .. Len(q) -> 0 .. Len(s)] /\ c[Len(q)] = Len(s)
  BY DEF SendItems
<1>2. PICK m \in Nat : m + 1 = Len(q)
  <2>1. Len(q) \in Nat \ {0}
    BY <1>1, EmptySeq
  <2>2. Len(q) - 1 \in Nat
    BY <2>1
  <2> QED BY <2>1, <2>2
<1>3. PICK r \in Seq(Items) : r = Tail(q) /\ Len(r) = m /\ \A i \in 1 .. m : r[i] = q[i + 1]
  BY <1>1, <1>2, HeadTailProperties
<1>a. c \in [0 .. m + 1 -> 0 .. Len(s)]
  BY <1>1, <1>2
<1>4. PICK e \in [0 .. m -> 0 .. Len(s)] : \A i \in 0 .. m : e[i] = c[i + 1]
  <2>0. \A i \in 0 .. m : i + 1 \in 0 .. m + 1
    OBVIOUS
  <2>1. \A i \in 0 .. m : c[i + 1] \in 0 .. Len(s)
    BY <1>a, <2>0
  <2>2. [i \in 0 .. m |-> c[i + 1]] \in [0 .. m -> 0 .. Len(s)]
    BY <2>1
  <2> QED BY <2>2
<1>5. ASSUME NEW i \in 1 .. m
      PROVE  SendOK(s, r[i], e[i - 1], e[i])
  <2>1. i - 1 \in 0 .. m /\ i \in 0 .. m /\ i - 1 + 1 = i /\ i + 1 \in 1 .. m + 1 /\ i + 1 - 1 = i
    OBVIOUS
  <2>2. r[i] = q[i + 1] /\ e[i - 1] = c[i] /\ e[i] = c[i + 1]
    BY <1>3, <1>4, <2>1
  <2>3. SendOK(s, q[i + 1], c[i + 1 - 1], c[i + 1])
    BY <1>2, <2>1 DEF SendItems
  <2> QED BY <2>1, <2>2, <2>3
<1>6. e[m] = Len(s) /\ e[0] = c[1]
  <2>1. m \in 0 .. m /\ 0 \in 0 .. m /\ 0 + 1 = 1
    BY <1>2
  <2> QED BY <1>1, <1>2, <1>4, <2>1
<1>7. SendItems(s, r, e)
  BY <1>1, <1>3, <1>4, <1>5, <1>6 DEF SendItems
<1>8. SendOK(s, q[1], c[0], c[1])
  <2>1. 1 \in 1 .. Len(q) /\ 1 - 1 = 0
    BY <1>2
  <2>2. SendOK(s, q[1], c[1 - 1], c[1])
    BY <2>1 DEF SendItems
  <2> QED BY <2>1, <2>2
<1>9. c[0] \in 0 .. Len(s) /\ c[1] \in 0 .. Len(s)
  <2>1. 0 \in 0 .. m + 1 /\ 1 \in 0 .. m + 1
    BY <1>2
  <2> QED BY <1>a, <2>1
<1>10. \E f : SendItems(s, Tail(q), f) /\ f[0] = c[1]
  BY <1>3, <1>6, <1>7
<1> QED BY <1>8, <1>9, <1>10

\* No batch is sent twice.
LEMMA SentOnce ==
    ASSUME TypeInv, MainInv, NEW i \in 1 .. Len(sent), NEW j \in 1 .. Len(sent), i # j
    PROVE  sent[i] # sent[j]
<1>1. sent[i] \in Nat /\ sent[j] \in Nat
  BY ArrivedFacts, SendVectorFacts
<1>2. i < j \/ j < i
  BY ArrivedFacts
<1>3. sent[i] < sent[j] \/ sent[j] < sent[i]
  BY <1>2 DEF MainInv, SentInv
<1> QED BY <1>1, <1>3

\* No batch is on its way.
LEMMA BatchInit == Init => BatchInv
<1> SUFFICES ASSUME Init PROVE BatchInv
  OBVIOUS
<1>1. PICK g \in [Threads -> Nat] : \A w \in Threads : g[w] = 0
  <2>1. [w \in Threads |-> 0] \in [Threads -> Nat]
    OBVIOUS
  <2> QED BY <2>1
<1>2. ASSUME NEW w \in Threads
      PROVE  \E s, q, r, c : Pipe(w, g[w], s, q, r, c)
  <2>1. PICK c \in [0 .. 0 -> 0 .. 0] : c[0] = 0
    <3>1. PICK f : f = [i \in 0 .. 0 |-> 0]
      OBVIOUS
    <3>2. f \in [0 .. 0 -> 0 .. 0] /\ f[0] = 0
      <4>1. 0 \in 0 .. 0
        OBVIOUS
      <4> QED BY <3>1, <4>1
    <3> QED BY <3>2
  <2>2. PICK q : q = <<>> /\ Len(q) = 0 /\ q \in Seq(Items) /\ q \in Seq(Batches)
    BY EmptySeq
  <2>3. SendItems(q, q, c)
    BY <2>1, <2>2 DEF SendItems
  <2>4. sent = q /\ input[w] = q /\ results[w] = q /\ Busy(w) = 0
    BY <2>2 DEF Init, Busy
  <2>5. Pipe(w, g[w], q, q, q, c)
    BY <1>1, <2>1, <2>2, <2>3, <2>4 DEF Pipe
  <2> QED BY <2>5
<1>3. Len(sent) = 0 /\ Len(kept) = 0 /\ \A b \in Batches : counters[b] = 0
  BY DEF Init
<1>4. \E w \in Threads : TRUE
  BY EngineAssumption
<1>5. Tally(g)
  BY <1>1, <1>2, <1>3, <1>4 DEF Tally
<1> QED BY <1>5 DEF BatchInv

\* The numbers in a pipe.
LEMMA PipeBounds ==
    ASSUME TypeInv, NEW w \in Threads, NEW g \in Nat, NEW s, NEW q, NEW r, NEW c, Pipe(w, g, s, q, r, c)
    PROVE  /\ Len(s) \in Nat /\ Len(r) \in Nat /\ Busy(w) \in {0, 1} /\ c[0] \in 0 .. Len(s)
           /\ c[0] = g + Len(r) + Busy(w) /\ g <= c[0]
           /\ s \in Seq(Batches) /\ \A i \in 1 .. Len(s) : s[i] \in Batches
           /\ r \in Seq(Batches) /\ q \in Seq(Items)
           /\ Busy(w) = 1 <=> wpc[w] \in {"write", "notify"}
<1>1. s \in Seq(Batches) /\ q \in Seq(Items) /\ c \in [0 .. Len(q) -> 0 .. Len(s)] /\ r \in Seq(Batches)
  BY DEF Pipe, SendItems, TypeInv, TypeWork
<1>2. Len(s) \in Nat /\ Len(r) \in Nat /\ Len(q) \in Nat /\ \A i \in 1 .. Len(s) : s[i] \in Batches
  BY <1>1, LenProperties, ElementOfSeq
<1>3. Busy(w) \in {0, 1} /\ (Busy(w) = 1 <=> wpc[w] \in {"write", "notify"})
  BY DEF Busy
<1>4. c[0] \in 0 .. Len(s)
  BY <1>1, <1>2
<1>5. c[0] = g + Len(r) + Busy(w)
  BY DEF Pipe
<1>6. g <= c[0]
  BY <1>2, <1>3, <1>5
<1> QED BY <1>1, <1>2, <1>3, <1>4, <1>5, <1>6

\* A step that leaves a pipe alone.
LEMMA PipeFrame ==
    ASSUME TypeInv, NEW w \in Threads, NEW g \in Nat, NEW s, NEW q, NEW r, NEW c, Pipe(w, g, s, q, r, c),
           UNCHANGED sent, input'[w] = input[w], results'[w] = results[w], batch'[w] = batch[w],
           wpc'[w] = wpc[w] \/ (wpc[w] = "idle" /\ wpc'[w] = "exited"),
           \A b \in Batches : cache[b][w] # Unwritten => cache'[b][w] # Unwritten
    PROVE  Pipe(w, g, s, q, r, c)'
<1>1. Busy(w)' = Busy(w) /\ (wpc[w] = "write" => wpc'[w] = "write")
  BY DEF Busy
<1>2. \A i \in 1 .. c[0] : s[i] \in Batches
  BY PipeBounds
<1>3. \A i \in 1 .. c[0] : (i = c[0] /\ wpc'[w] = "write") \/ cache'[s[i]][w] # Unwritten
  BY <1>1, <1>2 DEF Pipe
<1>4. /\ s = sent /\ q = input[w] /\ r = results[w] /\ SendItems(s, q, c)
      /\ c[0] = g + Len(r) + Busy(w) /\ (\A i \in 1 .. Len(r) : r[i] = s[g + i])
      /\ (Busy(w) = 1 => batch[w] = s[c[0]])
  BY DEF Pipe
<1> QED BY <1>1, <1>3, <1>4 DEF Pipe

\* An item goes into the input; it may announce a batch that was just sent.
LEMMA PipeAppend ==
    ASSUME TypeInv, NEW w \in Threads, NEW g \in Nat, NEW s, NEW q, NEW r, NEW c, Pipe(w, g, s, q, r, c),
           NEW it \in Items, input'[w] = Append(input[w], it), UNCHANGED <<results, workVars>>,
           NEW t \in Seq(Batches), t = sent', SendOK(t, it, Len(s), Len(t)),
           t = s \/ \E b \in Batches : t = Append(s, b)
    PROVE  \E u, p, v, e : Pipe(w, g, u, p, v, e)'
<1>1. /\ s \in Seq(Batches) /\ r \in Seq(Batches) /\ q \in Seq(Items) /\ Len(s) \in Nat
      /\ c[0] \in 0 .. Len(s) /\ Len(r) \in Nat /\ c[0] = g + Len(r) + Busy(w) /\ Busy(w) \in {0, 1}
  BY PipeBounds
<1>2. /\ s = sent /\ q = input[w] /\ r = results[w] /\ SendItems(s, q, c)
      /\ (\A i \in 1 .. Len(r) : r[i] = s[g + i])
      /\ (Busy(w) = 1 => batch[w] = s[c[0]])
      /\ \A i \in 1 .. c[0] : (i = c[0] /\ wpc[w] = "write") \/ cache[s[i]][w] # Unwritten
  BY DEF Pipe
<1>3. Len(s) <= Len(t) /\ \A i \in 1 .. Len(s) : t[i] = s[i]
  <2>1. CASE t = s
    BY <1>1, <2>1
  <2>2. ASSUME NEW b \in Batches, t = Append(s, b)
        PROVE  Len(s) <= Len(t) /\ \A i \in 1 .. Len(s) : t[i] = s[i]
    <3>1. Len(t) = Len(s) + 1 /\ \A i \in 1 .. Len(s) : t[i] = s[i]
      BY <1>1, <2>2, AppendProperties
    <3> QED BY <1>1, <3>1
  <2> QED BY <2>1, <2>2
<1>4. PICK e : SendItems(t, Append(q, it), e) /\ e[0] = c[0]
  BY <1>2, <1>3, SendAppend
<1>5. PICK p : p = Append(q, it)
  OBVIOUS
<1>6. UNCHANGED <<wpc, batch, cache>> /\ Busy(w)' = Busy(w)
  BY DEF workVars, Busy
<1>7. \A i \in 1 .. Len(r) : r[i] = t[g + i]
  <2>1. \A i \in 1 .. Len(r) : g + i \in 1 .. Len(s)
    BY <1>1
  <2> QED BY <1>2, <1>3, <2>1
<1>8. Busy(w) = 1 => batch[w] = t[c[0]]
  <2>1. Busy(w) = 1 => c[0] \in 1 .. Len(s)
    BY <1>1
  <2> QED BY <1>2, <1>3, <2>1
<1>9. \A i \in 1 .. c[0] : (i = c[0] /\ wpc[w] = "write") \/ cache[t[i]][w] # Unwritten
  <2>1. \A i \in 1 .. c[0] : i \in 1 .. Len(s)
    BY <1>1
  <2> QED BY <1>2, <1>3, <2>1
<1>10. Pipe(w, g, t, p, r, e)'
  BY <1>1, <1>2, <1>4, <1>5, <1>6, <1>7, <1>8, <1>9 DEF Pipe
<1> QED BY <1>10

\* A thread takes the first item of its input.
LEMMA PipeTake ==
    ASSUME TypeInv, NEW w \in Threads, NEW g \in Nat, NEW s, NEW q, NEW r, NEW c, Pipe(w, g, s, q, r, c),
           TakeRecord(w) \/ TakeTimePoint(w)
    PROVE  \E u, p, v, e : Pipe(w, g, u, p, v, e)'
<1>1. /\ s \in Seq(Batches) /\ r \in Seq(Batches) /\ q \in Seq(Items) /\ Len(s) \in Nat
      /\ c[0] \in 0 .. Len(s) /\ Len(r) \in Nat /\ c[0] = g + Len(r) + Busy(w)
  BY PipeBounds
<1>2. /\ s = sent /\ q = input[w] /\ r = results[w] /\ SendItems(s, q, c)
      /\ (\A i \in 1 .. Len(r) : r[i] = s[g + i])
      /\ \A i \in 1 .. c[0] : (i = c[0] /\ wpc[w] = "write") \/ cache[s[i]][w] # Unwritten
  BY DEF Pipe
<1>3. wpc[w] = "idle" /\ q # <<>> /\ UNCHANGED <<sent, results, cache>> /\ input'[w] = Tail(q)
      /\ Head(q) = q[1] /\ Head(q) \in Items /\ Busy(w) = 0
  BY <1>2, HeadItem DEF TakeRecord, TakeTimePoint, TypeInv, TypeWork, Busy, mainVars
<1>4. SendOK(s, q[1], c[0], c[1]) /\ c[1] \in 0 .. Len(s)
  BY <1>2, <1>3, SendTail
<1>5. PICK e : SendItems(s, Tail(q), e) /\ e[0] = c[1]
  BY <1>2, <1>3, SendTail
<1>6. PICK p : p = Tail(q)
  OBVIOUS
<1>7. \A i \in 1 .. c[0] : cache[s[i]][w] # Unwritten
  BY <1>2, <1>3
<1>8. NoBatch \notin Batches
  BY SendVectorFacts DEF NoBatch
<1>9. CASE TakeRecord(w)
  <2>1. q[1] = Data /\ wpc' = wpc /\ batch' = batch
    BY <1>2, <1>3, <1>9, HeadItem DEF TakeRecord
  <2>2. c[1] = c[0] /\ Busy(w)' = 0
    BY <1>3, <1>4, <2>1 DEF SendOK, TimeItems, Data, Busy
  <2>3. Pipe(w, g, s, p, r, e)'
    BY <1>1, <1>2, <1>3, <1>5, <1>6, <1>7, <2>1, <2>2 DEF Pipe
  <2> QED BY <2>3
<1>10. CASE TakeTimePoint(w)
  <2>1. q[1] # Data /\ batch'[w] = q[1].send
        /\ wpc'[w] = IF q[1].send = NoBatch THEN "idle" ELSE "write"
    BY <1>2, <1>3, <1>10 DEF TakeTimePoint, TypeInv, TypeWork, Data
  <2>2. CASE q[1].send = NoBatch
    <3>1. c[1] = c[0] /\ Busy(w)' = 0 /\ wpc'[w] = "idle"
      BY <1>4, <1>8, <2>1, <2>2 DEF SendOK, Busy
    <3>2. Pipe(w, g, s, p, r, e)'
      BY <1>1, <1>2, <1>3, <1>5, <1>6, <1>7, <3>1 DEF Pipe
    <3> QED BY <3>2
  <2>3. CASE q[1].send # NoBatch
    <3>1. c[1] = c[0] + 1 /\ q[1].send = s[c[1]] /\ Busy(w)' = 1 /\ wpc'[w] = "write"
      BY <1>4, <2>1, <2>3 DEF SendOK, Busy
    <3>2. \A i \in 1 .. c[1] : (i = c[1] /\ wpc'[w] = "write") \/ cache[s[i]][w] # Unwritten
      <4>1. \A i \in 1 .. c[1] : i = c[1] \/ i \in 1 .. c[0]
        BY <1>1, <3>1
      <4> QED BY <1>7, <3>1, <4>1
    <3>3. e[0] = g + Len(r) + Busy(w)'
      BY <1>1, <1>3, <1>5, <3>1
    <3>4. Pipe(w, g, s, p, r, e)'
      BY <1>2, <1>3, <1>5, <1>6, <2>1, <3>1, <3>2, <3>3 DEF Pipe
    <3> QED BY <3>4
  <2> QED BY <2>2, <2>3
<1> QED BY <1>9, <1>10

\* A thread writes its part of the batch in its hands.
LEMMA PipeWrite ==
    ASSUME TypeInv, NEW w \in Threads, NEW g \in Nat, NEW s, NEW q, NEW r, NEW c, Pipe(w, g, s, q, r, c),
           WriteRows(w), computed[w] # Unwritten
    PROVE  Pipe(w, g, s, q, r, c)'
<1>1. /\ c[0] \in 0 .. Len(s) /\ Len(s) \in Nat /\ \A i \in 1 .. Len(s) : s[i] \in Batches
  BY PipeBounds
<1>2. /\ s = sent /\ q = input[w] /\ r = results[w] /\ SendItems(s, q, c)
      /\ c[0] = g + Len(r) + Busy(w)
      /\ (\A i \in 1 .. Len(r) : r[i] = s[g + i])
      /\ (Busy(w) = 1 => batch[w] = s[c[0]])
      /\ \A i \in 1 .. c[0] : (i = c[0] /\ wpc[w] = "write") \/ cache[s[i]][w] # Unwritten
  BY DEF Pipe
<1>3. wpc[w] = "write" /\ wpc'[w] = "notify" /\ Busy(w) = 1 /\ Busy(w)' = 1
      /\ UNCHANGED <<sent, input, results, batch>> /\ batch[w] \in Batches
  BY DEF WriteRows, TypeInv, TypeWork, Busy, mainVars
<1>4. \A b \in Batches : cache'[b][w] = IF b = batch[w] THEN computed[w] ELSE cache[b][w]
  BY <1>3 DEF WriteRows, TypeInv, TypeWork
<1>5. \A i \in 1 .. c[0] : cache'[s[i]][w] # Unwritten
  <2>1. \A i \in 1 .. c[0] : s[i] \in Batches
    BY <1>1
  <2> QED BY <1>2, <1>3, <1>4, <2>1
<1> QED BY <1>2, <1>3, <1>5 DEF Pipe

\* A thread announces the batch in its hands.
LEMMA PipeNotify ==
    ASSUME TypeInv, NEW w \in Threads, NEW g \in Nat, NEW s, NEW q, NEW r, NEW c, Pipe(w, g, s, q, r, c),
           Notify(w)
    PROVE  \E u, p, v, e : Pipe(w, g, u, p, v, e)'
<1>1. /\ c[0] \in 0 .. Len(s) /\ Len(s) \in Nat /\ \A i \in 1 .. Len(s) : s[i] \in Batches
      /\ Len(r) \in Nat /\ r \in Seq(Batches)
  BY PipeBounds
<1>2. /\ s = sent /\ q = input[w] /\ r = results[w] /\ SendItems(s, q, c)
      /\ c[0] = g + Len(r) + Busy(w)
      /\ (\A i \in 1 .. Len(r) : r[i] = s[g + i])
      /\ (Busy(w) = 1 => batch[w] = s[c[0]])
      /\ \A i \in 1 .. c[0] : (i = c[0] /\ wpc[w] = "write") \/ cache[s[i]][w] # Unwritten
  BY DEF Pipe
<1>3. wpc[w] = "notify" /\ wpc'[w] = "idle" /\ Busy(w) = 1 /\ Busy(w)' = 0
      /\ UNCHANGED <<sent, input, cache>> /\ batch[w] \in Batches
      /\ results'[w] = Append(r, batch[w])
  BY <1>2 DEF Notify, TypeInv, TypeWork, Busy, mainVars
<1>4. PICK v \in Seq(Batches) : /\ v = Append(r, batch[w]) /\ Len(v) = Len(r) + 1
                                /\ v[Len(r) + 1] = batch[w]
                                /\ \A i \in 1 .. Len(r) : v[i] = r[i]
  <2>1. PICK b \in Batches : b = batch[w]
    BY <1>3
  <2>2. /\ Append(r, b) \in Seq(Batches) /\ Len(Append(r, b)) = Len(r) + 1
        /\ Append(r, b)[Len(r) + 1] = b /\ \A i \in 1 .. Len(r) : Append(r, b)[i] = r[i]
    BY <1>1, AppendProperties
  <2> QED BY <2>1, <2>2
<1>5. \A i \in 1 .. Len(v) : v[i] = s[g + i]
  <2>1. \A i \in 1 .. Len(v) : i \in 1 .. Len(r) \/ i = Len(r) + 1
    BY <1>1, <1>4
  <2>2. c[0] = g + (Len(r) + 1)
    BY <1>1, <1>2, <1>3
  <2>3. v[Len(r) + 1] = s[g + (Len(r) + 1)]
    BY <1>2, <1>3, <1>4, <2>2
  <2>4. \A i \in 1 .. Len(r) : v[i] = s[g + i]
    BY <1>2, <1>4
  <2> QED BY <2>1, <2>3, <2>4
<1>6. c[0] = g + Len(v) + Busy(w)'
  BY <1>1, <1>2, <1>3, <1>4
<1>7. Pipe(w, g, s, q, v, c)'
  BY <1>2, <1>3, <1>4, <1>5, <1>6, SMTT(40) DEF Pipe
<1> QED BY <1>7

\* The scan thread collects a notice.
LEMMA PipeCollect ==
    ASSUME TypeInv, NEW w \in Threads, NEW g \in Nat, NEW s, NEW q, NEW r, NEW c, Pipe(w, g, s, q, r, c),
           Len(r) \in Nat \ {0}, results'[w] = Tail(r), Tail(r) \in Seq(Batches),
           Len(Tail(r)) = Len(r) - 1, \A i \in 1 .. Len(r) - 1 : Tail(r)[i] = r[i + 1],
           UNCHANGED <<sent, input, wpc, batch, cache>>
    PROVE  \E u, p, v, e : Pipe(w, g + 1, u, p, v, e)'
<1>1. /\ s = sent /\ q = input[w] /\ r = results[w] /\ SendItems(s, q, c)
      /\ c[0] = g + Len(r) + Busy(w)
      /\ (\A i \in 1 .. Len(r) : r[i] = s[g + i])
      /\ (Busy(w) = 1 => batch[w] = s[c[0]])
      /\ \A i \in 1 .. c[0] : (i = c[0] /\ wpc[w] = "write") \/ cache[s[i]][w] # Unwritten
  BY SMTT(40) DEF Pipe
<1>2. PICK v : v = Tail(r) /\ Len(v) = Len(r) - 1
  OBVIOUS
<1>3. \A i \in 1 .. Len(v) : v[i] = s[(g + 1) + i]
  <2>1. SUFFICES ASSUME NEW i \in 1 .. Len(v) PROVE v[i] = s[(g + 1) + i]
    OBVIOUS
  <2>2. i + 1 \in 1 .. Len(r) /\ i \in 1 .. Len(r) - 1 /\ g + (i + 1) = (g + 1) + i
    BY <1>2
  <2> QED BY <1>1, <1>2, <2>2
<1>4. Busy(w)' = Busy(w) /\ Busy(w) \in {0, 1}
  BY DEF Busy
<1>5. c[0] = (g + 1) + Len(v) + Busy(w)
  <2>1. PICK n \in Nat, b \in Nat : n = Len(r) /\ b = Busy(w)
    BY <1>4
  <2>2. c[0] = g + n + b /\ Len(v) = n - 1
    BY <1>1, <1>2, <2>1
  <2>3. g + n + b = (g + 1) + (n - 1) + b
    OBVIOUS
  <2> QED BY <2>1, <2>2, <2>3, SMTT(40)
<1>6. Pipe(w, g + 1, s, q, v, c)'
  BY <1>1, <1>2, <1>3, <1>4, <1>5 DEF Pipe
<1> QED BY <1>6

\* The tally does not change unless something is sent or collected.
LEMMA TallyFrame ==
    ASSUME NEW g, Tally(g), UNCHANGED <<sent, counters, kept>>,
           \A w \in Threads : \E s, q, r, c : Pipe(w, g[w], s, q, r, c)'
    PROVE  Tally(g)'
<1> QED BY DEF Tally

\* A batch that is sent has not been sent, collected or counted before.
LEMMA TallyEmit ==
    ASSUME TypeInv, MainInv, MainInv', NEW g, Tally(g), EmitTimePoint
    PROVE  Tally(g)'
<1>1. PICK p \in TimePoints, b \in Batches \union {NoBatch} :
             /\ b \in Batches => SendVector[b] = p
             /\ input' = [v \in Threads |-> Append(input[v], [kind |-> "time", at |-> p, send |-> b])]
             /\ sent' = IF b = NoBatch THEN sent ELSE Append(sent, b)
             /\ [kind |-> "time", at |-> p, send |-> b] \in TimeItems
  BY EmitFacts
<1>2. PICK it \in TimeItems : it = [kind |-> "time", at |-> p, send |-> b] /\ it.send = b /\ it \in Items
  BY <1>1 DEF Items
<1>3. PICK m \in Nat : m = Len(sent) /\ sent \in Seq(Batches)
  BY ArrivedFacts DEF TypeInv, TypeMain
<1>4. UNCHANGED <<results, workVars, counters, kept>>
  BY DEF EmitTimePoint, scanVars
<1>5. NoBatch \notin Batches
  BY SendVectorFacts DEF NoBatch
<1>6. PICK t \in Seq(Batches) : /\ t = sent' /\ t = (IF b = NoBatch THEN sent ELSE Append(sent, b))
                                /\ Len(t) = (IF b = NoBatch THEN m ELSE m + 1)
                                /\ (b # NoBatch => t[m + 1] = b)
                                /\ \A i \in 1 .. m : t[i] = sent[i]
  <2>1. CASE b = NoBatch
    BY <1>1, <1>3, <2>1
  <2>2. CASE b # NoBatch
    <3>1. b \in Batches
      BY <2>2
    <3>2. /\ Append(sent, b) \in Seq(Batches) /\ Len(Append(sent, b)) = m + 1
          /\ Append(sent, b)[m + 1] = b /\ \A i \in 1 .. m : Append(sent, b)[i] = sent[i]
      BY <1>3, <3>1, AppendProperties
    <3> QED BY <1>1, <2>2, <3>2
  <2> QED BY <2>1, <2>2
<1>7. SendOK(t, it, m, Len(t))
  <2>1. CASE b = NoBatch
    BY <1>2, <1>6, <2>1 DEF SendOK
  <2>2. CASE b # NoBatch
    <3>1. it.send \in Batches /\ Len(t) = m + 1 /\ Len(t) \in 1 .. Len(t) /\ it.send = t[Len(t)]
      BY <1>2, <1>3, <1>6, <2>2
    <3> QED BY <3>1 DEF SendOK
  <2> QED BY <2>1, <2>2
<1>8. ASSUME NEW w \in Threads
      PROVE  /\ \E s, q, r, c : Pipe(w, g[w], s, q, r, c)'
             /\ g[w] \in Nat /\ g[w] <= m
  <2>1. g[w] \in Nat
    BY DEF Tally
  <2>2. PICK s, q, r, c : Pipe(w, g[w], s, q, r, c)
    BY DEF Tally
  <2>3. s = sent /\ g[w] <= c[0] /\ c[0] \in 0 .. Len(s)
    <3>1. g[w] <= c[0] /\ c[0] \in 0 .. Len(s)
      BY <2>1, <2>2, PipeBounds
    <3> QED BY <2>2, <3>1 DEF Pipe
  <2>4. input'[w] = Append(input[w], it)
    BY <1>1, <1>2
  <2>5. t = s \/ \E a \in Batches : t = Append(s, a)
    BY <1>6, <2>3
  <2>6. SendOK(t, it, Len(s), Len(t))
    BY <1>3, <1>7, <2>3
  <2>7. \E u, x, v, e : Pipe(w, g[w], u, x, v, e)'
    BY <1>2, <1>4, <1>6, <2>1, <2>2, <2>4, <2>5, <2>6, PipeAppend
  <2> QED BY <1>3, <2>1, <2>3, <2>7
<1>9. CASE b = NoBatch
  <2>1. sent' = sent
    BY <1>1, <1>9
  <2> QED BY <1>4, <1>8, <2>1, TallyFrame
<1>10. CASE b # NoBatch
  <2>1. b \in Batches /\ sent' = t /\ Len(t) = m + 1 /\ t[m + 1] = b
    BY <1>6, <1>10
  <2>2. \A i \in 1 .. m : t[i] = sent[i] /\ sent[i] \in Batches /\ sent[i] # b
    <3>1. \A i \in 1 .. m : i \in 1 .. m + 1 /\ i < m + 1 /\ m + 1 \in 1 .. m + 1
      OBVIOUS
    <3>2. \A i \in 1 .. m : t[i] < t[m + 1]
      BY <2>1, <3>1 DEF MainInv, SentInv
    <3>3. \A i \in 1 .. m : sent[i] \in Batches /\ t[i] = sent[i]
      BY <1>3, <1>6, ArrivedFacts
    <3>4. \A a \in Batches : a \in Nat
      BY SendVectorFacts
    <3>5. \A i \in 1 .. m : sent[i] < b /\ sent[i] \in Nat
      BY <2>1, <3>2, <3>3, <3>4
    <3>6. \A x, y \in Nat : x < y => x # y
      OBVIOUS
    <3> QED BY <2>1, <3>3, <3>4, <3>5, <3>6
  <2>3. counters[b] = 0 /\ Cardinality({w \in Threads : g[w] >= m + 1}) = 0
    <3>1. counters[b] = 0
      BY <1>3, <2>1, <2>2 DEF Tally
    <3>2. {w \in Threads : g[w] >= m + 1} = {}
      BY <1>3, <1>8
    <3> QED BY <3>1, <3>2, FS_EmptySet
  <2>4. \A i \in 1 .. m + 1 : i \in 1 .. m \/ i = m + 1
    OBVIOUS
  <2>5. \A i \in 1 .. m + 1 : counters[t[i]] = Cardinality({w \in Threads : g[w] >= i})
    <3>1. \A i \in 1 .. m : counters[t[i]] = Cardinality({w \in Threads : g[w] >= i})
      BY <1>3, <2>2 DEF Tally
    <3> QED BY <2>1, <2>3, <2>4, <3>1
  <2>6. \A a \in Batches : (\A i \in 1 .. m + 1 : t[i] # a) => counters[a] = 0
    <3>1. \A i \in 1 .. m : i \in 1 .. m + 1
      OBVIOUS
    <3> QED BY <1>3, <2>2, <3>1 DEF Tally
  <2>7. Len(kept) <= m + 1 /\ \A k \in 1 .. Len(kept) : kept[k] = t[k]
    <3>1. Len(kept) \in Nat
      BY LenProperties DEF TypeInv, TypeScan
    <3>2. Len(kept) <= m /\ \A k \in 1 .. Len(kept) : kept[k] = sent[k]
      BY <1>3 DEF Tally
    <3>3. \A k \in 1 .. Len(kept) : k \in 1 .. m
      BY <3>1, <3>2
    <3> QED BY <2>2, <3>1, <3>2, <3>3
  <2> QED BY <1>4, <1>8, <2>1, <2>5, <2>6, <2>7 DEF Tally
<1> QED BY <1>9, <1>10

\* A record that is dispatched announces no batch.
LEMMA TallyDispatch ==
    ASSUME TypeInv, NEW g, Tally(g), DispatchRecord
    PROVE  Tally(g)'
<1>1. UNCHANGED <<sent, results, workVars, counters, kept>>
  BY DEF DispatchRecord, scanVars
<1>2. ASSUME NEW w \in Threads
      PROVE  \E s, q, r, c : Pipe(w, g[w], s, q, r, c)'
  <2>1. g[w] \in Nat
    BY DEF Tally
  <2>2. PICK s, q, r, c : Pipe(w, g[w], s, q, r, c)
    BY DEF Tally
  <2>3. CASE RoutedTo(record, w)
    <3>1. input'[w] = Append(input[w], Data) /\ Data \in Items
      BY <2>3 DEF DispatchRecord, Items
    <3>2. s \in Seq(Batches) /\ s = sent'
      <4>1. s \in Seq(Batches)
        BY <2>1, <2>2, PipeBounds
      <4> QED BY <1>1, <2>2, <4>1 DEF Pipe
    <3>3. SendOK(s, Data, Len(s), Len(s))
      BY DEF SendOK
    <3> QED BY <1>1, <2>1, <2>2, <3>1, <3>2, <3>3, PipeAppend
  <2>4. CASE ~ RoutedTo(record, w)
    <3>1. input'[w] = input[w] /\ UNCHANGED <<wpc, batch, cache>>
      BY <1>1, <2>4 DEF DispatchRecord, workVars
    <3>2. Pipe(w, g[w], s, q, r, c)'
      BY <1>1, <2>1, <2>2, <3>1, PipeFrame
    <3> QED BY <3>2
  <2> QED BY <2>3, <2>4
<1> QED BY <1>1, <1>2, TallyFrame

\* A thread's own steps collect nothing.
LEMMA TallyCalc ==
    ASSUME TypeInv, MainInv, LanesInv, NEW g, Tally(g), NEW v \in Threads, Calc(v)
    PROVE  Tally(g)'
<1>1. UNCHANGED <<sent, counters, kept>>
  BY DEF Calc, TakeRecord, TakeTimePoint, WriteRows, Notify, Exit, mainVars, scanVars
<1>2. computed[v] # Unwritten
  <2>1. PICK q, d, j : Lane(v, q, d, j)
    BY DEF LanesInv
  <2>2. computed[v] \in 0 .. MaxRecords
    BY <2>1, ValueBound DEF Lane
  <2> QED BY <2>2, EngineAssumption DEF Unwritten
<1>3. \A w \in Threads : g[w] \in Nat /\ \E s, q, r, c : Pipe(w, g[w], s, q, r, c)
  BY DEF Tally
<1>4. \E s, q, r, c : Pipe(v, g[v], s, q, r, c)'
  <2>1. PICK s, q, r, c : Pipe(v, g[v], s, q, r, c)
    BY <1>3
  <2>2. CASE TakeRecord(v) \/ TakeTimePoint(v)
    BY <1>3, <2>1, <2>2, PipeTake
  <2>3. CASE WriteRows(v)
    <3>1. Pipe(v, g[v], s, q, r, c)'
      BY <1>2, <1>3, <2>1, <2>3, PipeWrite
    <3> QED BY <3>1
  <2>4. CASE Notify(v)
    BY <1>3, <2>1, <2>4, PipeNotify
  <2>5. CASE Exit(v)
    <3>1. /\ input'[v] = input[v] /\ results'[v] = results[v] /\ batch'[v] = batch[v]
          /\ wpc[v] = "idle" /\ wpc'[v] = "exited" /\ cache' = cache
      BY <2>5 DEF Exit, TypeInv, TypeWork
    <3>2. Pipe(v, g[v], s, q, r, c)'
      BY <1>1, <1>3, <2>1, <3>1, PipeFrame
    <3> QED BY <3>2
  <2> QED BY <2>2, <2>3, <2>4, <2>5 DEF Calc
<1>5. ASSUME NEW w \in Threads, w # v
      PROVE  \E s, q, r, c : Pipe(w, g[w], s, q, r, c)'
  <2>1. PICK s, q, r, c : Pipe(w, g[w], s, q, r, c)
    BY <1>3
  <2>2. /\ input'[w] = input[w] /\ results'[w] = results[w] /\ batch'[w] = batch[w]
        /\ wpc'[w] = wpc[w]
    BY <1>5 DEF Calc, TakeRecord, TakeTimePoint, WriteRows, Notify, Exit, TypeInv, TypeWork
  <2>3. \A b \in Batches : cache'[b][w] = cache[b][w]
    <3>1. CASE WriteRows(v)
      BY <1>5, <3>1 DEF WriteRows, TypeInv, TypeWork
    <3>2. CASE ~ WriteRows(v)
      <4>1. cache' = cache
        BY <3>2 DEF Calc, TakeRecord, TakeTimePoint, Notify, Exit
      <4> QED BY <4>1
    <3> QED BY <3>1, <3>2
  <2>4. Pipe(w, g[w], s, q, r, c)'
    BY <1>1, <1>3, <2>1, <2>2, <2>3, PipeFrame
  <2> QED BY <2>4
<1> QED BY <1>1, <1>4, <1>5, TallyFrame

\* A notice is collected; the last one of a batch keeps it, and the batch it
\* keeps is the next of those sent.
LEMMA TallyCollect ==
    ASSUME TypeInv, MainInv, NEW g, Tally(g), CollectOne, ~ UNCHANGED <<results, counters, resultData, kept>>
    PROVE  \E h : /\ Tally(h)'
                  /\ \/ UNCHANGED <<resultData, kept>>
                     \/ \E b \in Batches : /\ resultData' = resultData \o RowsOf(b)
                                           /\ kept' = Append(kept, b)
                                           /\ Len(kept) < Len(sent) /\ b = sent[Len(kept) + 1]
<1>1. UNCHANGED <<mainVars, input, workVars>>
  BY CollectFacts
<1>2. PICK q \in Threads, b \in Batches :
         /\ results[q] \in Seq(Batches) /\ Len(results[q]) \in Nat \ {0} /\ b = results[q][1]
         /\ results' = [results EXCEPT ![q] = Tail(@)]
         /\ Tail(results[q]) \in Seq(Batches) /\ Len(Tail(results[q])) = Len(results[q]) - 1
         /\ \A i \in 1 .. Len(results[q]) - 1 : Tail(results[q])[i] = results[q][i + 1]
         /\ counters' = [counters EXCEPT ![b] = @ + 1]
         /\ IF counters[b] + 1 = Cardinality(Threads)
              THEN resultData' = resultData \o RowsOf(b) /\ kept' = Append(kept, b)
              ELSE UNCHANGED <<resultData, kept>>
  BY CollectFacts
<1>3. UNCHANGED <<sent, input, wpc, batch, cache>>
  BY <1>1 DEF mainVars, workVars
<1>4. /\ g \in [Threads -> Nat]
      /\ \A w \in Threads : \E s, p, r, c : Pipe(w, g[w], s, p, r, c)
      /\ \A i \in 1 .. Len(sent) : counters[sent[i]] = Cardinality({w \in Threads : g[w] >= i})
      /\ \A a \in Batches : (\A i \in 1 .. Len(sent) : sent[i] # a) => counters[a] = 0
      /\ Len(kept) <= Len(sent) /\ \A k \in 1 .. Len(kept) : kept[k] = sent[k]
      /\ \A w \in Threads : Len(kept) <= g[w]
      /\ \E w \in Threads : Len(kept) = g[w]
  BY SMTT(40) DEF Tally
<1>5. PICK m \in Nat : m = Len(sent) /\ \A i \in 1 .. m : sent[i] \in Batches
  BY ArrivedFacts
<1>6. PICK x \in 1 .. m : x = g[q] + 1 /\ sent[x] = b
  <2>1. PICK s, p, r, c : Pipe(q, g[q], s, p, r, c)
    BY <1>4
  <2>2. g[q] \in Nat
    BY <1>4
  <2>3. /\ s = sent /\ r = results[q] /\ c[0] = g[q] + Len(r) + Busy(q)
        /\ \A i \in 1 .. Len(r) : r[i] = s[g[q] + i]
    BY <2>1 DEF Pipe
  <2>4. c[0] \in 0 .. Len(s) /\ Busy(q) \in {0, 1} /\ Len(r) \in Nat
    BY <2>1, <2>2, PipeBounds
  <2>5. 1 \in 1 .. Len(r)
    BY <1>2, <2>3
  <2>6. g[q] + 1 <= c[0]
    BY <1>2, <2>2, <2>3, <2>4
  <2> QED BY <1>2, <1>5, <2>2, <2>3, <2>4, <2>5, <2>6
<1>7. PICK h \in [Threads -> Nat] : /\ h[q] = x
                                    /\ \A w \in Threads : w # q => h[w] = g[w]
  <2>1. [g EXCEPT ![q] = x] \in [Threads -> Nat]
    BY <1>4
  <2>2. [g EXCEPT ![q] = x][q] = x /\ \A w \in Threads : w # q => [g EXCEPT ![q] = x][w] = g[w]
    BY <1>4
  <2> QED BY <2>1, <2>2
<1>8. ASSUME NEW w \in Threads
      PROVE  \E s, p, r, c : Pipe(w, h[w], s, p, r, c)'
  <2>1. PICK s, p, r, c : Pipe(w, g[w], s, p, r, c)
    BY <1>4
  <2>2. g[w] \in Nat /\ r = results[w]
    BY <1>4, <2>1 DEF Pipe
  <2>3. CASE w = q
    <3>1. /\ Len(r) \in Nat \ {0} /\ results'[w] = Tail(r) /\ Tail(r) \in Seq(Batches)
          /\ Len(Tail(r)) = Len(r) - 1 /\ \A i \in 1 .. Len(r) - 1 : Tail(r)[i] = r[i + 1]
      BY <1>2, <2>2, <2>3 DEF TypeInv, TypeWork
    <3>2. \E u, o, v, e : Pipe(w, g[w] + 1, u, o, v, e)'
      BY <1>3, <2>1, <2>2, <3>1, PipeCollect
    <3> QED BY <1>6, <1>7, <2>3, <3>2, SMTT(40)
  <2>4. CASE w # q
    <3>1. results'[w] = results[w]
      BY <1>2, <2>4 DEF TypeInv, TypeWork
    <3>2. Pipe(w, g[w], s, p, r, c)'
      BY <1>3, <2>1, <2>2, <3>1, PipeFrame
    <3> QED BY <1>7, <2>4, <3>2
  <2> QED BY <2>3, <2>4
<1>9. \A w \in Threads : g[w] \in Nat /\ h[w] \in Nat
  BY <1>4, <1>7
<1>10. \A i \in 1 .. m : i # x => {w \in Threads : h[w] >= i} = {w \in Threads : g[w] >= i}
  <2>1. SUFFICES ASSUME NEW i \in 1 .. m, i # x, NEW w \in Threads
                 PROVE  h[w] >= i <=> g[w] >= i
    OBVIOUS
  <2>2. CASE w = q
    BY <1>6, <1>7, <1>9, <2>1, <2>2
  <2>3. CASE w # q
    BY <1>7, <2>3
  <2> QED BY <2>2, <2>3
<1>11. {w \in Threads : h[w] >= x} = {w \in Threads : g[w] >= x} \union {q}
       /\ q \notin {w \in Threads : g[w] >= x}
  <2>1. \A w \in Threads : h[w] >= x <=> g[w] >= x \/ w = q
    BY <1>7, <1>9
  <2>2. ~ (g[q] >= x)
    BY <1>6, <1>9
  <2> QED BY <2>1, <2>2
<1>12. Cardinality({w \in Threads : h[w] >= x}) = Cardinality({w \in Threads : g[w] >= x}) + 1
  <2>1. IsFiniteSet({w \in Threads : g[w] >= x})
    <3>1. {w \in Threads : g[w] >= x} \in SUBSET Threads
      OBVIOUS
    <3> QED BY <3>1, EngineAssumption, FS_Subset
  <2> QED BY <1>11, <2>1, FS_AddElement
<1>13. \A a \in Batches : counters'[a] = IF a = b THEN counters[b] + 1 ELSE counters[a]
  BY <1>2 DEF TypeInv, TypeScan
<1>14. \A i \in 1 .. m : counters'[sent[i]] = Cardinality({w \in Threads : h[w] >= i})
  <2>1. SUFFICES ASSUME NEW i \in 1 .. m
                 PROVE  counters'[sent[i]] = Cardinality({w \in Threads : h[w] >= i})
    OBVIOUS
  <2>2. counters[sent[i]] = Cardinality({w \in Threads : g[w] >= i}) /\ sent[i] \in Batches
    BY <1>4, <1>5
  <2>3. CASE i = x
    BY <1>6, <1>12, <1>13, <2>2, <2>3
  <2>4. CASE i # x
    <3>1. sent[i] # b
      BY <1>5, <1>6, <2>4, SentOnce
    <3> QED BY <1>10, <1>13, <2>2, <2>4, <3>1
  <2> QED BY <2>3, <2>4
<1>15. \A a \in Batches : (\A i \in 1 .. m : sent[i] # a) => counters'[a] = 0
  BY <1>4, <1>5, <1>6, <1>13
<1>16. counters[b] + 1 = Cardinality(Threads) <=> \A w \in Threads : h[w] >= x
  <2>1. counters[b] + 1 = Cardinality({w \in Threads : h[w] >= x})
    BY <1>4, <1>5, <1>6, <1>12
  <2>2. {w \in Threads : h[w] >= x} \in SUBSET Threads
    OBVIOUS
  <2>3. Cardinality({w \in Threads : h[w] >= x}) = Cardinality(Threads)
          <=> {w \in Threads : h[w] >= x} = Threads
    BY <2>2, EngineAssumption, FS_Subset
  <2> QED BY <2>1, <2>3
<1>17. PICK l \in Nat, z \in Threads : l = Len(kept) /\ l = g[z] /\ \A w \in Threads : l <= g[w]
  BY <1>4, <1>9
<1>18. kept \in Seq(Batches)
  BY DEF TypeInv, TypeScan
<1>19. CASE \A w \in Threads : h[w] >= x
  <2>1. resultData' = resultData \o RowsOf(b) /\ kept' = Append(kept, b)
    BY <1>2, <1>16, <1>19
  <2>2. z = q
    <3>1. SUFFICES ASSUME z # q PROVE FALSE
      OBVIOUS
    <3>2. h[z] = g[z] /\ h[z] >= x /\ l <= g[q] /\ x = g[q] + 1
      BY <1>6, <1>7, <1>17, <1>19, <3>1
    <3> QED BY <1>9, <1>17, <3>2
  <2>3. x = l + 1
    BY <1>6, <1>17, <2>2
  <2>4. PICK v \in Seq(Batches) : /\ v = kept' /\ Len(v) = l + 1 /\ v[l + 1] = b
                                  /\ \A k \in 1 .. l : v[k] = kept[k]
    <3>1. /\ Append(kept, b) \in Seq(Batches) /\ Len(Append(kept, b)) = l + 1
          /\ Append(kept, b)[l + 1] = b /\ \A k \in 1 .. l : Append(kept, b)[k] = kept[k]
      <4>1. /\ Append(kept, b) \in Seq(Batches) /\ Len(Append(kept, b)) = Len(kept) + 1
            /\ Append(kept, b)[Len(kept) + 1] = b
            /\ \A k \in 1 .. Len(kept) : Append(kept, b)[k] = kept[k]
        BY <1>18, AppendProperties
      <4> QED BY <1>17, <4>1
    <3> QED BY <2>1, <3>1
  <2>5. \A k \in 1 .. l + 1 : v[k] = sent[k]
    <3>1. \A k \in 1 .. l + 1 : k \in 1 .. l \/ k = l + 1
      OBVIOUS
    <3> QED BY <1>4, <1>6, <1>17, <2>3, <2>4, <3>1
  <2>6. l + 1 <= m
    BY <1>5, <2>3
  <2>7. (\A w \in Threads : l + 1 <= h[w]) /\ l + 1 = h[q]
    BY <1>7, <1>9, <1>19, <2>3
  <2>8. Tally(h)'
    BY <1>3, <1>5, <1>7, <1>8, <1>14, <1>15, <2>4, <2>5, <2>6, <2>7 DEF Tally
  <2>9. Len(kept) < Len(sent) /\ b = sent[Len(kept) + 1]
    BY <1>5, <1>6, <1>17, <2>3
  <2> QED BY <2>1, <2>8, <2>9
<1>20. CASE ~ \A w \in Threads : h[w] >= x
  <2>1. UNCHANGED <<resultData, kept>>
    BY <1>2, <1>16, <1>20
  <2>2. PICK y \in Threads : ~ (h[y] >= x)
    BY <1>20
  <2>3. y # q /\ h[y] = g[y] /\ g[y] <= g[q]
    BY <1>6, <1>7, <1>9, <2>2
  <2>4. \E w \in Threads : l = h[w]
    <3>1. CASE z # q
      BY <1>7, <1>17, <3>1
    <3>2. CASE z = q
      BY <1>9, <1>17, <2>3, <3>2
    <3> QED BY <3>1, <3>2
  <2>5. \A w \in Threads : l <= h[w]
    <3>1. SUFFICES ASSUME NEW w \in Threads PROVE l <= h[w]
      OBVIOUS
    <3>2. g[w] <= h[w]
      BY <1>6, <1>7, <1>9
    <3> QED BY <1>9, <1>17, <3>2
  <2>6. Tally(h)'
    BY <1>3, <1>4, <1>5, <1>7, <1>8, <1>14, <1>15, <1>17, <2>1, <2>4, <2>5 DEF Tally
  <2> QED BY <2>1, <2>6
<1> QED BY <1>19, <1>20


\* Steps that touch no batch.
LEMMA TallyStill ==
    ASSUME TypeInv, NEW g, Tally(g), UNCHANGED <<sent, input, workVars, results, counters, kept>>
    PROVE  Tally(g)'
<1>1. ASSUME NEW w \in Threads
      PROVE  \E s, q, r, c : Pipe(w, g[w], s, q, r, c)'
  <2>1. PICK s, q, r, c : Pipe(w, g[w], s, q, r, c)
    BY DEF Tally
  <2>2. g[w] \in Nat
    BY DEF Tally
  <2>3. UNCHANGED <<sent, input, results, wpc, batch, cache>>
    BY DEF workVars
  <2>4. Pipe(w, g[w], s, q, r, c)'
    BY <2>1, <2>2, <2>3, PipeFrame
  <2> QED BY <2>4
<1> QED BY <1>1, TallyFrame

\* Which steps touch the batches on their way, and which the rows.
LEMMA StepsOfBatches ==
    ASSUME TypeInv, [Next]_vars
    PROVE  \/ EmitTimePoint \/ DispatchRecord \/ CollectOne \/ \E w \in Threads : Calc(w)
           \/ UNCHANGED <<sent, input, workVars, results, counters, resultData, kept>>
<1>1. CASE \E t \in 0 .. MaxTime, g \in Groups : Arrive(t, g)
  BY <1>1 DEF Arrive, scanVars
<1>2. CASE LastPointReached \/ FeedEnds \/ StopThreads \/ JoinThreads \/ JoinScan
  BY <1>2 DEF LastPointReached, FeedEnds, StopThreads, JoinThreads, JoinScan, scanVars
<1>3. CASE \E ok \in BOOLEAN : SaveBatch(ok) \/ FinishSave(ok)
  BY <1>3 DEF SaveBatch, FinishSave, mainVars, scanVars
<1>4. CASE EndPass
  BY <1>4 DEF EndPass, mainVars
<1>5. CASE UNCHANGED vars
  BY <1>5 DEF vars, mainVars, scanVars
<1> QED BY <1>1, <1>2, <1>3, <1>4, <1>5 DEF Next, Main, Scan

\* Every step keeps the account of the batches.
LEMMA BatchNext ==
    ASSUME TypeInv, MainInv, MainInv', LanesInv, BatchInv, [Next]_vars
    PROVE  BatchInv'
<1>1. PICK g : Tally(g)
  BY DEF BatchInv
<1>2. \E h : Tally(h)'
  <2>1. CASE EmitTimePoint
    BY <1>1, <2>1, TallyEmit
  <2>2. CASE DispatchRecord
    BY <1>1, <2>2, TallyDispatch
  <2>3. ASSUME NEW w \in Threads, Calc(w)
        PROVE  Tally(g)'
    BY <1>1, <2>3, TallyCalc
  <2>4. CASE UNCHANGED <<sent, input, workVars, results, counters, kept>>
    BY <1>1, <2>4, TallyStill
  <2>5. CASE CollectOne
    <3>1. CASE UNCHANGED <<results, counters, resultData, kept>>
      <4>1. UNCHANGED <<sent, input, workVars>>
        BY <2>5, CollectFacts DEF mainVars
      <4> QED BY <1>1, <3>1, <4>1, TallyStill
    <3>2. CASE ~ UNCHANGED <<results, counters, resultData, kept>>
      <4>1. PICK h : Tally(h)'
        BY <1>1, <2>5, <3>2, TallyCollect
      <4> QED BY <4>1
    <3> QED BY <3>1, <3>2
  <2> QED BY <2>1, <2>2, <2>3, <2>4, <2>5, StepsOfBatches
<1> QED BY <1>2 DEF BatchInv

-----------------------------------------------------------------------------
(* The engine implements the stream of batches.                              *)

\* When the scan thread has left, every batch that was sent has been kept.
LEMMA NothingMissing ==
    ASSUME TypeInv, StopInv, BatchInv, spc = "exited"
    PROVE  kept = sent
<1>1. PICK g : Tally(g)
  BY DEF BatchInv
<1>2. PICK w \in Threads : Len(kept) = g[w]
  BY <1>1 DEF Tally
<1>3. PICK s, q, r, c : Pipe(w, g[w], s, q, r, c)
  BY <1>1 DEF Tally
<1>4. g[w] \in Nat /\ Len(kept) <= Len(sent) /\ \A k \in 1 .. Len(kept) : kept[k] = sent[k]
  BY <1>1 DEF Tally
<1>5. wpc[w] = "exited" /\ input[w] = <<>> /\ results[w] = <<>>
  BY DEF StopInv
<1>6. s = sent /\ q = <<>> /\ r = <<>> /\ Busy(w) = 0
  BY <1>3, <1>5 DEF Pipe, Busy
<1>7. Len(q) = 0 /\ Len(r) = 0
  BY <1>6
<1>8. c[0] = Len(s)
  BY <1>3, <1>7 DEF Pipe, SendItems
<1>9. c[0] = g[w]
  BY <1>3, <1>4, <1>6, <1>7 DEF Pipe
<1>10. kept \in Seq(Batches) /\ sent \in Seq(Batches)
  BY DEF TypeInv, TypeMain, TypeScan
<1>11. Len(kept) = Len(sent)
  BY <1>2, <1>6, <1>8, <1>9
<1> QED BY <1>4, <1>10, <1>11, SeqEqual

\* Every step of the engine is a step of the stream or leaves it alone.
LEMMA StreamStep ==
    ASSUME TypeInv, MainInv, StopInv, BatchInv, [Next]_vars
    PROVE  [Stream!Next]_(Stream!vars)
<1>1. CASE EmitTimePoint
  <2>1. PICK b \in Batches \union {NoBatch} : sent' = IF b = NoBatch THEN sent ELSE Append(sent, b)
    BY <1>1, EmitFacts
  <2>2. mpc = "timer" /\ UNCHANGED <<mpc, kept>>
    BY <1>1 DEF EmitTimePoint, scanVars
  <2>3. CASE b = NoBatch
    BY <2>1, <2>2, <2>3 DEF Stream!vars
  <2>4. CASE b # NoBatch
    <3>1. Stream!Trigger(b)
      BY <2>1, <2>2, <2>4 DEF Stream!Trigger
    <3> QED BY <2>4, <3>1 DEF Stream!Next
  <2> QED BY <2>3, <2>4
<1>2. CASE CollectOne
  <2>1. UNCHANGED <<mpc, sent>> /\ mpc \notin {"save", "done"}
    BY <1>2, CollectFacts DEF mainVars, StopInv
  <2>2. CASE UNCHANGED kept
    BY <2>1, <2>2 DEF Stream!vars
  <2>3. CASE ~ UNCHANGED kept
    <3>1. PICK g : Tally(g)
      BY DEF BatchInv
    <3>2. ~ UNCHANGED <<results, counters, resultData, kept>>
      BY <2>3
    <3>3. PICK b \in Batches : kept' = Append(kept, b) /\ Len(kept) < Len(sent) /\ b = sent[Len(kept) + 1]
      BY <1>2, <2>3, <3>1, <3>2, TallyCollect
    <3>4. Stream!Record
      BY <2>1, <3>3 DEF Stream!Record
    <3> QED BY <3>4 DEF Stream!Next
  <2> QED BY <2>2, <2>3
<1>3. CASE JoinScan
  <2>1. kept = sent
    BY <1>3, NothingMissing DEF JoinScan
  <2>2. mpc = "joinScan" /\ mpc' = "save" /\ UNCHANGED <<sent, kept>>
    BY <1>3 DEF JoinScan, scanVars
  <2>3. Stream!Close
    BY <2>1, <2>2 DEF Stream!Close
  <2> QED BY <2>3 DEF Stream!Next
<1>4. CASE UNCHANGED <<sent, kept>> /\ (mpc' \in {"save", "done"} <=> mpc \in {"save", "done"})
  BY <1>4 DEF Stream!vars
<1>5. \/ EmitTimePoint \/ CollectOne \/ JoinScan
      \/ UNCHANGED <<sent, kept>> /\ (mpc' \in {"save", "done"} <=> mpc \in {"save", "done"})
  <2>1. CASE \E t \in 0 .. MaxTime, g \in Groups : Arrive(t, g)
    BY <2>1 DEF Arrive, scanVars
  <2>2. CASE DispatchRecord \/ LastPointReached \/ FeedEnds \/ StopThreads \/ JoinThreads
    BY <2>2 DEF DispatchRecord, LastPointReached, FeedEnds, StopThreads, JoinThreads, scanVars
  <2>3. CASE \E ok \in BOOLEAN : SaveBatch(ok) \/ FinishSave(ok)
    BY <2>3 DEF SaveBatch, FinishSave, mainVars, scanVars
  <2>4. CASE EndPass \/ UNCHANGED vars
    BY <2>4 DEF EndPass, vars, mainVars, scanVars
  <2>5. ASSUME NEW w \in Threads, Calc(w)
        PROVE  UNCHANGED <<sent, kept, mpc>>
    BY <2>5 DEF Calc, TakeRecord, TakeTimePoint, WriteRows, Notify, Exit, mainVars, scanVars
  <2> QED BY <2>1, <2>2, <2>3, <2>4, <2>5 DEF Next, Main, Scan
<1> QED BY <1>1, <1>2, <1>3, <1>4, <1>5

\* The stop protocol loses no batch, however many threads and batches there
\* are and however long the result queues: Stop closes the stream only when
\* all that was triggered has been kept, in that order.
THEOREM EngineKeepsBatches == Spec => ImplementsBatchStream
<1>1. Init => TypeInv /\ MainInv /\ LanesInv /\ StopInv /\ BatchInv
  BY TypeInit, MainInit, LanesInit, StopInit, BatchInit
<1>2. TypeInv /\ MainInv /\ LanesInv /\ StopInv /\ BatchInv /\ [Next]_vars
        => TypeInv' /\ MainInv' /\ LanesInv' /\ StopInv' /\ BatchInv'
  BY TypeNext, MainNext, LanesNext, StopNext, BatchNext
<1>3. Init => Stream!Init
  BY DEF Init, Stream!Init
<1>4. TypeInv /\ MainInv /\ StopInv /\ BatchInv /\ [Next]_vars => [Stream!Next]_(Stream!vars)
  BY StreamStep
<1> QED BY <1>1, <1>2, <1>3, <1>4, PTL DEF Spec, ImplementsBatchStream, Stream!Spec

-----------------------------------------------------------------------------
(* The rows: what is kept of a batch, and where it lies.                     *)

RowsIn(f, b) == [i \in 1 .. ValidRows(b) |-> [batch |-> b, code |-> i, values |-> f[b]]]

\* The rows d are those of the batches l, one batch after the other: the k-th
\* ends at o[k].  f is the cache they were copied from.
LaidOut(o, l, d, f) ==
    /\ l \in Seq(Batches) /\ d \in Seq(Rows) /\ o \in [0 .. Len(l) -> 0 .. Len(d)]
    /\ o[0] = 0 /\ o[Len(l)] = Len(d)
    /\ \A k \in 1 .. Len(l) :
         /\ o[k] = o[k - 1] + ValidRows(l[k])
         /\ \A i \in 1 .. ValidRows(l[k]) :
              d[o[k - 1] + i] = [batch |-> l[k], code |-> i, values |-> f[l[k]]]
    /\ \A x \in 1 .. Len(d) : \E k \in 1 .. Len(l) : d[x].batch = l[k] /\ d[x].values = f[l[k]]

\* The save loop has passed the rows of the first n batches, those before
\* saveIdx, and what it has written under a send point are that point's rows.
Saving(o, l, f) ==
    /\ mpc \notin {"save", "done"} => saveIdx = 1 /\ pos = 0 /\ \A p \in SendPoints : files[p] = <<>>
    /\ mpc = "save" =>
         \E n \in 0 .. Len(l) : pos = o[n] /\ \A k \in 1 .. Len(l) : k <= n <=> l[k] < saveIdx
    /\ \A b \in Batches : files[SendVector[b]] = <<>> \/ files[SendVector[b]] = RowsIn(f, b)

RowsInv ==
    \E o, l, d, f : l = kept /\ d = resultData /\ f = cache /\ LaidOut(o, l, d, f) /\ Saving(o, l, f)

\* No rows are kept and none saved.
LEMMA RowsInit == Init => RowsInv
<1> SUFFICES ASSUME Init PROVE RowsInv
  OBVIOUS
<1>1. PICK o \in [0 .. 0 -> 0 .. 0] : o[0] = 0
  <2>1. PICK h : h = [i \in 0 .. 0 |-> 0]
    OBVIOUS
  <2>2. 0 \in 0 .. 0
    OBVIOUS
  <2>3. h \in [0 .. 0 -> 0 .. 0] /\ h[0] = 0
    BY <2>1, <2>2
  <2> QED BY <2>3
<1>2. PICK l : l = <<>> /\ Len(l) = 0 /\ l \in Seq(Batches) /\ l \in Seq(Rows)
  BY EmptySeq
<1>3. PICK f : f = cache
  OBVIOUS
<1>4. LaidOut(o, l, l, f)
  BY <1>1, <1>2 DEF LaidOut
<1>5. Saving(o, l, f)
  BY SendVectorFacts DEF Saving, Init
<1>6. kept = l /\ resultData = l
  BY <1>2 DEF Init
<1> QED BY <1>3, <1>4, <1>5, <1>6 DEF RowsInv

\* Rows put after rows.
LEMMA RowsAfterRows ==
    ASSUME NEW d \in Seq(Rows), NEW r \in Seq(Rows), NEW m \in Nat, NEW v \in Nat, m = Len(d), v = Len(r)
    PROVE  /\ d \o r \in Seq(Rows) /\ Len(d \o r) = m + v
           /\ \A i \in 1 .. m + v : (d \o r)[i] = IF i <= m THEN d[i] ELSE r[i - m]
<1>1. /\ d \o r \in Seq(Rows) /\ Len(d \o r) = Len(d) + Len(r)
      /\ \A i \in 1 .. Len(d) + Len(r) : (d \o r)[i] = IF i <= Len(d) THEN d[i] ELSE r[i - Len(d)]
  BY ConcatProperties
<1> QED BY <1>1

\* A batch is kept after all the others.
LEMMA LaidOutAppend ==
    ASSUME NEW o, NEW l, NEW d, NEW f, LaidOut(o, l, d, f), NEW b \in Batches, NEW v \in Nat,
           v = ValidRows(b), NEW r \in Seq(Rows), Len(r) = v, r = RowsIn(f, b)
    PROVE  \E e : LaidOut(e, Append(l, b), d \o r, f)
<1>1. /\ l \in Seq(Batches) /\ d \in Seq(Rows) /\ o \in [0 .. Len(l) -> 0 .. Len(d)]
      /\ o[0] = 0 /\ o[Len(l)] = Len(d)
  BY DEF LaidOut
<1>2. PICK n \in Nat, m \in Nat : n = Len(l) /\ m = Len(d)
  BY <1>1, LenProperties
<1>3. PICK u \in Seq(Batches) : u = Append(l, b) /\ Len(u) = n + 1 /\ u[n + 1] = b
                                /\ \A k \in 1 .. n : u[k] = l[k]
  <2>1. PICK u : u = Append(l, b)
    OBVIOUS
  <2>2. /\ u \in Seq(Batches) /\ Len(u) = Len(l) + 1 /\ u[Len(l) + 1] = b
        /\ \A k \in 1 .. Len(l) : u[k] = l[k]
    BY <1>1, <2>1, AppendProperties
  <2> QED BY <1>2, <2>1, <2>2
<1>4. PICK t \in Seq(Rows) : t = d \o r /\ Len(t) = m + v /\ (\A x \in 1 .. m : t[x] = d[x])
                             /\ \A i \in 1 .. v : t[m + i] = r[i]
  <2>1. /\ d \o r \in Seq(Rows) /\ Len(d \o r) = m + v
        /\ \A i \in 1 .. m + v : (d \o r)[i] = IF i <= m THEN d[i] ELSE r[i - m]
    BY <1>1, <1>2, RowsAfterRows, SMTT(40)
  <2>2. \A x \in 1 .. m : x \in 1 .. m + v /\ x <= m
    OBVIOUS
  <2>3. \A i \in 1 .. v : m + i \in 1 .. m + v /\ ~ (m + i <= m) /\ m + i - m = i
    OBVIOUS
  <2>4. PICK t : t = d \o r
    OBVIOUS
  <2>5. /\ t \in Seq(Rows) /\ Len(t) = m + v
        /\ \A x \in 1 .. m + v : t[x] = IF x <= m THEN d[x] ELSE r[x - m]
    BY <2>1, <2>4
  <2>6. \A x \in 1 .. m : t[x] = d[x]
    BY <2>2, <2>5
  <2>7. \A i \in 1 .. v : t[m + i] = r[i]
    <3>1. SUFFICES ASSUME NEW i \in 1 .. v PROVE t[m + i] = r[i]
      OBVIOUS
    <3>2. PICK x \in 1 .. m + v : x = m + i /\ ~ (x <= m) /\ x - m = i
      BY <2>3
    <3> QED BY <2>5, <3>2
  <2> QED BY <2>4, <2>5, <2>6, <2>7
<1>a. \A i \in 1 .. v : r[i] = [batch |-> b, code |-> i, values |-> f[b]]
  BY DEF RowsIn
<1>5. PICK e \in [0 .. n + 1 -> 0 .. m + v] : (\A k \in 0 .. n : e[k] = o[k]) /\ e[n + 1] = m + v
  <2>0. o \in [0 .. n -> 0 .. m]
    BY <1>1, <1>2
  <2>1. \A k \in 0 .. n : o[k] \in 0 .. m + v
    BY <2>0
  <2>2. \A k \in 0 .. n + 1 : k = n + 1 \/ k \in 0 .. n
    OBVIOUS
  <2>3. \A k \in 0 .. n + 1 : (IF k = n + 1 THEN m + v ELSE o[k]) \in 0 .. m + v
    BY <2>1, <2>2
  <2>4. PICK h : h = [k \in 0 .. n + 1 |-> IF k = n + 1 THEN m + v ELSE o[k]]
    OBVIOUS
  <2>5. h \in [0 .. n + 1 -> 0 .. m + v]
    BY <2>3, <2>4
  <2>6. (\A k \in 0 .. n : h[k] = o[k]) /\ h[n + 1] = m + v
    BY <2>4
  <2> QED BY <2>5, <2>6
<1>6. e[0] = 0 /\ e[n] = m
  <2>1. 0 \in 0 .. n /\ n \in 0 .. n
    BY <1>2
  <2> QED BY <1>1, <1>2, <1>5, <2>1
<1>7. ASSUME NEW k \in 1 .. n + 1
      PROVE  /\ e[k] = e[k - 1] + ValidRows(u[k])
             /\ \A i \in 1 .. ValidRows(u[k]) :
                  t[e[k - 1] + i] = [batch |-> u[k], code |-> i, values |-> f[u[k]]]
  <2>1. CASE k = n + 1
    <3>1. k - 1 = n /\ u[k] = b
      BY <1>3, <2>1
    <3>2. e[k] = m + v /\ e[k - 1] = m
      BY <1>5, <1>6, <2>1, <3>1
    <3>3. \A i \in 1 .. v : t[m + i] = [batch |-> b, code |-> i, values |-> f[b]]
      BY <1>4, <1>a
    <3>4. e[k] = e[k - 1] + ValidRows(u[k])
      BY <3>1, <3>2
    <3>5. ASSUME NEW i \in 1 .. ValidRows(u[k])
          PROVE  t[e[k - 1] + i] = [batch |-> u[k], code |-> i, values |-> f[u[k]]]
      <4>1. i \in 1 .. v
        BY <3>1
      <4>2. t[m + i] = [batch |-> b, code |-> i, values |-> f[b]]
        BY <3>3, <4>1
      <4> QED BY <3>1, <3>2, <4>2
    <3> QED BY <3>4, <3>5
  <2>2. CASE k # n + 1
    <3>1. k \in 1 .. n /\ k - 1 \in 0 .. n /\ k \in 0 .. n
      BY <2>2
    <3>2. u[k] = l[k] /\ e[k] = o[k] /\ e[k - 1] = o[k - 1]
      BY <1>3, <1>5, <3>1
    <3>3. /\ o[k] = o[k - 1] + ValidRows(l[k])
          /\ \A i \in 1 .. ValidRows(l[k]) :
               d[o[k - 1] + i] = [batch |-> l[k], code |-> i, values |-> f[l[k]]]
      BY <1>2, <3>1 DEF LaidOut
    <3>4. \A i \in 1 .. ValidRows(l[k]) : o[k - 1] + i \in 1 .. m
      <4>1. o[k] \in 0 .. m /\ o[k - 1] \in 0 .. m
        BY <1>1, <1>2, <3>1
      <4>2. ValidRows(l[k]) \in Nat
        BY EngineAssumption DEF ValidRows
      <4>3. SUFFICES ASSUME NEW i \in 1 .. ValidRows(l[k]) PROVE o[k - 1] + i \in 1 .. m
        OBVIOUS
      <4>4. PICK x, y, z : x = o[k - 1] /\ y = o[k] /\ z = ValidRows(l[k])
        OBVIOUS
      <4>5. x \in 0 .. m /\ y \in 0 .. m /\ z \in Nat /\ y = x + z /\ i \in 1 .. z
        BY <3>3, <4>1, <4>2, <4>4
      <4>6. x + i \in 1 .. m
        BY <4>5
      <4> QED BY <4>4, <4>6
    <3>5. PICK p : p = o[k - 1]
      OBVIOUS
    <3>6. \A i \in 1 .. ValidRows(l[k]) : t[p + i] = d[p + i]
      BY <1>4, <3>4, <3>5
    <3> QED BY <3>2, <3>3, <3>5, <3>6
  <2> QED BY <2>1, <2>2
<1>8. ASSUME NEW x \in 1 .. m + v
      PROVE  \E k \in 1 .. n + 1 : t[x].batch = u[k] /\ t[x].values = f[u[k]]
  <2>1. CASE x <= m
    <3>1. x \in 1 .. m
      BY <2>1
    <3>2. PICK k \in 1 .. n : d[x].batch = l[k] /\ d[x].values = f[l[k]]
      BY <1>2, <3>1 DEF LaidOut
    <3>3. k \in 1 .. n + 1
      OBVIOUS
    <3> QED BY <1>3, <1>4, <3>1, <3>2, <3>3
  <2>2. CASE ~ (x <= m)
    <3>1. PICK i \in 1 .. v : x = m + i
      <4>1. x - m \in 1 .. v /\ x = m + (x - m)
        BY <2>2
      <4> QED BY <4>1
    <3>2. t[x] = [batch |-> b, code |-> i, values |-> f[b]]
      BY <1>4, <1>a, <3>1
    <3>a. t[x].batch = b /\ t[x].values = f[b]
      BY <3>2
    <3>3. n + 1 \in 1 .. n + 1
      OBVIOUS
    <3> QED BY <1>3, <3>a, <3>3
  <2> QED BY <2>1, <2>2
<1>9. LaidOut(e, u, t, f)
  <2>1. e \in [0 .. Len(u) -> 0 .. Len(t)] /\ e[Len(u)] = Len(t)
    BY <1>3, <1>4, <1>5
  <2>2. \A k \in 1 .. Len(u) :
          /\ e[k] = e[k - 1] + ValidRows(u[k])
          /\ \A i \in 1 .. ValidRows(u[k]) :
               t[e[k - 1] + i] = [batch |-> u[k], code |-> i, values |-> f[u[k]]]
    BY <1>3, <1>7
  <2>3. \A x \in 1 .. Len(t) : \E k \in 1 .. Len(u) : t[x].batch = u[k] /\ t[x].values = f[u[k]]
    <3>1. 1 .. Len(t) = 1 .. m + v /\ 1 .. Len(u) = 1 .. n + 1
      BY <1>3, <1>4
    <3> QED BY <1>8, <3>1
  <2> QED BY <1>3, <1>4, <1>6, <2>1, <2>2, <2>3 DEF LaidOut
<1> QED BY <1>3, <1>4, <1>9

\* What is kept has been written by every thread, and none is at it again.
LEMMA KeptFacts ==
    ASSUME TypeInv, MainInv, BatchInv, NEW k \in 1 .. Len(kept), NEW w \in Threads
    PROVE  /\ kept[k] \in Batches /\ cache[kept[k]][w] # Unwritten
           /\ wpc[w] = "write" => batch[w] # kept[k]
<1>1. PICK g : Tally(g)
  BY DEF BatchInv
<1>2. PICK s, q, r, c : Pipe(w, g[w], s, q, r, c)
  BY <1>1 DEF Tally
<1>3. g[w] \in Nat /\ Len(kept) <= g[w] /\ Len(kept) <= Len(sent) /\ kept[k] = sent[k]
  BY <1>1 DEF Tally
<1>4. /\ Len(s) \in Nat /\ Len(r) \in Nat /\ Busy(w) \in {0, 1} /\ c[0] \in 0 .. Len(s)
      /\ c[0] = g[w] + Len(r) + Busy(w) /\ g[w] <= c[0]
      /\ Busy(w) = 1 <=> wpc[w] \in {"write", "notify"}
  BY <1>2, <1>3, PipeBounds
<1>5. /\ s = sent /\ (Busy(w) = 1 => batch[w] = s[c[0]])
      /\ \A i \in 1 .. c[0] : (i = c[0] /\ wpc[w] = "write") \/ cache[s[i]][w] # Unwritten
  BY <1>2 DEF Pipe
<1>6. Len(kept) \in Nat
  BY LenProperties DEF TypeInv, TypeScan
<1>7. k \in 1 .. c[0] /\ k \in 1 .. Len(sent)
  BY <1>3, <1>4, <1>5, <1>6
<1>8. CASE wpc[w] = "write"
  <2>1. c[0] \in 1 .. Len(sent) /\ k # c[0]
    BY <1>3, <1>4, <1>5, <1>6, <1>7, <1>8
  <2>2. sent[k] # sent[c[0]]
    BY <1>7, <2>1, SentOnce
  <2> QED BY <1>3, <1>4, <1>5, <1>7, <1>8, <2>1, <2>2, ArrivedFacts
<1>9. CASE wpc[w] # "write"
  BY <1>3, <1>5, <1>7, <1>9, ArrivedFacts
<1> QED BY <1>8, <1>9

\* The batches are kept in ascending order.
LEMMA KeptAscends ==
    ASSUME TypeInv, MainInv, BatchInv, NEW j \in 1 .. Len(kept), NEW k \in 1 .. Len(kept), j < k
    PROVE  kept[j] < kept[k]
<1>1. PICK g : Tally(g)
  BY DEF BatchInv
<1>2. Len(kept) <= Len(sent) /\ kept[j] = sent[j] /\ kept[k] = sent[k]
  BY <1>1 DEF Tally
<1>3. Len(kept) \in Nat /\ Len(sent) \in Nat
  BY LenProperties DEF TypeInv, TypeMain, TypeScan
<1>4. j \in 1 .. Len(sent) /\ k \in 1 .. Len(sent)
  BY <1>2, <1>3
<1> QED BY <1>2, <1>4 DEF MainInv, SentInv

\* The cache may change where nothing has been kept.
LEMMA LaidOutFrame ==
    ASSUME NEW o, NEW l, NEW d, NEW f, LaidOut(o, l, d, f), NEW h, \A k \in 1 .. Len(l) : h[l[k]] = f[l[k]]
    PROVE  LaidOut(o, l, d, h)
<1> QED BY DEF LaidOut

\* Steps that neither keep nor save anything, before the rows are saved.
LEMMA RowsStill ==
    ASSUME TypeInv, MainInv, BatchInv, RowsInv, UNCHANGED <<resultData, kept, saveVars>>,
           mpc' = mpc \/ (mpc \notin {"save", "done"} /\ mpc' \notin {"save", "done"}),
           \/ UNCHANGED cache
           \/ mpc \notin {"save", "done"} /\ \E w \in Threads : WriteRows(w)
    PROVE  RowsInv'
<1>1. PICK o, l, d, f : l = kept /\ d = resultData /\ f = cache /\ LaidOut(o, l, d, f) /\ Saving(o, l, f)
  BY DEF RowsInv
<1>2. PICK h : h = cache'
  OBVIOUS
<1>3. CASE UNCHANGED cache
  <2>1. Saving(o, l, f)'
    BY <1>1 DEF Saving, saveVars
  <2> QED BY <1>1, <1>3, <2>1 DEF RowsInv
<1>4. CASE mpc \notin {"save", "done"} /\ \E w \in Threads : WriteRows(w)
  <2>1. PICK w \in Threads : WriteRows(w)
    BY <1>4
  <2>2. wpc[w] = "write" /\ cache' = [cache EXCEPT ![batch[w]][w] = computed[w]]
    BY <2>1 DEF WriteRows
  <2>3. ASSUME NEW k \in 1 .. Len(l)
        PROVE  h[l[k]] = f[l[k]]
    <3>1. l[k] \in Batches /\ batch[w] # l[k]
      BY <1>1, <2>2, KeptFacts
    <3> QED BY <1>1, <1>2, <2>2, <3>1 DEF TypeInv, TypeWork
  <2>4. LaidOut(o, l, d, h)
    BY <1>1, <2>3, LaidOutFrame
  <2>5. Saving(o, l, h)'
    BY <1>1, <1>4, SendVectorFacts DEF Saving, saveVars
  <2> QED BY <1>1, <1>2, <2>4, <2>5 DEF RowsInv
<1> QED BY <1>3, <1>4

\* A batch is kept.
LEMMA RowsKeep ==
    ASSUME TypeInv, StopInv, RowsInv, NEW b \in Batches, UNCHANGED <<mpc, cache, saveVars>>, spc = "scan",
           resultData' = resultData \o RowsOf(b), kept' = Append(kept, b)
    PROVE  RowsInv'
<1>1. PICK o, l, d, f : l = kept /\ d = resultData /\ f = cache /\ LaidOut(o, l, d, f) /\ Saving(o, l, f)
  BY DEF RowsInv
<1>2. PICK v \in Nat, r \in Seq(Rows) :
        v = ValidRows(b) /\ r = RowsOf(b) /\ Len(r) = v /\ r = RowsIn(f, b)
  <2>1. RowsOf(b) = RowsIn(f, b)
    BY <1>1 DEF RowsOf, RowsIn
  <2> QED BY <2>1, RowsOfType
<1>3. PICK e : LaidOut(e, Append(l, b), d \o r, f)
  BY <1>1, <1>2, LaidOutAppend
<1>4. PICK u, t : u = kept' /\ t = resultData'
  OBVIOUS
<1>5. LaidOut(e, u, t, f)
  BY <1>1, <1>2, <1>3, <1>4
<1>6. mpc \notin {"save", "done"}
  BY DEF StopInv
<1>7. Saving(e, u, f)'
  BY <1>1, <1>6, SendVectorFacts DEF Saving, saveVars
<1> QED BY <1>1, <1>4, <1>5, <1>7 DEF RowsInv

\* The save loop is about to start.
LEMMA RowsJoin ==
    ASSUME TypeInv, RowsInv, JoinScan
    PROVE  RowsInv'
<1>1. PICK o, l, d, f : l = kept /\ d = resultData /\ f = cache /\ LaidOut(o, l, d, f) /\ Saving(o, l, f)
  BY DEF RowsInv
<1>2. mpc = "joinScan" /\ mpc' = "save" /\ UNCHANGED <<kept, resultData, cache, saveIdx, pos, files>>
  BY DEF JoinScan, workVars, scanVars, saveVars
<1>3. saveIdx = 1 /\ pos = 0
  BY <1>1, <1>2 DEF Saving
<1>4. /\ l \in Seq(Batches) /\ o[0] = 0 /\ Len(l) \in Nat
      /\ \A k \in 1 .. Len(l) : l[k] \in Nat \ {0}
  <2>1. l \in Seq(Batches) /\ o[0] = 0
    BY <1>1 DEF LaidOut
  <2>2. \A k \in 1 .. Len(l) : l[k] \in Batches
    BY <2>1, ElementOfSeq
  <2>3. Len(l) \in Nat
    BY <2>1, LenProperties
  <2>4. \A b \in Batches : b \in Nat \ {0}
    BY SendVectorFacts
  <2> QED BY <2>1, <2>2, <2>3, <2>4
<1>5. 0 \in 0 .. Len(l) /\ \A k \in 1 .. Len(l) : k <= 0 <=> l[k] < 1
  BY <1>4
<1>6. Saving(o, l, f)'
  BY <1>1, <1>2, <1>3, <1>4, <1>5 DEF Saving
<1> QED BY <1>1, <1>2, <1>6 DEF RowsInv

\* The rows the save loop is about to write are those of its batch.
LEMMA RowsAtFacts ==
    ASSUME TypeInv, MainInv, BatchInv, NEW o, NEW l, NEW d, NEW f,
           l = kept, d = resultData, f = cache, LaidOut(o, l, d, f),
           NEW n \in 0 .. Len(l), pos = o[n], \A k \in 1 .. Len(l) : k <= n <=> l[k] < saveIdx,
           saveIdx \in Batches
    PROVE  /\ WasKept(saveIdx) => RowsAt(saveIdx) = RowsIn(f, saveIdx)
           /\ \E x \in 0 .. Len(l) : /\ pos + RowsPassed(saveIdx) = o[x]
                                     /\ \A k \in 1 .. Len(l) : k <= x <=> l[k] < saveIdx + 1
<1>1. PICK b \in Batches : b = saveIdx /\ b \in Nat
  BY SendVectorFacts
<1>2. PICK m \in Nat, z \in Nat : m = Len(l) /\ z = Len(d)
  BY LenProperties DEF LaidOut
<1>3. n \in 0 .. m /\ o \in [0 .. m -> 0 .. z] /\ \A k \in 1 .. m : l[k] \in Batches /\ l[k] \in Nat
  <2>1. \A k \in 1 .. m : l[k] \in Batches
    BY <1>2, ElementOfSeq DEF LaidOut
  <2> QED BY <1>2, <2>1, SendVectorFacts DEF LaidOut
<1>4. \A k \in 1 .. m : k <= n <=> l[k] < b
  BY <1>1, <1>2
<1>5. CASE WasKept(b)
  <2>1. PICK k \in 1 .. m : l[k] = b
    BY <1>2, <1>5 DEF WasKept
  <2>2. k = n + 1
    <3>1. ~ (k <= n)
      BY <1>1, <1>4, <2>1
    <3>2. SUFFICES ASSUME n + 1 < k PROVE FALSE
      BY <1>3, <3>1
    <3>3. PICK j \in 1 .. m : j = n + 1 /\ j < k
      BY <1>3, <3>2
    <3>4. l[j] < l[k]
      BY <1>2, <3>3, KeptAscends
    <3> QED BY <1>3, <1>4, <2>1, <3>3, <3>4
  <2>3. /\ o[k] = o[n] + ValidRows(b)
        /\ \A i \in 1 .. ValidRows(b) : d[o[n] + i] = [batch |-> b, code |-> i, values |-> f[b]]
    <3>1. k - 1 = n
      BY <1>3, <2>2
    <3> QED BY <1>2, <2>1, <3>1 DEF LaidOut
  <2>4. PICK p \in Nat, v \in Nat : p = pos /\ p = o[n] /\ v = ValidRows(b) /\ o[k] = p + v /\ p + v <= z
    <3>1. o[n] \in 0 .. z /\ o[k] \in 0 .. z
      BY <1>3
    <3>2. ValidRows(b) \in Nat
      BY RowsOfType
    <3>3. PICK p, v : p = o[n] /\ v = ValidRows(b)
      OBVIOUS
    <3> QED BY <2>3, <3>1, <3>2, <3>3
  <2>5. RowsAt(b) = RowsIn(f, b)
    <3>1. ASSUME NEW i \in 1 .. v
          PROVE  (IF p + i <= Len(resultData) THEN resultData[p + i] ELSE NoRow)
                   = [batch |-> b, code |-> i, values |-> f[b]]
      <4>1. p + i <= z
        BY <2>4
      <4>2. d[p + i] = [batch |-> b, code |-> i, values |-> f[b]]
        BY <2>3, <2>4
      <4> QED BY <1>2, <4>1, <4>2
    <3>2. RowsAt(b) = [i \in 1 .. v |-> IF p + i <= Len(resultData) THEN resultData[p + i] ELSE NoRow]
      BY <2>4 DEF RowsAt
    <3>3. RowsIn(f, b) = [i \in 1 .. v |-> [batch |-> b, code |-> i, values |-> f[b]]]
      BY <2>4 DEF RowsIn
    <3> QED BY <3>1, <3>2, <3>3
  <2>6. pos + RowsPassed(b) = o[k]
    BY <1>5, <2>4 DEF RowsPassed
  <2>7. ASSUME NEW j \in 1 .. m
        PROVE  j <= k <=> l[j] < b + 1
    <3>1. CASE j <= n
      BY <1>1, <1>3, <1>4, <2>2, <3>1
    <3>2. CASE j = k
      BY <1>1, <2>1, <3>2
    <3>3. CASE k < j
      <4>1. l[k] < l[j]
        BY <1>2, <3>3, KeptAscends
      <4> QED BY <1>1, <1>3, <2>1, <3>3, <4>1
    <3> QED BY <1>3, <2>2, <3>1, <3>2, <3>3
  <2>8. k \in 0 .. m
    OBVIOUS
  <2> QED BY <1>1, <1>2, <2>5, <2>6, <2>7, <2>8
<1>6. CASE ~ WasKept(b)
  <2>1. RowsPassed(b) = 0
    BY <1>6 DEF RowsPassed
  <2>2. \A j \in 1 .. m : l[j] # b
    BY <1>2, <1>6 DEF WasKept
  <2>3. \A j \in 1 .. m : j <= n <=> l[j] < b + 1
    BY <1>1, <1>3, <1>4, <2>2
  <2>4. pos + RowsPassed(b) = o[n]
    <3>1. pos \in Nat
      BY DEF TypeInv, TypeSave
    <3> QED BY <2>1, <3>1
  <2> QED BY <1>1, <1>2, <1>6, <2>3, <2>4
<1> QED BY <1>5, <1>6

\* A turn of the save loop, and its end.
LEMMA RowsSave ==
    ASSUME TypeInv, MainInv, BatchInv, RowsInv, NEW ok \in BOOLEAN, SaveBatch(ok) \/ FinishSave(ok)
    PROVE  RowsInv'
<1>1. PICK o, l, d, f : l = kept /\ d = resultData /\ f = cache /\ LaidOut(o, l, d, f) /\ Saving(o, l, f)
  BY DEF RowsInv
<1>2. UNCHANGED <<kept, resultData, cache>> /\ mpc = "save"
  BY DEF SaveBatch, FinishSave, workVars, scanVars
<1>3. \A b \in Batches : files[SendVector[b]] = <<>> \/ files[SendVector[b]] = RowsIn(f, b)
  BY <1>1 DEF Saving
<1>4. CASE SaveBatch(ok)
  <2>1. PICK b \in Batches : b = saveIdx
    BY <1>4, SendVectorFacts DEF SaveBatch, TypeInv, TypeSave
  <2>2. /\ files' = IF WasKept(b) /\ SendVector[b] \in SaveTimes /\ ok
                      THEN [files EXCEPT ![SendVector[b]] = RowsAt(b)] ELSE files
        /\ pos' = pos + RowsPassed(b) /\ saveIdx' = b + 1 /\ mpc' = mpc
    BY <1>4, <2>1 DEF SaveBatch, mainVars
  <2>3. PICK n \in 0 .. Len(l) : pos = o[n] /\ \A k \in 1 .. Len(l) : k <= n <=> l[k] < saveIdx
    BY <1>1, <1>2 DEF Saving
  <2>4. /\ WasKept(b) => RowsAt(b) = RowsIn(f, b)
        /\ \E x \in 0 .. Len(l) : /\ pos + RowsPassed(b) = o[x]
                                  /\ \A k \in 1 .. Len(l) : k <= x <=> l[k] < b + 1
    BY <1>1, <2>1, <2>3, RowsAtFacts
  <2>5. ASSUME NEW a \in Batches
        PROVE  files'[SendVector[a]] = <<>> \/ files'[SendVector[a]] = RowsIn(f, a)
    <3>1. SendVector[a] \in SendPoints /\ SendVector[b] \in SendPoints /\ (SendVector[a] = SendVector[b] => a = b)
      BY SendVectorFacts
    <3>2. CASE WasKept(b) /\ SendVector[b] \in SaveTimes /\ ok
      <4>1. files' = [files EXCEPT ![SendVector[b]] = RowsIn(f, b)]
        BY <2>2, <2>4, <3>2
      <4>2. CASE a = b
        BY <3>1, <4>1, <4>2 DEF TypeInv, TypeSave
      <4>3. CASE a # b
        BY <1>3, <3>1, <4>1, <4>3 DEF TypeInv, TypeSave
      <4> QED BY <4>2, <4>3
    <3>3. CASE ~ (WasKept(b) /\ SendVector[b] \in SaveTimes /\ ok)
      BY <1>3, <2>2, <3>3
    <3> QED BY <3>2, <3>3
  <2>6. Saving(o, l, f)'
    BY <1>2, <2>2, <2>4, <2>5 DEF Saving
  <2> QED BY <1>1, <1>2, <2>6 DEF RowsInv
<1>5. CASE FinishSave(ok)
  <2>1. mpc' = "done" /\ files' = IF ok THEN files ELSE [p \in SendPoints |-> <<>>]
    BY <1>5 DEF FinishSave
  <2>2. ASSUME NEW a \in Batches
        PROVE  files'[SendVector[a]] = <<>> \/ files'[SendVector[a]] = RowsIn(f, a)
    <3>1. SendVector[a] \in SendPoints
      BY SendVectorFacts
    <3>2. CASE ok
      BY <1>3, <2>1, <3>2
    <3>3. CASE ~ ok
      BY <2>1, <3>1, <3>3
    <3> QED BY <3>2, <3>3
  <2>3. Saving(o, l, f)'
    BY <2>1, <2>2 DEF Saving
  <2> QED BY <1>1, <1>2, <2>3 DEF RowsInv
<1> QED BY <1>4, <1>5

\* Every step keeps the rows in order.
LEMMA RowsNext ==
    ASSUME TypeInv, MainInv, StopInv, BatchInv, RowsInv, [Next]_vars
    PROVE  RowsInv'
<1>1. CASE JoinScan
  BY <1>1, RowsJoin
<1>2. CASE \E ok \in BOOLEAN : SaveBatch(ok) \/ FinishSave(ok)
  BY <1>2, RowsSave
<1>3. CASE CollectOne
  <2>1. UNCHANGED <<mpc, cache, saveVars>> /\ spc = "scan"
    BY <1>3, CollectFacts DEF mainVars, workVars
  <2>2. CASE UNCHANGED <<resultData, kept>>
    BY <2>1, <2>2, RowsStill
  <2>3. CASE ~ UNCHANGED <<resultData, kept>>
    <3>1. PICK g : Tally(g)
      BY DEF BatchInv
    <3>2. ~ UNCHANGED <<results, counters, resultData, kept>>
      BY <2>3
    <3>3. PICK b \in Batches : resultData' = resultData \o RowsOf(b) /\ kept' = Append(kept, b)
      BY <1>3, <2>3, <3>1, <3>2, TallyCollect
    <3> QED BY <2>1, <3>3, RowsKeep
  <2> QED BY <2>2, <2>3
<1>4. ASSUME NEW w \in Threads, Calc(w)
      PROVE  RowsInv'
  <2>1. UNCHANGED <<mpc, resultData, kept, saveVars>> /\ (UNCHANGED cache \/ WriteRows(w))
    BY <1>4 DEF Calc, TakeRecord, TakeTimePoint, WriteRows, Notify, Exit, mainVars, scanVars
  <2>2. WriteRows(w) => mpc \notin {"save", "done"}
    BY DEF WriteRows, StopInv
  <2> QED BY <2>1, <2>2, RowsStill
<1>5. CASE /\ UNCHANGED <<resultData, kept, cache, saveVars>>
           /\ mpc' = mpc \/ (mpc \notin {"save", "done"} /\ mpc' \notin {"save", "done"})
  BY <1>5, RowsStill
<1>6. \/ JoinScan \/ CollectOne \/ (\E ok \in BOOLEAN : SaveBatch(ok) \/ FinishSave(ok))
      \/ \E w \in Threads : Calc(w)
      \/ /\ UNCHANGED <<resultData, kept, cache, saveVars>>
         /\ mpc' = mpc \/ (mpc \notin {"save", "done"} /\ mpc' \notin {"save", "done"})
  <2>1. CASE \E t \in 0 .. MaxTime, g \in Groups : Arrive(t, g)
    BY <2>1 DEF Arrive, workVars, scanVars
  <2>2. CASE EmitTimePoint \/ DispatchRecord \/ LastPointReached \/ FeedEnds \/ StopThreads \/ JoinThreads
    BY <2>2 DEF EmitTimePoint, DispatchRecord, LastPointReached, FeedEnds, StopThreads, JoinThreads,
                workVars, scanVars
  <2>3. CASE EndPass \/ UNCHANGED vars
    BY <2>3 DEF EndPass, vars, mainVars, workVars, scanVars
  <2> QED BY <2>1, <2>2, <2>3 DEF Next, Main, Scan
<1> QED BY <1>1, <1>2, <1>3, <1>4, <1>5, <1>6

EngineInv == TypeInv /\ MainInv /\ LanesInv /\ WrittenInv /\ StopInv /\ BatchInv /\ RowsInv

\* The inductive invariant of the engine: types, the points the main thread
\* has passed and the batches it sent, what lies in the input of each thread
\* and what the thread made of it, the order in which the threads leave, the
\* way of each batch to the scan thread, and where its rows lie.
THEOREM EngineInvariant == Spec => []EngineInv
<1>1. Init => EngineInv
  BY TypeInit, MainInit, LanesInit, StopInit, BatchInit, RowsInit DEF EngineInv
<1>2. EngineInv /\ [Next]_vars => EngineInv'
  BY TypeNext, MainNext, LanesNext, WrittenNext, StopNext, BatchNext, RowsNext DEF EngineInv
<1> QED BY <1>1, <1>2, PTL DEF Spec

\* A batch is kept only when every thread has written its part, and nobody
\* touches it afterwards: the scan thread may copy it without a lock.
THEOREM EngineRowsComplete == Spec => []KeptComplete
<1>1. EngineInv => KeptComplete
  <2> SUFFICES ASSUME EngineInv PROVE KeptComplete
    OBVIOUS
  <2>1. PICK o, l, d, f : l = kept /\ d = resultData /\ f = cache /\ LaidOut(o, l, d, f)
    BY DEF EngineInv, RowsInv
  <2>2. ASSUME NEW x \in DOMAIN resultData
        PROVE  /\ resultData[x].values = cache[resultData[x].batch]
               /\ \A w \in Threads : resultData[x].values[w] # Unwritten
    <3>1. x \in 1 .. Len(d)
      BY <2>1, LenProperties DEF LaidOut
    <3>2. PICK k \in 1 .. Len(l) : d[x].batch = l[k] /\ d[x].values = f[l[k]]
      BY <2>1, <3>1 DEF LaidOut
    <3> QED BY <2>1, <3>2, KeptFacts DEF EngineInv
  <2> QED BY <2>2 DEF KeptComplete
<1> QED BY <1>1, EngineInvariant, PTL

\* Whatever was skipped, not sent, not to be saved or failed to be written,
\* the rows found under a send point are all of its own, in the order of the
\* codes: pos and the send points move in step.
THEOREM EngineSavesItsRows == Spec => []SavedRowsMatch
<1>1. EngineInv => SavedRowsMatch
  <2>1. RowsInv => \E f : f = cache /\ \A b \in Batches : files[SendVector[b]] = <<>>
                                                    \/ files[SendVector[b]] = RowsIn(f, b)
    BY DEF RowsInv, Saving
  <2>2. \A b : RowsOf(b) = RowsIn(cache, b)
    BY DEF RowsOf, RowsIn
  <2> QED BY <2>1, <2>2 DEF EngineInv, SavedRowsMatch
<1> QED BY <1>1, EngineInvariant, PTL
=============================================================================
