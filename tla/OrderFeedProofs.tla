--------------------------- MODULE OrderFeedProofs ---------------------------
EXTENDS OrderFeed, FiniteSetTheorems, SequenceTheorems, WellFoundedInduction, TLAPS

-----------------------------------------------------------------------------
(* Sums over finite sets.                                                    *)

\* What the sums of the community modules take first.
Pick(s) == CHOOSE x \in s : TRUE

\* it adds up the weights w of the elements of each subset of S.
IsSum(it, w, S) ==
    it = [s \in SUBSET S |-> IF s = {} THEN 0 ELSE w[Pick(s)] + it[s \ {Pick(s)}]]

Total(w, S) == (CHOOSE it : IsSum(it, w, S))[S]

Weights(w, S) == \A x \in S : w[x] \in Nat

\* A set without its pick is smaller.
LEMMA PickLess ==
    ASSUME NEW s, s # {}, IsFiniteSet(s)
    PROVE  /\ Pick(s) \in s /\ IsFiniteSet(s \ {Pick(s)})
           /\ Cardinality(s) \in Nat \ {0} /\ Cardinality(s \ {Pick(s)}) = Cardinality(s) - 1
<1>1. Pick(s) \in s
  BY DEF Pick
<1>2. /\ IsFiniteSet(s \ {Pick(s)})
      /\ Cardinality(s \ {Pick(s)}) = Cardinality(s) - 1
  BY <1>1, FS_RemoveElement
<1>3. Cardinality(s) \in Nat /\ Cardinality(s) # 0
  BY FS_CardinalityType, FS_EmptySet
<1> QED BY <1>1, <1>2, <1>3

\* Of a set of numbers that is not empty one is the least.
LEMMA Least ==
    ASSUME NEW N \in SUBSET Nat, N # {}
    PROVE  \E n \in N : \A k \in N : ~ (k < n)
<1>1. PICK n \in N : \A k \in N : ~ (<<k, n>> \in OpToRel(<, Nat))
  BY NatLessThanWellFounded, WFMin
<1> QED BY <1>1 DEF OpToRel

\* A finite set has its sums.
LEMMA SumExists ==
    ASSUME NEW S, IsFiniteSet(S), NEW w
    PROVE  \E it : IsSum(it, w, S)
<1> DEFINE Sub(n) == {s \in SUBSET S : Cardinality(s) <= n}
           Sums(g, n) == g = [s \in Sub(n) |-> IF s = {} THEN 0
                                               ELSE w[Pick(s)] + g[s \ {Pick(s)}]]
           Bad == {n \in Nat : ~ \E g : Sums(g, n)}
<1>1. \A s \in SUBSET S : IsFiniteSet(s) /\ Cardinality(s) \in Nat
  BY FS_Subset, FS_CardinalityType
<1>2. Bad = {}
  <2> SUFFICES ASSUME Bad # {} PROVE FALSE
    OBVIOUS
  <2>1. PICK n \in Bad : \A k \in Bad : ~ (k < n)
    BY Least
  <2>2. CASE n = 0
    <3>1. \A s \in Sub(0) : s = {}
      <4> SUFFICES ASSUME NEW s \in SUBSET S, Cardinality(s) <= 0, s # {} PROVE FALSE
        OBVIOUS
      <4>1. Cardinality(s) \in Nat \ {0}
        BY <1>1, PickLess
      <4> QED BY <4>1
    <3>2. PICK g : g = [s \in Sub(0) |-> 0]
      OBVIOUS
    <3>3. Sums(g, 0)
      <4> HIDE DEF Sub
      <4> QED BY <3>1, <3>2
    <3> QED BY <2>1, <2>2, <3>3
  <2>3. CASE n # 0
    <3>1. n - 1 \in Nat /\ n - 1 < n
      BY <2>3
    <3>2. PICK g : Sums(g, n - 1)
      BY <2>1, <3>1
    <3>3. PICK h : h = [s \in Sub(n) |-> IF s = {} THEN 0 ELSE w[Pick(s)] + g[s \ {Pick(s)}]]
      OBVIOUS
    <3>4. \A s \in Sub(n) : s # {} => s \ {Pick(s)} \in Sub(n - 1) /\ s \ {Pick(s)} \in Sub(n)
      <4> SUFFICES ASSUME NEW s \in Sub(n), s # {}
                   PROVE  s \ {Pick(s)} \in Sub(n - 1) /\ s \ {Pick(s)} \in Sub(n)
        OBVIOUS
      <4>1. Cardinality(s \ {Pick(s)}) = Cardinality(s) - 1 /\ Cardinality(s) \in Nat
        BY <1>1, PickLess
      <4> QED BY <2>1, <4>1
    <3>5. \A t \in Sub(n - 1) : t \in Sub(n)
      BY <1>1, <2>1
    <3> HIDE DEF Sub
    <3>6. \A t \in Sub(n - 1) : h[t] = g[t]
      BY <3>2, <3>3, <3>5
    <3>7. \A s \in Sub(n) : s # {} => h[s \ {Pick(s)}] = g[s \ {Pick(s)}]
      BY <3>4, <3>6
    <3>8. Sums(h, n)
      BY <3>3, <3>7
    <3> QED BY <2>1, <3>8
  <2> QED BY <2>2, <2>3
<1>3. Cardinality(S) \in Nat
  BY FS_CardinalityType
<1>4. PICK g : Sums(g, Cardinality(S))
  BY <1>2, <1>3
<1>5. Sub(Cardinality(S)) = SUBSET S
  BY FS_Subset
<1> HIDE DEF Sub
<1>6. IsSum(g, w, S)
  BY <1>4, <1>5 DEF IsSum
<1> QED BY <1>6

\* They are determined, and numbers.
LEMMA SumUnique ==
    ASSUME NEW S, NEW T, NEW w, NEW v, NEW i, NEW j, IsSum(i, w, S), IsSum(j, v, T),
           NEW s \in SUBSET S, s \in SUBSET T, IsFiniteSet(s), Weights(w, s),
           \A x \in s : w[x] = v[x]
    PROVE  i[s] = j[s] /\ i[s] \in Nat
<1> DEFINE Good(u) == i[u] = j[u] /\ i[u] \in Nat
           Bad == {n \in Nat : \E u \in SUBSET s : Cardinality(u) = n /\ ~ Good(u)}
<1>1. Bad = {}
  <2> SUFFICES ASSUME Bad # {} PROVE FALSE
    OBVIOUS
  <2>1. PICK n \in Bad : \A k \in Bad : ~ (k < n)
    BY Least
  <2>2. PICK u \in SUBSET s : Cardinality(u) = n /\ ~ Good(u)
    BY <2>1
  <2>3. u # {}
    BY <2>2 DEF IsSum
  <2> DEFINE p == Pick(u)
             r == u \ {p}
  <2>4. p \in u /\ Cardinality(r) = n - 1 /\ n \in Nat \ {0}
    BY <2>2, <2>3, FS_Subset, PickLess
  <2>5. Good(r)
    <3>1. r \in SUBSET s /\ n - 1 \in Nat /\ n - 1 < n
      BY <2>4
    <3> HIDE DEF Good, r
    <3> QED BY <2>1, <2>4, <3>1
  <2>6. i[u] = w[p] + i[r] /\ j[u] = v[p] + j[r]
    BY <2>2, <2>3 DEF IsSum
  <2>7. w[p] = v[p] /\ w[p] \in Nat
    BY <2>4 DEF Weights
  <2> QED BY <2>2, <2>5, <2>6, <2>7
<1>2. Cardinality(s) \in Nat
  BY FS_CardinalityType
<1> QED BY <1>1, <1>2

\* The sum of numbers is a number and depends on the weights of the elements only.
LEMMA TotalIs ==
    ASSUME NEW S, IsFiniteSet(S), NEW w, Weights(w, S), NEW T, IsFiniteSet(T), S \subseteq T,
           NEW it, NEW v, IsSum(it, v, T), \A x \in S : v[x] = w[x]
    PROVE  Total(w, S) = it[S] /\ Total(w, S) \in Nat
<1>1. IsSum(CHOOSE j : IsSum(j, w, S), w, S)
  BY SumExists
<1> QED BY <1>1, SumUnique DEF Total

\* Nothing adds up to nothing.
LEMMA TotalEmpty ==
    ASSUME NEW w
    PROVE  Total(w, {}) = 0
<1>1. IsSum(CHOOSE j : IsSum(j, w, {}), w, {})
  BY SumExists, FS_EmptySet
<1> QED BY <1>1 DEF Total, IsSum

\* One element more adds its weight, whichever is picked first.
LEMMA TotalAdd ==
    ASSUME NEW S, IsFiniteSet(S), NEW x, x \notin S, NEW w, Weights(w, S \cup {x})
    PROVE  Total(w, S \cup {x}) = Total(w, S) + w[x] /\ Total(w, S) \in Nat
<1> DEFINE T == S \cup {x}
<1>1. IsFiniteSet(T)
  BY FS_AddElement
<1>2. PICK it : IsSum(it, w, T)
  BY <1>1, SumExists
<1> HIDE DEF T
<1>3. \A s \in SUBSET T : it[s] \in Nat /\ IsFiniteSet(s) /\ Cardinality(s) \in Nat
  <2> TAKE s \in SUBSET T
  <2>1. IsFiniteSet(s) /\ Cardinality(s) \in Nat
    BY <1>1, FS_Subset, FS_CardinalityType
  <2>2. Weights(w, s)
    BY DEF Weights, T
  <2> QED BY <1>2, <2>1, <2>2, SumUnique
<1> DEFINE Good(s, y) == it[s \cup {y}] = it[s] + w[y]
           Bad == {n \in Nat : \E s \in SUBSET T, y \in T : y \notin s /\ Cardinality(s) = n /\ ~ Good(s, y)}
<1>4. Bad = {}
  <2> SUFFICES ASSUME Bad # {} PROVE FALSE
    OBVIOUS
  <2>1. PICK n \in Bad : \A k \in Bad : ~ (k < n)
    BY Least
  <2>2. PICK s \in SUBSET T, y \in T : y \notin s /\ Cardinality(s) = n /\ ~ Good(s, y)
    BY <2>1
  <2> DEFINE u == s \cup {y}
             p == Pick(u)
             r == s \ {p}
  <2>3. u \in SUBSET T /\ u # {} /\ p \in u /\ it[u] = w[p] + it[u \ {p}]
    BY <1>2 DEF IsSum, Pick
  <2>4. it[s] \in Nat /\ w[y] \in Nat /\ w[p] \in Nat
    BY <1>3, <2>3 DEF Weights, T
  <2>5. CASE p = y
    <3>1. u \ {p} = s
      BY <2>2, <2>5
    <3>2. it[u] = w[y] + it[s]
      BY <2>3, <2>5, <3>1
    <3>3. it[u] = it[s] + w[y]
      <4> HIDE DEF u
      <4> QED BY <2>4, <3>2
    <3> QED BY <2>2, <3>3
  <2>6. CASE p # y
    <3>1. p \in s /\ r \in SUBSET T /\ p \notin r /\ p \in T /\ y \notin r
          /\ s = r \cup {p} /\ u \ {p} = r \cup {y}
      BY <2>2, <2>3, <2>6
    <3>2. Cardinality(r) = n - 1 /\ n - 1 \in Nat /\ n - 1 < n
      <4>1. IsFiniteSet(s) /\ s # {} /\ n \in Nat
        BY <1>3, <2>2, <3>1
      <4>2. Cardinality(r) = Cardinality(s) - 1
        BY <3>1, <4>1, FS_RemoveElement
      <4>3. n # 0
        BY <2>2, <4>1, PickLess
      <4> QED BY <2>2, <4>1, <4>2, <4>3
    <3>3. it[r \cup {p}] = it[r] + w[p] /\ it[r \cup {y}] = it[r] + w[y]
      <4>1. n - 1 \notin Bad
        BY <2>1, <3>2
      <4> HIDE DEF r
      <4> QED BY <3>1, <3>2, <4>1
    <3>4. it[r] \in Nat
      BY <1>3, <3>1
    <3>5. it[s] = it[r] + w[p] /\ it[u] = w[p] + it[r \cup {y}]
      BY <2>3, <3>1, <3>3
    <3>6. it[u] = it[s] + w[y]
      <4> HIDE DEF r, p, u
      <4> QED BY <2>4, <3>3, <3>4, <3>5
    <3> QED BY <2>2, <3>6
  <2> QED BY <2>5, <2>6
<1>5. it[S \cup {x}] = it[S] + w[x]
  <2>1. S \in SUBSET T /\ x \in T /\ Cardinality(S) \in Nat
    BY <1>3 DEF T
  <2> QED BY <1>4, <2>1
<1>6. Weights(w, S) /\ S \subseteq T /\ T \subseteq T
  BY DEF T, Weights
<1>7. Total(w, S) = it[S] /\ Total(w, S) \in Nat
  BY <1>1, <1>2, <1>6, TotalIs
<1>8. Total(w, T) = it[T]
  BY <1>1, <1>2, <1>6, TotalIs DEF T
<1> QED BY <1>5, <1>7, <1>8 DEF T

\* Equal weights give equal sums.
LEMMA TotalSame ==
    ASSUME NEW S, IsFiniteSet(S), NEW w, NEW v, Weights(w, S), \A x \in S : w[x] = v[x]
    PROVE  Total(w, S) = Total(v, S) /\ Total(w, S) \in Nat
<1>1. PICK it : IsSum(it, w, S)
  BY SumExists
<1>2. Weights(v, S)
  BY DEF Weights
<1> QED BY <1>1, <1>2, TotalIs

\* The volume of a set of fragments is the sum of their volumes.
LEMMA VolumeIs ==
    ASSUME NEW S, IsFiniteSet(S), NEW w, Weights(w, S), \A f \in S : w[f] = f.vol
    PROVE  Volume(S) = Total(w, S)
<1> DEFINE IsVol(it) ==
        it = [s \in SUBSET S |-> IF s = {} THEN 0 ELSE (Pick(s)).vol + it[s \ {Pick(s)}]]
<1>1. Volume(S) = (CHOOSE it : IsVol(it))[S]
  BY DEF Volume, MapThenSumSet, MapThenFoldSet, Pick
<1>2. \A it : IsVol(it) <=> IsSum(it, w, S)
  <2>1. ASSUME NEW s \in SUBSET S, s # {}
        PROVE  w[Pick(s)] = (Pick(s)).vol
    BY <2>1 DEF Pick
  <2> QED BY <2>1 DEF IsSum
<1>3. IsVol(CHOOSE it : IsVol(it))
  <2>1. \E it : IsVol(it)
    BY <1>2, SumExists
  <2> HIDE DEF IsVol
  <2> QED BY <2>1
<1> HIDE DEF IsVol
<1>4. IsSum(CHOOSE it : IsVol(it), w, S)
  BY <1>2, <1>3
<1> QED BY <1>1, <1>4, TotalIs

\* The sum over two sets that share nothing.
LEMMA TotalUnion ==
    ASSUME NEW A, NEW B, IsFiniteSet(A), IsFiniteSet(B), A \cap B = {}, NEW w, Weights(w, A \cup B)
    PROVE  Total(w, A \cup B) = Total(w, A) + Total(w, B) /\ IsFiniteSet(A \cup B)
           /\ Total(w, A) \in Nat /\ Total(w, B) \in Nat
<1> DEFINE Good(b) == Total(w, A \cup b) = Total(w, A) + Total(w, b)
           Bad == {n \in Nat : \E b \in SUBSET B : Cardinality(b) = n /\ ~ Good(b)}
<1>1. \A b \in SUBSET B : /\ IsFiniteSet(b) /\ Cardinality(b) \in Nat /\ IsFiniteSet(A \cup b)
                          /\ Weights(w, A \cup b) /\ Weights(w, b) /\ Weights(w, A)
  BY FS_Subset, FS_CardinalityType, FS_Union DEF Weights
<1>2. ASSUME NEW S, IsFiniteSet(S), Weights(w, S)
      PROVE  Total(w, S) \in Nat
  BY <1>2, TotalSame
<1>3. Bad = {}
  <2> SUFFICES ASSUME Bad # {} PROVE FALSE
    OBVIOUS
  <2>1. PICK n \in Bad : \A k \in Bad : ~ (k < n)
    BY Least
  <2>2. PICK b \in SUBSET B : Cardinality(b) = n /\ ~ Good(b)
    BY <2>1
  <2>3. CASE b = {}
    <3>1. A \cup b = A /\ Total(w, A) \in Nat
      BY <1>1, <1>2, <2>3
    <3> QED BY <2>2, <2>3, <3>1, TotalEmpty
  <2>4. CASE b # {}
    <3> DEFINE p == Pick(b)
               c == b \ {p}
    <3>1. p \in b /\ Cardinality(c) = n - 1 /\ n \in Nat \ {0} /\ c \in SUBSET B
          /\ b = c \cup {p} /\ p \notin c /\ p \notin A \cup c
      BY <1>1, <2>2, <2>4, PickLess
    <3> HIDE DEF p, c
    <3>2. Good(c)
      <4>1. n - 1 \in Nat /\ n - 1 < n
        BY <3>1
      <4> HIDE DEF Good
      <4> QED BY <2>1, <3>1, <4>1
    <3>3. Total(w, b) = Total(w, c) + w[p] /\ Total(w, c) \in Nat
      BY <1>1, <3>1, TotalAdd
    <3>4. Total(w, A \cup b) = Total(w, A \cup c) + w[p]
      <4>1. A \cup b = (A \cup c) \cup {p}
        BY <3>1
      <4> QED BY <1>1, <3>1, <4>1, TotalAdd
    <3>5. w[p] \in Nat /\ Total(w, A) \in Nat
      BY <1>1, <1>2, <3>1 DEF Weights
    <3> QED BY <2>2, <3>2, <3>3, <3>4, <3>5
  <2> QED BY <2>3, <2>4
<1>4. Good(B)
  BY <1>1, <1>3
<1> QED BY <1>1, <1>2, <1>4

-----------------------------------------------------------------------------
(* The accounts of an order: what has been counted of it, and what is on its *)
(* way.                                                                      *)

\* What a record tells of an order: immediate fills, passive fills, cancels,
\* the order itself, or nothing.
Part(r, id) ==
    IF r.kind = "trade"
    THEN IF id \notin {r.buy, r.sell} THEN "none" ELSE IF Incoming(r, id) THEN "imm" ELSE "pas"
    ELSE IF r.id # id THEN "none" ELSE IF r.kind \in {"order", "A"} THEN "entry" ELSE "canc"

About(F, part, id) == {r \in F : Part(r, id) = part}

\* The shares in a set of records.
Shares(F) == Total([r \in F |-> r.qty], F)
Flying(F, part, id) == Shares(About(F, part, id))

Records(F) == IsFiniteSet(F) /\ \A r \in F : r.qty \in Nat \ {0}

\* The fragments of a pending order that are immediate fills, and the others.
Incomings(st) == {f \in st.frags : f.incoming}
Others(st) == {f \in st.frags : ~ f.incoming}

\* An order has no more parts than shares.
Within(o) == o.imm + o.pas + o.canc <= o.qty

\* An event whose parts add up.
Adds(e) == e.orig = e.imm + e.pas + e.canc + e.rest

-----------------------------------------------------------------------------
(* The life of one order: o is what the exchange knows of it, m the market,  *)
(* bt the business number and the time at which it came to rest (or would    *)
(* have), st its state, F the records on their way.                          *)

\* Some records of the order have been counted, and it is not confirmed.
IsWaiting(id, o, m, bt, st, F) ==
    /\ ~ st.confirmed /\ st.canc \in Nat /\ IsFiniteSet(st.frags)
    /\ \A f \in st.frags :
         /\ f.biz # bt.biz /\ (f.incoming <=> f.biz < bt.biz)
         /\ \A r \in F : r.kind = "trade" => r.biz # f.biz
    /\ st.hasIncoming <=> Incomings(st) # {}
    /\ IF st.hasA
       THEN st.aBiz = bt.biz /\ st.aRest = o.qty - o.imm /\ o.imm < o.qty /\ About(F, "entry", id) = {}
       ELSE About(F, "entry", id) # {} \/ (m = "SH" /\ o.imm = o.qty)
    /\ Volume(Incomings(st)) + Flying(F, "imm", id) = o.imm
    /\ Volume(Others(st)) + Flying(F, "pas", id) = o.pas
    /\ st.canc + Flying(F, "canc", id) = o.canc

\* It has a state, which the watermark has not passed.
IsPending(bt, st, clk) ==
    /\ st.maxTime \in Nat /\ bt.time <= st.maxTime /\ clk < st.maxTime + Ttl
    /\ st.scheduled \in Nat \ {0} /\ st.scheduled <= st.maxTime

\* It is confirmed with its quantity, and something of it rests.
IsLive(id, o, m, st, F) ==
    /\ st.confirmed /\ ~ st.estimated /\ st.scheduled = 0
    /\ st.orig = o.qty /\ st.imm \in Nat /\ st.pas \in Nat /\ st.canc \in Nat
    /\ st.rest = o.qty - (st.imm + st.pas + st.canc) /\ st.rest > 0
    /\ st.imm + Flying(F, "imm", id) = o.imm
    /\ st.pas + Flying(F, "pas", id) = o.pas
    /\ st.canc + Flying(F, "canc", id) = o.canc
    /\ About(F, "entry", id) = {}
    /\ m = "SH" => About(F, "imm", id) = {}

\* No record of it is left.
IsOver(id, F) == \A r \in F : Part(r, id) = "none"

AtWaiting(id, o, m, bt, life, in, st, F, clk) ==
    /\ life = <<>> /\ IsWaiting(id, o, m, bt, st, F)
    /\ IF in THEN m = "SH" /\ IsPending(bt, st, clk) ELSE st = FreshState

AtLive(id, o, m, life, in, st, F) ==
    /\ in /\ IsLive(id, o, m, st, F)
    /\ life = <<life[1]>> /\ life[1].kind = "Confirmed" /\ life[1].orig = o.qty

AtGone(id, o, life, in, F) ==
    /\ ~ in /\ IsOver(id, F)
    /\ life = <<life[1], life[2]>> /\ life[1].kind = "Confirmed" /\ life[1].orig = o.qty
    /\ life[2].kind = "Closed" /\ life[2].imm = o.imm /\ life[2].pas = o.pas
    /\ life[2].canc = o.canc + Rest(o)

States ==
    [confirmed : BOOLEAN, estimated : BOOLEAN, hasA : BOOLEAN, hasIncoming : BOOLEAN,
     aBiz : Int, aRest : Int, maxTime : Int, scheduled : Int,
     frags : SUBSET [biz : Nat, vol : Nat \ {0}, incoming : BOOLEAN],
     orig : Int, imm : Int, pas : Int, canc : Int, rest : Int]

At(id, o, m, bt, life, in, st, F, clk) ==
  /\ st \in States
  /\ \/ AtWaiting(id, o, m, bt, life, in, st, F, clk)
     \/ AtLive(id, o, m, life, in, st, F)
     \/ AtGone(id, o, life, in, F)

-----------------------------------------------------------------------------
(* The invariant.                                                            *)

\* What a record says of an order fits the order.
Fits(r, id, o, m, bt) ==
    LET part == Part(r, id)
    IN  /\ part # "none" => bt.time <= r.time
        /\ part \in {"imm", "entry"} => r.time = bt.time
        /\ part = "entry" => r.biz = bt.biz /\ r.qty = IF m = "SZ" THEN o.qty ELSE o.qty - o.imm
        /\ m = "SH" /\ part = "imm" => r.biz < bt.biz
        /\ m = "SH" /\ part = "pas" => bt.biz < r.biz

Lives == [side : Sides, qty : Nat \ {0}, imm : Nat, pas : Nat, canc : Nat]

BookInv(b) ==
    /\ market \in {"SH", "SZ"} /\ flagged \in BOOLEAN /\ biz \in Nat /\ now \in 1..Close
    /\ IsFiniteSet(DOMAIN book) /\ DOMAIN book = 1..Cardinality(DOMAIN book) /\ DOMAIN book \subseteq Ids
    /\ book \in [DOMAIN book -> Lives]
    /\ \A id \in DOMAIN book : Within(book[id]) /\ (book[id].canc # 0 => Rest(book[id]) = 0)
    /\ b \in [DOMAIN book -> [biz : Nat, time : Nat \ {0}]]
    /\ \A id \in DOMAIN book : b[id].biz <= biz /\ b[id].time <= now

FlightInv(b) ==
    /\ Records(flight)
    /\ \A r \in flight :
         /\ r.biz \in Nat /\ r.biz < biz /\ r.time \in Nat \ {0} /\ r.time <= LastOrder
         /\ \/ r.kind = "trade" /\ r.buy \in DOMAIN book /\ r.sell \in DOMAIN book /\ r.buy # r.sell
            \/ r.kind \in (IF market = "SZ" THEN {"order", "cancel"} ELSE {"A", "D"}) /\ r.id \in DOMAIN book
         /\ \A id \in DOMAIN book : Fits(r, id, book[id], market, b[id])
    /\ \A r \in flight, s \in flight : r.biz = s.biz => r = s

\* Before the first time point the builder is as it was created, and the first
\* time point comes after the last order.
StageInv ==
    /\ clock \in 0..LastPoint /\ ended \in BOOLEAN
    /\ \A r \in flight : clock <= r.time + Lag
    /\ clock > 0 => now = Close
    /\ clock = 0 => /\ orders = <<>> /\ deadlines = {} /\ slots = <<>> /\ free = {} /\ waiters = <<>>
                    /\ events = NoEvents /\ pairs = {} /\ ~ ended
                    /\ lives = [id \in Ids |-> <<>>] /\ paired = [n \in DOMAIN paired |-> 0]
    /\ ended => flight = {} /\ orders = <<>> /\ slots = <<>> /\ clock = LastPoint

IdsInv(b) ==
    /\ DOMAIN orders \subseteq DOMAIN book
    /\ orders = [id \in DOMAIN orders |-> orders[id]] /\ lives = [id \in Ids |-> lives[id]]
    /\ \A id \in Ids \ DOMAIN book : lives[id] = <<>>
    /\ \A id \in DOMAIN book :
         At(id, book[id], market, b[id], lives[id], id \in DOMAIN orders, StateOf(id), flight, clock)

HeapInv ==
    deadlines = {<<orders[id].scheduled, id>> : id \in {x \in DOMAIN orders : orders[x].scheduled # 0}}

\* A snapshot tells the truth.
Known(id, snap) ==
    /\ snap.orig = book[id].qty
    /\ snap.estimated <=> (market = "SH" /\ book[id].imm = book[id].qty)

Unconfirmed == {id \in DOMAIN orders : ~ orders[id].confirmed}

Snapshots == [orig : Int, estimated : BOOLEAN]
SlotSet == [biz : Nat, buy : Nat, sell : Nat, active : BOOLEAN, buyOrder : Snapshots, sellOrder : Snapshots]

SideInv(id, snap) == IF snap = NoSnapshot THEN id \in Unconfirmed ELSE Known(id, snap)

SlotsInv ==
    /\ slots \in Seq(SlotSet) /\ free \subseteq 1..Len(slots)
    /\ waiters \in [DOMAIN waiters -> Seq(1..Len(slots))] /\ DOMAIN waiters \subseteq Unconfirmed
    /\ \A t \in 1..Len(slots) : slots[t].active <=> t \notin free
    /\ \A t \in 1..Len(slots) : slots[t].active =>
         /\ slots[t].buy \in DOMAIN book /\ slots[t].sell \in DOMAIN book /\ slots[t].buy # slots[t].sell
         /\ ~ Complete(slots[t])
         /\ SideInv(slots[t].buy, slots[t].buyOrder) /\ SideInv(slots[t].sell, slots[t].sellOrder)
    /\ \A t \in 1..Len(slots), id \in Ids :
         t \in Range(WaitersOf(id)) <=>
            /\ slots[t].active
            /\ \/ slots[t].buy = id /\ slots[t].buyOrder = NoSnapshot
               \/ slots[t].sell = id /\ slots[t].sellOrder = NoSnapshot

\* The trades that are on their way or wait in a slot, by business number.
Active == {t \in 1..Len(slots) : slots[t].active}
FlyingTrades == {r.biz : r \in {x \in flight : x.kind = "trade"}}
WaitingTrades == {slots[t].biz : t \in Active}

PairedInv ==
    /\ paired \in [DOMAIN paired -> {0, 1}]
    /\ FlyingTrades \cup WaitingTrades \subseteq DOMAIN paired
    /\ FlyingTrades \cap WaitingTrades = {}
    /\ \A t \in Active, u \in Active : slots[t].biz = slots[u].biz => t = u
    /\ \A n \in DOMAIN paired : paired[n] = 0 <=> n \in FlyingTrades \cup WaitingTrades

PairsInv ==
    \A p \in pairs : Known(p.buy, p.buyOrder) /\ Known(p.sell, p.sellOrder)

FeedInv(b) ==
    /\ BookInv(b) /\ FlightInv(b) /\ StageInv /\ IdsInv(b)
    /\ HeapInv /\ SlotsInv /\ PairedInv /\ PairsInv /\ Conservation

Inv == \E b : FeedInv(b)

-----------------------------------------------------------------------------
(* How the accounts move.                                                    *)

\* One record more adds its shares.
LEMMA SharesAdd ==
    ASSUME NEW F, NEW r, r \notin F, Records(F \cup {r})
    PROVE  Shares(F \cup {r}) = Shares(F) + r.qty /\ Shares(F) \in Nat
<1> DEFINE w == [x \in F \cup {r} |-> x.qty]
           v == [x \in F |-> x.qty]
<1>1. IsFiniteSet(F)
  BY FS_Subset DEF Records
<1>2. Weights(w, F \cup {r}) /\ Weights(w, F) /\ \A x \in F : w[x] = v[x]
  BY DEF Weights, Records
<1> HIDE DEF w, v
<1>3. Total(w, F \cup {r}) = Total(w, F) + w[r]
  BY <1>1, <1>2, TotalAdd
<1>4. Total(w, F) = Total(v, F) /\ Total(w, F) \in Nat
  BY <1>1, <1>2, TotalSame
<1>5. Shares(F \cup {r}) = Total(w, F \cup {r}) /\ Shares(F) = Total(v, F) /\ w[r] = r.qty
  BY DEF Shares, w, v
<1> QED BY <1>3, <1>4, <1>5

\* No records, no shares.
LEMMA SharesEmpty ==
    Shares({}) = 0
BY TotalEmpty DEF Shares

\* The shares of a set of records, and when there are none.
LEMMA SharesIs ==
    ASSUME NEW F, Records(F)
    PROVE  Shares(F) \in Nat /\ (Shares(F) = 0 <=> F = {}) /\ \A r \in F : r.qty <= Shares(F)
<1>1. ASSUME NEW r \in F
      PROVE  Shares(F) \in Nat \ {0} /\ r.qty <= Shares(F)
  <2>1. F = (F \ {r}) \cup {r} /\ r \notin F \ {r} /\ r.qty \in Nat \ {0}
    BY DEF Records
  <2>2. Shares(F) = Shares(F \ {r}) + r.qty /\ Shares(F \ {r}) \in Nat
    BY <2>1, SharesAdd
  <2> QED BY <2>1, <2>2
<1> QED BY <1>1, SharesEmpty

\* A part of a set of records.
LEMMA AboutRecords ==
    ASSUME NEW F, Records(F), NEW part, NEW id
    PROVE  /\ Records(About(F, part, id)) /\ Flying(F, part, id) \in Nat
           /\ Flying(F, part, id) = 0 <=> About(F, part, id) = {}
           /\ \A r \in F : Part(r, id) = part => r.qty <= Flying(F, part, id)
<1>1. Records(About(F, part, id))
  BY FS_Subset DEF Records, About
<1> QED BY <1>1, SharesIs DEF Flying, About

\* A record that is no longer on its way leaves the part of the order it tells of.
LEMMA FlyingTake ==
    ASSUME NEW F, Records(F), NEW r \in F, NEW part, NEW id
    PROVE  /\ Records(F \ {r}) /\ Flying(F \ {r}, part, id) \in Nat
           /\ Flying(F, part, id) = Flying(F \ {r}, part, id) + IF Part(r, id) = part THEN r.qty ELSE 0
           /\ Part(r, id) # part => Flying(F \ {r}, part, id) = Flying(F, part, id)
<1>1. Records(F \ {r})
  BY FS_Subset DEF Records
<1>2. Flying(F \ {r}, part, id) \in Nat
  BY <1>1, AboutRecords
<1>3. CASE Part(r, id) = part
  <2> DEFINE G == About(F \ {r}, part, id)
  <2>1. About(F, part, id) = G \cup {r} /\ r \notin G
    BY <1>3 DEF About
  <2>2. Records(G \cup {r})
    BY <2>1, AboutRecords
  <2>3. Shares(G \cup {r}) = Shares(G) + r.qty
    BY <2>1, <2>2, SharesAdd
  <2> QED BY <1>1, <1>2, <1>3, <2>1, <2>3 DEF Flying
<1>4. CASE Part(r, id) # part
  <2>1. About(F, part, id) = About(F \ {r}, part, id)
    BY <1>4 DEF About
  <2> QED BY <1>1, <1>2, <1>4, <2>1 DEF Flying
<1> QED BY <1>3, <1>4

\* The same for all parts.
Takes(F, r, id) ==
    \A part : /\ Flying(F \ {r}, part, id) \in Nat
              /\ Flying(F, part, id) = Flying(F \ {r}, part, id) + IF Part(r, id) = part THEN r.qty ELSE 0
              /\ Part(r, id) # part => Flying(F \ {r}, part, id) = Flying(F, part, id)

\* A record that is no longer on its way leaves all parts but one as they are.
LEMMA FlyingTakes ==
    ASSUME NEW F, Records(F), NEW r \in F, NEW id
    PROVE  Records(F \ {r}) /\ Takes(F, r, id)
<1> DEFINE G == F \ {r}
<1>1. ASSUME NEW part
      PROVE  /\ Records(G) /\ Flying(G, part, id) \in Nat
             /\ Flying(F, part, id) = Flying(G, part, id) + IF Part(r, id) = part THEN r.qty ELSE 0
  <2>1. r.qty \in Nat
    BY DEF Records
  <2>2. Flying(G, part, id) \in Nat /\ Records(G)
    BY FlyingTake
  <2> QED BY <2>1, <2>2, FlyingTake
<1>2. ASSUME NEW part
      PROVE  /\ Flying(G, part, id) \in Nat
             /\ Flying(F, part, id) = Flying(G, part, id) + IF Part(r, id) = part THEN r.qty ELSE 0
             /\ Part(r, id) # part => Flying(G, part, id) = Flying(F, part, id)
  <2> HIDE DEF G
  <2> QED BY <1>1
<1> QED BY <1>1, <1>2 DEF Takes

\* A record on its way enters the part of the order it tells of.
LEMMA FlyingAdd ==
    ASSUME NEW F, Records(F), NEW r, r \notin F, r.qty \in Nat \ {0}, NEW part, NEW id
    PROVE  /\ Records(F \cup {r}) /\ Flying(F, part, id) \in Nat
           /\ Flying(F \cup {r}, part, id)
                = Flying(F, part, id) + IF Part(r, id) = part THEN r.qty ELSE 0
<1>1. Records(F \cup {r}) /\ r \in F \cup {r} /\ (F \cup {r}) \ {r} = F
  BY FS_AddElement DEF Records
<1> QED BY <1>1, FlyingTake

Fragments(S) == IsFiniteSet(S) /\ \A f \in S : f.vol \in Nat \ {0}

\* One fragment more adds its volume; no fragments have no volume, and no others have none.
LEMMA VolumeAdd ==
    ASSUME NEW S, Fragments(S)
    PROVE  /\ Volume(S) \in Nat /\ (Volume(S) = 0 <=> S = {})
           /\ \A f : f \notin S /\ f.vol \in Nat \ {0} =>
                Fragments(S \cup {f}) /\ Volume(S \cup {f}) = Volume(S) + f.vol
<1>1. ASSUME NEW T, Fragments(T), NEW f, f \notin T, f.vol \in Nat \ {0}
      PROVE  /\ Fragments(T \cup {f}) /\ Volume(T \cup {f}) = Volume(T) + f.vol
             /\ Volume(T) \in Nat
  <2> DEFINE w == [x \in T \cup {f} |-> x.vol]
  <2>1. Fragments(T \cup {f})
    BY <1>1, FS_AddElement DEF Fragments
  <2>2. Weights(w, T \cup {f}) /\ Weights(w, T) /\ w[f] = f.vol
        /\ (\A x \in T : w[x] = x.vol) /\ (\A x \in T \cup {f} : w[x] = x.vol)
    BY <1>1, <2>1 DEF Weights, Fragments
  <2> HIDE DEF w
  <2>3. Total(w, T \cup {f}) = Total(w, T) + w[f] /\ Total(w, T) \in Nat
    BY <1>1, <2>2, TotalAdd DEF Fragments
  <2>4. Volume(T) = Total(w, T) /\ Volume(T \cup {f}) = Total(w, T \cup {f})
    BY <1>1, <2>1, <2>2, VolumeIs DEF Fragments
  <2> QED BY <2>1, <2>2, <2>3, <2>4
<1>2. Volume({}) = 0
  <2>1. IsFiniteSet({}) /\ Weights(<<>>, {})
    BY FS_EmptySet DEF Weights
  <2> QED BY <2>1, VolumeIs, TotalEmpty
<1>3. CASE S = {}
  BY <1>1, <1>2, <1>3
<1>4. CASE S # {}
  <2>1. PICK f \in S : TRUE
    BY <1>4
  <2>2. Fragments(S \ {f}) /\ f \notin S \ {f} /\ f.vol \in Nat \ {0} /\ S = (S \ {f}) \cup {f}
    BY <2>1, FS_Subset DEF Fragments
  <2>3. Volume(S) = Volume(S \ {f}) + f.vol /\ Volume(S \ {f}) \in Nat
    BY <1>1, <2>2
  <2> QED BY <1>1, <1>4, <2>2, <2>3
<1> QED BY <1>3, <1>4

-----------------------------------------------------------------------------
(* What one call does to one order.                                          *)

\* One element after one.
LEMMA ThenOne ==
    ASSUME NEW a, NEW d
    PROVE  <<a>> \o <<d>> = <<a, d>>
<1> DEFINE S == {a, d}
           s == <<a>> \o <<d>>
           t == <<a, d>>
<1>1. <<a>> \in Seq(S) /\ <<d>> \in Seq(S) /\ t \in Seq(S)
  OBVIOUS
<1>2. s \in Seq(S) /\ Len(s) = 2 /\ Len(t) = 2
  BY <1>1
<1>3. s[1] = a /\ s[2] = d
  BY <1>1
<1>4. \A i \in 1..Len(s) : s[i] = t[i]
  BY <1>2, <1>3
<1> HIDE DEF s, t, S
<1>5. s = t
  BY <1>1, <1>2, <1>4, SeqEqual
<1> QED BY <1>5 DEF s, t

\* What a record can tell.
LEMMA PartCases ==
    ASSUME NEW r, NEW id
    PROVE  Part(r, id) \in {"imm", "pas", "canc", "entry", "none"}
BY DEF Part

\* When nothing of an order is on its way.
LEMMA OverIs ==
    ASSUME NEW F, NEW id, About(F, "entry", id) = {}, About(F, "imm", id) = {},
           About(F, "pas", id) = {}, About(F, "canc", id) = {}
    PROVE  IsOver(id, F)
BY PartCases DEF IsOver, About

\* The state of an order of which nothing is known.
LEMMA FreshIs ==
    /\ FreshState \in States /\ Volume(Incomings(FreshState)) = 0 /\ Volume(Others(FreshState)) = 0
    /\ ~ FreshState.confirmed /\ ~ FreshState.hasA /\ FreshState.canc = 0 /\ FreshState.scheduled = 0
    /\ FreshState.maxTime = 0
<1>1. FreshState \in States
  BY DEF FreshState, States
<1>2. Incomings(FreshState) = {} /\ Others(FreshState) = {}
  BY DEF FreshState, Incomings, Others
<1>3. Fragments({})
  BY FS_EmptySet DEF Fragments
<1> QED BY <1>1, <1>2, <1>3, VolumeAdd DEF FreshState

\* The event of a handler that has taken quantity, and what is remembered of it.
LEMMA TakenFromIs ==
    ASSUME NEW st, NEW reason
    PROVE  LET es == TakenFrom(st, reason)
           IN  /\ Len(es) = 1 /\ (ClosedBy(es) <=> st.rest = 0)
               /\ Life(es) = IF st.rest = 0 THEN es ELSE <<>>
               /\ es[1].orig = st.orig /\ es[1].imm = st.imm /\ es[1].pas = st.pas
               /\ es[1].canc = st.canc /\ es[1].rest = st.rest /\ es[1].estimated = st.estimated
               /\ st.rest = 0 => es = <<es[1]>> /\ es[1].kind = "Closed"
<1> DEFINE e == IF st.rest = 0 THEN Event("Closed", reason, st) ELSE Event("RestChanged", "None", st)
<1>1. TakenFrom(st, reason) = <<e>>
  BY DEF TakenFrom
<1>2. /\ e.orig = st.orig /\ e.imm = st.imm /\ e.pas = st.pas
      /\ e.canc = st.canc /\ e.rest = st.rest /\ e.estimated = st.estimated
      /\ e.kind = IF st.rest = 0 THEN "Closed" ELSE "RestChanged"
  BY DEF Event
<1> HIDE DEF e
<1>3. Len(<<e>>) = 1 /\ <<e>>[1] = e /\ <<e>> # <<>> /\ DOMAIN <<e>> = {1}
  OBVIOUS
<1> QED BY <1>1, <1>2, <1>3 DEF ClosedBy, Life

\* A record about a live order never asks for more than rests.
LEMMA LiveRest ==
    ASSUME NEW id, NEW o \in Lives, NEW m, NEW st, NEW F, Records(F), NEW r \in F,
           IsLive(id, o, m, st, F), Within(o), Part(r, id) # "none"
    PROVE  /\ Part(r, id) \in {"imm", "pas", "canc"} /\ (m = "SH" => Part(r, id) # "imm")
           /\ r.qty <= st.rest /\ r.qty \in Nat \ {0} /\ st.rest \in Nat
<1>1. Part(r, id) \in {"imm", "pas", "canc"} /\ (m = "SH" => Part(r, id) # "imm")
  BY PartCases DEF IsLive, About
<1>2. /\ Flying(F, "imm", id) \in Nat /\ Flying(F, "pas", id) \in Nat /\ Flying(F, "canc", id) \in Nat
      /\ r.qty \in Nat \ {0}
      /\ Part(r, id) = "imm" => r.qty <= Flying(F, "imm", id)
      /\ Part(r, id) = "pas" => r.qty <= Flying(F, "pas", id)
      /\ Part(r, id) = "canc" => r.qty <= Flying(F, "canc", id)
  BY AboutRecords DEF Records
<1>3. o.imm \in Nat /\ o.pas \in Nat /\ o.canc \in Nat /\ o.qty \in Nat
  BY DEF Lives
<1> QED BY <1>1, <1>2, <1>3 DEF IsLive, Within

\* q shares of one part are taken from what rests.
Took(new, st, part, q) ==
    /\ new.confirmed /\ ~ new.estimated /\ new.scheduled = 0 /\ new.orig = st.orig
    /\ new.imm = st.imm + IF part = "imm" THEN q ELSE 0
    /\ new.pas = st.pas + IF part = "pas" THEN q ELSE 0
    /\ new.canc = st.canc + IF part = "canc" THEN q ELSE 0
    /\ new.rest = st.rest - q

\* A confirmed state that adds up is live, or tells the truth about an order that is over.
Settles(id, o, m, new, F) ==
    /\ new.rest \in Nat /\ new.orig = o.qty /\ Adds(new)
    /\ new.rest # 0 => IsLive(id, o, m, new, F)
    /\ new.rest = 0 => /\ IsOver(id, F) /\ Rest(o) = 0
                       /\ new.imm = o.imm /\ new.pas = o.pas /\ new.canc = o.canc

\* A record taken from a live order leaves it live, or complete.
LEMMA LiveTake ==
    ASSUME NEW id, NEW o \in Lives, NEW m, NEW st, NEW F, Records(F), NEW r \in F,
           IsLive(id, o, m, st, F), Within(o), Part(r, id) # "none",
           NEW new \in States, Took(new, st, Part(r, id), r.qty)
    PROVE  Settles(id, o, m, new, F \ {r})
<1> DEFINE G == F \ {r}
           fi == Flying(G, "imm", id)
           fp == Flying(G, "pas", id)
           fc == Flying(G, "canc", id)
<1>1. /\ Part(r, id) \in {"imm", "pas", "canc"} /\ r.qty <= st.rest /\ r.qty \in Nat \ {0}
      /\ st.rest \in Nat
  BY LiveRest
<1>2. /\ Records(G) /\ fi \in Nat /\ fp \in Nat /\ fc \in Nat
      /\ Flying(F, "imm", id) = fi + IF Part(r, id) = "imm" THEN r.qty ELSE 0
      /\ Flying(F, "pas", id) = fp + IF Part(r, id) = "pas" THEN r.qty ELSE 0
      /\ Flying(F, "canc", id) = fc + IF Part(r, id) = "canc" THEN r.qty ELSE 0
  <2>1. Records(G) /\ Takes(F, r, id)
    BY FlyingTakes
  <2> QED BY <2>1 DEF Takes
<1>3. o.imm \in Nat /\ o.pas \in Nat /\ o.canc \in Nat /\ o.qty \in Nat
  BY DEF Lives
<1>4. /\ st.imm \in Nat /\ st.pas \in Nat /\ st.canc \in Nat /\ st.orig = o.qty
      /\ st.rest = o.qty - (st.imm + st.pas + st.canc)
      /\ st.imm + Flying(F, "imm", id) = o.imm /\ st.pas + Flying(F, "pas", id) = o.pas
      /\ st.canc + Flying(F, "canc", id) = o.canc
  BY DEF IsLive
<1>5. new.confirmed /\ ~ new.estimated /\ new.scheduled = 0 /\ new.orig = st.orig
  BY DEF Took
<1>6. About(G, "entry", id) = {} /\ (m = "SH" => About(G, "imm", id) = {})
  BY DEF IsLive, About
<1> HIDE DEF G, fi, fp, fc
<1>7. /\ new.imm \in Nat /\ new.pas \in Nat /\ new.canc \in Nat
      /\ new.imm + fi = o.imm /\ new.pas + fp = o.pas /\ new.canc + fc = o.canc
      /\ new.imm + new.pas + new.canc = st.imm + st.pas + st.canc + r.qty
  BY <1>1, <1>2, <1>4 DEF Took
<1>8. new.rest \in Nat /\ new.rest = o.qty - (new.imm + new.pas + new.canc)
  BY <1>1, <1>3, <1>4, <1>7 DEF Took
<1>9. new.orig = o.qty /\ Adds(new)
  BY <1>3, <1>4, <1>7, <1>8, <1>5 DEF Adds
<1>10. new.rest # 0 => IsLive(id, o, m, new, G)
  BY <1>6, <1>7, <1>8, <1>9, <1>5 DEF IsLive, fi, fp, fc
<1>11. ASSUME new.rest = 0
       PROVE  /\ IsOver(id, G) /\ Rest(o) = 0
              /\ new.imm = o.imm /\ new.pas = o.pas /\ new.canc = o.canc
  <2>1. fi = 0 /\ fp = 0 /\ fc = 0
    BY <1>2, <1>3, <1>7, <1>8, <1>11 DEF Within
  <2>2. new.imm = o.imm /\ new.pas = o.pas /\ new.canc = o.canc
    BY <1>7, <2>1
  <2>3. Rest(o) = 0
    BY <1>3, <1>7, <1>8, <1>11, <2>2 DEF Rest
  <2>4. IsOver(id, G)
    BY <1>2, <1>6, <2>1, AboutRecords, OverIs DEF fi, fp, fc
  <2> QED BY <2>2, <2>3, <2>4
<1>12. G = F \ {r}
  BY DEF G
<1>13. new.rest # 0 => IsLive(id, o, m, new, F \ {r})
  BY <1>10, <1>12
<1>14. new.rest = 0 => /\ IsOver(id, F \ {r}) /\ Rest(o) = 0
                       /\ new.imm = o.imm /\ new.pas = o.pas /\ new.canc = o.canc
  BY <1>11, <1>12
<1>15. new.rest \in Nat /\ new.orig = o.qty /\ Adds(new)
  BY <1>8, <1>9
<1> QED BY <1>13, <1>14, <1>15 DEF Settles

\* One event, which tells the quantity of the order.
Tells(es, o) == Len(es) = 1 /\ es[1].orig = o.qty /\ es[1].estimated = FALSE /\ Adds(es[1])

\* The same with the event that is emitted and remembered.
LEMMA LiveTaken ==
    ASSUME NEW id, NEW o \in Lives, NEW m, NEW bt, NEW st, NEW F, Records(F), NEW r \in F, NEW life, NEW clk,
           AtLive(id, o, m, life, TRUE, st, F), Within(o), Part(r, id) # "none",
           NEW new \in States, Took(new, st, Part(r, id), r.qty),
           NEW reason, NEW es, es = TakenFrom(new, reason), NEW after \in States,
           ~ ClosedBy(es) => after = new
    PROVE  /\ At(id, o, m, bt, life \o Life(es), ~ ClosedBy(es), after, F \ {r}, clk)
           /\ Tells(es, o)
<1>1. IsLive(id, o, m, st, F) /\ life = <<life[1]>> /\ life[1].kind = "Confirmed" /\ life[1].orig = o.qty
  BY DEF AtLive
<1>2. Settles(id, o, m, new, F \ {r})
  BY <1>1, LiveTake
<1>3. /\ new.rest \in Nat /\ new.orig = o.qty
      /\ Adds(new)
      /\ new.rest # 0 => IsLive(id, o, m, new, F \ {r})
      /\ new.rest = 0 => /\ IsOver(id, F \ {r}) /\ Rest(o) = 0
                         /\ new.imm = o.imm /\ new.pas = o.pas /\ new.canc = o.canc
  BY <1>2 DEF Settles
<1>4. /\ Len(es) = 1 /\ (ClosedBy(es) <=> new.rest = 0)
      /\ Life(es) = IF new.rest = 0 THEN es ELSE <<>>
      /\ es[1].orig = new.orig /\ es[1].imm = new.imm /\ es[1].pas = new.pas
      /\ es[1].canc = new.canc /\ es[1].rest = new.rest /\ es[1].estimated = new.estimated
      /\ new.rest = 0 => es = <<es[1]>> /\ es[1].kind = "Closed"
  BY TakenFromIs
<1>5. ~ new.estimated
  BY DEF Took
<1>6. Tells(es, o)
  BY <1>3, <1>4, <1>5 DEF Adds, Tells
<1>7. CASE new.rest # 0
  <2>1. life \o Life(es) = life
    <3> DEFINE a == life[1]
    <3>1. life = <<a>> /\ <<a>> \o <<>> = <<a>>
      BY <1>1
    <3> QED BY <1>4, <1>7, <3>1
  <2>2. AtLive(id, o, m, life, ~ ClosedBy(es), after, F \ {r})
    BY <1>1, <1>3, <1>4, <1>7 DEF AtLive
  <2> QED BY <1>6, <2>1, <2>2 DEF At
<1>8. CASE new.rest = 0
  <2> DEFINE a == life[1]
             d == es[1]
  <2>1. life \o Life(es) = <<a, d>>
    <3>1. life = <<a>>
      BY <1>1
    <3>2. Life(es) = <<d>>
      BY <1>4, <1>8
    <3> HIDE DEF a, d
    <3> QED BY <3>1, <3>2, ThenOne
  <2>2. d.canc = o.canc + Rest(o)
    BY <1>3, <1>4, <1>8 DEF Lives
  <2>3. AtGone(id, o, <<a, d>>, ~ ClosedBy(es), F \ {r})
    BY <1>1, <1>3, <1>4, <1>8, <2>2 DEF AtGone
  <2> QED BY <1>6, <2>1, <2>3 DEF At
<1> QED BY <1>7, <1>8

\* A pending state of which one more record is known enters the heap, or stays in it.
LEMMA PendingTouched ==
    ASSUME NEW bt \in [biz : Nat, time : Nat \ {0}], NEW st, NEW clk \in Nat, NEW r, r.time \in Nat,
           bt.time <= r.time, clk <= r.time + Lag,
           st = FreshState \/ IsPending(bt, st, clk),
           NEW new, new.maxTime = Larger(st.maxTime, r.time),
           new.scheduled = IF st.scheduled = 0 THEN new.maxTime ELSE st.scheduled
    PROVE  IsPending(bt, new, clk) /\ st.maxTime \in Nat
<1>1. Lag \in Nat /\ Ttl \in Nat /\ Lag < Ttl
  BY FeedAssumption, BuilderAssumption
<1>2. bt.time \in Nat \ {0}
  OBVIOUS
<1>3. CASE st = FreshState
  BY <1>1, <1>2, <1>3, FreshIs DEF IsPending, Larger
<1>4. CASE IsPending(bt, st, clk)
  BY <1>1, <1>2, <1>4 DEF IsPending, Larger
<1> QED BY <1>3, <1>4

\* A fragment more: an immediate fill or another.
LEMMA FragmentMore ==
    ASSUME NEW st, NEW new, NEW f, IsFiniteSet(st.frags), f \notin st.frags,
           \A g \in st.frags \cup {f} : g.vol \in Nat \ {0},
           new.frags = st.frags \cup {f}
    PROVE  /\ IsFiniteSet(new.frags)
           /\ Volume(Incomings(new)) = Volume(Incomings(st)) + IF f.incoming THEN f.vol ELSE 0
           /\ Volume(Others(new)) = Volume(Others(st)) + IF f.incoming THEN 0 ELSE f.vol
           /\ Incomings(new) = IF f.incoming THEN Incomings(st) \cup {f} ELSE Incomings(st)
<1>1. /\ Fragments(Incomings(st)) /\ Fragments(Others(st))
      /\ f \notin Incomings(st) /\ f \notin Others(st) /\ f.vol \in Nat \ {0}
  BY FS_Subset DEF Fragments, Incomings, Others
<1>2. /\ Volume(Incomings(st)) \in Nat /\ Volume(Others(st)) \in Nat
      /\ Volume(Incomings(st) \cup {f}) = Volume(Incomings(st)) + f.vol
      /\ Volume(Others(st) \cup {f}) = Volume(Others(st)) + f.vol
  BY <1>1, VolumeAdd
<1>3. IsFiniteSet(new.frags)
  BY FS_AddElement
<1>4. /\ Incomings(new) = IF f.incoming THEN Incomings(st) \cup {f} ELSE Incomings(st)
      /\ Others(new) = IF f.incoming THEN Others(st) ELSE Others(st) \cup {f}
  BY DEF Incomings, Others
<1> QED BY <1>2, <1>3, <1>4

\* The volumes of a waiting order are numbers.
LEMMA WaitingVolumes ==
    ASSUME NEW id, NEW o, NEW m, NEW bt, NEW st \in States, NEW F, IsWaiting(id, o, m, bt, st, F)
    PROVE  /\ Fragments(Incomings(st)) /\ Fragments(Others(st))
           /\ Volume(Incomings(st)) \in Nat /\ Volume(Others(st)) \in Nat
           /\ (Volume(Incomings(st)) = 0 <=> Incomings(st) = {})
           /\ (Volume(Others(st)) = 0 <=> Others(st) = {})
<1>1. \A f \in st.frags : f.vol \in Nat \ {0}
  BY DEF States
<1>2. Fragments(Incomings(st)) /\ Fragments(Others(st))
  BY <1>1, FS_Subset DEF Fragments, Incomings, Others, IsWaiting
<1> QED BY <1>2, VolumeAdd

\* 'A' tells what rests.
LEMMA WaitingAdd ==
    ASSUME NEW id, NEW o \in Lives, NEW bt, NEW st \in States, NEW F, Records(F), NEW r \in F,
           IsWaiting(id, o, "SH", bt, st, F), Part(r, id) = "entry",
           \A s \in F : Fits(s, id, o, "SH", bt), \A s \in F : s.biz = r.biz => s = r,
           NEW new, ~ new.confirmed, new.hasA, new.hasIncoming = st.hasIncoming, new.aBiz = r.biz,
           new.aRest = r.qty, new.frags = st.frags, new.canc = st.canc
    PROVE  IsWaiting(id, o, "SH", bt, new, F \ {r})
<1>1. r.biz = bt.biz /\ r.qty = o.qty - o.imm /\ r.qty \in Nat \ {0} /\ o.qty \in Nat /\ o.imm \in Nat
  BY DEF Fits, Records, Lives
<1>2. About(F \ {r}, "entry", id) = {}
  BY <1>1 DEF Fits, About
<1>3. /\ Flying(F \ {r}, "imm", id) = Flying(F, "imm", id)
      /\ Flying(F \ {r}, "pas", id) = Flying(F, "pas", id)
      /\ Flying(F \ {r}, "canc", id) = Flying(F, "canc", id)
  <2>1. Takes(F, r, id)
    BY FlyingTakes
  <2> QED BY <2>1 DEF Takes
<1>4. Incomings(new) = Incomings(st) /\ Others(new) = Others(st)
  BY DEF Incomings, Others
<1>5. o.imm < o.qty
  BY <1>1
<1> QED BY <1>1, <1>2, <1>3, <1>4, <1>5 DEF IsWaiting

\* 'D' is counted.
LEMMA WaitingDelete ==
    ASSUME NEW id, NEW o \in Lives, NEW bt, NEW st \in States, NEW F, Records(F), NEW r \in F,
           IsWaiting(id, o, "SH", bt, st, F), Part(r, id) = "canc",
           NEW new, ~ new.confirmed, new.hasA = st.hasA, new.hasIncoming = st.hasIncoming,
           new.aBiz = st.aBiz, new.aRest = st.aRest, new.frags = st.frags, new.canc = st.canc + r.qty
    PROVE  IsWaiting(id, o, "SH", bt, new, F \ {r})
<1>1. /\ Flying(F \ {r}, "imm", id) = Flying(F, "imm", id)
      /\ Flying(F \ {r}, "pas", id) = Flying(F, "pas", id)
      /\ Flying(F, "canc", id) = Flying(F \ {r}, "canc", id) + r.qty
      /\ Flying(F \ {r}, "canc", id) \in Nat
      /\ r.qty \in Nat
  <2>1. r.qty \in Nat
    BY DEF Records
  <2>2. Takes(F, r, id)
    BY FlyingTakes
  <2> QED BY <2>1, <2>2 DEF Takes
<1>2. Incomings(new) = Incomings(st) /\ Others(new) = Others(st)
  BY DEF Incomings, Others
<1>3. About(F \ {r}, "entry", id) = About(F, "entry", id)
  BY DEF About
<1>4. st.canc \in Nat /\ st.canc + Flying(F, "canc", id) = o.canc
  BY DEF IsWaiting
<1>5. new.canc \in Nat /\ new.canc + Flying(F \ {r}, "canc", id) = o.canc
  BY <1>1, <1>4
<1> QED BY <1>1, <1>2, <1>3, <1>5 DEF IsWaiting

\* A trade leaves a fragment.
LEMMA WaitingTrade ==
    ASSUME NEW id, NEW o \in Lives, NEW bt \in [biz : Nat, time : Nat \ {0}], NEW st \in States,
           NEW F, Records(F), NEW r \in F, r.biz \in Nat, r.kind = "trade",
           IsWaiting(id, o, "SH", bt, st, F), Part(r, id) # "none", Fits(r, id, o, "SH", bt),
           \A s \in F : s.biz = r.biz => s = r,
           NEW f, f.biz = r.biz, f.vol = r.qty, f.incoming = Incoming(r, id),
           NEW new, ~ new.confirmed, new.hasA = st.hasA,
           new.hasIncoming = (st.hasIncoming \/ Incoming(r, id)),
           new.aBiz = st.aBiz, new.aRest = st.aRest, new.frags = st.frags \cup {f}, new.canc = st.canc
    PROVE  IsWaiting(id, o, "SH", bt, new, F \ {r})
<1>1. r.qty \in Nat \ {0}
  BY DEF Records
<1>2. Part(r, id) = (IF Incoming(r, id) THEN "imm" ELSE "pas") /\ Incoming(r, id) \in BOOLEAN
  BY DEF Part, Incoming
<1>3. f \notin st.frags /\ IsFiniteSet(st.frags) /\ \A g \in st.frags : g.vol \in Nat \ {0}
  BY <1>1 DEF IsWaiting, States
<1>4. /\ IsFiniteSet(new.frags)
      /\ Volume(Incomings(new)) = Volume(Incomings(st)) + IF f.incoming THEN f.vol ELSE 0
      /\ Volume(Others(new)) = Volume(Others(st)) + IF f.incoming THEN 0 ELSE f.vol
      /\ Incomings(new) = IF f.incoming THEN Incomings(st) \cup {f} ELSE Incomings(st)
  <2>1. \A g \in st.frags \cup {f} : g.vol \in Nat \ {0}
    BY <1>1, <1>3
  <2> QED BY <1>3, <2>1, FragmentMore
<1>5. /\ Flying(F, "imm", id) = Flying(F \ {r}, "imm", id) + IF Incoming(r, id) THEN r.qty ELSE 0
      /\ Flying(F, "pas", id) = Flying(F \ {r}, "pas", id) + IF Incoming(r, id) THEN 0 ELSE r.qty
      /\ Flying(F \ {r}, "canc", id) = Flying(F, "canc", id)
      /\ Flying(F \ {r}, "imm", id) \in Nat /\ Flying(F \ {r}, "pas", id) \in Nat
  <2>1. Takes(F, r, id)
    BY FlyingTakes
  <2> QED BY <1>1, <1>2, <2>1 DEF Takes
<1>6. About(F \ {r}, "entry", id) = About(F, "entry", id)
  BY <1>2 DEF About
<1>7. f.biz # bt.biz /\ (f.incoming <=> f.biz < bt.biz)
  BY <1>1, <1>2 DEF Fits
<1>8. \A g \in new.frags :
         /\ g.biz # bt.biz /\ (g.incoming <=> g.biz < bt.biz)
         /\ \A s \in F \ {r} : s.kind = "trade" => s.biz # g.biz
  BY <1>1, <1>7 DEF IsWaiting
<1>9. new.hasIncoming <=> Incomings(new) # {}
  BY <1>1, <1>2, <1>4 DEF IsWaiting
<1>10. Volume(Incomings(new)) + Flying(F \ {r}, "imm", id) = o.imm
       /\ Volume(Others(new)) + Flying(F \ {r}, "pas", id) = o.pas
  <2>1. /\ Volume(Incomings(st)) \in Nat /\ Volume(Others(st)) \in Nat
        /\ Volume(Incomings(st)) + Flying(F, "imm", id) = o.imm
        /\ Volume(Others(st)) + Flying(F, "pas", id) = o.pas
    <3>1. Volume(Incomings(st)) \in Nat /\ Volume(Others(st)) \in Nat
      BY WaitingVolumes
    <3> QED BY <3>1 DEF IsWaiting
  <2> QED BY <1>1, <1>4, <1>5, <2>1
<1> QED BY <1>4, <1>5, <1>6, <1>8, <1>9, <1>10 DEF IsWaiting

\* A record that does not tell of an order leaves it as it is.
LEMMA AtFrame ==
    ASSUME NEW id, NEW o, NEW m, NEW bt, NEW life, NEW in, NEW st, NEW F, Records(F), NEW r \in F, NEW clk,
           At(id, o, m, bt, life, in, st, F, clk), Part(r, id) = "none"
    PROVE  At(id, o, m, bt, life, in, st, F \ {r}, clk)
<1>1. /\ Flying(F \ {r}, "imm", id) = Flying(F, "imm", id)
      /\ Flying(F \ {r}, "pas", id) = Flying(F, "pas", id)
      /\ Flying(F \ {r}, "canc", id) = Flying(F, "canc", id)
  <2>1. Takes(F, r, id)
    BY FlyingTakes
  <2> QED BY <2>1 DEF Takes
<1>2. /\ About(F \ {r}, "entry", id) = About(F, "entry", id)
      /\ About(F \ {r}, "imm", id) = About(F, "imm", id)
  BY DEF About
<1>3. CASE AtWaiting(id, o, m, bt, life, in, st, F, clk)
  <2>1. IsWaiting(id, o, m, bt, st, F \ {r})
    <3>1. IsWaiting(id, o, m, bt, st, F)
      BY <1>3 DEF AtWaiting
    <3> QED BY <1>1, <1>2, <3>1 DEF IsWaiting
  <2> QED BY <1>3, <2>1 DEF At, AtWaiting
<1>4. CASE AtLive(id, o, m, life, in, st, F)
  <2>1. IsLive(id, o, m, st, F \ {r})
    <3>1. IsLive(id, o, m, st, F)
      BY <1>4 DEF AtLive
    <3> QED BY <1>1, <1>2, <3>1 DEF IsLive
  <2> QED BY <1>4, <2>1 DEF At, AtLive
<1>5. CASE AtGone(id, o, life, in, F)
  BY <1>5 DEF At, AtGone, IsOver
<1> QED BY <1>3, <1>4, <1>5 DEF At

\* A call without events leaves what is remembered.
LEMMA LifeNone ==
    ASSUME NEW id, NEW o, NEW m, NEW bt, NEW life, NEW in, NEW st, NEW F, NEW clk,
           At(id, o, m, bt, life, in, st, F, clk)
    PROVE  life \o Life(<<>>) = life
<1>1. Life(<<>>) = <<>>
  BY DEF Life
<1>2. \E S : life \in Seq(S)
  <2>1. life = <<>> \/ life = <<life[1]>> \/ life = <<life[1], life[2]>>
    BY DEF At, AtWaiting, AtLive, AtGone
  <2>2. <<>> \in Seq({1}) /\ <<life[1]>> \in Seq({life[1], life[2]})
        /\ <<life[1], life[2]>> \in Seq({life[1], life[2]})
    OBVIOUS
  <2> QED BY <2>1, <2>2
<1> QED BY <1>1, <1>2

With(st, e, i, p, q, r) ==
    [st EXCEPT !.scheduled = 0, !.confirmed = TRUE, !.estimated = e, !.frags = {},
               !.imm = i, !.pas = p, !.orig = q, !.rest = r]

\* A state with other contents is a state.
LEMMA StateWith ==
    ASSUME NEW st \in States, NEW e \in BOOLEAN, NEW i \in Int, NEW p \in Int, NEW q \in Int, NEW r \in Int
    PROVE  With(st, e, i, p, q, r) \in States
<1> DEFINE Fr == SUBSET [biz : Nat, vol : Nat \ {0}, incoming : BOOLEAN]
           a == [st EXCEPT !.frags = {}, !.imm = i, !.pas = p]
           b == [a EXCEPT !.orig = q, !.rest = r]
           z == [b EXCEPT !.scheduled = 0]
           c == [z EXCEPT !.confirmed = TRUE]
           d == [c EXCEPT !.estimated = e]
<1>1. {} \in Fr
  OBVIOUS
<1>2. d = With(st, e, i, p, q, r)
  BY DEF States, With
<1> HIDE DEF Fr
<1>3. States = [confirmed : BOOLEAN, estimated : BOOLEAN, hasA : BOOLEAN, hasIncoming : BOOLEAN,
                aBiz : Int, aRest : Int, maxTime : Int, scheduled : Int, frags : Fr,
                orig : Int, imm : Int, pas : Int, canc : Int, rest : Int]
  BY DEF States, Fr
<1>4. a \in States
  BY <1>1, <1>3
<1> HIDE DEF a
<1>5. b \in States
  BY <1>3, <1>4
<1> HIDE DEF b
<1>6. z \in States
  BY <1>3, <1>5
<1> HIDE DEF z
<1>7. c \in States
  BY <1>3, <1>6
<1> HIDE DEF c
<1>8. d \in States
  BY <1>3, <1>7
<1> QED BY <1>2, <1>8

\* When the watermark has passed an order, its fragments and cancels are all there: what becomes of
\* its state is the truth.
LEMMA FinalIs ==
    ASSUME NEW id, NEW o \in Lives, NEW bt, NEW st \in States, NEW F, Records(F),
           IsWaiting(id, o, "SH", bt, st, F), Within(o),
           About(F, "entry", id) = {}, About(F, "imm", id) = {},
           NEW new, new = FinalState(st)
    PROVE  /\ st.hasA \/ st.hasIncoming
           /\ new \in States /\ new.orig = o.qty /\ (new.estimated <=> o.imm = o.qty) /\ new.rest \in Nat
           /\ Adds(new)
           /\ new.rest # 0 => IsLive(id, o, "SH", new, F)
           /\ new.rest = 0 => /\ IsOver(id, F) /\ Rest(o) = 0
                              /\ new.imm = o.imm /\ new.pas = o.pas /\ new.canc = o.canc
<1> DEFINE vi == Volume(Incomings(st))
           vp == Volume(Others(st))
           fp == Flying(F, "pas", id)
           fc == Flying(F, "canc", id)
           imms == {f \in st.frags : IF st.hasA THEN f.biz < st.aBiz ELSE f.incoming}
           pass == {f \in st.frags : st.hasA /\ f.biz > st.aBiz}
<1>1. o.imm + o.pas + o.canc <= o.qty
  BY DEF Within
<1> USE <1>1
<1>2. o.imm \in Nat /\ o.pas \in Nat /\ o.canc \in Nat /\ o.qty \in Nat \ {0}
  BY DEF Lives
<1>3. vi \in Nat /\ vp \in Nat /\ (vi = 0 <=> Incomings(st) = {})
  BY WaitingVolumes
<1>4. fp \in Nat /\ fc \in Nat /\ Flying(F, "imm", id) = 0
  BY AboutRecords
<1>5. /\ vi + Flying(F, "imm", id) = o.imm /\ vp + fp = o.pas /\ st.canc + fc = o.canc /\ st.canc \in Nat
  BY DEF IsWaiting
<1>6. vi = o.imm
  BY <1>3, <1>4, <1>5
<1>7. st.hasA => st.aBiz = bt.biz /\ st.aRest = o.qty - o.imm /\ o.imm < o.qty
  BY DEF IsWaiting
<1>8. ~ st.hasA => o.imm = o.qty
  BY DEF IsWaiting
<1>9. imms = Incomings(st)
  BY <1>7 DEF IsWaiting, Incomings
<1>10. pass = IF st.hasA THEN Others(st) ELSE {}
  <2>1. \A f \in st.frags : f.biz \in Nat /\ f.biz # bt.biz /\ (f.incoming <=> f.biz < bt.biz)
    BY DEF IsWaiting, States
  <2>2. CASE st.hasA
    <3>1. bt.biz \in Int
      BY <1>7, <2>2 DEF States
    <3> QED BY <1>7, <2>1, <2>2, <3>1 DEF Others
  <2>3. CASE ~ st.hasA
    BY <2>3
  <2> QED BY <2>2, <2>3
<1>11. Volume({}) = 0
  BY VolumeAdd, FS_EmptySet DEF Fragments
<1> HIDE DEF vi, vp, fp, fc, imms, pass
<1>12. new = [st EXCEPT !.scheduled = 0, !.confirmed = TRUE, !.estimated = ~st.hasA, !.frags = {},
                        !.imm = Volume(imms), !.pas = Volume(pass),
                        !.orig = IF st.hasA THEN st.aRest + Volume(imms) ELSE Volume(imms),
                        !.rest = IF st.hasA THEN Larger(0, st.aRest - (Volume(pass) + st.canc)) ELSE 0]
  BY DEF FinalState, imms, pass
<1>13. Volume(imms) = o.imm
  BY <1>6, <1>9 DEF vi
<1>14. Volume(pass) = IF st.hasA THEN vp ELSE 0
  BY <1>10, <1>11 DEF vp
<1> DEFINE orig == IF st.hasA THEN st.aRest + Volume(imms) ELSE Volume(imms)
           rest == IF st.hasA THEN Larger(0, st.aRest - (Volume(pass) + st.canc)) ELSE 0
<1>15. orig = o.qty
  BY <1>2, <1>7, <1>8, <1>13
<1>16. rest \in Nat /\ rest = o.qty - (o.imm + Volume(pass) + st.canc)
  <2>1. CASE st.hasA
    <3>1. vp + st.canc <= o.qty - o.imm
      BY <1>2, <1>3, <1>4, <1>5
    <3>2. st.aRest = o.qty - o.imm /\ Volume(pass) = vp
      BY <1>7, <1>14, <2>1
    <3>3. rest = Larger(0, (o.qty - o.imm) - (vp + st.canc))
      BY <2>1, <3>2
    <3> HIDE DEF rest
    <3> QED BY <1>2, <1>3, <1>5, <3>1, <3>2, <3>3 DEF Larger
  <2>2. CASE ~ st.hasA
    <3>1. o.imm = o.qty /\ Volume(pass) = 0 /\ rest = 0
      BY <1>8, <1>14, <2>2
    <3>2. st.canc = 0
      BY <1>2, <1>3, <1>4, <1>5, <3>1
    <3> QED BY <1>2, <3>1, <3>2
  <2> QED BY <2>1, <2>2
<1>17. Volume(pass) \in Nat /\ Volume(pass) + fp = o.pas
  <2>1. CASE st.hasA
    BY <1>3, <1>5, <1>14, <2>1
  <2>2. CASE ~ st.hasA
    <3>1. o.imm = o.qty /\ Volume(pass) = 0
      BY <1>8, <1>14, <2>2
    <3>2. o.pas = 0
      BY <1>2, <3>1
    <3> QED BY <1>3, <1>4, <1>5, <3>1, <3>2
  <2> QED BY <2>1, <2>2
<1>18. new = [st EXCEPT !.scheduled = 0, !.confirmed = TRUE, !.estimated = ~st.hasA, !.frags = {},
                        !.imm = o.imm, !.pas = Volume(pass), !.orig = o.qty, !.rest = rest]
  <2> HIDE DEF orig, rest
  <2>1. new = [st EXCEPT !.scheduled = 0, !.confirmed = TRUE, !.estimated = ~st.hasA, !.frags = {},
                        !.imm = Volume(imms), !.pas = Volume(pass), !.orig = orig, !.rest = rest]
    BY <1>12 DEF orig, rest
  <2> QED BY <1>13, <1>15, <2>1
<1> HIDE DEF rest, orig
<1>19. new \in States
  <2> DEFINE p == Volume(pass)
             e == ~ st.hasA
  <2>1. o.imm \in Int /\ p \in Int /\ o.qty \in Int /\ rest \in Int /\ e \in BOOLEAN
    BY <1>2, <1>16, <1>17
  <2>2. new = With(st, e, o.imm, p, o.qty, rest)
    BY <1>18 DEF With
  <2> HIDE DEF p, e
  <2> QED BY <2>1, <2>2, StateWith
<1>20. /\ new.confirmed /\ new.estimated = (~ st.hasA) /\ new.scheduled = 0 /\ new.imm = o.imm
       /\ new.pas = Volume(pass) /\ new.orig = o.qty /\ new.rest = rest /\ new.canc = st.canc
  BY <1>18 DEF States
<1>21. st.hasA \in BOOLEAN /\ (st.hasA <=> o.imm # o.qty)
  BY <1>2, <1>7, <1>8 DEF States
<1>22. Adds(new)
  BY <1>2, <1>5, <1>16, <1>17, <1>20 DEF Adds
<1>23. ASSUME rest # 0
       PROVE  IsLive(id, o, "SH", new, F)
  <2>1. o.imm # o.qty
    BY <1>2, <1>5, <1>16, <1>17, <1>23
  <2>2. ~ new.estimated
    BY <1>20, <1>21, <2>1
  <2>3. new.imm + Flying(F, "imm", id) = o.imm /\ new.pas + Flying(F, "pas", id) = o.pas
        /\ new.canc + Flying(F, "canc", id) = o.canc
    BY <1>2, <1>4, <1>5, <1>17, <1>20 DEF fp, fc
  <2>4. new.rest > 0 /\ new.rest = o.qty - (new.imm + new.pas + new.canc)
    BY <1>16, <1>20, <1>23
  <2> QED BY <1>2, <1>5, <1>17, <1>20, <2>2, <2>3, <2>4 DEF IsLive
<1>24. ASSUME rest = 0
       PROVE  /\ IsOver(id, F) /\ Rest(o) = 0
              /\ new.imm = o.imm /\ new.pas = o.pas /\ new.canc = o.canc
  <2>1. fp = 0 /\ fc = 0 /\ Volume(pass) = o.pas /\ st.canc = o.canc
    BY <1>2, <1>4, <1>5, <1>16, <1>17, <1>24
  <2>2. IsOver(id, F)
    BY <2>1, AboutRecords, OverIs DEF fp, fc
  <2>3. Rest(o) = 0
    BY <1>2, <1>16, <1>24, <2>1 DEF Rest
  <2> QED BY <1>20, <2>1, <2>2, <2>3
<1>25. st.hasA \/ st.hasIncoming
  <2>1. ASSUME ~ st.hasA
        PROVE  st.hasIncoming
    <3>1. vi # 0
      BY <1>2, <1>6, <1>8, <2>1
    <3> QED BY <1>3, <3>1 DEF IsWaiting
  <2> QED BY <2>1
<1> QED BY <1>16, <1>19, <1>20, <1>21, <1>22, <1>23, <1>24, <1>25

\* The events that confirm an order whose time has come.
LEMMA FinalEventsAre ==
    ASSUME NEW st
    PROVE  \E c, d :
             /\ FinalEvents(st) = IF st.rest = 0 THEN <<c, d>> ELSE <<c>>
             /\ c.kind = "Confirmed" /\ d.kind = "Closed"
             /\ c.orig = st.orig /\ c.imm = st.imm /\ c.pas = st.pas /\ c.canc = st.canc /\ c.rest = st.rest
             /\ d.orig = st.orig /\ d.imm = st.imm /\ d.pas = st.pas /\ d.canc = st.canc /\ d.rest = st.rest
             /\ (ClosedBy(FinalEvents(st)) <=> st.rest = 0) /\ Life(FinalEvents(st)) = FinalEvents(st)
             /\ <<>> \o FinalEvents(st) = FinalEvents(st)
             /\ \A i \in 1..Len(FinalEvents(st)) : FinalEvents(st)[i] \in {c, d}
<1> DEFINE reason == IF ~st.hasA THEN "FilledOnArrival"
                     ELSE IF st.canc > 0 THEN "Cancelled" ELSE "FilledAfterResting"
           c == Event("Confirmed", "None", st)
           d == Event("Closed", reason, st)
<1>1. FinalEvents(st) = IF st.rest = 0 THEN <<c, d>> ELSE <<c>>
  BY DEF FinalEvents
<1>2. /\ c.kind = "Confirmed" /\ d.kind = "Closed"
      /\ c.orig = st.orig /\ c.imm = st.imm /\ c.pas = st.pas /\ c.canc = st.canc /\ c.rest = st.rest
      /\ d.orig = st.orig /\ d.imm = st.imm /\ d.pas = st.pas /\ d.canc = st.canc /\ d.rest = st.rest
  BY DEF Event
<1> HIDE DEF c, d
<1>3. /\ <<c>> # <<>> /\ Len(<<c>>) = 1 /\ <<c>>[1] = c /\ DOMAIN <<c>> = {1} /\ <<>> \o <<c>> = <<c>>
      /\ <<c, d>> # <<>> /\ Len(<<c, d>>) = 2 /\ <<c, d>>[1] = c /\ <<c, d>>[2] = d
      /\ DOMAIN <<c, d>> = {1, 2} /\ <<>> \o <<c, d>> = <<c, d>>
  OBVIOUS
<1>4. (ClosedBy(FinalEvents(st)) <=> st.rest = 0) /\ Life(FinalEvents(st)) = FinalEvents(st)
  BY <1>1, <1>2, <1>3 DEF ClosedBy, Life
<1>5. /\ <<>> \o FinalEvents(st) = FinalEvents(st)
      /\ \A i \in 1..Len(FinalEvents(st)) : FinalEvents(st)[i] \in {c, d}
  BY <1>1, <1>3
<1> QED BY <1>1, <1>2, <1>4, <1>5

\* An order that the watermark has passed becomes live, or is complete.
LEMMA FinalAt ==
    ASSUME NEW id, NEW o \in Lives, NEW bt, NEW st \in States, NEW F, Records(F), NEW clk,
           IsWaiting(id, o, "SH", bt, st, F), Within(o),
           About(F, "entry", id) = {}, About(F, "imm", id) = {},
           NEW new, new = FinalState(st), NEW es, es = FinalEvents(new),
           NEW after \in States, ~ ClosedBy(es) => after = new
    PROVE  /\ At(id, o, "SH", bt, <<>> \o Life(es), ~ ClosedBy(es), after, F, clk)
           /\ \A i \in 1..Len(es) : Adds(es[i])
<1>1. /\ new \in States /\ new.orig = o.qty /\ new.rest \in Nat
      /\ Adds(new)
      /\ new.rest # 0 => IsLive(id, o, "SH", new, F)
      /\ new.rest = 0 => /\ IsOver(id, F) /\ Rest(o) = 0
                         /\ new.imm = o.imm /\ new.pas = o.pas /\ new.canc = o.canc
  BY FinalIs
<1>2. PICK c, d :
             /\ FinalEvents(new) = IF new.rest = 0 THEN <<c, d>> ELSE <<c>>
             /\ c.kind = "Confirmed" /\ d.kind = "Closed"
             /\ c.orig = new.orig /\ c.imm = new.imm /\ c.pas = new.pas /\ c.canc = new.canc /\ c.rest = new.rest
             /\ d.orig = new.orig /\ d.imm = new.imm /\ d.pas = new.pas /\ d.canc = new.canc /\ d.rest = new.rest
             /\ (ClosedBy(FinalEvents(new)) <=> new.rest = 0) /\ Life(FinalEvents(new)) = FinalEvents(new)
             /\ <<>> \o FinalEvents(new) = FinalEvents(new)
             /\ \A i \in 1..Len(FinalEvents(new)) : FinalEvents(new)[i] \in {c, d}
  BY FinalEventsAre
<1>3. <<>> \o Life(es) = IF new.rest = 0 THEN <<c, d>> ELSE <<c>>
  BY <1>2
<1>4. \A i \in 1..Len(es) : Adds(es[i])
  <2>1. Adds(c) /\ Adds(d)
    BY <1>1, <1>2 DEF Adds
  <2> QED BY <1>2, <2>1
<1>5. CASE new.rest = 0
  <2>1. d.canc = o.canc + Rest(o)
    BY <1>1, <1>2, <1>5 DEF Lives
  <2>2. <<c, d>>[1] = c /\ <<c, d>>[2] = d
    OBVIOUS
  <2>3. AtGone(id, o, <<c, d>>, ~ ClosedBy(es), F)
    BY <1>1, <1>2, <1>5, <2>1, <2>2 DEF AtGone
  <2> QED BY <1>3, <1>4, <1>5, <2>3 DEF At
<1>6. CASE new.rest # 0
  <2>1. <<c>>[1] = c
    OBVIOUS
  <2>2. AtLive(id, o, "SH", <<c>>, ~ ClosedBy(es), after, F)
    BY <1>1, <1>2, <1>6, <2>1 DEF AtLive
  <2> QED BY <1>3, <1>4, <1>6, <2>2 DEF At
<1> QED BY <1>5, <1>6

\* The event that closes a live order with the session.
Closing(st) == <<Event("Closed", "SessionClose", [st EXCEPT !.canc = @ + st.rest, !.rest = 0])>>

\* What still rests at the close counts as cancelled.
LEMMA ClosingIs ==
    ASSUME NEW id, NEW o \in Lives, NEW m, NEW st \in States, IsLive(id, o, m, st, {})
    PROVE  \E d : /\ Closing(st) = <<d>> /\ d.kind = "Closed"
                  /\ d.imm = o.imm /\ d.pas = o.pas /\ d.canc = o.canc + Rest(o)
                  /\ Adds(d)
<1> DEFINE new == [st EXCEPT !.canc = @ + st.rest, !.rest = 0]
           d == Event("Closed", "SessionClose", new)
<1>1. Closing(st) = <<d>>
  BY DEF Closing
<1>2. \A part : Flying({}, part, id) = 0
  <2>1. \A part : About({}, part, id) = {}
    BY DEF About
  <2> QED BY <2>1, SharesEmpty DEF Flying
<1>3. st.imm = o.imm /\ st.pas = o.pas /\ st.canc = o.canc
  BY <1>2 DEF IsLive
<1>4. st.orig = o.qty /\ st.rest = o.qty - (o.imm + o.pas + o.canc)
  BY <1>3 DEF IsLive
<1>5. new.imm = o.imm /\ new.pas = o.pas /\ new.canc = o.canc + st.rest /\ new.orig = o.qty /\ new.rest = 0
  BY <1>3, <1>4 DEF States
<1>6. d.kind = "Closed" /\ d.imm = o.imm /\ d.pas = o.pas /\ d.canc = o.canc + st.rest
      /\ d.orig = o.qty /\ d.rest = 0
  BY <1>5 DEF Event
<1>7. st.rest = Rest(o) /\ o.qty = o.imm + o.pas + (o.canc + st.rest) + 0
  BY <1>4 DEF Rest, Lives
<1> HIDE DEF d
<1>8. Adds(d)
  BY <1>6, <1>7 DEF Adds
<1> QED BY <1>1, <1>6, <1>7, <1>8

\* At the end of the session a live order is closed.
LEMMA CloseLive ==
    ASSUME NEW id, NEW o \in Lives, NEW m, NEW bt, NEW st \in States, NEW life, NEW clk,
           AtLive(id, o, m, life, TRUE, st, {}), NEW after \in States, NEW es, es = Closing(st)
    PROVE  /\ At(id, o, m, bt, life \o Life(es), FALSE, after, {}, clk)
           /\ \A i \in 1..Len(es) : Adds(es[i])
<1>1. IsLive(id, o, m, st, {}) /\ life = <<life[1]>> /\ life[1].kind = "Confirmed" /\ life[1].orig = o.qty
  BY DEF AtLive
<1>2. PICK d : /\ Closing(st) = <<d>> /\ d.kind = "Closed"
               /\ d.imm = o.imm /\ d.pas = o.pas /\ d.canc = o.canc + Rest(o)
               /\ Adds(d)
  BY <1>1, ClosingIs
<1> DEFINE c == life[1]
<1>3. es = <<d>> /\ Len(es) = 1 /\ es[1] = d /\ DOMAIN es = {1}
  BY <1>2
<1>4. Life(es) = <<d>>
  BY <1>2, <1>3 DEF Life
<1>5. life \o Life(es) = <<c, d>>
  BY <1>1, <1>4, ThenOne
<1>6. <<c, d>>[1] = c /\ <<c, d>>[2] = d
  OBVIOUS
<1>7. AtGone(id, o, <<c, d>>, FALSE, {})
  BY <1>1, <1>2, <1>6 DEF AtGone, IsOver
<1>8. At(id, o, m, bt, life \o Life(es), FALSE, after, {}, clk)
  BY <1>5, <1>7 DEF At
<1>9. \A i \in 1..Len(es) : Adds(es[i])
  BY <1>2, <1>3
<1> QED BY <1>8, <1>9

\* At the end of the session a pending order is confirmed and closed.
LEMMA CloseWaiting ==
    ASSUME NEW id, NEW o \in Lives, NEW bt, NEW st \in States, NEW clk,
           IsWaiting(id, o, "SH", bt, st, {}), Within(o),
           NEW new, new = FinalState(st), NEW after \in States,
           NEW es, es = IF ClosedBy(FinalEvents(new)) THEN FinalEvents(new) ELSE FinalEvents(new) \o Closing(new)
    PROVE  /\ At(id, o, "SH", bt, <<>> \o Life(es), FALSE, after, {}, clk)
           /\ \A i \in 1..Len(es) : Adds(es[i])
<1>1. About({}, "entry", id) = {} /\ About({}, "imm", id) = {} /\ Records({})
  BY FS_EmptySet DEF About, Records
<1>2. /\ new \in States /\ new.orig = o.qty /\ new.rest \in Nat
      /\ Adds(new)
      /\ new.rest # 0 => IsLive(id, o, "SH", new, {})
  BY <1>1, FinalIs
<1>3. PICK c, e :
             /\ FinalEvents(new) = IF new.rest = 0 THEN <<c, e>> ELSE <<c>>
             /\ c.kind = "Confirmed" /\ e.kind = "Closed"
             /\ c.orig = new.orig /\ c.imm = new.imm /\ c.pas = new.pas /\ c.canc = new.canc /\ c.rest = new.rest
             /\ e.orig = new.orig /\ e.imm = new.imm /\ e.pas = new.pas /\ e.canc = new.canc /\ e.rest = new.rest
             /\ (ClosedBy(FinalEvents(new)) <=> new.rest = 0) /\ Life(FinalEvents(new)) = FinalEvents(new)
             /\ <<>> \o FinalEvents(new) = FinalEvents(new)
             /\ \A i \in 1..Len(FinalEvents(new)) : FinalEvents(new)[i] \in {c, e}
  BY FinalEventsAre
<1>4. CASE new.rest = 0
  <2>1. es = FinalEvents(new) /\ ClosedBy(es) /\ (~ ClosedBy(es) => after = new)
    BY <1>3, <1>4
  <2>2. At(id, o, "SH", bt, <<>> \o Life(es), ~ ClosedBy(es), after, {}, clk)
    BY <1>1, <2>1, FinalAt
  <2>3. \A i \in 1..Len(es) : Adds(es[i])
    <3>1. \A i \in 1..Len(es) : es[i] \in {c, e}
      BY <1>3, <2>1
    <3>2. Adds(c) /\ Adds(e)
      BY <1>2, <1>3 DEF Adds
    <3> QED BY <3>1, <3>2
  <2> QED BY <2>1, <2>2, <2>3
<1>5. CASE new.rest # 0
  <2>1. PICK d : /\ Closing(new) = <<d>> /\ d.kind = "Closed"
                 /\ d.imm = o.imm /\ d.pas = o.pas /\ d.canc = o.canc + Rest(o)
                 /\ Adds(d)
    BY <1>2, <1>5, ClosingIs
  <2>2. es = <<c, d>>
    BY <1>3, <1>5, <2>1, ThenOne
  <2>3. /\ <<c, d>>[1] = c /\ <<c, d>>[2] = d /\ Len(<<c, d>>) = 2 /\ DOMAIN <<c, d>> = {1, 2}
        /\ <<>> \o <<c, d>> = <<c, d>>
    OBVIOUS
  <2>4. <<>> \o Life(es) = <<c, d>>
    BY <1>3, <2>2, <2>3 DEF Life
  <2>5. AtGone(id, o, <<c, d>>, FALSE, {})
    BY <1>2, <1>3, <2>1, <2>3 DEF AtGone, IsOver
  <2>6. \A i \in 1..Len(es) : Adds(es[i])
    <3>1. Adds(c)
      BY <1>2, <1>3 DEF Adds
    <3> QED BY <2>1, <2>2, <2>3, <3>1
  <2> QED BY <2>4, <2>5, <2>6 DEF At
<1> QED BY <1>4, <1>5

-----------------------------------------------------------------------------
(* What a handler does to an order that its record names.                    *)

\* The order id is at F, of which the handler takes r.
Situation(id, o, m, bt, life, in, st, F, r, clk) ==
    /\ o \in Lives /\ Within(o)
    /\ bt \in [biz : Nat, time : Nat \ {0}] /\ clk \in Nat
    /\ Records(F) /\ r \in F /\ clk <= r.time + Lag
    /\ \A s \in F : s.biz \in Nat /\ s.time \in Nat /\ Fits(s, id, o, m, bt)
    /\ \A s \in F : s.biz = r.biz => s = r
    /\ At(id, o, m, bt, life, in, st, F, clk)
    /\ Part(r, id) # "none"

\* The handler leaves new in the place of st, and emits es.
Handled(id, o, m, bt, life, in, st, F, r, clk, new, es) ==
    /\ new \in States
    /\ \A after \in States : (~ ClosedBy(es) => after = new)
         => At(id, o, m, bt, life \o Life(es), ~ ClosedBy(es), after, F \ {r}, clk)
    /\ st.scheduled # 0 => new.scheduled = st.scheduled
    /\ IF new.confirmed
       THEN /\ new.scheduled = 0 /\ new.orig = o.qty /\ ~ new.estimated /\ (m = "SH" => o.imm # o.qty)
            /\ Tells(es, o)
       ELSE es = <<>> /\ m = "SH"
    /\ in => st.confirmed = new.confirmed

\* A live order that gives up the shares of the record.
LEMMA HandledLive ==
    ASSUME NEW id, NEW o \in Lives, NEW m, NEW bt, NEW st, NEW F, NEW r \in F, NEW life, NEW in, NEW clk,
           Situation(id, o, m, bt, life, in, st, F, r, clk), AtLive(id, o, m, life, in, st, F),
           NEW new \in States, Took(new, st, Part(r, id), r.qty),
           NEW reason, NEW es, es = TakenFrom(new, reason)
    PROVE  Handled(id, o, m, bt, life, in, st, F, r, clk, new, es)
<1>1. Records(F) /\ Within(o) /\ Part(r, id) # "none"
  BY DEF Situation
<1>2. in /\ IsLive(id, o, m, st, F) /\ AtLive(id, o, m, life, TRUE, st, F)
  BY DEF AtLive
<1>3. /\ new.confirmed /\ ~ new.estimated /\ new.scheduled = 0 /\ new.orig = o.qty
      /\ st.confirmed /\ st.scheduled = 0
  BY <1>2 DEF IsLive, Took
<1>4. st.confirmed = new.confirmed
  BY <1>3 DEF Situation, At, States
<1>5. ASSUME NEW after \in States, ~ ClosedBy(es) => after = new
      PROVE  At(id, o, m, bt, life \o Life(es), ~ ClosedBy(es), after, F \ {r}, clk) /\ Tells(es, o)
  BY <1>1, <1>2, <1>5, LiveTaken
<1>6. m = "SH" => o.imm # o.qty
  <2> SUFFICES ASSUME m = "SH" PROVE o.imm # o.qty
    OBVIOUS
  <2>1. Flying(F, "imm", id) = 0
    BY <1>1, <1>2, AboutRecords DEF IsLive
  <2>2. /\ st.imm + 0 = o.imm /\ st.imm \in Nat /\ st.pas \in Nat /\ st.canc \in Nat
        /\ st.rest = o.qty - (st.imm + st.pas + st.canc) /\ st.rest > 0 /\ o.qty \in Nat
    BY <1>1, <1>2, <2>1 DEF IsLive, Lives
  <2> QED BY <2>2
<1>7. Tells(es, o)
  BY <1>5
<1>8. \A after \in States : (~ ClosedBy(es) => after = new)
         => At(id, o, m, bt, life \o Life(es), ~ ClosedBy(es), after, F \ {r}, clk)
  BY <1>5
<1> QED BY <1>3, <1>4, <1>6, <1>7, <1>8 DEF Handled

\* A pending order that has counted the record.
LEMMA HandledWaiting ==
    ASSUME NEW id, NEW o, NEW bt, NEW life, NEW in \in BOOLEAN, NEW st, NEW F, NEW r, NEW clk,
           Situation(id, o, "SH", bt, life, in, st, F, r, clk), AtWaiting(id, o, "SH", bt, life, in, st, F, clk),
           NEW new \in States, IsWaiting(id, o, "SH", bt, new, F \ {r}),
           new.maxTime = Larger(st.maxTime, r.time),
           new.scheduled = IF st.scheduled = 0 THEN new.maxTime ELSE st.scheduled
    PROVE  Handled(id, o, "SH", bt, life, in, st, F, r, clk, new, <<>>)
<1>1. /\ bt \in [biz : Nat, time : Nat \ {0}] /\ clk \in Nat /\ r.time \in Nat /\ bt.time <= r.time
      /\ clk <= r.time + Lag /\ Records(F) /\ r \in F
  BY DEF Situation, Fits
<1>2. life = <<>> /\ IsWaiting(id, o, "SH", bt, st, F)
      /\ IF in THEN IsPending(bt, st, clk) ELSE st = FreshState
  BY DEF AtWaiting
<1>3. IsPending(bt, new, clk)
  BY <1>1, <1>2, PendingTouched
<1>4. ~ ClosedBy(<<>>) /\ Life(<<>>) = <<>> /\ <<>> \o <<>> = <<>>
  BY DEF ClosedBy, Life
<1>5. At(id, o, "SH", bt, life \o Life(<<>>), ~ ClosedBy(<<>>), new, F \ {r}, clk)
  BY <1>2, <1>3, <1>4 DEF At, AtWaiting
<1>6. st.scheduled # 0 => new.scheduled = st.scheduled
  OBVIOUS
<1>7. ~ st.confirmed /\ ~ new.confirmed /\ st \in States
  BY <1>2 DEF IsWaiting, Situation, At
<1>8. st.confirmed = new.confirmed
  BY <1>7 DEF States
<1> QED BY <1>4, <1>5, <1>6, <1>7, <1>8 DEF Handled

\* The states that the handlers build: a record is noticed, and the heap entered.
LEMMA TouchedIs ==
    ASSUME NEW st \in States, NEW q, q.time \in Nat
    PROVE  LET t == Touched(st, q)
           IN  /\ t \in States /\ t.maxTime = Larger(st.maxTime, q.time)
               /\ t.confirmed = st.confirmed /\ t.estimated = st.estimated /\ t.hasA = st.hasA
               /\ t.hasIncoming = st.hasIncoming /\ t.aBiz = st.aBiz /\ t.aRest = st.aRest
               /\ t.scheduled = st.scheduled /\ t.frags = st.frags /\ t.orig = st.orig /\ t.imm = st.imm
               /\ t.pas = st.pas /\ t.canc = st.canc /\ t.rest = st.rest
<1>1. Larger(st.maxTime, q.time) \in Int
  BY DEF Larger, States
<1> DEFINE x == Larger(st.maxTime, q.time)
           t == [st EXCEPT !.maxTime = x]
<1>2. Touched(st, q) = t
  BY DEF Touched, States
<1> HIDE DEF x
<1>3. t \in States
  BY <1>1 DEF States, x
<1>4. /\ t.maxTime = x
      /\ t.confirmed = st.confirmed /\ t.estimated = st.estimated /\ t.hasA = st.hasA
      /\ t.hasIncoming = st.hasIncoming /\ t.aBiz = st.aBiz /\ t.aRest = st.aRest
      /\ t.scheduled = st.scheduled /\ t.frags = st.frags /\ t.orig = st.orig /\ t.imm = st.imm
      /\ t.pas = st.pas /\ t.canc = st.canc /\ t.rest = st.rest
  BY DEF States
<1> HIDE DEF t
<1> QED BY <1>2, <1>3, <1>4 DEF x

\* A pending order that is not in the heap enters it.
LEMMA ScheduledIs ==
    ASSUME NEW st \in States, ~ st.confirmed
    PROVE  LET t == Scheduled(st)
           IN  /\ t \in States /\ ~ t.confirmed /\ t.maxTime = st.maxTime
               /\ t.scheduled = IF st.scheduled = 0 THEN st.maxTime ELSE st.scheduled
               /\ t.hasA = st.hasA /\ t.hasIncoming = st.hasIncoming /\ t.aBiz = st.aBiz
               /\ t.aRest = st.aRest /\ t.frags = st.frags /\ t.canc = st.canc
<1> DEFINE t == [st EXCEPT !.scheduled = st.maxTime]
<1>1. /\ t \in States /\ ~ t.confirmed /\ t.maxTime = st.maxTime /\ t.scheduled = st.maxTime
      /\ t.hasA = st.hasA /\ t.hasIncoming = st.hasIncoming /\ t.aBiz = st.aBiz
      /\ t.aRest = st.aRest /\ t.frags = st.frags /\ t.canc = st.canc
  BY DEF States
<1> QED BY <1>1 DEF Scheduled

\* An order of which a record is on its way is not over; one whose announcement has come is live, in Shenzhen.
LEMMA NotOver ==
    ASSUME NEW id, NEW o, NEW m, NEW bt, NEW life, NEW in, NEW st, NEW F, NEW r, NEW clk,
           Situation(id, o, m, bt, life, in, st, F, r, clk)
    PROVE  /\ AtWaiting(id, o, m, bt, life, in, st, F, clk) \/ AtLive(id, o, m, life, in, st, F)
           /\ Part(r, id) = "entry" => AtWaiting(id, o, m, bt, life, in, st, F, clk)
           /\ m = "SZ" /\ About(F, "entry", id) = {} => AtLive(id, o, m, life, in, st, F)
<1>1. r \in F /\ Part(r, id) # "none" /\ At(id, o, m, bt, life, in, st, F, clk)
  BY DEF Situation
<1>2. ~ AtGone(id, o, life, in, F)
  BY <1>1 DEF AtGone, IsOver
<1>3. Part(r, id) = "entry" => ~ AtLive(id, o, m, life, in, st, F)
  BY <1>1 DEF AtLive, IsLive, About
<1>4. m = "SZ" /\ About(F, "entry", id) = {} => ~ AtWaiting(id, o, m, bt, life, in, st, F, clk)
  <2> SUFFICES ASSUME m = "SZ", About(F, "entry", id) = {}, AtWaiting(id, o, m, bt, life, in, st, F, clk)
               PROVE  FALSE
    OBVIOUS
  <2>1. st = FreshState /\ IsWaiting(id, o, m, bt, st, F)
    BY DEF AtWaiting
  <2>2. ~ st.hasA
    BY <2>1, FreshIs
  <2> QED BY <2>1, <2>2 DEF IsWaiting
<1> QED BY <1>1, <1>2, <1>3, <1>4 DEF At

\* OnShanghaiAdd.
LEMMA HandledAdd ==
    ASSUME NEW id, NEW o \in Lives, NEW bt, NEW life, NEW in \in BOOLEAN, NEW st, NEW F, NEW r \in F, NEW clk,
           Situation(id, o, "SH", bt, life, in, st, F, r, clk), r.kind = "A", r.id = id,
           NEW new, new = Scheduled([Touched(st, r) EXCEPT !.hasA = TRUE, !.aBiz = r.biz, !.aRest = r.qty])
    PROVE  Handled(id, o, "SH", bt, life, in, st, F, r, clk, new, <<>>)
<1>1. Part(r, id) = "entry"
  BY DEF Part
<1>2. AtWaiting(id, o, "SH", bt, life, in, st, F, clk)
  BY <1>1, NotOver
<1>3. /\ st \in States /\ ~ st.confirmed /\ IsWaiting(id, o, "SH", bt, st, F) /\ Records(F)
      /\ r.time \in Nat /\ r.biz \in Nat /\ r.qty \in Nat
      /\ \A s \in F : Fits(s, id, o, "SH", bt)
      /\ \A s \in F : s.biz = r.biz => s = r
  BY <1>2 DEF Situation, At, AtWaiting, IsWaiting, Records
<1> DEFINE t == Touched(st, r)
           u == [t EXCEPT !.hasA = TRUE, !.aBiz = r.biz, !.aRest = r.qty]
<1>4. /\ t \in States /\ t.maxTime = Larger(st.maxTime, r.time) /\ t.confirmed = st.confirmed
      /\ t.hasIncoming = st.hasIncoming /\ t.scheduled = st.scheduled /\ t.frags = st.frags /\ t.canc = st.canc
  BY <1>3, TouchedIs
<1> HIDE DEF t
<1>5. /\ u \in States /\ ~ u.confirmed /\ u.hasA /\ u.aBiz = r.biz /\ u.aRest = r.qty
      /\ u.maxTime = t.maxTime /\ u.hasIncoming = t.hasIncoming
      /\ u.scheduled = t.scheduled /\ u.frags = t.frags /\ u.canc = t.canc
  <2> DEFINE a == r.biz
             q == r.qty
             v == [t EXCEPT !.aBiz = a, !.aRest = q]
  <2>1. u = [v EXCEPT !.hasA = TRUE]
    BY <1>4 DEF States
  <2>2. a \in Int /\ q \in Int /\ t \in States
    BY <1>3, <1>4
  <2> HIDE DEF a, q
  <2>3. /\ v \in States /\ v.confirmed = t.confirmed /\ v.aBiz = a /\ v.aRest = q
        /\ v.maxTime = t.maxTime /\ v.hasIncoming = t.hasIncoming
        /\ v.scheduled = t.scheduled /\ v.frags = t.frags /\ v.canc = t.canc
    BY <2>2 DEF States
  <2>4. /\ v \in States /\ v.confirmed = t.confirmed /\ v.aBiz = r.biz /\ v.aRest = r.qty
        /\ v.maxTime = t.maxTime /\ v.hasIncoming = t.hasIncoming
        /\ v.scheduled = t.scheduled /\ v.frags = t.frags /\ v.canc = t.canc
    BY <2>3 DEF a, q
  <2> HIDE DEF v, u
  <2>5. /\ u \in States /\ u.confirmed = v.confirmed /\ u.hasA /\ u.aBiz = v.aBiz /\ u.aRest = v.aRest
        /\ u.maxTime = v.maxTime /\ u.hasIncoming = v.hasIncoming
        /\ u.scheduled = v.scheduled /\ u.frags = v.frags /\ u.canc = v.canc
    BY <2>1, <2>4 DEF States
  <2> QED BY <1>3, <1>4, <2>4, <2>5
<1>6. new = Scheduled(u)
  BY DEF t
<1> HIDE DEF u
<1>7. /\ new \in States /\ ~ new.confirmed /\ new.maxTime = u.maxTime
      /\ new.scheduled = IF u.scheduled = 0 THEN u.maxTime ELSE u.scheduled
      /\ new.hasA = u.hasA /\ new.hasIncoming = u.hasIncoming /\ new.aBiz = u.aBiz
      /\ new.aRest = u.aRest /\ new.frags = u.frags /\ new.canc = u.canc
  <2>1. u \in States /\ ~ u.confirmed
    BY <1>5
  <2> QED BY <1>6, <2>1, ScheduledIs
<1>8. /\ ~ new.confirmed /\ new.hasA /\ new.hasIncoming = st.hasIncoming /\ new.aBiz = r.biz
      /\ new.aRest = r.qty /\ new.frags = st.frags /\ new.canc = st.canc
      /\ new.maxTime = Larger(st.maxTime, r.time)
      /\ new.scheduled = IF st.scheduled = 0 THEN new.maxTime ELSE st.scheduled
  BY <1>4, <1>5, <1>7
<1>9. IsWaiting(id, o, "SH", bt, new, F \ {r})
  BY <1>1, <1>3, <1>8, WaitingAdd
<1> QED BY <1>2, <1>7, <1>8, <1>9, HandledWaiting

\* OnShanghaiDelete of a pending order.
LEMMA HandledDeletePending ==
    ASSUME NEW id, NEW o \in Lives, NEW bt, NEW life, NEW in \in BOOLEAN, NEW st, NEW F, NEW r \in F, NEW clk,
           Situation(id, o, "SH", bt, life, in, st, F, r, clk), r.kind = "D", r.id = id, ~ st.confirmed,
           NEW new, new = Scheduled([Touched(st, r) EXCEPT !.canc = @ + r.qty])
    PROVE  Handled(id, o, "SH", bt, life, in, st, F, r, clk, new, <<>>)
<1>1. Part(r, id) = "canc"
  BY DEF Part
<1>2. AtWaiting(id, o, "SH", bt, life, in, st, F, clk)
  BY NotOver DEF AtLive, IsLive
<1>3. /\ st \in States /\ ~ st.confirmed /\ IsWaiting(id, o, "SH", bt, st, F) /\ Records(F)
      /\ r.time \in Nat /\ r.qty \in Nat /\ st.canc \in Nat
  BY <1>2 DEF Situation, At, AtWaiting, IsWaiting, Records
<1> DEFINE t == Touched(st, r)
           u == [t EXCEPT !.canc = @ + r.qty]
<1>4. /\ t \in States /\ t.maxTime = Larger(st.maxTime, r.time) /\ t.confirmed = st.confirmed
      /\ t.hasA = st.hasA /\ t.hasIncoming = st.hasIncoming /\ t.aBiz = st.aBiz /\ t.aRest = st.aRest
      /\ t.scheduled = st.scheduled /\ t.frags = st.frags /\ t.canc = st.canc
  BY <1>3, TouchedIs
<1> HIDE DEF t
<1>5. /\ u \in States /\ ~ u.confirmed /\ u.hasA = t.hasA /\ u.aBiz = t.aBiz /\ u.aRest = t.aRest
      /\ u.maxTime = t.maxTime /\ u.hasIncoming = t.hasIncoming
      /\ u.scheduled = t.scheduled /\ u.frags = t.frags /\ u.canc = t.canc + r.qty
  BY <1>3, <1>4 DEF States
<1>6. new = Scheduled(u)
  BY DEF t
<1> HIDE DEF u
<1>7. /\ new \in States /\ ~ new.confirmed /\ new.maxTime = u.maxTime
      /\ new.scheduled = IF u.scheduled = 0 THEN u.maxTime ELSE u.scheduled
      /\ new.hasA = u.hasA /\ new.hasIncoming = u.hasIncoming /\ new.aBiz = u.aBiz
      /\ new.aRest = u.aRest /\ new.frags = u.frags /\ new.canc = u.canc
  BY <1>5, <1>6, ScheduledIs
<1>8. /\ ~ new.confirmed /\ new.hasA = st.hasA /\ new.hasIncoming = st.hasIncoming /\ new.aBiz = st.aBiz
      /\ new.aRest = st.aRest /\ new.frags = st.frags /\ new.canc = st.canc + r.qty
      /\ new.maxTime = Larger(st.maxTime, r.time)
      /\ new.scheduled = IF st.scheduled = 0 THEN new.maxTime ELSE st.scheduled
  BY <1>4, <1>5, <1>7
<1>9. IsWaiting(id, o, "SH", bt, new, F \ {r})
  BY <1>1, <1>3, <1>8, WaitingDelete
<1> QED BY <1>2, <1>7, <1>8, <1>9, HandledWaiting

WithFills(st, i, p, c, x) == [st EXCEPT !.imm = i, !.pas = p, !.canc = c, !.rest = x]

\* Another account of an order.
LEMMA WithFillsIs ==
    ASSUME NEW st \in States, NEW i \in Int, NEW p \in Int, NEW c \in Int, NEW x \in Int,
           NEW new, new = WithFills(st, i, p, c, x)
    PROVE  /\ new \in States /\ new.confirmed = st.confirmed /\ new.estimated = st.estimated
           /\ new.scheduled = st.scheduled /\ new.orig = st.orig /\ new.imm = i
           /\ new.pas = p /\ new.canc = c /\ new.rest = x
<1> DEFINE v == [st EXCEPT !.imm = i, !.pas = p]
<1>1. new = [v EXCEPT !.canc = c, !.rest = x]
  BY DEF WithFills, States
<1>2. /\ v \in States /\ v.confirmed = st.confirmed /\ v.estimated = st.estimated
      /\ v.scheduled = st.scheduled /\ v.orig = st.orig /\ v.imm = i /\ v.pas = p
  BY DEF States
<1> HIDE DEF v
<1>3. /\ new \in States /\ new.confirmed = v.confirmed /\ new.estimated = v.estimated
      /\ new.scheduled = v.scheduled /\ new.orig = v.orig /\ new.imm = v.imm /\ new.pas = v.pas
      /\ new.canc = c /\ new.rest = x
  BY <1>1, <1>2 DEF States
<1> QED BY <1>2, <1>3

Cancelled(t, q) == [t EXCEPT !.canc = @ + Smaller(t.rest, q), !.rest = @ - Smaller(t.rest, q)]

SameAccount(t, st) ==
    /\ t.confirmed = st.confirmed /\ t.estimated = st.estimated
    /\ t.scheduled = st.scheduled /\ t.orig = st.orig /\ t.imm = st.imm
    /\ t.pas = st.pas /\ t.canc = st.canc /\ t.rest = st.rest

\* A cancel of a live order: t is its state, or the state with the record noticed.
LEMMA HandledCancel ==
    ASSUME NEW id, NEW o \in Lives, NEW m, NEW bt, NEW st, NEW F, NEW r \in F, NEW life, NEW in, NEW clk,
           Situation(id, o, m, bt, life, in, st, F, r, clk), AtLive(id, o, m, life, in, st, F),
           r.kind \in {"D", "cancel"}, r.id = id, NEW t \in States, SameAccount(t, st),
           NEW new, new = Cancelled(t, r.qty),
           NEW es, es = TakenFrom(new, "Cancelled")
    PROVE  Handled(id, o, m, bt, life, in, st, F, r, clk, new, es)
<1>1. Part(r, id) = "canc"
  BY DEF Part
<1>2. /\ st \in States /\ Records(F) /\ Within(o) /\ r.time \in Nat /\ Part(r, id) # "none"
      /\ IsLive(id, o, m, st, F)
  BY DEF Situation, At, AtLive
<1>3. r.qty <= st.rest /\ r.qty \in Nat \ {0} /\ st.rest \in Nat
  BY <1>2, LiveRest
<1>4. /\ st.confirmed /\ ~ st.estimated /\ st.scheduled = 0 /\ st.imm \in Nat /\ st.pas \in Nat /\ st.canc \in Nat
  BY <1>2 DEF IsLive
<1>5. /\ t \in States /\ t.confirmed = st.confirmed /\ t.estimated = st.estimated
      /\ t.scheduled = st.scheduled /\ t.orig = st.orig /\ t.imm = st.imm
      /\ t.pas = st.pas /\ t.canc = st.canc /\ t.rest = st.rest
  BY DEF SameAccount
<1>6. Smaller(t.rest, r.qty) = r.qty
  BY <1>3, <1>5 DEF Smaller
<1>7. /\ new \in States /\ new.confirmed = t.confirmed /\ new.estimated = t.estimated
      /\ new.scheduled = t.scheduled /\ new.orig = t.orig /\ new.imm = t.imm
      /\ new.pas = t.pas /\ new.canc = t.canc + r.qty /\ new.rest = t.rest - r.qty
  <2> DEFINE c == t.canc + r.qty
             x == t.rest - r.qty
  <2>1. new = WithFills(t, t.imm, t.pas, c, x)
    BY <1>5, <1>6 DEF WithFills, States, Cancelled
  <2>2. t.imm \in Int /\ t.pas \in Int /\ c \in Int /\ x \in Int
    BY <1>3, <1>4, <1>5
  <2> HIDE DEF c, x
  <2>3. /\ new \in States /\ new.confirmed = t.confirmed /\ new.estimated = t.estimated
        /\ new.scheduled = t.scheduled /\ new.orig = t.orig /\ new.imm = t.imm
        /\ new.pas = t.pas /\ new.canc = c /\ new.rest = x
    BY <1>5, <2>1, <2>2, WithFillsIs
  <2> QED BY <2>3 DEF c, x
<1>8. Took(new, st, Part(r, id), r.qty)
  <2>1. st.imm + 0 = st.imm /\ st.pas + 0 = st.pas
    BY <1>4
  <2> QED BY <1>1, <1>4, <1>5, <1>7, <2>1 DEF Took
<1> QED BY <1>7, <1>8, HandledLive

\* A trade of a live order, counted as the immediate or the passive fill that it is.
LEMMA HandledTradeLive ==
    ASSUME NEW id, NEW o \in Lives, NEW m, NEW bt, NEW st, NEW F, NEW r \in F, NEW life, NEW in, NEW clk,
           Situation(id, o, m, bt, life, in, st, F, r, clk), AtLive(id, o, m, life, in, st, F),
           r.kind = "trade", id \in {r.buy, r.sell},
           NEW new, \/ m = "SH" /\ new = ShanghaiSide(Touched(st, r), r, id)
                    \/ m = "SZ" /\ new = ShenzhenSide(st, r, id),
           NEW es, es = TakenFrom(new, "FilledAfterResting")
    PROVE  Handled(id, o, m, bt, life, in, st, F, r, clk, new, es)
<1>1. Part(r, id) = IF Incoming(r, id) THEN "imm" ELSE "pas"
  BY DEF Part
<1>2. /\ st \in States /\ Records(F) /\ Within(o) /\ r.time \in Nat /\ Part(r, id) # "none"
      /\ IsLive(id, o, m, st, F)
  BY DEF Situation, At, AtLive
<1>3. r.qty <= st.rest /\ r.qty \in Nat \ {0} /\ st.rest \in Nat /\ (m = "SH" => Part(r, id) # "imm")
  BY <1>2, LiveRest
<1>4. /\ st.confirmed /\ ~ st.estimated /\ st.scheduled = 0 /\ st.imm \in Nat /\ st.pas \in Nat /\ st.canc \in Nat
  BY <1>2 DEF IsLive
<1>5. CASE m = "SH"
  <2> DEFINE t == Touched(st, r)
  <2>1. /\ t \in States /\ t.confirmed = st.confirmed /\ t.estimated = st.estimated
        /\ t.scheduled = st.scheduled /\ t.orig = st.orig /\ t.imm = st.imm
        /\ t.pas = st.pas /\ t.canc = st.canc /\ t.rest = st.rest
    BY <1>2, TouchedIs
  <2>2. new = ShanghaiSide(t, r, id)
    BY <1>5
  <2> HIDE DEF t
  <2>3. Smaller(t.rest, r.qty) = r.qty
    BY <1>3, <2>1 DEF Smaller
  <2>4. new = [t EXCEPT !.pas = @ + r.qty, !.rest = @ - r.qty]
    BY <1>4, <2>1, <2>2, <2>3 DEF ShanghaiSide
  <2>5. /\ new \in States /\ new.confirmed = t.confirmed /\ new.estimated = t.estimated
        /\ new.scheduled = t.scheduled /\ new.orig = t.orig /\ new.imm = t.imm
        /\ new.pas = t.pas + r.qty /\ new.canc = t.canc /\ new.rest = t.rest - r.qty
    <3> DEFINE p == t.pas + r.qty
               x == t.rest - r.qty
    <3>1. new = WithFills(t, t.imm, p, t.canc, x)
      BY <2>1, <2>4 DEF WithFills, States
    <3>2. t.imm \in Int /\ p \in Int /\ t.canc \in Int /\ x \in Int
      BY <1>3, <1>4, <2>1
    <3> HIDE DEF p, x
    <3>3. /\ new \in States /\ new.confirmed = t.confirmed /\ new.estimated = t.estimated
          /\ new.scheduled = t.scheduled /\ new.orig = t.orig /\ new.imm = t.imm
          /\ new.pas = p /\ new.canc = t.canc /\ new.rest = x
      BY <2>1, <3>1, <3>2, WithFillsIs
    <3> QED BY <3>3 DEF p, x
  <2>6. Part(r, id) = "pas"
    BY <1>1, <1>3, <1>5
  <2>7. Took(new, st, Part(r, id), r.qty)
    BY <1>3, <1>4, <2>1, <2>5, <2>6 DEF Took
  <2> QED BY <2>5, <2>7, HandledLive
<1>6. CASE m = "SZ"
  <2> DEFINE i == IF Incoming(r, id) THEN st.imm + r.qty ELSE st.imm
             p == IF Incoming(r, id) THEN st.pas ELSE st.pas + r.qty
  <2>1. Larger(0, st.rest - r.qty) = st.rest - r.qty
    BY <1>3 DEF Larger
  <2>2. new = [st EXCEPT !.imm = i, !.pas = p, !.rest = st.rest - r.qty]
    BY <1>2, <1>6, <2>1 DEF ShenzhenSide, States
  <2>3. i \in Int /\ p \in Int /\ st.rest - r.qty \in Int
    BY <1>3, <1>4
  <2>4. /\ i = st.imm + IF Part(r, id) = "imm" THEN r.qty ELSE 0
        /\ p = st.pas + IF Part(r, id) = "pas" THEN r.qty ELSE 0
    BY <1>1, <1>3, <1>4
  <2> HIDE DEF i, p
  <2>5. /\ new \in States /\ new.confirmed = st.confirmed /\ new.estimated = st.estimated
        /\ new.scheduled = st.scheduled /\ new.orig = st.orig /\ new.imm = i
        /\ new.pas = p /\ new.canc = st.canc /\ new.rest = st.rest - r.qty
    BY <1>2, <2>2, <2>3 DEF States
  <2>6. st.canc = st.canc + IF Part(r, id) = "canc" THEN r.qty ELSE 0
    BY <1>1, <1>4
  <2>7. Took(new, st, Part(r, id), r.qty)
    BY <1>4, <2>4, <2>5, <2>6 DEF Took
  <2> QED BY <2>5, <2>7, HandledLive
<1> QED BY <1>5, <1>6

\* A trade of a pending order.
LEMMA HandledTradePending ==
    ASSUME NEW id, NEW o \in Lives, NEW bt, NEW life, NEW in \in BOOLEAN, NEW st, NEW F, NEW r \in F, NEW clk,
           Situation(id, o, "SH", bt, life, in, st, F, r, clk), r.kind = "trade", id \in {r.buy, r.sell},
           ~ st.confirmed, NEW new, new = ShanghaiSide(Touched(st, r), r, id)
    PROVE  Handled(id, o, "SH", bt, life, in, st, F, r, clk, new, <<>>)
<1>1. AtWaiting(id, o, "SH", bt, life, in, st, F, clk)
  BY NotOver DEF AtLive, IsLive
<1>2. /\ st \in States /\ IsWaiting(id, o, "SH", bt, st, F) /\ Records(F) /\ Part(r, id) # "none"
      /\ bt \in [biz : Nat, time : Nat \ {0}]
      /\ r.time \in Nat /\ r.biz \in Nat /\ r.qty \in Nat \ {0}
      /\ Fits(r, id, o, "SH", bt)
      /\ \A s \in F : s.biz = r.biz => s = r
  BY <1>1 DEF Situation, At, AtWaiting, Records
<1> DEFINE t == Touched(st, r)
           inc == Incoming(r, id)
           f == [biz |-> r.biz, vol |-> r.qty, incoming |-> inc]
           u == [t EXCEPT !.frags = @ \cup {f}, !.hasIncoming = @ \/ inc]
<1>3. /\ t \in States /\ t.maxTime = Larger(st.maxTime, r.time) /\ t.confirmed = st.confirmed
      /\ t.hasA = st.hasA /\ t.hasIncoming = st.hasIncoming /\ t.aBiz = st.aBiz /\ t.aRest = st.aRest
      /\ t.scheduled = st.scheduled /\ t.frags = st.frags /\ t.canc = st.canc
  BY <1>2, TouchedIs
<1>4. new = Scheduled(u)
  BY <1>3 DEF ShanghaiSide
<1>5. inc \in BOOLEAN
  BY DEF Incoming
<1>6. f.biz = r.biz /\ f.vol = r.qty /\ f.incoming = inc /\ f \in [biz : Nat, vol : Nat \ {0}, incoming : BOOLEAN]
  BY <1>2, <1>5
<1> HIDE DEF t, inc, f
<1>7. /\ u \in States /\ ~ u.confirmed /\ u.hasA = t.hasA /\ u.aBiz = t.aBiz /\ u.aRest = t.aRest
      /\ u.maxTime = t.maxTime /\ u.hasIncoming = (t.hasIncoming \/ inc)
      /\ u.scheduled = t.scheduled /\ u.frags = t.frags \cup {f} /\ u.canc = t.canc
  <2> DEFINE g == t.frags \cup {f}
             h == t.hasIncoming \/ inc
             v == [t EXCEPT !.frags = g]
  <2>1. g \in SUBSET [biz : Nat, vol : Nat \ {0}, incoming : BOOLEAN] /\ h \in BOOLEAN
    BY <1>3, <1>5, <1>6 DEF States
  <2>2. u = [v EXCEPT !.hasIncoming = h]
    BY <1>3 DEF States
  <2> HIDE DEF g, h
  <2>3. /\ v \in States /\ v.confirmed = t.confirmed /\ v.hasA = t.hasA /\ v.aBiz = t.aBiz /\ v.aRest = t.aRest
        /\ v.maxTime = t.maxTime /\ v.scheduled = t.scheduled /\ v.frags = g /\ v.canc = t.canc
    BY <1>3, <2>1 DEF States
  <2> HIDE DEF v, u
  <2>4. /\ u \in States /\ u.confirmed = v.confirmed /\ u.hasA = v.hasA /\ u.aBiz = v.aBiz /\ u.aRest = v.aRest
        /\ u.maxTime = v.maxTime /\ u.hasIncoming = h
        /\ u.scheduled = v.scheduled /\ u.frags = v.frags /\ u.canc = v.canc
    BY <2>1, <2>2, <2>3 DEF States
  <2> QED BY <1>3, <2>3, <2>4 DEF g, h
<1> HIDE DEF u
<1>8. /\ new \in States /\ ~ new.confirmed /\ new.maxTime = u.maxTime
      /\ new.scheduled = IF u.scheduled = 0 THEN u.maxTime ELSE u.scheduled
      /\ new.hasA = u.hasA /\ new.hasIncoming = u.hasIncoming /\ new.aBiz = u.aBiz
      /\ new.aRest = u.aRest /\ new.frags = u.frags /\ new.canc = u.canc
  BY <1>4, <1>7, ScheduledIs
<1>9. /\ ~ new.confirmed /\ new.hasA = st.hasA /\ new.hasIncoming = (st.hasIncoming \/ inc)
      /\ new.aBiz = st.aBiz /\ new.aRest = st.aRest /\ new.frags = st.frags \cup {f} /\ new.canc = st.canc
      /\ new.maxTime = Larger(st.maxTime, r.time)
      /\ new.scheduled = IF st.scheduled = 0 THEN new.maxTime ELSE st.scheduled
  BY <1>3, <1>7, <1>8
<1>10. IsWaiting(id, o, "SH", bt, new, F \ {r})
  BY <1>2, <1>6, <1>9, WaitingTrade DEF inc
<1> QED BY <1>1, <1>8, <1>9, <1>10, HandledWaiting

Announced(st, q) == [st EXCEPT !.confirmed = TRUE, !.orig = q, !.rest = q]
Confirming(st) == <<Event("Confirmed", "None", st)>>


\* OnShenzhenOrder.
LEMMA HandledOrder ==
    ASSUME NEW id, NEW o \in Lives, NEW bt, NEW life, NEW in \in BOOLEAN, NEW st, NEW F, NEW r \in F, NEW clk,
           Situation(id, o, "SZ", bt, life, in, st, F, r, clk), r.kind = "order", r.id = id,
           NEW new, new = Announced(st, r.qty),
           NEW es, es = Confirming(new)
    PROVE  Handled(id, o, "SZ", bt, life, in, st, F, r, clk, new, es) /\ ~ ClosedBy(es) /\ ~ in
<1>1. /\ Part(r, id) = "entry" /\ Records(F) /\ Within(o) /\ st \in States
      /\ \A s \in F : Fits(s, id, o, "SZ", bt)
      /\ \A s \in F : s.biz = r.biz => s = r
  BY DEF Situation, At, Part
<1>2. AtWaiting(id, o, "SZ", bt, life, in, st, F, clk)
  BY <1>1, NotOver
<1>3. life = <<>> /\ ~ in /\ st = FreshState /\ IsWaiting(id, o, "SZ", bt, FreshState, F)
  BY <1>2 DEF AtWaiting
<1>4. r.qty = o.qty /\ r.biz = bt.biz /\ o.qty \in Nat \ {0}
  BY <1>1 DEF Fits, Lives
<1>5. /\ new.confirmed /\ ~ new.estimated /\ new.scheduled = 0 /\ new.orig = o.qty /\ new.rest = o.qty
      /\ new.imm = 0 /\ new.pas = 0 /\ new.canc = 0
  BY <1>3, <1>4 DEF FreshState, Announced
<1>6. About(F \ {r}, "entry", id) = {}
  BY <1>1, <1>4 DEF Fits, About
<1>7. Flying(F, "imm", id) = o.imm /\ Flying(F, "pas", id) = o.pas /\ Flying(F, "canc", id) = o.canc
  <2>1. /\ 0 + Flying(F, "imm", id) = o.imm /\ 0 + Flying(F, "pas", id) = o.pas
        /\ 0 + Flying(F, "canc", id) = o.canc
    <3>1. IsWaiting(id, o, "SZ", bt, FreshState, F)
      BY <1>3
    <3> QED BY <3>1, FreshIs DEF IsWaiting
  <2>2. Flying(F, "imm", id) \in Nat /\ Flying(F, "pas", id) \in Nat /\ Flying(F, "canc", id) \in Nat
    BY <1>1, AboutRecords
  <2> QED BY <2>1, <2>2
<1>8. /\ Flying(F \ {r}, "imm", id) = o.imm /\ Flying(F \ {r}, "pas", id) = o.pas
      /\ Flying(F \ {r}, "canc", id) = o.canc
  <2>1. Takes(F, r, id)
    BY <1>1, FlyingTakes
  <2> QED BY <1>1, <1>7, <2>1 DEF Takes
<1>9. IsLive(id, o, "SZ", new, F \ {r})
  <2>1. /\ 0 + o.imm = o.imm /\ 0 + o.pas = o.pas /\ 0 + o.canc = o.canc
        /\ o.qty = o.qty - (0 + 0 + 0) /\ o.qty > 0
    BY <1>4 DEF Lives
  <2>2. /\ new.imm + Flying(F \ {r}, "imm", id) = o.imm
        /\ new.pas + Flying(F \ {r}, "pas", id) = o.pas
        /\ new.canc + Flying(F \ {r}, "canc", id) = o.canc
    BY <1>5, <1>8, <2>1
  <2>3. new.rest = o.qty - (new.imm + new.pas + new.canc) /\ new.rest > 0
    BY <1>5, <2>1
  <2>4. new.imm \in Nat /\ new.pas \in Nat /\ new.canc \in Nat
    BY <1>5
  <2> QED BY <1>5, <1>6, <2>2, <2>3, <2>4 DEF IsLive
<1> DEFINE e == Event("Confirmed", "None", new)
<1>10. /\ e.kind = "Confirmed" /\ e.orig = o.qty /\ e.imm = 0 /\ e.pas = 0 /\ e.canc = 0 /\ e.rest = o.qty
  BY <1>5 DEF Event
<1>11. ~ e.estimated
  BY <1>5 DEF Event
<1>12. es = <<e>>
  BY DEF Confirming
<1> HIDE DEF e
<1>13. es # <<>> /\ Len(es) = 1 /\ es[1] = e /\ DOMAIN es = {1} /\ <<>> \o es = es
  BY <1>12
<1>14. ~ ClosedBy(es) /\ Life(es) = es
  BY <1>10, <1>13 DEF ClosedBy, Life
<1>15. new \in States
  <2>1. new = [FreshState EXCEPT !.confirmed = TRUE, !.orig = o.qty, !.rest = o.qty] /\ o.qty \in Int
    BY <1>3, <1>4 DEF Announced
  <2> QED BY <2>1, FreshIs DEF States
<1>16. AtLive(id, o, "SZ", life \o Life(es), ~ ClosedBy(es), new, F \ {r})
  <2>1. life \o Life(es) = <<e>> /\ <<e>>[1] = e
    BY <1>3, <1>12, <1>13, <1>14
  <2> QED BY <1>9, <1>10, <1>14, <2>1 DEF AtLive
<1>17. Tells(es, o)
  BY <1>4, <1>5, <1>10, <1>13, <1>11 DEF Tells, Adds
<1>18. \A after \in States : (~ ClosedBy(es) => after = new)
         => At(id, o, "SZ", bt, life \o Life(es), ~ ClosedBy(es), after, F \ {r}, clk)
  BY <1>14, <1>15, <1>16 DEF At
<1>19. st.scheduled = 0
  BY <1>3, FreshIs
<1> QED BY <1>3, <1>5, <1>14, <1>15, <1>17, <1>18, <1>19 DEF Handled

-----------------------------------------------------------------------------
(* What a handler does to the whole state.                                   *)

\* A record tells of the orders that it names, and of no other.
LEMMA NamesPart ==
    ASSUME NEW r, NEW id
    PROVE  Part(r, id) # "none" <=> id \in Names(r)
BY DEF Part, Names

Core(b) == BookInv(b) /\ FlightInv(b) /\ StageInv /\ IdsInv(b) /\ HeapInv

Here(b, id, r) ==
    Situation(id, book[id], market, b[id], lives[id], id \in DOMAIN orders, StateOf(id), flight, r, clock)

Does(b, id, r, new, es) ==
    Handled(id, book[id], market, b[id], lives[id], id \in DOMAIN orders, StateOf(id), flight, r, clock, new, es)

\* The orders that a record names are known, and the record is news of them.
LEMMA Situations ==
    ASSUME NEW b, Core(b), NEW r \in flight, NEW id \in Names(r)
    PROVE  /\ Here(b, id, r) /\ id \in DOMAIN book /\ id \in Ids /\ book[id] \in Lives
           /\ StateOf(id) \in States
<1>1. id \in DOMAIN book
  BY DEF Core, FlightInv, Names
<1>2. Part(r, id) # "none"
  BY NamesPart
<1>3. id \in Ids /\ book[id] \in Lives /\ Within(book[id]) /\ b[id] \in [biz : Nat, time : Nat \ {0}]
  BY <1>1 DEF Core, BookInv
<1>4. clock \in Nat /\ clock <= r.time + Lag
  BY DEF Core, StageInv
<1>5. Records(flight) /\ \A s \in flight : s.biz \in Nat /\ s.time \in Nat /\ Fits(s, id, book[id], market, b[id])
  BY <1>1 DEF Core, FlightInv
<1>6. \A s \in flight : s.biz = r.biz => s = r
  BY DEF Core, FlightInv
<1>7. At(id, book[id], market, b[id], lives[id], id \in DOMAIN orders, StateOf(id), flight, clock)
  BY <1>1 DEF Core, IdsInv
<1>8. Here(b, id, r)
  BY <1>2, <1>3, <1>4, <1>5, <1>6, <1>7 DEF Here, Situation
<1>9. StateOf(id) \in States
  BY <1>7 DEF At
<1> QED BY <1>1, <1>3, <1>8, <1>9

\* A handler: what it leaves of the orders that the record names, and what it emits.
Applies(b, r, new, es) ==
    /\ DOMAIN new = Names(r) /\ es = [id \in Ids |-> es[id]]
    /\ \A id \in Names(r) : Does(b, id, r, new[id], es[id])
    /\ \A id \in Ids \ Names(r) : es[id] = <<>>

\* The rest of Deliver.
Taken(r) ==
    /\ flight' = flight \ {r}
    /\ lives' = [id \in Ids |-> lives[id] \o Life(events'[id])]
    /\ UNCHANGED <<market, book, biz, now, flagged, clock, ended>>

\* The states, the heap and the events after a handler.
LEMMA StoreIds ==
    ASSUME NEW b, Core(b), NEW r \in flight, NEW new, NEW es, Store(new, es), Applies(b, r, new, es), Taken(r)
    PROVE  /\ IdsInv(b)' /\ HeapInv' /\ Conservation' /\ Unconfirmed \subseteq Unconfirmed'
<1> DEFINE D == Names(r)
<1>1. /\ \A id \in D : Does(b, id, r, new[id], es[id]) /\ Here(b, id, r) /\ id \in DOMAIN book /\ id \in Ids
      /\ DOMAIN new = D
  BY Situations DEF Applies
<1>2. \A id \in Ids \ D : es[id] = <<>>
  BY DEF Applies
<1>3. DOMAIN orders \subseteq DOMAIN book /\ DOMAIN book \subseteq Ids
  BY DEF Core, BookInv, IdsInv
<1>4. ~ ClosedBy(<<>>)
  BY DEF ClosedBy
<1> DEFINE In(id) == id \in (DOMAIN orders \cup D) /\ ~ ClosedBy(es[id])
<1>5. /\ \A id : id \in DOMAIN orders' <=> In(id)
      /\ \A id \in DOMAIN orders' : orders'[id] = IF id \in D THEN new[id] ELSE orders[id]
      /\ orders' = [id \in DOMAIN orders' |-> orders'[id]]
  BY <1>1 DEF Store
<1>6. events' = es
  BY DEF Store
<1>7. \A id \in D : /\ new[id] \in States
                    /\ IF new[id].confirmed THEN new[id].scheduled = 0 /\ Tells(es[id], book[id])
                       ELSE es[id] = <<>>
                    /\ StateOf(id).scheduled # 0 => new[id].scheduled = StateOf(id).scheduled
                    /\ id \in DOMAIN orders => StateOf(id).confirmed = new[id].confirmed
  BY <1>1 DEF Does, Handled
<1>8. \A id \in DOMAIN book : At(id, book[id], market, b[id], lives[id], id \in DOMAIN orders, StateOf(id), flight, clock)
  BY DEF Core, IdsInv
<1>9. Records(flight)
  BY DEF Core, FlightInv
<1>10. /\ flight' = flight \ {r} /\ market' = market /\ book' = book /\ clock' = clock
       /\ lives' = [id \in Ids |-> lives[id] \o Life(es[id])]
  BY <1>6 DEF Taken
<1>11. ASSUME NEW id \in DOMAIN book
       PROVE  At(id, book[id], market, b[id], lives'[id], id \in DOMAIN orders', StateOf(id)', flight', clock)
  <2>1. id \in Ids /\ lives'[id] = lives[id] \o Life(es[id])
    BY <1>3, <1>10
  <2>2. CASE id \in D
    <3>1. (id \in DOMAIN orders') = (~ ClosedBy(es[id]))
      BY <1>5, <2>2
    <3>2. StateOf(id)' \in States /\ (~ ClosedBy(es[id]) => StateOf(id)' = new[id])
      BY <1>5, <1>7, <2>2, FreshIs DEF StateOf
    <3>3. At(id, book[id], market, b[id], lives[id] \o Life(es[id]), ~ ClosedBy(es[id]), StateOf(id)', flight \ {r}, clock)
      BY <1>1, <2>2, <3>2 DEF Does, Handled
    <3> QED BY <1>10, <2>1, <3>1, <3>3
  <2>3. CASE id \notin D
    <3>1. es[id] = <<>> /\ Part(r, id) = "none"
      BY <1>2, <2>1, <2>3, NamesPart
    <3>2. (id \in DOMAIN orders') = (id \in DOMAIN orders) /\ StateOf(id)' = StateOf(id)
      BY <1>4, <1>5, <2>3, <3>1 DEF StateOf
    <3>3. At(id, book[id], market, b[id], lives[id], id \in DOMAIN orders, StateOf(id), flight, clock)
      BY <1>8
    <3>4. lives[id] \o Life(<<>>) = lives[id]
      BY <3>3, LifeNone
    <3>5. At(id, book[id], market, b[id], lives[id], id \in DOMAIN orders, StateOf(id), flight \ {r}, clock)
      BY <1>9, <3>1, <3>3, AtFrame
    <3> QED BY <1>10, <2>1, <3>1, <3>2, <3>4, <3>5
  <2> QED BY <2>2, <2>3
<1>12. IdsInv(b)'
  <2>1. DOMAIN orders' \subseteq DOMAIN book'
    BY <1>1, <1>3, <1>5, <1>10
  <2>2. lives' = [id \in Ids |-> lives'[id]]
    BY <1>10
  <2>3. ASSUME NEW id \in Ids \ DOMAIN book
        PROVE  lives'[id] = <<>>
    <3>1. lives[id] = <<>> /\ es[id] = <<>>
      BY <1>1, <1>2, <2>3 DEF Core, IdsInv
    <3> QED BY <1>10, <3>1 DEF Life
  <2> QED BY <1>5, <1>10, <1>11, <2>1, <2>2, <2>3 DEF IdsInv
<1>13. \A id \in D : ClosedBy(es[id]) => new[id].confirmed /\ StateOf(id).scheduled = 0
  BY <1>4, <1>7
<1>14. HeapInv'
  <2>1. deadlines = {<<orders[id].scheduled, id>> : id \in {x \in DOMAIN orders : orders[x].scheduled # 0}}
    BY DEF Core, HeapInv
  <2>2. deadlines' = deadlines \cup
          {<<new[id].scheduled, id>> : id \in {x \in D : StateOf(x).scheduled = 0 /\ new[x].scheduled # 0}}
    BY <1>1 DEF Store
  <2>3. \A id : id \notin DOMAIN orders => StateOf(id).scheduled = 0
    BY FreshIs DEF StateOf
  <2>4. \A id \in DOMAIN orders : StateOf(id) = orders[id]
    BY DEF StateOf
  <2>5. \A id \in DOMAIN orders \ D : id \in DOMAIN orders' /\ orders'[id] = orders[id]
    BY <1>2, <1>3, <1>4, <1>5
  <2>6. \A id \in D : id \in DOMAIN orders' <=> ~ ClosedBy(es[id])
    BY <1>5
  <2>7. ASSUME NEW id \in DOMAIN orders, orders[id].scheduled # 0
        PROVE  id \in DOMAIN orders' /\ orders'[id].scheduled = orders[id].scheduled
    BY <1>5, <1>7, <1>13, <2>4, <2>5, <2>6, <2>7
  <2>8. ASSUME NEW id \in D, StateOf(id).scheduled = 0, new[id].scheduled # 0
        PROVE  id \in DOMAIN orders' /\ orders'[id] = new[id]
    BY <1>5, <1>7, <1>13, <2>6, <2>8
  <2>9. ASSUME NEW id \in DOMAIN orders', orders'[id].scheduled # 0
        PROVE  \/ id \in DOMAIN orders /\ orders[id].scheduled = orders'[id].scheduled
               \/ /\ id \in D /\ StateOf(id).scheduled = 0 /\ new[id].scheduled # 0
                  /\ orders'[id] = new[id]
    <3>1. CASE id \in D
      BY <1>5, <1>7, <2>3, <2>4, <2>9, <3>1
    <3>2. CASE id \notin D
      BY <1>5, <2>9, <3>2
    <3> QED BY <3>1, <3>2
  <2> DEFINE H == {<<orders'[id].scheduled, id>> : id \in {x \in DOMAIN orders' : orders'[x].scheduled # 0}}
  <2>10. deadlines' \subseteq H
    BY <2>1, <2>2, <2>7, <2>8
  <2>11. H \subseteq deadlines'
    BY <2>1, <2>2, <2>9
  <2> QED BY <2>10, <2>11 DEF HeapInv
<1>15. Conservation'
  <2>1. ASSUME NEW id \in Ids, NEW i \in 1..Len(es[id])
        PROVE  Adds(es[id][i])
    <3>1. es[id] # <<>>
      BY <2>1
    <3>2. id \in D /\ Tells(es[id], book[id])
      BY <1>2, <1>7, <3>1
    <3>3. Len(es[id]) = 1
      BY <3>2 DEF Tells
    <3>4. i = 1
      BY <3>3
    <3> QED BY <3>2, <3>4 DEF Tells
  <2> QED BY <1>6, <2>1 DEF Conservation, Adds
<1>16. Unconfirmed \subseteq Unconfirmed'
  <2>1. ASSUME NEW id \in DOMAIN orders, ~ orders[id].confirmed
        PROVE  id \in DOMAIN orders' /\ ~ orders'[id].confirmed
    <3>1. CASE id \in D
      <4>1. ~ new[id].confirmed
        BY <1>7, <2>1, <3>1 DEF StateOf
      <4>2. es[id] = <<>>
        BY <1>7, <3>1, <4>1
      <4> QED BY <1>4, <1>5, <3>1, <4>1, <4>2
    <3>2. CASE id \notin D
      BY <1>2, <1>3, <1>4, <1>5, <2>1, <3>2
    <3> QED BY <3>1, <3>2
  <2> QED BY <2>1 DEF Unconfirmed
<1> QED BY <1>12, <1>14, <1>15, <1>16

\* What does not depend on the handler.
LEMMA TakenFrame ==
    ASSUME NEW b, Core(b), NEW r \in flight, Taken(r), clock >= Smaller(r.time, LastPoint)
    PROVE  BookInv(b)' /\ FlightInv(b)' /\ StageInv' /\ ~ ended
<1>1. /\ flight' = flight \ {r} /\ market' = market /\ book' = book /\ biz' = biz /\ now' = now
      /\ flagged' = flagged /\ clock' = clock /\ ended' = ended
  BY DEF Taken
<1>2. BookInv(b)'
  BY <1>1 DEF Core, BookInv
<1>3. FlightInv(b)'
  <2>1. Records(flight')
    BY <1>1, FS_RemoveElement DEF Core, FlightInv, Records
  <2> QED BY <1>1, <2>1 DEF Core, FlightInv
<1>4. ~ ended
  BY DEF Core, StageInv
<1>5. clock # 0
  <2>1. r.time \in Nat \ {0} /\ clock \in Nat
    BY DEF Core, FlightInv, StageInv
  <2>2. LastPoint \in Nat \ {0}
    BY FeedAssumption
  <2> QED BY <2>1, <2>2 DEF Smaller
<1>6. StageInv'
  BY <1>1, <1>4, <1>5 DEF Core, StageInv
<1> QED BY <1>2, <1>3, <1>4, <1>6

\* The waiting trades are not touched.
LEMMA SlotsStay ==
    ASSUME SlotsInv, UNCHANGED <<slots, free, waiters, book, market>>, Unconfirmed \subseteq Unconfirmed'
    PROVE  SlotsInv'
<1>1. ASSUME NEW id, NEW snap, SideInv(id, snap)
      PROVE  SideInv(id, snap)'
  BY <1>1 DEF SideInv, Known
<1>2. \A t \in 1..Len(slots) : slots[t].active =>
         SideInv(slots[t].buy, slots[t].buyOrder)' /\ SideInv(slots[t].sell, slots[t].sellOrder)'
  BY <1>1 DEF SlotsInv
<1>3. \A id : WaitersOf(id)' = WaitersOf(id)
  BY DEF WaitersOf
<1>4. DOMAIN waiters' \subseteq Unconfirmed'
  BY DEF SlotsInv
<1>5. slots' = slots /\ free' = free /\ waiters' = waiters /\ book' = book
  OBVIOUS
<1>6. (\A t \in 1..Len(slots) : slots[t].active =>
         /\ slots[t].buy \in DOMAIN book /\ slots[t].sell \in DOMAIN book /\ slots[t].buy # slots[t].sell
         /\ ~ Complete(slots[t])
         /\ SideInv(slots[t].buy, slots[t].buyOrder) /\ SideInv(slots[t].sell, slots[t].sellOrder))'
  <2>1. \A t \in 1..Len(slots) : slots[t].active =>
         /\ slots[t].buy \in DOMAIN book /\ slots[t].sell \in DOMAIN book /\ slots[t].buy # slots[t].sell
         /\ ~ Complete(slots[t])
    BY DEF SlotsInv
  <2> QED BY <1>2, <1>5, <2>1
<1> QED BY <1>3, <1>4, <1>5, <1>6 DEF SlotsInv

Counted == paired' = [n \in DOMAIN paired |-> paired[n] + Cardinality({p \in pairs' : p.biz = n})]

\* A call that emits no pair and takes no trade.
LEMMA PairedStay ==
    ASSUME PairedInv, UNCHANGED slots, pairs' = {}, Counted, FlyingTrades' = FlyingTrades
    PROVE  PairedInv' /\ PairsInv'
<1>1. \A n : {p \in pairs' : p.biz = n} = {}
  OBVIOUS
<1>2. paired' = paired
  <2>1. \A n \in DOMAIN paired : paired[n] + 0 = paired[n]
    BY DEF PairedInv
  <2>2. paired' = [n \in DOMAIN paired |-> paired[n] + 0]
    BY <1>1, FS_EmptySet DEF Counted
  <2>3. paired = [n \in DOMAIN paired |-> paired[n]]
    BY DEF PairedInv
  <2> QED BY <2>1, <2>2, <2>3
<1>3. Active' = Active /\ WaitingTrades' = WaitingTrades
  BY DEF Active, WaitingTrades
<1> QED BY <1>2, <1>3 DEF PairedInv, PairsInv

\* A handler of a record that is not a trade.
LEMMA NoTrade ==
    ASSUME NEW b, FeedInv(b), NEW r \in flight, r.kind # "trade", clock >= Smaller(r.time, LastPoint),
           NEW new, NEW es, Store(new, es), Applies(b, r, new, es), Taken(r), Counted,
           pairs' = {}, UNCHANGED <<slots, free, waiters>>
    PROVE  FeedInv(b)'
<1>1. Core(b) /\ SlotsInv /\ PairedInv
  BY DEF FeedInv, Core
<1>2. BookInv(b)' /\ FlightInv(b)' /\ StageInv'
  BY <1>1, TakenFrame
<1>3. IdsInv(b)' /\ HeapInv' /\ Conservation' /\ Unconfirmed \subseteq Unconfirmed'
  BY <1>1, StoreIds
<1>4. SlotsInv'
  BY <1>1, <1>3, SlotsStay DEF Taken
<1>5. FlyingTrades' = FlyingTrades
  BY DEF Taken, FlyingTrades
<1>6. PairedInv' /\ PairsInv'
  BY <1>1, <1>5, PairedStay
<1> QED BY <1>2, <1>3, <1>4, <1>6 DEF FeedInv

\* A record that names one order.
LEMMA OneOrder ==
    ASSUME NEW b, NEW r, Names(r) = {r.id}, r.id \in Ids, NEW x, NEW e, Does(b, r.id, r, x, e),
           NEW es, es = [NoEvents EXCEPT ![r.id] = e] \/ (es = NoEvents /\ e = <<>>)
    PROVE  Applies(b, r, Only(r.id, x), es)
<1>1. es = [id \in Ids |-> IF id = r.id THEN e ELSE <<>>]
  BY DEF NoEvents
<1>2. DOMAIN Only(r.id, x) = {r.id} /\ Only(r.id, x)[r.id] = x
  BY DEF Only
<1>3. es = [id \in Ids |-> es[id]] /\ es[r.id] = e /\ \A id \in Ids \ {r.id} : es[id] = <<>>
  BY <1>1
<1> QED BY <1>2, <1>3 DEF Applies

\* In Shenzhen, an order whose announcement has been delivered is live as long as records of it come.
LEMMA ShenzhenLive ==
    ASSUME NEW b, Core(b), NEW r \in flight, market = "SZ", NEW id \in Names(r),
           ~ \E o \in flight : o.kind = "order" /\ o.id \in Names(r)
    PROVE  /\ AtLive(id, book[id], market, lives[id], id \in DOMAIN orders, StateOf(id), flight)
           /\ id \in DOMAIN orders
<1>1. Here(b, id, r)
  BY Situations
<1>2. About(flight, "entry", id) = {}
  <2> SUFFICES ASSUME NEW s \in flight, Part(s, id) = "entry"
               PROVE  FALSE
    BY DEF About
  <2>1. s.kind \in {"order", "A"} /\ s.id = id
    BY DEF Part
  <2>2. s.kind = "order"
    BY <2>1 DEF Core, FlightInv
  <2> QED BY <2>1, <2>2
<1>3. AtLive(id, book[id], market, lives[id], id \in DOMAIN orders, StateOf(id), flight)
  BY <1>1, <1>2, NotOver DEF Here
<1> QED BY <1>3 DEF AtLive

\* 'A' in Shanghai.
LEMMA AddApplies ==
    ASSUME NEW b, Core(b), NEW r \in flight, market = "SH", r.kind = "A", OnShanghaiAdd(r)
    PROVE  \E new, es : Store(new, es) /\ Applies(b, r, new, es)
<1>1. Names(r) = {r.id} /\ r.id \in Names(r)
  BY DEF Names
<1>2. Here(b, r.id, r) /\ r.id \in Ids /\ book[r.id] \in Lives
  BY <1>1, Situations
<1> DEFINE x == Scheduled([Touched(StateOf(r.id), r) EXCEPT !.hasA = TRUE, !.aBiz = r.biz, !.aRest = r.qty])
           id == r.id
           in == r.id \in DOMAIN orders
           st == StateOf(r.id)
           o == book[r.id]
           life == lives[r.id]
           bt == b[r.id]
<1>3. Situation(id, o, "SH", bt, life, in, st, flight, r, clock) /\ r.id = id /\ in \in BOOLEAN /\ o \in Lives
      /\ x = Scheduled([Touched(st, r) EXCEPT !.hasA = TRUE, !.aBiz = r.biz, !.aRest = r.qty])
  BY <1>2 DEF Here
<1> HIDE DEF x, id, in, st, o, life, bt
<1>4. Handled(id, o, "SH", bt, life, in, st, flight, r, clock, x, <<>>)
  BY <1>3, HandledAdd
<1>5. Does(b, r.id, r, x, <<>>)
  BY <1>4 DEF Does, id, in, st, o, life, bt
<1>6. Applies(b, r, Only(r.id, x), NoEvents)
  BY <1>1, <1>2, <1>5, OneOrder
<1>7. Store(Only(r.id, x), NoEvents)
  BY DEF OnShanghaiAdd, x
<1> QED BY <1>6, <1>7

\* 'D' in Shanghai.
LEMMA DeleteApplies ==
    ASSUME NEW b, Core(b), NEW r \in flight, market = "SH", r.kind = "D", OnShanghaiDelete(r)
    PROVE  \E new, es : Store(new, es) /\ Applies(b, r, new, es)
<1>1. Names(r) = {r.id} /\ r.id \in Names(r)
  BY DEF Names
<1>2. Here(b, r.id, r) /\ r.id \in Ids /\ book[r.id] \in Lives /\ StateOf(r.id) \in States
  BY <1>1, Situations
<1> DEFINE id == r.id
           in == r.id \in DOMAIN orders
           st == StateOf(r.id)
           o == book[r.id]
           life == lives[r.id]
           bt == b[r.id]
           t == Touched(st, r)
           x == Scheduled([Touched(st, r) EXCEPT !.canc = @ + r.qty])
           y == Cancelled(t, r.qty)
<1>3. Situation(id, o, "SH", bt, life, in, st, flight, r, clock) /\ r.id = id /\ in \in BOOLEAN /\ o \in Lives
      /\ st \in States
  BY <1>2 DEF Here
<1>4. r.time \in Nat
  BY DEF Core, FlightInv
<1>5. t.confirmed = st.confirmed /\ t \in States /\ SameAccount(t, st)
  BY <1>3, <1>4, TouchedIs DEF SameAccount
<1>6. CASE ~ st.confirmed
  <2>1. Store(Only(r.id, x), NoEvents)
    BY <1>5, <1>6 DEF OnShanghaiDelete
  <2> HIDE DEF id, in, st, o, life, bt, t, y
  <2>2. Handled(id, o, "SH", bt, life, in, st, flight, r, clock, x, <<>>)
    BY <1>3, <1>6, HandledDeletePending
  <2> HIDE DEF x
  <2>3. Does(b, r.id, r, x, <<>>)
    BY <2>2 DEF Does, id, in, st, o, life, bt
  <2>4. Applies(b, r, Only(r.id, x), NoEvents)
    BY <1>1, <1>2, <2>3, OneOrder
  <2> QED BY <2>1, <2>4
<1>7. CASE st.confirmed
  <2> DEFINE e == TakenFrom(y, "Cancelled")
             es == [NoEvents EXCEPT ![r.id] = e]
  <2>1. Store(Only(r.id, y), es)
    BY <1>5, <1>7 DEF OnShanghaiDelete, Cancelled
  <2> HIDE DEF id, in, st, o, life, bt, t, x
  <2>2. AtLive(id, o, "SH", life, in, st, flight)
    BY <1>3, <1>7, NotOver DEF AtWaiting, IsWaiting
  <2>3. Handled(id, o, "SH", bt, life, in, st, flight, r, clock, y, e)
    BY <1>3, <1>5, <2>2, HandledCancel
  <2> HIDE DEF y, e
  <2>4. Does(b, r.id, r, y, e)
    BY <2>3 DEF Does, id, in, st, o, life, bt
  <2>5. Applies(b, r, Only(r.id, y), es)
    BY <1>1, <1>2, <2>4, OneOrder
  <2> QED BY <2>1, <2>5
<1> QED BY <1>6, <1>7

\* A cancel in Shenzhen.
LEMMA CancelApplies ==
    ASSUME NEW b, Core(b), NEW r \in flight, market = "SZ", r.kind = "cancel", OnShenzhenCancel(r),
           ~ \E o \in flight : o.kind = "order" /\ o.id \in Names(r)
    PROVE  \E new, es : Store(new, es) /\ Applies(b, r, new, es)
<1>1. Names(r) = {r.id} /\ r.id \in Names(r)
  BY DEF Names
<1>2. Here(b, r.id, r) /\ r.id \in Ids /\ book[r.id] \in Lives /\ StateOf(r.id) \in States
  BY <1>1, Situations
<1>3. AtLive(r.id, book[r.id], market, lives[r.id], r.id \in DOMAIN orders, StateOf(r.id), flight) /\ r.id \in DOMAIN orders
  BY <1>1, ShenzhenLive
<1> DEFINE id == r.id
           in == r.id \in DOMAIN orders
           st == StateOf(r.id)
           o == book[r.id]
           life == lives[r.id]
           bt == b[r.id]
           y == Cancelled(st, r.qty)
           e == TakenFrom(y, "Cancelled")
           es == [NoEvents EXCEPT ![r.id] = e]
<1>4. Situation(id, o, market, bt, life, in, st, flight, r, clock) /\ r.id = id /\ o \in Lives
      /\ st \in States /\ AtLive(id, o, market, life, in, st, flight) /\ SameAccount(st, st)
  BY <1>2, <1>3 DEF Here, SameAccount
<1>5. Store(Only(r.id, y), es)
  BY <1>3 DEF OnShenzhenCancel, Cancelled, StateOf
<1> HIDE DEF id, in, st, o, life, bt
<1>6. Handled(id, o, market, bt, life, in, st, flight, r, clock, y, e)
  BY <1>4, HandledCancel
<1> HIDE DEF y, e
<1>7. Does(b, r.id, r, y, e)
  BY <1>6 DEF Does, id, in, st, o, life, bt
<1>8. Applies(b, r, Only(r.id, y), es)
  BY <1>1, <1>2, <1>7, OneOrder
<1> QED BY <1>5, <1>8

-----------------------------------------------------------------------------
(* The trades that wait for a mother order.                                  *)

\* A call that emits one pair for each of the trades G.
LEMMA PairedAfter ==
    ASSUME PairedInv, Counted, NEW G, G \subseteq FlyingTrades \cup WaitingTrades,
           \A n \in G : \E p : {x \in pairs' : x.biz = n} = {p},
           \A n : n \notin G => {x \in pairs' : x.biz = n} = {},
           (FlyingTrades \cup WaitingTrades)' = (FlyingTrades \cup WaitingTrades) \ G,
           (FlyingTrades \cap WaitingTrades = {})',
           (\A t \in Active, u \in Active : slots[t].biz = slots[u].biz => t = u)'
    PROVE  PairedInv'
<1>1. /\ paired \in [DOMAIN paired -> {0, 1}] /\ FlyingTrades \cup WaitingTrades \subseteq DOMAIN paired
      /\ \A n \in DOMAIN paired : paired[n] = 0 <=> n \in FlyingTrades \cup WaitingTrades
  BY DEF PairedInv
<1>2. ASSUME NEW n \in G PROVE Cardinality({x \in pairs' : x.biz = n}) = 1
  <2>1. PICK p : {x \in pairs' : x.biz = n} = {p}
    OBVIOUS
  <2>2. Cardinality({p}) = 1
    BY FS_Singleton
  <2> QED BY <2>1, <2>2
<1>3. \A n : n \notin G => Cardinality({x \in pairs' : x.biz = n}) = 0
  BY FS_EmptySet
<1> DEFINE c(n) == Cardinality({x \in pairs' : x.biz = n})
<1>4. paired' = [n \in DOMAIN paired |-> paired[n] + c(n)]
  BY DEF Counted
<1>5. (\A n \in G : c(n) = 1) /\ (\A n : n \notin G => c(n) = 0)
  BY <1>2, <1>3
<1> HIDE DEF c
<1>6. \A n \in DOMAIN paired : paired'[n] = IF n \in G THEN 1 ELSE paired[n]
  <2> SUFFICES ASSUME NEW n \in DOMAIN paired
               PROVE  paired'[n] = IF n \in G THEN 1 ELSE paired[n]
    OBVIOUS
  <2>1. paired'[n] = paired[n] + c(n) /\ paired[n] \in {0, 1}
    BY <1>1, <1>4
  <2>2. n \in G => paired[n] = 0
    BY <1>1
  <2> QED BY <1>5, <2>1, <2>2
<1>7. DOMAIN paired' = DOMAIN paired /\ paired' = [n \in DOMAIN paired |-> paired'[n]]
  BY <1>4
<1>8. paired' \in [DOMAIN paired' -> {0, 1}]
  BY <1>1, <1>6, <1>7
<1>9. \A n \in DOMAIN paired : paired'[n] = 0 <=> n \in (FlyingTrades \cup WaitingTrades) \ G
  BY <1>1, <1>6
<1> QED BY <1>1, <1>7, <1>8, <1>9 DEF PairedInv

\* What a waiting trade takes from the orders that are confirmed.
LEMMA AnsweredIs ==
    ASSUME SlotsInv, DOMAIN book \subseteq Ids, book \in [DOMAIN book -> Lives], NEW new,
           \A id \in DOMAIN new : Known(id, Snapshot(new[id])) /\ id \in DOMAIN book /\ new[id].estimated \in BOOLEAN,
           NEW i \in 1..Len(slots)
    PROVE  LET s == slots[i]
               a == Answered(s, i, new)
           IN  /\ a \in SlotSet /\ a.biz = s.biz /\ a.buy = s.buy /\ a.sell = s.sell /\ a.active = s.active
               /\ s.active =>
                    /\ a.buyOrder = IF s.buyOrder = NoSnapshot /\ s.buy \in DOMAIN new
                                    THEN Snapshot(new[s.buy]) ELSE s.buyOrder
                    /\ a.sellOrder = IF s.sellOrder = NoSnapshot /\ s.sell \in DOMAIN new
                                     THEN Snapshot(new[s.sell]) ELSE s.sellOrder
<1> DEFINE s == slots[i]
           hit(id) == id \in DOMAIN new /\ i \in Range(WaitersOf(id)) /\ s.active
           x == IF hit(s.buy) THEN Snapshot(new[s.buy]) ELSE s.buyOrder
           y == IF hit(s.sell) THEN Snapshot(new[s.sell]) ELSE s.sellOrder
           a == [s EXCEPT !.buyOrder = x, !.sellOrder = y]
<1>1. s \in SlotSet
  BY ElementOfSeq DEF SlotsInv
<1>2. Answered(s, i, new) = a
  BY <1>1 DEF Answered, SlotSet
<1>3. \A id \in DOMAIN new : Snapshot(new[id]) \in Snapshots
  <2> SUFFICES ASSUME NEW id \in DOMAIN new PROVE Snapshot(new[id]) \in Snapshots
    OBVIOUS
  <2>1. Snapshot(new[id]).orig = book[id].qty /\ id \in DOMAIN book /\ new[id].estimated \in BOOLEAN
    BY DEF Known
  <2>2. Snapshot(new[id]).orig \in Int
    BY <2>1 DEF Lives
  <2> QED BY <2>1, <2>2 DEF Snapshot, Snapshots
<1>4. s.active => \A id \in Ids : i \in Range(WaitersOf(id)) <=>
            \/ s.buy = id /\ s.buyOrder = NoSnapshot
            \/ s.sell = id /\ s.sellOrder = NoSnapshot
  BY DEF SlotsInv
<1>5. s.active => s.buy \in Ids /\ s.sell \in Ids /\ s.buy # s.sell
  BY DEF SlotsInv
<1>6. s.active => /\ hit(s.buy) <=> (s.buyOrder = NoSnapshot /\ s.buy \in DOMAIN new)
                  /\ hit(s.sell) <=> (s.sellOrder = NoSnapshot /\ s.sell \in DOMAIN new)
  BY <1>4, <1>5
<1>7. x \in Snapshots /\ y \in Snapshots
  BY <1>1, <1>3 DEF SlotSet
<1>8. s.active => /\ x = IF s.buyOrder = NoSnapshot /\ s.buy \in DOMAIN new THEN Snapshot(new[s.buy]) ELSE s.buyOrder
                  /\ y = IF s.sellOrder = NoSnapshot /\ s.sell \in DOMAIN new THEN Snapshot(new[s.sell]) ELSE s.sellOrder
  BY <1>6
<1> HIDE DEF x, y, hit
<1>9. a \in SlotSet /\ a.biz = s.biz /\ a.buy = s.buy /\ a.sell = s.sell /\ a.active = s.active
      /\ a.buyOrder = x /\ a.sellOrder = y
  BY <1>1, <1>7 DEF SlotSet
<1> HIDE DEF a
<1> QED BY <1>2, <1>8, <1>9

\* Confirmed orders answer the trades that wait for them, and no other trade is touched.
LEMMA Resolving ==
    ASSUME SlotsInv, PairedInv, DOMAIN book \subseteq Ids, book \in [DOMAIN book -> Lives],
           NEW new, ResolveWaitingPairs(new),
           \A id \in DOMAIN new : Known(id, Snapshot(new[id])) /\ id \in DOMAIN book /\ new[id].estimated \in BOOLEAN,
           Unconfirmed \ DOMAIN new \subseteq Unconfirmed', UNCHANGED <<book, market>>,
           Counted, FlyingTrades' = FlyingTrades
    PROVE  SlotsInv' /\ PairedInv' /\ PairsInv'
<1> DEFINE a(i) == Answered(slots[i], i, new)
           done == AnsweredTokens(new)
           n == Len(slots)
<1>1. n \in Nat /\ slots \in Seq(SlotSet) /\ \A i \in 1..n : slots[i] \in SlotSet
  BY ElementOfSeq, LenProperties DEF SlotsInv
<1>2. \A i \in 1..n :
        /\ a(i) \in SlotSet /\ a(i).biz = slots[i].biz /\ a(i).buy = slots[i].buy /\ a(i).sell = slots[i].sell
        /\ a(i).active = slots[i].active
        /\ slots[i].active =>
             /\ a(i).buyOrder = IF slots[i].buyOrder = NoSnapshot /\ slots[i].buy \in DOMAIN new
                                THEN Snapshot(new[slots[i].buy]) ELSE slots[i].buyOrder
             /\ a(i).sellOrder = IF slots[i].sellOrder = NoSnapshot /\ slots[i].sell \in DOMAIN new
                                 THEN Snapshot(new[slots[i].sell]) ELSE slots[i].sellOrder
  BY AnsweredIs
<1>3. \A i \in 1..n : AnsweredSlots(new)[i] = a(i)
  BY DEF AnsweredSlots
<1>4. done = {i \in 1..n : slots[i].active /\ Complete(a(i))}
  BY <1>3 DEF AnsweredTokens
<1>5. /\ pairs' = {a(i) : i \in done}
      /\ slots' = [i \in 1..n |-> [a(i) EXCEPT !.active = @ /\ i \notin done]]
      /\ free' = free \cup done
      /\ waiters' = [id \in DOMAIN waiters \ DOMAIN new |-> waiters[id]]
  <2>1. \A i \in done : i \in 1..n
    BY <1>4
  <2>2. {AnsweredSlots(new)[i] : i \in done} = {a(i) : i \in done}
    BY <1>3, <2>1
  <2>3. [i \in 1..n |-> [AnsweredSlots(new)[i] EXCEPT !.active = @ /\ i \notin done]]
          = [i \in 1..n |-> [a(i) EXCEPT !.active = @ /\ i \notin done]]
    BY <1>3
  <2> QED BY <2>2, <2>3 DEF ResolveWaitingPairs
<1> HIDE DEF a, done
<1>6. \A i \in 1..n :
        /\ slots'[i] \in SlotSet /\ slots'[i].biz = slots[i].biz /\ slots'[i].buy = slots[i].buy
        /\ slots'[i].sell = slots[i].sell /\ slots'[i].buyOrder = a(i).buyOrder
        /\ slots'[i].sellOrder = a(i).sellOrder /\ slots'[i].active = (slots[i].active /\ i \notin done)
  <2> SUFFICES ASSUME NEW i \in 1..n
               PROVE  LET s == slots'[i]
                      IN  /\ s \in SlotSet /\ s.biz = slots[i].biz /\ s.buy = slots[i].buy
                          /\ s.sell = slots[i].sell /\ s.buyOrder = a(i).buyOrder
                          /\ s.sellOrder = a(i).sellOrder /\ s.active = (slots[i].active /\ i \notin done)
    OBVIOUS
  <2> DEFINE c == slots[i].active /\ i \notin done
             z == a(i)
  <2>1. slots'[i] = [z EXCEPT !.active = c] /\ c \in BOOLEAN /\ z \in SlotSet
    BY <1>2, <1>5
  <2> HIDE DEF c, z
  <2>2. LET s == slots'[i]
        IN  /\ s \in SlotSet /\ s.biz = z.biz /\ s.buy = z.buy /\ s.sell = z.sell
            /\ s.buyOrder = z.buyOrder /\ s.sellOrder = z.sellOrder /\ s.active = c
    BY <2>1 DEF SlotSet
  <2> QED BY <1>2, <2>2 DEF c, z
<1>7. slots' \in Seq(SlotSet) /\ Len(slots') = n
  <2>1. slots' \in [1..n -> SlotSet]
    BY <1>5, <1>6
  <2> QED BY <1>1, <2>1, SeqDef, LenProperties
<1>8. ASSUME NEW id \in DOMAIN new
      PROVE  Known(id, Snapshot(new[id])) /\ Snapshot(new[id]) # NoSnapshot /\ id \in DOMAIN book
  <2>1. Snapshot(new[id]).orig = book[id].qty /\ book[id].qty \in Nat
    BY DEF Known, Lives
  <2>2. NoSnapshot.orig = -1
    BY DEF NoSnapshot
  <2>3. Snapshot(new[id]).orig # NoSnapshot.orig
    BY <2>1, <2>2
  <2> QED BY <2>3
<1>9. /\ \A i \in 1..n : slots[i].active <=> i \notin free
      /\ \A i \in 1..n : slots[i].active =>
           /\ slots[i].buy \in DOMAIN book /\ slots[i].sell \in DOMAIN book /\ slots[i].buy # slots[i].sell
           /\ ~ Complete(slots[i])
           /\ SideInv(slots[i].buy, slots[i].buyOrder) /\ SideInv(slots[i].sell, slots[i].sellOrder)
  BY DEF SlotsInv
<1>10. ASSUME NEW i \in 1..n, slots[i].active
       PROVE  /\ IF a(i).buyOrder = NoSnapshot THEN slots[i].buy \in Unconfirmed'
                 ELSE Known(slots[i].buy, a(i).buyOrder)
              /\ IF a(i).sellOrder = NoSnapshot THEN slots[i].sell \in Unconfirmed'
                 ELSE Known(slots[i].sell, a(i).sellOrder)
              /\ a(i).buyOrder = NoSnapshot <=> slots[i].buyOrder = NoSnapshot /\ slots[i].buy \notin DOMAIN new
              /\ a(i).sellOrder = NoSnapshot <=> slots[i].sellOrder = NoSnapshot /\ slots[i].sell \notin DOMAIN new
  <2> DEFINE buy == slots[i].buy
             sell == slots[i].sell
             x == slots[i].buyOrder
             y == slots[i].sellOrder
             p == a(i).buyOrder
             q == a(i).sellOrder
  <2>1. /\ IF x = NoSnapshot THEN buy \in Unconfirmed ELSE Known(buy, x)
        /\ IF y = NoSnapshot THEN sell \in Unconfirmed ELSE Known(sell, y)
        /\ p = (IF x = NoSnapshot /\ buy \in DOMAIN new THEN Snapshot(new[buy]) ELSE x)
        /\ q = (IF y = NoSnapshot /\ sell \in DOMAIN new THEN Snapshot(new[sell]) ELSE y)
    BY <1>2, <1>9, <1>10 DEF SideInv
  <2> HIDE DEF buy, sell, x, y, p, q
  <2>2. /\ IF p = NoSnapshot THEN buy \in Unconfirmed' ELSE Known(buy, p)
        /\ p = NoSnapshot <=> x = NoSnapshot /\ buy \notin DOMAIN new
    BY <1>8, <2>1
  <2>3. /\ IF q = NoSnapshot THEN sell \in Unconfirmed' ELSE Known(sell, q)
        /\ q = NoSnapshot <=> y = NoSnapshot /\ sell \notin DOMAIN new
    BY <1>8, <2>1
  <2> QED BY <2>2, <2>3 DEF buy, sell, x, y, p, q
<1>11. /\ done \subseteq 1..n /\ done \subseteq Active /\ Active' = Active \ done
       /\ \A i \in 1..n : i \in Active <=> slots[i].active
  <2>1. \A i \in 1..n : slots'[i].active <=> (slots[i].active /\ i \notin done)
    BY <1>6
  <2>2. Active' = {i \in 1..n : slots'[i].active}
    BY <1>7 DEF Active
  <2> QED BY <1>4, <2>1, <2>2 DEF Active
<1>12. ASSUME NEW i \in 1..n, NEW id \in Ids
       PROVE  i \in Range(WaitersOf(id)') <=>
                /\ slots'[i].active
                /\ \/ slots'[i].buy = id /\ slots'[i].buyOrder = NoSnapshot
                   \/ slots'[i].sell = id /\ slots'[i].sellOrder = NoSnapshot
  <2>1. i \in Range(WaitersOf(id)) <=>
            /\ slots[i].active
            /\ \/ slots[i].buy = id /\ slots[i].buyOrder = NoSnapshot
               \/ slots[i].sell = id /\ slots[i].sellOrder = NoSnapshot
    BY DEF SlotsInv
  <2>2. slots'[i].active <=> (slots[i].active /\ i \notin done)
    BY <1>6
  <2>3. CASE id \in DOMAIN new
    <3>1. WaitersOf(id)' = <<>>
      BY <1>5, <2>3 DEF WaitersOf
    <3>2. i \notin Range(WaitersOf(id)')
      BY <3>1 DEF Range
    <3>3. slots[i].active /\ i \notin done =>
            ~ \/ slots'[i].buy = id /\ slots'[i].buyOrder = NoSnapshot
              \/ slots'[i].sell = id /\ slots'[i].sellOrder = NoSnapshot
      BY <1>6, <1>10, <2>3
    <3> QED BY <2>2, <3>2, <3>3
  <2>4. CASE id \notin DOMAIN new
    <3>1. WaitersOf(id)' = WaitersOf(id)
      BY <1>5, <2>4 DEF WaitersOf
    <3>2. slots[i].active =>
            /\ slots'[i].buy = id /\ slots'[i].buyOrder = NoSnapshot
                 <=> slots[i].buy = id /\ slots[i].buyOrder = NoSnapshot
            /\ slots'[i].sell = id /\ slots'[i].sellOrder = NoSnapshot
                 <=> slots[i].sell = id /\ slots[i].sellOrder = NoSnapshot
      BY <1>6, <1>10, <2>4
    <3>3. /\ slots[i].active
          /\ \/ slots[i].buy = id /\ slots[i].buyOrder = NoSnapshot
             \/ slots[i].sell = id /\ slots[i].sellOrder = NoSnapshot
          => i \notin done
      BY <1>4, <1>6, <3>2 DEF Complete
    <3> QED BY <2>1, <2>2, <3>1, <3>2, <3>3
  <2> QED BY <2>3, <2>4
<1>13. SlotsInv'
  <2>1. free' \subseteq 1..n /\ \A i \in 1..n : slots'[i].active <=> i \notin free'
    <3>1. free \subseteq 1..n /\ done \subseteq 1..n
      BY <1>4 DEF SlotsInv
    <3>2. free' = free \cup done
      BY <1>5
    <3>3. ASSUME NEW i \in 1..n
          PROVE  slots'[i].active <=> i \notin free'
      <4>1. slots[i].active <=> i \notin free
        BY <1>9
      <4>2. slots'[i].active = (slots[i].active /\ i \notin done)
        BY <1>6
      <4> QED BY <3>2, <4>1, <4>2
    <3> QED BY <3>1, <3>2, <3>3
  <2>2. waiters' \in [DOMAIN waiters' -> Seq(1..n)] /\ DOMAIN waiters' \subseteq Unconfirmed'
    <3>1. waiters \in [DOMAIN waiters -> Seq(1..n)] /\ DOMAIN waiters \subseteq Unconfirmed
      BY DEF SlotsInv
    <3>2. /\ waiters' = [id \in DOMAIN waiters \ DOMAIN new |-> waiters[id]]
          /\ DOMAIN waiters' = DOMAIN waiters \ DOMAIN new
      BY <1>5
    <3>3. \A id \in DOMAIN waiters' : waiters'[id] = waiters[id] /\ waiters[id] \in Seq(1..n)
      BY <3>1, <3>2
    <3>4. waiters' \in [DOMAIN waiters' -> Seq(1..n)]
      BY <3>2, <3>3
    <3> QED BY <3>1, <3>2, <3>4
  <2>3. ASSUME NEW i \in 1..n, slots'[i].active
        PROVE  (/\ slots[i].buy \in DOMAIN book /\ slots[i].sell \in DOMAIN book /\ slots[i].buy # slots[i].sell
                /\ ~ Complete(slots[i])
                /\ SideInv(slots[i].buy, slots[i].buyOrder) /\ SideInv(slots[i].sell, slots[i].sellOrder))'
    <3>1. slots[i].active /\ i \notin done
      BY <1>6, <2>3
    <3>2. /\ IF a(i).buyOrder = NoSnapshot THEN slots[i].buy \in Unconfirmed'
             ELSE Known(slots[i].buy, a(i).buyOrder)
          /\ IF a(i).sellOrder = NoSnapshot THEN slots[i].sell \in Unconfirmed'
             ELSE Known(slots[i].sell, a(i).sellOrder)
          /\ slots'[i].buy = slots[i].buy /\ slots'[i].sell = slots[i].sell
          /\ slots'[i].buyOrder = a(i).buyOrder /\ slots'[i].sellOrder = a(i).sellOrder
      BY <1>6, <1>10, <3>1
    <3>3. ~ Complete(slots'[i])
      BY <1>4, <3>1, <3>2 DEF Complete
    <3>4. SideInv(slots[i].buy, slots[i].buyOrder)'
      BY <3>2 DEF SideInv, Known
    <3>5. SideInv(slots[i].sell, slots[i].sellOrder)'
      BY <3>2 DEF SideInv, Known
    <3> QED BY <1>9, <3>1, <3>2, <3>3, <3>4, <3>5
  <2> QED BY <1>7, <1>12, <2>1, <2>2, <2>3 DEF SlotsInv
<1>14. PairsInv'
  <2>1. ASSUME NEW i \in done
        PROVE  Known(a(i).buy, a(i).buyOrder) /\ Known(a(i).sell, a(i).sellOrder)
    <3>1. i \in 1..n /\ slots[i].active /\ Complete(a(i))
      BY <1>4, <2>1
    <3> QED BY <1>2, <1>10, <3>1 DEF Complete
  <2>2. \A p \in pairs' : Known(p.buy, p.buyOrder) /\ Known(p.sell, p.sellOrder)
    BY <1>5, <2>1
  <2> QED BY <2>2 DEF PairsInv, Known
<1>15. PairedInv'
  <2> DEFINE G == {slots[i].biz : i \in done}
  <2>1. \A i \in 1..n : slots'[i].biz = slots[i].biz /\ a(i).biz = slots[i].biz
    BY <1>2, <1>6
  <2>2. \A t \in Active, u \in Active : slots[t].biz = slots[u].biz => t = u
    BY DEF PairedInv
  <2>3. FlyingTrades \cap WaitingTrades = {}
    BY DEF PairedInv
  <2>4. \A i \in Active : i \in 1..n
    BY DEF Active
  <2>5. WaitingTrades' = WaitingTrades \ G
    <3>1. WaitingTrades' = {slots[i].biz : i \in Active \ done}
      BY <1>11, <2>1, <2>4 DEF WaitingTrades
    <3> QED BY <1>11, <2>2, <3>1 DEF WaitingTrades
  <2>6. G \subseteq WaitingTrades
    BY <1>11 DEF WaitingTrades
  <2>7. ASSUME NEW x \in G
        PROVE  \E p : {y \in pairs' : y.biz = x} = {p}
    <3>1. PICK i \in done : slots[i].biz = x
      OBVIOUS
    <3>2. \A j \in done : a(j).biz = x <=> j = i
      BY <1>11, <2>1, <2>2, <3>1
    <3>3. {y \in pairs' : y.biz = x} = {a(i)}
      BY <1>5, <3>1, <3>2
    <3> QED BY <3>3
  <2>8. ASSUME NEW x, x \notin G
        PROVE  {y \in pairs' : y.biz = x} = {}
    BY <1>5, <1>11, <2>1, <2>8
  <2>9. \A t \in Active', u \in Active' : slots'[t].biz = slots'[u].biz => t = u
    BY <1>11, <2>1, <2>2, <2>4
  <2>10. FlyingTrades' \cup WaitingTrades' = (FlyingTrades \cup WaitingTrades) \ G
    BY <2>3, <2>5, <2>6
  <2>11. FlyingTrades' \cap WaitingTrades' = {}
    BY <2>3, <2>5
  <2>12. G \subseteq FlyingTrades \cup WaitingTrades
    BY <2>6
  <2> HIDE DEF G
  <2>13. \A x \in G : \E p : {y \in pairs' : y.biz = x} = {p}
    BY <2>7
  <2>14. \A x : x \notin G => {y \in pairs' : y.biz = x} = {}
    BY <2>8
  <2> QED BY <2>9, <2>10, <2>11, <2>12, <2>13, <2>14, PairedAfter
<1> QED BY <1>13, <1>14, <1>15

\* An order is announced in Shenzhen.
LEMMA DeliverOrder ==
    ASSUME NEW b, FeedInv(b), NEW r \in flight, market = "SZ", r.kind = "order", clock >= Smaller(r.time, LastPoint),
           OnShenzhenOrder(r), Taken(r), Counted
    PROVE  FeedInv(b)'
<1>1. Core(b) /\ SlotsInv /\ PairedInv
  BY DEF FeedInv, Core
<1>2. Names(r) = {r.id} /\ r.id \in Names(r)
  BY DEF Names
<1>3. Here(b, r.id, r) /\ r.id \in Ids /\ r.id \in DOMAIN book /\ book[r.id] \in Lives
  BY <1>1, <1>2, Situations
<1> DEFINE id == r.id
           in == r.id \in DOMAIN orders
           st == StateOf(r.id)
           o == book[r.id]
           life == lives[r.id]
           bt == b[r.id]
           x == Announced(st, r.qty)
           e == Confirming(x)
           es == [NoEvents EXCEPT ![r.id] = e]
<1>4. Situation(id, o, "SZ", bt, life, in, st, flight, r, clock) /\ r.id = id /\ in \in BOOLEAN /\ o \in Lives
  BY <1>3 DEF Here
<1>5. Store(Only(r.id, x), es) /\ ResolveWaitingPairs(Only(r.id, x))
  BY DEF OnShenzhenOrder, Announced, Confirming
<1> HIDE DEF id, in, st, o, life, bt
<1>6. Handled(id, o, "SZ", bt, life, in, st, flight, r, clock, x, e) /\ ~ in
  BY <1>4, HandledOrder
<1> HIDE DEF e
<1>7. x.confirmed /\ x \in States
  <2>1. x \in States
    BY <1>6 DEF Handled
  <2>2. st \in States
    BY <1>4 DEF Situation, At
  <2>3. x.confirmed
    BY <2>2 DEF Announced, States
  <2> QED BY <2>1, <2>3
<1> HIDE DEF x
<1>8. x.orig = o.qty /\ x.estimated = FALSE
  BY <1>6, <1>7 DEF Handled, States
<1>9. Does(b, r.id, r, x, e)
  BY <1>6 DEF Does, id, in, st, o, life, bt
<1>10. Applies(b, r, Only(r.id, x), es)
  BY <1>2, <1>3, <1>9, OneOrder
<1>11. BookInv(b)' /\ FlightInv(b)' /\ StageInv'
  BY <1>1, TakenFrame
<1> HIDE DEF es
<1>12. IdsInv(b)' /\ HeapInv' /\ Conservation' /\ Unconfirmed \subseteq Unconfirmed'
  BY <1>1, <1>5, <1>10, StoreIds
<1>13. FlyingTrades' = FlyingTrades
  BY DEF Taken, FlyingTrades
<1> DEFINE new == Only(r.id, x)
<1>14. DOMAIN new = {r.id} /\ new[r.id] = x
  BY DEF Only
<1>15. Known(r.id, Snapshot(x)) /\ x.estimated \in BOOLEAN
  BY <1>8 DEF Known, Snapshot, o
<1> HIDE DEF new
<1>16. \A y \in DOMAIN new : Known(y, Snapshot(new[y])) /\ y \in DOMAIN book /\ new[y].estimated \in BOOLEAN
  BY <1>3, <1>14, <1>15
<1>17. ResolveWaitingPairs(new)
  BY <1>5 DEF new
<1>18. DOMAIN book \subseteq Ids /\ book \in [DOMAIN book -> Lives]
  BY <1>1 DEF Core, BookInv
<1>19. UNCHANGED <<book, market>>
  BY DEF Taken
<1>20. SlotsInv' /\ PairedInv' /\ PairsInv'
  BY <1>1, <1>12, <1>13, <1>16, <1>17, <1>18, <1>19, Resolving
<1> QED BY <1>11, <1>12, <1>20 DEF FeedInv

\* After the sides of a trade have been updated, the quantity of an order is known exactly if it is confirmed.
LEMMA FoundIs ==
    ASSUME NEW b, Core(b), NEW r \in flight, NEW new, NEW es, Store(new, es), Applies(b, r, new, es), Taken(r),
           NEW id \in Names(r)
    PROVE  /\ FindSnapshot(id) \in Snapshots /\ id \in DOMAIN book
           /\ IF FindSnapshot(id) = NoSnapshot THEN id \in Unconfirmed' ELSE Known(id, FindSnapshot(id))
<1>1. /\ Does(b, id, r, new[id], es[id]) /\ id \in DOMAIN book /\ id \in Ids /\ DOMAIN new = Names(r)
      /\ book[id] \in Lives
  BY Situations DEF Applies
<1>2. events' = es
  BY DEF Store
<1>3. /\ id \in DOMAIN orders' <=> ~ ClosedBy(es[id])
      /\ id \in DOMAIN orders' => orders'[id] = new[id]
  BY <1>1 DEF Store
<1>4. /\ new[id] \in States
      /\ IF new[id].confirmed
         THEN /\ new[id].orig = book[id].qty /\ ~ new[id].estimated
              /\ (market = "SH" => book[id].imm # book[id].qty)
              /\ Tells(es[id], book[id])
         ELSE es[id] = <<>>
  BY <1>1 DEF Does, Handled
<1>5. book[id].qty \in Nat \ {0}
  BY <1>1 DEF Lives
<1>6. CASE ~ new[id].confirmed
  <2>1. es[id] = <<>> /\ ~ ClosedBy(es[id]) /\ Len(es[id]) = 0
    BY <1>4, <1>6 DEF ClosedBy
  <2>2. id \in DOMAIN orders' /\ ~ orders'[id].confirmed
    BY <1>3, <1>6, <2>1
  <2>3. {i \in 1..Len(events'[id]) : events'[id][i].orig > 0} = {}
    BY <1>2, <2>1
  <2>4. FindSnapshot(id) = NoSnapshot
    BY <2>2, <2>3 DEF FindSnapshot
  <2>5. NoSnapshot \in Snapshots
    BY DEF NoSnapshot, Snapshots
  <2>6. id \in Unconfirmed'
    BY <2>2 DEF Unconfirmed
  <2> QED BY <1>1, <2>4, <2>5, <2>6
<1>7. CASE new[id].confirmed
  <2> DEFINE snap == [orig |-> book[id].qty, estimated |-> FALSE]
  <2>1. FindSnapshot(id) = snap
    <3>1. CASE ~ ClosedBy(es[id])
      <4>1. id \in DOMAIN orders' /\ orders'[id].confirmed /\ orders'[id] = new[id]
        BY <1>3, <1>7, <3>1
      <4>2. new[id].estimated = FALSE
        BY <1>4, <1>7 DEF States
      <4>3. Snapshot(new[id]) = snap
        BY <1>4, <1>7, <4>2 DEF Snapshot
      <4> QED BY <4>1, <4>3 DEF FindSnapshot
    <3>2. CASE ClosedBy(es[id])
      <4> DEFINE known == {i \in 1..Len(events'[id]) : events'[id][i].orig > 0}
      <4>1. Len(es[id]) = 1 /\ es[id][1].orig = book[id].qty /\ es[id][1].estimated = FALSE
        BY <1>4, <1>7 DEF Tells
      <4>2. known = {1}
        BY <1>2, <1>5, <4>1
      <4>3. Max({1}) = 1
        BY DEF Max
      <4>4. FindSnapshot(id) = Snapshot(events'[id][Max(known)])
        BY <1>3, <3>2, <4>2 DEF FindSnapshot
      <4>5. Snapshot(es[id][1]) = snap
        BY <4>1 DEF Snapshot
      <4> HIDE DEF known
      <4> QED BY <1>2, <4>2, <4>3, <4>4, <4>5
    <3> QED BY <3>1, <3>2
  <2>2. snap.orig = book[id].qty /\ snap.estimated = FALSE
    OBVIOUS
  <2>3. snap \in Snapshots /\ snap # NoSnapshot
    <3>1. NoSnapshot.orig = -1
      BY DEF NoSnapshot
    <3>2. snap.orig # -1
      BY <1>5
    <3>3. book[id].qty \in Int
      BY <1>5
    <3> QED BY <3>1, <3>2, <3>3 DEF Snapshots
  <2>4. Known(id, snap)
    BY <1>4, <1>7, <2>2 DEF Known
  <2> QED BY <1>1, <2>1, <2>3, <2>4
<1> QED BY <1>6, <1>7

\* What a trade leaves among the waiting trades.
LEMMA Queued ==
    ASSUME NEW b, SlotsInv, PairedInv, FlightInv(b), NEW r \in flight, r.kind = "trade", DOMAIN book \subseteq Ids,
           DOMAIN orders \subseteq DOMAIN book, QueueOrEmitTradePair(r), Unconfirmed \subseteq Unconfirmed', UNCHANGED <<book, market>>, Counted,
           flight' = flight \ {r},
           \A id \in Names(r) :
             /\ FindSnapshot(id) \in Snapshots /\ id \in DOMAIN book
             /\ IF FindSnapshot(id) = NoSnapshot THEN id \in Unconfirmed' ELSE Known(id, FindSnapshot(id))
    PROVE  SlotsInv' /\ PairedInv' /\ PairsInv'
<1> DEFINE x == FindSnapshot(r.buy)
           y == FindSnapshot(r.sell)
           pair == [biz |-> r.biz, buy |-> r.buy, sell |-> r.sell, active |-> TRUE, buyOrder |-> x, sellOrder |-> y]
           missing == {id \in {r.buy, r.sell} : FindSnapshot(id) = NoSnapshot}
           n == Len(slots)
           tokens == IF free = {} THEN {n + 1} ELSE free
<1>1. \/ /\ Complete(pair) /\ pairs' = {pair} /\ UNCHANGED <<slots, free, waiters>>
      \/ /\ ~ Complete(pair) /\ pairs' = {}
         /\ \E token \in tokens :
              /\ slots' = [i \in 1..Larger(n, token) |-> IF i = token THEN pair ELSE slots[i]]
              /\ free' = free \ {token}
              /\ waiters' = [id \in DOMAIN waiters \cup missing |->
                               IF id \in missing THEN Append(WaitersOf(id), token) ELSE waiters[id]]
  BY DEF QueueOrEmitTradePair
<1>2. Names(r) = {r.buy, r.sell}
  BY DEF Names
<1>3. /\ x \in Snapshots /\ y \in Snapshots /\ r.buy \in DOMAIN book /\ r.sell \in DOMAIN book
      /\ IF x = NoSnapshot THEN r.buy \in Unconfirmed' ELSE Known(r.buy, x)
      /\ IF y = NoSnapshot THEN r.sell \in Unconfirmed' ELSE Known(r.sell, y)
  BY <1>2
<1>4. /\ r.biz \in Nat /\ r.buy # r.sell /\ r.buy \in Nat /\ r.sell \in Nat
      /\ \A s \in flight : s.biz = r.biz => s = r
  BY <1>3, BuilderAssumption DEF FlightInv
<1>5. \A id : id \in missing <=> (id = r.buy /\ x = NoSnapshot) \/ (id = r.sell /\ y = NoSnapshot)
  OBVIOUS
<1> HIDE DEF x, y, missing
<1>6. /\ pair \in SlotSet /\ pair.biz = r.biz /\ pair.buy = r.buy /\ pair.sell = r.sell /\ pair.active = TRUE
      /\ pair.buyOrder = x /\ pair.sellOrder = y
  BY <1>3, <1>4 DEF SlotSet
<1> HIDE DEF pair
<1>7. FlyingTrades' = FlyingTrades \ {r.biz} /\ r.biz \in FlyingTrades
  BY <1>4 DEF FlyingTrades
<1>8. r.biz \notin WaitingTrades /\ FlyingTrades \cap WaitingTrades = {}
      /\ \A t \in Active, u \in Active : slots[t].biz = slots[u].biz => t = u
  BY <1>7 DEF PairedInv
<1>9. CASE Complete(pair) /\ pairs' = {pair} /\ UNCHANGED <<slots, free, waiters>>
  <2>1. SlotsInv'
    BY <1>9, SlotsStay
  <2>2. PairsInv'
    <3>1. x # NoSnapshot /\ y # NoSnapshot
      BY <1>6, <1>9 DEF Complete
    <3>2. Known(pair.buy, pair.buyOrder) /\ Known(pair.sell, pair.sellOrder)
      BY <1>3, <1>6, <3>1
    <3> QED BY <1>9, <3>2 DEF PairsInv, Known
  <2>3. WaitingTrades' = WaitingTrades /\ Active' = Active
    BY <1>9 DEF WaitingTrades, Active
  <2> DEFINE G == {r.biz}
  <2>4. G \subseteq FlyingTrades \cup WaitingTrades
    BY <1>7
  <2>5. \A k \in G : \E p : {z \in pairs' : z.biz = k} = {p}
    BY <1>6, <1>9
  <2>6. \A k : k \notin G => {z \in pairs' : z.biz = k} = {}
    BY <1>6, <1>9
  <2>7. FlyingTrades' \cup WaitingTrades' = (FlyingTrades \cup WaitingTrades) \ G
    BY <1>7, <1>8, <2>3
  <2>8. FlyingTrades' \cap WaitingTrades' = {}
    BY <1>7, <1>8, <2>3
  <2>9. \A t \in Active', u \in Active' : slots'[t].biz = slots'[u].biz => t = u
    BY <1>8, <1>9, <2>3
  <2> HIDE DEF G
  <2>10. PairedInv'
    BY <2>4, <2>5, <2>6, <2>7, <2>8, <2>9, PairedAfter
  <2> QED BY <2>1, <2>2, <2>10
<1>10. CASE /\ ~ Complete(pair) /\ pairs' = {}
            /\ \E token \in tokens :
                 /\ slots' = [i \in 1..Larger(n, token) |-> IF i = token THEN pair ELSE slots[i]]
                 /\ free' = free \ {token}
                 /\ waiters' = [id \in DOMAIN waiters \cup missing |->
                                  IF id \in missing THEN Append(WaitersOf(id), token) ELSE waiters[id]]
  <2>1. PICK token \in tokens :
          /\ slots' = [i \in 1..Larger(n, token) |-> IF i = token THEN pair ELSE slots[i]]
          /\ free' = free \ {token}
          /\ waiters' = [id \in DOMAIN waiters \cup missing |->
                           IF id \in missing THEN Append(WaitersOf(id), token) ELSE waiters[id]]
    BY <1>10
  <2> DEFINE k == Larger(n, token)
  <2>2. n \in Nat /\ slots \in Seq(SlotSet) /\ \A i \in 1..n : slots[i] \in SlotSet
    BY ElementOfSeq, LenProperties DEF SlotsInv
  <2>3. /\ free \subseteq 1..n /\ waiters \in [DOMAIN waiters -> Seq(1..n)] /\ DOMAIN waiters \subseteq Unconfirmed
        /\ \A i \in 1..n : slots[i].active <=> i \notin free
        /\ \A i \in 1..n : slots[i].active =>
             /\ slots[i].buy \in DOMAIN book /\ slots[i].sell \in DOMAIN book /\ slots[i].buy # slots[i].sell
             /\ ~ Complete(slots[i])
             /\ SideInv(slots[i].buy, slots[i].buyOrder) /\ SideInv(slots[i].sell, slots[i].sellOrder)
        /\ \A i \in 1..n, id \in Ids :
             i \in Range(WaitersOf(id)) <=>
                /\ slots[i].active
                /\ \/ slots[i].buy = id /\ slots[i].buyOrder = NoSnapshot
                   \/ slots[i].sell = id /\ slots[i].sellOrder = NoSnapshot
    BY DEF SlotsInv
  <2>4. token \in Nat \ {0} /\ k \in Nat /\ 1..k = 1..n \cup {token} /\ token \in 1..k
    <3>1. token = n + 1 \/ token \in 1..n
      BY <2>3
    <3> QED BY <2>2, <3>1 DEF Larger
  <2>5. ~ (token \in 1..n /\ slots[token].active)
    <3>1. CASE free = {}
      BY <2>2, <3>1
    <3>2. CASE free # {}
      BY <2>3, <3>2
    <3> QED BY <3>1, <3>2
  <2>6. slots' = [i \in 1..k |-> IF i = token THEN pair ELSE slots[i]]
    BY <2>1
  <2> HIDE DEF k, tokens
  <2>7. /\ slots'[token] = pair /\ \A i \in 1..n : i # token => slots'[i] = slots[i]
    BY <2>4, <2>6
  <2>8. slots' \in Seq(SlotSet) /\ Len(slots') = k
    <3>1. slots' \in [1..k -> SlotSet]
      BY <1>6, <2>2, <2>4, <2>6
    <3> QED BY <2>4, <3>1, SeqDef, LenProperties
  <2>9. /\ Active' = Active \cup {token} /\ token \notin Active /\ Active \subseteq 1..n
    <3>1. \A i \in 1..k : slots'[i].active <=> i = token \/ (i \in 1..n /\ slots[i].active)
      BY <1>6, <2>4, <2>5, <2>7
    <3>2. Active' = {i \in 1..k : slots'[i].active}
      BY <2>8 DEF Active
    <3> QED BY <2>4, <2>5, <3>1, <3>2 DEF Active
  <2>10. \A id : WaitersOf(id) \in Seq(1..n)
    BY <2>3, EmptySeq DEF WaitersOf
  <2>11. \A id : token \notin Range(WaitersOf(id))
    <3> SUFFICES ASSUME NEW id PROVE token \notin Range(WaitersOf(id))
      OBVIOUS
    <3>1. CASE token \notin 1..n
      <4>1. Range(WaitersOf(id)) \subseteq 1..n
        BY <2>10, ElementOfSeq, LenProperties DEF Range
      <4> QED BY <3>1, <4>1
    <3>2. CASE token \in 1..n
      <4>1. CASE id \in DOMAIN waiters
        <5>1. id \in DOMAIN orders
          BY <2>3, <4>1 DEF Unconfirmed
        <5>2. id \in Ids
          BY <5>1
        <5> QED BY <2>3, <2>5, <3>2, <5>2
      <4>2. CASE id \notin DOMAIN waiters
        BY <4>2 DEF WaitersOf, Range
      <4> QED BY <4>1, <4>2
    <3> QED BY <3>1, <3>2
  <2>12. /\ \A id \in missing : WaitersOf(id)' = Append(WaitersOf(id), token)
         /\ \A id : id \notin missing => WaitersOf(id)' = WaitersOf(id)
    BY <2>1 DEF WaitersOf
  <2>13. ASSUME NEW id \in missing
         PROVE  /\ Range(Append(WaitersOf(id), token)) = Range(WaitersOf(id)) \cup {token}
                /\ Append(WaitersOf(id), token) \in Seq(1..k)
    <3> DEFINE s == WaitersOf(id)
               a == Append(s, token)
    <3>1. s \in Seq(1..k) /\ token \in 1..k
      BY <2>4, <2>10, SeqMonotonic
    <3> HIDE DEF s
    <3>2. /\ a \in Seq(1..k) /\ Len(a) = Len(s) + 1 /\ a[Len(s) + 1] = token /\ Len(s) \in Nat
          /\ \A i \in 1..Len(s) : a[i] = s[i]
      BY <3>1, AppendProperties, LenProperties
    <3> HIDE DEF a
    <3>3. Range(a) = {a[i] : i \in 1..Len(a)} /\ Range(s) = {s[i] : i \in 1..Len(s)}
      BY <3>1, <3>2, RangeEquality
    <3>4. 1..Len(a) = 1..Len(s) \cup {Len(s) + 1}
      BY <3>2
    <3>5. Range(a) = Range(s) \cup {token}
      BY <3>2, <3>3, <3>4
    <3> QED BY <3>2, <3>5 DEF a, s
  <2>14. ASSUME NEW i \in 1..k, NEW id \in Ids
         PROVE  i \in Range(WaitersOf(id)') <=>
                  /\ slots'[i].active
                  /\ \/ slots'[i].buy = id /\ slots'[i].buyOrder = NoSnapshot
                     \/ slots'[i].sell = id /\ slots'[i].sellOrder = NoSnapshot
    <3>1. CASE i = token
      <4>1. i \in Range(WaitersOf(id)') <=> id \in missing
        BY <2>11, <2>12, <2>13, <3>1
      <4>2. slots'[i] = pair
        BY <2>7, <3>1
      <4> QED BY <1>5, <1>6, <4>1, <4>2
    <3>2. CASE i # token
      <4>1. i \in 1..n /\ slots'[i] = slots[i]
        BY <2>4, <2>7, <3>2
      <4>2. i \in Range(WaitersOf(id)') <=> i \in Range(WaitersOf(id))
        <5>1. CASE id \in missing
          <6>1. /\ WaitersOf(id)' = Append(WaitersOf(id), token)
                /\ Range(Append(WaitersOf(id), token)) = Range(WaitersOf(id)) \cup {token}
            BY <2>12, <2>13, <5>1
          <6> QED BY <3>2, <6>1
        <5>2. CASE id \notin missing
          <6>1. WaitersOf(id)' = WaitersOf(id)
            BY <2>12, <5>2
          <6> QED BY <6>1
        <5> QED BY <5>1, <5>2
      <4> QED BY <2>3, <4>1, <4>2
    <3> QED BY <3>1, <3>2
  <2>15. missing \subseteq Unconfirmed'
    BY <1>3, <1>5
  <2>16. waiters' \in [DOMAIN waiters' -> Seq(1..k)] /\ DOMAIN waiters' \subseteq Unconfirmed'
    <3>1. \A id \in DOMAIN waiters : waiters[id] \in Seq(1..k)
      BY <2>3, <2>4, SeqMonotonic
    <3>2. DOMAIN waiters' = DOMAIN waiters \cup missing
      BY <2>1
    <3>3. \A id \in missing : waiters'[id] \in Seq(1..k)
      BY <2>1, <2>13
    <3>4. \A id \in DOMAIN waiters \ missing : waiters'[id] \in Seq(1..k)
      BY <2>1, <3>1
    <3>5. waiters' = [id \in DOMAIN waiters' |-> waiters'[id]]
      BY <2>1
    <3>6. waiters' \in [DOMAIN waiters' -> Seq(1..k)]
      BY <3>2, <3>3, <3>4, <3>5
    <3> QED BY <2>3, <2>15, <3>2, <3>6
  <2>17. free' \subseteq 1..k /\ \A i \in 1..k : slots'[i].active <=> i \notin free'
    BY <1>6, <2>1, <2>3, <2>4, <2>7
  <2>18. ASSUME NEW i \in 1..k, slots'[i].active
         PROVE  (/\ slots[i].buy \in DOMAIN book /\ slots[i].sell \in DOMAIN book /\ slots[i].buy # slots[i].sell
                 /\ ~ Complete(slots[i])
                 /\ SideInv(slots[i].buy, slots[i].buyOrder) /\ SideInv(slots[i].sell, slots[i].sellOrder))'
    <3>1. CASE i = token
      <4>1. slots'[i] = pair /\ ~ Complete(pair)
        BY <1>10, <2>7, <3>1
      <4>2. ~ Complete(slots'[i])
        BY <4>1
      <4>3. SideInv(slots[i].buy, slots[i].buyOrder)'
        BY <1>3, <1>6, <4>1 DEF SideInv, Known
      <4>4. SideInv(slots[i].sell, slots[i].sellOrder)'
        BY <1>3, <1>6, <4>1 DEF SideInv, Known
      <4> QED BY <1>3, <1>4, <1>6, <4>1, <4>2, <4>3, <4>4
    <3>2. CASE i # token
      <4>1. i \in 1..n /\ slots'[i] = slots[i] /\ slots[i].active
        BY <2>4, <2>7, <2>18, <3>2
      <4>2. /\ slots[i].buy \in DOMAIN book /\ slots[i].sell \in DOMAIN book /\ slots[i].buy # slots[i].sell
            /\ ~ Complete(slots[i])
            /\ SideInv(slots[i].buy, slots[i].buyOrder) /\ SideInv(slots[i].sell, slots[i].sellOrder)
        BY <2>3, <4>1
      <4>3. ~ Complete(slots'[i])
        BY <4>1, <4>2
      <4>4. SideInv(slots[i].buy, slots[i].buyOrder)'
        BY <4>1, <4>2 DEF SideInv, Known
      <4>5. SideInv(slots[i].sell, slots[i].sellOrder)'
        BY <4>1, <4>2 DEF SideInv, Known
      <4> QED BY <4>1, <4>2, <4>3, <4>4, <4>5
    <3> QED BY <3>1, <3>2
  <2>19. SlotsInv'
    BY <2>8, <2>14, <2>16, <2>17, <2>18 DEF SlotsInv
  <2>20. PairsInv'
    BY <1>10 DEF PairsInv
  <2>21. WaitingTrades' = WaitingTrades \cup {r.biz}
    <3>1. \A t \in Active : slots'[t].biz = slots[t].biz
      BY <2>7, <2>9
    <3>2. slots'[token].biz = r.biz
      BY <1>6, <2>7
    <3> QED BY <2>9, <3>1, <3>2 DEF WaitingTrades
  <2>22. \A t \in Active', u \in Active' : slots'[t].biz = slots'[u].biz => t = u
    <3>1. \A t \in Active : slots'[t].biz = slots[t].biz /\ slots[t].biz \in WaitingTrades
      BY <2>7, <2>9 DEF WaitingTrades
    <3>2. slots'[token].biz = r.biz
      BY <1>6, <2>7
    <3> QED BY <1>8, <2>9, <3>1, <3>2
  <2>23. PairedInv'
    <3> DEFINE G == {}
    <3>1. G \subseteq FlyingTrades \cup WaitingTrades
      OBVIOUS
    <3>2. \A z \in G : \E p : {w \in pairs' : w.biz = z} = {p}
      OBVIOUS
    <3>3. \A z : z \notin G => {w \in pairs' : w.biz = z} = {}
      BY <1>10
    <3>4. FlyingTrades' \cup WaitingTrades' = (FlyingTrades \cup WaitingTrades) \ G
      BY <1>7, <2>21
    <3>5. FlyingTrades' \cap WaitingTrades' = {}
      BY <1>7, <1>8, <2>21
    <3> HIDE DEF G
    <3> QED BY <2>22, <3>1, <3>2, <3>3, <3>4, <3>5, PairedAfter
  <2> QED BY <2>19, <2>20, <2>23
<1> QED BY <1>1, <1>9, <1>10

\* A trade in Shanghai.
LEMMA ShanghaiTradeApplies ==
    ASSUME NEW b, Core(b), NEW r \in flight, market = "SH", r.kind = "trade", OnShanghaiTrade(r)
    PROVE  \E new, es : Store(new, es) /\ Applies(b, r, new, es)
<1> DEFINE new == [id \in {r.buy, r.sell} |-> ShanghaiSide(Touched(StateOf(id), r), r, id)]
           es == [id \in Ids |-> IF id \in DOMAIN new /\ new[id].confirmed
                                 THEN TakenFrom(new[id], "FilledAfterResting") ELSE <<>>]
<1>1. Names(r) = {r.buy, r.sell}
  BY DEF Names
<1>2. Store(new, es)
  BY DEF OnShanghaiTrade
<1>3. DOMAIN new = Names(r) /\ es = [id \in Ids |-> es[id]]
  BY <1>1
<1>4. \A id \in Ids \ Names(r) : es[id] = <<>>
  BY <1>1
<1>5. ASSUME NEW id \in Names(r)
      PROVE  Does(b, id, r, new[id], es[id])
  <2> DEFINE in == id \in DOMAIN orders
             st == StateOf(id)
             o == book[id]
             life == lives[id]
             bt == b[id]
             x == ShanghaiSide(Touched(StateOf(id), r), r, id)
             e == TakenFrom(x, "FilledAfterResting")
  <2>1. Here(b, id, r) /\ id \in Ids /\ o \in Lives /\ st \in States
    BY Situations
  <2>2. new[id] = x /\ es[id] = IF x.confirmed THEN e ELSE <<>>
    BY <1>1, <2>1
  <2>3. Situation(id, o, "SH", bt, life, in, st, flight, r, clock) /\ in \in BOOLEAN /\ id \in {r.buy, r.sell}
        /\ x = ShanghaiSide(Touched(st, r), r, id)
    BY <1>1, <2>1 DEF Here
  <2> HIDE DEF new, es, in, st, o, life, bt, x
  <2>4. CASE ~ st.confirmed
    <3>1. Handled(id, o, "SH", bt, life, in, st, flight, r, clock, x, <<>>)
      BY <2>1, <2>3, <2>4, HandledTradePending
    <3>2. Len(<<>>) = 0
      OBVIOUS
    <3>3. ~ x.confirmed
      BY <3>1, <3>2 DEF Handled, Tells
    <3>4. new[id] = x /\ es[id] = <<>>
      BY <2>2, <3>3
    <3> QED BY <3>1, <3>4 DEF Does, in, st, o, life, bt
  <2>5. CASE st.confirmed
    <3>1. AtLive(id, o, "SH", life, in, st, flight)
      BY <2>3, <2>5, NotOver DEF AtWaiting, IsWaiting
    <3>2. Handled(id, o, "SH", bt, life, in, st, flight, r, clock, x, e)
      BY <2>1, <2>3, <3>1, HandledTradeLive
    <3>3. Len(e) = 1 /\ Len(<<>>) = 0
      BY TakenFromIs
    <3>4. x.confirmed
      <4>1. e # <<>>
        BY <3>3
      <4> HIDE DEF e
      <4> QED BY <3>2, <4>1 DEF Handled
    <3>5. new[id] = x /\ es[id] = e
      BY <2>2, <3>4
    <3> QED BY <3>2, <3>5 DEF Does, in, st, o, life, bt
  <2> QED BY <2>4, <2>5
<1> HIDE DEF new, es
<1> QED BY <1>2, <1>3, <1>4, <1>5 DEF Applies

\* A trade in Shenzhen.
LEMMA ShenzhenTradeApplies ==
    ASSUME NEW b, Core(b), NEW r \in flight, market = "SZ", r.kind = "trade", OnShenzhenTrade(r),
           ~ \E o \in flight : o.kind = "order" /\ o.id \in Names(r)
    PROVE  \E new, es : Store(new, es) /\ Applies(b, r, new, es)
<1> DEFINE new == [id \in {r.buy, r.sell} \cap DOMAIN orders |-> ShenzhenSide(orders[id], r, id)]
           es == [id \in Ids |-> IF id \in DOMAIN new THEN TakenFrom(new[id], "FilledAfterResting") ELSE <<>>]
<1>1. Names(r) = {r.buy, r.sell}
  BY DEF Names
<1>2. Store(new, es)
  BY DEF OnShenzhenTrade
<1>3. \A id \in Names(r) : id \in DOMAIN orders
  BY ShenzhenLive
<1>4. DOMAIN new = Names(r) /\ es = [id \in Ids |-> es[id]]
  BY <1>1, <1>3
<1>5. \A id \in Ids \ Names(r) : es[id] = <<>>
  BY <1>1
<1>6. ASSUME NEW id \in Names(r)
      PROVE  Does(b, id, r, new[id], es[id])
  <2> DEFINE in == id \in DOMAIN orders
             st == StateOf(id)
             o == book[id]
             life == lives[id]
             bt == b[id]
             x == ShenzhenSide(st, r, id)
             e == TakenFrom(x, "FilledAfterResting")
  <2>1. Here(b, id, r) /\ id \in Ids /\ o \in Lives /\ st \in States
    BY Situations
  <2>2. new[id] = x /\ es[id] = e
    BY <1>1, <1>3, <2>1 DEF StateOf
  <2>3. /\ Situation(id, o, "SZ", bt, life, in, st, flight, r, clock) /\ id \in {r.buy, r.sell}
        /\ AtLive(id, o, "SZ", life, in, st, flight)
    BY <1>1, <2>1, ShenzhenLive DEF Here
  <2> HIDE DEF new, es, in, st, o, life, bt
  <2>4. Handled(id, o, "SZ", bt, life, in, st, flight, r, clock, x, e)
    BY <2>1, <2>3, HandledTradeLive
  <2> HIDE DEF x, e
  <2> QED BY <2>2, <2>4 DEF Does, in, st, o, life, bt
<1> HIDE DEF new, es
<1> QED BY <1>2, <1>4, <1>5, <1>6 DEF Applies

\* A trade is delivered.
LEMMA DeliverTrade ==
    ASSUME NEW b, FeedInv(b), NEW r \in flight, r.kind = "trade", clock >= Smaller(r.time, LastPoint),
           NEW new, NEW es, Store(new, es), Applies(b, r, new, es), Taken(r), Counted, QueueOrEmitTradePair(r)
    PROVE  FeedInv(b)'
<1>1. Core(b) /\ SlotsInv /\ PairedInv /\ FlightInv(b)
  BY DEF FeedInv, Core
<1>2. BookInv(b)' /\ FlightInv(b)' /\ StageInv'
  BY <1>1, TakenFrame
<1>3. IdsInv(b)' /\ HeapInv' /\ Conservation' /\ Unconfirmed \subseteq Unconfirmed'
  BY <1>1, StoreIds
<1>4. DOMAIN book \subseteq Ids /\ DOMAIN orders \subseteq DOMAIN book
  BY <1>1 DEF Core, BookInv, IdsInv
<1>5. \A id \in Names(r) :
        /\ FindSnapshot(id) \in Snapshots /\ id \in DOMAIN book
        /\ IF FindSnapshot(id) = NoSnapshot THEN id \in Unconfirmed' ELSE Known(id, FindSnapshot(id))
  BY <1>1, FoundIs
<1>6. flight' = flight \ {r} /\ UNCHANGED <<book, market>>
  BY DEF Taken
<1>7. SlotsInv' /\ PairedInv' /\ PairsInv'
  BY <1>1, <1>3, <1>4, <1>5, <1>6, Queued
<1> QED BY <1>2, <1>3, <1>7 DEF FeedInv

\* Every delivery keeps the invariant.
LEMMA DeliverKeeps ==
    ASSUME NEW b, FeedInv(b), NEW r \in flight, Deliver(r)
    PROVE  FeedInv(b)'
<1>1. Core(b)
  BY DEF FeedInv, Core
<1>2. /\ clock >= Smaller(r.time, LastPoint)
      /\ market = "SZ" /\ r.kind # "order" => ~\E o \in flight : o.kind = "order" /\ o.id \in Names(r)
      /\ OnOrder(r) \/ OnTrans(r)
      /\ Taken(r) /\ Counted
  BY DEF Deliver, Consume, Taken, Counted
<1>3. CASE market = "SZ" /\ r.kind = "order" /\ OnShenzhenOrder(r)
  BY <1>2, <1>3, DeliverOrder
<1>4. CASE /\ market = "SH"
           /\ \/ r.kind = "A" /\ OnShanghaiAdd(r)
              \/ r.kind = "D" /\ OnShanghaiDelete(r)
           /\ pairs' = {}
           /\ UNCHANGED <<slots, free, waiters>>
  <2>1. PICK new, es : Store(new, es) /\ Applies(b, r, new, es)
    BY <1>1, <1>4, AddApplies, DeleteApplies
  <2>2. r.kind # "trade"
    BY <1>4
  <2> QED BY <1>2, <1>4, <2>1, <2>2, NoTrade
<1>5. CASE /\ r.kind = "cancel" /\ market = "SZ"
           /\ OnShenzhenCancel(r)
           /\ pairs' = {}
           /\ UNCHANGED <<slots, free, waiters>>
  <2>1. ~ \E o \in flight : o.kind = "order" /\ o.id \in Names(r)
    BY <1>2, <1>5
  <2>2. PICK new, es : Store(new, es) /\ Applies(b, r, new, es)
    BY <1>1, <1>5, <2>1, CancelApplies
  <2>3. r.kind # "trade"
    BY <1>5
  <2> QED BY <1>2, <1>5, <2>2, <2>3, NoTrade
<1>6. CASE /\ r.kind = "trade"
           /\ \/ market = "SZ" /\ OnShenzhenTrade(r)
              \/ market = "SH" /\ OnShanghaiTrade(r)
           /\ QueueOrEmitTradePair(r)
  <2>1. market = "SZ" => ~ \E o \in flight : o.kind = "order" /\ o.id \in Names(r)
    BY <1>2, <1>6
  <2>2. PICK new, es : Store(new, es) /\ Applies(b, r, new, es)
    BY <1>1, <1>6, <2>1, ShenzhenTradeApplies, ShanghaiTradeApplies
  <2> QED BY <1>2, <1>6, <2>2, DeliverTrade
<1> QED BY <1>2, <1>3, <1>4, <1>5, <1>6 DEF OnOrder, OnTrans

-----------------------------------------------------------------------------
(* The watermark.                                                            *)

\* A state of the builder is that of an order which is live, or which waits and is in the heap.
LEMMA StatesAre ==
    ASSUME NEW b, Core(b), NEW id \in DOMAIN orders
    PROVE  /\ id \in DOMAIN book /\ id \in Ids /\ book[id] \in Lives /\ Within(book[id])
           /\ orders[id] \in States /\ StateOf(id) = orders[id] /\ clock \in Nat
           /\ \/ /\ AtLive(id, book[id], market, lives[id], TRUE, orders[id], flight)
                 /\ orders[id].confirmed /\ orders[id].scheduled = 0
              \/ /\ AtWaiting(id, book[id], "SH", b[id], lives[id], TRUE, orders[id], flight, clock)
                 /\ lives[id] = <<>> /\ IsWaiting(id, book[id], "SH", b[id], orders[id], flight)
                 /\ ~ orders[id].confirmed /\ market = "SH"
                 /\ IsPending(b[id], orders[id], clock)
<1>1. id \in DOMAIN book /\ id \in Ids /\ book[id] \in Lives /\ Within(book[id]) /\ clock \in Nat
  BY DEF Core, BookInv, IdsInv, StageInv
<1>2. StateOf(id) = orders[id]
  BY DEF StateOf
<1>3. At(id, book[id], market, b[id], lives[id], id \in DOMAIN orders, StateOf(id), flight, clock)
  BY <1>1 DEF Core, IdsInv
<1>4. (id \in DOMAIN orders) = TRUE
  OBVIOUS
<1>5. At(id, book[id], market, b[id], lives[id], TRUE, orders[id], flight, clock)
  BY <1>2, <1>3, <1>4
<1>6. orders[id] \in States
  BY <1>5 DEF At
<1>7. CASE AtWaiting(id, book[id], market, b[id], lives[id], TRUE, orders[id], flight, clock)
  <2>1. market = "SH" /\ IsPending(b[id], orders[id], clock) /\ lives[id] = <<>>
        /\ IsWaiting(id, book[id], market, b[id], orders[id], flight)
    BY <1>7 DEF AtWaiting
  <2>2. ~ orders[id].confirmed
    BY <2>1 DEF IsWaiting
  <2> QED BY <1>1, <1>2, <1>6, <1>7, <2>1, <2>2
<1>8. CASE AtLive(id, book[id], market, lives[id], TRUE, orders[id], flight)
  BY <1>1, <1>2, <1>6, <1>8 DEF AtLive, IsLive
<1>9. CASE AtGone(id, book[id], lives[id], TRUE, flight)
  BY <1>9 DEF AtGone
<1> QED BY <1>5, <1>7, <1>8, <1>9 DEF At

\* When the watermark passes an order, all that it must know has come.
LEMMA AllCame ==
    ASSUME NEW b, Core(b), NEW id \in DOMAIN orders, IsPending(b[id], orders[id], clock),
           NEW t \in Nat, orders[id].maxTime <= SafeTime(t), \A r \in flight : t <= r.time + Lag
    PROVE  About(flight, "entry", id) = {} /\ About(flight, "imm", id) = {}
<1>1. ASSUME NEW r \in flight, Part(r, id) \in {"imm", "entry"}
      PROVE  FALSE
  <2>1. id \in DOMAIN book /\ clock \in Nat
    BY StatesAre
  <2>2. Fits(r, id, book[id], market, b[id]) /\ r.time \in Nat
    BY <2>1 DEF Core, FlightInv
  <2>3. r.time = b[id].time
    BY <1>1, <2>2 DEF Fits
  <2>4. b[id].time <= orders[id].maxTime /\ orders[id].maxTime \in Nat
    BY DEF IsPending
  <2>5. orders[id].maxTime <= t - Ttl /\ t <= r.time + Lag
    BY DEF SafeTime
  <2>6. Lag < Ttl /\ Lag \in Nat /\ Ttl \in Nat
    BY FeedAssumption, BuilderAssumption
  <2> QED BY <2>1, <2>2, <2>3, <2>4, <2>5, <2>6
<1> QED BY <1>1 DEF About

\* What FinalizeShanghaiPending does with the orders of the heap.
LEMMA ReadyIs ==
    ASSUME NEW b, Core(b), NEW t \in Nat, \A r \in flight : t <= r.time + Lag,
           NEW safe, safe = SafeTime(t), NEW id \in DOMAIN orders
    PROVE  LET st == orders[id]
           IN  /\ id \in Due(safe) <=> ~ st.confirmed /\ st.scheduled <= safe
               /\ id \in Postponed(safe) <=> ~ st.confirmed /\ st.scheduled <= safe /\ st.maxTime > safe
               /\ id \in Ready(safe) <=> ~ st.confirmed /\ st.maxTime <= safe
               /\ id \in Ready(safe) => /\ IsWaiting(id, book[id], "SH", b[id], st, flight) /\ market = "SH"
                                        /\ About(flight, "entry", id) = {} /\ About(flight, "imm", id) = {}
                                        /\ lives[id] = <<>>
<1> DEFINE st == orders[id]
<1>1. id \in Due(safe) <=> st.scheduled # 0 /\ st.scheduled <= safe
  <2>1. st.scheduled # 0 => <<st.scheduled, id>> \in deadlines
    BY DEF Core, HeapInv
  <2> QED BY <2>1 DEF Due
<1>2. safe \in Int /\ st \in States
  <2>1. clock \in Nat /\ Ttl \in Nat /\ st \in States
    BY StatesAre, BuilderAssumption
  <2>2. safe = t - Ttl
    BY DEF SafeTime
  <2>3. safe \in Int
    BY <2>1, <2>2
  <2> QED BY <2>1, <2>3
<1>3. CASE st.confirmed
  <2>1. st.scheduled = 0
    BY <1>3, StatesAre
  <2> QED BY <1>1, <1>3, <2>1 DEF Postponed, Ready
<1>4. CASE ~ st.confirmed
  <2>1. /\ IsWaiting(id, book[id], "SH", b[id], st, flight) /\ IsPending(b[id], st, clock)
        /\ market = "SH" /\ lives[id] = <<>>
    BY <1>4, StatesAre
  <2>2. st.maxTime \in Nat /\ st.scheduled \in Nat \ {0} /\ st.scheduled <= st.maxTime
    BY <2>1 DEF IsPending
  <2>3. ASSUME st.maxTime <= safe
        PROVE  About(flight, "entry", id) = {} /\ About(flight, "imm", id) = {} /\ (st.hasA \/ st.hasIncoming)
    <3>1. About(flight, "entry", id) = {} /\ About(flight, "imm", id) = {}
      BY <2>1, <2>3, AllCame
    <3>2. Records(flight)
      BY DEF Core, FlightInv
    <3>3. book[id] \in Lives /\ Within(book[id])
      BY StatesAre
    <3>4. st.hasA \/ st.hasIncoming
      BY <1>2, <2>1, <3>1, <3>2, <3>3, FinalIs
    <3> QED BY <3>1, <3>4
  <2>4. id \in Due(safe) <=> st.scheduled <= safe
    BY <1>1, <2>2
  <2>5. id \in Postponed(safe) <=> st.scheduled <= safe /\ st.maxTime > safe
    BY <2>4 DEF Postponed
  <2>6. id \in Ready(safe) <=> st.maxTime <= safe
    BY <1>2, <1>4, <2>2, <2>3, <2>4, <2>5 DEF Ready
  <2> QED BY <1>4, <2>1, <2>3, <2>4, <2>5, <2>6
<1> QED BY <1>3, <1>4

\* The watermark at one order.
LEMMA PassesOrder ==
    ASSUME NEW b, Core(b), NEW t \in Nat, \A r \in flight : t <= r.time + Lag,
           NEW safe, safe = SafeTime(t), NEW id \in DOMAIN orders,
           NEW es, es = (IF id \in Ready(safe) THEN FinalEvents(FinalState(orders[id])) ELSE <<>>),
           NEW after \in States,
           ~ ClosedBy(es) => after = IF id \in Ready(safe) THEN FinalState(orders[id])
                                     ELSE IF id \in Postponed(safe)
                                          THEN [orders[id] EXCEPT !.scheduled = orders[id].maxTime]
                                     ELSE IF id \in Due(safe) THEN [orders[id] EXCEPT !.scheduled = 0]
                                     ELSE orders[id]
    PROVE  /\ At(id, book[id], market, b[id], lives[id] \o Life(es), ~ ClosedBy(es), after, flight, t)
           /\ \A i \in 1..Len(es) : Adds(es[i])
<1> DEFINE st == orders[id]
           o == book[id]
           bt == b[id]
           life == lives[id]
<1>1. /\ o \in Lives /\ Within(o) /\ st \in States /\ Records(flight) /\ clock \in Nat
      /\ safe \in Int /\ safe = t - Ttl /\ Ttl \in Nat
  <2>1. o \in Lives /\ Within(o) /\ st \in States /\ clock \in Nat
    BY StatesAre
  <2>2. Records(flight) /\ Ttl \in Nat
    BY BuilderAssumption DEF Core, FlightInv
  <2>3. safe = t - Ttl
    BY DEF SafeTime
  <2>4. safe \in Int
    BY <2>1, <2>2, <2>3
  <2> QED BY <2>1, <2>2, <2>3, <2>4
<1>2. /\ id \in Due(safe) <=> ~ st.confirmed /\ st.scheduled <= safe
      /\ id \in Postponed(safe) <=> ~ st.confirmed /\ st.scheduled <= safe /\ st.maxTime > safe
      /\ id \in Ready(safe) <=> ~ st.confirmed /\ st.maxTime <= safe
      /\ id \in Ready(safe) => /\ IsWaiting(id, o, "SH", bt, st, flight) /\ market = "SH"
                               /\ About(flight, "entry", id) = {} /\ About(flight, "imm", id) = {}
                               /\ life = <<>>
  BY ReadyIs
<1>3. ~ ClosedBy(<<>>) /\ Len(<<>>) = 0
  BY DEF ClosedBy
<1>4. CASE id \in Ready(safe)
  <2> DEFINE new == FinalState(st)
             clk == t
  <2>1. es = FinalEvents(new) /\ (~ ClosedBy(es) => after = new)
    BY <1>4
  <2>2. /\ IsWaiting(id, o, "SH", bt, st, flight) /\ market = "SH"
        /\ About(flight, "entry", id) = {} /\ About(flight, "imm", id) = {} /\ life = <<>>
    BY <1>2, <1>4
  <2> HIDE DEF new, clk
  <2>3. At(id, o, "SH", bt, <<>> \o Life(es), ~ ClosedBy(es), after, flight, clk)
    BY <1>1, <2>1, <2>2, FinalAt DEF new
  <2>4. \A i \in 1..Len(es) : Adds(es[i])
    BY <1>1, <2>1, <2>2, FinalAt DEF new
  <2> QED BY <2>2, <2>3, <2>4 DEF clk
<1>5. CASE id \notin Ready(safe)
  <2>1. es = <<>>
    BY <1>5
  <2>2. \A i \in 1..Len(es) : Adds(es[i])
    BY <1>3, <2>1
  <2>3. CASE st.confirmed
    <3>1. after = st /\ AtLive(id, o, market, life, TRUE, st, flight)
      BY <1>2, <1>3, <1>5, <2>1, <2>3, StatesAre
    <3>2. At(id, o, market, bt, life, TRUE, st, flight, t)
      BY <1>1, <3>1 DEF At
    <3>3. life \o Life(<<>>) = life
      BY <3>2, LifeNone
    <3> QED BY <1>3, <2>1, <2>2, <3>1, <3>2, <3>3
  <2>4. CASE ~ st.confirmed
    <3>1. /\ life = <<>> /\ IsWaiting(id, o, "SH", bt, st, flight) /\ market = "SH" /\ IsPending(bt, st, clock)
      BY <2>4, StatesAre
    <3>2. st.maxTime > safe
      <4>1. ~ (st.maxTime <= safe)
        BY <1>2, <1>5, <2>4
      <4>2. st.maxTime \in Int /\ safe \in Int
        BY <1>1 DEF States
      <4> QED BY <4>1, <4>2
    <3>3. /\ after.maxTime = st.maxTime /\ (after.scheduled = st.scheduled \/ after.scheduled = st.maxTime)
          /\ after.confirmed = st.confirmed /\ after.hasA = st.hasA /\ after.hasIncoming = st.hasIncoming
          /\ after.aBiz = st.aBiz /\ after.aRest = st.aRest /\ after.frags = st.frags /\ after.canc = st.canc
      <4>1. CASE id \in Postponed(safe)
        <5>1. after = [st EXCEPT !.scheduled = st.maxTime]
          BY <1>3, <1>5, <2>1, <4>1
        <5> QED BY <1>1, <5>1 DEF States
      <4>2. CASE id \notin Postponed(safe)
        <5>1. after = st
          BY <1>2, <1>3, <1>5, <2>1, <2>4, <3>2, <4>2
        <5> QED BY <5>1
      <4> QED BY <4>1, <4>2
    <3>4. IsPending(bt, after, t)
      BY <1>1, <3>1, <3>2, <3>3 DEF IsPending
    <3>5. IsWaiting(id, o, "SH", bt, after, flight)
      <4>1. Incomings(after) = Incomings(st) /\ Others(after) = Others(st)
        BY <3>3 DEF Incomings, Others
      <4> QED BY <3>1, <3>3, <4>1 DEF IsWaiting
    <3>6. At(id, o, market, bt, life, TRUE, after, flight, t)
      BY <3>1, <3>4, <3>5 DEF At, AtWaiting
    <3>7. life \o Life(<<>>) = life
      BY <3>6, LifeNone
    <3> QED BY <1>3, <2>1, <2>2, <3>6, <3>7
  <2> QED BY <2>3, <2>4
<1> QED BY <1>4, <1>5

\* The state that the watermark leaves of an order.
Passed(safe, id) ==
    IF id \in Ready(safe) THEN FinalState(orders[id])
    ELSE IF id \in Postponed(safe) THEN [orders[id] EXCEPT !.scheduled = orders[id].maxTime]
    ELSE IF id \in Due(safe) THEN [orders[id] EXCEPT !.scheduled = 0]
    ELSE orders[id]

\* What is left of an order is a state, and is in the heap at the time of its latest record, or as before.
LEMMA PassedIs ==
    ASSUME NEW b, Core(b), NEW t \in Nat, \A r \in flight : t <= r.time + Lag,
           NEW safe, safe = SafeTime(t), NEW id \in DOMAIN orders, NEW x, x = Passed(safe, id)
    PROVE  /\ x \in States
           /\ id \in Ready(safe) => /\ x.scheduled = 0 /\ x.confirmed
                                    /\ Known(id, Snapshot(x)) /\ x.estimated \in BOOLEAN
           /\ id \notin Ready(safe) => x.confirmed = orders[id].confirmed
           /\ id \in Postponed(safe) => x.scheduled = orders[id].maxTime /\ x.scheduled # 0
           /\ id \notin Ready(safe) \cup Postponed(safe) => x = orders[id] /\ (x.scheduled # 0 => x.scheduled > safe)
           /\ Ready(safe) \cap Postponed(safe) = {}
           /\ id \in Ready(safe) \cup Postponed(safe) => orders[id].scheduled <= safe
<1> DEFINE st == orders[id]
<1>1. /\ st \in States /\ book[id] \in Lives /\ Within(book[id])
      /\ st.confirmed => st.scheduled = 0
      /\ ~ st.confirmed => IsPending(b[id], st, clock)
  BY StatesAre
<1>2. /\ id \in Due(safe) <=> ~ st.confirmed /\ st.scheduled <= safe
      /\ id \in Postponed(safe) <=> ~ st.confirmed /\ st.scheduled <= safe /\ st.maxTime > safe
      /\ id \in Ready(safe) <=> ~ st.confirmed /\ st.maxTime <= safe
      /\ id \in Ready(safe) => /\ IsWaiting(id, book[id], "SH", b[id], st, flight) /\ market = "SH"
                               /\ About(flight, "entry", id) = {} /\ About(flight, "imm", id) = {}
  BY ReadyIs
<1>3. st.maxTime \in Int /\ st.scheduled \in Int /\ safe \in Int
  <2>1. clock \in Nat /\ Ttl \in Nat
    BY StatesAre, BuilderAssumption
  <2>2. safe = t - Ttl
    BY DEF SafeTime
  <2>3. safe \in Int
    BY <2>1, <2>2
  <2> QED BY <1>1, <2>3 DEF States
<1>4. Ready(safe) \cap Postponed(safe) = {}
  BY DEF Ready
<1>5. ~ st.confirmed => st.scheduled # 0 /\ st.maxTime # 0 /\ st.scheduled <= st.maxTime
  <2> SUFFICES ASSUME ~ st.confirmed PROVE st.scheduled # 0 /\ st.maxTime # 0 /\ st.scheduled <= st.maxTime
    OBVIOUS
  <2>1. st.maxTime \in Nat /\ st.scheduled \in Nat \ {0} /\ st.scheduled <= st.maxTime
    BY <1>1 DEF IsPending
  <2> QED BY <2>1
<1>6. CASE id \in Ready(safe)
  <2>1. x = FinalState(st)
    BY <1>6 DEF Passed
  <2>2. Records(flight)
    BY DEF Core, FlightInv
  <2>3. x \in States /\ x.orig = book[id].qty /\ (x.estimated <=> book[id].imm = book[id].qty)
    BY <1>1, <1>2, <1>6, <2>1, <2>2, FinalIs
  <2>4. x.scheduled = 0 /\ x.confirmed
    BY <1>1, <2>1 DEF FinalState, States
  <2>5. x.estimated \in BOOLEAN
    BY <2>3 DEF States
  <2>6. Snapshot(x).orig = x.orig /\ Snapshot(x).estimated = x.estimated
    BY DEF Snapshot
  <2>7. Known(id, Snapshot(x))
    BY <1>2, <1>6, <2>3, <2>6 DEF Known
  <2>8. st.scheduled <= safe
    BY <1>2, <1>3, <1>5, <1>6
  <2> QED BY <1>4, <1>6, <2>3, <2>4, <2>5, <2>7, <2>8
<1>7. CASE id \in Postponed(safe)
  <2>1. id \notin Ready(safe)
    BY <1>4, <1>7
  <2>2. x = [st EXCEPT !.scheduled = st.maxTime]
    BY <1>7, <2>1 DEF Passed
  <2>3. x \in States /\ x.scheduled = st.maxTime /\ x.confirmed = st.confirmed
    BY <1>1, <1>3, <2>2 DEF States
  <2> QED BY <1>2, <1>4, <1>5, <1>7, <2>1, <2>3
<1>8. CASE id \notin Ready(safe) \cup Postponed(safe)
  <2>1. id \notin Due(safe)
    BY <1>2, <1>3, <1>8
  <2>2. x = st
    BY <1>8, <2>1 DEF Passed
  <2>3. x.scheduled # 0 => x.scheduled > safe
    BY <1>1, <1>2, <1>3, <2>1, <2>2
  <2> QED BY <1>1, <1>4, <1>8, <2>2, <2>3
<1> QED BY <1>6, <1>7, <1>8

\* What the watermark has not passed an earlier one has not; an order without a
\* state has nothing to do with it.
LEMMA AtEarlier ==
    ASSUME NEW id, NEW o, NEW m, NEW bt, NEW life, NEW in, NEW st, NEW F, NEW clk,
           At(id, o, m, bt, life, in, st, F, clk), NEW low,
           ~ in \/ (low \in Nat /\ clk \in Nat /\ low <= clk)
    PROVE  At(id, o, m, bt, life, in, st, F, low)
<1>1. CASE AtWaiting(id, o, m, bt, life, in, st, F, clk)
  <2>1. CASE in
    <3>1. IsPending(bt, st, clk)
      BY <1>1, <2>1 DEF AtWaiting
    <3>2. IsPending(bt, st, low)
      BY <2>1, <3>1, BuilderAssumption DEF IsPending
    <3> QED BY <1>1, <2>1, <3>2 DEF At, AtWaiting
  <2>2. CASE ~ in
    BY <1>1, <2>2 DEF At, AtWaiting
  <2> QED BY <2>1, <2>2
<1>2. CASE AtLive(id, o, m, life, in, st, F) \/ AtGone(id, o, life, in, F)
  BY <1>2 DEF At
<1> QED BY <1>1, <1>2 DEF At

\* A time point keeps the invariant.
LEMMA TimeKeeps ==
    ASSUME NEW b, FeedInv(b), NEW t \in 1..Close, t < Close, OnGlobalTime(t)
    PROVE  FeedInv(b)'
<1> DEFINE safe == SafeTime(t)
           final == Finalized(safe)
           es == [id \in Ids |-> IF id \in Ready(safe) THEN FinalEvents(final[id]) ELSE <<>>]
<1>1. Core(b) /\ SlotsInv /\ PairedInv
  BY DEF FeedInv, Core
<1>2. /\ now = Close /\ clock < LastPoint /\ ~ ended /\ clock' = Smaller(t, LastPoint)
      /\ \A r \in flight : t <= r.time + Lag
      /\ UNCHANGED <<market, book, biz, now, flight, flagged, ended>>
      /\ lives' = [id \in Ids |-> lives[id] \o Life(events'[id])] /\ Counted
  BY DEF OnGlobalTime, Consume, Counted
<1>3. /\ clock \in Nat /\ LastPoint \in 1..Close - 1 /\ Close \in Nat /\ t \in Nat \ {0}
      /\ clock' \in 1..LastPoint /\ clock' <= t
  <2>1. LastPoint \in Nat \ {0} /\ Close \in Nat /\ t \in Nat \ {0}
    BY FeedAssumption
  <2> QED BY <1>1, <1>2, <2>1, FeedAssumption DEF Core, StageInv, Smaller
<1>4. AdvanceWatermark(t)
  <2>1. ~ (t >= Close)
    BY <1>3
  <2> QED BY <2>1 DEF OnGlobalTime
<1>5. /\ orders' = [id \in {x \in DOMAIN orders : ~ClosedBy(es[x])} |-> Passed(safe, id)]
      /\ deadlines' = {d \in deadlines : d[1] > safe} \cup {<<orders[id].maxTime, id>> : id \in Postponed(safe)}
      /\ events' = es
      /\ ResolveWaitingPairs(final)
  <2>1. \A id : id \in Ready(safe) => final[id] = FinalState(orders[id])
    BY DEF Finalized
  <2>2. orders' = [id \in {x \in DOMAIN orders : ~ClosedBy(es[x])} |->
                        IF id \in Ready(safe) THEN final[id]
                        ELSE IF id \in Postponed(safe)
                             THEN [orders[id] EXCEPT !.scheduled = orders[id].maxTime]
                        ELSE IF id \in Due(safe) THEN [orders[id] EXCEPT !.scheduled = 0]
                        ELSE orders[id]]
    BY <1>4 DEF AdvanceWatermark
  <2>3. orders' = [id \in {x \in DOMAIN orders : ~ClosedBy(es[x])} |-> Passed(safe, id)]
    <3> HIDE DEF es, final
    <3> QED BY <2>1, <2>2 DEF Passed
  <2> QED BY <1>4, <2>3 DEF AdvanceWatermark
<1>6. /\ DOMAIN final = Ready(safe) /\ \A id \in Ready(safe) : final[id] = FinalState(orders[id])
      /\ \A id \in Ready(safe) : final[id] = Passed(safe, id)
  BY DEF Finalized, Passed
<1>7. Ready(safe) \subseteq DOMAIN orders /\ Postponed(safe) \subseteq DOMAIN orders
  BY DEF Ready, Postponed, Due
<1>8. /\ DOMAIN orders \subseteq DOMAIN book /\ DOMAIN book \subseteq Ids
      /\ book \in [DOMAIN book -> Lives]
  BY <1>1 DEF Core, BookInv, IdsInv
<1>9. /\ \A id \in Ready(safe) : es[id] = FinalEvents(FinalState(orders[id]))
      /\ \A id \in Ids : id \notin Ready(safe) => es[id] = <<>>
  BY <1>6, <1>7, <1>8
<1>10. es = [id \in Ids |-> es[id]]
  OBVIOUS
<1> HIDE DEF es, final, safe
<1>11. \A id \in DOMAIN orders : Passed(safe, id) \in States
  BY <1>1, <1>2, <1>3, PassedIs DEF safe
<1>12. /\ \A id : id \in DOMAIN orders' <=> id \in DOMAIN orders /\ ~ ClosedBy(es[id])
       /\ \A id \in DOMAIN orders' : orders'[id] = Passed(safe, id)
       /\ orders' = [id \in DOMAIN orders' |-> orders'[id]]
  BY <1>5
<1>13. ~ ClosedBy(<<>>) /\ Len(<<>>) = 0
  BY DEF ClosedBy
<1>14. ASSUME NEW id \in DOMAIN orders
       PROVE  /\ At(id, book[id], market, b[id], lives'[id], id \in DOMAIN orders', StateOf(id)', flight, clock')
              /\ \A i \in 1..Len(es[id]) : Adds(es[id][i])
  <2>1. id \in Ids /\ lives'[id] = lives[id] \o Life(es[id])
    BY <1>2, <1>5, <1>8
  <2>2. (id \in DOMAIN orders') = (~ ClosedBy(es[id]))
    BY <1>12
  <2>3. StateOf(id)' \in States /\ (~ ClosedBy(es[id]) => StateOf(id)' = Passed(safe, id))
    BY <1>11, <1>12, FreshIs DEF StateOf
  <2>4. es[id] = IF id \in Ready(safe) THEN FinalEvents(FinalState(orders[id])) ELSE <<>>
    BY <1>9, <2>1
  <2> DEFINE e == es[id]
             after == StateOf(id)'
  <2> HIDE DEF e, after
  <2>5. e = (IF id \in Ready(safe) THEN FinalEvents(FinalState(orders[id])) ELSE <<>>) /\ after \in States
        /\ (~ ClosedBy(e) => after = IF id \in Ready(safe) THEN FinalState(orders[id])
                                     ELSE IF id \in Postponed(safe)
                                          THEN [orders[id] EXCEPT !.scheduled = orders[id].maxTime]
                                     ELSE IF id \in Due(safe) THEN [orders[id] EXCEPT !.scheduled = 0]
                                     ELSE orders[id])
    BY <2>3, <2>4 DEF Passed, e, after
  <2>6. /\ At(id, book[id], market, b[id], lives[id] \o Life(e), ~ ClosedBy(e), after, flight, t)
        /\ \A i \in 1..Len(e) : Adds(e[i])
    BY <1>1, <1>2, <1>3, <2>5, PassesOrder DEF safe
  <2>7. At(id, book[id], market, b[id], lives[id] \o Life(e), ~ ClosedBy(e), after, flight, clock')
    <3>1. clock' \in Nat /\ t \in Nat /\ clock' <= t
      BY <1>3
    <3> QED BY <2>6, <3>1, AtEarlier
  <2> QED BY <2>1, <2>2, <2>6, <2>7 DEF e, after
<1>15. IdsInv(b)'
  <2>1. DOMAIN orders' \subseteq DOMAIN book'
    BY <1>2, <1>8, <1>12
  <2>2. lives' = [id \in Ids |-> lives'[id]]
    BY <1>2
  <2>3. ASSUME NEW id \in Ids \ DOMAIN book
        PROVE  lives'[id] = <<>>
    <3>1. lives[id] = <<>> /\ id \notin Ready(safe)
      BY <1>1, <1>7, <1>8, <2>3 DEF Core, IdsInv
    <3>2. es[id] = <<>>
      BY <1>9, <2>3, <3>1
    <3> QED BY <1>2, <1>5, <2>3, <3>1, <3>2 DEF Life
  <2>4. ASSUME NEW id \in DOMAIN book, id \notin DOMAIN orders
        PROVE  At(id, book[id], market, b[id], lives'[id], id \in DOMAIN orders', StateOf(id)', flight, clock')
    <3>1. id \in Ids /\ es[id] = <<>> /\ lives'[id] = lives[id] \o Life(<<>>)
      BY <1>2, <1>5, <1>7, <1>8, <1>9, <2>4
    <3>2. At(id, book[id], market, b[id], lives[id], id \in DOMAIN orders, StateOf(id), flight, clock)
      BY <1>1 DEF Core, IdsInv
    <3>3. lives'[id] = lives[id]
      BY <3>1, <3>2, LifeNone
    <3>4. id \notin DOMAIN orders' /\ StateOf(id)' = FreshState /\ StateOf(id) = FreshState
      BY <1>12, <2>4 DEF StateOf
    <3>5. (id \in DOMAIN orders) = FALSE /\ (id \in DOMAIN orders') = FALSE
      BY <2>4, <3>4
    <3>6. At(id, book[id], market, b[id], lives[id], FALSE, FreshState, flight, clock)
      BY <3>2, <3>4, <3>5
    <3>7. At(id, book[id], market, b[id], lives[id], FALSE, FreshState, flight, clock')
      BY <3>6 DEF At, AtWaiting
    <3> QED BY <3>3, <3>4, <3>5, <3>7
  <2>5. \A id \in DOMAIN book :
          At(id, book[id], market, b[id], lives'[id], id \in DOMAIN orders', StateOf(id)', flight, clock')
    BY <1>14, <2>4
  <2> QED BY <1>2, <1>12, <2>1, <2>2, <2>3, <2>5 DEF IdsInv
<1>16. \A id \in DOMAIN orders :
         /\ id \in Ready(safe) => /\ Passed(safe, id).scheduled = 0 /\ Passed(safe, id).confirmed
                                  /\ Known(id, Snapshot(Passed(safe, id)))
                                  /\ Passed(safe, id).estimated \in BOOLEAN
         /\ id \notin Ready(safe) => Passed(safe, id).confirmed = orders[id].confirmed
         /\ id \in Postponed(safe) => /\ Passed(safe, id).scheduled = orders[id].maxTime
                                      /\ Passed(safe, id).scheduled # 0
         /\ id \notin Ready(safe) \cup Postponed(safe) =>
              /\ Passed(safe, id).scheduled = orders[id].scheduled
              /\ orders[id].scheduled # 0 => orders[id].scheduled > safe
         /\ id \in Ready(safe) \cup Postponed(safe) => orders[id].scheduled <= safe
         /\ Ready(safe) \cap Postponed(safe) = {}
  BY <1>1, <1>2, <1>3, PassedIs DEF safe
<1>17. \A id \in DOMAIN orders : id \notin Ready(safe) => id \in DOMAIN orders'
  BY <1>8, <1>9, <1>12, <1>13
<1>18. \A id \in DOMAIN orders : orders[id].scheduled \in Int
  <2> SUFFICES ASSUME NEW id \in DOMAIN orders PROVE orders[id].scheduled \in Int
    OBVIOUS
  <2>1. orders[id] \in States
    BY <1>1, StatesAre
  <2> QED BY <2>1 DEF States
<1>19. safe \in Int
  <2>1. Ttl \in Nat /\ safe = t - Ttl
    BY BuilderAssumption DEF safe, SafeTime
  <2> QED BY <1>3, <2>1
<1>20. HeapInv'
  <2> DEFINE H == {<<orders'[id].scheduled, id>> : id \in {x \in DOMAIN orders' : orders'[x].scheduled # 0}}
  <2>1. deadlines = {<<orders[id].scheduled, id>> : id \in {x \in DOMAIN orders : orders[x].scheduled # 0}}
    BY <1>1 DEF Core, HeapInv
  <2>2. ASSUME NEW d \in deadlines, d[1] > safe
        PROVE  d \in H
    <3>1. PICK id \in DOMAIN orders : d = <<orders[id].scheduled, id>> /\ orders[id].scheduled # 0
      BY <2>1
    <3>2. orders[id].scheduled > safe
      BY <2>2, <3>1
    <3>3. id \notin Ready(safe) \cup Postponed(safe)
      BY <1>16, <1>18, <1>19, <3>2
    <3>4. id \in DOMAIN orders' /\ orders'[id].scheduled = orders[id].scheduled
      BY <1>12, <1>16, <1>17, <3>3
    <3> QED BY <3>1, <3>4
  <2>3. ASSUME NEW id \in Postponed(safe)
        PROVE  <<orders[id].maxTime, id>> \in H
    <3>1. id \in DOMAIN orders /\ id \notin Ready(safe)
      BY <1>7, <1>16
    <3>2. id \in DOMAIN orders' /\ orders'[id].scheduled = orders[id].maxTime /\ orders'[id].scheduled # 0
      BY <1>12, <1>16, <1>17, <3>1
    <3> QED BY <3>2
  <2>4. ASSUME NEW id \in DOMAIN orders', orders'[id].scheduled # 0
        PROVE  <<orders'[id].scheduled, id>> \in deadlines'
    <3>1. id \in DOMAIN orders /\ orders'[id].scheduled = Passed(safe, id).scheduled
      BY <1>12
    <3>2. CASE id \in Postponed(safe)
      BY <1>5, <1>16, <3>1, <3>2
    <3>3. CASE id \notin Postponed(safe)
      <4>1. id \notin Ready(safe) \cup Postponed(safe)
        BY <1>16, <2>4, <3>1, <3>3
      <4>2. orders[id].scheduled # 0 /\ orders[id].scheduled > safe /\ orders'[id].scheduled = orders[id].scheduled
        BY <1>16, <2>4, <3>1, <4>1
      <4>3. <<orders[id].scheduled, id>> \in deadlines /\ <<orders[id].scheduled, id>>[1] > safe
        BY <2>1, <3>1, <4>2
      <4>4. <<orders[id].scheduled, id>> \in deadlines'
        BY <1>5, <4>3
      <4> QED BY <4>2, <4>4
    <3> QED BY <3>2, <3>3
  <2>5. deadlines' \subseteq H
    BY <1>5, <2>2, <2>3
  <2>6. H \subseteq deadlines'
    BY <2>4
  <2> QED BY <2>5, <2>6 DEF HeapInv
<1>21. Conservation'
  <2>1. ASSUME NEW id \in Ids, NEW i \in 1..Len(es[id])
        PROVE  Adds(es[id][i])
    <3>1. CASE id \in DOMAIN orders
      BY <1>14, <2>1, <3>1
    <3>2. CASE id \notin DOMAIN orders
      <4>1. es[id] = <<>>
        BY <1>7, <1>9, <2>1, <3>2
      <4> QED BY <1>13, <2>1, <4>1
    <3> QED BY <3>1, <3>2
  <2> QED BY <1>5, <2>1 DEF Conservation, Adds
<1>22. Unconfirmed \ DOMAIN final \subseteq Unconfirmed'
  <2>1. ASSUME NEW id \in DOMAIN orders, ~ orders[id].confirmed, id \notin Ready(safe)
        PROVE  id \in DOMAIN orders' /\ ~ orders'[id].confirmed
    BY <1>12, <1>16, <1>17, <2>1
  <2> QED BY <1>6, <2>1 DEF Unconfirmed
<1>23. \A id \in DOMAIN final : Known(id, Snapshot(final[id])) /\ id \in DOMAIN book /\ final[id].estimated \in BOOLEAN
  BY <1>6, <1>7, <1>8, <1>16
<1>24. FlyingTrades' = FlyingTrades /\ UNCHANGED <<book, market>> /\ ResolveWaitingPairs(final)
  BY <1>2, <1>5 DEF FlyingTrades
<1>25. SlotsInv' /\ PairedInv' /\ PairsInv'
  BY <1>1, <1>2, <1>8, <1>22, <1>23, <1>24, Resolving
<1>26. BookInv(b)' /\ FlightInv(b)'
  BY <1>1, <1>2 DEF Core, BookInv, FlightInv
<1>27. StageInv'
  <2>1. clock' \in 0..LastPoint /\ clock' # 0
    BY <1>3
  <2>2. \A r \in flight' : clock' <= r.time + Lag
    <3>1. \A r \in flight : r.time \in Nat
      BY <1>1 DEF Core, FlightInv
    <3> QED BY <1>2, <1>3, <3>1, FeedAssumption
  <2> QED BY <1>1, <1>2, <2>1, <2>2 DEF Core, StageInv
<1> QED BY <1>15, <1>20, <1>21, <1>25, <1>26, <1>27 DEF FeedInv

-----------------------------------------------------------------------------
(* The end of the session.                                                   *)

\* A finite set of numbers has a greatest.
LEMMA MaxIs ==
    ASSUME NEW N \in SUBSET Int, IsFiniteSet(N), N # {}
    PROVE  Max(N) \in N /\ \A x \in N : Max(N) >= x
<1> DEFINE Top(S) == \E m \in S : \A x \in S : m >= x
           Bad == {n \in Nat : \E S \in SUBSET N : S # {} /\ Cardinality(S) = n /\ ~ Top(S)}
<1>1. Bad = {}
  <2> SUFFICES ASSUME Bad # {} PROVE FALSE
    OBVIOUS
  <2>1. PICK n \in Bad : \A k \in Bad : ~ (k < n)
    BY Least
  <2>2. PICK S \in SUBSET N : S # {} /\ Cardinality(S) = n /\ ~ Top(S)
    BY <2>1
  <2> DEFINE p == Pick(S)
             R == S \ {p}
  <2>3. p \in S /\ Cardinality(R) = n - 1 /\ n - 1 \in Nat /\ n - 1 < n /\ R \in SUBSET N
    <3>1. IsFiniteSet(S) /\ S # {}
      BY <2>2, FS_Subset
    <3>2. p \in S /\ Cardinality(S) \in Nat \ {0} /\ Cardinality(R) = Cardinality(S) - 1
      BY <3>1, PickLess
    <3>3. n - 1 \in Nat /\ n - 1 < n /\ Cardinality(R) = n - 1
      BY <2>2, <3>2
    <3> QED BY <3>2, <3>3
  <2>4. CASE R = {}
    <3>1. S = {p} /\ p \in Int
      BY <2>3, <2>4
    <3> QED BY <2>2, <3>1
  <2>5. CASE R # {}
    <3>1. Top(R)
      <4>1. n - 1 \notin Bad
        BY <2>1, <2>3
      <4> HIDE DEF Top, R
      <4> QED BY <2>3, <2>5, <4>1
    <3>2. PICK m \in R : \A x \in R : m >= x
      BY <3>1
    <3>3. m \in Int /\ p \in Int /\ S = R \cup {p} /\ m \in S
      BY <2>3, <3>2
    <3>4. \A x \in S : x \in Int
      BY <2>2
    <3> HIDE DEF R, p
    <3>5. CASE m >= p
      BY <2>2, <3>2, <3>3, <3>5
    <3>6. CASE p >= m
      <4>1. \A x \in S : p >= x
        BY <3>2, <3>3, <3>4, <3>6
      <4> QED BY <2>2, <2>3, <4>1
    <3> QED BY <3>3, <3>5, <3>6
  <2> QED BY <2>4, <2>5
<1>2. Cardinality(N) \in Nat
  BY FS_CardinalityType
<1>3. Top(N)
  BY <1>1, <1>2
<1> QED BY <1>3 DEF Max

\* At the end every pending order can be finalized.
LEMMA AllReady ==
    ASSUME NEW b, Core(b), flight = {},
           NEW safe, safe = Max({0} \cup {orders[id].maxTime : id \in DOMAIN orders})
    PROVE  /\ Ready(safe) = Unconfirmed
           /\ \A id \in DOMAIN orders :
                ~ orders[id].confirmed => /\ IsWaiting(id, book[id], "SH", b[id], orders[id], {})
                                          /\ market = "SH" /\ lives[id] = <<>>
<1> DEFINE N == {0} \cup {orders[id].maxTime : id \in DOMAIN orders}
<1>1. \A id \in DOMAIN orders :
         /\ orders[id] \in States
         /\ orders[id].confirmed => orders[id].scheduled = 0
         /\ ~ orders[id].confirmed => /\ IsWaiting(id, book[id], "SH", b[id], orders[id], {})
                                      /\ market = "SH" /\ lives[id] = <<>> /\ IsPending(b[id], orders[id], clock)
                                      /\ book[id] \in Lives /\ Within(book[id])
  BY StatesAre
<1>2. N \in SUBSET Int /\ N # {}
  BY <1>1 DEF States
<1>3. IsFiniteSet(N)
  <2>1. IsFiniteSet(DOMAIN orders)
    BY FS_Subset DEF Core, BookInv, IdsInv
  <2> DEFINE f == [id \in DOMAIN orders |-> orders[id].maxTime]
             T == {orders[id].maxTime : id \in DOMAIN orders}
  <2>2. f \in Surjection(DOMAIN orders, T)
    BY DEF Surjection
  <2>3. IsFiniteSet(T)
    BY <2>1, <2>2, FS_Surjection
  <2> QED BY <2>3, FS_Singleton, FS_Union
<1> HIDE DEF N
<1>4. safe \in N /\ \A x \in N : safe >= x
  BY <1>2, <1>3, MaxIs DEF N
<1>5. ASSUME NEW id \in DOMAIN orders, ~ orders[id].confirmed
      PROVE  id \in Ready(safe)
  <2> DEFINE st == orders[id]
  <2>1. IsWaiting(id, book[id], "SH", b[id], st, {}) /\ st \in States /\ IsPending(b[id], st, clock)
        /\ book[id] \in Lives /\ Within(book[id])
    BY <1>1, <1>5
  <2>2. About({}, "entry", id) = {} /\ About({}, "imm", id) = {} /\ Records({})
    BY FS_EmptySet DEF About, Records
  <2>3. st.hasA \/ st.hasIncoming
    BY <2>1, <2>2, FinalIs
  <2>4. st.scheduled # 0 /\ st.scheduled <= st.maxTime /\ st.scheduled \in Int /\ st.maxTime \in Int
    BY <2>1 DEF IsPending
  <2>5. st.maxTime \in N
    BY DEF N
  <2>6. st.maxTime <= safe /\ safe \in Int
    BY <1>2, <1>4, <2>4, <2>5
  <2>7. st.scheduled <= safe
    BY <2>4, <2>6
  <2>8. <<st.scheduled, id>> \in deadlines
    BY <2>4 DEF Core, HeapInv
  <2>9. id \in Due(safe) /\ id \notin Postponed(safe)
    BY <2>4, <2>6, <2>7, <2>8 DEF Due, Postponed
  <2> QED BY <1>5, <2>3, <2>9 DEF Ready
<1>6. Ready(safe) \subseteq Unconfirmed
  BY DEF Ready, Due, Unconfirmed
<1>7. Ready(safe) = Unconfirmed
  BY <1>5, <1>6 DEF Unconfirmed
<1> QED BY <1>1, <1>7

\* At the end every trade that waits is answered.
LEMMA AllAnswered ==
    ASSUME SlotsInv, DOMAIN book \subseteq Ids, book \in [DOMAIN book -> Lives], NEW new, DOMAIN new = Unconfirmed,
           \A id \in DOMAIN new : Known(id, Snapshot(new[id])) /\ id \in DOMAIN book /\ new[id].estimated \in BOOLEAN
    PROVE  /\ AnsweredTokens(new) = Active
           /\ \A i \in Active : /\ AnsweredSlots(new)[i].biz = slots[i].biz
                                /\ Known(AnsweredSlots(new)[i].buy, AnsweredSlots(new)[i].buyOrder)
                                /\ Known(AnsweredSlots(new)[i].sell, AnsweredSlots(new)[i].sellOrder)
<1> DEFINE a(i) == Answered(slots[i], i, new)
<1>1. \A i \in 1..Len(slots) :
        /\ a(i).biz = slots[i].biz /\ a(i).buy = slots[i].buy /\ a(i).sell = slots[i].sell
        /\ slots[i].active =>
             /\ a(i).buyOrder = IF slots[i].buyOrder = NoSnapshot /\ slots[i].buy \in DOMAIN new
                                THEN Snapshot(new[slots[i].buy]) ELSE slots[i].buyOrder
             /\ a(i).sellOrder = IF slots[i].sellOrder = NoSnapshot /\ slots[i].sell \in DOMAIN new
                                 THEN Snapshot(new[slots[i].sell]) ELSE slots[i].sellOrder
  BY AnsweredIs
<1>2. \A i \in 1..Len(slots) : AnsweredSlots(new)[i] = a(i)
  BY DEF AnsweredSlots
<1>3. AnsweredTokens(new) = {i \in 1..Len(slots) : slots[i].active /\ Complete(a(i))}
  BY <1>2 DEF AnsweredTokens
<1> HIDE DEF a
<1>4. ASSUME NEW id \in DOMAIN new
      PROVE  Known(id, Snapshot(new[id])) /\ Snapshot(new[id]) # NoSnapshot
  <2>1. Snapshot(new[id]).orig = book[id].qty /\ book[id].qty \in Nat
    BY DEF Known, Lives
  <2>2. NoSnapshot.orig = -1
    BY DEF NoSnapshot
  <2>3. Snapshot(new[id]).orig # NoSnapshot.orig
    BY <2>1, <2>2
  <2> QED BY <2>3
<1>5. ASSUME NEW i \in 1..Len(slots), slots[i].active
      PROVE  /\ a(i).buyOrder # NoSnapshot /\ a(i).sellOrder # NoSnapshot
             /\ Known(slots[i].buy, a(i).buyOrder) /\ Known(slots[i].sell, a(i).sellOrder)
  <2> DEFINE buy == slots[i].buy
             sell == slots[i].sell
             x == slots[i].buyOrder
             y == slots[i].sellOrder
             p == a(i).buyOrder
             q == a(i).sellOrder
  <2>1. /\ IF x = NoSnapshot THEN buy \in DOMAIN new ELSE Known(buy, x)
        /\ IF y = NoSnapshot THEN sell \in DOMAIN new ELSE Known(sell, y)
    BY <1>5 DEF SideInv, SlotsInv
  <2>2. /\ p = (IF x = NoSnapshot /\ buy \in DOMAIN new THEN Snapshot(new[buy]) ELSE x)
        /\ q = (IF y = NoSnapshot /\ sell \in DOMAIN new THEN Snapshot(new[sell]) ELSE y)
    BY <1>1, <1>5
  <2> HIDE DEF buy, sell, x, y, p, q
  <2>3. p # NoSnapshot /\ Known(buy, p)
    BY <1>4, <2>1, <2>2
  <2>4. q # NoSnapshot /\ Known(sell, q)
    BY <1>4, <2>1, <2>2
  <2> QED BY <2>3, <2>4 DEF buy, sell, p, q
<1>6. AnsweredTokens(new) = Active
  BY <1>3, <1>5 DEF Active, Complete
<1> QED BY <1>1, <1>2, <1>5, <1>6 DEF Active

\* The end of the session for one order.
LEMMA EndsOrder ==
    ASSUME NEW b, Core(b), flight = {}, NEW id \in DOMAIN orders, NEW es,
           NEW new, new = FinalState(orders[id]),
           es = (IF orders[id].confirmed THEN Closing(orders[id])
                 ELSE IF ClosedBy(FinalEvents(new)) THEN FinalEvents(new) ELSE FinalEvents(new) \o Closing(new))
    PROVE  /\ At(id, book[id], market, b[id], lives[id] \o Life(es), FALSE, FreshState, {}, clock)
           /\ \A i \in 1..Len(es) : Adds(es[i])
<1> DEFINE st == orders[id]
           o == book[id]
           bt == b[id]
           life == lives[id]
           after == FreshState
           clk == clock
<1>1. /\ o \in Lives /\ Within(o) /\ st \in States /\ after \in States
      /\ \/ AtLive(id, o, market, life, TRUE, st, {}) /\ st.confirmed
         \/ /\ life = <<>> /\ IsWaiting(id, o, "SH", bt, st, {})
            /\ ~ st.confirmed /\ market = "SH"
  BY StatesAre, FreshIs
<1>2. es = (IF st.confirmed THEN Closing(st)
            ELSE IF ClosedBy(FinalEvents(new)) THEN FinalEvents(new) ELSE FinalEvents(new) \o Closing(new))
      /\ new = FinalState(st)
  OBVIOUS
<1> HIDE DEF st, o, bt, life, after, clk
<1>3. CASE st.confirmed
  <2>1. es = Closing(st) /\ AtLive(id, o, market, life, TRUE, st, {})
    BY <1>1, <1>2, <1>3
  <2>2. At(id, o, market, bt, life \o Life(es), FALSE, after, {}, clk)
    BY <1>1, <2>1, CloseLive
  <2>3. \A i \in 1..Len(es) : Adds(es[i])
    BY <1>1, <2>1, CloseLive
  <2> QED BY <2>2, <2>3 DEF o, bt, life, after, clk
<1>4. CASE ~ st.confirmed
  <2>1. es = (IF ClosedBy(FinalEvents(new)) THEN FinalEvents(new) ELSE FinalEvents(new) \o Closing(new))
        /\ life = <<>> /\ IsWaiting(id, o, "SH", bt, st, {}) /\ market = "SH"
    BY <1>1, <1>2, <1>4
  <2>2. At(id, o, "SH", bt, <<>> \o Life(es), FALSE, after, {}, clk)
    BY <1>1, <1>2, <2>1, CloseWaiting
  <2>3. \A i \in 1..Len(es) : Adds(es[i])
    BY <1>1, <1>2, <2>1, CloseWaiting
  <2> QED BY <2>1, <2>2, <2>3 DEF o, bt, life, after, clk
<1> QED BY <1>3, <1>4

\* The flush keeps the invariant, once there are no records on their way.
LEMMA FlushKeeps ==
    ASSUME NEW b, FeedInv(b), now = Close, flight = {}, ~ ended, FlushAtClose, Consume,
           UNCHANGED <<market, book, biz, now, flight, flagged>>,
           clock' \in 1..LastPoint, ended' \in BOOLEAN, ended' => clock' = LastPoint
    PROVE  FeedInv(b)'
<1> DEFINE safe == Max({0} \cup {orders[id].maxTime : id \in DOMAIN orders})
           final == Finalized(safe)
           es == events'
<1>1. Core(b) /\ SlotsInv /\ PairedInv
  BY DEF FeedInv, Core
<1>2. /\ ~ ended /\ now = Close /\ flight = {}
      /\ UNCHANGED <<market, book, biz, now, flight, flagged>>
      /\ lives' = [id \in Ids |-> lives[id] \o Life(es[id])] /\ Counted
  BY DEF Consume, Counted
<1>3. LastPoint \in 1..Close - 1 /\ Close \in Nat /\ clock' # 0 /\ clock' \in 0..LastPoint
  BY FeedAssumption
<1>4. /\ es = [id \in Ids |->
                 IF id \in {x \in DOMAIN orders : orders[x].confirmed} THEN Closing(orders[id])
                 ELSE IF id \notin Ready(safe) THEN <<>>
                 ELSE IF ClosedBy(FinalEvents(final[id])) THEN FinalEvents(final[id])
                 ELSE FinalEvents(final[id]) \o Closing(final[id])]
      /\ pairs' = {AnsweredSlots(final)[i] : i \in AnsweredTokens(final)}
      /\ orders' = <<>> /\ deadlines' = {} /\ slots' = <<>> /\ free' = {} /\ waiters' = <<>>
  BY DEF FlushAtClose, Closing
<1>5. Ready(safe) = Unconfirmed
      /\ \A id \in DOMAIN orders :
                ~ orders[id].confirmed => /\ IsWaiting(id, book[id], "SH", b[id], orders[id], {})
                                          /\ market = "SH" /\ lives[id] = <<>>
  BY <1>1, <1>2, AllReady
<1>6. DOMAIN final = Ready(safe) /\ \A id \in Ready(safe) : final[id] = FinalState(orders[id])
  BY DEF Finalized
<1>7. /\ DOMAIN orders \subseteq DOMAIN book /\ DOMAIN book \subseteq Ids
      /\ book \in [DOMAIN book -> Lives]
  BY <1>1 DEF Core, BookInv, IdsInv
<1> HIDE DEF es, final, safe
<1>8. ASSUME NEW id \in DOMAIN orders
      PROVE  /\ At(id, book[id], market, b[id], lives[id] \o Life(es[id]), FALSE, FreshState, {}, clock)
             /\ \A i \in 1..Len(es[id]) : Adds(es[id][i])
  <2> DEFINE new == FinalState(orders[id])
             e == es[id]
  <2>1. e = (IF orders[id].confirmed THEN Closing(orders[id])
             ELSE IF ClosedBy(FinalEvents(new)) THEN FinalEvents(new) ELSE FinalEvents(new) \o Closing(new))
    BY <1>4, <1>5, <1>6, <1>7 DEF Unconfirmed
  <2> HIDE DEF new, e
  <2>2. /\ At(id, book[id], market, b[id], lives[id] \o Life(e), FALSE, FreshState, {}, clock)
        /\ \A i \in 1..Len(e) : Adds(e[i])
    BY <1>1, <1>2, <2>1, EndsOrder DEF new
  <2> QED BY <2>2 DEF e
<1>9. \A id \in Ids : id \notin DOMAIN orders => es[id] = <<>>
  BY <1>4, <1>5 DEF Unconfirmed
<1>10. DOMAIN orders' = {} /\ (\A id : StateOf(id)' = FreshState) /\ orders' = [id \in DOMAIN orders' |-> orders'[id]]
  BY <1>4 DEF StateOf
<1>11. IdsInv(b)'
  <2>1. ASSUME NEW id \in DOMAIN book
        PROVE  At(id, book[id], market, b[id], lives'[id], FALSE, FreshState, flight, clock)
    <3>1. CASE id \in DOMAIN orders
      BY <1>2, <1>7, <1>8, <3>1
    <3>2. CASE id \notin DOMAIN orders
      <4>1. At(id, book[id], market, b[id], lives[id], id \in DOMAIN orders, StateOf(id), flight, clock)
        BY <1>1 DEF Core, IdsInv
      <4>2. lives'[id] = lives[id] \o Life(<<>>)
        BY <1>2, <1>7, <1>9, <3>2
      <4>3. lives'[id] = lives[id]
        BY <4>1, <4>2, LifeNone
      <4>4. StateOf(id) = FreshState /\ (id \in DOMAIN orders) = FALSE
        BY <3>2 DEF StateOf
      <4> QED BY <4>1, <4>3, <4>4
    <3> QED BY <3>1, <3>2
  <2>2. ASSUME NEW id \in Ids \ DOMAIN book
        PROVE  lives'[id] = <<>>
    <3>1. lives[id] = <<>> /\ es[id] = <<>>
      BY <1>1, <1>7, <1>9, <2>2 DEF Core, IdsInv
    <3> QED BY <1>2, <2>2, <3>1 DEF Life
  <2>3. \A id \in DOMAIN book :
          At(id, book[id], market, b[id], lives'[id], id \in DOMAIN orders', StateOf(id)', flight, clock')
    <3>1. \A id : (id \in DOMAIN orders') = FALSE
      BY <1>10
    <3>2. \A id \in DOMAIN book :
             At(id, book[id], market, b[id], lives'[id], FALSE, FreshState, flight, clock')
      BY <2>1, AtEarlier
    <3> QED BY <1>10, <3>1, <3>2
  <2>4. lives' = [id \in Ids |-> lives'[id]]
    BY <1>2
  <2>5. DOMAIN orders' \subseteq DOMAIN book'
    BY <1>10
  <2> QED BY <1>2, <1>10, <2>2, <2>3, <2>4, <2>5 DEF IdsInv
<1>12. HeapInv'
  BY <1>4, <1>10 DEF HeapInv
<1>13. Conservation'
  <2>1. ASSUME NEW id \in Ids, NEW i \in 1..Len(es[id])
        PROVE  Adds(es[id][i])
    <3>1. CASE id \in DOMAIN orders
      BY <1>8, <2>1, <3>1
    <3>2. CASE id \notin DOMAIN orders
      BY <1>9, <2>1, <3>2
    <3> QED BY <3>1, <3>2
  <2> QED BY <2>1 DEF Conservation, Adds, es
<1>14. \A id \in DOMAIN final : Known(id, Snapshot(final[id])) /\ id \in DOMAIN book /\ final[id].estimated \in BOOLEAN
  <2> SUFFICES ASSUME NEW id \in DOMAIN final
               PROVE  Known(id, Snapshot(final[id])) /\ id \in DOMAIN book /\ final[id].estimated \in BOOLEAN
    OBVIOUS
  <2>1. id \in DOMAIN orders /\ ~ orders[id].confirmed /\ final[id] = FinalState(orders[id])
    BY <1>5, <1>6 DEF Unconfirmed
  <2>2. IsWaiting(id, book[id], "SH", b[id], orders[id], {}) /\ market = "SH"
        /\ book[id] \in Lives /\ Within(book[id]) /\ orders[id] \in States
    BY <1>1, <1>5, <2>1, StatesAre
  <2>3. About({}, "entry", id) = {} /\ About({}, "imm", id) = {} /\ Records({})
    BY FS_EmptySet DEF About, Records
  <2> DEFINE x == final[id]
  <2>4. x \in States /\ x.orig = book[id].qty /\ (x.estimated <=> book[id].imm = book[id].qty)
    BY <2>1, <2>2, <2>3, FinalIs
  <2>5. Known(id, Snapshot(x))
    BY <2>2, <2>4 DEF Known, Snapshot
  <2>6. x.estimated \in BOOLEAN
    BY <2>4 DEF States
  <2> QED BY <1>7, <2>1, <2>5, <2>6
<1>15. /\ AnsweredTokens(final) = Active
       /\ \A i \in Active : /\ AnsweredSlots(final)[i].biz = slots[i].biz
                            /\ Known(AnsweredSlots(final)[i].buy, AnsweredSlots(final)[i].buyOrder)
                            /\ Known(AnsweredSlots(final)[i].sell, AnsweredSlots(final)[i].sellOrder)
  BY <1>1, <1>5, <1>6, <1>7, <1>14, AllAnswered
<1>16. PairsInv'
  <2>1. \A p \in pairs' : Known(p.buy, p.buyOrder) /\ Known(p.sell, p.sellOrder)
    BY <1>4, <1>15
  <2> QED BY <1>2, <2>1 DEF PairsInv, Known
<1>17. Len(slots') = 0 /\ Active' = {} /\ WaitingTrades' = {} /\ FlyingTrades' = {} /\ FlyingTrades = {}
  <2>1. Len(slots') = 0
    BY <1>4
  <2> QED BY <1>2, <2>1 DEF Active, WaitingTrades, FlyingTrades
<1>18. SlotsInv'
  <2>1. slots' \in Seq(SlotSet) /\ free' \subseteq 1..Len(slots') /\ DOMAIN waiters' = {}
        /\ waiters' \in [DOMAIN waiters' -> Seq(1..Len(slots'))]
    BY <1>4
  <2>2. 1..Len(slots') = {}
    BY <1>17
  <2> QED BY <2>1, <2>2 DEF SlotsInv
<1>19. PairedInv'
  <2> DEFINE G == WaitingTrades
             c(i) == AnsweredSlots(final)[i]
  <2>1. pairs' = {c(i) : i \in Active} /\ \A i \in Active : c(i).biz = slots[i].biz
    BY <1>4, <1>15
  <2> HIDE DEF c
  <2>2. \A t \in Active, u \in Active : slots[t].biz = slots[u].biz => t = u
    BY <1>1 DEF PairedInv
  <2>3. ASSUME NEW n \in G
        PROVE  \E p : {x \in pairs' : x.biz = n} = {p}
    <3>1. PICK i \in Active : slots[i].biz = n
      BY DEF WaitingTrades
    <3>2. {x \in pairs' : x.biz = n} = {c(i)}
      BY <2>1, <2>2, <3>1
    <3> QED BY <3>2
  <2>4. ASSUME NEW n, n \notin G
        PROVE  {x \in pairs' : x.biz = n} = {}
    BY <2>1, <2>4 DEF WaitingTrades
  <2>5. G \subseteq FlyingTrades \cup WaitingTrades
    OBVIOUS
  <2>6. FlyingTrades' \cup WaitingTrades' = (FlyingTrades \cup WaitingTrades) \ G
    BY <1>17
  <2>7. FlyingTrades' \cap WaitingTrades' = {}
    BY <1>17
  <2>8. \A t \in Active', u \in Active' : slots'[t].biz = slots'[u].biz => t = u
    BY <1>17
  <2> HIDE DEF G
  <2>9. \A n \in G : \E p : {x \in pairs' : x.biz = n} = {p}
    BY <2>3
  <2>10. \A n : n \notin G => {x \in pairs' : x.biz = n} = {}
    BY <2>4
  <2> QED BY <1>1, <1>2, <2>5, <2>6, <2>7, <2>8, <2>9, <2>10, PairedAfter
<1>20. BookInv(b)' /\ FlightInv(b)'
  BY <1>1, <1>2 DEF Core, BookInv, FlightInv
<1>21. StageInv'
  BY <1>1, <1>2, <1>3, <1>4 DEF Core, StageInv
<1> QED BY <1>11, <1>12, <1>13, <1>16, <1>18, <1>19, <1>20, <1>21 DEF FeedInv

\* A time point brought by a record stamped 15:00 or later finds no record on
\* its way, and closes the session.
LEMMA LateTimeKeeps ==
    ASSUME NEW b, FeedInv(b), NEW t \in 1..Close, t >= Close, OnGlobalTime(t)
    PROVE  FeedInv(b)'
<1>1. /\ now = Close /\ ~ ended /\ \A r \in flight : t <= r.time + Lag
      /\ clock' = Smaller(t, LastPoint) /\ FlushAtClose /\ Consume
      /\ UNCHANGED <<market, book, biz, now, flight, flagged, ended>>
  BY DEF OnGlobalTime
<1>2. /\ LastPoint \in Nat \ {0} /\ t \in Nat \ {0} /\ LastOrder \in Nat /\ Lag \in Nat /\ Close \in Nat
      /\ LastOrder + Lag < Close
  BY FeedAssumption
<1>3. flight = {}
  <2> SUFFICES ASSUME NEW r \in flight PROVE FALSE
    OBVIOUS
  <2>1. r.time \in Nat /\ r.time <= LastOrder /\ t <= r.time + Lag
    BY <1>1 DEF FeedInv, FlightInv
  <2> QED BY <1>2, <2>1
<1>4. clock' \in 1..LastPoint
  BY <1>1, <1>2 DEF Smaller
<1>5. ended' \in BOOLEAN /\ ~ ended'
  BY <1>1 DEF FeedInv, StageInv
<1> QED BY <1>1, <1>3, <1>4, <1>5, FlushKeeps

\* The end of the replay keeps the invariant.
LEMMA EndKeeps ==
    ASSUME NEW b, FeedInv(b), EndOfReplay
    PROVE  FeedInv(b)'
<1>1. /\ now = Close /\ ~ ended /\ flight = {} /\ clock = LastPoint /\ ended' = TRUE
      /\ FlushAtClose /\ Consume
      /\ UNCHANGED <<market, book, biz, now, flight, flagged, clock>>
  BY DEF EndOfReplay
<1>2. clock' \in 1..LastPoint
  BY <1>1, FeedAssumption
<1> QED BY <1>1, <1>2, FlushKeeps

-----------------------------------------------------------------------------
(* The exchange, before the first time point.                                *)

\* Records made one for each element of a set carry what the weights of the elements add up to.
LEMMA ImageShares ==
    ASSUME NEW S, IsFiniteSet(S), NEW f, NEW w, \A m \in S : f[m].qty = w[m] /\ w[m] \in Nat \ {0},
           \A m \in S, n \in S : f[m] = f[n] => m = n
    PROVE  Records({f[m] : m \in S}) /\ Shares({f[m] : m \in S}) = Total(w, S)
<1> DEFINE R(s) == {f[m] : m \in s}
           Good(s) == Records(R(s)) /\ Shares(R(s)) = Total(w, s)
           Bad == {n \in Nat : \E s \in SUBSET S : Cardinality(s) = n /\ ~ Good(s)}
<1>1. \A s \in SUBSET S : IsFiniteSet(s) /\ Cardinality(s) \in Nat /\ Weights(w, s)
  BY FS_Subset, FS_CardinalityType DEF Weights
<1>2. Bad = {}
  <2> SUFFICES ASSUME Bad # {} PROVE FALSE
    OBVIOUS
  <2>1. PICK n \in Bad : \A k \in Bad : ~ (k < n)
    BY Least
  <2>2. PICK s \in SUBSET S : Cardinality(s) = n /\ ~ Good(s)
    BY <2>1
  <2>3. CASE s = {}
    <3>1. R(s) = {}
      BY <2>3
    <3>2. Records({}) /\ Shares({}) = 0 /\ Total(w, {}) = 0
      BY FS_EmptySet, SharesEmpty, TotalEmpty DEF Records
    <3> QED BY <2>2, <2>3, <3>1, <3>2
  <2>4. CASE s # {}
    <3> DEFINE p == Pick(s)
               t == s \ {p}
    <3>1. p \in s /\ Cardinality(t) = Cardinality(s) - 1 /\ Cardinality(s) \in Nat \ {0}
      BY <1>1, <2>4, PickLess
    <3>2. n - 1 \in Nat /\ n - 1 < n /\ Cardinality(t) = n - 1 /\ t \in SUBSET S
      BY <2>2, <3>1
    <3>3. Good(t)
      <4>1. n - 1 \notin Bad
        BY <2>1, <3>2
      <4> HIDE DEF Good, t
      <4> QED BY <3>2, <4>1
    <3>4. s = t \cup {p} /\ p \notin t
      BY <3>1
    <3> HIDE DEF p, t
    <3>5. R(s) = R(t) \cup {f[p]} /\ f[p] \notin R(t)
      BY <3>1, <3>2, <3>4
    <3>6. Records(R(t) \cup {f[p]})
      BY <3>1, <3>3, FS_AddElement DEF Records
    <3>7. Shares(R(s)) = Shares(R(t)) + f[p].qty
      BY <3>5, <3>6, SharesAdd
    <3>8. Total(w, s) = Total(w, t) + w[p]
      BY <1>1, <3>2, <3>4, TotalAdd
    <3>9. f[p].qty = w[p]
      BY <3>1
    <3> QED BY <2>2, <3>3, <3>5, <3>6, <3>7, <3>8, <3>9
  <2> QED BY <2>3, <2>4
<1>3. Cardinality(S) \in Nat
  BY FS_CardinalityType
<1>4. Good(S)
  BY <1>2, <1>3
<1> QED BY <1>4

\* Elements that weigh nothing add nothing.
LEMMA TotalZero ==
    ASSUME NEW S, IsFiniteSet(S), NEW w, \A x \in S : w[x] = 0
    PROVE  Total(w, S) = 0
<1> DEFINE Bad == {n \in Nat : \E s \in SUBSET S : Cardinality(s) = n /\ Total(w, s) # 0}
<1>1. \A s \in SUBSET S : IsFiniteSet(s) /\ Cardinality(s) \in Nat /\ Weights(w, s)
  BY FS_Subset, FS_CardinalityType DEF Weights
<1>2. Bad = {}
  <2> SUFFICES ASSUME Bad # {} PROVE FALSE
    OBVIOUS
  <2>1. PICK n \in Bad : \A k \in Bad : ~ (k < n)
    BY Least
  <2>2. PICK s \in SUBSET S : Cardinality(s) = n /\ Total(w, s) # 0
    BY <2>1
  <2>3. s # {}
    BY <2>2, TotalEmpty
  <2> DEFINE p == Pick(s)
             t == s \ {p}
  <2>4. p \in s /\ Cardinality(t) = Cardinality(s) - 1 /\ Cardinality(s) \in Nat \ {0}
    BY <1>1, <2>3, PickLess
  <2>5. n - 1 \in Nat /\ n - 1 < n /\ Cardinality(t) = n - 1 /\ t \in SUBSET S /\ s = t \cup {p} /\ p \notin t
    BY <2>2, <2>4
  <2>6. Total(w, t) = 0
    <3>1. n - 1 \notin Bad
      BY <2>1, <2>5
    <3> HIDE DEF t
    <3> QED BY <2>5, <3>1
  <2> HIDE DEF t, p
  <2>7. Total(w, s) = Total(w, t) + w[p]
    BY <1>1, <2>5, TotalAdd
  <2>8. w[p] = 0
    BY <2>4
  <2> QED BY <2>2, <2>6, <2>7, <2>8
<1>3. Cardinality(S) \in Nat
  BY FS_CardinalityType
<1> QED BY <1>2, <1>3

\* What a new order takes, in all.
Taking(fill, makers) == MapThenSumSet(LAMBDA m : fill[m], makers)

\* It is what it takes from those it takes something from.
LEMMA TakingIs ==
    ASSUME NEW makers, IsFiniteSet(makers), NEW fill \in [makers -> Nat]
    PROVE  /\ Taking(fill, makers) = Total(fill, {m \in makers : fill[m] > 0})
           /\ Taking(fill, makers) \in Nat
<1> DEFINE IsVol(it) ==
        it = [s \in SUBSET makers |-> IF s = {} THEN 0 ELSE fill[Pick(s)] + it[s \ {Pick(s)}]]
           A == {m \in makers : fill[m] > 0}
           B == makers \ A
<1>1. Taking(fill, makers) = (CHOOSE it : IsVol(it))[makers]
  BY DEF Taking, MapThenSumSet, MapThenFoldSet, Pick
<1>2. \A it : IsVol(it) <=> IsSum(it, fill, makers)
  BY DEF IsSum
<1>3. Taking(fill, makers) = Total(fill, makers)
  BY <1>1, <1>2 DEF Total, IsSum
<1>4. IsFiniteSet(A) /\ IsFiniteSet(B)
  BY FS_Subset
<1>5. A \cap B = {} /\ A \cup B = makers
  OBVIOUS
<1>6. Weights(fill, makers)
  BY DEF Weights
<1>7. \A x \in B : fill[x] = 0
  OBVIOUS
<1> HIDE DEF A, B
<1>8. Total(fill, A \cup B) = Total(fill, A) + Total(fill, B) /\ Total(fill, A) \in Nat
  BY <1>4, <1>5, <1>6, TotalUnion
<1>9. Total(fill, B) = 0
  BY <1>4, <1>7, TotalZero
<1>10. Total(fill, makers) = Total(fill, A) /\ Total(fill, A) \in Nat
  BY <1>5, <1>8, <1>9
<1> QED BY <1>3, <1>10 DEF A

Nth(S, m) == Cardinality({x \in S : x < m})

\* The elements of a finite set of numbers are numbered in their order.
LEMMA NthIs ==
    ASSUME NEW S \in SUBSET Nat, IsFiniteSet(S)
    PROVE  /\ Cardinality(S) \in Nat
           /\ \A m \in S : Nth(S, m) \in Nat /\ Nth(S, m) < Cardinality(S)
           /\ \A m \in S, n \in S : Nth(S, m) = Nth(S, n) => m = n
<1> DEFINE L(m) == {x \in S : x < m}
<1>1. \A m \in S : IsFiniteSet(L(m)) /\ L(m) \in SUBSET S /\ m \notin L(m) /\ Cardinality(L(m)) \in Nat
  BY FS_Subset, FS_CardinalityType
<1>2. Cardinality(S) \in Nat
  BY FS_CardinalityType
<1>3. ASSUME NEW m \in S
      PROVE  Cardinality(L(m)) < Cardinality(S)
  <2>1. L(m) # S
    BY <1>1
  <2>2. Cardinality(L(m)) <= Cardinality(S) /\ (Cardinality(S) = Cardinality(L(m)) => S = L(m))
    <3>1. L(m) \in SUBSET S
      BY <1>1
    <3> HIDE DEF L
    <3> QED BY <3>1, FS_Subset
  <2> HIDE DEF L
  <2> QED BY <1>1, <1>2, <2>1, <2>2
<1>4. ASSUME NEW m \in S, NEW n \in S, m < n
      PROVE  Cardinality(L(m)) < Cardinality(L(n))
  <2>1. L(m) \in SUBSET L(n) /\ m \in L(n) /\ m \notin L(m)
    <3>1. \A x \in S : x < m => x < n
      <4>1. m \in Nat /\ n \in Nat /\ m < n /\ \A x \in S : x \in Nat
        BY <1>4
      <4> QED BY <4>1
    <3> QED BY <1>1, <1>4, <3>1
  <2>2. Cardinality(L(m)) <= Cardinality(L(n)) /\ (Cardinality(L(n)) = Cardinality(L(m)) => L(n) = L(m))
    <3>1. IsFiniteSet(L(n))
      BY <1>1
    <3> HIDE DEF L
    <3> QED BY <2>1, <3>1, FS_Subset
  <2>3. Cardinality(L(m)) \in Nat /\ Cardinality(L(n)) \in Nat
    BY <1>1
  <2> HIDE DEF L
  <2> QED BY <2>1, <2>2, <2>3
<1>5. \A m \in S : Nth(S, m) = Cardinality(L(m))
  BY DEF Nth
<1> HIDE DEF L
<1>6. ASSUME NEW m \in S, NEW n \in S, Nth(S, m) = Nth(S, n)
      PROVE  m = n
  <2>1. m \in Nat /\ n \in Nat /\ Cardinality(L(m)) = Cardinality(L(n)) /\ Cardinality(L(m)) \in Nat
    BY <1>1, <1>5, <1>6
  <2>2. ~ (m < n) /\ ~ (n < m)
    BY <1>1, <1>4, <2>1
  <2> QED BY <2>1, <2>2
<1> QED BY <1>1, <1>2, <1>3, <1>5, <1>6

\* What is on its way of an order of which nothing has been counted.
Owed(id, o, m, F) ==
    /\ About(F, "entry", id) # {} \/ (m = "SH" /\ o.imm = o.qty)
    /\ Flying(F, "imm", id) = o.imm /\ Flying(F, "pas", id) = o.pas /\ Flying(F, "canc", id) = o.canc

\* An order of which nothing has been counted is where everything of it is on its way.
LEMMA Unheard ==
    ASSUME NEW id, NEW o \in Lives, NEW m, NEW bt, NEW F, Records(F), NEW clk
    PROVE  At(id, o, m, bt, <<>>, FALSE, FreshState, F, clk) <=> Owed(id, o, m, F)
<1>1. ~ AtLive(id, o, m, <<>>, FALSE, FreshState, F) /\ ~ AtGone(id, o, <<>>, FALSE, F)
  <2>1. <<>> # <<(<<>>)[1], (<<>>)[2]>>
    OBVIOUS
  <2> QED BY <2>1 DEF AtLive, AtGone
<1>2. At(id, o, m, bt, <<>>, FALSE, FreshState, F, clk) <=> IsWaiting(id, o, m, bt, FreshState, F)
  BY <1>1, FreshIs DEF At, AtWaiting
<1>3. /\ ~ FreshState.confirmed /\ FreshState.canc = 0 /\ FreshState.frags = {} /\ ~ FreshState.hasIncoming
      /\ ~ FreshState.hasA
  BY DEF FreshState
<1>4. Incomings(FreshState) = {} /\ Volume(Incomings(FreshState)) = 0 /\ Volume(Others(FreshState)) = 0
  BY <1>3, FreshIs DEF Incomings
<1>5. /\ Flying(F, "imm", id) \in Nat /\ Flying(F, "pas", id) \in Nat /\ Flying(F, "canc", id) \in Nat
  BY AboutRecords
<1>6. IsWaiting(id, o, m, bt, FreshState, F) <=> Owed(id, o, m, F)
  BY <1>3, <1>4, <1>5, FS_EmptySet DEF IsWaiting, Owed
<1> QED BY <1>2, <1>6

\* Before the first time point everything is on its way.
LEMMA AllOwed ==
    ASSUME NEW b, Core(b), clock = 0, NEW id \in DOMAIN book
    PROVE  Owed(id, book[id], market, flight)
<1>1. orders = <<>> /\ lives = [x \in Ids |-> <<>>] /\ id \in Ids /\ book[id] \in Lives /\ Records(flight)
  BY DEF Core, StageInv, BookInv, FlightInv
<1>2. (id \in DOMAIN orders) = FALSE /\ lives[id] = <<>> /\ StateOf(id) = FreshState
  BY <1>1 DEF StateOf
<1>3. At(id, book[id], market, b[id], lives[id], id \in DOMAIN orders, StateOf(id), flight, clock)
  BY DEF Core, IdsInv
<1>4. At(id, book[id], market, b[id], <<>>, FALSE, FreshState, flight, clock)
  BY <1>2, <1>3
<1> QED BY <1>1, <1>4, Unheard

\* A step of the exchange keeps the invariant if the accounts of the orders are in flight.
LEMMA ExchangeStep ==
    ASSUME NEW b, FeedInv(b), clock = 0, NEW c, UNCHANGED <<market, builderVars, flagged, clock, ended, lives>>,
           BookInv(c)', FlightInv(c)', DOMAIN book \subseteq DOMAIN book',
           \A id \in DOMAIN book' : Owed(id, book'[id], market, flight'),
           DOMAIN paired' = FlyingTrades', paired' = [n \in DOMAIN paired' |-> 0]
    PROVE  FeedInv(c)'
<1>1. /\ orders = <<>> /\ deadlines = {} /\ slots = <<>> /\ free = {} /\ waiters = <<>> /\ events = NoEvents
      /\ pairs = {} /\ ~ ended /\ lives = [x \in Ids |-> <<>>]
  BY DEF FeedInv, StageInv
<1>2. /\ orders' = orders /\ deadlines' = deadlines /\ slots' = slots /\ free' = free /\ waiters' = waiters
      /\ events' = events /\ pairs' = pairs /\ lives' = lives /\ ended' = ended /\ clock' = clock /\ market' = market
  BY DEF builderVars
<1>3. Records(flight') /\ \A r \in flight' : r.time \in Nat
  BY DEF FlightInv
<1>4. \A id \in DOMAIN book' : book'[id] \in Lives
  BY DEF BookInv
<1>5. StageInv'
  <2>1. \A r \in flight' : 0 <= r.time + Lag
    BY <1>3, FeedAssumption
  <2>2. 0 \in 0..LastPoint /\ FALSE \in BOOLEAN /\ ended \in BOOLEAN /\ clock \in 0..LastPoint
    BY DEF FeedInv, StageInv
  <2>3. ~ (0 > 0)
    OBVIOUS
  <2> QED BY <1>1, <1>2, <2>1, <2>2, <2>3 DEF StageInv
<1>6. IdsInv(c)'
  <2>1. DOMAIN orders' = {} /\ orders' = [id \in DOMAIN orders' |-> orders'[id]]
    BY <1>1, <1>2
  <2>2. \A id \in Ids : lives'[id] = <<>>
    BY <1>1, <1>2
  <2>3. lives' = [id \in Ids |-> lives'[id]]
    BY <1>1, <1>2
  <2>4. ASSUME NEW id \in DOMAIN book'
        PROVE  At(id, book'[id], market', c[id], lives'[id], id \in DOMAIN orders', StateOf(id)', flight', clock')
    <3>1. (id \in DOMAIN orders') = FALSE /\ StateOf(id)' = FreshState
      BY <2>1 DEF StateOf
    <3>2. lives'[id] = <<>>
      BY <2>2 DEF BookInv
    <3>3. Owed(id, book'[id], market', flight') /\ book'[id] \in Lives
      BY <1>2, <1>4
    <3>4. At(id, book'[id], market', c[id], <<>>, FALSE, FreshState, flight', clock')
      BY <1>3, <3>3, Unheard
    <3> QED BY <3>1, <3>2, <3>4
  <2> QED BY <2>1, <2>2, <2>3, <2>4 DEF IdsInv
<1>7. HeapInv' /\ Conservation' /\ PairsInv'
  <2>1. HeapInv'
    BY <1>1, <1>2 DEF HeapInv
  <2>2. \A id \in Ids : Len(events'[id]) = 0
    BY <1>1, <1>2 DEF NoEvents
  <2>3. Conservation'
    BY <2>2 DEF Conservation
  <2> QED BY <1>1, <1>2, <2>1, <2>3 DEF PairsInv
<1>8. Len(slots') = 0 /\ Active' = {} /\ WaitingTrades' = {}
  <2>1. Len(slots') = 0
    BY <1>1, <1>2
  <2> QED BY <2>1 DEF Active, WaitingTrades
<1>9. SlotsInv'
  <2>1. slots' \in Seq(SlotSet) /\ free' \subseteq 1..Len(slots') /\ DOMAIN waiters' = {}
        /\ waiters' \in [DOMAIN waiters' -> Seq(1..Len(slots'))]
    BY <1>1, <1>2
  <2>2. 1..Len(slots') = {}
    BY <1>8
  <2> QED BY <2>1, <2>2 DEF SlotsInv
<1>10. PairedInv'
  BY <1>8 DEF PairedInv
<1> QED BY <1>5, <1>6, <1>7, <1>9, <1>10 DEF FeedInv

\* The trades on their way are those that have no pair yet.
LEMMA AllFlying ==
    ASSUME NEW b, FeedInv(b), clock = 0
    PROVE  DOMAIN paired = FlyingTrades /\ paired = [n \in DOMAIN paired |-> 0]
<1>1. slots = <<>> /\ paired = [n \in DOMAIN paired |-> 0]
  BY DEF FeedInv, StageInv
<1>2. WaitingTrades = {}
  BY <1>1 DEF WaitingTrades, Active
<1>3. /\ FlyingTrades \cup WaitingTrades \subseteq DOMAIN paired
      /\ \A n \in DOMAIN paired : paired[n] = 0 <=> n \in FlyingTrades \cup WaitingTrades
  BY DEF FeedInv, PairedInv
<1> QED BY <1>1, <1>2, <1>3

\* The clock of the exchange keeps the invariant.
LEMMA ClockKeeps ==
    ASSUME NEW b, FeedInv(b), ExchangeClock
    PROVE  FeedInv(b)'
<1>1. /\ now < Close /\ now' = now + 1
      /\ UNCHANGED <<market, builderVars, book, biz, flight, flagged, clock, ended, lives, paired>>
  BY DEF ExchangeClock
<1>2. clock = 0
  <2>1. clock \in Nat /\ (clock > 0 => now = Close) /\ now \in 1..Close /\ Close \in Nat
    BY FeedAssumption DEF FeedInv, StageInv, BookInv
  <2> QED BY <1>1, <2>1
<1>3. BookInv(b)'
  <2>1. now' \in 1..Close /\ \A id \in DOMAIN book : b[id].time <= now'
    <3>1. Close \in Nat /\ now \in 1..Close
      BY FeedAssumption DEF FeedInv, BookInv
    <3>2. \A id \in DOMAIN book : b[id].time \in Nat /\ b[id].time <= now
      BY DEF FeedInv, BookInv
    <3> QED BY <1>1, <3>1, <3>2
  <2> QED BY <1>1, <2>1 DEF FeedInv, BookInv
<1>4. FlightInv(b)'
  BY <1>1 DEF FeedInv, FlightInv
<1>5. Core(b)
  BY DEF FeedInv, Core
<1>6. \A id \in DOMAIN book' : Owed(id, book'[id], market, flight')
  BY <1>1, <1>2, <1>5, AllOwed
<1>7. FlyingTrades' = FlyingTrades
  BY <1>1 DEF FlyingTrades
<1>8. DOMAIN paired' = FlyingTrades' /\ paired' = [n \in DOMAIN paired' |-> 0]
  BY <1>1, <1>2, <1>7, AllFlying
<1> QED BY <1>1, <1>2, <1>3, <1>4, <1>6, <1>8, ExchangeStep

\* Records about other orders do not touch the accounts of an order.
LEMMA OwedSame ==
    ASSUME NEW id, NEW o, NEW m, NEW F, NEW R, Owed(id, o, m, F), \A r \in R : Part(r, id) = "none"
    PROVE  Owed(id, o, m, F \cup R)
<1>1. ASSUME NEW part, part # "none"
      PROVE  About(F \cup R, part, id) = About(F, part, id)
  BY <1>1 DEF About
<1>2. /\ About(F \cup R, "entry", id) = About(F, "entry", id)
      /\ About(F \cup R, "imm", id) = About(F, "imm", id)
      /\ About(F \cup R, "pas", id) = About(F, "pas", id)
      /\ About(F \cup R, "canc", id) = About(F, "canc", id)
  BY <1>1
<1> QED BY <1>2 DEF Owed, Flying

\* What a record tells of an order depends on the quantity of the order and on what it took at once.
LEMMA FitsSame ==
    ASSUME NEW r, NEW id, NEW o, NEW p, NEW m, NEW bt, Fits(r, id, o, m, bt), p.qty = o.qty, p.imm = o.imm
    PROVE  Fits(r, id, p, m, bt)
BY DEF Fits

\* Records of orders that the exchange knows do not name others.
LEMMA Strange ==
    ASSUME NEW b, FlightInv(b), NEW id, id \notin DOMAIN book, NEW r \in flight
    PROVE  Part(r, id) = "none"
<1>1. id \notin Names(r)
  BY DEF FlightInv, Names
<1> QED BY <1>1, NamesPart

\* A cancel keeps the invariant.
LEMMA WithdrawKeeps ==
    ASSUME NEW b, FeedInv(b), NEW id \in Ids, Withdraw(id)
    PROVE  FeedInv(b)'
<1> DEFINE o == book[id]
           p == [o EXCEPT !.canc = Rest(o)]
           r == Record(IF market = "SZ" THEN "cancel" ELSE "D", id, Rest(o))
<1>1. /\ id \in DOMAIN book /\ Rest(o) > 0 /\ now <= LastOrder
      /\ book' = [book EXCEPT ![id].canc = Rest(o)] /\ biz' = biz + 1 /\ flight' = flight \cup {r}
      /\ UNCHANGED <<market, builderVars, now, flagged, clock, ended, lives, paired>>
  BY DEF Withdraw, Resting
<1>2. Core(b)
  BY DEF FeedInv, Core
<1>3. clock = 0
  <2>1. clock \in Nat /\ (clock > 0 => now = Close) /\ Close \in Nat /\ LastOrder \in Nat /\ LastOrder < Close
    BY <1>2, FeedAssumption DEF Core, StageInv
  <2> QED BY <1>1, <2>1
<1>4. /\ o \in Lives /\ Within(o) /\ (o.canc # 0 => Rest(o) = 0) /\ book \in [DOMAIN book -> Lives]
      /\ biz \in Nat /\ now \in Nat \ {0} /\ market \in {"SH", "SZ"} /\ Records(flight)
      /\ \A x \in DOMAIN book : b[x].biz <= biz /\ b[x].biz \in Nat /\ b[x].time <= now
  <2>1. now \in 1..Close /\ Close \in Nat
    BY <1>2, FeedAssumption DEF Core, BookInv
  <2> QED BY <1>1, <1>2, <2>1 DEF Core, BookInv, FlightInv
<1>5. /\ o.canc = 0 /\ Rest(o) \in Nat \ {0} /\ p \in Lives /\ p.canc = Rest(o) /\ p.imm = o.imm /\ p.pas = o.pas
      /\ p.qty = o.qty /\ Within(p) /\ Rest(p) = 0
  <2>1. o.qty \in Nat /\ o.imm \in Nat /\ o.pas \in Nat /\ o.canc \in Nat
    BY <1>4 DEF Lives
  <2>2. o.canc = 0
    BY <1>1, <1>4
  <2>3. Rest(o) = o.qty - (o.imm + o.pas + o.canc) /\ Rest(o) \in Nat \ {0}
    BY <1>1, <2>1 DEF Rest
  <2>4. p \in Lives /\ p.canc = Rest(o) /\ p.imm = o.imm /\ p.pas = o.pas /\ p.qty = o.qty
    BY <1>4, <2>3 DEF Lives
  <2> HIDE DEF p
  <2>5. Within(p) /\ Rest(p) = 0
    <3>1. Rest(p) = p.qty - (p.imm + p.pas + p.canc)
      BY DEF Rest
    <3> QED BY <2>1, <2>2, <2>3, <2>4, <3>1 DEF Within
  <2> QED BY <2>2, <2>3, <2>4, <2>5
<1>6. /\ r.kind = (IF market = "SZ" THEN "cancel" ELSE "D") /\ r.id = id /\ r.qty = Rest(o) /\ r.biz = biz /\ r.time = now
  BY DEF Record
<1>7. \A x : Part(r, x) = IF x = id THEN "canc" ELSE "none"
  BY <1>4, <1>6 DEF Part
<1>8. /\ DOMAIN book' = DOMAIN book /\ book'[id] = p
      /\ \A x \in DOMAIN book : x # id => book'[x] = book[x]
      /\ book' = [x \in DOMAIN book |-> IF x = id THEN p ELSE book[x]]
  BY <1>1, <1>4
<1> HIDE DEF p, r
<1>9. BookInv(b)'
  <2>1. book' \in [DOMAIN book' -> Lives]
    BY <1>4, <1>5, <1>8
  <2>2. \A x \in DOMAIN book' : Within(book'[x]) /\ (book'[x].canc # 0 => Rest(book'[x]) = 0)
    <3>1. \A x \in DOMAIN book : Within(book[x]) /\ (book[x].canc # 0 => Rest(book[x]) = 0)
      BY <1>2 DEF Core, BookInv
    <3> QED BY <1>5, <1>8, <3>1
  <2>3. biz' \in Nat /\ \A x \in DOMAIN book' : b[x].biz <= biz' /\ b[x].time <= now'
    BY <1>1, <1>4, <1>8
  <2> QED BY <1>1, <1>2, <1>8, <2>1, <2>2, <2>3 DEF Core, BookInv
<1>10. r \notin flight
  <2>1. \A s \in flight : s.biz < biz /\ s.biz \in Nat
    BY <1>2 DEF Core, FlightInv
  <2> QED BY <1>4, <1>6, <2>1
<1>11. FlightInv(b)'
  <2>1. Records(flight')
    BY <1>1, <1>4, <1>5, <1>6, <1>10, FS_AddElement DEF Records
  <2>2. ASSUME NEW s \in flight'
        PROVE  /\ s.biz \in Nat /\ s.biz < biz' /\ s.time \in Nat \ {0}
               /\ \/ s.kind = "trade" /\ s.buy \in DOMAIN book' /\ s.sell \in DOMAIN book' /\ s.buy # s.sell
                  \/ s.kind \in (IF market = "SZ" THEN {"order", "cancel"} ELSE {"A", "D"}) /\ s.id \in DOMAIN book'
               /\ \A x \in DOMAIN book' : Fits(s, x, book'[x], market, b[x])
    <3>1. CASE s = r
      <4>1. \A x \in DOMAIN book' : Fits(s, x, book'[x], market, b[x])
        BY <1>4, <1>6, <1>7, <1>8, <3>1 DEF Fits
      <4> QED BY <1>1, <1>4, <1>6, <1>8, <3>1, <4>1
    <3>2. CASE s \in flight
      <4>1. /\ s.biz \in Nat /\ s.biz < biz /\ s.time \in Nat \ {0}
            /\ \/ s.kind = "trade" /\ s.buy \in DOMAIN book /\ s.sell \in DOMAIN book /\ s.buy # s.sell
               \/ s.kind \in (IF market = "SZ" THEN {"order", "cancel"} ELSE {"A", "D"}) /\ s.id \in DOMAIN book
            /\ \A x \in DOMAIN book : Fits(s, x, book[x], market, b[x])
        BY <1>2, <3>2 DEF Core, FlightInv
      <4>2. \A x \in DOMAIN book' : Fits(s, x, book'[x], market, b[x])
        <5>1. \A x \in DOMAIN book : book'[x].qty = book[x].qty /\ book'[x].imm = book[x].imm
          BY <1>5, <1>8
        <5> QED BY <1>8, <4>1, <5>1, FitsSame
      <4> QED BY <1>1, <1>4, <1>8, <4>1, <4>2
    <3> QED BY <1>1, <2>2, <3>1, <3>2
  <2>3. \A s \in flight', t \in flight' : s.biz = t.biz => s = t
    <3>1. \A s \in flight : s.biz < biz /\ s.biz \in Nat
      BY <1>2 DEF Core, FlightInv
    <3>2. \A s \in flight, t \in flight : s.biz = t.biz => s = t
      BY <1>2 DEF Core, FlightInv
    <3> QED BY <1>1, <1>4, <1>6, <3>1, <3>2
  <2>4. \A s \in flight' : s.time <= LastOrder
    <3>1. \A s \in flight : s.time <= LastOrder
      BY <1>2 DEF Core, FlightInv
    <3> QED BY <1>1, <1>6, <3>1
  <2> QED BY <1>1, <2>1, <2>2, <2>3, <2>4 DEF FlightInv
<1>12. ASSUME NEW x \in DOMAIN book'
       PROVE  Owed(x, book'[x], market, flight')
  <2>1. Owed(x, book[x], market, flight)
    BY <1>2, <1>3, <1>8, AllOwed
  <2>2. CASE x # id
    <3>1. Part(r, x) = "none"
      BY <1>7, <2>2
    <3> QED BY <1>1, <1>8, <2>1, <2>2, <3>1, OwedSame
  <2>3. CASE x = id
    <3>1. \A part : Flying(flight', part, id) = Flying(flight, part, id) + IF part = "canc" THEN Rest(o) ELSE 0
      <4> SUFFICES ASSUME NEW part
                   PROVE  Flying(flight', part, id) = Flying(flight, part, id) + IF part = "canc" THEN Rest(o) ELSE 0
        OBVIOUS
      <4>1. Flying(flight \cup {r}, part, id) = Flying(flight, part, id) + IF Part(r, id) = part THEN r.qty ELSE 0
        <5>1. Records(flight) /\ r \notin flight /\ r.qty \in Nat \ {0}
          BY <1>4, <1>5, <1>6, <1>10
        <5> QED BY <5>1, FlyingAdd
      <4> QED BY <1>1, <1>6, <1>7, <4>1
    <3>2. Flying(flight', "imm", id) = Flying(flight, "imm", id) + 0
          /\ Flying(flight', "pas", id) = Flying(flight, "pas", id) + 0
          /\ Flying(flight', "canc", id) = Flying(flight, "canc", id) + Rest(o)
      BY <3>1
    <3>3. /\ Flying(flight, "imm", id) = o.imm /\ Flying(flight, "pas", id) = o.pas /\ Flying(flight, "canc", id) = 0
          /\ (About(flight, "entry", id) # {} \/ (market = "SH" /\ o.imm = o.qty))
      BY <1>5, <2>1, <2>3 DEF Owed
    <3>4. o.imm \in Nat /\ o.pas \in Nat
      BY <1>4 DEF Lives
    <3>5. /\ Flying(flight', "imm", id) = p.imm /\ Flying(flight', "pas", id) = p.pas
          /\ Flying(flight', "canc", id) = p.canc
      BY <1>5, <3>2, <3>3, <3>4
    <3>6. About(flight', "entry", id) # {} \/ (market = "SH" /\ p.imm = p.qty)
      BY <1>1, <1>5, <3>3 DEF About
    <3> QED BY <1>8, <2>3, <3>5, <3>6 DEF Owed
  <2> QED BY <2>2, <2>3
<1>13. FlyingTrades' = FlyingTrades
  BY <1>1, <1>4, <1>6 DEF FlyingTrades
<1>14. DOMAIN paired' = FlyingTrades' /\ paired' = [n \in DOMAIN paired' |-> 0]
  BY <1>1, <1>3, <1>13, AllFlying
<1> QED BY <1>1, <1>3, <1>8, <1>9, <1>11, <1>12, <1>14, ExchangeStep

TradeSet(id, side, S, fill, first) == {Trade(first + Nth(S, m), id, side, m, fill[m]) : m \in S}

\* T holds the trades of order id with the resting orders S.
NewTrades(T, id, S, fill, first) ==
    /\ \A m \in S :
         /\ T[m].kind = "trade" /\ T[m].buy \in {id, m} /\ T[m].sell \in {id, m} /\ T[m].buy # T[m].sell
         /\ T[m].qty = fill[m] /\ T[m].time = now
         /\ T[m].biz \in Nat /\ first <= T[m].biz /\ T[m].biz < first + Cardinality(S)
         /\ \A x : Part(T[m], x) = IF x = id THEN "imm" ELSE IF x = m THEN "pas" ELSE "none"
    /\ \A m \in S, n \in S : T[m].biz = T[n].biz => m = n
    /\ Records({T[m] : m \in S}) /\ Shares({T[m] : m \in S}) = Total(fill, S)

\* The trades of an order that arrives: one with each of the resting orders S, in their order.
LEMMA TradesAre ==
    ASSUME NEW id \in Nat \ {0}, NEW side \in Sides, flagged \in BOOLEAN, now \in Nat \ {0},
           NEW S \in SUBSET Nat, IsFiniteSet(S), \A m \in S : m < id,
           NEW fill, \A m \in S : fill[m] \in Nat \ {0}, NEW first \in Nat
    PROVE  \E T : TradeSet(id, side, S, fill, first) = {T[m] : m \in S} /\ NewTrades(T, id, S, fill, first)
<1> DEFINE T == [m \in S |-> Trade(first + Nth(S, m), id, side, m, fill[m])]
<1>1. /\ Cardinality(S) \in Nat
      /\ \A m \in S : Nth(S, m) \in Nat /\ Nth(S, m) < Cardinality(S)
      /\ \A m \in S, n \in S : Nth(S, m) = Nth(S, n) => m = n
  BY NthIs
<1>2. TradeSet(id, side, S, fill, first) = {T[m] : m \in S}
  BY DEF TradeSet
<1>3. ASSUME NEW m \in S
      PROVE  /\ T[m].kind = "trade" /\ T[m].buy \in {id, m} /\ T[m].sell \in {id, m} /\ T[m].buy # T[m].sell
             /\ T[m].qty = fill[m] /\ T[m].time = now /\ T[m].biz = first + Nth(S, m)
             /\ \A x : Part(T[m], x) = IF x = id THEN "imm" ELSE IF x = m THEN "pas" ELSE "none"
  <2> DEFINE r == T[m]
  <2>1. /\ r.kind = "trade" /\ r.qty = fill[m] /\ r.time = now /\ r.biz = first + Nth(S, m)
        /\ r.buy = (IF side = "B" THEN id ELSE m) /\ r.sell = (IF side = "B" THEN m ELSE id)
        /\ r.flag = IF flagged THEN side ELSE "none"
    BY DEF Trade
  <2>2. m < id /\ m \in Nat /\ id \in Nat /\ m # id /\ side \in {"B", "S"}
    BY DEF Sides
  <2> HIDE DEF T
  <2>3. r.buy \in {id, m} /\ r.sell \in {id, m} /\ r.buy # r.sell
    BY <2>1, <2>2
  <2>4. Aggressor(r) = side
    <3>1. CASE flagged
      BY <2>1, <2>2, <3>1 DEF Aggressor
    <3>2. CASE ~ flagged
      <4>1. Aggressor(r) = IF r.buy > r.sell THEN "B" ELSE "S"
        BY <2>1, <3>2 DEF Aggressor
      <4>2. CASE side = "B"
        BY <2>1, <2>2, <4>1, <4>2
      <4>3. CASE side = "S"
        <5>1. r.buy = m /\ r.sell = id /\ ~ (m > id)
          BY <2>1, <2>2, <4>3
        <5> QED BY <4>1, <4>3, <5>1
      <4> QED BY <2>2, <4>2, <4>3
    <3> QED BY <3>1, <3>2
  <2>5. Incoming(r, id) /\ ~ Incoming(r, m)
    <3>1. CASE side = "B"
      BY <2>1, <2>2, <2>4, <3>1 DEF Incoming
    <3>2. CASE side = "S"
      BY <2>1, <2>2, <2>4, <3>2 DEF Incoming
    <3> QED BY <2>2, <3>1, <3>2
  <2>6. \A x : Part(r, x) = IF x = id THEN "imm" ELSE IF x = m THEN "pas" ELSE "none"
    BY <2>1, <2>2, <2>5 DEF Part
  <2> QED BY <2>1, <2>3, <2>6
<1> HIDE DEF T
<1>4. \A m \in S, n \in S : T[m].biz = T[n].biz => m = n
  <2> SUFFICES ASSUME NEW m \in S, NEW n \in S, T[m].biz = T[n].biz PROVE m = n
    OBVIOUS
  <2>1. first + Nth(S, m) = first + Nth(S, n) /\ Nth(S, m) \in Nat /\ Nth(S, n) \in Nat
    BY <1>1, <1>3
  <2> QED BY <1>1, <2>1
<1>5. Records({T[m] : m \in S}) /\ Shares({T[m] : m \in S}) = Total(fill, S)
  <2>1. \A m \in S : T[m].qty = fill[m] /\ fill[m] \in Nat \ {0}
    BY <1>3
  <2>2. \A m \in S, n \in S : T[m] = T[n] => m = n
    BY <1>4
  <2> QED BY <2>1, <2>2, ImageShares
<1>6. \A m \in S : T[m].biz \in Nat /\ first <= T[m].biz /\ T[m].biz < first + Cardinality(S)
  <2> SUFFICES ASSUME NEW m \in S
               PROVE  T[m].biz \in Nat /\ first <= T[m].biz /\ T[m].biz < first + Cardinality(S)
    OBVIOUS
  <2>1. T[m].biz = first + Nth(S, m) /\ Nth(S, m) \in Nat /\ Nth(S, m) < Cardinality(S)
    BY <1>1, <1>3
  <2> QED BY <1>1, <2>1
<1>7. NewTrades(T, id, S, fill, first)
  <2>1. \A m \in S :
         /\ T[m].kind = "trade" /\ T[m].buy \in {id, m} /\ T[m].sell \in {id, m} /\ T[m].buy # T[m].sell
         /\ T[m].qty = fill[m] /\ T[m].time = now
         /\ T[m].biz \in Nat /\ first <= T[m].biz /\ T[m].biz < first + Cardinality(S)
         /\ \A x : Part(T[m], x) = IF x = id THEN "imm" ELSE IF x = m THEN "pas" ELSE "none"
    <3> SUFFICES ASSUME NEW m \in S
                 PROVE
         /\ T[m].kind = "trade" /\ T[m].buy \in {id, m} /\ T[m].sell \in {id, m} /\ T[m].buy # T[m].sell
         /\ T[m].qty = fill[m] /\ T[m].time = now
         /\ T[m].biz \in Nat /\ first <= T[m].biz /\ T[m].biz < first + Cardinality(S)
         /\ \A x : Part(T[m], x) = IF x = id THEN "imm" ELSE IF x = m THEN "pas" ELSE "none"
      OBVIOUS
    <3> QED BY <1>3, <1>6
  <2> QED BY <1>4, <1>5, <2>1 DEF NewTrades
<1> QED BY <1>2, <1>7

Entry(id, q, imm, K) ==
    IF market = "SZ" THEN {Record("order", id, q)}
    ELSE IF imm = q THEN {}
    ELSE {[Record("A", id, q - imm) EXCEPT !.biz = biz + K]}

\* It is one record, unless everything was filled at once in Shanghai.
Announces(entry, id, q, imm, K) ==
    /\ IsFiniteSet(entry) /\ Cardinality(entry) \in {0, 1}
    /\ entry # {} \/ (market = "SH" /\ imm = q)
    /\ \A e \in entry :
         /\ e.kind = (IF market = "SZ" THEN "order" ELSE "A") /\ e.id = id /\ e.time = now
         /\ e.qty \in Nat \ {0} /\ e.qty = (IF market = "SZ" THEN q ELSE q - imm)
         /\ e.biz = (IF market = "SZ" THEN biz ELSE biz + K) /\ Cardinality(entry) = 1
         /\ \A x : Part(e, x) = IF x = id THEN "entry" ELSE "none"
    /\ \A e \in entry, f \in entry : e = f

\* The record that announces an order.
LEMMA EntryIs ==
    ASSUME NEW id, NEW q \in Nat \ {0}, NEW imm \in Nat, imm <= q, NEW K \in Nat, market \in {"SH", "SZ"}, biz \in Nat
    PROVE  Announces(Entry(id, q, imm, K), id, q, imm, K)
<1> DEFINE entry == Entry(id, q, imm, K)
<1>1. CASE market = "SZ"
  <2> DEFINE e == Record("order", id, q)
  <2>1. entry = {e}
    BY <1>1 DEF Entry
  <2>2. e.kind = "order" /\ e.id = id /\ e.time = now /\ e.qty = q /\ e.biz = biz
    BY DEF Record
  <2> HIDE DEF e
  <2>3. \A x : Part(e, x) = IF x = id THEN "entry" ELSE "none"
    BY <2>2 DEF Part
  <2>4. IsFiniteSet(entry) /\ Cardinality(entry) = 1
    <3>1. IsFiniteSet({e}) /\ Cardinality({e}) = 1
      BY FS_Singleton
    <3> QED BY <2>1, <3>1
  <2>5. \A f \in entry : f = e
    BY <2>1
  <2>6. ~ (market = "SH" /\ imm = q) /\ entry # {}
    BY <1>1, <2>1
  <2> QED BY <1>1, <2>2, <2>3, <2>4, <2>5, <2>6 DEF Announces
<1>2. CASE market = "SH" /\ imm = q
  <2>1. entry = {}
    BY <1>2 DEF Entry
  <2> QED BY <1>2, <2>1, FS_EmptySet DEF Announces
<1>3. CASE market = "SH" /\ imm # q
  <2> DEFINE e == [Record("A", id, q - imm) EXCEPT !.biz = biz + K]
  <2>1. entry = {e}
    BY <1>3 DEF Entry
  <2>2. e.kind = "A" /\ e.id = id /\ e.time = now /\ e.qty = q - imm /\ e.biz = biz + K
    BY DEF Record
  <2> HIDE DEF e
  <2>3. \A x : Part(e, x) = IF x = id THEN "entry" ELSE "none"
    BY <2>2 DEF Part
  <2>4. q - imm \in Nat \ {0}
    BY <1>3
  <2>5. IsFiniteSet(entry) /\ Cardinality(entry) = 1
    <3>1. IsFiniteSet({e}) /\ Cardinality({e}) = 1
      BY FS_Singleton
    <3> QED BY <2>1, <3>1
  <2>6. \A f \in entry : f = e
    BY <2>1
  <2>7. entry # {} /\ market # "SZ"
    BY <1>3, <2>1
  <2> QED BY <1>3, <2>2, <2>3, <2>4, <2>5, <2>6, <2>7 DEF Announces
<1> QED BY <1>1, <1>2, <1>3

\* What happens when an order arrives: it trades with S, T are the trades, entry what announces it.
Arrives(id, side, q, S, fill, T, entry) ==
    /\ S \subseteq DOMAIN book /\ \A m \in S : fill[m] \in Nat \ {0} /\ fill[m] <= Rest(book[m])
    /\ Total(fill, S) \in Nat /\ Total(fill, S) <= q
    /\ NewTrades(T, id, S, fill, IF market = "SZ" THEN biz + 1 ELSE biz)
    /\ entry = Entry(id, q, Total(fill, S), Cardinality(S))
    /\ book' = [x \in DOMAIN book \cup {id} |->
                  IF x = id THEN [side |-> side, qty |-> q, imm |-> Total(fill, S), pas |-> 0, canc |-> 0]
                  ELSE IF x \in S THEN [book[x] EXCEPT !.pas = @ + fill[x]]
                  ELSE book[x]]
    /\ biz' = biz + Cardinality(S) + Cardinality(entry)
    /\ flight' = flight \cup {T[m] : m \in S} \cup entry
    /\ DOMAIN paired' = DOMAIN paired \cup {T[m].biz : m \in S}
    /\ \A n \in DOMAIN paired' : paired'[n] = IF n \in DOMAIN paired THEN paired[n] ELSE 0
    /\ paired' = [n \in DOMAIN paired' |-> paired'[n]]

\* The state of the exchange before the first time point.
LEMMA Exchange ==
    ASSUME NEW b, FeedInv(b), now <= LastOrder
    PROVE  /\ Core(b) /\ clock = 0 /\ biz \in Nat /\ now \in Nat \ {0} /\ market \in {"SH", "SZ"} /\ flagged \in BOOLEAN
           /\ Records(flight) /\ IsFiniteSet(DOMAIN book) /\ Cardinality(DOMAIN book) \in Nat
           /\ DOMAIN book = 1..Cardinality(DOMAIN book) /\ DOMAIN book \subseteq Ids /\ book \in [DOMAIN book -> Lives]
           /\ \A x \in DOMAIN book : /\ Within(book[x]) /\ (book[x].canc # 0 => Rest(book[x]) = 0)
                                     /\ b[x].biz <= biz /\ b[x].biz \in Nat /\ b[x].time <= now /\ b[x].time \in Nat \ {0}
           /\ \A r \in flight : r.biz \in Nat /\ r.biz < biz
<1>1. Core(b)
  BY DEF FeedInv, Core
<1>2. clock = 0
  <2>1. clock \in Nat /\ (clock > 0 => now = Close) /\ Close \in Nat /\ LastOrder \in Nat /\ LastOrder < Close
    BY <1>1, FeedAssumption DEF Core, StageInv
  <2> QED BY <2>1
<1>3. now \in 1..Close /\ Close \in Nat
  BY <1>1, FeedAssumption DEF Core, BookInv
<1>4. IsFiniteSet(DOMAIN book) /\ Cardinality(DOMAIN book) \in Nat
  BY <1>1, FS_CardinalityType DEF Core, BookInv
<1>5. \A x \in DOMAIN book : b[x].biz <= biz /\ b[x].biz \in Nat /\ b[x].time <= now /\ b[x].time \in Nat \ {0}
  BY <1>1 DEF Core, BookInv
<1>6. \A r \in flight : r.biz \in Nat /\ r.biz < biz
  BY <1>1 DEF Core, FlightInv
<1>7. Records(flight)
  BY <1>1 DEF Core, FlightInv
<1> QED BY <1>1, <1>2, <1>3, <1>4, <1>5, <1>6, <1>7 DEF Core, BookInv

\* Arrive, in these words.
LEMMA ArriveIs ==
    ASSUME NEW b, FeedInv(b), NEW id \in Ids, NEW side \in Sides, NEW q \in 1..MaxQty, Arrive(id, side, q)
    PROVE  /\ id = Cardinality(DOMAIN book) + 1 /\ now <= LastOrder
           /\ UNCHANGED <<market, builderVars, now, flagged, clock, ended, lives>>
           /\ \E S, fill, T, entry : Arrives(id, side, q, S, fill, T, entry)
<1> DEFINE makers == {m \in DOMAIN book : Resting(m) /\ book[m].side # side}
           S_(fill) == {m \in makers : fill[m] > 0}
<1>1. /\ id = Cardinality(DOMAIN book) + 1 /\ now <= LastOrder
      /\ UNCHANGED <<market, builderVars, now, flagged, clock, ended, lives>>
  BY DEF Arrive
<1>2. PICK fill \in [makers -> 0..MaxQty] :
        LET S == S_(fill)
            imm == Taking(fill, makers)
            first == IF market = "SZ" THEN biz + 1 ELSE biz
            trades == TradeSet(id, side, S, fill, first)
            entry == Entry(id, q, imm, Cardinality(S))
        IN  /\ imm <= q
            /\ \A m \in makers : fill[m] <= Rest(book[m])
            /\ book' = [x \in DOMAIN book \cup {id} |->
                          IF x = id THEN [side |-> side, qty |-> q, imm |-> imm, pas |-> 0, canc |-> 0]
                          ELSE IF x \in S THEN [book[x] EXCEPT !.pas = @ + fill[x]]
                          ELSE book[x]]
            /\ biz' = biz + Cardinality(S) + Cardinality(entry)
            /\ flight' = flight \cup trades \cup entry
            /\ paired' = [n \in DOMAIN paired \cup {r.biz : r \in trades} |->
                            IF n \in DOMAIN paired THEN paired[n] ELSE 0]
  BY DEF Arrive, Taking, Nth, Entry, TradeSet
<1> DEFINE S == S_(fill)
           first == IF market = "SZ" THEN biz + 1 ELSE biz
           trades == TradeSet(id, side, S, fill, first)
           imm == Taking(fill, makers)
           entry == Entry(id, q, imm, Cardinality(S))
<1>3. /\ imm <= q /\ (\A m \in makers : fill[m] <= Rest(book[m]))
      /\ book' = [x \in DOMAIN book \cup {id} |->
                    IF x = id THEN [side |-> side, qty |-> q, imm |-> imm, pas |-> 0, canc |-> 0]
                    ELSE IF x \in S THEN [book[x] EXCEPT !.pas = @ + fill[x]]
                    ELSE book[x]]
      /\ biz' = biz + Cardinality(S) + Cardinality(entry)
      /\ flight' = flight \cup trades \cup entry
      /\ paired' = [n \in DOMAIN paired \cup {r.biz : r \in trades} |->
                      IF n \in DOMAIN paired THEN paired[n] ELSE 0]
  BY <1>2
<1>4. /\ biz \in Nat /\ now \in Nat \ {0} /\ market \in {"SH", "SZ"} /\ flagged \in BOOLEAN
      /\ IsFiniteSet(DOMAIN book) /\ Cardinality(DOMAIN book) \in Nat /\ DOMAIN book = 1..Cardinality(DOMAIN book)
  BY <1>1, Exchange
<1>5. makers \subseteq DOMAIN book /\ S \subseteq makers
  OBVIOUS
<1>6. MaxQty \in Nat /\ fill \in [makers -> Nat] /\ S = {m \in makers : fill[m] > 0}
  BY FeedAssumption
<1> HIDE DEF makers
<1>7. IsFiniteSet(makers) /\ IsFiniteSet(S)
  BY <1>4, <1>5, FS_Subset
<1>8. imm = Total(fill, S) /\ imm \in Nat
  BY <1>6, <1>7, TakingIs
<1>9. S \in SUBSET Nat /\ (\A m \in S : m < id) /\ id \in Nat \ {0}
  BY <1>1, <1>4, <1>5
<1>10. \A m \in S : fill[m] \in Nat \ {0} /\ fill[m] <= Rest(book[m])
  BY <1>3, <1>5, <1>6
<1>11. first \in Nat
  BY <1>4
<1> HIDE DEF S, first, imm, S_
<1>12. PICK T : trades = {T[m] : m \in S} /\ NewTrades(T, id, S, fill, first)
  BY <1>4, <1>7, <1>9, <1>10, <1>11, TradesAre
<1> HIDE DEF trades, entry
<1>13. {r.biz : r \in trades} = {T[m].biz : m \in S}
  BY <1>12
<1>14. /\ DOMAIN paired' = DOMAIN paired \cup {T[m].biz : m \in S}
       /\ \A n \in DOMAIN paired' : paired'[n] = IF n \in DOMAIN paired THEN paired[n] ELSE 0
       /\ paired' = [n \in DOMAIN paired' |-> paired'[n]]
  BY <1>3, <1>13
<1>15. S \subseteq DOMAIN book
  BY <1>5
<1>16. entry = Entry(id, q, Total(fill, S), Cardinality(S))
  BY <1>8 DEF entry
<1>17. NewTrades(T, id, S, fill, IF market = "SZ" THEN biz + 1 ELSE biz)
  BY <1>12 DEF first
<1>18. flight' = flight \cup {T[m] : m \in S} \cup entry
  BY <1>3, <1>12
<1>19. book' = [x \in DOMAIN book \cup {id} |->
                  IF x = id THEN [side |-> side, qty |-> q, imm |-> Total(fill, S), pas |-> 0, canc |-> 0]
                  ELSE IF x \in S THEN [book[x] EXCEPT !.pas = @ + fill[x]]
                  ELSE book[x]]
  BY <1>3, <1>8
<1>20. Arrives(id, side, q, S, fill, T, entry)
  BY <1>3, <1>8, <1>10, <1>14, <1>15, <1>16, <1>17, <1>18, <1>19 DEF Arrives
<1> QED BY <1>1, <1>20

\* An order is about to arrive.
Coming(b, id, side, q, S, fill, T, entry) ==
    /\ FeedInv(b) /\ id \in Ids /\ side \in Sides /\ q \in 1..MaxQty
    /\ id = Cardinality(DOMAIN book) + 1 /\ now <= LastOrder
    /\ UNCHANGED <<market, builderVars, now, flagged, clock, ended, lives>>
    /\ Arrives(id, side, q, S, fill, T, entry)

\* Where it comes to rest.
Rested(b, id, S) ==
    [x \in DOMAIN book \cup {id} |->
        IF x = id THEN [biz |-> IF market = "SZ" THEN biz ELSE biz + Cardinality(S), time |-> now] ELSE b[x]]

\* The business numbers that it uses.
LEMMA Numbers ==
    ASSUME NEW b, NEW id, NEW side, NEW q, NEW S, NEW fill, NEW T, NEW entry, Coming(b, id, side, q, S, fill, T, entry)
    PROVE  /\ id \in Nat \ {0} /\ id \notin DOMAIN book /\ q \in Nat \ {0} /\ Cardinality(S) \in Nat /\ IsFiniteSet(S)
           /\ IsFiniteSet(entry) /\ Cardinality(entry) \in {0, 1} /\ biz' \in Nat /\ biz + Cardinality(S) <= biz'
           /\ entry # {} \/ (market = "SH" /\ Total(fill, S) = q)
           /\ \A e \in entry :
                /\ e.kind = (IF market = "SZ" THEN "order" ELSE "A") /\ e.id = id /\ e.time = now
                /\ e.qty \in Nat \ {0} /\ e.qty = (IF market = "SZ" THEN q ELSE q - Total(fill, S))
                /\ e.biz = (IF market = "SZ" THEN biz ELSE biz + Cardinality(S)) /\ e.biz < biz'
                /\ \A x : Part(e, x) = IF x = id THEN "entry" ELSE "none"
           /\ \A e \in entry, f \in entry : e = f
           /\ \A m \in S : /\ T[m].biz \in Nat /\ biz <= T[m].biz /\ T[m].biz < biz'
                           /\ IF market = "SZ" THEN biz < T[m].biz ELSE T[m].biz < biz + Cardinality(S)
<1>1. FeedInv(b) /\ now <= LastOrder /\ id = Cardinality(DOMAIN book) + 1 /\ q \in 1..MaxQty
      /\ Arrives(id, side, q, S, fill, T, entry)
  BY DEF Coming
<1>2. /\ biz \in Nat /\ market \in {"SH", "SZ"} /\ IsFiniteSet(DOMAIN book) /\ Cardinality(DOMAIN book) \in Nat
      /\ DOMAIN book = 1..Cardinality(DOMAIN book)
  BY <1>1, Exchange
<1>3. id \in Nat \ {0} /\ id \notin DOMAIN book /\ q \in Nat \ {0}
  BY <1>1, <1>2, FeedAssumption
<1>4. S \subseteq DOMAIN book /\ Total(fill, S) \in Nat /\ Total(fill, S) <= q
      /\ entry = Entry(id, q, Total(fill, S), Cardinality(S))
      /\ NewTrades(T, id, S, fill, IF market = "SZ" THEN biz + 1 ELSE biz)
      /\ biz' = biz + Cardinality(S) + Cardinality(entry)
  BY <1>1 DEF Arrives
<1>5. IsFiniteSet(S) /\ Cardinality(S) \in Nat
  BY <1>2, <1>4, FS_Subset, FS_CardinalityType
<1>6. /\ IsFiniteSet(entry) /\ Cardinality(entry) \in {0, 1}
      /\ entry # {} \/ (market = "SH" /\ Total(fill, S) = q)
      /\ \A e \in entry :
           /\ e.kind = (IF market = "SZ" THEN "order" ELSE "A") /\ e.id = id /\ e.time = now
           /\ e.qty \in Nat \ {0} /\ e.qty = (IF market = "SZ" THEN q ELSE q - Total(fill, S))
           /\ e.biz = (IF market = "SZ" THEN biz ELSE biz + Cardinality(S)) /\ Cardinality(entry) = 1
           /\ \A x : Part(e, x) = IF x = id THEN "entry" ELSE "none"
      /\ \A e \in entry, f \in entry : e = f
      /\ market = "SZ" => Cardinality(entry) = 1
  <2>1. /\ IsFiniteSet(entry) /\ Cardinality(entry) \in {0, 1}
        /\ entry # {} \/ (market = "SH" /\ Total(fill, S) = q)
        /\ \A e \in entry :
             /\ e.kind = (IF market = "SZ" THEN "order" ELSE "A") /\ e.id = id /\ e.time = now
             /\ e.qty \in Nat \ {0} /\ e.qty = (IF market = "SZ" THEN q ELSE q - Total(fill, S))
             /\ e.biz = (IF market = "SZ" THEN biz ELSE biz + Cardinality(S)) /\ Cardinality(entry) = 1
             /\ \A x : Part(e, x) = IF x = id THEN "entry" ELSE "none"
        /\ \A e \in entry, f \in entry : e = f
    <3> DEFINE imm == Total(fill, S)
               K == Cardinality(S)
    <3>1. q \in Nat \ {0} /\ imm \in Nat /\ imm <= q /\ K \in Nat /\ market \in {"SH", "SZ"} /\ biz \in Nat
          /\ entry = Entry(id, q, imm, K)
      BY <1>2, <1>3, <1>4, <1>5
    <3> HIDE DEF imm, K
    <3>2. Announces(entry, id, q, imm, K)
      BY <3>1, EntryIs
    <3> QED BY <3>2 DEF Announces, imm, K
  <2>2. market = "SZ" => Cardinality(entry) = 1
    BY <2>1
  <2> QED BY <2>1, <2>2
<1>7. biz' \in Nat /\ biz + Cardinality(S) <= biz' /\ (market = "SZ" => biz' = (biz + Cardinality(S)) + 1)
      /\ (Cardinality(entry) = 1 => biz' = (biz + Cardinality(S)) + 1)
  BY <1>2, <1>4, <1>5, <1>6
<1>8. ASSUME NEW m \in S
      PROVE  /\ T[m].biz \in Nat /\ biz <= T[m].biz /\ T[m].biz < biz'
             /\ IF market = "SZ" THEN biz < T[m].biz ELSE T[m].biz < biz + Cardinality(S)
  <2> DEFINE first == IF market = "SZ" THEN biz + 1 ELSE biz
  <2>1. NewTrades(T, id, S, fill, first)
    BY <1>4
  <2>2. first \in Nat /\ (market = "SZ" => first = biz + 1) /\ (market # "SZ" => first = biz)
    BY <1>2
  <2> HIDE DEF first
  <2>3. T[m].biz \in Nat /\ first <= T[m].biz /\ T[m].biz < first + Cardinality(S)
    BY <1>8, <2>1 DEF NewTrades
  <2> QED BY <1>2, <1>5, <1>7, <2>2, <2>3
<1>9. \A e \in entry : e.biz < biz'
  BY <1>2, <1>5, <1>6, <1>7
<1> QED BY <1>3, <1>5, <1>6, <1>7, <1>8, <1>9

\* The orders after it has arrived.
Book(id, q, S, fill) ==
    /\ DOMAIN book' = DOMAIN book \cup {id}
    /\ book'[id].qty = q /\ book'[id].imm = Total(fill, S) /\ book'[id].pas = 0 /\ book'[id].canc = 0
    /\ \A x \in DOMAIN book :
         /\ book'[x].qty = book[x].qty /\ book'[x].imm = book[x].imm /\ book'[x].canc = book[x].canc
         /\ book'[x].pas = book[x].pas + IF x \in S THEN fill[x] ELSE 0

\* So it is, and the book is in order.
LEMMA BookAfter ==
    ASSUME NEW b, NEW id, NEW side, NEW q, NEW S, NEW fill, NEW T, NEW entry, Coming(b, id, side, q, S, fill, T, entry),
           NEW c, c = Rested(b, id, S)
    PROVE  Book(id, q, S, fill) /\ BookInv(c)'
<1>1. FeedInv(b) /\ now <= LastOrder /\ id = Cardinality(DOMAIN book) + 1 /\ q \in 1..MaxQty /\ side \in Sides /\ id \in Ids
      /\ Arrives(id, side, q, S, fill, T, entry) /\ UNCHANGED <<market, now, flagged>>
  BY DEF Coming
<1>2. /\ biz \in Nat /\ market \in {"SH", "SZ"} /\ IsFiniteSet(DOMAIN book) /\ Cardinality(DOMAIN book) \in Nat
      /\ flagged \in BOOLEAN /\ now \in Nat \ {0} /\ DOMAIN book \subseteq Ids
      /\ DOMAIN book = 1..Cardinality(DOMAIN book) /\ book \in [DOMAIN book -> Lives]
      /\ \A x \in DOMAIN book : /\ Within(book[x]) /\ (book[x].canc # 0 => Rest(book[x]) = 0)
                                /\ b[x].biz <= biz /\ b[x].biz \in Nat /\ b[x].time <= now /\ b[x].time \in Nat \ {0}
  BY <1>1, Exchange
<1>3. id \in Nat \ {0} /\ id \notin DOMAIN book /\ q \in Nat \ {0} /\ Cardinality(S) \in Nat
      /\ biz' \in Nat /\ biz + Cardinality(S) <= biz'
  BY Numbers
<1>4. /\ S \subseteq DOMAIN book /\ (\A m \in S : fill[m] \in Nat \ {0} /\ fill[m] <= Rest(book[m]))
      /\ Total(fill, S) \in Nat /\ Total(fill, S) <= q
      /\ book' = [x \in DOMAIN book \cup {id} |->
                    IF x = id THEN [side |-> side, qty |-> q, imm |-> Total(fill, S), pas |-> 0, canc |-> 0]
                    ELSE IF x \in S THEN [book[x] EXCEPT !.pas = @ + fill[x]]
                    ELSE book[x]]
  BY <1>1 DEF Arrives
<1>5. DOMAIN book' = DOMAIN book \cup {id} /\ book' = [x \in DOMAIN book' |-> book'[x]]
  BY <1>4
<1>6. /\ book'[id].qty = q /\ book'[id].imm = Total(fill, S) /\ book'[id].pas = 0 /\ book'[id].canc = 0
      /\ book'[id] \in Lives /\ Within(book'[id])
  <2> DEFINE o == [side |-> side, qty |-> q, imm |-> Total(fill, S), pas |-> 0, canc |-> 0]
  <2>1. book'[id] = o
    BY <1>4
  <2>2. o \in Lives /\ Within(o)
    BY <1>1, <1>3, <1>4 DEF Lives, Within
  <2> QED BY <2>1, <2>2
<1>7. ASSUME NEW x \in DOMAIN book
      PROVE  /\ book'[x].qty = book[x].qty /\ book'[x].imm = book[x].imm /\ book'[x].canc = book[x].canc
             /\ book'[x].pas = book[x].pas + IF x \in S THEN fill[x] ELSE 0
             /\ book'[x] \in Lives /\ Within(book'[x]) /\ (book'[x].canc # 0 => Rest(book'[x]) = 0)
  <2> DEFINE o == book[x]
  <2>1. o \in Lives /\ Within(o) /\ (o.canc # 0 => Rest(o) = 0) /\ x # id
    BY <1>2, <1>3
  <2>2. o.qty \in Nat \ {0} /\ o.imm \in Nat /\ o.pas \in Nat /\ o.canc \in Nat
    BY <2>1 DEF Lives
  <2>3. CASE x \notin S
    <3>1. book'[x] = o
      BY <1>4, <2>1, <2>3
    <3>2. o.pas = o.pas + 0
      BY <2>2
    <3> QED BY <2>1, <2>3, <3>1, <3>2
  <2>4. CASE x \in S
    <3> DEFINE k == fill[x]
               p == [o EXCEPT !.pas = o.pas + k]
    <3>1. book'[x] = p
      BY <1>4, <2>1, <2>4
    <3>2. k \in Nat \ {0} /\ k <= Rest(o)
      BY <1>4, <2>4
    <3> HIDE DEF k, o
    <3>3. p \in Lives /\ p.qty = o.qty /\ p.imm = o.imm /\ p.canc = o.canc /\ p.pas = o.pas + k
      BY <2>1, <2>2, <3>2 DEF Lives
    <3>4. Rest(o) = o.qty - (o.imm + o.pas + o.canc) /\ Rest(o) # 0
      BY <2>2, <3>2 DEF Rest
    <3>5. o.canc = 0 /\ o.imm + (o.pas + k) + o.canc <= o.qty
      BY <2>1, <2>2, <3>2, <3>4
    <3> HIDE DEF p
    <3>6. Within(p) /\ (p.canc # 0 => Rest(p) = 0)
      BY <3>3, <3>5 DEF Within
    <3> QED BY <2>4, <3>1, <3>3, <3>6 DEF o, k
  <2> QED BY <2>3, <2>4
<1>8. c \in [DOMAIN book' -> [biz : Nat, time : Nat \ {0}]] /\ \A x \in DOMAIN book' : c[x].biz <= biz' /\ c[x].time <= now
  <2>1. b \in [DOMAIN book -> [biz : Nat, time : Nat \ {0}]]
    BY <1>1 DEF FeedInv, BookInv
  <2> DEFINE z == IF market = "SZ" THEN biz ELSE biz + Cardinality(S)
  <2>2. z \in Nat /\ z <= biz'
    BY <1>2, <1>3
  <2> HIDE DEF z
  <2>3. c = [x \in DOMAIN book' |-> IF x = id THEN [biz |-> z, time |-> now] ELSE b[x]]
    BY <1>5 DEF Rested, z
  <2>4. \A x \in DOMAIN book : b[x].biz <= biz'
    BY <1>2, <1>3
  <2>5. \A x \in DOMAIN book' : x # id => x \in DOMAIN book
    BY <1>5
  <2>6. [biz |-> z, time |-> now] \in [biz : Nat, time : Nat \ {0}]
    BY <1>2, <2>2
  <2>7. \A x \in DOMAIN book' : c[x] \in [biz : Nat, time : Nat \ {0}]
    BY <2>1, <2>3, <2>5, <2>6
  <2>8. \A x \in DOMAIN book' : c[x].biz <= biz' /\ c[x].time <= now
    <3> SUFFICES ASSUME NEW x \in DOMAIN book' PROVE c[x].biz <= biz' /\ c[x].time <= now
      OBVIOUS
    <3>1. CASE x = id
      BY <1>2, <2>2, <2>3, <3>1
    <3>2. CASE x # id
      BY <1>2, <2>3, <2>4, <2>5, <3>2
    <3> QED BY <3>1, <3>2
  <2> QED BY <2>3, <2>7, <2>8
<1>9. /\ IsFiniteSet(DOMAIN book') /\ Cardinality(DOMAIN book') = Cardinality(DOMAIN book) + 1
      /\ DOMAIN book' = 1..Cardinality(DOMAIN book')
  <2>1. IsFiniteSet(DOMAIN book') /\ Cardinality(DOMAIN book') = Cardinality(DOMAIN book) + 1
    BY <1>2, <1>3, <1>5, FS_AddElement
  <2> DEFINE n == Cardinality(DOMAIN book)
  <2>2. n \in Nat /\ DOMAIN book' = (1..n) \cup {n + 1}
    BY <1>1, <1>2, <1>5
  <2> HIDE DEF n
  <2>3. DOMAIN book' = 1..(n + 1)
    BY <2>2
  <2> QED BY <2>1, <2>3 DEF n
<1>10. book' \in [DOMAIN book' -> Lives] /\ \A x \in DOMAIN book' : Within(book'[x]) /\ (book'[x].canc # 0 => Rest(book'[x]) = 0)
  <2>1. \A x \in DOMAIN book' : /\ book'[x] \in Lives /\ Within(book'[x])
                                /\ (book'[x].canc # 0 => Rest(book'[x]) = 0)
    BY <1>5, <1>6, <1>7
  <2> QED BY <1>5, <2>1
<1>11. now \in 1..Close
  BY <1>1 DEF FeedInv, BookInv
<1>12. BookInv(c)'
  BY <1>1, <1>2, <1>3, <1>5, <1>8, <1>9, <1>10, <1>11 DEF BookInv
<1>13. Book(id, q, S, fill)
  BY <1>5, <1>6, <1>7 DEF Book
<1> QED BY <1>12, <1>13

\* An order that rests has its record, with a business number that was given before.
LEMMA RestedBefore ==
    ASSUME NEW b, FeedInv(b), now <= LastOrder, NEW m \in DOMAIN book, Rest(book[m]) > 0
    PROVE  b[m].biz < biz \/ market = "SZ"
<1>1. /\ Core(b) /\ clock = 0 /\ book[m] \in Lives /\ market \in {"SH", "SZ"}
      /\ \A r \in flight : r.biz \in Nat /\ r.biz < biz
  BY Exchange
<1>2. Owed(m, book[m], market, flight)
  BY <1>1, AllOwed
<1>3. book[m].imm # book[m].qty
  <2>1. book[m].imm \in Nat /\ book[m].pas \in Nat /\ book[m].canc \in Nat /\ book[m].qty \in Nat
    BY <1>1 DEF Lives
  <2> QED BY <2>1 DEF Rest
<1>4. PICK r \in flight : Part(r, m) = "entry"
  BY <1>2, <1>3 DEF Owed, About
<1>5. Fits(r, m, book[m], market, b[m])
  BY <1>1 DEF Core, FlightInv
<1>6. r.biz = b[m].biz
  BY <1>4, <1>5 DEF Fits
<1> QED BY <1>1, <1>6

\* The records on their way after an order has arrived.
LEMMA FlightAfter ==
    ASSUME NEW b, NEW id, NEW side, NEW q, NEW S, NEW fill, NEW T, NEW entry, Coming(b, id, side, q, S, fill, T, entry),
           NEW c, c = Rested(b, id, S)
    PROVE  FlightInv(c)'
<1> DEFINE K == Cardinality(S)
           imm == Total(fill, S)
           trades == {T[m] : m \in S}
<1>1. FeedInv(b) /\ now <= LastOrder /\ Arrives(id, side, q, S, fill, T, entry) /\ market' = market
  BY DEF Coming
<1>2. /\ Core(b) /\ biz \in Nat /\ market \in {"SH", "SZ"} /\ now \in Nat \ {0} /\ Records(flight)
      /\ \A r \in flight : r.biz \in Nat /\ r.biz < biz
      /\ \A x \in DOMAIN book : b[x].time <= now /\ b[x].time \in Nat
  BY <1>1, Exchange
<1>3. /\ id \notin DOMAIN book /\ K \in Nat /\ biz' \in Nat /\ biz + K <= biz'
      /\ \A e \in entry :
           /\ e.kind = (IF market = "SZ" THEN "order" ELSE "A") /\ e.id = id /\ e.time = now
           /\ e.qty \in Nat \ {0} /\ e.qty = (IF market = "SZ" THEN q ELSE q - imm)
           /\ e.biz = (IF market = "SZ" THEN biz ELSE biz + K) /\ e.biz < biz'
           /\ \A x : Part(e, x) = IF x = id THEN "entry" ELSE "none"
      /\ \A e \in entry, f \in entry : e = f
      /\ \A m \in S : /\ T[m].biz \in Nat /\ biz <= T[m].biz /\ T[m].biz < biz'
                      /\ IF market = "SZ" THEN biz < T[m].biz ELSE T[m].biz < biz + K
      /\ IsFiniteSet(entry)
  BY Numbers
<1>4. /\ S \subseteq DOMAIN book /\ (\A m \in S : fill[m] \in Nat \ {0} /\ fill[m] <= Rest(book[m]))
      /\ flight' = flight \cup trades \cup entry /\ Records(trades)
      /\ \A m \in S : /\ T[m].kind = "trade" /\ T[m].buy \in {id, m} /\ T[m].sell \in {id, m} /\ T[m].buy # T[m].sell
                      /\ T[m].time = now
                      /\ \A x : Part(T[m], x) = IF x = id THEN "imm" ELSE IF x = m THEN "pas" ELSE "none"
      /\ \A m \in S, n \in S : T[m].biz = T[n].biz => m = n
  BY <1>1 DEF Arrives, NewTrades
<1>5. /\ DOMAIN book' = DOMAIN book \cup {id} /\ book'[id].qty = q /\ book'[id].imm = imm
      /\ \A x \in DOMAIN book : book'[x].qty = book[x].qty /\ book'[x].imm = book[x].imm
  <2>1. Book(id, q, S, fill)
    BY BookAfter
  <2> QED BY <2>1 DEF Book
<1>6. /\ c[id].biz = (IF market = "SZ" THEN biz ELSE biz + K) /\ c[id].time = now
      /\ \A x \in DOMAIN book : c[x] = b[x]
  BY <1>3 DEF Rested
<1>7. \A m \in S : market = "SH" => b[m].biz < biz /\ b[m].biz \in Nat
  <2> SUFFICES ASSUME NEW m \in S, market = "SH" PROVE b[m].biz < biz /\ b[m].biz \in Nat
    OBVIOUS
  <2>1. m \in DOMAIN book /\ fill[m] \in Nat \ {0} /\ fill[m] <= Rest(book[m]) /\ book[m] \in Lives
    BY <1>1, <1>4, Exchange
  <2>2. Rest(book[m]) > 0
    <3>1. Rest(book[m]) \in Int
      BY <2>1 DEF Rest, Lives
    <3> QED BY <2>1, <3>1
  <2>3. b[m].biz \in Nat
    BY <1>1, <2>1, Exchange
  <2> QED BY <1>1, <2>1, <2>2, <2>3, RestedBefore
<1> HIDE DEF K, imm, trades
<1>8. Records(flight')
  <2>1. IsFiniteSet(flight') /\ \A r \in flight' : r.qty \in Nat \ {0}
    <3>1. IsFiniteSet(flight \cup trades)
      BY <1>2, <1>4, FS_Union DEF Records
    <3>2. IsFiniteSet((flight \cup trades) \cup entry)
      BY <1>3, <3>1, FS_Union
    <3> QED BY <1>2, <1>3, <1>4, <3>2 DEF Records
  <2> QED BY <2>1 DEF Records
<1>9. ASSUME NEW r \in flight
      PROVE  /\ r.biz \in Nat /\ r.biz < biz' /\ r.time \in Nat \ {0}
             /\ \/ r.kind = "trade" /\ r.buy \in DOMAIN book' /\ r.sell \in DOMAIN book' /\ r.buy # r.sell
                \/ r.kind \in (IF market = "SZ" THEN {"order", "cancel"} ELSE {"A", "D"}) /\ r.id \in DOMAIN book'
             /\ \A x \in DOMAIN book' : Fits(r, x, book'[x], market, c[x])
  <2>1. /\ r.biz \in Nat /\ r.biz < biz /\ r.time \in Nat \ {0}
        /\ \/ r.kind = "trade" /\ r.buy \in DOMAIN book /\ r.sell \in DOMAIN book /\ r.buy # r.sell
           \/ r.kind \in (IF market = "SZ" THEN {"order", "cancel"} ELSE {"A", "D"}) /\ r.id \in DOMAIN book
        /\ \A x \in DOMAIN book : Fits(r, x, book[x], market, b[x])
    BY <1>2 DEF Core, FlightInv
  <2>2. \A x \in DOMAIN book : Fits(r, x, book'[x], market, c[x])
    <3> SUFFICES ASSUME NEW x \in DOMAIN book PROVE Fits(r, x, book'[x], market, c[x])
      OBVIOUS
    <3>1. Fits(r, x, book[x], market, b[x]) /\ book'[x].qty = book[x].qty /\ book'[x].imm = book[x].imm /\ c[x] = b[x]
      BY <1>5, <1>6, <2>1
    <3> QED BY <3>1, FitsSame
  <2>3. Fits(r, id, book'[id], market, c[id])
    <3>1. Part(r, id) = "none"
      BY <1>2, <1>3, Strange DEF Core
    <3> QED BY <3>1 DEF Fits
  <2>4. r.biz < biz'
    BY <1>2, <1>3, <2>1
  <2> QED BY <1>5, <2>1, <2>2, <2>3, <2>4
<1>10. ASSUME NEW r \in entry
       PROVE  /\ r.biz \in Nat /\ r.biz < biz' /\ r.time \in Nat \ {0}
              /\ \/ r.kind = "trade" /\ r.buy \in DOMAIN book' /\ r.sell \in DOMAIN book' /\ r.buy # r.sell
                 \/ r.kind \in (IF market = "SZ" THEN {"order", "cancel"} ELSE {"A", "D"}) /\ r.id \in DOMAIN book'
              /\ \A x \in DOMAIN book' : Fits(r, x, book'[x], market, c[x])
  <2>1. /\ r.kind = (IF market = "SZ" THEN "order" ELSE "A") /\ r.id = id /\ r.time = now
        /\ r.qty = (IF market = "SZ" THEN q ELSE q - imm)
        /\ r.biz = (IF market = "SZ" THEN biz ELSE biz + K) /\ r.biz < biz'
        /\ \A x : Part(r, x) = IF x = id THEN "entry" ELSE "none"
    BY <1>3
  <2>2. \A x \in DOMAIN book : Fits(r, x, book'[x], market, c[x])
    <3> SUFFICES ASSUME NEW x \in DOMAIN book PROVE Fits(r, x, book'[x], market, c[x])
      OBVIOUS
    <3>1. Part(r, x) = "none"
      BY <1>3, <2>1
    <3> QED BY <3>1 DEF Fits
  <2>3. Fits(r, id, book'[id], market, c[id])
    <3>1. Part(r, id) = "entry" /\ c[id].time <= r.time /\ r.time = c[id].time
      BY <1>2, <1>6, <2>1
    <3>2. r.biz = c[id].biz /\ r.qty = IF market = "SZ" THEN book'[id].qty ELSE book'[id].qty - book'[id].imm
      BY <1>5, <1>6, <2>1
    <3> QED BY <3>1, <3>2 DEF Fits
  <2>4. r.biz \in Nat
    BY <1>2, <1>3, <2>1
  <2> QED BY <1>2, <1>5, <2>1, <2>2, <2>3, <2>4
<1>11. ASSUME NEW m \in S
       PROVE  /\ T[m].biz \in Nat /\ T[m].biz < biz' /\ T[m].time \in Nat \ {0}
              /\ T[m].kind = "trade" /\ T[m].buy \in DOMAIN book' /\ T[m].sell \in DOMAIN book' /\ T[m].buy # T[m].sell
              /\ \A x \in DOMAIN book' : Fits(T[m], x, book'[x], market, c[x])
  <2> DEFINE r == T[m]
  <2>1. /\ r.kind = "trade" /\ r.buy \in {id, m} /\ r.sell \in {id, m} /\ r.buy # r.sell
        /\ r.time = now /\ r.biz \in Nat /\ biz <= r.biz /\ r.biz < biz'
        /\ \A x : Part(r, x) = IF x = id THEN "imm" ELSE IF x = m THEN "pas" ELSE "none"
    BY <1>3, <1>4
  <2>2. (IF market = "SZ" THEN biz < r.biz ELSE r.biz < biz + K) /\ m \in DOMAIN book /\ m # id
    BY <1>3, <1>4
  <2> HIDE DEF r
  <2>3. ASSUME NEW x \in DOMAIN book, x # m
        PROVE  Fits(r, x, book'[x], market, c[x])
    <3>1. Part(r, x) = "none"
      BY <1>3, <2>1, <2>3
    <3> QED BY <3>1 DEF Fits
  <2>4. Fits(r, m, book'[m], market, c[m])
    <3>1. Part(r, m) = "pas"
      BY <2>1, <2>2
    <3>2. c[m].time <= r.time
      BY <1>2, <1>6, <2>1, <2>2
    <3>3. market = "SH" => c[m].biz < r.biz
      BY <1>2, <1>6, <1>7, <2>1, <2>2
    <3> QED BY <3>1, <3>2, <3>3 DEF Fits
  <2>5. Fits(r, id, book'[id], market, c[id])
    <3>1. Part(r, id) = "imm" /\ c[id].time <= r.time /\ r.time = c[id].time
      BY <1>2, <1>6, <2>1
    <3>2. market = "SH" => r.biz < c[id].biz
      BY <1>6, <2>2
    <3> QED BY <3>1, <3>2 DEF Fits
  <2>6. \A x \in DOMAIN book' : Fits(r, x, book'[x], market, c[x])
    BY <1>5, <2>3, <2>4, <2>5
  <2> QED BY <1>2, <1>5, <2>1, <2>2, <2>6 DEF r
<1>12. \A r \in flight', s \in flight' : r.biz = s.biz => r = s
  <2>1. \A r \in flight, s \in flight : r.biz = s.biz => r = s
    BY <1>2 DEF Core, FlightInv
  <2>2. \A r \in flight', s \in flight : r.biz = s.biz => r \in flight
    <3> SUFFICES ASSUME NEW r \in flight', NEW s \in flight, r.biz = s.biz PROVE r \in flight
      OBVIOUS
    <3>1. s.biz \in Nat /\ s.biz < biz
      BY <1>2
    <3>2. r \notin entry
      BY <1>2, <1>3, <3>1
    <3>3. r \notin trades
      BY <1>2, <1>3, <3>1 DEF trades
    <3> QED BY <1>4, <3>2, <3>3
  <2>3. \A r \in trades, s \in trades : r.biz = s.biz => r = s
    BY <1>4 DEF trades
  <2>4. \A r \in trades, s \in entry : r.biz # s.biz
    <3> SUFFICES ASSUME NEW m \in S, NEW s \in entry PROVE T[m].biz # s.biz
      BY DEF trades
    <3>1. /\ s.biz = (IF market = "SZ" THEN biz ELSE biz + K) /\ T[m].biz \in Nat
          /\ IF market = "SZ" THEN biz < T[m].biz ELSE T[m].biz < biz + K
      BY <1>3
    <3> QED BY <1>2, <1>3, <3>1
  <2>5. \A r \in entry, s \in entry : r = s
    BY <1>3
  <2> QED BY <1>4, <2>1, <2>2, <2>3, <2>4, <2>5
<1>13. ASSUME NEW r \in flight'
       PROVE  /\ r.biz \in Nat /\ r.biz < biz' /\ r.time \in Nat \ {0}
              /\ \/ r.kind = "trade" /\ r.buy \in DOMAIN book' /\ r.sell \in DOMAIN book' /\ r.buy # r.sell
                 \/ r.kind \in (IF market' = "SZ" THEN {"order", "cancel"} ELSE {"A", "D"}) /\ r.id \in DOMAIN book'
              /\ \A x \in DOMAIN book' : Fits(r, x, book'[x], market', c[x])
  <2>1. CASE r \in flight
    BY <1>1, <1>9, <2>1
  <2>2. CASE r \in entry
    BY <1>1, <1>10, <2>2
  <2>3. CASE r \in trades
    <3>1. PICK m \in S : r = T[m]
      BY <2>3 DEF trades
    <3> QED BY <1>1, <1>11, <3>1
  <2> QED BY <1>4, <2>1, <2>2, <2>3
<1>14. \A r \in flight' : r.time <= LastOrder
  <2>1. \A r \in flight : r.time <= LastOrder
    BY <1>2 DEF Core, FlightInv
  <2>2. \A r \in trades \cup entry : r.time <= LastOrder
    BY <1>1, <1>3, <1>4 DEF trades
  <2> QED BY <1>4, <2>1, <2>2
<1> QED BY <1>8, <1>12, <1>13, <1>14 DEF FlightInv

\* One more passive fill of an order is on its way when the exchange counts it.
LEMMA OwedMore ==
    ASSUME NEW id, NEW o \in Lives, NEW m, NEW F, Records(F), Owed(id, o, m, F),
           NEW r, r \notin F, r.qty \in Nat \ {0}, Part(r, id) = "pas",
           NEW p, p.qty = o.qty, p.imm = o.imm, p.canc = o.canc, p.pas = o.pas + r.qty
    PROVE  Owed(id, p, m, F \cup {r})
<1>1. \A part : Flying(F \cup {r}, part, id) = Flying(F, part, id) + IF Part(r, id) = part THEN r.qty ELSE 0
  BY FlyingAdd
<1>2. /\ Flying(F \cup {r}, "imm", id) = Flying(F, "imm", id) + 0
      /\ Flying(F \cup {r}, "pas", id) = Flying(F, "pas", id) + r.qty
      /\ Flying(F \cup {r}, "canc", id) = Flying(F, "canc", id) + 0
  BY <1>1
<1>3. Flying(F, "imm", id) = o.imm /\ Flying(F, "pas", id) = o.pas /\ Flying(F, "canc", id) = o.canc
  BY DEF Owed
<1>4. o.imm \in Nat /\ o.canc \in Nat
  BY DEF Lives
<1>5. About(F \cup {r}, "entry", id) = About(F, "entry", id)
  BY DEF About
<1> QED BY <1>2, <1>3, <1>4, <1>5 DEF Owed

\* The shares in the trades of an order that arrives are those that it takes.
LEMMA OwedAfter ==
    ASSUME NEW b, NEW id, NEW side, NEW q, NEW S, NEW fill, NEW T, NEW entry, Coming(b, id, side, q, S, fill, T, entry),
           NEW x \in DOMAIN book'
    PROVE  Owed(x, book'[x], market, flight')
<1> DEFINE trades == {T[m] : m \in S}
<1>1. FeedInv(b) /\ now <= LastOrder /\ Arrives(id, side, q, S, fill, T, entry)
  BY DEF Coming
<1>2. /\ Core(b) /\ clock = 0 /\ Records(flight) /\ market \in {"SH", "SZ"} /\ book \in [DOMAIN book -> Lives]
      /\ \A r \in flight : r.biz \in Nat /\ r.biz < biz
  BY <1>1, Exchange
<1>3. /\ id \notin DOMAIN book
      /\ entry # {} \/ (market = "SH" /\ Total(fill, S) = q)
      /\ \A e \in entry : \A y : Part(e, y) = IF y = id THEN "entry" ELSE "none"
      /\ \A m \in S : T[m].biz \in Nat /\ biz <= T[m].biz
  BY Numbers
<1>4. /\ S \subseteq DOMAIN book /\ (\A m \in S : fill[m] \in Nat \ {0})
      /\ flight' = flight \cup trades \cup entry /\ Total(fill, S) \in Nat
  BY <1>1 DEF Arrives
<1>5. /\ Records(trades) /\ Shares(trades) = Total(fill, S)
      /\ \A m \in S : /\ T[m].qty = fill[m]
                      /\ \A y : Part(T[m], y) = IF y = id THEN "imm" ELSE IF y = m THEN "pas" ELSE "none"
  BY <1>1 DEF Arrives, NewTrades
<1>6. /\ DOMAIN book' = DOMAIN book \cup {id}
      /\ book'[id].qty = q /\ book'[id].imm = Total(fill, S) /\ book'[id].pas = 0 /\ book'[id].canc = 0
      /\ \A y \in DOMAIN book :
           /\ book'[y].qty = book[y].qty /\ book'[y].imm = book[y].imm /\ book'[y].canc = book[y].canc
           /\ book'[y].pas = book[y].pas + IF y \in S THEN fill[y] ELSE 0
  <2> DEFINE c == Rested(b, id, S)
  <2> HIDE DEF c
  <2>1. c = Rested(b, id, S)
    BY DEF c
  <2>2. Book(id, q, S, fill)
    BY <2>1, BookAfter
  <2> QED BY <2>2 DEF Book
<1> DEFINE all == flight \cup trades
<1>7. Owed(x, book'[x], market, all \cup entry) => Owed(x, book'[x], market, flight')
  BY <1>4
<1>8. CASE x = id
  <2>1. /\ About(flight', "imm", id) = trades /\ About(flight', "pas", id) = {} /\ About(flight', "canc", id) = {}
        /\ About(flight', "entry", id) = entry
    <3>1. \A r \in flight : Part(r, id) = "none"
      BY <1>2, <1>3, Strange DEF Core
    <3>2. \A r \in trades : Part(r, id) = "imm"
      BY <1>5
    <3>3. \A r \in entry : Part(r, id) = "entry"
      BY <1>3
    <3> HIDE DEF trades
    <3> QED BY <1>4, <3>1, <3>2, <3>3 DEF About
  <2>2. Flying(flight', "imm", id) = Total(fill, S) /\ Flying(flight', "pas", id) = 0 /\ Flying(flight', "canc", id) = 0
    BY <1>5, <2>1, SharesEmpty DEF Flying
  <2> QED BY <1>3, <1>6, <1>8, <2>1, <2>2 DEF Owed
<1>9. ASSUME x \in DOMAIN book, x \notin S
      PROVE  Owed(x, book'[x], market, flight')
  <2>1. Owed(x, book[x], market, flight) /\ book[x] \in Lives /\ x # id
    BY <1>2, <1>3, <1>9, AllOwed
  <2>2. book[x].pas \in Nat
    BY <2>1 DEF Lives
  <2>3. Owed(x, book'[x], market, flight)
    <3>1. /\ book'[x].qty = book[x].qty /\ book'[x].imm = book[x].imm /\ book'[x].canc = book[x].canc
          /\ book'[x].pas = book[x].pas
      BY <1>6, <1>9, <2>2
    <3> QED BY <2>1, <3>1 DEF Owed
  <2>4. \A r \in trades : Part(r, x) = "none"
    BY <1>5, <1>9, <2>1
  <2>5. \A r \in entry : Part(r, x) = "none"
    BY <1>3, <2>1
  <2> HIDE DEF trades
  <2>6. Owed(x, book'[x], market, all)
    BY <2>3, <2>4, OwedSame
  <2> QED BY <1>7, <2>5, <2>6, OwedSame
<1>10. ASSUME x \in S
       PROVE  Owed(x, book'[x], market, flight')
  <2> DEFINE r == T[x]
             others == {T[m] : m \in S \ {x}}
             most == flight \cup {r}
  <2>1. Owed(x, book[x], market, flight) /\ book[x] \in Lives /\ x # id /\ x \in DOMAIN book
    BY <1>2, <1>3, <1>4, <1>10, AllOwed
  <2>2. book[x].pas \in Nat /\ book[x].imm \in Nat /\ book[x].canc \in Nat /\ fill[x] \in Nat \ {0}
    BY <1>4, <1>10, <2>1 DEF Lives
  <2>3. /\ r \notin flight /\ r.qty = fill[x] /\ Part(r, x) = "pas"
    <3>1. r.biz \in Nat /\ biz <= r.biz
      BY <1>3, <1>10
    <3>2. biz \in Nat
      BY <1>1, Exchange
    <3> QED BY <1>2, <1>5, <1>10, <2>1, <3>1, <3>2
  <2>4. trades = {r} \cup others
    BY <1>10
  <2>5. \A s \in others : Part(s, x) = "none"
    BY <1>5, <2>1
  <2>6. \A s \in entry : Part(s, x) = "none"
    BY <1>3, <2>1
  <2> HIDE DEF r, others
  <2>7. Owed(x, book'[x], market, most)
    <3>1. /\ book'[x].qty = book[x].qty /\ book'[x].imm = book[x].imm /\ book'[x].canc = book[x].canc
          /\ book'[x].pas = book[x].pas + r.qty
      BY <1>6, <1>10, <2>1, <2>3
    <3>2. r.qty \in Nat \ {0}
      BY <2>2, <2>3
    <3> QED BY <1>2, <2>1, <2>3, <3>1, <3>2, OwedMore
  <2> HIDE DEF most
  <2>8. Owed(x, book'[x], market, most \cup others)
    BY <2>5, <2>7, OwedSame
  <2>9. most \cup others = all
    BY <2>4 DEF most
  <2>10. Owed(x, book'[x], market, all)
    BY <2>8, <2>9
  <2> QED BY <1>7, <2>6, <2>10, OwedSame
<1> QED BY <1>6, <1>8, <1>9, <1>10

\* An order that arrives keeps the invariant.
LEMMA ArriveKeeps ==
    ASSUME NEW b, FeedInv(b), NEW id \in Ids, NEW side \in Sides, NEW q \in 1..MaxQty, Arrive(id, side, q)
    PROVE  \E c : FeedInv(c)'
<1>1. /\ id = Cardinality(DOMAIN book) + 1 /\ now <= LastOrder
      /\ UNCHANGED <<market, builderVars, now, flagged, clock, ended, lives>>
      /\ \E S, fill, T, entry : Arrives(id, side, q, S, fill, T, entry)
  BY ArriveIs
<1>2. PICK S, fill, T, entry : Arrives(id, side, q, S, fill, T, entry)
  BY <1>1
<1>3. Coming(b, id, side, q, S, fill, T, entry)
  BY <1>1, <1>2 DEF Coming
<1>4. PICK c : c = Rested(b, id, S)
  OBVIOUS
<1>5. BookInv(c)' /\ DOMAIN book' = DOMAIN book \cup {id}
  <2>1. BookInv(c)' /\ Book(id, q, S, fill)
    BY <1>3, <1>4, BookAfter
  <2> QED BY <2>1 DEF Book
<1>6. FlightInv(c)'
  BY <1>3, <1>4, FlightAfter
<1>7. \A x \in DOMAIN book' : Owed(x, book'[x], market, flight')
  BY <1>3, OwedAfter
<1>8. clock = 0
  BY <1>1, Exchange
<1>9. DOMAIN paired' = FlyingTrades' /\ paired' = [n \in DOMAIN paired' |-> 0]
  <2>1. DOMAIN paired = FlyingTrades /\ paired = [n \in DOMAIN paired |-> 0]
    BY <1>8, AllFlying
  <2>2. /\ flight' = flight \cup {T[m] : m \in S} \cup entry
        /\ DOMAIN paired' = DOMAIN paired \cup {T[m].biz : m \in S}
        /\ \A n \in DOMAIN paired' : paired'[n] = IF n \in DOMAIN paired THEN paired[n] ELSE 0
        /\ paired' = [n \in DOMAIN paired' |-> paired'[n]]
    BY <1>2 DEF Arrives
  <2>3. \A m \in S : T[m].kind = "trade"
    BY <1>2 DEF Arrives, NewTrades
  <2>4. \A e \in entry : e.kind # "trade"
    <3>1. \A e \in entry : e.kind = IF market = "SZ" THEN "order" ELSE "A"
      BY <1>3, Numbers
    <3> QED BY <3>1
  <2>5. FlyingTrades' = FlyingTrades \cup {T[m].biz : m \in S}
    BY <2>2, <2>3, <2>4 DEF FlyingTrades
  <2>6. \A n \in DOMAIN paired' : paired'[n] = 0
    BY <2>1, <2>2
  <2> QED BY <2>1, <2>2, <2>5, <2>6
<1>10. FeedInv(c)'
  BY <1>1, <1>5, <1>6, <1>7, <1>8, <1>9, ExchangeStep
<1> QED BY <1>10

-----------------------------------------------------------------------------
(* The invariant holds, and with it the properties.                          *)

\* The day begins with the invariant.
LEMMA InitInv ==
    ASSUME Init
    PROVE  Inv
<1> DEFINE b == <<>>
<1>1. /\ orders = <<>> /\ deadlines = {} /\ slots = <<>> /\ free = {} /\ waiters = <<>> /\ events = NoEvents /\ pairs = {}
  BY DEF Init, InitBuilder
<1>2. /\ market \in {"SH", "SZ"} /\ flagged \in BOOLEAN /\ book = <<>> /\ biz = 1 /\ now = 1 /\ flight = {}
      /\ clock = 0 /\ ended = FALSE /\ lives = [id \in Ids |-> <<>>] /\ paired = <<>>
  BY DEF Init
<1>3. BookInv(b)
  <2>1. DOMAIN book = {}
    BY <1>2
  <2>2. IsFiniteSet(DOMAIN book) /\ Cardinality(DOMAIN book) = 0 /\ DOMAIN book = 1..0
    BY <2>1, FS_EmptySet
  <2>3. now \in 1..Close
    BY <1>2, FeedAssumption
  <2>4. book \in [DOMAIN book -> Lives] /\ b \in [DOMAIN book -> [biz : Nat, time : Nat \ {0}]]
    BY <1>2, <2>1
  <2> QED BY <1>2, <2>1, <2>2, <2>3, <2>4 DEF BookInv
<1>4. FlightInv(b)
  BY <1>2, FS_EmptySet DEF FlightInv, Records
<1>5. StageInv
  <2>1. 0 \in 0..LastPoint /\ ~ (0 > 0)
    BY FeedAssumption
  <2>2. paired = [n \in DOMAIN paired |-> 0]
    BY <1>2
  <2>3. clock \in 0..LastPoint /\ ended \in BOOLEAN /\ (clock > 0 => now = Close) /\ ~ ended
    BY <1>2, <2>1
  <2>4. \A r \in flight : clock <= r.time + Lag
    BY <1>2
  <2> QED BY <1>1, <1>2, <2>2, <2>3, <2>4 DEF StageInv
<1>6. IdsInv(b) /\ HeapInv
  BY <1>1, <1>2 DEF IdsInv, HeapInv
<1>7. Len(slots) = 0 /\ 1..Len(slots) = {} /\ Active = {}
  <2>1. Len(slots) = 0
    BY <1>1
  <2> QED BY <2>1 DEF Active
<1>8. SlotsInv
  <2>1. waiters \in [DOMAIN waiters -> Seq(1..Len(slots))] /\ DOMAIN waiters = {} /\ slots \in Seq(SlotSet)
    BY <1>1
  <2> QED BY <1>1, <1>7, <2>1 DEF SlotsInv
<1>9. PairedInv
  <2>1. FlyingTrades = {} /\ WaitingTrades = {} /\ DOMAIN paired = {} /\ paired \in [DOMAIN paired -> {0, 1}]
    BY <1>2, <1>7 DEF FlyingTrades, WaitingTrades
  <2> QED BY <1>7, <2>1 DEF PairedInv
<1>10. PairsInv /\ Conservation
  <2>1. \A id \in Ids : Len(events[id]) = 0
    BY <1>1 DEF NoEvents
  <2> QED BY <1>1, <2>1 DEF PairsInv, Conservation
<1> HIDE DEF b
<1>11. FeedInv(b)
  BY <1>3, <1>4, <1>5, <1>6, <1>8, <1>9, <1>10 DEF FeedInv
<1> QED BY <1>11 DEF Inv

\* Every step keeps it.
LEMMA NextInv ==
    ASSUME Inv, [Next]_vars
    PROVE  Inv'
<1>1. PICK b : FeedInv(b)
  BY DEF Inv
<1>2. ASSUME NEW id \in Ids, NEW side \in Sides, NEW q \in 1..MaxQty, Arrive(id, side, q)
      PROVE  Inv'
  <2>1. \E c : FeedInv(c)'
    BY <1>1, <1>2, ArriveKeeps
  <2> QED BY <2>1 DEF Inv
<1>3. ASSUME NEW id \in Ids, Withdraw(id)
      PROVE  Inv'
  <2>1. FeedInv(b)'
    BY <1>1, <1>3, WithdrawKeeps
  <2> QED BY <2>1 DEF Inv
<1>4. CASE ExchangeClock
  <2>1. FeedInv(b)'
    BY <1>1, <1>4, ClockKeeps
  <2> QED BY <2>1 DEF Inv
<1>5. ASSUME NEW r \in flight, Deliver(r)
      PROVE  Inv'
  <2>1. FeedInv(b)'
    BY <1>1, <1>5, DeliverKeeps
  <2> QED BY <2>1 DEF Inv
<1>6. ASSUME NEW t \in 1..Close, OnGlobalTime(t)
      PROVE  Inv'
  <2>1. t < Close \/ t >= Close
    BY FeedAssumption
  <2>2. FeedInv(b)'
    BY <1>1, <1>6, <2>1, TimeKeeps, LateTimeKeeps
  <2> QED BY <2>2 DEF Inv
<1>7. CASE EndOfReplay
  <2>1. FeedInv(b)'
    BY <1>1, <1>7, EndKeeps
  <2> QED BY <2>1 DEF Inv
<1>8. CASE UNCHANGED vars
  <2>1. /\ UNCHANGED <<market, orders, deadlines, slots, free, waiters, events, pairs>>
        /\ UNCHANGED <<book, biz, now, flight, flagged, clock, ended, lives, paired>>
    BY <1>8 DEF vars, builderVars, feedVars
  <2>2. BookInv(b)' /\ FlightInv(b)' /\ StageInv'
    <3>1. BookInv(b)'
      BY <1>1, <2>1 DEF FeedInv, BookInv
    <3>2. FlightInv(b)'
      BY <1>1, <2>1 DEF FeedInv, FlightInv
    <3>3. StageInv'
      BY <1>1, <2>1 DEF FeedInv, StageInv
    <3> QED BY <3>1, <3>2, <3>3
  <2>3. IdsInv(b)' /\ HeapInv'
    <3>1. IdsInv(b)'
      BY <1>1, <2>1 DEF FeedInv, IdsInv, StateOf
    <3>2. HeapInv'
      BY <1>1, <2>1 DEF FeedInv, HeapInv
    <3> QED BY <3>1, <3>2
  <2>4. SlotsInv'
    <3>1. Unconfirmed' = Unconfirmed
      BY <2>1 DEF Unconfirmed
    <3>2. \A id \in Ids : WaitersOf(id)' = WaitersOf(id)
      BY <2>1 DEF WaitersOf
    <3>3. \A id, snap : SideInv(id, snap) => SideInv(id, snap)'
      BY <2>1, <3>1 DEF SideInv, Known
    <3>4. SlotsInv
      BY <1>1 DEF FeedInv
    <3> QED BY <2>1, <3>1, <3>2, <3>3, <3>4 DEF SlotsInv
  <2>5. PairedInv' /\ PairsInv' /\ Conservation'
    <3>1. PairedInv'
      BY <1>1, <2>1, SMTT(40) DEF FeedInv, PairedInv, FlyingTrades, WaitingTrades, Active
    <3>2. PairsInv'
      BY <1>1, <2>1 DEF FeedInv, PairsInv, Known
    <3>3. Conservation'
      BY <1>1, <2>1 DEF FeedInv, Conservation
    <3> QED BY <3>1, <3>2, <3>3
  <2>6. FeedInv(b)'
    BY <2>2, <2>3, <2>4, <2>5 DEF FeedInv
  <2> QED BY <2>6 DEF Inv
<1> QED BY <1>2, <1>3, <1>4, <1>5, <1>6, <1>7, <1>8 DEF Next

\* The invariant holds in every state of the feed.
THEOREM Invariant == Spec => []Inv
<1>1. Init => Inv
  BY InitInv
<1>2. Inv /\ [Next]_vars => Inv'
  BY NextInv
<1> QED BY <1>1, <1>2, PTL DEF Spec

\* An order that is in a state of the builder is pending or rests, and how the state says so.
LEMMA StateOfOrder ==
    ASSUME NEW b, FeedInv(b), NEW id \in DOMAIN orders
    PROVE  IF orders[id].confirmed THEN orders[id].scheduled = 0
           ELSE orders[id].scheduled # 0 /\ clock < orders[id].maxTime + Ttl
<1>1. /\ id \in DOMAIN book /\ StateOf(id) = orders[id]
      /\ At(id, book[id], market, b[id], lives[id], TRUE, orders[id], flight, clock)
  <2>1. id \in DOMAIN book /\ StateOf(id) = orders[id] /\ (id \in DOMAIN orders) = TRUE
    BY DEF FeedInv, IdsInv, StateOf
  <2>2. At(id, book[id], market, b[id], lives[id], id \in DOMAIN orders, StateOf(id), flight, clock)
    BY <2>1 DEF FeedInv, IdsInv
  <2> QED BY <2>1, <2>2
<1>2. ~ AtGone(id, book[id], lives[id], TRUE, flight)
  BY DEF AtGone
<1>3. CASE AtWaiting(id, book[id], market, b[id], lives[id], TRUE, orders[id], flight, clock)
  BY <1>3 DEF AtWaiting, IsWaiting, IsPending
<1>4. CASE AtLive(id, book[id], market, lives[id], TRUE, orders[id], flight)
  BY <1>4 DEF AtLive, IsLive
<1> QED BY <1>1, <1>2, <1>3, <1>4 DEF At

\* The heap of deadlines (schedule_unlocked, the pops of advance_watermark) agrees with the states: an
\* order that can be finalized has its entry, and no entry is left for one that was finalized.
THEOREM HeapExact == Spec => []HeapMatches
<1>1. Inv => HeapMatches
  <2> SUFFICES ASSUME NEW b, FeedInv(b) PROVE HeapMatches
    BY DEF Inv
  <2>1. HeapInv
    BY DEF FeedInv
  <2>2. \A id \in DOMAIN orders : IF orders[id].confirmed THEN orders[id].scheduled = 0 ELSE orders[id].scheduled # 0
    BY StateOfOrder
  <2> QED BY <2>1, <2>2 DEF HeapInv, HeapMatches
<1> QED BY <1>1, Invariant, PTL

\* A trade that waits for the mother orders of its two sides is registered with each of them that is not
\* known yet, and with no other; that order has a state and its time to live is not over, so the
\* watermark will finalize it and wake the trade.
THEOREM Waiters == Spec => []WaitsForWatermark
<1>1. Inv => WaitsForWatermark
  <2> SUFFICES ASSUME NEW b, FeedInv(b) PROVE WaitsForWatermark
    BY DEF Inv
  <2>1. SlotsInv
    BY DEF FeedInv
  <2>2. ASSUME NEW id \in DOMAIN waiters
        PROVE  id \in DOMAIN orders /\ clock < orders[id].maxTime + Ttl
    <3>1. id \in DOMAIN orders /\ ~ orders[id].confirmed
      BY <2>1 DEF SlotsInv, Unconfirmed
    <3> QED BY <3>1, StateOfOrder
  <2> QED BY <2>1, <2>2 DEF SlotsInv, WaitsForWatermark
<1> QED BY <1>1, Invariant, PTL

\* In every event the parts of an order add up to its original quantity.
THEOREM EventsConserve == Spec => []Conservation
<1>1. Inv => Conservation
  BY DEF Inv, FeedInv
<1> QED BY <1>1, Invariant, PTL

\* While no record is later than the time to live, the builder reconstructs each order as the exchange
\* had it, whatever the order in which the records came.
THEOREM Exact == Spec => []ExactWhenInTime
<1>1. Inv => ExactWhenInTime
  <2> SUFFICES ASSUME NEW b, FeedInv(b), NEW id \in Ids
               PROVE  /\ [i \in 1..Len(lives[id]) |-> lives[id][i].kind]
                            \in {<<>>, <<"Confirmed">>, <<"Confirmed", "Closed">>}
                      /\ lives[id] # <<>> => lives[id][1].orig = book[id].qty
                      /\ Len(lives[id]) = 2 =>
                           LET last == lives[id][2]
                           IN  /\ last.imm = book[id].imm /\ last.pas = book[id].pas
                               /\ last.canc = book[id].canc + Rest(book[id])
    BY DEF Inv, ExactWhenInTime
  <2>1. PICK life : life = lives[id]
    OBVIOUS
  <2>2. CASE life = <<>>
    BY <2>1, <2>2
  <2>3. CASE life = <<life[1]>> /\ life[1].kind = "Confirmed" /\ life[1].orig = book[id].qty
    <3>1. Len(life) = 1
      BY <2>3
    <3>2. [i \in 1..Len(life) |-> life[i].kind] = <<"Confirmed">>
      BY <2>3, <3>1
    <3> QED BY <2>1, <2>3, <3>1, <3>2
  <2>4. CASE AtGone(id, book[id], life, id \in DOMAIN orders, flight)
    <3>1. /\ life = <<life[1], life[2]>> /\ life[1].kind = "Confirmed" /\ life[1].orig = book[id].qty
          /\ life[2].kind = "Closed" /\ life[2].imm = book[id].imm /\ life[2].pas = book[id].pas
          /\ life[2].canc = book[id].canc + Rest(book[id])
      BY <2>4 DEF AtGone
    <3>2. Len(life) = 2
      BY <3>1
    <3>3. [i \in 1..Len(life) |-> life[i].kind] = <<"Confirmed", "Closed">>
      BY <3>1, <3>2
    <3> QED BY <2>1, <3>1, <3>2, <3>3
  <2>5. life = <<>> \/ (life = <<life[1]>> /\ life[1].kind = "Confirmed" /\ life[1].orig = book[id].qty)
        \/ AtGone(id, book[id], life, id \in DOMAIN orders, flight)
    <3>1. CASE id \notin DOMAIN book
      BY <2>1, <3>1 DEF FeedInv, IdsInv
    <3>2. CASE id \in DOMAIN book
      <4>1. At(id, book[id], market, b[id], life, id \in DOMAIN orders, StateOf(id), flight, clock)
        BY <2>1, <3>2 DEF FeedInv, IdsInv
      <4> QED BY <4>1 DEF At, AtWaiting, AtLive
    <3> QED BY <3>1, <3>2
  <2> QED BY <2>2, <2>3, <2>4, <2>5
<1> QED BY <1>1, Invariant, PTL

\* No pair is emitted twice, none is missing when the session is over, and each tells the truth about
\* the mother orders of the trade.
THEOREM Pairs == Spec => []PairsExact
<1>1. Inv => PairsExact
  <2> SUFFICES ASSUME NEW b, FeedInv(b) PROVE PairsExact
    BY DEF Inv
  <2>1. /\ paired \in [DOMAIN paired -> {0, 1}]
        /\ \A n \in DOMAIN paired : paired[n] = 0 <=> n \in FlyingTrades \cup WaitingTrades
    BY DEF FeedInv, PairedInv
  <2>2. ended => FlyingTrades = {} /\ WaitingTrades = {}
    <3> SUFFICES ASSUME ended PROVE FlyingTrades = {} /\ WaitingTrades = {}
      OBVIOUS
    <3>1. flight = {} /\ Len(slots) = 0
      BY DEF FeedInv, StageInv
    <3> QED BY <3>1 DEF FlyingTrades, WaitingTrades, Active
  <2>3. \A n \in DOMAIN paired : paired[n] <= 1 /\ (ended => paired[n] = 1)
    <3> SUFFICES ASSUME NEW n \in DOMAIN paired PROVE paired[n] <= 1 /\ (ended => paired[n] = 1)
      OBVIOUS
    <3>1. paired[n] \in {0, 1} /\ (paired[n] = 0 <=> n \in FlyingTrades \cup WaitingTrades)
      BY <2>1
    <3> QED BY <2>2, <3>1
  <2>4. \A p \in pairs : Known(p.buy, p.buyOrder) /\ Known(p.sell, p.sellOrder)
    BY DEF FeedInv, PairsInv
  <2>5. \A p \in pairs : \A side \in {<<p.buy, p.buyOrder>>, <<p.sell, p.sellOrder>>} : Known(side[1], side[2])
    BY <2>4
  <2> QED BY <2>3, <2>5 DEF PairsExact, Known
<1> QED BY <1>1, Invariant, PTL
=============================================================================
