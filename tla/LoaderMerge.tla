----------------------------- MODULE LoaderMerge -----------------------------
(* DataLoader: the ticks, trades and orders of an asset are three channels   *)
(* (LoadRawData), a loser tree merges the channels by local time             *)
(* (merge_sort::load_quote_c, pop_tick), and DistributeData hands the records*)
(* to the engine in that order, which is the only order a factor ever sees.  *)
(*                                                                           *)
(* Channels are numbered from 0, as in the code; a record is its two times.  *)
(* An empty channel is not modelled: the code reads a first record from it.  *)
EXTENDS Integers, Sequences, SequencesExt

CONSTANTS
    MaxAssets, MaxRecords,  \* bounds: assets, and records of all channels
    MaxLocal, MaxExch       \* bounds on the times of a record

ASSUME MergeAssumption ==
    MaxAssets \in Nat /\ MaxRecords \in Nat /\ MaxLocal \in Nat /\ MaxExch \in Nat

VARIABLES
    channels,   \* the records of each channel
    q,          \* the key of each channel's next record; q[size] is the sentinel
    l,          \* the tree: l[0] is the champion, l[i] the loser at node i
    delivered   \* history: [col, row] of the records handed to the engine

mergeVars == <<channels, q, l, delivered>>

Size == Cardinality(DOMAIN channels)
Columns == 0..Size - 1

RecordSet == [local : 0..MaxLocal, exch : 0..MaxExch]

\* The numbers of records of n channels, none empty, MaxRecords at most.
Lengths(n) == {f \in [0..n - 1 -> 1..MaxRecords + 1 - n] : FoldFunction(+, 0, f) <= MaxRecords}

\* Column 3a is the ticks of asset a, 3a+1 the trades, 3a+2 the orders.
\* inc_dec_local_time has made every trade one microsecond later.
IsTrade(col) == col % 3 = 1

NoColumn == -1
Infinite == MaxLocal + MaxExch + 4
Sentinel == [local |-> 0, exch |-> 0, col |-> NoColumn, row |-> 0]
FillTick == [local |-> Infinite, exch |-> Infinite, col |-> NoColumn, row |-> 0]

\* convert_to_quote_tick: keys start at 1, above the sentinel.
Tick(col, row) ==
    LET r == channels[col][row]
    IN  [local |-> r.local + (IF IsTrade(col) THEN 1 ELSE 0) + 1, exch |-> r.exch + 1,
         col |-> col, row |-> row]

InitMerge ==
    /\ \E assets \in 1..MaxAssets : \E length \in Lengths(3 * assets) :
          \E records \in [{at \in (DOMAIN length) \X (1..MaxRecords) : at[2] <= length[at[1]]}
                            -> RecordSet] :
              channels = [c \in DOMAIN length |-> [row \in 1..length[c] |-> records[<<c, row>>]]]
    /\ q = <<>> /\ l = <<>> /\ delivered = <<>>

-----------------------------------------------------------------------------
\* Bug to detect: channels at the same times are left as they are.
LosesByTime(keys, s, t) ==
    \/ keys[s].local > keys[t].local
    \/ keys[s].local = keys[t].local /\ keys[s].exch > keys[t].exch

\* Does the climbing channel s lose against t, the loser at a node?
Loses(keys, s, t) ==
    \/ keys[s].local > keys[t].local
    \/ keys[s].local = keys[t].local /\ keys[s].exch > keys[t].exch
    \/ keys[s].local = keys[t].local /\ keys[s].exch = keys[t].exch /\ s > t

\* The nodes above leaf s, from the leaf upwards.
PathFrom[i \in Nat] == IF i = 0 THEN <<>> ELSE <<i>> \o PathFrom[i \div 2]

\* adjust_by_local_time: s climbs, and stays at the first node where it loses.
Adjust(keys, tree, s) ==
    LET Meet(climb, i) ==
          IF Loses(keys, climb.s, climb.tree[i])
          THEN [s |-> climb.tree[i], tree |-> [climb.tree EXCEPT ![i] = climb.s]]
          ELSE climb
        top == FoldLeft(Meet, [s |-> s, tree |-> tree], PathFrom[(s + Size) \div 2])
    IN  [top.tree EXCEPT ![0] = top.s]

\* init_loser_tree: from the last channel to the first.
Built(keys) ==
    FoldLeft(LAMBDA tree, n : Adjust(keys, tree, Size - n),
             [i \in 0..Size |-> Size], [n \in 1..Size |-> n])

\* load_quote_c
LoadQuotes ==
    /\ l = <<>>
    /\ q' = [i \in 0..Size |-> IF i = Size THEN Sentinel ELSE Tick(i, 1)]
    /\ l' = Built(q')
    /\ UNCHANGED <<channels, delivered>>

Champion == q[l[0]]

\* Bug to detect: the last record of a channel is not taken.
RefillShort(t) ==
    IF t.row < Len(channels[t.col]) - 1 THEN Tick(t.col, t.row + 1) ELSE FillTick

\* What follows a record in its channel.
Refill(t) ==
    IF t.row < Len(channels[t.col]) THEN Tick(t.col, t.row + 1) ELSE FillTick

\* pop_tick returns the champion.  (At the end it returns kReachEnd, and
\* DistributeData stops; the tree is not looked at again.)
PopTick ==
    /\ l # <<>> /\ Champion.col # NoColumn
    /\ delivered' = Append(delivered, [col |-> Champion.col, row |-> Champion.row])
    /\ q' = [q EXCEPT ![Champion.col] = Refill(Champion)]
    /\ l' = Adjust(q', l, Champion.col)
    /\ UNCHANGED channels

NextMerge == LoadQuotes \/ PopTick

-----------------------------------------------------------------------------
\* How many records of a channel are among the first n that were delivered.
Taken(col, n) == Cardinality({i \in 1..n : delivered[i].col = col})

\* The first record of each channel that is not among the first n.
HeadsAfter(n) ==
    {[col |-> c, row |-> Taken(c, n) + 1] : c \in {c \in Columns : Taken(c, n) < Len(channels[c])}}

\* The order: by local time, a trade after everything else of its own time,
\* then by the exchange's time, then by channel.
Before(a, b) ==
    LET ra == channels[a.col][a.row]   rb == channels[b.col][b.row]
        ta == ra.local + (IF a.col % 3 = 1 THEN 1 ELSE 0)
        tb == rb.local + (IF b.col % 3 = 1 THEN 1 ELSE 0)
    IN  \/ ta < tb
        \/ ta = tb /\ ra.exch < rb.exch
        \/ ta = tb /\ ra.exch = rb.exch /\ a.col < b.col

\* Each record delivered is the least of those then at the head of a channel,
\* whatever the channels hold: a record is never overtaken within its channel,
\* and the order does not depend on how the tree happens to be arranged.
LeastFirst ==
    \A n \in DOMAIN delivered :
        /\ delivered[n] \in HeadsAfter(n - 1)
        /\ \A head \in HeadsAfter(n - 1) : ~ Before(head, delivered[n])

\* The merge ends when, and only when, every record has been delivered.
DeliversAll ==
    l # <<>> => (Champion.col = NoColumn <=> HeadsAfter(Len(delivered)) = {})
=============================================================================
