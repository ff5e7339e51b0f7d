------------------------------ MODULE OrderFeed ------------------------------
(***************************************************************************)
(* The mother-order builder at work: the exchange that matches the orders  *)
(* (external: the truth the builder reconstructs), the feed that brings    *)
(* its records late and out of order, and the clock of the program that    *)
(* calls the builder once per second of exchange time                      *)
(* (factors/market_microstructure/factor_entry.cpp, DoOnGlobalTime).  The  *)
(* day is that of the continuous session: the orders of the closing        *)
(* auction, and its trades at 15:00, are left out.                         *)
(*                                                                         *)
(* In the feed a Shanghai record may be overtaken by any other record, but *)
(* is never more than Lag behind the global clock: ORDER_BUILDER_V2.md     *)
(* measures 11.7 s and sets Ttl to 20 s for it.  A Shenzhen order arrives  *)
(* before the trades and cancels that name it (data_loader.cc gives every  *)
(* transaction a later local time than the order of the same moment).      *)
(***************************************************************************)
EXTENDS OrderSynthesizer

CONSTANTS MaxQty,      \* bound: quantity of an order
          LastOrder,   \* bound: no order and no cancel after this time (14:57)
          MaxCancels,  \* bound: cancels in the day
          Lag,         \* how far a record may be behind the global clock
          Close,       \* 15:00:00
          LastPoint,   \* last time point of OnGlobalTime (14:57:01)
          Replay       \* TRUE: the NPQ replay, which flushes when the files end

ASSUME FeedAssumption ==
    /\ MaxQty \in Nat \ {0} /\ LastOrder \in Nat /\ MaxCancels \in Nat /\ Lag \in Nat /\ Lag < Ttl
    /\ Close \in Nat /\ LastOrder + Lag < Close /\ Replay \in BOOLEAN
    /\ LastPoint \in 1..Close - 1    \* constant_space.h

VARIABLES
    book,      \* exchange: order number -> its true life
    biz,       \* exchange: next business number
    now,       \* exchange clock
    flight,    \* records on their way
    flagged,   \* whether trades carry the aggressor flag (bsflag)
    clock,     \* last time point at which OnGlobalTime was called
    ended,     \* the session's records are all consumed and the replay is over
    lives,     \* history: per order, the Confirmed and Closed events emitted
    paired     \* history: for each trade, by business number, how often its pair was emitted

feedVars == <<book, biz, now, flight, flagged, clock, ended, lives, paired>>
vars == <<market, builderVars, feedVars>>

----------------------------------------------------------------------------
(* The exchange                                                            *)

Sides == {"B", "S"}
Rest(o) == o.qty - (o.imm + o.pas + o.canc)
Resting(id) == id \in DOMAIN book /\ Rest(book[id]) > 0

Record(kind, id, q) == [kind |-> kind, id |-> id, qty |-> q, biz |-> biz, time |-> now]
Trade(b, taker, side, maker, q) ==
    [kind |-> "trade", buy |-> IF side = "B" THEN taker ELSE maker,
     sell |-> IF side = "B" THEN maker ELSE taker, qty |-> q, biz |-> b, time |-> now,
     flag |-> IF flagged THEN side ELSE "none"]

\* An order of q shares arrives and takes fill[m] from every resting order m
\* of the other side; what is left rests.
Arrive(id, side, q) ==
    LET makers == {m \in DOMAIN book : Resting(m) /\ book[m].side # side}
    IN  /\ now <= LastOrder
        /\ id = Cardinality(DOMAIN book) + 1
        /\ id = 1 => side = "B"          \* the two sides are symmetric
        /\ \E fill \in [makers -> 0..MaxQty] :
             LET taken == {m \in makers : fill[m] > 0}
                 imm == MapThenSumSet(LAMBDA m : fill[m], makers)
                 nth(m) == Cardinality({x \in taken : x < m})
                 \* Shenzhen numbers the order before its trades, Shanghai
                 \* numbers what rests of it after them
                 first == IF market = "SZ" THEN biz + 1 ELSE biz
                 trades == {Trade(first + nth(m), id, side, m, fill[m]) : m \in taken}
                 entry == IF market = "SZ" THEN {Record("order", id, q)}
                          ELSE IF imm = q THEN {}
                          ELSE {[Record("A", id, q - imm) EXCEPT !.biz = biz + Cardinality(taken)]}
             IN  /\ imm <= q
                 /\ \A m \in makers : fill[m] <= Rest(book[m])
                 /\ book' = [x \in DOMAIN book \cup {id} |->
                               IF x = id THEN [side |-> side, qty |-> q, imm |-> imm, pas |-> 0, canc |-> 0]
                               ELSE IF x \in taken THEN [book[x] EXCEPT !.pas = @ + fill[x]]
                               ELSE book[x]]
                 /\ biz' = biz + Cardinality(taken) + Cardinality(entry)
                 /\ flight' = flight \cup trades \cup entry
                 /\ paired' = [n \in DOMAIN paired \cup {r.biz : r \in trades} |->
                                 IF n \in DOMAIN paired THEN paired[n] ELSE 0]
    /\ UNCHANGED <<market, builderVars, now, flagged, clock, ended, lives>>

\* The owner withdraws what rests of an order.
Withdraw(id) ==
    /\ Resting(id) /\ now <= LastOrder
    /\ Cardinality({x \in DOMAIN book : book[x].canc > 0}) < MaxCancels
    /\ book' = [book EXCEPT ![id].canc = Rest(book[id])]
    /\ biz' = biz + 1
    /\ flight' = flight \cup {Record(IF market = "SZ" THEN "cancel" ELSE "D", id, Rest(book[id]))}
    /\ UNCHANGED <<market, builderVars, now, flagged, clock, ended, lives, paired>>

ExchangeClock ==
    /\ now < Close
    /\ now' = now + 1
    /\ UNCHANGED <<market, builderVars, book, biz, flight, flagged, clock, ended, lives, paired>>

----------------------------------------------------------------------------
(* The program                                                             *)

\* What the consumer of one call of the builder remembers of it: how orders
\* begin and end, and anything that comes together with that.
Life(es) == IF \A i \in DOMAIN es : es[i].kind = "RestChanged" THEN <<>> ELSE es

Consume ==
    /\ lives' = [id \in Ids |-> lives[id] \o Life(events'[id])]
    /\ paired' = [n \in DOMAIN paired |-> paired[n] + Cardinality({p \in pairs' : p.biz = n})]

\* The orders a record is about.
Names(r) == IF r.kind = "trade" THEN {r.buy, r.sell} ELSE {r.id}

\* A record is dispatched after the time points up to its own time.
Deliver(r) ==
    /\ r \in flight
    /\ clock >= Smaller(r.time, LastPoint)
    /\ market = "SZ" /\ r.kind # "order" =>
         ~\E o \in flight : o.kind = "order" /\ o.id \in Names(r)
    /\ flight' = flight \ {r}
    /\ OnOrder(r) \/ OnTrans(r)
    /\ Consume
    /\ UNCHANGED <<market, book, biz, now, flagged, clock, ended>>

\* DoOnGlobalTime at the time points that a record of some security stamped t
\* has reached.  Each of the calls gets the time of that record, not of the time
\* point (Close stands for any from 15:00 on), so that the first does it all.
OnGlobalTime(t) ==
    /\ now = Close /\ clock < LastPoint /\ ~ended
    /\ t > clock /\ \A r \in flight : t <= r.time + Lag
    /\ clock' = Smaller(t, LastPoint)
    /\ IF t >= Close THEN FlushAtClose ELSE AdvanceWatermark(t)
    /\ Consume
    /\ UNCHANGED <<market, book, biz, now, flight, flagged, ended>>

\* The replay flushes when both of its files have been read.
EndOfReplay ==
    /\ Replay /\ ~ended /\ now = Close /\ clock = LastPoint /\ flight = {}
    /\ ended' = TRUE
    /\ FlushAtClose
    /\ Consume
    /\ UNCHANGED <<market, book, biz, now, flight, flagged, clock>>

----------------------------------------------------------------------------
Init ==
    /\ InitBuilder
    /\ market \in {"SH", "SZ"} /\ flagged \in BOOLEAN
    /\ book = <<>> /\ biz = 1 /\ now = 1 /\ flight = {} /\ clock = 0 /\ ended = FALSE
    /\ lives = [id \in Ids |-> <<>>] /\ paired = <<>>

Next ==
    \/ \E id \in Ids, side \in Sides, q \in 1..MaxQty : Arrive(id, side, q)
    \/ \E id \in Ids : Withdraw(id)
    \/ ExchangeClock
    \/ \E r \in flight : Deliver(r)
    \/ \E t \in 1..Close : OnGlobalTime(t)
    \/ EndOfReplay

\* Time passes, records arrive and the program keeps up with its input.
Spec == Init /\ [][Next]_vars
        /\ WF_vars(ExchangeClock) /\ WF_vars(EndOfReplay)
        /\ WF_vars(\E t \in 1..Close : OnGlobalTime(t)) /\ WF_vars(\E r \in flight : Deliver(r))

----------------------------------------------------------------------------
(* Properties                                                              *)

\* As long as no record is more than Lag < Ttl behind the clock, whatever the
\* order of arrival: an order is confirmed once, with the quantity it really
\* had, is closed at most once, and the fills and cancels it is closed with
\* are those of the exchange (what still rested counts as cancelled at the
\* close of the session).
ExactWhenInTime ==
    \A id \in Ids :
        /\ [i \in 1..Len(lives[id]) |-> lives[id][i].kind]
              \in {<<>>, <<"Confirmed">>, <<"Confirmed", "Closed">>}
        /\ lives[id] # <<>> => lives[id][1].orig = book[id].qty
        /\ Len(lives[id]) = 2 =>
             LET last == lives[id][2]
             IN  /\ last.imm = book[id].imm /\ last.pas = book[id].pas
                 /\ last.canc = book[id].canc + Rest(book[id])

\* original = immediate + passive + cancelled + rest, in every event the
\* builder emits (ORDER_BUILDER_V2.md, section 4).
Conservation ==
    \A id \in Ids : \A i \in 1..Len(events[id]) :
        LET e == events[id][i] IN e.orig = e.imm + e.pas + e.canc + e.rest

\* The pair of a trade is emitted at most once, with the true quantities of
\* the two mother orders, estimated exactly when an order never rested; when
\* the session is over no trade is without its pair.
PairsExact ==
    /\ \A n \in DOMAIN paired : paired[n] <= 1 /\ (ended => paired[n] = 1)
    /\ \A p \in pairs : \A side \in {<<p.buy, p.buyOrder>>, <<p.sell, p.sellOrder>>} :
         /\ side[2].orig = book[side[1]].qty
         /\ side[2].estimated <=> (market = "SH" /\ book[side[1]].imm = book[side[1]].qty)

\* The heap holds one entry for every scheduled order and nothing else, every
\* pending order that can be finalized is scheduled, no confirmed one is.
HeapMatches ==
    /\ deadlines = {<<orders[id].scheduled, id>> : id \in {x \in DOMAIN orders : orders[x].scheduled # 0}}
    /\ \A id \in DOMAIN orders :
         IF orders[id].confirmed THEN orders[id].scheduled = 0
         ELSE orders[id].hasA \/ orders[id].hasIncoming => orders[id].scheduled # 0

\* A trade waits only for orders whose records the watermark has not passed;
\* each of them will wake it, and a slot given back wakes nobody.
WaitsForWatermark ==
    /\ \A t \in 1..Len(slots) : slots[t].active <=> t \notin free
    /\ \A t \in 1..Len(slots), id \in Ids :
         t \in Range(WaitersOf(id)) <=>
            /\ slots[t].active
            /\ \/ slots[t].buy = id /\ slots[t].buyOrder = NoSnapshot
               \/ slots[t].sell = id /\ slots[t].sellOrder = NoSnapshot
    /\ \A id \in DOMAIN waiters :
         id \in DOMAIN orders /\ clock < orders[id].maxTime + Ttl

\* ORDER_BUILDER_V2.md, section 5: the close of the session leaves no order
\* behind.  But the last time point of OnGlobalTime is 14:57:01, and the call
\* closes the session only when the record that brought it was stamped 15:00 or
\* later.
NothingCrossesTheDay ==
    now = Close /\ flight = {} /\ clock = LastPoint => orders = <<>>
=============================================================================
