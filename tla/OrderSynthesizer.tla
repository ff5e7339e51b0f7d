-------------------------- MODULE OrderSynthesizer --------------------------
(***************************************************************************)
(* The mother-order builder of one security for one day                    *)
(* (factors/demofw00/tools/market/order_synthesizer.h, .cpp).              *)
(*                                                                         *)
(* Records of orders, cancels and trades come in, in the order in which    *)
(* they arrive; the builder keeps one state per mother order, emits its    *)
(* life (Confirmed, RestChanged, Closed) and, for every trade, the pair of *)
(* mother orders behind it once both are confirmed.                        *)
(*                                                                         *)
(* Shenzhen announces an order with its whole quantity, so it is confirmed *)
(* at once.  Shanghai announces with 'A' only what is left after the       *)
(* immediate fills, and nothing at all for an order filled on arrival: the *)
(* builder collects the fragments and confirms the order when the          *)
(* watermark is Ttl past the latest of its records.                        *)
(*                                                                         *)
(* One action per public method.  Prices, amounts, names and counters of   *)
(* statistics are left out; quantities, times and business numbers stay.   *)
(* The events of one call are kept per order: only the order of the events *)
(* of the same mother order is read by anyone.                             *)
(***************************************************************************)
EXTENDS Integers, Sequences, FiniteSets, FiniteSetsExt, Functions

CONSTANTS Ids,       \* canonical order numbers, positive integers
          Ttl        \* ttl_ms_, in units of the exchange clock

ASSUME BuilderAssumption == Ids \subseteq Nat \ {0} /\ Ttl \in Nat

VARIABLES
    market,      \* "SH" or "SZ": which exchange this security trades on
    orders,      \* states_: order number -> state, for some of Ids
    deadlines,   \* pending_deadlines_: the heap, as a set of <<time, id>>
    slots,       \* pending_pairs_: trades that wait for a mother order
    free,        \* free_pair_slots_
    waiters,     \* pair_waiters_: order number -> tokens of slots
    events,      \* output_buffer_.events of the last call, per order
    pairs        \* output_buffer_.trade_pairs of the last call

builderVars == <<orders, deadlines, slots, free, waiters, events, pairs>>

----------------------------------------------------------------------------
Smaller(a, b) == IF a <= b THEN a ELSE b
Larger(a, b) == IF a >= b THEN a ELSE b

Only(id, st) == [x \in {id} |-> st]

FreshState ==
    [confirmed |-> FALSE, estimated |-> FALSE, hasA |-> FALSE, hasIncoming |-> FALSE,
     aBiz |-> 0, aRest |-> 0, maxTime |-> 0, scheduled |-> 0, frags |-> {},
     orig |-> 0, imm |-> 0, pas |-> 0, canc |-> 0, rest |-> 0]

\* states_[id]: the state is created on first use
StateOf(id) == IF id \in DOMAIN orders THEN orders[id] ELSE FreshState

Event(kind, reason, st) ==
    [kind |-> kind, reason |-> reason, orig |-> st.orig, imm |-> st.imm,
     pas |-> st.pas, canc |-> st.canc, rest |-> st.rest, estimated |-> st.estimated]

NoEvents == [id \in Ids |-> <<>>]

\* What a handler emits when it has taken quantity from a confirmed order.
TakenFrom(st, reason) ==
    <<IF st.rest = 0 THEN Event("Closed", reason, st)
                     ELSE Event("RestChanged", "None", st)>>

ClosedBy(es) == es # <<>> /\ es[Len(es)].kind = "Closed"

\* A pending order that is not in the heap enters it at the time of the
\* latest of its records.
\* Bug to detect: an order already in the heap is scheduled anew.
ScheduledAnew(st) == IF st.confirmed THEN st ELSE [st EXCEPT !.scheduled = st.maxTime]

Scheduled(st) ==
    IF ~st.confirmed /\ st.scheduled = 0 THEN [st EXCEPT !.scheduled = st.maxTime]
                                         ELSE st

\* A handler leaves the states in `new` and emits `es`; a state is erased
\* with its Closed event.
Store(new, es) ==
    /\ orders' = [id \in {x \in DOMAIN orders \cup DOMAIN new : ~ClosedBy(es[x])} |->
                    IF id \in DOMAIN new THEN new[id] ELSE orders[id]]
    /\ deadlines' = deadlines \cup
          {<<new[id].scheduled, id>> : id \in {x \in DOMAIN new :
                StateOf(x).scheduled = 0 /\ new[x].scheduled # 0}}
    /\ events' = es

----------------------------------------------------------------------------
(* Pairs of mother orders behind a trade                                   *)

NoSnapshot == [orig |-> -1, estimated |-> FALSE]
Snapshot(x) == [orig |-> x.orig, estimated |-> x.estimated]

\* Bug to detect: an order closed by this very trade is not found.
FindSnapshotOfState(id) ==
    IF id \in DOMAIN orders' /\ orders'[id].confirmed THEN Snapshot(orders'[id])
                                                      ELSE NoSnapshot

\* FindSnapshot, after the sides of the trade have been updated: a confirmed
\* state, or else the last event of this call that knows the quantity.
FindSnapshot(id) ==
    LET known == {i \in 1..Len(events'[id]) : events'[id][i].orig > 0}
    IN  IF id \in DOMAIN orders' /\ orders'[id].confirmed THEN Snapshot(orders'[id])
        ELSE IF known # {} THEN Snapshot(events'[id][Max(known)])
        ELSE NoSnapshot

WaitersOf(id) == IF id \in DOMAIN waiters THEN waiters[id] ELSE <<>>

Complete(s) == s.buyOrder # NoSnapshot /\ s.sellOrder # NoSnapshot

\* QueueOrEmitTradePair.  Which of the free slots is reused is left open.
QueueOrEmitTradePair(q) ==
    LET pair == [biz |-> q.biz, buy |-> q.buy, sell |-> q.sell, active |-> TRUE,
                 buyOrder |-> FindSnapshot(q.buy), sellOrder |-> FindSnapshot(q.sell)]
        missing == {id \in {q.buy, q.sell} : FindSnapshot(id) = NoSnapshot}
    IN  \/ /\ Complete(pair)
           /\ pairs' = {pair}
           /\ UNCHANGED <<slots, free, waiters>>
        \/ /\ ~Complete(pair)
           /\ pairs' = {}
           /\ \E token \in IF free = {} THEN {Len(slots) + 1} ELSE free :
                /\ slots' = [i \in 1..Larger(Len(slots), token) |->
                               IF i = token THEN pair ELSE slots[i]]
                /\ free' = free \ {token}
                /\ waiters' = [id \in DOMAIN waiters \cup missing |->
                                 IF id \in missing THEN Append(WaitersOf(id), token)
                                                   ELSE waiters[id]]

\* ResolveWaitingPairs for every order confirmed by this call: its waiting
\* trades take the snapshot, and those with both sides leave.
Answered(s, token, new) ==
    LET hit(id) == id \in DOMAIN new /\ token \in Range(WaitersOf(id)) /\ s.active
    IN  [s EXCEPT !.buyOrder  = IF hit(s.buy) THEN Snapshot(new[s.buy]) ELSE @,
                  !.sellOrder = IF hit(s.sell) THEN Snapshot(new[s.sell]) ELSE @]

\* new: the states at confirmation of the orders confirmed by this call
AnsweredSlots(new) == [i \in 1..Len(slots) |-> Answered(slots[i], i, new)]
AnsweredTokens(new) ==
    {i \in 1..Len(slots) : slots[i].active /\ Complete(AnsweredSlots(new)[i])}

\* Bug to detect: the list of waiters outlives the order it waits for.
ResolveWaitingPairsKept(new) ==
    /\ pairs' = {AnsweredSlots(new)[i] : i \in AnsweredTokens(new)}
    /\ slots' = [i \in 1..Len(slots) |->
                    [AnsweredSlots(new)[i] EXCEPT !.active = @ /\ i \notin AnsweredTokens(new)]]
    /\ free' = free \cup AnsweredTokens(new)
    /\ UNCHANGED waiters

ResolveWaitingPairs(new) ==
    LET done == AnsweredTokens(new)
    IN  /\ pairs' = {AnsweredSlots(new)[i] : i \in done}
        /\ slots' = [i \in 1..Len(slots) |->
                        [AnsweredSlots(new)[i] EXCEPT !.active = @ /\ i \notin done]]
        /\ free' = free \cup done
        /\ waiters' = [id \in DOMAIN waiters \ DOMAIN new |-> waiters[id]]

----------------------------------------------------------------------------
(* OnOrder                                                                 *)

\* A Shenzhen order tells its whole quantity.
OnShenzhenOrder(q) ==
    LET st == [StateOf(q.id) EXCEPT !.confirmed = TRUE, !.orig = q.qty, !.rest = q.qty]
    IN  /\ Store(Only(q.id, st), [NoEvents EXCEPT ![q.id] = <<Event("Confirmed", "None", st)>>])
        /\ ResolveWaitingPairs(Only(q.id, st))

Touched(st, q) == [st EXCEPT !.maxTime = Larger(@, q.time)]

\* 'A': what rests in the Shanghai book after the immediate fills.
OnShanghaiAdd(q) ==
    LET st == [Touched(StateOf(q.id), q) EXCEPT !.hasA = TRUE, !.aBiz = q.biz, !.aRest = q.qty]
    IN  Store(Only(q.id, Scheduled(st)), NoEvents)

\* 'D': a cancel is counted on a pending order and taken from a confirmed one.
OnShanghaiDelete(q) ==
    LET st == Touched(StateOf(q.id), q)
        applied == Smaller(st.rest, q.qty)
        less == [st EXCEPT !.canc = @ + applied, !.rest = @ - applied]
    IN  IF st.confirmed
        THEN Store(Only(q.id, less), [NoEvents EXCEPT ![q.id] = TakenFrom(less, "Cancelled")])
        ELSE Store(Only(q.id, Scheduled([st EXCEPT !.canc = @ + q.qty])), NoEvents)

OnOrder(q) ==
    \/ market = "SZ" /\ q.kind = "order" /\ OnShenzhenOrder(q)
    \/ /\ market = "SH"
       /\ \/ q.kind = "A" /\ OnShanghaiAdd(q)
          \/ q.kind = "D" /\ OnShanghaiDelete(q)
       /\ pairs' = {}
       /\ UNCHANGED <<slots, free, waiters>>

----------------------------------------------------------------------------
(* OnTrans                                                                 *)

\* ResolveAggressorSide: the flag of the record, or else the younger order.
Aggressor(q) ==
    IF q.flag \in {"B", "S"} THEN q.flag ELSE IF q.buy > q.sell THEN "B" ELSE "S"

Incoming(q, id) == Aggressor(q) = IF id = q.buy THEN "B" ELSE "S"

\* UpdateShenzhenTradeSide
ShenzhenSide(st, q, id) ==
    [st EXCEPT !.imm = IF Incoming(q, id) THEN @ + q.qty ELSE @,
               !.pas = IF Incoming(q, id) THEN @ ELSE @ + q.qty,
               !.rest = Larger(0, @ - q.qty)]

OnShenzhenTrade(q) ==
    LET new == [id \in {q.buy, q.sell} \cap DOMAIN orders |-> ShenzhenSide(orders[id], q, id)]
    IN  Store(new, [id \in Ids |-> IF id \in DOMAIN new
                                   THEN TakenFrom(new[id], "FilledAfterResting") ELSE <<>>])

\* AddShanghaiTradeSide
ShanghaiSide(st, q, id) ==
    LET applied == Smaller(st.rest, q.qty)
        fragment == [biz |-> q.biz, vol |-> q.qty, incoming |-> Incoming(q, id)]
    IN  IF st.confirmed
        THEN [st EXCEPT !.pas = @ + applied, !.rest = @ - applied]
        ELSE Scheduled([st EXCEPT !.frags = @ \cup {fragment},
                                  !.hasIncoming = @ \/ Incoming(q, id)])

OnShanghaiTrade(q) ==
    LET new == [id \in {q.buy, q.sell} |-> ShanghaiSide(Touched(StateOf(id), q), q, id)]
    IN  Store(new, [id \in Ids |-> IF id \in DOMAIN new /\ new[id].confirmed
                                   THEN TakenFrom(new[id], "FilledAfterResting") ELSE <<>>])

\* Shenzhen sends a cancel as a transaction of type 'C'.
OnShenzhenCancel(q) ==
    LET st == orders[q.id]
        applied == Smaller(st.rest, q.qty)
        less == [st EXCEPT !.canc = @ + applied, !.rest = @ - applied]
    IN  IF q.id \in DOMAIN orders
        THEN Store(Only(q.id, less), [NoEvents EXCEPT ![q.id] = TakenFrom(less, "Cancelled")])
        ELSE events' = NoEvents /\ UNCHANGED <<orders, deadlines>>

OnTrans(q) ==
    \/ /\ q.kind = "cancel" /\ market = "SZ"
       /\ OnShenzhenCancel(q)
       /\ pairs' = {}
       /\ UNCHANGED <<slots, free, waiters>>
    \/ /\ q.kind = "trade"
       /\ \/ market = "SZ" /\ OnShenzhenTrade(q)
          \/ market = "SH" /\ OnShanghaiTrade(q)
       /\ QueueOrEmitTradePair(q)

----------------------------------------------------------------------------
(* The watermark                                                           *)

\* Bug to detect: nothing is waited for.
SafeTimeNow(t) == t

\* Records up to this time have all arrived.
SafeTime(t) == t - Ttl

\* FinalizeShanghaiPending(safe): heap entries up to safe are popped; one
\* whose order has had a later record is pushed again at that time.
Due(safe) == {id \in DOMAIN orders :
                /\ orders[id].scheduled # 0
                /\ orders[id].scheduled <= safe
                /\ <<orders[id].scheduled, id>> \in deadlines}
Postponed(safe) == {id \in Due(safe) : orders[id].maxTime > safe}
Ready(safe) == {id \in Due(safe) \ Postponed(safe) :
                  ~orders[id].confirmed /\ (orders[id].hasA \/ orders[id].hasIncoming)}

Volume(frags) == MapThenSumSet(LAMBDA f : f.vol, frags)

\* Bug to detect: a cancel that came before the confirmation is not taken off.
FinalStateUncancelled(st) ==
    LET immediate == Volume({f \in st.frags : IF st.hasA THEN f.biz < st.aBiz ELSE f.incoming})
        passive   == Volume({f \in st.frags : st.hasA /\ f.biz > st.aBiz})
    IN  [st EXCEPT !.scheduled = 0, !.confirmed = TRUE, !.estimated = ~st.hasA, !.frags = {},
                   !.imm = immediate, !.pas = passive,
                   !.orig = IF st.hasA THEN st.aRest + immediate ELSE immediate,
                   !.rest = IF st.hasA THEN Larger(0, st.aRest - passive) ELSE 0]

\* With 'A', the business numbers tell the immediate fills from the passive
\* ones; without it the incoming fragments are all there is to the order.
FinalState(st) ==
    LET immediate == Volume({f \in st.frags : IF st.hasA THEN f.biz < st.aBiz ELSE f.incoming})
        passive   == Volume({f \in st.frags : st.hasA /\ f.biz > st.aBiz})
    IN  [st EXCEPT !.scheduled = 0, !.confirmed = TRUE, !.estimated = ~st.hasA, !.frags = {},
                   !.imm = immediate, !.pas = passive,
                   !.orig = IF st.hasA THEN st.aRest + immediate ELSE immediate,
                   !.rest = IF st.hasA THEN Larger(0, st.aRest - (passive + st.canc)) ELSE 0]

FinalEvents(st) ==
    LET reason == IF ~st.hasA THEN "FilledOnArrival"
                  ELSE IF st.canc > 0 THEN "Cancelled" ELSE "FilledAfterResting"
    IN  IF st.rest = 0
        THEN <<Event("Confirmed", "None", st), Event("Closed", reason, st)>>
        ELSE <<Event("Confirmed", "None", st)>>

Finalized(safe) == [id \in Ready(safe) |-> FinalState(orders[id])]

AdvanceWatermark(t) ==
    LET safe == SafeTime(t)
        final == Finalized(safe)
        es == [id \in Ids |-> IF id \in Ready(safe) THEN FinalEvents(final[id]) ELSE <<>>]
    IN  /\ orders' = [id \in {x \in DOMAIN orders : ~ClosedBy(es[x])} |->
                        IF id \in Ready(safe) THEN final[id]
                        ELSE IF id \in Postponed(safe)
                             THEN [orders[id] EXCEPT !.scheduled = orders[id].maxTime]
                        ELSE IF id \in Due(safe) THEN [orders[id] EXCEPT !.scheduled = 0]
                        ELSE orders[id]]
        /\ deadlines' = {d \in deadlines : d[1] > safe} \cup
                        {<<orders[id].maxTime, id>> : id \in Postponed(safe)}
        /\ events' = es
        /\ ResolveWaitingPairs(final)

\* FlushAtClose: everything pending is finalized whatever its time, every
\* order still open is closed with the session, and all state is dropped.
FlushAtClose ==
    LET safe == Max({0} \cup {orders[id].maxTime : id \in DOMAIN orders})
        final == Finalized(safe)
        open == {id \in DOMAIN orders : orders[id].confirmed}
        atClose(st) == [st EXCEPT !.canc = @ + st.rest, !.rest = 0]
        closing(st) == <<Event("Closed", "SessionClose", atClose(st))>>
    IN  /\ events' = [id \in Ids |->
                        IF id \in open THEN closing(orders[id])
                        ELSE IF id \notin Ready(safe) THEN <<>>
                        ELSE IF ClosedBy(FinalEvents(final[id])) THEN FinalEvents(final[id])
                        ELSE FinalEvents(final[id]) \o closing(final[id])]
        /\ pairs' = {AnsweredSlots(final)[i] : i \in AnsweredTokens(final)}
        /\ orders' = <<>> /\ deadlines' = {} /\ slots' = <<>> /\ free' = {} /\ waiters' = <<>>

InitBuilder ==
    /\ orders = <<>> /\ deadlines = {}
    /\ slots = <<>> /\ free = {} /\ waiters = <<>>
    /\ events = NoEvents /\ pairs = {}
=============================================================================
