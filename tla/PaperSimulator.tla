--------------------------- MODULE PaperSimulator ---------------------------
(***************************************************************************)
(* MarketPaperSimulator (python/.../execution/market_simulator.py) for one *)
(* instrument: orders in flight to a simulated venue, resting orders with  *)
(* a queue ahead of them, and the book that taker orders walk.             *)
(*                                                                         *)
(* The object is a record and each method an operator that returns the     *)
(* record after the call; "fills" are the fills of the call, in the order  *)
(* in which the fill sink receives them.  pending is the dictionary of     *)
(* orders in insertion order, which decides who reaches the book first.    *)
(* Prices and money are in cents, so a contract pays One.                  *)
(***************************************************************************)
EXTENDS Integers, Sequences, SequencesExt, FiniteSetsExt, Lists

CONSTANTS SubmitLatency, CancelLatency

ASSUME LatencyAssumption == SubmitLatency \in Nat /\ CancelLatency \in Nat

One == 100
Sides == {"YES", "NO"}
Live == {"OPEN", "PARTIALLY_FILLED"}
Never == -1                 \* no cancel under way

(* A level is a price between 0 and 1 and a quantity, as OrderBookLevel    *)
(* checks; the book of an instrument has two outcomes.                     *)
Level == [price : 0 .. One, quantity : Nat]
TopOfBook == [bids : Seq(Level), asks : Seq(Level)]
OrderBook == [known : BOOLEAN, YES : TopOfBook, NO : TopOfBook]

(* An order for one of the client order ids ids. *)
OrderIntent(ids) ==
    [id : ids, side : Sides, order_side : {"BUY", "SELL"}, price : 0 .. One,
     quantity : Nat, order_type : {"limit", "market", "post_only"},
     tif : {"GTC", "GTD", "IOC", "FOK"}, expires_at : Int]

NoBook == [known |-> FALSE, YES |-> [bids |-> <<>>, asks |-> <<>>],
                            NO  |-> [bids |-> <<>>, asks |-> <<>>]]

EmptySimulator ==
    [book |-> NoBook, status |-> "opened", pending |-> <<>>, fills |-> <<>>]

(* KalshiFeeModel.estimate: 7% of p(1-p) for a taker, 1.75% for a maker,   *)
(* rounded up to a cent.                                                   *)
fee(price, quantity, liquidity) ==
    LET raw == price * (One - price) * quantity
    IN  IF liquidity = "maker" THEN (175 * raw + 999999) \div 1000000
                               ELSE (7 * raw + 9999) \div 10000

opposite_levels(book, i) ==
    IF i.order_side = "BUY" THEN book[i.side].asks ELSE book[i.side].bids

same_side_levels(book, i) ==
    IF i.order_side = "BUY" THEN book[i.side].bids ELSE book[i.side].asks

(* FractionalQueueEstimator with its default fraction of 1. *)
queue_ahead(book, i) ==
    IF ~book.known
    THEN i.quantity
    ELSE LET levels == same_side_levels(book, i)
         IN  quantity_at(levels, {k \in DOMAIN levels : levels[k].price = i.price})

within_limit(i, price) ==
    \/ i.order_type = "market"
    \/ i.order_side = "BUY" /\ price <= i.price
    \/ i.order_side = "SELL" /\ price >= i.price

is_marketable(i, book) ==
    LET levels == opposite_levels(book, i)
    IN  /\ book.known
        /\ i.order_type # "post_only"
        /\ \/ i.order_type = "market"
           \/ levels # <<>> /\ within_limit(i, Head(levels).price)

-----------------------------------------------------------------------------
(* The dictionary of orders. *)

lookup(pending, c) == {k \in DOMAIN pending : pending[k].id = c}

put(pending, order) ==
    LET at == lookup(pending, order.id)
    IN  IF at = {} THEN Append(pending, order)
        ELSE [pending EXCEPT ![CHOOSE k \in at : TRUE] = order]

drop(pending, c) == keep(pending, {k \in DOMAIN pending : pending[k].id # c})

order_at(pending, c) == pending[CHOOSE k \in lookup(pending, c) : TRUE]

pending_order(i, submitted_at, effective_at, ahead, status, active) ==
    [id |-> i.id, intent |-> i, submitted_at |-> submitted_at,
     effective_at |-> effective_at, queue_ahead |-> ahead, filled |-> 0,
     status |-> status, active |-> active, cancel_at |-> Never]

a_fill(i, price, quantity, liquidity, filled_at) ==
    [id |-> i.id, side |-> i.side, order_side |-> i.order_side, price |-> price,
     quantity |-> quantity, liquidity |-> liquidity, filled_at |-> filled_at,
     fee |-> fee(price, quantity, liquidity)]

-----------------------------------------------------------------------------
(* Taker orders. *)

(* How many levels the order may walk. *)
reach(i, levels) ==
    Max({k \in 0 .. Len(levels) :
            \A j \in 1 .. k : within_limit(i, levels[j].price)})

marketable_quantity(i, levels) ==
    quantity_at(levels, 1 .. reach(i, levels))

(* What the order takes from each level, best level first. *)
taken(i, levels) ==
    [k \in DOMAIN levels |->
        IF k > reach(i, levels) THEN 0
        ELSE Min({levels[k].quantity,
                  Max({0, i.quantity - quantity_at(levels, 1 .. (k - 1))})})]

(* Mutant of debited: the book keeps what a taker has taken. *)
debited_not(book, i, take) == book

(* _with_opposite_levels_debited: only the ladder the order walked.  The   *)
(* other outcome's ladder may show the same offers; it stays as it was.    *)
debited(book, i, take) ==
    LET levels == opposite_levels(book, i)
        less == [k \in DOMAIN levels |->
                    [levels[k] EXCEPT !.quantity = @ - take[k]]]
        kept == keep(less, {k \in DOMAIN less : less[k].quantity > 0})
    IN  IF i.order_side = "BUY" THEN [book EXCEPT ![i.side].asks = kept]
                                ELSE [book EXCEPT ![i.side].bids = kept]

(* A limit order that is not IOC or FOK rests with its remainder; the      *)
(* remainder is a new order, on which no cancel is under way.              *)
fill_marketable(s, i, when) ==
    LET levels == opposite_levels(s.book, i)
        take == taken(i, levels)
        fills == [k \in DOMAIN levels |-> a_fill(i, levels[k].price, take[k], "taker", when)]
        got == keep(fills, {k \in DOMAIN fills : take[k] > 0})
        remaining == i.quantity - SumOver(take, DOMAIN take)
        book == debited(s.book, i, take)
        rest == [i EXCEPT !.quantity = remaining]
    IN  IF i.tif = "FOK" /\ marketable_quantity(i, levels) < i.quantity
        THEN s
        ELSE [s EXCEPT
                !.fills = @ \o got,
                !.book = book,
                !.pending =
                    IF remaining > 0 /\ i.order_type # "market"
                                     /\ i.tif \notin {"IOC", "FOK"}
                    THEN put(@, pending_order(rest, when, when,
                                    queue_ahead(book, rest),
                                    IF got # <<>> THEN "PARTIALLY_FILLED" ELSE "OPEN",
                                    TRUE))
                    ELSE @]

-----------------------------------------------------------------------------
(* Time: cancels that have arrived, orders that have arrived. *)

(* The live orders at the positions K are canceled. *)
cancel_orders(pending, K) ==
    [k \in DOMAIN pending |->
        IF pending[k].status \in Live /\ k \in K
        THEN [pending[k] EXCEPT !.status = "CANCELED", !.cancel_at = Never]
        ELSE pending[k]]

apply_due_controls(s, now) ==
    [s EXCEPT !.pending = cancel_orders(@, {k \in DOMAIN @ : @[k].cancel_at \in 0 .. now})]

in_flight(p) == ~p.active /\ p.status \in Live

activate(s, c) ==
    LET p == order_at(s.pending, c)
        i == p.intent
    IN  IF lookup(s.pending, c) = {}
        THEN s
        ELSE IF is_marketable(i, s.book)
        THEN fill_marketable([s EXCEPT !.pending = drop(@, c)], i, p.effective_at)
        ELSE [s EXCEPT !.pending = put(@,
                IF i.order_type = "market" \/ i.tif \in {"IOC", "FOK"}
                THEN [p EXCEPT !.status = "CANCELED"]
                ELSE [p EXCEPT !.queue_ahead = queue_ahead(s.book, i),
                               !.submitted_at = p.effective_at,
                               !.active = TRUE])]

activate_due_orders(s, now) ==
    LET due == keep(s.pending, {k \in DOMAIN s.pending :
                    in_flight(s.pending[k]) /\ s.pending[k].effective_at <= now})
    IN  FoldLeft(LAMBDA t, p : activate(t, p.id), s, due)

advance(s, now) == activate_due_orders(apply_due_controls(s, now), now)

(* Mutant of flush_inflight: only what is due first is flushed. *)
flush_inflight_once(s) ==
    LET times == {s.pending[k].effective_at :
                    k \in {j \in DOMAIN s.pending : in_flight(s.pending[j])}}
    IN  IF times = {} THEN [s EXCEPT !.fills = <<>>]
        ELSE advance([s EXCEPT !.fills = <<>>], Min(times))

(* flush_inflight: every control and every submit still under way, in the  *)
(* order of their times.                                                   *)
flush_inflight(s) ==
    LET live == {k \in DOMAIN s.pending : s.pending[k].status \in Live}
        times == {s.pending[k].effective_at : k \in {j \in live : ~s.pending[j].active}}
                   \cup ({s.pending[k].cancel_at : k \in live} \ {Never})
    IN  FoldLeft(advance, [s EXCEPT !.fills = <<>>],
                 by_rank(times, [t \in times |-> {u \in times : u < t}]))

-----------------------------------------------------------------------------
(* Market data. *)

(* _passive_fill_price: whether the trade can fill the resting order, which *)
(* then fills at its own price.  A trade on the order's side at another     *)
(* price falls through to the last case.                                   *)
passive_fill(t, i) ==
    LET same == t.side = i.side /\ i.price = t.price
        other == t.side \notin {i.side, "None"}
    IN  CASE same -> \/ t.aggressor = i.side /\ i.order_side = "SELL"
                     \/ t.aggressor \notin {i.side, "None"} /\ i.order_side = "BUY"
                     \/ t.aggressor = "None"
          [] other -> /\ i.price = One - t.price
                      /\ \/ t.aggressor = t.side /\ i.order_side = "BUY"
                         \/ t.aggressor = i.side /\ i.order_side = "SELL"
                         \/ t.aggressor = "None"
          [] OTHER -> i.price \in {t.price, One - t.price}

(* Mutant of volume_left: the volume of the queue ahead is traded twice. *)
volume_left_unburnt(volume, burn) == volume

volume_left(volume, burn) == volume - burn

(* One resting order meets what is left of the trade: the queue ahead of   *)
(* it burns first.  The loop changes an order on its own turn only, so     *)
(* what it finds is the order as it was when the trade came.               *)
meet(m, p, t, now) ==
    LET burn == Min({p.queue_ahead, m.volume})
        take == Min({p.intent.quantity - p.filled, volume_left(m.volume, burn)})
        filled == p.filled + take
    IN  IF /\ m.volume > 0
           /\ p.status \in Live /\ p.active
           /\ now >= p.effective_at
           /\ passive_fill(t, p.intent)
        THEN [volume |-> m.volume - burn - take,
              s |-> [m.s EXCEPT
                       !.fills = IF take = 0 THEN @
                                 ELSE Append(@, a_fill(p.intent, p.intent.price, take,
                                                  "maker", now)),
                       !.pending = put(@, [p EXCEPT
                           !.queue_ahead = @ - burn,
                           !.filled = filled,
                           !.status = IF take = 0 THEN @
                                      ELSE IF filled = p.intent.quantity THEN "FILLED"
                                      ELSE "PARTIALLY_FILLED"])]]
        ELSE m

(* _apply_trade: older orders first. *)
apply_trade(s, t, now) ==
    LET older(a, b) == \/ s.pending[a].submitted_at < s.pending[b].submitted_at
                       \/ s.pending[a].submitted_at = s.pending[b].submitted_at /\ a < b
        order == by_rank(DOMAIN s.pending,
                         [k \in DOMAIN s.pending |-> {j \in DOMAIN s.pending : older(j, k)}])
        step(m, k) == meet(m, s.pending[k], t, now)
    IN  FoldLeft(step, [volume |-> t.quantity, s |-> s], order).s

fresh(s) == [s EXCEPT !.fills = <<>>]

(* on_event, by the kind of the event. *)
on_book(s, book, now) ==
    IF s.book.known
    THEN [advance(fresh(s), now) EXCEPT !.book = book]
    ELSE activate_due_orders([apply_due_controls(fresh(s), now) EXCEPT !.book = book], now)

on_quote(s, now) == advance(fresh(s), now)

on_trade(s, t, now) == apply_trade(advance(fresh(s), now), t, now)

on_lifecycle(s, kind) ==
    IF kind = "metadata_updated" THEN fresh(s)
    ELSE [fresh(s) EXCEPT
            !.status = kind,
            !.pending = IF kind \in {"closed", "determined", "finalized"}
                        THEN cancel_orders(@, DOMAIN @)
                        ELSE @]
-----------------------------------------------------------------------------
(* Intents. *)

(* submit raises for these. *)
refuses_orders(s) ==
    s.status \in {"paused", "closed", "determined", "disputed", "finalized"}

submit(s, i, now) ==
    IF SubmitLatency > 0
    THEN [fresh(s) EXCEPT
            !.pending = put(@, pending_order(i, now, now + SubmitLatency, 0, "OPEN", FALSE))]
    ELSE IF is_marketable(i, s.book)
    THEN fill_marketable(fresh(s), i, now)
    ELSE [fresh(s) EXCEPT
            !.pending = put(@, pending_order(i, now, now, queue_ahead(s.book, i), "OPEN", TRUE))]

cancel(s, c, now) ==
    LET at == lookup(s.pending, c)
    IN  IF at = {} \/ \E k \in at : s.pending[k].status \notin Live
        THEN fresh(s)
        ELSE [fresh(s) EXCEPT
                !.pending = put(@, IF CancelLatency > 0
                    THEN [order_at(@, c) EXCEPT !.cancel_at = now + CancelLatency]
                    ELSE [order_at(@, c) EXCEPT !.status = "CANCELED"])]
=============================================================================
