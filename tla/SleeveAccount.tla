---------------------------- MODULE SleeveAccount ----------------------------
(***************************************************************************)
(* What a paper sleeve knows about its money: the cash and reservations of *)
(* StatefulContextProvider (python/.../runner/context.py), the positions   *)
(* and P&L of PnLTracker (execution/pnl.py) with its DailyLossLedger       *)
(* (risk/state.py), and the gate SleeveRiskGate (risk/policy.py, limits.py)*)
(* that reads them before an order leaves.                                 *)
(*                                                                         *)
(* As in PaperSimulator, objects are records and methods operators.  A     *)
(* position is its quantity and its cost, quantity times average_price.    *)
(* Four fields are history, for the books to be compared with the cash:    *)
(* settlement payouts that cash never saw (uncredited), the proceeds of    *)
(* sales beyond the position (oversold), and what was lost of a negative   *)
(* balance when it was cut off at zero (cut_total, cut_available).         *)
(***************************************************************************)
EXTENDS Integers, Sequences, FiniteSetsExt, Sums

CONSTANTS ClientOrderIds,
          StartingCash,
          MaxOrderNotional, MaxPositionNotional, MaxGrossExposure,  \* RiskProfile
          MaxDailyLoss, MaxSpread, MaxOrderLifetime, MaxMarketDataAge,
          AllowMarketOrders, AllowUnboundedGtc,
          Days                       \* bound: the UTC days of a run

ASSUME AccountAssumption ==
    /\ StartingCash \in Nat /\ MaxOrderNotional \in Nat
    /\ MaxPositionNotional \in Nat /\ MaxGrossExposure \in Nat
    /\ MaxDailyLoss \in Nat /\ MaxSpread \in Nat /\ MaxOrderLifetime \in Nat
    /\ MaxMarketDataAge \in Nat
    /\ AllowMarketOrders \in BOOLEAN /\ AllowUnboundedGtc \in BOOLEAN

Outcomes == {"YES", "NO"}
NoMark == -1

NewAccount ==
    [total |-> StartingCash, available |-> StartingCash, held |-> 0,
     reserved |-> [c \in ClientOrderIds |-> 0],
     opened |-> {}, quantity |-> [s \in Outcomes |-> 0],
     cost |-> [s \in Outcomes |-> 0], mark |-> [s \in Outcomes |-> NoMark],
     realized |-> 0, net_pnl |-> [d \in Days |-> 0],
     unrealized |-> [d \in Days |-> 0],
     uncredited |-> 0, oversold |-> 0, cut_total |-> 0, cut_available |-> 0]

gross_exposure(a) == a.cost["YES"] + a.cost["NO"]

Floor0(n) == Max({n, 0})

-----------------------------------------------------------------------------
(* Reservations. *)

notional(o) == o.price * o.quantity

needs_reservation(a, o) ==
    o.order_side = "BUY" /\ a.reserved[o.id] = 0 /\ notional(o) > 0

(* reserve_intent refuses with "available_cash". *)
cannot_reserve(a, o) == needs_reservation(a, o) /\ a.available < notional(o)

(* Mutant of reserve: the hold is not taken from what is available. *)
reserve_without_charge(a, o) ==
    IF ~needs_reservation(a, o) THEN a
    ELSE [a EXCEPT !.reserved[o.id] = notional(o), !.held = @ + notional(o)]

reserve(a, o) ==
    IF ~needs_reservation(a, o) THEN a
    ELSE [a EXCEPT !.reserved[o.id] = notional(o),
                   !.available = @ - notional(o),
                   !.held = @ + notional(o)]

(* Mutant of consume_reservation: the first fill ends the reservation. *)
consume_reservation_whole(a, c, amount) ==
    [a EXCEPT !.reserved[c] = 0, !.held = Floor0(@ - a.reserved[c]),
              !.available = @ + Floor0(a.reserved[c] - amount)]

consume_reservation(a, c, amount) ==
    LET consumed == Min({a.reserved[c], amount})
    IN  [a EXCEPT !.reserved[c] = @ - consumed, !.held = Floor0(@ - consumed)]

-----------------------------------------------------------------------------
(* Fills. *)

(* Mutant of apply_fill_cash: balances are not cut off at zero. *)
apply_fill_cash_uncut(a, f) ==
    LET amount == f.price * f.quantity
        b == IF f.order_side = "BUY" THEN consume_reservation(a, f.id, amount) ELSE a
    IN  IF f.order_side = "BUY"
        THEN [b EXCEPT !.total = @ - amount - f.fee, !.available = @ - f.fee]
        ELSE [b EXCEPT !.total = @ + amount - f.fee, !.available = @ + amount - f.fee]

(* _apply_fill_cash *)
apply_fill_cash(a, f) ==
    LET amount == f.price * f.quantity
        buy == f.order_side = "BUY"
        covered == buy /\ Min({a.reserved[f.id], amount}) > 0
        b == IF buy THEN consume_reservation(a, f.id, amount) ELSE a
        delta == IF buy THEN -(amount + f.fee) ELSE amount - f.fee
        available_delta == IF covered THEN -f.fee ELSE delta
    IN  [b EXCEPT !.total = Floor0(@ + delta),
                  !.available = Floor0(@ + available_delta),
                  !.cut_total = @ + Floor0(-(b.total + delta)),
                  !.cut_available = @ + Floor0(-(b.available + available_delta))]

record_realized_pnl(a, pnl, day) == [a EXCEPT !.net_pnl[day] = @ + pnl]

(* Mutant of track_fill: a second buy replaces the position's cost. *)
track_fill_replacing(a, f, day) ==
    IF f.order_side = "BUY"
    THEN [record_realized_pnl(a, -f.fee, day) EXCEPT
            !.opened = @ \cup {f.side}, !.realized = @ - f.fee,
            !.quantity[f.side] = @ + f.quantity,
            !.cost[f.side] = f.price * f.quantity]
    ELSE a

(* PnLTracker.on_fill.  A sale closes at most the position. *)
track_fill(a, f, day) ==
    LET s == f.side
        closed == Min({a.quantity[s], f.quantity})
        basis == IF closed = 0 THEN 0 ELSE (a.cost[s] * closed) \div a.quantity[s]
        pnl == IF f.order_side = "BUY" THEN -f.fee
               ELSE f.price * closed - basis - f.fee
        b == record_realized_pnl(a, pnl, day)
    IN  IF f.order_side = "BUY"
        THEN [b EXCEPT !.opened = @ \cup {s}, !.realized = @ + pnl,
                       !.quantity[s] = @ + f.quantity,
                       !.cost[s] = @ + f.price * f.quantity]
        ELSE [b EXCEPT !.opened = @ \cup {s}, !.realized = @ + pnl,
                       !.quantity[s] = @ - closed,
                       !.cost[s] = @ - basis,
                       !.oversold = @ + f.price * (f.quantity - closed)]

on_fill(a, f, day) == apply_fill_cash(track_fill(a, f, day), f)

-----------------------------------------------------------------------------
(* Market events. *)

unrealized_pnl(a) ==
    SumOver([s \in Outcomes |-> a.mark[s] * a.quantity[s] - a.cost[s]],
            {s \in Outcomes : a.quantity[s] > 0 /\ a.mark[s] # NoMark})

(* PnLTracker.on_event on a quote of side s: the liquidation mark is the   *)
(* bid, or the ask when there is no bid.                                   *)
mark_quote(a, s, bid, ask, day) ==
    LET mark == IF bid # NoMark THEN bid ELSE ask
        b == [a EXCEPT !.mark[s] = mark]
    IN  IF s \notin a.opened THEN a
        ELSE [b EXCEPT !.unrealized[day] = unrealized_pnl(b)]

(* on_settlement: the result is realized in the P&L; cash is not touched. *)
settle(a, resolved, payout, day) ==
    LET held == {s \in Outcomes : a.quantity[s] > 0}
        value == [s \in Outcomes |-> IF s = resolved THEN payout * a.quantity[s] ELSE 0]
        pnl == SumOver([s \in Outcomes |-> value[s] - a.cost[s]], held)
        b == record_realized_pnl(a, pnl, day)
    IN  [b EXCEPT !.realized = @ + pnl,
                  !.quantity = [s \in Outcomes |-> 0],
                  !.cost = [s \in Outcomes |-> 0],
                  !.uncredited = @ + SumOver(value, held)]

-----------------------------------------------------------------------------
(* SleeveRiskGate.  The intents carry no fair price, for which             *)
(* check_fee_adjusted_edge is inert.                                       *)

NewGate == [killed |-> FALSE, halted |-> FALSE]

loss_for(a, day) == Floor0(-a.net_pnl[day])
total_loss_for(a, day) == loss_for(a, day) + Floor0(-a.unrealized[day])

(* check_execution_bounds; expires_at is NoExpiry or a time, and only a      *)
(* market order may come without a price.                                  *)
NoExpiry == -1
NoPrice == -1
within_bounds(o, now) ==
    /\ o.order_type = "market" => AllowMarketOrders /\ o.price # NoPrice
    /\ o.tif = "GTC" => o.expires_at # NoExpiry \/ AllowUnboundedGtc
    /\ o.tif = "GTD" => o.expires_at # NoExpiry
    /\ o.expires_at # NoExpiry => o.expires_at - now \in 1 .. MaxOrderLifetime

(* check_market_snapshot, on when the evidence was received: no later than  *)
(* the decision was made (market_snapshot_from_future), nor long before.    *)
is_timely(received_at, when) == when - received_at \in 0 .. MaxMarketDataAge

(* check_market_snapshot, on the top of the book it shows. *)
has_evidence(o, snapshot) ==
    LET top == snapshot[o.side]
        depth == IF o.order_side = "BUY" THEN Head(top.asks) ELSE Head(top.bids)
        executable == \/ o.order_type = "market"
                      \/ o.order_side = "BUY" /\ o.price >= depth.price
                      \/ o.order_side = "SELL" /\ o.price <= depth.price
    IN  /\ snapshot.known
        /\ top.bids # <<>> /\ top.asks # <<>>
        /\ Head(top.asks).price - Head(top.bids).price \in 0 .. MaxSpread
        /\ executable => o.quantity <= depth.quantity

(* check_position_notional *)
projected_position(a, o) ==
    LET held == a.quantity[o.side]
        projected == IF o.order_side = "BUY" THEN held + o.quantity
                     ELSE Floor0(held - o.quantity)
    IN  IF held > 0 THEN (projected * a.cost[o.side]) \div held
                    ELSE projected * o.price

(* check_order_notional, check_position_notional, check_gross_exposure,    *)
(* check_available_cash: the last two bind buys only.                      *)
within_limits(a, o) ==
    /\ notional(o) <= MaxOrderNotional
    /\ projected_position(a, o) <= MaxPositionNotional
    /\ o.order_side = "BUY" =>
          /\ gross_exposure(a) + notional(o) <= MaxGrossExposure
          /\ notional(o) <= a.available

(* DrawdownHalt.update, clearing below 80% of the limit. *)
drawdown_halt(halted, drawdown) ==
    CASE MaxDailyLoss = 0 -> FALSE
      [] drawdown >= MaxDailyLoss -> TRUE
      [] 10 * drawdown < 8 * MaxDailyLoss -> FALSE
      [] OTHER -> halted

(* The gate after it has looked at a place order: a realized loss at the   *)
(* limit trips the kill switch whatever else is wrong with the order.      *)
gate_after(g, a, day) ==
    IF g.killed THEN g
    ELSE [killed |-> MaxDailyLoss > 0 /\ loss_for(a, day) >= MaxDailyLoss,
          halted |-> drawdown_halt(g.halted, total_loss_for(a, day))]

allows(g, a, o, snapshot, now, day) ==
    /\ ~g.killed
    /\ within_bounds(o, now)
    /\ has_evidence(o, snapshot)
    /\ within_limits(a, o)
    /\ ~(MaxDailyLoss > 0 /\ loss_for(a, day) >= MaxDailyLoss)
    /\ o.order_side = "BUY" => ~gate_after(g, a, day).halted
=============================================================================
