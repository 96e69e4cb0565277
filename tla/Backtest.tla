------------------------------ MODULE Backtest ------------------------------
(***************************************************************************)
(* run_backtest (python/.../cli/backtest.py): stored market events, in     *)
(* time order, drive the paper simulator, the sleeve's account and the     *)
(* StrategyRunner (runner/base.py), whose decisions pass the risk gate,    *)
(* reserve cash and reach the simulator, at the time of the event.         *)
(*                                                                         *)
(* One event is one action: the simulator sees it first, its fills go      *)
(* into the account, then the account sees the event.  Every decision of   *)
(* the strategy on that event is an action of its own, so that a strategy  *)
(* may answer an event with any sequence of decisions.  The strategy       *)
(* itself is any strategy that gives every order a client order id of its  *)
(* own and trades one instrument.                                          *)
(*                                                                         *)
(* run_backtest feeds no order updates back, so the context's list of open *)
(* orders stays empty: max_open_orders cannot bind, and the gate refuses   *)
(* every ReplaceOrder with "replace_order_not_found".                      *)
(***************************************************************************)
EXTENDS PaperSimulator, SleeveAccount

CONSTANTS Intents,        \* the orders a strategy may place, without their id
          Books, Quotes, Trades, Lifecycles,      \* the stored events
          DayLength,
          MaxEvents, MaxTime,                     \* bounds of an instance
          MaxSkew                                 \* bound: exchange to receive time

(* An order whose fields OrderIntent accepts: a market order may leave its  *)
(* price open.                                                             *)
is_intent(i, ids) ==
    \/ i \in OrderIntent(ids)
    \/ /\ i.order_type = "market" /\ i.price = NoPrice
       /\ [i EXCEPT !.price = 0] \in OrderIntent(ids)

(* What OrderIntent, OrderBook, Quote and Trade check of themselves.       *)
ASSUME BacktestAssumption ==
    /\ IsFiniteSet(ClientOrderIds)
    /\ \A i \in Intents : is_intent(i, {"none"})
    /\ Books \subseteq {b \in OrderBook : b.known}
    /\ Quotes \subseteq [side : Sides, bids : Seq(Level), asks : Seq(Level)]
    /\ Trades \subseteq [side : Sides \cup {"None"}, price : 0 .. One,
                         quantity : Nat, aggressor : Sides \cup {"None"}]
    /\ Lifecycles \subseteq STRING
    /\ DayLength \in Nat \ {0} /\ MaxEvents \in Nat /\ MaxTime \in Nat
    /\ MaxSkew \in Nat

VARIABLES sim, acct, gate,
          state,          \* the runner's StrategyState, and how the run ended
          now,            \* the replay clock
          snapshot,       \* market evidence of the event being handled
          dispatched,     \* client order ids that have left the gate
          events,         \* events so far
          shown,          \* history: what the last book showed
          took,           \* history: what takers took of it
          joined,         \* history: queue ahead of each order when it came to rest
          printed         \* history: volume that could fill it since

vars == <<sim, acct, gate, state, now, snapshot, dispatched, events,
          shown, took, joined, printed>>
histories == <<shown, took, joined, printed>>

day(t) == t \div DayLength

NoShow == [s \in Sides |-> [b \in {"BUY", "SELL"} |-> 0]]

show(book) == [s \in Sides |-> [BUY |-> total_quantity(book[s].asks),
                                SELL |-> total_quantity(book[s].bids)]]

taker_volume(fills) ==
    [s \in Sides |-> [b \in {"BUY", "SELL"} |->
        quantity_at(fills, {k \in DOMAIN fills :
            /\ fills[k].liquidity = "taker"
            /\ fills[k].side = s /\ fills[k].order_side = b})]]

add(f, g) == [s \in Sides |-> [b \in {"BUY", "SELL"} |-> f[s][b] + g[s][b]]]

Init ==
    /\ sim = EmptySimulator
    /\ acct = NewAccount
    /\ gate = NewGate
    /\ state = "CREATED"
    /\ now = 0
    /\ snapshot = NoBook
    /\ dispatched = {}
    /\ events = 0
    /\ shown = NoShow /\ took = NoShow
    /\ joined = [c \in ClientOrderIds |-> 0]
    /\ printed = [c \in ClientOrderIds |-> 0]

(* The runner's start: through INITIALIZING and READY. *)
start ==
    /\ state = "CREATED"
    /\ state' = "RUNNING"
    /\ UNCHANGED <<sim, acct, gate, now, snapshot, dispatched, events, histories>>

-----------------------------------------------------------------------------
(* Events. *)

on_fills(a, fills) ==
    FoldLeft(LAMBDA b, f : on_fill(b, f, day(f.filled_at)), a, fills)

(* An event has two times.  The stored events come in the order of the one *)
(* the exchange gave them, which is the time the clock, the gate and the    *)
(* decisions go by (an event without one counts as exchanged when it was    *)
(* received); the simulator and the tracker go by the one they were         *)
(* received at, which may run behind it or ahead and go back and forth.     *)
arrivals(t) == {r \in 0 .. MaxTime : r - t \in -MaxSkew .. MaxSkew}

(* The evidence a decision on an event carries: the book it shows, if the   *)
(* event is timely and has an exchange time and a sequence number with no   *)
(* gap before it, which it may lack.                                       *)
evidence(book, t, r) == {NoBook} \cup {b \in {book} : is_timely(r, t)}

(* The loop of _TeeSource and run: the clock, the simulator, the context.  *)
stream(t, s, a, snapshots) ==
    /\ state = "RUNNING"
    /\ events < MaxEvents
    /\ t \in now .. MaxTime
    /\ events' = events + 1
    /\ now' = t
    /\ sim' = s
    /\ acct' = a
    /\ snapshot' \in snapshots
    /\ UNCHANGED <<gate, state, dispatched>>

(* Orders that came to rest between two states of the simulator. *)
resting(s) == {c \in ClientOrderIds :
                 \E k \in lookup(s.pending, c) : s.pending[k].active}

note_rests(s) ==
    /\ joined' = [c \in ClientOrderIds |->
                    IF c \in resting(s) \ resting(sim)
                    THEN order_at(s.pending, c).queue_ahead ELSE joined[c]]
    /\ UNCHANGED printed

book_event(t, r, book) ==
    LET s == on_book(sim, book, r)
    IN  /\ stream(t, s, on_fills(acct, s.fills), evidence(book, t, r))
        /\ shown' = show(book)
        /\ took' = IF sim.book.known THEN NoShow ELSE taker_volume(s.fills)
        /\ note_rests(s)

flip(level) == [level EXCEPT !.price = One - @]

(* market_snapshot_from_quote_event: the other side is the complement. *)
quote_snapshot(q) ==
    LET other == CHOOSE s \in Sides : s # q.side
    IN  [NoBook EXCEPT !.known = TRUE,
                       ![q.side] = [bids |-> q.bids, asks |-> q.asks],
                       ![other] = [bids |-> [k \in DOMAIN q.asks |-> flip(q.asks[k])],
                                   asks |-> [k \in DOMAIN q.bids |-> flip(q.bids[k])]]]

quote_event(t, r, q) ==
    LET s == on_quote(sim, r)
        price(levels) == IF levels = <<>> THEN NoMark ELSE Head(levels).price
        a == on_fills(acct, s.fills)
    IN  /\ stream(t, s, mark_quote(a, q.side, price(q.bids), price(q.asks), day(r)),
                  evidence(quote_snapshot(q), t, r))
        /\ took' = add(took, taker_volume(s.fills))
        /\ UNCHANGED shown
        /\ note_rests(s)

trade_event(t, r, tr) ==
    LET mid == advance(fresh(sim), r)
        s == on_trade(sim, tr, r)
        here == {c \in resting(mid) :
                    LET p == order_at(mid.pending, c)
                    IN  p.effective_at <= r /\ passive_fill(tr, p.intent)}
    IN  /\ stream(t, s, on_fills(acct, s.fills), {NoBook})
        /\ took' = add(took, taker_volume(s.fills))
        /\ UNCHANGED shown
        /\ joined' = [c \in ClientOrderIds |->
                        IF c \in resting(mid) \ resting(sim)
                        THEN order_at(mid.pending, c).queue_ahead ELSE joined[c]]
        /\ printed' = [c \in ClientOrderIds |->
                        printed[c] + (IF c \in here THEN tr.quantity ELSE 0)]

lifecycle_event(t, kind) ==
    /\ stream(t, on_lifecycle(sim, kind), acct, {NoBook})
    /\ UNCHANGED histories

settlement_event(t, resolved) ==
    /\ stream(t, fresh(sim),
              IF resolved = "None" THEN acct ELSE settle(acct, resolved, One, day(t)),
              {NoBook})
    /\ UNCHANGED histories

-----------------------------------------------------------------------------
(* process_event, decision by decision. *)

deciding == state = "RUNNING" /\ events > 0

place_order(o) ==
    /\ deciding
    /\ o.id \notin dispatched
    /\ allows(gate, acct, o, snapshot, now, day(now))
    /\ ~cannot_reserve(acct, o)
    /\ dispatched' = dispatched \cup {o.id}
    /\ gate' = gate_after(gate, acct, day(now))
    /\ UNCHANGED <<now, snapshot, events, shown>>
    /\ IF refuses_orders(sim)
       THEN \* submit raises out of run, whose finally stops the runner
            /\ state' = "ABORTED"
            /\ acct' = reserve(acct, o)
            /\ UNCHANGED <<sim, took, joined, printed>>
       ELSE LET s == submit(sim, o, now)
            IN  /\ sim' = s
                /\ acct' = on_fills(reserve(acct, o), s.fills)
                /\ took' = add(took, taker_volume(s.fills))
                /\ note_rests(s)
                /\ UNCHANGED state

(* The order a strategy makes of an intent: expiry times count from now. *)
an_order(i, c) == [i EXCEPT !.id = c,
                            !.expires_at = IF @ = NoExpiry THEN NoExpiry ELSE now + @]

(* A refused order leaves its mark on the gate only; nothing changes when  *)
(* the reservation is what fails.                                          *)
reject_order(o) ==
    /\ deciding
    /\ o.id \notin dispatched
    /\ ~allows(gate, acct, o, snapshot, now, day(now)) \/ cannot_reserve(acct, o)
    /\ gate' = gate_after(gate, acct, day(now))
    /\ gate' # gate
    /\ UNCHANGED <<sim, acct, state, now, snapshot, dispatched, events, histories>>

cancel_order(c) ==
    /\ deciding
    /\ c \in dispatched
    /\ ~gate.killed
    /\ sim' = cancel(sim, c, now)
    /\ UNCHANGED <<acct, gate, state, now, snapshot, dispatched, events, histories>>

(* The stream is over: the runner stops, and what is in flight is flushed. *)
finish ==
    LET s == flush_inflight(sim)
    IN  /\ state = "RUNNING"
        /\ state' = "DISPOSED"
        /\ sim' = s
        /\ acct' = on_fills(acct, s.fills)
        /\ took' = add(took, taker_volume(s.fills))
        /\ note_rests(s)
        /\ UNCHANGED <<gate, now, snapshot, dispatched, events, shown>>

Next ==
    \/ start
    \/ \E t \in now .. MaxTime :
          \/ \E r \in arrivals(t) :
                \/ \E b \in Books : book_event(t, r, b)
                \/ \E q \in Quotes : quote_event(t, r, q)
                \/ \E tr \in Trades : trade_event(t, r, tr)
          \/ \E k \in Lifecycles : lifecycle_event(t, k)
          \/ \E r \in Sides \cup {"None"} : settlement_event(t, r)
    \/ \E c \in ClientOrderIds, i \in Intents :
          LET o == an_order(i, c)
          IN  place_order(o) \/ reject_order(o)
    \/ \E c \in ClientOrderIds : cancel_order(c)
    \/ finish

Spec == Init /\ [][Next]_vars
-----------------------------------------------------------------------------
(* The state of the run has the shape the code gives it, and no balance,   *)
(* position or queue is negative.                                          *)
BacktestTypeOK ==
    /\ state \in {"CREATED", "RUNNING", "DISPOSED", "ABORTED"}
    /\ now \in 0 .. MaxTime
    /\ dispatched \subseteq ClientOrderIds
    /\ acct.total >= 0 /\ acct.available >= 0 /\ acct.held >= 0
    /\ \A s \in Outcomes : acct.quantity[s] >= 0 /\ acct.cost[s] >= 0
    /\ \A c \in ClientOrderIds : acct.reserved[c] >= 0
    /\ \A k \in DOMAIN sim.pending :
          LET p == sim.pending[k]
          IN  p.queue_ahead >= 0 /\ p.filled \in 0 .. p.intent.quantity

(* What takers took of a ladder of the book (the asks or the bids of one    *)
(* outcome) and what is left of it are what the book event showed of it:   *)
(* _with_opposite_levels_debited keeps several orders from being filled by *)
(* the same level, across submits, activations after a latency and the     *)
(* final flush.  It is silent about the ladder that mirrors this one: the  *)
(* asks of an outcome are the bids of the other (_book_from_ladders), the  *)
(* code debits only the ladder it walked, and a buy of the one and a sale  *)
(* to the other do take the same contracts.                                *)
LiquidityNotReused ==
    sim.book.known =>
        \A s \in Sides, b \in {"BUY", "SELL"} :
            took[s][b] + show(sim.book)[s][b] = shown[s][b]

(* A resting order is filled only by volume beyond the queue that was      *)
(* ahead of it when it came to rest (_apply_trade burns the queue first,   *)
(* and one trade's volume is shared by the orders it reaches).             *)
QueueRespected ==
    \A c \in resting(sim) :
        order_at(sim.pending, c).filled <= Floor0(printed[c] - joined[c])

(* _reserve, _consume_reservation and _apply_fill_cash keep the balance    *)
(* split in two: what is held is the sum of the reservations, and what is  *)
(* held and what is available make up the total, up to what was lost when  *)
(* a negative balance was cut off at zero.  This is so as long as market   *)
(* orders are not allowed: one can pay more than its reserved notional.    *)
CashPartition ==
    /\ acct.held = SumOver(acct.reserved, ClientOrderIds)
    /\ acct.available - acct.cut_available + acct.held = acct.total - acct.cut_total

(* Every buy that can still fill has the cash for its remainder reserved,  *)
(* however it was split between taker fills, resting and the queue.        *)
LiveBuysFunded ==
    \A k \in DOMAIN sim.pending :
        LET p == sim.pending[k]
        IN  p.status \in Live /\ p.intent.order_side = "BUY" =>
                acct.reserved[p.id] >= p.intent.price * (p.intent.quantity - p.filled)

(* Cash and P&L are kept by two classes from the same fills.  Cash is what *)
(* the books say it is: the start, plus realized P&L, less what positions  *)
(* cost, except for settlement payouts (never credited), sales beyond the  *)
(* position and cut-off balances.                                          *)
CashMatchesBooks ==
    acct.total = StartingCash + acct.realized - gross_exposure(acct)
                   - acct.uncredited + acct.oversold + acct.cut_total

(* flush_inflight leaves no submit in flight: every dispatched order of a  *)
(* finished run has met the book or rests.                                 *)
FlushResolvesInflight ==
    state = "DISPOSED" =>
        \A k \in DOMAIN sim.pending : ~in_flight(sim.pending[k])
=============================================================================
