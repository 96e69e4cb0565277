------------------------------ MODULE Gateway ------------------------------
(***************************************************************************)
(* The order path of DryRunGateway (rust/crates/gateway/src/lib.rs) over   *)
(* the order store of module Oms, driven by the single-threaded loop of    *)
(* rust/crates/live-runner/src/main.rs, with the venue on the other side   *)
(* of a REST call and of two WebSocket channels.                           *)
(*                                                                         *)
(* Interleaving.  The loop owns the gateway: while process_one_async       *)
(* awaits a submit no other handler runs, but the venue moves on and its   *)
(* messages queue up.  A submit that fails or times out locally may still  *)
(* reach the venue.  Order updates and fills come on separate channels, so *)
(* either may overtake the other, a fill may be redelivered, and a         *)
(* reconnect drops whatever was queued.                                    *)
(*                                                                         *)
(* Data.  Every client order id has fixed Terms.  A market is unknown,     *)
(* tradable or suspended (MarketState::is_tradable); a quote is when it    *)
(* was recorded and whether it left an executable BBO.  The checks that    *)
(* compare amounts (notional, cash, loss, edge, portfolio, collar) only    *)
(* ever refuse an intent; here they are the free choice of refuse_place.   *)
(* Orders and strategy cancels carry correlation ids that never repeat, so *)
(* the idempotency store only ever drops the synthetic cancel of an order  *)
(* whose synthetic cancel was sent earlier in the same second.             *)
(***************************************************************************)
EXTENDS Oms, Integers, Sequences

CONSTANTS Instruments,
          Terms,                 \* order id -> instrument, side, price, quantity
          RequireMarketState,    \* require_market_state: set by --live-submit
          MaxOpenOrders,         \* RiskLimits.max_open_orders
          MaxQuoteAge,           \* max_market_data_age_secs, max_quote_age_secs
          MaxOrdersPerSecond,    \* RateBudget
          MaxCancelsPerSecond,
          VenueStatuses,         \* the order statuses the venue uses
          MaxTime,               \* bound: the wall clock
          MaxRedeliveries,       \* bound: fills sent again
          MaxLifecycleEvents     \* bound: market lifecycle events

UpdateStatuses == {"resting", "partially_filled", "filled", "executed",
                   "canceled", "rejected", "expired"}

TermsSet == [instrument : Instruments, side : {"Buy", "Sell"},
             price : Nat, quantity : Nat]

ASSUME TermsAssumption == Terms \in [ClientOrderIds -> TermsSet]
ASSUME LimitsAssumption ==
    /\ RequireMarketState \in BOOLEAN
    /\ MaxOpenOrders \in Nat /\ MaxQuoteAge \in Nat
    /\ MaxOrdersPerSecond \in Nat /\ MaxCancelsPerSecond \in Nat
ASSUME StatusesAssumption == VenueStatuses \subseteq UpdateStatuses
ASSUME GatewayBoundsAssumption ==
    MaxTime \in Nat /\ MaxRedeliveries \in Nat /\ MaxLifecycleEvents \in Nat

VARIABLES
    (* DryRunGateway *)
    sleeve_open_orders,   \* SleeveState.open_orders
    positions,            \* SleeveState.positions, net contracts per instrument
    market_state,         \* instrument -> "None", "Tradable" or "Suspended"
    quote,                \* instrument -> the market data cached for it
    orders_this_second,   \* RateBudget.order_timestamps
    cancels_this_second,  \* RateBudget.cancel_timestamps
    now,                  \* wall clock, in seconds
    (* live runner *)
    in_flight,            \* the order whose submit is being awaited, as a set
    exited,               \* the loop returned an error
    (* venue *)
    wire,                 \* submits the venue may still receive
    venue_orders,         \* order id -> "none", "live", "refused" or "done"
    venue_fills,          \* <<order id, fill id>> pairs executed
    order_feed,           \* order updates not yet read
    fill_feed,            \* fills not yet read
    (* history and bounds *)
    redeliveries, lifecycle_events,
    disconnected,         \* a reconnect dropped messages
    quoted_since_halt,    \* instruments quoted since their market was last suspended
    cancels_sent          \* orders a cancel was sent for

gatewayOnly == <<sleeve_open_orders, positions, market_state, quote,
                 orders_this_second, cancels_this_second, now>>
runnerOnly == <<in_flight, exited>>
venueOnly == <<wire, venue_orders, venue_fills, order_feed, fill_feed>>
history == <<redeliveries, lifecycle_events, disconnected, quoted_since_halt, cancels_sent>>
gatewayVars == <<omsVars, gatewayOnly, runnerOnly, venueOnly, history>>

NoQuote == [at |-> 0, seen |-> FALSE, bbo |-> FALSE]

signed(c, q) == IF Terms[c].side = "Buy" THEN q ELSE -q

(* The loop is between two events. *)
Idle == in_flight = {} /\ ~exited

GatewayInit ==
    /\ Init
    /\ sleeve_open_orders = 0
    /\ positions = [i \in Instruments |-> 0]
    /\ market_state = [i \in Instruments |-> "None"]
    /\ quote = [i \in Instruments |-> NoQuote]
    /\ orders_this_second = 0 /\ cancels_this_second = 0
    /\ now = 0
    /\ in_flight = {} /\ exited = FALSE
    /\ wire = {}
    /\ venue_orders = [c \in ClientOrderIds |-> "none"]
    /\ venue_fills = {}
    /\ order_feed = <<>> /\ fill_feed = <<>>
    /\ redeliveries = 0 /\ lifecycle_events = 0 /\ disconnected = FALSE
    /\ quoted_since_halt = {} /\ cancels_sent = {}
-----------------------------------------------------------------------------
(* prepare_one, finalize_place: placing an order. *)

(* risk.evaluate: some observation of the book, not too old. *)
market_data_fresh(i) == quote[i].seen /\ now - quote[i].at <= MaxQuoteAge

(* Mutant of open_orders_allowed: the count forgets the order itself. *)
open_orders_allowed_off_by_one == sleeve_open_orders <= MaxOpenOrders

(* risk.evaluate: room for one more order. *)
open_orders_allowed == sleeve_open_orders + 1 <= MaxOpenOrders

(* last_look_check: the last observation left an executable BBO. *)
last_look_check(i) == quote[i].bbo /\ market_data_fresh(i)

(* An own open order on the other side that the incoming one would trade   *)
(* against.                                                                *)
crosses(c, d) ==
    /\ Terms[c].instrument = Terms[d].instrument
    /\ Terms[c].side # Terms[d].side
    /\ IF Terms[c].side = "Buy" THEN Terms[c].price >= Terms[d].price
                                ELSE Terms[c].price <= Terms[d].price

(* Mutant of self_cross_clear: only acknowledged orders are looked at. *)
self_cross_clear_acked(c) ==
    \A d \in open_orders : orders[d].state = "Acked" => ~crosses(c, d)

self_cross_clear(c) == \A d \in open_orders : ~crosses(c, d)

(* Every check between the rate budget and the order store. *)
admitted(c) ==
    LET i == Terms[c].instrument
    IN  /\ market_state[i] # "Suspended"
        /\ RequireMarketState => market_state[i] # "None"
        /\ market_data_fresh(i)
        /\ open_orders_allowed
        /\ self_cross_clear(c)
        /\ last_look_check(i)

(* prepare_one on a PlaceOrder that passes: open_order, then the move to   *)
(* Submitted, then the submit leaves for the venue.                        *)
place(c) ==
    /\ Idle
    /\ orders_this_second < MaxOrdersPerSecond
    /\ admitted(c)
    /\ ~known(c)
    /\ orders' = [orders EXCEPT ![c] = Moved(NewOrder(Terms[c].quantity), "Submitted", 0)]
    /\ open_count' = open_count + 1
    /\ orders_this_second' = orders_this_second + 1
    /\ in_flight' = {c}
    /\ wire' = wire \union {c}
    /\ UNCHANGED <<applied_fills, sleeve_open_orders, positions, market_state, quote,
                   cancels_this_second, now, exited, venue_orders,
                   venue_fills, order_feed, fill_feed, history>>

(* prepare_one on a PlaceOrder refused by any check, open_order's          *)
(* DuplicateOrder included: the rate budget is spent all the same.         *)
refuse_place ==
    /\ Idle
    /\ orders_this_second < MaxOrdersPerSecond
    /\ orders_this_second' = orders_this_second + 1
    /\ UNCHANGED <<omsVars, sleeve_open_orders, positions, market_state, quote,
                   cancels_this_second, now, runnerOnly, venueOnly, history>>

(* Mutant of sync_runtime_state: the count is kept by hand, and an order   *)
(* whose submit failed is not counted.                                     *)
sync_runtime_state_forgetful ==
    sleeve_open_orders' = Cardinality({c \in ClientOrderIds :
        orders'[c] # NoOrder /\ orders'[c].state \in {"Submitted", "Acked", "PartiallyFilled"}})

(* sync_runtime_state: the count risk reads is the order store's. *)
sync_runtime_state == sleeve_open_orders' = open_count'

Finalized == /\ in_flight' = {}
             /\ UNCHANGED <<positions, market_state, quote, orders_this_second,
                            cancels_this_second, now, exited,
                            venueOnly, history>>

(* finalize_place on an accepted ack, which may or may not carry the       *)
(* venue's id.  A 2xx says that the request was received, not what became  *)
(* of the order: the venue may still have to read it, or refuse it.        *)
finalize_accepted(c) ==
    /\ in_flight = {c}
    /\ \/ set_venue_order_id(c)
       \/ UNCHANGED omsVars
    /\ sync_runtime_state
    /\ Finalized

(* finalize_place on an ack that is not accepted. *)
finalize_rejected(c) ==
    /\ in_flight = {c}
    /\ venue_orders[c] = "refused"
    /\ transition(c, "Rejected")
    /\ sync_runtime_state
    /\ Finalized

(* Mutant of finalize_unknown: a failed submit is taken for a rejection. *)
finalize_unknown_as_rejected(c) ==
    /\ in_flight = {c}
    /\ transition(c, "Rejected")
    /\ sync_runtime_state
    /\ Finalized

(* finalize_place on Err: a timeout, a 4xx or a transport error, whatever  *)
(* the venue made of the request.                                          *)
finalize_unknown(c) ==
    /\ in_flight = {c}
    /\ transition(c, "SubmitUnknown")
    /\ sync_runtime_state
    /\ Finalized
-----------------------------------------------------------------------------
(* Cancels and the market lifecycle. *)

(* Mutant of cancel: the rate budget is one off. *)
cancel_off_by_one(c) ==
    /\ Idle
    /\ known(c)
    /\ cancels_this_second <= MaxCancelsPerSecond
    /\ cancels_this_second' = cancels_this_second + 1
    /\ cancels_sent' = cancels_sent \union {c}
    /\ UNCHANGED <<omsVars, sleeve_open_orders, positions, market_state, quote,
                   orders_this_second, now, runnerOnly, venueOnly,
                   redeliveries, lifecycle_events, disconnected, quoted_since_halt>>

(* prepare_one on a strategy's CancelOrder.  The store changes only when   *)
(* the venue confirms on its order channel.  A strategy only names orders   *)
(* it has placed: known(c) restricts the input, not the handler.            *)
cancel(c) ==
    /\ Idle
    /\ known(c)
    /\ cancels_this_second < MaxCancelsPerSecond
    /\ cancels_this_second' = cancels_this_second + 1
    /\ cancels_sent' = cancels_sent \union {c}
    /\ UNCHANGED <<omsVars, sleeve_open_orders, positions, market_state, quote,
                   orders_this_second, now, runnerOnly, venueOnly,
                   redeliveries, lifecycle_events, disconnected, quoted_since_halt>>

open_on(i) == {c \in open_orders : Terms[c].instrument = i}

LifecycleEvent(i) ==
    /\ Idle
    /\ lifecycle_events < MaxLifecycleEvents
    /\ lifecycle_events' = lifecycle_events + 1
    /\ quoted_since_halt' = IF market_state[i] = "Suspended" \/ market_state'[i] = "Suspended"
                              THEN quoted_since_halt \ {i} ELSE quoted_since_halt
    /\ UNCHANGED <<omsVars, sleeve_open_orders, positions, orders_this_second, now,
                   runnerOnly, venueOnly, redeliveries, disconnected>>

(* apply_market_state into a state that is not tradable: a cancel is       *)
(* enqueued for every open order of the market and the batch is drained at *)
(* once.  The rate budget drops the cancels it has no room for; the        *)
(* idempotency store then drops those already sent this second.            *)
suspend_market(i) ==
    /\ market_state' = [market_state EXCEPT ![i] = "Suspended"]
    /\ LifecycleEvent(i)
    /\ quote' = [quote EXCEPT ![i] = NoQuote]
    /\ \E sent \in SUBSET open_on(i) :
           /\ Cardinality(sent) <= MaxCancelsPerSecond - cancels_this_second
           /\ \/ sent = open_on(i)
              \/ Cardinality(sent) = MaxCancelsPerSecond - cancels_this_second
           /\ cancels_this_second' = cancels_this_second + Cardinality(sent)
           /\ cancels_sent' = cancels_sent \union sent

(* Mutant of resume_market: a quote cached while suspended survives. *)
resume_market_keeping_quote(i) ==
    /\ market_state' = [market_state EXCEPT ![i] = "Tradable"]
    /\ LifecycleEvent(i)
    /\ UNCHANGED <<quote, cancels_this_second, cancels_sent>>

(* apply_market_state into a tradable state: coming back from a suspended  *)
(* one wipes the cached quote.                                             *)
resume_market(i) ==
    /\ market_state' = [market_state EXCEPT ![i] = "Tradable"]
    /\ LifecycleEvent(i)
    /\ quote' = IF market_state[i] = "Suspended"
                  THEN [quote EXCEPT ![i] = NoQuote] ELSE quote
    /\ UNCHANGED <<cancels_this_second, cancels_sent>>

(* A quote event: record_quote_bbo, or invalidate_quote_bbo when the       *)
(* spread is not believable.  Neither looks at the market's state.         *)
record_quote(i, valid) ==
    /\ Idle
    /\ quote' = [quote EXCEPT ![i] = [at |-> now, seen |-> TRUE, bbo |-> valid]]
    /\ quoted_since_halt' = quoted_since_halt \union {i}
    /\ UNCHANGED <<omsVars, sleeve_open_orders, positions, market_state,
                   orders_this_second, cancels_this_second, now,
                   runnerOnly, venueOnly, redeliveries, lifecycle_events, disconnected, cancels_sent>>

(* The wall clock, as the next event's handler reads it. *)
ClockTick ==
    /\ Idle
    /\ now < MaxTime
    /\ now' = now + 1
    /\ orders_this_second' = 0 /\ cancels_this_second' = 0
    /\ UNCHANGED <<omsVars, sleeve_open_orders, positions, market_state, quote,
                   runnerOnly, venueOnly, history>>
-----------------------------------------------------------------------------
(* apply_private_venue_event: the venue's messages. *)

(* Mutant of map_venue_state: a cancellation has no mapping. *)
map_venue_state_without_canceled(s) ==
    CASE s = "resting" -> "Acked"
      [] s = "partially_filled" -> "PartiallyFilled"
      [] s = "filled" -> "Filled"
      [] s = "rejected" -> "Rejected"
      [] s = "expired" -> "Expired"
      [] OTHER -> "None"

(* map_venue_state, one spelling of each status; anything else, Kalshi's   *)
(* "executed" among them, has no mapping.                                  *)
map_venue_state(s) ==
    CASE s = "resting" -> "Acked"
      [] s = "partially_filled" -> "PartiallyFilled"
      [] s = "filled" -> "Filled"
      [] s = "canceled" -> "Canceled"
      [] s = "rejected" -> "Rejected"
      [] s = "expired" -> "Expired"
      [] OTHER -> "None"

UpdateRead == /\ Idle
              /\ order_feed # <<>>
              /\ order_feed' = Tail(order_feed)
              /\ UNCHANGED <<positions, market_state, quote, orders_this_second,
                             cancels_this_second, now, in_flight,
                             wire, venue_orders, venue_fills, fill_feed, history>>

(* apply_order_update: a status without a mapping is ignored. *)
apply_order_update ==
    LET c == Head(order_feed).order
        to == map_venue_state(Head(order_feed).status)
    IN  /\ UpdateRead
        /\ \/ /\ to = "None"
              /\ UNCHANGED <<omsVars, sleeve_open_orders, exited>>
           \/ /\ to # "None"
              /\ transition(c, to)
              /\ sync_runtime_state
              /\ UNCHANGED exited
           \/ /\ to # "None"
              /\ ~transition_allowed(orders[c].state, to)
              /\ exited' = TRUE
              /\ UNCHANGED <<omsVars, sleeve_open_orders>>

FillRead == /\ Idle
            /\ fill_feed # <<>>
            /\ fill_feed' = Tail(fill_feed)
            /\ UNCHANGED <<market_state, quote, orders_this_second, cancels_this_second, now, in_flight, wire, venue_orders,
                           venue_fills, order_feed, history>>

(* Mutant of apply_fill_event: the loop logs a fill it cannot apply and    *)
(* reads on.                                                               *)
apply_fill_event_skipping_errors ==
    LET c == Head(fill_feed)[1]
        f == Head(fill_feed)[2]
        i == Terms[c].instrument
    IN  /\ FillRead
        /\ \/ /\ <<c, f>> \in applied_fills
              /\ UNCHANGED <<omsVars, sleeve_open_orders, positions, exited>>
           \/ /\ apply_fill(c, f)
              /\ positions' = [positions EXCEPT ![i] = @ + signed(c, FillQty[f])]
              /\ sync_runtime_state
              /\ UNCHANGED exited
           \/ /\ apply_fill_torn(c, f)
              /\ UNCHANGED <<sleeve_open_orders, positions, exited>>

(* apply_fill: a duplicate changes nothing, a fill the order cannot take   *)
(* leaves the store torn and ends the loop.                                *)
apply_fill_event ==
    LET c == Head(fill_feed)[1]
        f == Head(fill_feed)[2]
        i == Terms[c].instrument
    IN  /\ FillRead
        /\ \/ /\ <<c, f>> \in applied_fills
              /\ UNCHANGED <<omsVars, sleeve_open_orders, positions, exited>>
           \/ /\ apply_fill(c, f)
              /\ positions' = [positions EXCEPT ![i] = @ + signed(c, FillQty[f])]
              /\ sync_runtime_state
              /\ UNCHANGED exited
           \/ /\ apply_fill_torn(c, f)
              /\ exited' = TRUE
              /\ UNCHANGED <<sleeve_open_orders, positions>>
-----------------------------------------------------------------------------
(* The venue (external). *)

VenueStep == UNCHANGED <<omsVars, gatewayOnly, runnerOnly, lifecycle_events,
                         quoted_since_halt, cancels_sent>>

Update(c, s) == order_feed' = Append(order_feed, [order |-> c, status |-> s])

VenueAccept(c) ==
    /\ c \in wire
    /\ wire' = wire \ {c}
    /\ venue_orders' = [venue_orders EXCEPT ![c] = "live"]
    /\ Update(c, "resting")
    /\ VenueStep
    /\ UNCHANGED <<venue_fills, fill_feed, redeliveries, disconnected>>

(* A refusal is answered on the REST call, or by an order update. *)
VenueRefuse(c) ==
    /\ c \in wire
    /\ wire' = wire \ {c}
    /\ venue_orders' = [venue_orders EXCEPT ![c] = "refused"]
    /\ \/ Update(c, "rejected")
       \/ UNCHANGED order_feed
    /\ VenueStep
    /\ UNCHANGED <<venue_fills, fill_feed, redeliveries, disconnected>>

executed(c) == {f \in FillIds : <<c, f>> \in venue_fills}

(* What the venue says of an execution on its order channel: that the      *)
(* order is done, in a status the gateway maps or in one it does not, or   *)
(* that a part of it is, or nothing.                                       *)
ExecutionUpdate(c, last) ==
    \/ last /\ \E s \in VenueStatuses \intersect {"filled", "executed"} : Update(c, s)
    \/ ~last /\ "partially_filled" \in VenueStatuses /\ Update(c, "partially_filled")
    \/ ~last /\ UNCHANGED order_feed

VenueFill(c, f) ==
    /\ venue_orders[c] = "live"
    /\ f \notin executed(c)
    /\ LET left == Terms[c].quantity - Cardinality(executed(c))
       IN  /\ FillQty[f] = 1 /\ left >= 1
           /\ venue_orders' = [venue_orders EXCEPT ![c] = IF left = 1 THEN "done" ELSE "live"]
           /\ ExecutionUpdate(c, left = 1)
    /\ venue_fills' = venue_fills \union {<<c, f>>}
    /\ fill_feed' = Append(fill_feed, <<c, f>>)
    /\ VenueStep
    /\ UNCHANGED <<wire, redeliveries, disconnected>>

(* A cancel request, an expiry or the venue's own decision. *)
VenueCancel(c) ==
    /\ venue_orders[c] = "live"
    /\ venue_orders' = [venue_orders EXCEPT ![c] = "done"]
    /\ \E s \in VenueStatuses \intersect {"canceled", "expired"} : Update(c, s)
    /\ VenueStep
    /\ UNCHANGED <<wire, venue_fills, fill_feed, redeliveries, disconnected>>

VenueRedeliver(c, f) ==
    /\ <<c, f>> \in venue_fills
    /\ redeliveries < MaxRedeliveries
    /\ redeliveries' = redeliveries + 1
    /\ fill_feed' = Append(fill_feed, <<c, f>>)
    /\ VenueStep
    /\ UNCHANGED <<wire, venue_orders, venue_fills, order_feed, disconnected>>

(* reconnect_ws: the new subscription starts from the present.  What the   *)
(* reader task had already queued is kept, the rest is lost.               *)
Reconnect ==
    /\ ~disconnected        \* bound: one reconnect
    /\ \E n \in 0 .. Len(order_feed), m \in 0 .. Len(fill_feed) :
           /\ n + m < Len(order_feed) + Len(fill_feed)
           /\ order_feed' = SubSeq(order_feed, 1, n)
           /\ fill_feed' = SubSeq(fill_feed, 1, m)
    /\ disconnected' = TRUE
    /\ VenueStep
    /\ UNCHANGED <<wire, venue_orders, venue_fills, redeliveries>>
-----------------------------------------------------------------------------
GatewayNext ==
    \/ \E c \in ClientOrderIds :
           \/ place(c)
           \/ finalize_accepted(c) \/ finalize_rejected(c) \/ finalize_unknown(c)
           \/ cancel(c)
           \/ VenueAccept(c) \/ VenueRefuse(c) \/ VenueCancel(c)
           \/ \E f \in FillIds : VenueFill(c, f) \/ VenueRedeliver(c, f)
    \/ \E i \in Instruments :
           \/ suspend_market(i) \/ resume_market(i)
           \/ \E valid \in BOOLEAN : record_quote(i, valid)
    \/ refuse_place
    \/ apply_order_update
    \/ apply_fill_event
    \/ ClockTick
    \/ Reconnect

GatewaySpec == GatewayInit /\ [][GatewayNext]_gatewayVars

(* The loop keeps reading its socket and a submit returns or times out. *)
LoopFairness ==
    /\ WF_gatewayVars(apply_order_update)
    /\ WF_gatewayVars(apply_fill_event)
    /\ WF_gatewayVars(\E c \in ClientOrderIds : finalize_accepted(c)
                          \/ finalize_rejected(c) \/ finalize_unknown(c))

FairGatewaySpec == GatewaySpec /\ LoopFairness
-----------------------------------------------------------------------------
(* Properties. *)

(* Types; the rate budgets are never overspent. *)
GatewayTypeOK ==
    /\ TypeOK
    /\ sleeve_open_orders \in Nat
    /\ positions \in [Instruments -> Int]
    /\ market_state \in [Instruments -> {"None", "Tradable", "Suspended"}]
    /\ quote \in [Instruments -> [at : 0 .. MaxTime, seen : BOOLEAN, bbo : BOOLEAN]]
    /\ orders_this_second \in 0 .. MaxOrdersPerSecond
    /\ cancels_this_second \in 0 .. MaxCancelsPerSecond
    /\ cancels_sent \subseteq ClientOrderIds
    /\ now \in 0 .. MaxTime
    /\ in_flight \subseteq ClientOrderIds /\ wire \subseteq ClientOrderIds
    /\ exited \in BOOLEAN /\ disconnected \in BOOLEAN
    /\ venue_orders \in [ClientOrderIds -> {"none", "live", "refused", "done"}]
    /\ venue_fills \subseteq ClientOrderIds \X FillIds
    /\ order_feed \in Seq([order : ClientOrderIds,
                           status : UpdateStatuses])
    /\ fill_feed \in Seq(ClientOrderIds \X FillIds)
    /\ redeliveries \in 0 .. MaxRedeliveries
    /\ lifecycle_events \in 0 .. MaxLifecycleEvents
    /\ quoted_since_halt \subseteq Instruments

(* What the venue may execute: its live orders, and those on their way. *)
Executable == {c \in ClientOrderIds : venue_orders[c] = "live" \/ c \in wire}

(* No order is orphaned: whatever the venue may still execute is open in   *)
(* the order store, even when the submit failed locally, the store heard   *)
(* of fills and updates out of order, or a reconnect lost some of them.    *)
NoOrphanOrders == Executable \subseteq open_orders

(* The venue never holds more of our orders than max_open_orders, although *)
(* risk decides on a count taken before the previous submit was resolved.  *)
VenueOrdersBounded == Cardinality(Executable) <= MaxOpenOrders

(* No two orders of ours that the venue may execute would trade with each  *)
(* other, whatever was unknown about one when the other was placed.        *)
NoSelfCross == \A c, d \in Executable : ~crosses(c, d)

(* Between events the count risk will read is the number of open orders.   *)
OpenOrdersSynced == in_flight = {} => sleeve_open_orders = Cardinality(open_orders)

(* An order is only sent on a quote younger than the limit that was read   *)
(* since the market was last suspended, and never into a suspended market. *)
PlacedOnFreshQuote ==
    [][\A c \in in_flight' \ in_flight :
           LET i == Terms[c].instrument
           IN  /\ market_state[i] # "Suspended"
               /\ now - quote[i].at <= MaxQuoteAge
               /\ i \in quoted_since_halt]_gatewayVars

(* What fills move the position of an instrument by. *)
FillEffect == [p \in ClientOrderIds \X FillIds |-> signed(p[1], FillQty[p[2]])]
FillsOn(i, fills) == {p \in fills : Terms[p[1]].instrument = i}
NetOf(i, fills) == SumOver(FillEffect, FillsOn(i, fills))

(* While the loop runs and no message was dropped, the position risk reads *)
(* plus the distinct fills still queued is the position at the venue:      *)
(* redelivered fills are not counted twice, and a fill that an order       *)
(* update overtook is not silently dropped.                                *)
PositionTracksVenue ==
    ~exited /\ ~disconnected =>
        \A i \in Instruments :
            positions[i] + NetOf(i, Range(fill_feed) \ applied_fills)
                = NetOf(i, venue_fills)

(* An order the venue is done with leaves the open orders, so that it does *)
(* not hold its slot of max_open_orders for ever, unless the loop has      *)
(* stopped or messages were lost.                                          *)
DoneOrdersReleased ==
    \A c \in ClientOrderIds :
        venue_orders[c] = "done" ~> c \notin open_orders \/ exited \/ disconnected

(* A market that stops trading leaves no own order resting on it without a *)
(* cancel on its way.  The cancel budget breaks it: the cancels that do    *)
(* not fit in the current second are popped, refused and never retried.    *)
SuspensionCancelsAll ==
    [][\A i \in Instruments :
           market_state[i] # "Suspended" /\ market_state'[i] = "Suspended"
               => open_on(i) \subseteq cancels_sent']_gatewayVars
=============================================================================
