--------------------------------- MODULE Oms ---------------------------------
(***************************************************************************)
(* The order management system of the live stack, InMemoryOms in           *)
(* rust/crates/oms/src/lib.rs.  One action per method that changes state.  *)
(* A call that returns an error without touching the store is a stuttering *)
(* step and has no action; the one error return that does touch the store  *)
(* is the action apply_fill_torn.                                          *)
(*                                                                         *)
(* Data: quantities are natural numbers (exact decimals in the code), the  *)
(* venue order id is whether one is known, and price, side, instrument,    *)
(* time in force and timestamps, which no branch of this component reads,  *)
(* are left to the Gateway module.                                         *)
(***************************************************************************)
EXTENDS Naturals, FiniteSets, Sums

CONSTANTS ClientOrderIds,   \* client order ids the callers use
          FillIds,          \* fill ids the venue uses
          Quantities,       \* order quantities
          FillQty,          \* the quantity each fill id stands for
          AdoptableStates   \* states a venue snapshot is adopted in

OrderStates == {"Created", "Submitted", "SubmitUnknown", "Acked",
                "PartiallyFilled", "Filled", "Canceled", "Rejected", "Expired"}

ASSUME IdsAssumption == IsFiniteSet(ClientOrderIds)
ASSUME QuantitiesAssumption == Quantities \subseteq Nat
ASSUME FillQtyAssumption == FillQty \in [FillIds -> Nat]
ASSUME AdoptableAssumption == AdoptableStates \subseteq OrderStates

VARIABLES orders,          \* client order id -> its order, NoOrder when absent
          applied_fills,   \* <<client order id, fill id>> pairs applied
          open_count       \* running count of non-terminal orders

omsVars == <<orders, applied_fills, open_count>>
-----------------------------------------------------------------------------
(* Order states and the transition table. *)

TerminalStates == {"Filled", "Canceled", "Rejected", "Expired"}

is_terminal(s) == s \in TerminalStates

LiveTargets == {"Acked", "Rejected", "Canceled", "Expired",
                "PartiallyFilled", "Filled"}

transition_allowed(from, to) ==
    \/ from = "Created" /\ to = "Submitted"
    \/ from = "Submitted" /\ to \in LiveTargets \union {"SubmitUnknown"}
    \/ from = "SubmitUnknown" /\ to \in LiveTargets
    \/ from \in {"Acked", "PartiallyFilled"}
       /\ to \in TerminalStates \union {"PartiallyFilled"}

(* An order record.  NoOrder stands for a key the HashMap does not hold. *)
Order == [state : OrderStates, quantity : Nat, filled : Nat,
          has_venue_id : BOOLEAN]

NoOrder == [state |-> "Absent", quantity |-> 0, filled |-> 0,
            has_venue_id |-> FALSE]

NewOrder(q) == [state |-> "Created", quantity |-> q, filled |-> 0,
                has_venue_id |-> FALSE]

(* The order o moved to state s with n of its quantity filled. *)
Moved(o, s, n) == [state |-> s, quantity |-> o.quantity, filled |-> n,
                   has_venue_id |-> o.has_venue_id]

known(c) == orders[c] # NoOrder

remaining(c) == orders[c].quantity - orders[c].filled

open_orders == {c \in ClientOrderIds : known(c) /\ ~is_terminal(orders[c].state)}

(* saturating_sub(1) on the edge from a live to a terminal state. *)
count_after(n, from, to) ==
    IF ~is_terminal(from) /\ is_terminal(to) /\ n > 0 THEN n - 1 ELSE n
-----------------------------------------------------------------------------
Init ==
    /\ orders = [c \in ClientOrderIds |-> NoOrder]
    /\ applied_fills = {}
    /\ open_count = 0

(* open_order: DuplicateOrder leaves everything alone. *)
open_order(c, q) ==
    /\ ~known(c)
    /\ orders' = [orders EXCEPT ![c] = NewOrder(q)]
    /\ open_count' = open_count + 1
    /\ UNCHANGED applied_fills

(* Mutant of adopt_order: adopting an id that is already in the store. *)
adopt_order_over_existing(c, s, q, n) ==
    /\ n <= q
    /\ orders' = [orders EXCEPT ![c] = [state |-> s, quantity |-> q,
                                        filled |-> n, has_venue_id |-> TRUE]]
    /\ open_count' = IF is_terminal(s) THEN open_count ELSE open_count + 1
    /\ UNCHANGED applied_fills

(* adopt_order: an order taken over from a venue snapshot.  The snapshot's *)
(* filled quantity is at most its quantity.                                *)
adopt_order(c, s, q, n) ==
    /\ ~known(c)
    /\ n <= q
    /\ orders' = [orders EXCEPT ![c] = [state |-> s, quantity |-> q,
                                        filled |-> n, has_venue_id |-> TRUE]]
    /\ open_count' = IF is_terminal(s) THEN open_count ELSE open_count + 1
    /\ UNCHANGED applied_fills

(* Mutant of transition: the table is not consulted. *)
transition_unchecked(c, to) ==
    /\ known(c)
    /\ orders' = [orders EXCEPT ![c] = Moved(@, to, @.filled)]
    /\ open_count' = count_after(open_count, orders[c].state, to)
    /\ UNCHANGED applied_fills

(* transition: UnknownOrder and IllegalTransition change nothing. *)
transition(c, to) ==
    /\ known(c)
    /\ transition_allowed(orders[c].state, to)
    /\ orders' = [orders EXCEPT ![c] = Moved(@, to, @.filled)]
    /\ open_count' = count_after(open_count, orders[c].state, to)
    /\ UNCHANGED applied_fills

(* Mutant of set_venue_order_id: an unknown order gets an entry. *)
set_venue_order_id_unchecked(c) ==
    /\ orders' = [orders EXCEPT ![c] = [state |-> @.state, quantity |-> @.quantity,
                                        filled |-> @.filled, has_venue_id |-> TRUE]]
    /\ UNCHANGED <<applied_fills, open_count>>

set_venue_order_id(c) ==
    /\ known(c)
    /\ orders' = [orders EXCEPT ![c] = [state |-> @.state, quantity |-> @.quantity,
                                        filled |-> @.filled, has_venue_id |-> TRUE]]
    /\ UNCHANGED <<applied_fills, open_count>>

filled_after(c, f) == orders[c].filled + FillQty[f]

(* The state a fill moves its order to. *)
next_state(c, f) ==
    IF filled_after(c, f) = orders[c].quantity THEN "Filled" ELSE "PartiallyFilled"

(* Mutant of fill_admitted: the overfill check compares with the whole     *)
(* quantity of the order instead of what remains of it.                    *)
fill_admitted_by_quantity(c, f) ==
    /\ <<c, f>> \notin applied_fills
    /\ known(c)
    /\ FillQty[f] <= orders[c].quantity

(* Past the duplicate, UnknownOrder and Overfill returns. *)
fill_admitted(c, f) ==
    /\ <<c, f>> \notin applied_fills
    /\ known(c)
    /\ FillQty[f] <= remaining(c)

(* Mutant of apply_fill: the fill moves the order, its quantity is not     *)
(* added.                                                                  *)
apply_fill_forgets_quantity(c, f) ==
    LET to == next_state(c, f)
    IN  /\ fill_admitted(c, f)
        /\ transition_allowed(orders[c].state, to)
        /\ orders' = [orders EXCEPT ![c] = Moved(@, to, @.filled)]
        /\ open_count' = count_after(open_count, orders[c].state, to)
        /\ applied_fills' = applied_fills \union {<<c, f>>}

(* apply_fill when the order may take the fill: Ok(true).  A key already   *)
(* applied is the no-op Ok(false).                                         *)
apply_fill(c, f) ==
    LET to == next_state(c, f)
    IN  /\ fill_admitted(c, f)
        /\ transition_allowed(orders[c].state, to)
        /\ orders' = [orders EXCEPT ![c] = Moved(@, to, filled_after(c, f))]
        /\ open_count' = count_after(open_count, orders[c].state, to)
        /\ applied_fills' = applied_fills \union {<<c, f>>}

(* apply_fill when the table refuses the move: filled_quantity is written  *)
(* before the table is consulted, so the IllegalTransition return leaves   *)
(* the new quantity behind, and no key in applied_fills.                   *)
apply_fill_torn(c, f) ==
    /\ fill_admitted(c, f)
    /\ ~transition_allowed(orders[c].state, next_state(c, f))
    /\ orders' = [orders EXCEPT ![c] = Moved(@, @.state, filled_after(c, f))]
    /\ UNCHANGED <<applied_fills, open_count>>

OrderCalls(c) ==
    \/ \E q \in Quantities : open_order(c, q)
    \/ \E s \in AdoptableStates, q \in Quantities, n \in Quantities \union {0} :
           adopt_order(c, s, q, n)
    \/ \E to \in OrderStates : transition(c, to)
    \/ set_venue_order_id(c)

(* A fill names an order the venue has been sent: the one caller of         *)
(* open_order moves the order on to Submitted before it returns.            *)
FillCalls(c) ==
    /\ orders[c].state # "Created"
    /\ \E f \in FillIds :
           \/ apply_fill(c, f)
           \/ apply_fill_torn(c, f)

Next == \E c \in ClientOrderIds : OrderCalls(c) \/ FillCalls(c)

Spec == Init /\ [][Next]_omsVars
-----------------------------------------------------------------------------
(* Properties. *)

(* The store holds orders, the dedupe set pairs of ids, the count a number. *)
TypeOK ==
    /\ orders \in [ClientOrderIds -> Order \union {NoOrder}]
    /\ applied_fills \subseteq ClientOrderIds \X FillIds
    /\ open_count \in Nat

(* The O(1) open_count that risk reads as the number of live orders is, in *)
(* every state, the number of non-terminal orders in the store.            *)
OpenCountMatches == open_count = Cardinality(open_orders)

(* No sequence of adoptions, fills, redelivered fills and rejected fills   *)
(* drives an order past its quantity.                                      *)
FilledWithinQuantity ==
    \A c \in ClientOrderIds : orders[c].filled <= orders[c].quantity

FillsOf(c) == {f \in FillIds : <<c, f>> \in applied_fills}

(* Every fill the store says it applied is counted in its order's filled   *)
(* quantity: an accepted fill is never lost, in whatever order fills,      *)
(* adoptions and status updates arrive.                                    *)
AppliedFillsCounted ==
    \A c \in ClientOrderIds : SumOver(FillQty, FillsOf(c)) <= orders[c].filled

(* The abstract order behind a stored one. *)
PhaseOf(c) ==
    CASE ~known(c) -> "unused"
      [] known(c) /\ is_terminal(orders[c].state) -> "over"
      [] OTHER -> "live"

Lifecycle == INSTANCE OrderLifecycle WITH
                 phase <- [c \in ClientOrderIds |-> PhaseOf(c)],
                 taken <- applied_fills

(* The store implements the abstract order lifecycle: ids are never reused, *)
(* a terminal order is never revived, and a fill is recorded at most once   *)
(* and only while its order is live.                                        *)
ImplementsLifecycle == Lifecycle!LifecycleSpec

(* A recorded filled quantity only moves together with the dedupe key of    *)
(* the fill that moved it, which is what makes redelivery harmless.  The    *)
(* error return of apply_fill breaks it.                                    *)
FilledOnlyWithRecordedFill ==
    [][\A c \in ClientOrderIds :
           known(c) /\ orders'[c].filled # orders[c].filled
               => \E f \in FillIds : <<c, f>> \in applied_fills' \ applied_fills]_omsVars
=============================================================================
