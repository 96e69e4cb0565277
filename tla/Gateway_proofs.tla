--------------------------- MODULE Gateway_proofs ---------------------------
(***************************************************************************)
(* Proofs about the order store and the order path, for every set of       *)
(* orders, markets, fills and limits, however often the venue redelivers   *)
(* and the channels lose messages within the bounds.  First the store by   *)
(* itself, then the path between it and the venue.                         *)
(***************************************************************************)
EXTENDS Gateway, Lists_proofs

-----------------------------------------------------------------------------
(* The order store (module Oms). *)

(* The inductive invariant: the count is the cardinality of a set that is  *)
(* read off the orders, so type and count have to be carried together.     *)
OmsInv == TypeOK /\ OpenCountMatches /\ FilledWithinQuantity

-----------------------------------------------------------------------------
(* The open orders are finitely many, so their cardinality is a number. *)
LEMMA OpenOrdersFinite ==
    /\ IsFiniteSet(open_orders)
    /\ Cardinality(open_orders) \in Nat
<1>1. open_orders \subseteq ClientOrderIds
  BY DEF open_orders
<1>2. IsFiniteSet(open_orders)
  BY <1>1, IdsAssumption, FS_Subset
<1> QED
  BY <1>2, FS_CardinalityType

(* A present order is not NoOrder: its state is one of the order states. *)
LEMMA KnownOrders ==
    ASSUME TypeOK
    PROVE  \A c \in ClientOrderIds :
               /\ known(c) => orders[c] \in Order
               /\ known(c) <=> orders[c].state \in OrderStates
               /\ known(c) <=> orders[c].state # "Absent"
<1> SUFFICES ASSUME NEW c \in ClientOrderIds
             PROVE  /\ known(c) => orders[c] \in Order
                    /\ known(c) <=> orders[c].state \in OrderStates
                    /\ known(c) <=> orders[c].state # "Absent"
  OBVIOUS
<1>1. orders[c] \in Order \/ orders[c] = NoOrder
  BY DEF TypeOK
<1>2. NoOrder.state = "Absent" /\ "Absent" \notin OrderStates
  BY DEF NoOrder, OrderStates
<1>3. \A o \in Order : o.state \in OrderStates
  BY DEF Order
<1> QED
  BY <1>1, <1>2, <1>3 DEF known
-----------------------------------------------------------------------------
(* How one rewritten order moves the open count: the three cases every     *)
(* method falls into.                                                      *)

(* A new order that is open adds one to the count.                         *)
LEMMA CountWhenOpened ==
    ASSUME TypeOK, OpenCountMatches, NEW c \in ClientOrderIds, NEW o \in Order,
           ~known(c), ~is_terminal(o.state),
           orders' = [orders EXCEPT ![c] = o],
           open_count' = open_count + 1
    PROVE  OpenCountMatches'
<1>1. o # NoOrder
  BY DEF Order, NoOrder, OrderStates
<1>2. orders'[c] = o /\ \A d \in ClientOrderIds \ {c} : orders'[d] = orders[d]
  BY DEF TypeOK
<1>3. open_orders' = open_orders \union {c}
  BY <1>1, <1>2 DEF open_orders, known
<1>4. c \notin open_orders
  BY DEF open_orders
<1>5. Cardinality(open_orders \union {c}) = Cardinality(open_orders) + 1
  BY <1>4, OpenOrdersFinite, FS_AddElement
<1> QED
  BY <1>3, <1>5 DEF OpenCountMatches

(* A new order that is over already leaves the count alone.                *)
LEMMA CountWhenUnopened ==
    ASSUME TypeOK, OpenCountMatches, NEW c \in ClientOrderIds, NEW o \in Order,
           ~known(c), is_terminal(o.state),
           orders' = [orders EXCEPT ![c] = o],
           open_count' = open_count
    PROVE  OpenCountMatches'
<1>1. orders'[c] = o /\ \A d \in ClientOrderIds \ {c} : orders'[d] = orders[d]
  BY DEF TypeOK
<1>2. open_orders' = open_orders
  BY <1>1 DEF open_orders, known
<1> QED
  BY <1>2 DEF OpenCountMatches

(* A rewritten order takes one off the count when it ends, and is not      *)
(* revived.                                                                *)
LEMMA CountWhenRewritten ==
    ASSUME TypeOK, OpenCountMatches, NEW c \in ClientOrderIds, NEW o \in Order,
           known(c), is_terminal(orders[c].state) => is_terminal(o.state),
           orders' = [orders EXCEPT ![c] = o],
           open_count' = count_after(open_count, orders[c].state, o.state)
    PROVE  OpenCountMatches'
<1>1. o # NoOrder
  BY DEF Order, NoOrder, OrderStates
<1>2. orders'[c] = o /\ \A d \in ClientOrderIds \ {c} : orders'[d] = orders[d]
  BY DEF TypeOK
<1>3. CASE is_terminal(orders[c].state) = is_terminal(o.state)
  <2>1. open_orders' = open_orders
    BY <1>1, <1>2, <1>3 DEF open_orders, known
  <2>2. open_count' = open_count
    BY <1>3 DEF count_after
  <2> QED
    BY <2>1, <2>2 DEF OpenCountMatches
<1>4. CASE ~is_terminal(orders[c].state) /\ is_terminal(o.state)
  <2>1. open_orders' = open_orders \ {c}
    BY <1>2, <1>4 DEF open_orders, known
  <2>2. c \in open_orders
    BY <1>4 DEF open_orders
  <2>3. Cardinality(open_orders \ {c}) = Cardinality(open_orders) - 1
    BY <2>2, OpenOrdersFinite, FS_RemoveElement
  <2>4. Cardinality(open_orders \ {c}) \in Nat
    BY OpenOrdersFinite, FS_RemoveElement, FS_CardinalityType
  <2>5. open_count > 0
    BY <2>3, <2>4, OpenOrdersFinite DEF OpenCountMatches
  <2>6. open_count' = open_count - 1
    BY <1>4, <2>5 DEF count_after
  <2> QED
    BY <2>1, <2>3, <2>6 DEF OpenCountMatches
<1> QED
  BY <1>3, <1>4 DEF is_terminal
-----------------------------------------------------------------------------
(* The transition table never leads out of a terminal state. *)
LEMMA TerminalHasNoExit ==
    ASSUME NEW from, NEW to, transition_allowed(from, to)
    PROVE  ~is_terminal(from)
BY DEF transition_allowed, is_terminal, TerminalStates

(* The saturating decrement never leaves the natural numbers. *)
LEMMA CountStaysNatural ==
    ASSUME NEW n \in Nat, NEW from, NEW to
    PROVE  count_after(n, from, to) \in Nat
BY DEF count_after

(* Every step of the store preserves the inductive invariant. *)
LEMMA OmsStep ==
    ASSUME OmsInv, [Next]_omsVars
    PROVE  OmsInv'
<1> USE DEF OmsInv
<1>1. ASSUME NEW c \in ClientOrderIds, NEW q \in Quantities, open_order(c, q)
      PROVE  OmsInv'
  <2>1. q \in Nat /\ NewOrder(q) \in Order
    BY QuantitiesAssumption DEF NewOrder, Order, OrderStates
  <2>2. TypeOK'
    BY <1>1, <2>1 DEF open_order, TypeOK
  <2>3. OpenCountMatches'
    BY <1>1, <2>1, CountWhenOpened DEF open_order, NewOrder, is_terminal, TerminalStates
  <2>4. FilledWithinQuantity'
    BY <1>1, <2>1 DEF open_order, NewOrder, FilledWithinQuantity, TypeOK
  <2> QED
    BY <2>2, <2>3, <2>4
<1>2. ASSUME NEW c \in ClientOrderIds, NEW s \in AdoptableStates,
             NEW q \in Quantities, NEW n \in Quantities \union {0},
             adopt_order(c, s, q, n)
      PROVE  OmsInv'
  <2> DEFINE o == [state |-> s, quantity |-> q, filled |-> n, has_venue_id |-> TRUE]
  <2>1. q \in Nat /\ n \in Nat /\ s \in OrderStates
    BY QuantitiesAssumption, AdoptableAssumption
  <2>2. o \in Order /\ o.state = s
    BY <2>1 DEF Order
  <2>3. TypeOK'
    BY <1>2, <2>2 DEF adopt_order, TypeOK
  <2>4. OpenCountMatches'
    BY <1>2, <2>2, CountWhenOpened, CountWhenUnopened DEF adopt_order
  <2>5. FilledWithinQuantity'
    BY <1>2, <2>1 DEF adopt_order, FilledWithinQuantity, TypeOK
  <2> QED
    BY <2>3, <2>4, <2>5
<1>3. ASSUME NEW c \in ClientOrderIds, NEW to \in OrderStates, transition(c, to)
      PROVE  OmsInv'
  <2> DEFINE o == Moved(orders[c], to, orders[c].filled)
  <2>1. orders[c] \in Order
    BY <1>3, KnownOrders DEF transition
  <2>2. o \in Order /\ o.state = to
    BY <2>1 DEF Order, Moved
  <2>3. TypeOK'
    BY <1>3, <2>2, CountStaysNatural DEF transition, TypeOK
  <2>4. ~is_terminal(orders[c].state)
    BY <1>3, TerminalHasNoExit DEF transition
  <2>5. OpenCountMatches'
    BY <1>3, <2>2, <2>4, CountWhenRewritten DEF transition
  <2>6. FilledWithinQuantity'
    BY <1>3, <2>1 DEF transition, FilledWithinQuantity, TypeOK, Order, Moved
  <2> QED
    BY <2>3, <2>5, <2>6
<1>4. ASSUME NEW c \in ClientOrderIds, set_venue_order_id(c)
      PROVE  OmsInv'
  <2> DEFINE o == [state |-> orders[c].state, quantity |-> orders[c].quantity,
                   filled |-> orders[c].filled, has_venue_id |-> TRUE]
  <2>1. orders[c] \in Order
    BY <1>4, KnownOrders DEF set_venue_order_id
  <2>2. o \in Order /\ o.state = orders[c].state
    BY <2>1 DEF Order
  <2>3. TypeOK'
    BY <1>4, <2>2 DEF set_venue_order_id, TypeOK
  <2>4. open_count' = count_after(open_count, orders[c].state, o.state)
    BY <1>4, <2>2 DEF set_venue_order_id, count_after
  <2>5. OpenCountMatches'
    BY <1>4, <2>2, <2>4, CountWhenRewritten DEF set_venue_order_id
  <2>6. FilledWithinQuantity'
    BY <1>4, <2>1 DEF set_venue_order_id, FilledWithinQuantity, TypeOK, Order
  <2> QED
    BY <2>3, <2>5, <2>6
<1>5. ASSUME NEW c \in ClientOrderIds, NEW f \in FillIds, apply_fill(c, f)
      PROVE  OmsInv'
  <2> DEFINE to == next_state(c, f)
             o == Moved(orders[c], to, filled_after(c, f))
  <2>1. orders[c] \in Order
    BY <1>5, KnownOrders DEF apply_fill, fill_admitted
  <2>2. FillQty[f] \in Nat
    BY FillQtyAssumption
  <2>3. to \in OrderStates
    BY DEF next_state, OrderStates
  <2>4. filled_after(c, f) \in Nat /\ filled_after(c, f) <= orders[c].quantity
    BY <1>5, <2>1, <2>2 DEF apply_fill, fill_admitted, filled_after, remaining, Order
  <2>5. o \in Order /\ o.state = to
    BY <2>1, <2>3, <2>4 DEF Order, Moved
  <2>6. orders' = [orders EXCEPT ![c] = o]
    BY <1>5 DEF apply_fill, TypeOK
  <2>7. TypeOK'
    BY <1>5, <2>5, <2>6, CountStaysNatural DEF apply_fill, TypeOK
  <2>8. ~is_terminal(orders[c].state)
    BY <1>5, TerminalHasNoExit DEF apply_fill
  <2>9. OpenCountMatches'
    BY <1>5, <2>5, <2>6, <2>8, CountWhenRewritten DEF apply_fill, fill_admitted
  <2>10. FilledWithinQuantity'
    BY <2>1, <2>4, <2>6 DEF FilledWithinQuantity, TypeOK, Order, Moved
  <2> QED
    BY <2>7, <2>9, <2>10
<1>6. ASSUME NEW c \in ClientOrderIds, NEW f \in FillIds, apply_fill_torn(c, f)
      PROVE  OmsInv'
  <2> DEFINE o == Moved(orders[c], orders[c].state, filled_after(c, f))
  <2>1. orders[c] \in Order
    BY <1>6, KnownOrders DEF apply_fill_torn, fill_admitted
  <2>2. FillQty[f] \in Nat
    BY FillQtyAssumption
  <2>3. filled_after(c, f) \in Nat /\ filled_after(c, f) <= orders[c].quantity
    BY <1>6, <2>1, <2>2 DEF apply_fill_torn, fill_admitted, filled_after, remaining, Order
  <2>4. o \in Order /\ o.state = orders[c].state
    BY <2>1, <2>3 DEF Order, Moved
  <2>5. TypeOK'
    BY <1>6, <2>4 DEF apply_fill_torn, TypeOK
  <2>6. open_count' = count_after(open_count, orders[c].state, o.state)
    BY <1>6, <2>4 DEF apply_fill_torn, count_after
  <2>7. OpenCountMatches'
    BY <1>6, <2>4, <2>6, CountWhenRewritten DEF apply_fill_torn, fill_admitted
  <2>8. FilledWithinQuantity'
    BY <1>6, <2>1, <2>3 DEF apply_fill_torn, FilledWithinQuantity, TypeOK, Order, Moved
  <2> QED
    BY <2>5, <2>7, <2>8
<1>7. CASE UNCHANGED omsVars
  BY <1>7 DEF omsVars, TypeOK, OpenCountMatches, open_orders, known, FilledWithinQuantity
<1> QED
  BY <1>1, <1>2, <1>3, <1>4, <1>5, <1>6, <1>7 DEF Next, OrderCalls, FillCalls

(* The empty store satisfies the invariant.                                *)
LEMMA OmsInitial == ASSUME Init PROVE OmsInv
<1>1. TypeOK
  BY DEF Init, TypeOK
<1>2. open_orders = {}
  BY DEF Init, open_orders, known
<1>3. OpenCountMatches
  BY <1>2, FS_EmptySet DEF Init, OpenCountMatches
<1>4. FilledWithinQuantity
  BY DEF Init, FilledWithinQuantity, NoOrder
<1> QED
  BY <1>1, <1>3, <1>4 DEF OmsInv

(* The inductive invariant holds in every reachable state of the store. *)
THEOREM OmsInvariant == Spec => []OmsInv
<1>1. Init => OmsInv
  BY OmsInitial
<1>2. OmsInv /\ [Next]_omsVars => OmsInv'
  BY OmsStep
<1> QED
  BY <1>1, <1>2, PTL DEF Spec

(* The store only ever holds well-formed orders, fill keys and counts. *)
THEOREM TypeCorrect == Spec => []TypeOK
BY OmsInvariant, PTL DEF OmsInv

(* open_count, kept incrementally by open_order, adopt_order, transition   *)
(* and apply_fill, is always the number of non-terminal orders.            *)
THEOREM OpenCountCorrect == Spec => []OpenCountMatches
BY OmsInvariant, PTL DEF OmsInv

(* No sequence of calls fills an order past its quantity, the error return *)
(* of apply_fill that leaves filled_quantity changed included.             *)
THEOREM NeverOverfilled == Spec => []FilledWithinQuantity
BY OmsInvariant, PTL DEF OmsInv
-----------------------------------------------------------------------------
(* The inductive invariant behind the fill totals: sums are of finite sets *)
(* only, so that the store has applied finitely many fills is part of it.  *)
FillsInv == OmsInv /\ IsFiniteSet(applied_fills) /\ AppliedFillsCounted

(* The fills applied to one order are finitely many. *)
LEMMA FillsOfFinite ==
    ASSUME IsFiniteSet(applied_fills)
    PROVE  \A c \in ClientOrderIds : IsFiniteSet(FillsOf(c))
<1> SUFFICES ASSUME NEW c \in ClientOrderIds
             PROVE  IsFiniteSet(FillsOf(c))
  OBVIOUS
<1> DEFINE mine == {p \in applied_fills : p[1] = c}
           g == [p \in mine |-> p[2]]
<1>1. IsFiniteSet(mine)
  BY FS_Subset
<1>2. IsFiniteSet({p[2] : p \in mine})
  <2> HIDE DEF mine
  <2> DEFINE T == {g[p] : p \in mine}
  <2>1. g \in Surjection(mine, T)
    BY DEF Surjection
  <2> QED
    BY <1>1, <2>1, FS_Surjection
<1>3. FillsOf(c) \subseteq {p[2] : p \in mine}
  BY DEF FillsOf
<1> QED
  BY <1>2, <1>3, FS_Subset

(* A call that applies no fill and takes no order's filled quantity back   *)
(* keeps the fill totals.                                                  *)
LEMMA TotalsKept ==
    ASSUME OmsInv, AppliedFillsCounted, IsFiniteSet(applied_fills),
           OmsInv', applied_fills' = applied_fills,
           \A c \in ClientOrderIds : orders[c].filled <= orders'[c].filled
    PROVE  AppliedFillsCounted'
<1> SUFFICES ASSUME NEW c \in ClientOrderIds
             PROVE  SumOver(FillQty, FillsOf(c)') <= orders'[c].filled
  BY DEF AppliedFillsCounted
<1>1. FillsOf(c)' = FillsOf(c)
  BY DEF FillsOf
<1>2. SumOver(FillQty, FillsOf(c)) \in Int
  <2>1. IsFiniteSet(FillsOf(c)) /\ \A f \in FillsOf(c) : FillQty[f] \in Int
    BY FillsOfFinite, FillQtyAssumption DEF FillsOf
  <2> QED
    BY <2>1, SumType
<1>3. orders[c].filled \in Int /\ orders'[c].filled \in Int
  BY DEF OmsInv, TypeOK, Order, NoOrder
<1>4. SumOver(FillQty, FillsOf(c)) <= orders[c].filled /\ orders[c].filled <= orders'[c].filled
  BY DEF AppliedFillsCounted
<1> QED
  BY <1>1, <1>2, <1>3, <1>4

(* Every step of the store keeps the fill totals. *)
LEMMA FillsStep ==
    ASSUME FillsInv, [Next]_omsVars
    PROVE  FillsInv'
<1>1. OmsInv'
  BY OmsStep DEF FillsInv
<1> SUFFICES IsFiniteSet(applied_fills)' /\ AppliedFillsCounted'
  BY <1>1 DEF FillsInv
<1>2. \A d \in ClientOrderIds : orders[d].filled \in Nat
  BY DEF FillsInv, OmsInv, TypeOK, Order, NoOrder
<1>3. ASSUME NEW c \in ClientOrderIds, OrderCalls(c)
      PROVE  /\ applied_fills' = applied_fills
             /\ \A d \in ClientOrderIds : orders[d].filled <= orders'[d].filled
  <2>1. CASE \E q \in Quantities : open_order(c, q)
    BY <1>2, <2>1 DEF open_order, known, NewOrder, NoOrder, FillsInv, OmsInv, TypeOK
  <2>2. CASE \E s \in AdoptableStates, q \in Quantities, n \in Quantities \union {0} :
                 adopt_order(c, s, q, n)
    BY <1>2, <2>2, QuantitiesAssumption
    DEF adopt_order, known, NoOrder, FillsInv, OmsInv, TypeOK
  <2>3. CASE \E to \in OrderStates : transition(c, to)
    BY <1>2, <2>3 DEF transition, Moved, FillsInv, OmsInv, TypeOK
  <2>4. CASE set_venue_order_id(c)
    BY <1>2, <2>4 DEF set_venue_order_id, FillsInv, OmsInv, TypeOK
  <2> QED
    BY <1>3, <2>1, <2>2, <2>3, <2>4 DEF OrderCalls
<1>4. ASSUME NEW c \in ClientOrderIds, NEW f \in FillIds, apply_fill(c, f)
      PROVE  IsFiniteSet(applied_fills)' /\ AppliedFillsCounted'
  <2>1. applied_fills' = applied_fills \union {<<c, f>>} /\ <<c, f>> \notin applied_fills
    BY <1>4 DEF apply_fill, fill_admitted
  <2>2. IsFiniteSet(applied_fills')
    BY <2>1, FS_AddElement DEF FillsInv
  <2>3. /\ orders'[c].filled = orders[c].filled + FillQty[f]
        /\ \A d \in ClientOrderIds \ {c} : orders'[d] = orders[d]
    BY <1>4 DEF apply_fill, Moved, filled_after, FillsInv, OmsInv, TypeOK
  <2>4. /\ FillsOf(c)' = FillsOf(c) \union {f} /\ f \notin FillsOf(c)
        /\ \A d \in ClientOrderIds \ {c} : FillsOf(d)' = FillsOf(d)
    BY <2>1 DEF FillsOf
  <2>5. IsFiniteSet(FillsOf(c)) /\ \A g \in FillsOf(c) \union {f} : FillQty[g] \in Int
    BY FillsOfFinite, FillQtyAssumption DEF FillsOf, FillsInv
  <2>6. SumOver(FillQty, FillsOf(c) \union {f}) = SumOver(FillQty, FillsOf(c)) + FillQty[f]
    BY <2>4, <2>5, SumAdded
  <2>7. SumOver(FillQty, FillsOf(c)) \in Int /\ FillQty[f] \in Int
    BY <2>5, SumType
  <2>8. \A d \in ClientOrderIds : SumOver(FillQty, FillsOf(d)) <= orders[d].filled
    BY DEF FillsInv, AppliedFillsCounted
  <2>9. SumOver(FillQty, FillsOf(c)') <= orders'[c].filled
    <3>1. SumOver(FillQty, FillsOf(c)') = SumOver(FillQty, FillsOf(c)) + FillQty[f]
      BY <2>4, <2>6
    <3> QED
      BY <1>2, <2>3, <2>7, <2>8, <3>1
  <2>10. \A d \in ClientOrderIds \ {c} : SumOver(FillQty, FillsOf(d)') <= orders'[d].filled
    BY <2>3, <2>4, <2>8
  <2> QED
    BY <2>2, <2>9, <2>10 DEF AppliedFillsCounted
<1>5. ASSUME NEW c \in ClientOrderIds, NEW f \in FillIds, apply_fill_torn(c, f)
      PROVE  /\ applied_fills' = applied_fills
             /\ \A d \in ClientOrderIds : orders[d].filled <= orders'[d].filled
  BY <1>2, <1>5, FillQtyAssumption
  DEF apply_fill_torn, Moved, filled_after, FillsInv, OmsInv, TypeOK
<1>6. CASE UNCHANGED omsVars
  <2>1. applied_fills' = applied_fills
        /\ \A d \in ClientOrderIds : orders[d].filled <= orders'[d].filled
    BY <1>2, <1>6 DEF omsVars
  <2> QED
    BY <1>1, <2>1, TotalsKept DEF FillsInv
<1>7. ASSUME NEW c \in ClientOrderIds, OrderCalls(c)
      PROVE  IsFiniteSet(applied_fills)' /\ AppliedFillsCounted'
  BY <1>1, <1>3, <1>7, TotalsKept DEF FillsInv
<1>8. ASSUME NEW c \in ClientOrderIds, NEW f \in FillIds, apply_fill_torn(c, f)
      PROVE  IsFiniteSet(applied_fills)' /\ AppliedFillsCounted'
  BY <1>1, <1>5, <1>8, TotalsKept DEF FillsInv
<1> QED
  BY <1>4, <1>6, <1>7, <1>8 DEF Next, FillCalls

(* No fill the store says it applied is lost: each is counted in its       *)
(* order's filled quantity, however fills, adoptions, status updates and   *)
(* refused fills interleave.                                               *)
THEOREM FillsAreCounted == Spec => []AppliedFillsCounted
<1>1. Init => FillsInv
  <2> SUFFICES ASSUME Init PROVE FillsInv
    OBVIOUS
  <2>1. \A c \in ClientOrderIds : FillsOf(c) = {} /\ orders[c].filled = 0
    BY DEF Init, FillsOf, NoOrder
  <2>2. AppliedFillsCounted
    BY <2>1, SumEmpty DEF AppliedFillsCounted
  <2>3. IsFiniteSet(applied_fills)
    BY FS_EmptySet DEF Init
  <2> QED
    BY <2>2, <2>3, OmsInitial DEF FillsInv
<1>2. FillsInv /\ [Next]_omsVars => FillsInv'
  BY FillsStep
<1>3. FillsInv => AppliedFillsCounted
  BY DEF FillsInv
<1> QED
  BY <1>1, <1>2, <1>3, PTL DEF Spec
-----------------------------------------------------------------------------
(* What the phases of the abstract order become in one step of the store:  *)
(* at most the phase of the rewritten order changes.                       *)
LEMMA PhaseOfRewritten ==
    ASSUME TypeOK, NEW c \in ClientOrderIds, NEW o \in Order,
           orders' = [orders EXCEPT ![c] = o]
    PROVE  /\ PhaseOf(c)' = IF is_terminal(o.state) THEN "over" ELSE "live"
           /\ \A d \in ClientOrderIds \ {c} : PhaseOf(d)' = PhaseOf(d)
           /\ PhaseOf(c) = IF ~known(c) THEN "unused"
                           ELSE IF is_terminal(orders[c].state) THEN "over" ELSE "live"
<1>1. o # NoOrder
  BY DEF Order, NoOrder, OrderStates
<1>2. orders'[c] = o /\ \A d \in ClientOrderIds \ {c} : orders'[d] = orders[d]
  BY DEF TypeOK
<1>3. PhaseOf(c)' = IF is_terminal(o.state) THEN "over" ELSE "live"
  BY <1>1, <1>2 DEF PhaseOf, known
<1>4. ASSUME NEW d \in ClientOrderIds \ {c} PROVE PhaseOf(d)' = PhaseOf(d)
  BY <1>2 DEF PhaseOf, known
<1>5. PhaseOf(c) = IF ~known(c) THEN "unused"
                   ELSE IF is_terminal(orders[c].state) THEN "over" ELSE "live"
  BY DEF PhaseOf
<1> QED
  BY <1>3, <1>4, <1>5

Phases == [c \in ClientOrderIds |-> PhaseOf(c)]

(* The same fact about the phase function of the refinement mapping. *)
LEMMA PhasesRewritten ==
    ASSUME TypeOK, NEW c \in ClientOrderIds, NEW o \in Order,
           orders' = [orders EXCEPT ![c] = o]
    PROVE  Phases' = [Phases EXCEPT ![c] = IF is_terminal(o.state) THEN "over" ELSE "live"]
BY PhaseOfRewritten DEF Phases

(* Every call of the store is a step of the abstract lifecycle or leaves   *)
(* its state alone.                                                        *)
LEMMA LifecycleStep ==
    ASSUME TypeOK, [Next]_omsVars
    PROVE  [Lifecycle!LifecycleNext]_(Lifecycle!lifecycleVars)
<1> USE DEF Lifecycle!lifecycleVars
<1>0. ASSUME NEW c \in ClientOrderIds
      PROVE  Phases[c] = IF ~known(c) THEN "unused"
                         ELSE IF is_terminal(orders[c].state) THEN "over" ELSE "live"
  BY DEF Phases, PhaseOf
<1>1. ASSUME NEW c \in ClientOrderIds, NEW q \in Quantities, open_order(c, q)
      PROVE  Lifecycle!LifecycleNext
  <2>1. NewOrder(q) \in Order
    BY QuantitiesAssumption DEF NewOrder, Order, OrderStates
  <2>2. Phases' = [Phases EXCEPT ![c] = "live"]
    BY <1>1, <2>1, PhasesRewritten
    DEF open_order, NewOrder, is_terminal, TerminalStates
  <2>3. Lifecycle!Begin(c)
    BY <1>0, <1>1, <2>2 DEF Lifecycle!Begin, open_order, Phases
  <2> QED
    BY <2>3 DEF Lifecycle!LifecycleNext
<1>2. ASSUME NEW c \in ClientOrderIds, NEW s \in AdoptableStates,
             NEW q \in Quantities, NEW n \in Quantities \union {0},
             adopt_order(c, s, q, n)
      PROVE  Lifecycle!LifecycleNext
  <2> DEFINE o == [state |-> s, quantity |-> q, filled |-> n, has_venue_id |-> TRUE]
  <2>1. o \in Order
    BY QuantitiesAssumption, AdoptableAssumption DEF Order
  <2>2. Phases' = [Phases EXCEPT ![c] = IF is_terminal(o.state) THEN "over" ELSE "live"]
    BY <1>2, <2>1, PhasesRewritten DEF adopt_order
  <2>3. Lifecycle!Begin(c)
    BY <1>0, <1>2, <2>2 DEF Lifecycle!Begin, adopt_order, Phases
  <2> QED
    BY <2>3 DEF Lifecycle!LifecycleNext
<1>3. ASSUME NEW c \in ClientOrderIds, NEW to \in OrderStates, transition(c, to)
      PROVE  Lifecycle!LifecycleNext \/ UNCHANGED <<Phases, applied_fills>>
  <2> DEFINE o == Moved(orders[c], to, orders[c].filled)
  <2>1. o \in Order /\ o.state = to
    BY <1>3, KnownOrders DEF transition, Order, Moved
  <2>2. Phases[c] = "live"
    BY <1>0, <1>3, TerminalHasNoExit DEF transition
  <2>3. Phases' = [Phases EXCEPT ![c] = IF is_terminal(to) THEN "over" ELSE "live"]
    BY <1>3, <2>1, PhasesRewritten DEF transition
  <2>4. CASE is_terminal(to)
    <3>1. Lifecycle!End(c)
      BY <1>3, <2>2, <2>3, <2>4 DEF Lifecycle!End, transition, Phases
    <3> QED
      BY <3>1 DEF Lifecycle!LifecycleNext
  <2>5. CASE ~is_terminal(to)
    BY <1>3, <2>2, <2>3, <2>5 DEF transition, Phases
  <2> QED
    BY <2>4, <2>5
<1>4. ASSUME NEW c \in ClientOrderIds, set_venue_order_id(c)
      PROVE  UNCHANGED <<Phases, applied_fills>>
  <2> DEFINE o == [state |-> orders[c].state, quantity |-> orders[c].quantity,
                   filled |-> orders[c].filled, has_venue_id |-> TRUE]
  <2>1. o \in Order /\ o.state = orders[c].state
    BY <1>4, KnownOrders DEF set_venue_order_id, Order
  <2>2. Phases' = [Phases EXCEPT ![c] = IF is_terminal(orders[c].state) THEN "over" ELSE "live"]
    BY <1>4, <2>1, PhasesRewritten DEF set_venue_order_id
  <2> QED
    BY <1>0, <1>4, <2>2 DEF set_venue_order_id, Phases
<1>5. ASSUME NEW c \in ClientOrderIds, NEW f \in FillIds, apply_fill(c, f)
      PROVE  Lifecycle!LifecycleNext
  <2> DEFINE to == next_state(c, f)
             o == Moved(orders[c], to, filled_after(c, f))
  <2>1. orders[c] \in Order /\ FillQty[f] \in Nat
    BY <1>5, KnownOrders, FillQtyAssumption DEF apply_fill, fill_admitted
  <2>2. o \in Order /\ o.state = to
    BY <2>1 DEF Order, Moved, next_state, filled_after, OrderStates
  <2>3. Phases[c] = "live"
    BY <1>0, <1>5, TerminalHasNoExit DEF apply_fill, fill_admitted
  <2>4. Phases' = [Phases EXCEPT ![c] = IF is_terminal(to) THEN "over" ELSE "live"]
    BY <1>5, <2>2, PhasesRewritten DEF apply_fill
  <2>5. Lifecycle!TakeFill(c, f)
    BY <1>5, <2>3, <2>4 DEF Lifecycle!TakeFill, apply_fill, fill_admitted, Phases
  <2> QED
    BY <2>5 DEF Lifecycle!LifecycleNext
<1>6. ASSUME NEW c \in ClientOrderIds, NEW f \in FillIds, apply_fill_torn(c, f)
      PROVE  UNCHANGED <<Phases, applied_fills>>
  <2> DEFINE o == Moved(orders[c], orders[c].state, filled_after(c, f))
  <2>1. orders[c] \in Order /\ FillQty[f] \in Nat
    BY <1>6, KnownOrders, FillQtyAssumption DEF apply_fill_torn, fill_admitted
  <2>2. o \in Order /\ o.state = orders[c].state
    BY <2>1 DEF Order, Moved, filled_after
  <2>3. Phases' = [Phases EXCEPT ![c] = IF is_terminal(orders[c].state) THEN "over" ELSE "live"]
    BY <1>6, <2>2, PhasesRewritten DEF apply_fill_torn
  <2> QED
    BY <1>0, <1>6, <2>3 DEF apply_fill_torn, fill_admitted, Phases
<1>7. CASE UNCHANGED omsVars
  BY <1>7 DEF omsVars, Phases, PhaseOf, known
<1> QED
  BY <1>1, <1>2, <1>3, <1>4, <1>5, <1>6, <1>7 DEF Next, OrderCalls, FillCalls, Phases

(* The order store implements the abstract order lifecycle: an id is used  *)
(* once, a finished order is never revived, and a fill is taken in at most *)
(* once and only while its order is live.                                  *)
THEOREM OmsImplementsLifecycle == Spec => ImplementsLifecycle
<1>1. Init => Lifecycle!LifecycleInit
  BY DEF Init, Lifecycle!LifecycleInit, PhaseOf, known
<1>2. TypeOK /\ [Next]_omsVars
      => [Lifecycle!LifecycleNext]_(Lifecycle!lifecycleVars)
  BY LifecycleStep
<1> QED
  BY <1>1, <1>2, TypeCorrect, PTL DEF Spec, ImplementsLifecycle, Lifecycle!LifecycleSpec

-----------------------------------------------------------------------------
(* The order path (module Gateway). *)

(* What each side may believe about the other, which is why no order is    *)
(* orphaned although no step looks at both: the loop makes an order        *)
(* terminal only on the word of the venue, and that word is true when it   *)
(* is read, however late.                                                  *)

(* An order the venue has heard of, or may hear of, is in the store; it    *)
(* hears of one at most once.                                              *)
SubmitsOK ==
    /\ \A c \in wire : known(c) /\ venue_orders[c] = "none"
    /\ \A c \in ClientOrderIds : ~known(c) => venue_orders[c] = "none"
    /\ \A c \in in_flight : known(c)

(* The messages waiting in a feed. *)
Messages(feed) == {feed[k] : k \in 1 .. Len(feed)}

(* The statuses that end an order. *)
Endings == {"filled", "executed", "canceled", "expired"}

(* A queued update that ends an order is about one the venue has ended. *)
UpdatesTrue ==
    \A u \in Messages(order_feed) :
        /\ u.status \in Endings => venue_orders[u.order] = "done"
        /\ u.status = "rejected" => venue_orders[u.order] = "refused"

(* Fills come from the venue, whose fills are contracts of its orders; an  *)
(* order it still holds has one left.                                      *)
FillsTrue ==
    /\ Messages(fill_feed) \subseteq venue_fills
    /\ applied_fills \subseteq venue_fills
    /\ \A p \in venue_fills : FillQty[p[2]] = 1 /\ known(p[1]) /\ p[1] \notin wire
    /\ \A c \in ClientOrderIds :
           /\ IsFiniteSet(executed(c))
           /\ Cardinality(executed(c)) <= Terms[c].quantity
           /\ venue_orders[c] = "live" /\ executed(c) # {}
                  => Cardinality(executed(c)) < Terms[c].quantity
           /\ venue_orders[c] = "refused" => executed(c) = {}

(* The store holds the order that was sent, and has counted each of its    *)
(* applied fills once, unless a torn fill has ended the loop.              *)
StoreTrue ==
    \A c \in ClientOrderIds :
        /\ known(c) => /\ orders[c].quantity = Terms[c].quantity
                       /\ orders[c].state # "Created"
        /\ ~exited => orders[c].filled = Cardinality(FillsOf(c))

(* Risk and the self-cross check hold for the store's open orders, of      *)
(* which the venue's are a part.                                           *)
OpenWithinLimit == Cardinality(open_orders) <= MaxOpenOrders
OpenDoNotCross == \A c, d \in open_orders : ~crosses(c, d)

(* What is cached of a market was read since it last halted. *)
QuotesSinceHalt == \A i \in Instruments : quote[i].seen => i \in quoted_since_halt

GatewayInv ==
    /\ GatewayTypeOK
    /\ OpenCountMatches /\ FilledWithinQuantity
    /\ SubmitsOK /\ UpdatesTrue /\ FillsTrue /\ StoreTrue
    /\ NoOrphanOrders
    /\ OpenOrdersSynced /\ OpenWithinLimit /\ OpenDoNotCross
    /\ QuotesSinceHalt
-----------------------------------------------------------------------------
(* Feeds. *)

(* What is read off a feed was in it, and what stays was in it too. *)
LEMMA FeedRead ==
    ASSUME NEW S, NEW s \in Seq(S), s # <<>>
    PROVE  /\ Tail(s) \in Seq(S)
           /\ Head(s) \in S /\ Head(s) \in Messages(s)
           /\ Messages(Tail(s)) \subseteq Messages(s)
<1>1. Len(s) \in Nat \ {0}
  BY EmptySeq
<1>2. /\ Head(s) \in S /\ Tail(s) \in Seq(S)
      /\ Len(Tail(s)) = Len(s) - 1
      /\ \A k \in 1 .. Len(Tail(s)) : Tail(s)[k] = s[k + 1]
  BY <1>1, HeadTailProperties
<1>3. Head(s) = s[1] /\ 1 \in 1 .. Len(s)
  BY <1>1
<1>4. \A k \in 1 .. Len(Tail(s)) : k + 1 \in 1 .. Len(s)
  BY <1>1, <1>2
<1> QED
  BY <1>2, <1>3, <1>4 DEF Messages

(* The venue adds one message at the end. *)
LEMMA FeedSent ==
    ASSUME NEW S, NEW s \in Seq(S), NEW e \in S
    PROVE  /\ Append(s, e) \in Seq(S)
           /\ Messages(Append(s, e)) = Messages(s) \union {e}
<1>1. Len(s) \in Nat
  OBVIOUS
<1>2. /\ Append(s, e) \in Seq(S)
      /\ Len(Append(s, e)) = Len(s) + 1
      /\ \A k \in 1 .. Len(s) : Append(s, e)[k] = s[k]
      /\ Append(s, e)[Len(s) + 1] = e
  BY <1>1
<1>3. 1 .. Len(s) + 1 = (1 .. Len(s)) \union {Len(s) + 1}
  BY <1>1
<1> QED
  BY <1>2, <1>3 DEF Messages

(* A reconnect keeps the front of a feed. *)
LEMMA FeedCut ==
    ASSUME NEW S, NEW s \in Seq(S), NEW n \in 0 .. Len(s)
    PROVE  /\ SubSeq(s, 1, n) \in Seq(S)
           /\ Messages(SubSeq(s, 1, n)) \subseteq Messages(s)
<1>1. Len(s) \in Nat
  OBVIOUS
<1>2. /\ Len(SubSeq(s, 1, n)) = n
      /\ \A k \in 1 .. n : SubSeq(s, 1, n)[k] = s[k] /\ k \in 1 .. Len(s)
  BY <1>1
<1>3. SubSeq(s, 1, n) \in Seq(S)
  BY <1>1
<1> QED
  BY <1>2, <1>3 DEF Messages
-----------------------------------------------------------------------------
(* The order store within the gateway. *)

(* The invariant contains the order store's own.                           *)
LEMMA StoreInvariant == ASSUME GatewayInv PROVE OmsInv
BY DEF GatewayInv, GatewayTypeOK, OmsInv

VenueUpdate == [order : ClientOrderIds, status : UpdateStatuses]

(* The update at hand names an order, and is one the venue has sent. *)
LEMMA UpdateHead ==
    ASSUME GatewayInv, UpdateRead
    PROVE  /\ Head(order_feed).order \in ClientOrderIds
           /\ Head(order_feed).status \in UpdateStatuses
           /\ Head(order_feed) \in Messages(order_feed)
           /\ order_feed' \in Seq(VenueUpdate)
           /\ Messages(order_feed') \subseteq Messages(order_feed)
<1>1. order_feed \in Seq(VenueUpdate)
  BY DEF GatewayInv, GatewayTypeOK, VenueUpdate
<1>2. order_feed # <<>> /\ order_feed' = Tail(order_feed)
  BY DEF UpdateRead
<1>3. /\ Head(order_feed) \in VenueUpdate /\ Head(order_feed) \in Messages(order_feed)
      /\ order_feed' \in Seq(VenueUpdate)
      /\ Messages(order_feed') \subseteq Messages(order_feed)
  BY <1>1, <1>2, FeedRead
<1> QED
  BY <1>3 DEF VenueUpdate

(* So does the fill at hand. *)
LEMMA FillHead ==
    ASSUME GatewayInv, FillRead
    PROVE  /\ \E c \in ClientOrderIds, f \in FillIds : Head(fill_feed) = <<c, f>>
           /\ Head(fill_feed) \in Messages(fill_feed)
           /\ fill_feed' \in Seq(ClientOrderIds \X FillIds)
           /\ Messages(fill_feed') \subseteq Messages(fill_feed)
<1>1. fill_feed \in Seq(ClientOrderIds \X FillIds)
  BY DEF GatewayInv, GatewayTypeOK
<1>2. fill_feed # <<>> /\ fill_feed' = Tail(fill_feed)
  BY DEF FillRead
<1>3. /\ Head(fill_feed) \in ClientOrderIds \X FillIds
      /\ Head(fill_feed) \in Messages(fill_feed)
      /\ fill_feed' \in Seq(ClientOrderIds \X FillIds)
      /\ Messages(fill_feed') \subseteq Messages(fill_feed)
  BY <1>1, <1>2, FeedRead
<1> QED
  BY <1>3

(* The gateway drives the store by its methods only: every step is one of  *)
(* the store's, or place, which opens an order and submits it at once.     *)
LEMMA StoreSteps ==
    ASSUME GatewayInv, [GatewayNext]_gatewayVars
    PROVE  [Next]_omsVars \/ \E c \in ClientOrderIds : place(c)
<1>1. ASSUME NEW c \in ClientOrderIds, NEW to \in OrderStates, transition(c, to)
      PROVE  [Next]_omsVars
  BY <1>1 DEF Next, OrderCalls
<1>2. ASSUME NEW c \in ClientOrderIds,
             finalize_accepted(c) \/ finalize_rejected(c) \/ finalize_unknown(c)
      PROVE  [Next]_omsVars
  <2>1. CASE set_venue_order_id(c) \/ UNCHANGED omsVars
    BY <2>1 DEF Next, OrderCalls
  <2> QED
    BY <1>1, <1>2, <2>1 DEF finalize_accepted, finalize_rejected, finalize_unknown, OrderStates
<1>3. CASE apply_order_update
  <2>1. Head(order_feed).order \in ClientOrderIds
        /\ Head(order_feed).status \in UpdateStatuses
    BY <1>3, UpdateHead DEF apply_order_update
  <2>2. map_venue_state(Head(order_feed).status) # "None"
            => map_venue_state(Head(order_feed).status) \in OrderStates
    BY <2>1 DEF map_venue_state, UpdateStatuses, OrderStates
  <2> QED
    BY <1>1, <1>3, <2>1, <2>2 DEF apply_order_update
<1>4. CASE apply_fill_event
  <2>1. PICK c \in ClientOrderIds, f \in FillIds : Head(fill_feed) = <<c, f>>
    BY <1>4, FillHead DEF apply_fill_event
  <2>2. CASE apply_fill(c, f) \/ apply_fill_torn(c, f)
    <3>1. orders[c].state # "Created"
      BY <2>2 DEF apply_fill, apply_fill_torn, fill_admitted, GatewayInv, StoreTrue
    <3> QED
      BY <2>2, <3>1 DEF Next, FillCalls
  <2> QED
    BY <1>4, <2>1, <2>2 DEF apply_fill_event
<1>5. CASE UNCHANGED omsVars
  BY <1>5
<1> QED
  BY <1>2, <1>3, <1>4, <1>5
     DEF GatewayNext, refuse_place, cancel, suspend_market, resume_market, LifecycleEvent,
         record_quote, ClockTick, VenueAccept, VenueRefuse, VenueCancel, VenueFill,
         VenueRedeliver, Reconnect, VenueStep, gatewayVars

(* The order place writes. *)
Sent(c) == Moved(NewOrder(Terms[c].quantity), "Submitted", 0)

(* The order place writes is a well-formed one.                            *)
LEMMA SentIsOrder ==
    ASSUME NEW c \in ClientOrderIds
    PROVE  /\ Sent(c) \in Order /\ Sent(c).state = "Submitted" /\ Sent(c).filled = 0
           /\ Sent(c).quantity = Terms[c].quantity /\ Terms[c].quantity \in Nat
BY TermsAssumption DEF Sent, Moved, NewOrder, Order, OrderStates, TermsSet

(* The store keeps its own invariant. *)
LEMMA StoreKept ==
    ASSUME GatewayInv, [GatewayNext]_gatewayVars
    PROVE  OmsInv'
<1>1. CASE [Next]_omsVars
  BY <1>1, StoreInvariant, OmsStep
<1>2. ASSUME NEW c \in ClientOrderIds, place(c) PROVE OmsInv'
  <2>1. /\ TypeOK /\ OpenCountMatches /\ FilledWithinQuantity
        /\ ~known(c) /\ orders' = [orders EXCEPT ![c] = Sent(c)]
        /\ open_count' = open_count + 1 /\ UNCHANGED applied_fills
    BY <1>2 DEF place, Sent, GatewayInv, GatewayTypeOK
  <2>2. TypeOK'
    BY <2>1, SentIsOrder DEF TypeOK
  <2>3. OpenCountMatches'
    BY <2>1, SentIsOrder, CountWhenOpened DEF is_terminal, TerminalStates
  <2>4. FilledWithinQuantity'
    BY <2>1, SentIsOrder DEF FilledWithinQuantity, TypeOK
  <2> QED
    BY <2>2, <2>3, <2>4 DEF OmsInv
<1> QED
  BY <1>1, <1>2, StoreSteps
-----------------------------------------------------------------------------
(* What most steps leave as it is. *)

(* The loop reading its feeds changes nothing the two sides agree on, as   *)
(* long as it knows the same orders.                                       *)
LEMMA AgreementKept ==
    ASSUME GatewayInv, UNCHANGED <<wire, venue_orders, venue_fills>>,
           Messages(order_feed') \subseteq Messages(order_feed),
           Messages(fill_feed') \subseteq Messages(fill_feed),
           in_flight' \subseteq in_flight, applied_fills' \subseteq venue_fills,
           \A d \in ClientOrderIds : known(d)' = known(d)
    PROVE  SubmitsOK' /\ UpdatesTrue' /\ FillsTrue'
<1>1. in_flight \subseteq ClientOrderIds /\ wire \subseteq ClientOrderIds
      /\ venue_fills \subseteq ClientOrderIds \X FillIds
  BY DEF GatewayInv, GatewayTypeOK
<1>2. SubmitsOK'
  BY <1>1 DEF GatewayInv, SubmitsOK
<1>3. UpdatesTrue'
  BY DEF GatewayInv, UpdatesTrue
<1>4. \A c \in ClientOrderIds : executed(c)' = executed(c)
  BY DEF executed
<1>5. FillsTrue'
  BY <1>1, <1>4 DEF GatewayInv, FillsTrue
<1> QED
  BY <1>2, <1>3, <1>5

(* What holds of the open orders holds of fewer of them. *)
LEMMA FewerOpen ==
    ASSUME GatewayInv, open_orders' \subseteq open_orders
    PROVE  OpenWithinLimit' /\ OpenDoNotCross'
<1>1. Cardinality(open_orders') <= Cardinality(open_orders)
      /\ Cardinality(open_orders') \in Nat
  BY OpenOrdersFinite, FS_Subset, FS_CardinalityType
<1>2. OpenWithinLimit'
  BY <1>1, OpenOrdersFinite, LimitsAssumption DEF GatewayInv, OpenWithinLimit
<1>3. OpenDoNotCross'
  BY DEF GatewayInv, OpenDoNotCross, crosses
<1> QED
  BY <1>2, <1>3

(* A method that rewrites an order the store knows. *)
LEMMA StoreMoved ==
    ASSUME GatewayInv, NEW c \in ClientOrderIds, known(c), NEW o \in Order,
           o.quantity = orders[c].quantity, o.state # "Created",
           is_terminal(orders[c].state) => is_terminal(o.state),
           orders' = [orders EXCEPT ![c] = o]
    PROVE  /\ \A d \in ClientOrderIds : known(d)' = known(d)
           /\ \A d \in ClientOrderIds : known(d)' =>
                  orders'[d].quantity = Terms[d].quantity /\ orders'[d].state # "Created"
           /\ open_orders' = IF is_terminal(o.state) THEN open_orders \ {c} ELSE open_orders
<1>1. o # NoOrder
  BY DEF Order, NoOrder, OrderStates
<1>2. orders'[c] = o /\ \A d \in ClientOrderIds \ {c} : orders'[d] = orders[d]
  BY DEF GatewayInv, GatewayTypeOK, TypeOK
<1>3. \A d \in ClientOrderIds : known(d)' = known(d)
  BY <1>1, <1>2 DEF known
<1>4. \A d \in ClientOrderIds : known(d)' =>
          orders'[d].quantity = Terms[d].quantity /\ orders'[d].state # "Created"
  BY <1>2, <1>3 DEF GatewayInv, StoreTrue
<1>5. \A d \in ClientOrderIds :
          d \in open_orders' <=> d \in open_orders /\ (d = c => ~is_terminal(o.state))
  BY <1>2, <1>3 DEF open_orders
<1>6. open_orders \subseteq ClientOrderIds /\ open_orders' \subseteq ClientOrderIds
  BY DEF open_orders
<1> QED
  BY <1>3, <1>4, <1>5, <1>6

(* A count just copied from the store is the number of open orders. *)
LEMMA CountCopied ==
    ASSUME OpenCountMatches', sync_runtime_state
    PROVE  OpenOrdersSynced'
BY DEF OpenCountMatches, sync_runtime_state, OpenOrdersSynced

(* The part of the invariant the step lemmas below are about. *)
BookInv ==
    /\ SubmitsOK /\ UpdatesTrue /\ FillsTrue /\ StoreTrue /\ NoOrphanOrders
    /\ OpenOrdersSynced /\ OpenWithinLimit /\ OpenDoNotCross

(* While the store rests, what concerns it alone stays true. *)
LEMMA StoreRests ==
    ASSUME GatewayInv, UNCHANGED <<orders, applied_fills, sleeve_open_orders, in_flight>>,
           exited => exited'
    PROVE  /\ \A d \in ClientOrderIds : known(d)' = known(d)
           /\ open_orders' = open_orders
           /\ StoreTrue' /\ OpenOrdersSynced' /\ OpenWithinLimit' /\ OpenDoNotCross'
<1>1. \A d \in ClientOrderIds : known(d)' = known(d)
  BY DEF known
<1>2. open_orders' = open_orders
  BY <1>1 DEF open_orders
<1>3. OpenWithinLimit' /\ OpenDoNotCross'
  BY <1>2, FewerOpen
<1>4. StoreTrue'
  BY <1>1 DEF GatewayInv, StoreTrue, FillsOf
<1>5. OpenOrdersSynced'
  BY <1>2 DEF GatewayInv, OpenOrdersSynced
<1> QED
  BY <1>1, <1>2, <1>3, <1>4, <1>5

(* Market data, cancels, the clock, and messages that are only read do not *)
(* touch the book.                                                         *)
LEMMA BookUntouched ==
    ASSUME GatewayInv,
           UNCHANGED <<omsVars, sleeve_open_orders, in_flight, wire, venue_orders, venue_fills>>,
           exited => exited',
           Messages(order_feed') \subseteq Messages(order_feed),
           Messages(fill_feed') \subseteq Messages(fill_feed)
    PROVE  BookInv'
<1>1. /\ \A d \in ClientOrderIds : known(d)' = known(d)
      /\ open_orders' = open_orders
      /\ StoreTrue' /\ OpenOrdersSynced' /\ OpenWithinLimit' /\ OpenDoNotCross'
  BY StoreRests DEF omsVars
<1>2. SubmitsOK' /\ UpdatesTrue' /\ FillsTrue'
  BY <1>1, AgreementKept DEF GatewayInv, FillsTrue, omsVars
<1>3. NoOrphanOrders'
  BY <1>1 DEF GatewayInv, NoOrphanOrders, Executable
<1> QED
  BY <1>1, <1>2, <1>3 DEF BookInv
-----------------------------------------------------------------------------
(* Placing an order, and the ends of its submit. *)

(* Crossing is mutual. *)
LEMMA CrossingIsMutual ==
    ASSUME NEW c \in ClientOrderIds, NEW d \in ClientOrderIds
    PROVE  crosses(c, d) <=> crosses(d, c)
<1>1. /\ Terms[c].side \in {"Buy", "Sell"} /\ Terms[d].side \in {"Buy", "Sell"}
      /\ Terms[c].price \in Nat /\ Terms[d].price \in Nat
  BY TermsAssumption DEF TermsSet
<1> QED
  BY <1>1 DEF crosses

(* place passed risk and the self-cross check on the store's open orders,  *)
(* and puts the order in the store before it is on the wire.               *)
LEMMA PlaceKeepsBook ==
    ASSUME GatewayInv, OmsInv', NEW c \in ClientOrderIds, place(c)
    PROVE  BookInv'
<1>1. /\ orders' = [orders EXCEPT ![c] = Sent(c)] /\ ~known(c)
      /\ in_flight = {} /\ ~exited /\ in_flight' = {c} /\ wire' = wire \union {c}
      /\ UNCHANGED <<applied_fills, sleeve_open_orders, exited, venue_orders,
                     venue_fills, order_feed, fill_feed>>
  BY DEF place, Sent, Idle
<1>2. orders'[c] = Sent(c) /\ \A d \in ClientOrderIds \ {c} : orders'[d] = orders[d]
  BY <1>1 DEF GatewayInv, GatewayTypeOK, TypeOK
<1>3. known(c)' /\ \A d \in ClientOrderIds \ {c} : known(d)' = known(d)
  BY <1>2, SentIsOrder DEF known, NoOrder
<1>4. /\ wire \subseteq ClientOrderIds /\ venue_fills \subseteq ClientOrderIds \X FillIds
      /\ open_orders \subseteq ClientOrderIds
  BY DEF GatewayInv, GatewayTypeOK, open_orders
<1>5. open_orders' = open_orders \union {c} /\ c \notin open_orders
  <2>1. ~is_terminal(orders'[c].state)
    BY <1>2, SentIsOrder DEF is_terminal, TerminalStates
  <2>2. \A d \in ClientOrderIds : d \in open_orders' <=> d \in open_orders \/ d = c
    BY <1>2, <1>3, <2>1 DEF open_orders
  <2>3. open_orders' \subseteq ClientOrderIds
    BY DEF open_orders
  <2> QED
    BY <1>1, <1>4, <2>2, <2>3 DEF open_orders
<1>6. SubmitsOK'
  BY <1>1, <1>3, <1>4 DEF GatewayInv, SubmitsOK
<1>7. UpdatesTrue'
  BY <1>1 DEF GatewayInv, UpdatesTrue
<1>8. FillsTrue'
  <2>1. \A p \in venue_fills : p[1] \in ClientOrderIds /\ p[1] # c
    BY <1>1, <1>4 DEF GatewayInv, FillsTrue
  <2>2. \A d \in ClientOrderIds : executed(d)' = executed(d)
    BY <1>1 DEF executed
  <2> QED
    BY <1>1, <1>3, <2>1, <2>2 DEF GatewayInv, FillsTrue
<1>9. StoreTrue'
  <2>1. \A d \in ClientOrderIds : FillsOf(d)' = FillsOf(d)
    BY <1>1 DEF FillsOf
  <2>2. orders[c].filled = 0
    BY <1>1 DEF known, NoOrder
  <2>3. orders'[c].filled = orders[c].filled
    BY <1>2, <2>2, SentIsOrder
  <2> QED
    BY <1>1, <1>2, <1>3, <2>1, <2>3, SentIsOrder DEF GatewayInv, StoreTrue
<1>10. NoOrphanOrders'
  BY <1>1, <1>5 DEF GatewayInv, NoOrphanOrders, Executable
<1>11. OpenOrdersSynced'
  BY <1>1 DEF OpenOrdersSynced
<1>12. OpenWithinLimit'
  <2>1. sleeve_open_orders = Cardinality(open_orders) /\ open_orders_allowed
    BY <1>1 DEF GatewayInv, OpenOrdersSynced, place, admitted
  <2>2. Cardinality(open_orders') = Cardinality(open_orders) + 1
    BY <1>5, OpenOrdersFinite, FS_AddElement
  <2> QED
    BY <2>1, <2>2 DEF OpenWithinLimit, open_orders_allowed
<1>13. OpenDoNotCross'
  <2>1. \A d \in open_orders : ~crosses(c, d) /\ ~crosses(d, c)
    BY <1>4, CrossingIsMutual DEF place, admitted, self_cross_clear
  <2>2. ~crosses(c, c)
    BY DEF crosses
  <2>3. \A d, e \in open_orders' : ~crosses(d, e)
    BY <1>5, <2>1, <2>2 DEF GatewayInv, OpenDoNotCross
  <2> QED
    BY <2>3 DEF OpenDoNotCross, crosses
<1> QED
  BY <1>6, <1>7, <1>8, <1>9, <1>10, <1>11, <1>12, <1>13 DEF BookInv

(* A transition of the store made on what the venue has said. *)
LEMMA TransitionKeepsBook ==
    ASSUME GatewayInv, OmsInv', NEW c \in ClientOrderIds, NEW to \in OrderStates,
           transition(c, to), to # "Created",
           is_terminal(to) => c \notin Executable,
           sync_runtime_state, in_flight' = {}, UNCHANGED <<exited, wire, venue_orders, venue_fills>>,
           Messages(order_feed') \subseteq Messages(order_feed),
           Messages(fill_feed') \subseteq Messages(fill_feed)
    PROVE  BookInv'
<1> DEFINE o == Moved(orders[c], to, orders[c].filled)
<1>1. known(c) /\ orders' = [orders EXCEPT ![c] = o] /\ UNCHANGED applied_fills
  BY DEF transition, GatewayInv, GatewayTypeOK, TypeOK
<1>2. orders[c] \in Order
  BY <1>1, KnownOrders DEF GatewayInv, GatewayTypeOK
<1>3. /\ o \in Order /\ o.state = to /\ o.quantity = orders[c].quantity
      /\ o.filled = orders[c].filled
  BY <1>2 DEF Order, Moved
<1>4. ~is_terminal(orders[c].state)
  BY TerminalHasNoExit DEF transition
<1> HIDE DEF o
<1>5. /\ \A d \in ClientOrderIds : known(d)' = known(d)
      /\ \A d \in ClientOrderIds : known(d)' =>
             orders'[d].quantity = Terms[d].quantity /\ orders'[d].state # "Created"
      /\ open_orders' = IF is_terminal(to) THEN open_orders \ {c} ELSE open_orders
  BY <1>1, <1>3, <1>4, StoreMoved
<1>6. SubmitsOK' /\ UpdatesTrue' /\ FillsTrue'
  BY <1>1, <1>5, AgreementKept DEF GatewayInv, FillsTrue
<1>7. OpenWithinLimit' /\ OpenDoNotCross'
  BY <1>5, FewerOpen
<1>8. StoreTrue'
  <2>1. \A d \in ClientOrderIds : orders'[d].filled = orders[d].filled
    BY <1>1, <1>3 DEF GatewayInv, GatewayTypeOK, TypeOK
  <2>2. \A d \in ClientOrderIds : FillsOf(d)' = FillsOf(d)
    BY <1>1 DEF FillsOf
  <2> QED
    BY <1>5, <2>1, <2>2 DEF GatewayInv, StoreTrue
<1>9. NoOrphanOrders'
  <2>1. Executable' = Executable
    BY DEF Executable
  <2> QED
    BY <1>5, <2>1 DEF GatewayInv, NoOrphanOrders
<1>10. OpenOrdersSynced'
  BY CountCopied DEF OmsInv
<1> QED
  BY <1>6, <1>7, <1>8, <1>9, <1>10 DEF BookInv

(* An ack resolves the order as the venue did; an unknown outcome leaves   *)
(* it open.                                                                *)
LEMMA FinalizeKeepsBook ==
    ASSUME GatewayInv, OmsInv', NEW c \in ClientOrderIds,
           finalize_accepted(c) \/ finalize_rejected(c) \/ finalize_unknown(c)
    PROVE  BookInv'
<1>1. /\ in_flight' = {} /\ sync_runtime_state
      /\ UNCHANGED <<exited, wire, venue_orders, venue_fills, order_feed, fill_feed>>
  BY DEF finalize_accepted, finalize_rejected, finalize_unknown, Finalized, venueOnly
<1>2. CASE finalize_accepted(c)
  <2>1. known(c) /\ orders[c] \in Order /\ orders[c].state # "Created"
        /\ UNCHANGED applied_fills
    BY <1>2, KnownOrders
       DEF finalize_accepted, set_venue_order_id, omsVars, GatewayInv, GatewayTypeOK, StoreTrue,
           SubmitsOK
  <2>2. PICK o \in Order : /\ o.state = orders[c].state /\ o.quantity = orders[c].quantity
                           /\ o.filled = orders[c].filled
                           /\ orders' = [orders EXCEPT ![c] = o]
    <3>1. CASE UNCHANGED omsVars
      <4>1. orders' = [orders EXCEPT ![c] = orders[c]]
        BY <3>1 DEF omsVars, GatewayInv, GatewayTypeOK, TypeOK
      <4> QED
        BY <2>1, <4>1
    <3>2. CASE set_venue_order_id(c)
      <4> DEFINE named == [state |-> orders[c].state, quantity |-> orders[c].quantity,
                           filled |-> orders[c].filled, has_venue_id |-> TRUE]
      <4>1. named \in Order
        BY <2>1 DEF Order
      <4>2. orders' = [orders EXCEPT ![c] = named]
        BY <3>2 DEF set_venue_order_id, GatewayInv, GatewayTypeOK, TypeOK
      <4> QED
        BY <4>1, <4>2
    <3> QED
      BY <1>2, <3>1, <3>2 DEF finalize_accepted
  <2>3. o \in Order /\ o.state = orders[c].state /\ o.state # "Created"
    BY <2>1, <2>2
  <2>4. /\ \A d \in ClientOrderIds : known(d)' = known(d)
        /\ \A d \in ClientOrderIds : known(d)' =>
               orders'[d].quantity = Terms[d].quantity /\ orders'[d].state # "Created"
        /\ open_orders' = IF is_terminal(o.state) THEN open_orders \ {c} ELSE open_orders
    BY <2>1, <2>2, <2>3, StoreMoved
  <2>5. open_orders' = open_orders
    BY <2>3, <2>4 DEF open_orders
  <2>6. SubmitsOK' /\ UpdatesTrue' /\ FillsTrue'
    BY <1>1, <2>1, <2>4, AgreementKept DEF GatewayInv, FillsTrue
  <2>7. OpenWithinLimit' /\ OpenDoNotCross'
    BY <2>5, FewerOpen
  <2>8. StoreTrue'
    <3>1. \A d \in ClientOrderIds : orders'[d].filled = orders[d].filled
      BY <2>1, <2>2 DEF GatewayInv, GatewayTypeOK, TypeOK
    <3>2. \A d \in ClientOrderIds : FillsOf(d)' = FillsOf(d)
      BY <2>1 DEF FillsOf
    <3> QED
      BY <1>1, <2>4, <3>1, <3>2 DEF GatewayInv, StoreTrue
  <2>9. NoOrphanOrders'
    BY <1>1, <2>5 DEF GatewayInv, NoOrphanOrders, Executable
  <2>10. OpenOrdersSynced'
    BY <1>1, CountCopied DEF OmsInv
  <2> QED
    BY <2>6, <2>7, <2>8, <2>9, <2>10 DEF BookInv
<1>3. CASE finalize_rejected(c)
  <2>1. c \notin Executable
    BY <1>3 DEF finalize_rejected, Executable, GatewayInv, SubmitsOK
  <2> QED
    BY <1>1, <1>3, <2>1, TransitionKeepsBook DEF finalize_rejected, OrderStates
<1>4. CASE finalize_unknown(c)
  <2>1. ~is_terminal("SubmitUnknown")
    BY DEF is_terminal, TerminalStates
  <2> QED
    BY <1>1, <1>4, <2>1, TransitionKeepsBook DEF finalize_unknown, OrderStates
<1> QED
  BY <1>2, <1>3, <1>4
-----------------------------------------------------------------------------
(* Reading the feeds. *)

(* A queued update only ends an order the venue can no longer execute. *)
LEMMA UpdateKeepsBook ==
    ASSUME GatewayInv, OmsInv', apply_order_update
    PROVE  BookInv'
<1> DEFINE u == Head(order_feed)
           to == map_venue_state(u.status)
<1>1. /\ in_flight = {} /\ ~exited
      /\ UNCHANGED <<in_flight, wire, venue_orders, venue_fills, fill_feed>>
  BY DEF apply_order_update, UpdateRead, Idle
<1>2. /\ u.order \in ClientOrderIds /\ u \in Messages(order_feed)
      /\ u.status \in UpdateStatuses
      /\ Messages(order_feed') \subseteq Messages(order_feed)
  BY UpdateHead DEF apply_order_update
<1>3. \/ UNCHANGED <<omsVars, sleeve_open_orders>>
      \/ to # "None" /\ transition(u.order, to) /\ sync_runtime_state /\ UNCHANGED exited
  BY DEF apply_order_update
<1>4. CASE UNCHANGED <<omsVars, sleeve_open_orders>>
  BY <1>1, <1>2, <1>4, BookUntouched
<1>5. CASE to # "None" /\ transition(u.order, to) /\ sync_runtime_state /\ UNCHANGED exited
  <2>1. /\ to \in OrderStates /\ to # "Created"
        /\ is_terminal(to) => u.status \in Endings \union {"rejected"}
    BY <1>2, <1>5
       DEF map_venue_state, UpdateStatuses, Endings, OrderStates, is_terminal, TerminalStates
  <2>2. u.status \in Endings \union {"rejected"} => u.order \notin Executable
    BY <1>2 DEF GatewayInv, UpdatesTrue, SubmitsOK, Executable
  <2> QED
    BY <1>1, <1>2, <1>5, <2>1, <2>2, TransitionKeepsBook
<1> QED
  BY <1>3, <1>4, <1>5

(* An order whose fills add up to its quantity has none left to execute. *)
LEMMA FilledIsOver ==
    ASSUME GatewayInv, ~exited, NEW c \in ClientOrderIds, NEW f \in FillIds,
           <<c, f>> \in venue_fills, fill_admitted(c, f)
    PROVE  /\ FillQty[f] = 1
           /\ filled_after(c, f) = Cardinality(FillsOf(c) \union {f})
           /\ next_state(c, f) = "Filled" => c \notin Executable
<1>1. FillQty[f] = 1 /\ c \notin wire /\ known(c)
  BY DEF GatewayInv, FillsTrue
<1>2. f \notin FillsOf(c) /\ FillsOf(c) \union {f} \subseteq executed(c) /\ f \in executed(c)
  BY DEF GatewayInv, FillsTrue, FillsOf, executed, fill_admitted
<1>3. IsFiniteSet(executed(c)) /\ Cardinality(executed(c)) \in Nat
  BY FS_CardinalityType DEF GatewayInv, FillsTrue
<1>4. /\ IsFiniteSet(FillsOf(c))
      /\ Cardinality(FillsOf(c) \union {f}) = Cardinality(FillsOf(c)) + 1
      /\ Cardinality(FillsOf(c) \union {f}) <= Cardinality(executed(c))
  BY <1>2, <1>3, FS_Subset, FS_AddElement
<1>5. filled_after(c, f) = Cardinality(FillsOf(c) \union {f})
  BY <1>1, <1>4 DEF filled_after, GatewayInv, StoreTrue
<1>6. ASSUME next_state(c, f) = "Filled" PROVE c \notin Executable
  <2>1. filled_after(c, f) = Terms[c].quantity
    BY <1>1, <1>6 DEF next_state, GatewayInv, StoreTrue
  <2>2. Cardinality(executed(c)) >= Terms[c].quantity /\ executed(c) # {}
    BY <1>2, <1>4, <1>5, <2>1
  <2>3. venue_orders[c] # "live"
    BY <1>3, <2>2, SentIsOrder DEF GatewayInv, FillsTrue
  <2> QED
    BY <1>1, <2>3 DEF Executable
<1> QED
  BY <1>1, <1>5, <1>6

(* A fill is applied once, and ends an order only when the venue has       *)
(* executed all of it; a torn fill ends the loop.                          *)
LEMMA FillKeepsBook ==
    ASSUME GatewayInv, OmsInv', apply_fill_event
    PROVE  BookInv'
<1>1. /\ in_flight = {} /\ ~exited
      /\ UNCHANGED <<in_flight, wire, venue_orders, venue_fills, order_feed>>
  BY DEF apply_fill_event, FillRead, Idle
<1>2. /\ Head(fill_feed) \in Messages(fill_feed)
      /\ Messages(fill_feed') \subseteq Messages(fill_feed)
  BY FillHead DEF apply_fill_event
<1>3. PICK c \in ClientOrderIds, f \in FillIds : Head(fill_feed) = <<c, f>>
  BY FillHead DEF apply_fill_event
<1>4. <<c, f>> \in venue_fills
  BY <1>2, <1>3 DEF GatewayInv, FillsTrue
<1>5. CASE UNCHANGED <<omsVars, sleeve_open_orders, positions, exited>>
  BY <1>1, <1>2, <1>5, BookUntouched
<1>6. CASE apply_fill(c, f) /\ sync_runtime_state /\ UNCHANGED exited
  <2> DEFINE o == Moved(orders[c], next_state(c, f), filled_after(c, f))
  <2>1. /\ fill_admitted(c, f) /\ known(c)
        /\ orders' = [orders EXCEPT ![c] = o] /\ applied_fills' = applied_fills \union {<<c, f>>}
        /\ ~is_terminal(orders[c].state)
    BY <1>6, TerminalHasNoExit DEF apply_fill, fill_admitted, GatewayInv, GatewayTypeOK, TypeOK
  <2>2. /\ filled_after(c, f) = Cardinality(FillsOf(c) \union {f})
        /\ next_state(c, f) = "Filled" => c \notin Executable
    BY <1>1, <1>4, <2>1, FilledIsOver
  <2>3. /\ o \in Order /\ o.state = next_state(c, f) /\ o.quantity = orders[c].quantity
        /\ o.filled = filled_after(c, f) /\ o.state # "Created"
        /\ is_terminal(o.state) => c \notin Executable
    <3>1. orders[c] \in Order /\ FillQty[f] \in Nat
      BY <2>1, KnownOrders, FillQtyAssumption DEF GatewayInv, GatewayTypeOK
    <3>2. next_state(c, f) \in {"Filled", "PartiallyFilled"}
      BY DEF next_state
    <3> QED
      BY <2>2, <3>1, <3>2 DEF Order, OrderStates, Moved, filled_after, is_terminal, TerminalStates
  <2> HIDE DEF o
  <2>4. /\ \A d \in ClientOrderIds : known(d)' = known(d)
        /\ \A d \in ClientOrderIds : known(d)' =>
               orders'[d].quantity = Terms[d].quantity /\ orders'[d].state # "Created"
        /\ open_orders' = IF is_terminal(o.state) THEN open_orders \ {c} ELSE open_orders
    BY <2>1, <2>3, StoreMoved
  <2>5. SubmitsOK' /\ UpdatesTrue' /\ FillsTrue'
    BY <1>1, <1>2, <1>4, <2>1, <2>4, AgreementKept DEF GatewayInv, FillsTrue
  <2>6. OpenWithinLimit' /\ OpenDoNotCross'
    BY <2>4, FewerOpen
  <2>7. StoreTrue'
    <3>1. \A d \in ClientOrderIds \ {c} :
              orders'[d].filled = orders[d].filled /\ FillsOf(d)' = FillsOf(d)
      BY <2>1 DEF GatewayInv, GatewayTypeOK, TypeOK, FillsOf
    <3>2. orders'[c].filled = filled_after(c, f) /\ FillsOf(c)' = FillsOf(c) \union {f}
      BY <2>1, <2>3 DEF GatewayInv, GatewayTypeOK, TypeOK, FillsOf
    <3> QED
      BY <1>1, <2>2, <2>4, <3>1, <3>2 DEF GatewayInv, StoreTrue
  <2>8. NoOrphanOrders'
    BY <1>1, <2>3, <2>4 DEF GatewayInv, NoOrphanOrders, Executable
  <2>9. OpenOrdersSynced'
    BY <1>6, CountCopied DEF OmsInv
  <2> QED
    BY <2>5, <2>6, <2>7, <2>8, <2>9 DEF BookInv
<1>7. CASE apply_fill_torn(c, f) /\ exited' = TRUE /\ UNCHANGED sleeve_open_orders
  <2> DEFINE o == Moved(orders[c], orders[c].state, filled_after(c, f))
  <2>1. known(c) /\ orders' = [orders EXCEPT ![c] = o] /\ UNCHANGED applied_fills
    BY <1>7 DEF apply_fill_torn, fill_admitted, GatewayInv, GatewayTypeOK, TypeOK
  <2>2. orders[c] \in Order /\ FillQty[f] \in Nat /\ orders[c].state # "Created"
    BY <2>1, KnownOrders, FillQtyAssumption DEF GatewayInv, GatewayTypeOK, StoreTrue
  <2>3. o \in Order /\ o.state = orders[c].state /\ o.quantity = orders[c].quantity
    BY <2>2 DEF Order, Moved, filled_after
  <2> HIDE DEF o
  <2>4. /\ \A d \in ClientOrderIds : known(d)' = known(d)
        /\ \A d \in ClientOrderIds : known(d)' =>
               orders'[d].quantity = Terms[d].quantity /\ orders'[d].state # "Created"
        /\ open_orders' = IF is_terminal(o.state) THEN open_orders \ {c} ELSE open_orders
    BY <2>1, <2>2, <2>3, StoreMoved
  <2>5. open_orders' = open_orders
    BY <2>3, <2>4 DEF open_orders
  <2>6. SubmitsOK' /\ UpdatesTrue' /\ FillsTrue'
    BY <1>1, <1>2, <2>1, <2>4, AgreementKept DEF GatewayInv, FillsTrue
  <2>7. OpenWithinLimit' /\ OpenDoNotCross'
    BY <2>5, FewerOpen
  <2>8. StoreTrue'
    BY <1>7, <2>4 DEF StoreTrue
  <2>9. NoOrphanOrders'
    BY <1>1, <2>5 DEF GatewayInv, NoOrphanOrders, Executable
  <2>10. OpenOrdersSynced'
    BY <1>1, <1>7, <2>5 DEF GatewayInv, OpenOrdersSynced
  <2> QED
    BY <2>6, <2>7, <2>8, <2>9, <2>10 DEF BookInv
<1>8. \/ UNCHANGED <<omsVars, sleeve_open_orders, positions, exited>>
      \/ apply_fill(c, f) /\ sync_runtime_state /\ UNCHANGED exited
      \/ apply_fill_torn(c, f) /\ exited' = TRUE /\ UNCHANGED sleeve_open_orders
  <2>1. Head(fill_feed)[1] = c /\ Head(fill_feed)[2] = f
    BY <1>3
  <2> QED
    BY <2>1 DEF apply_fill_event
<1> QED
  BY <1>5, <1>6, <1>7, <1>8
-----------------------------------------------------------------------------
(* The venue. *)

(* A step of the venue leaves the store as it is. *)
LEMMA VenueKeepsBook ==
    ASSUME GatewayInv, VenueStep, SubmitsOK', UpdatesTrue', FillsTrue',
           Executable' \subseteq Executable
    PROVE  BookInv'
<1>1. /\ open_orders' = open_orders
      /\ StoreTrue' /\ OpenOrdersSynced' /\ OpenWithinLimit' /\ OpenDoNotCross'
  BY StoreRests DEF VenueStep, omsVars, gatewayOnly, runnerOnly
<1>2. NoOrphanOrders'
  BY <1>1 DEF GatewayInv, NoOrphanOrders
<1> QED
  BY <1>1, <1>2 DEF BookInv

(* What a step of the venue adds to the updates has to be true; what was   *)
(* queued stays true as long as the orders it is about keep their end.     *)
LEMMA UpdatesStayTrue ==
    ASSUME GatewayInv, NEW u \in VenueUpdate,
           \/ order_feed' = Append(order_feed, u)
           \/ UNCHANGED order_feed,
           u.status \in Endings => venue_orders'[u.order] = "done",
           u.status = "rejected" => venue_orders'[u.order] = "refused",
           \A d \in ClientOrderIds :
               venue_orders[d] \in {"done", "refused"} => venue_orders'[d] = venue_orders[d]
    PROVE  UpdatesTrue' /\ order_feed' \in Seq(VenueUpdate)
<1>1. order_feed \in Seq(VenueUpdate)
  BY DEF GatewayInv, GatewayTypeOK, VenueUpdate
<1>2. /\ order_feed' \in Seq(VenueUpdate)
      /\ Messages(order_feed') \subseteq Messages(order_feed) \union {u}
  <2>1. CASE order_feed' = Append(order_feed, u)
    BY <1>1, <2>1, FeedSent
  <2>2. CASE UNCHANGED order_feed
    BY <1>1, <2>2
  <2> QED
    BY <2>1, <2>2
<1>3. \A m \in Messages(order_feed) : m.order \in ClientOrderIds
  <2>1. \A k \in 1 .. Len(order_feed) : order_feed[k] \in VenueUpdate
    BY <1>1
  <2>2. \A m \in VenueUpdate : m.order \in ClientOrderIds
    BY DEF VenueUpdate
  <2> QED
    BY <2>1, <2>2 DEF Messages
<1>4. \A m \in Messages(order_feed) :
          /\ m.status \in Endings => venue_orders'[m.order] = "done"
          /\ m.status = "rejected" => venue_orders'[m.order] = "refused"
  BY <1>3 DEF GatewayInv, UpdatesTrue
<1> QED
  BY <1>2, <1>4 DEF UpdatesTrue

(* The venue knows which orders it was sent. *)
LEMMA VenueKnows ==
    ASSUME GatewayInv, NEW c \in ClientOrderIds
    PROVE  /\ c \in wire => known(c) /\ venue_orders[c] = "none" /\ executed(c) = {}
           /\ venue_orders[c] # "none" => known(c) /\ c \notin wire
<1>1. c \in wire => executed(c) = {}
  BY DEF GatewayInv, FillsTrue, executed
<1> QED
  BY <1>1 DEF GatewayInv, SubmitsOK

(* The venue takes an order off the wire, which it then holds or has       *)
(* refused.                                                                *)
LEMMA AcceptKeepsBook ==
    ASSUME GatewayInv, NEW c \in ClientOrderIds, VenueAccept(c) \/ VenueRefuse(c)
    PROVE  BookInv'
<1>1. /\ c \in wire /\ wire' = wire \ {c} /\ VenueStep
      /\ venue_orders' = [venue_orders EXCEPT ![c] = venue_orders'[c]]
      /\ venue_orders'[c] \in {"live", "refused"}
      /\ UNCHANGED <<venue_fills, fill_feed>>
  BY DEF VenueAccept, VenueRefuse, GatewayInv, GatewayTypeOK
<1>2. /\ \A d \in ClientOrderIds : known(d)' = known(d)
      /\ UNCHANGED <<applied_fills, in_flight>>
  BY <1>1 DEF VenueStep, omsVars, runnerOnly, known
<1>3. wire \subseteq ClientOrderIds
      /\ venue_orders \in [ClientOrderIds -> {"none", "live", "refused", "done"}]
      /\ in_flight \subseteq ClientOrderIds
      /\ venue_fills \subseteq ClientOrderIds \X FillIds
  BY DEF GatewayInv, GatewayTypeOK
<1>4. known(c) /\ venue_orders[c] = "none" /\ executed(c) = {}
  BY <1>1, VenueKnows
<1>5. \A d \in ClientOrderIds \ {c} : venue_orders'[d] = venue_orders[d]
  BY <1>1, <1>3
<1>6. SubmitsOK'
  BY <1>1, <1>2, <1>3, <1>4, <1>5 DEF GatewayInv, SubmitsOK
<1>7. UpdatesTrue'
  <2> DEFINE u == [order |-> c, status |-> IF venue_orders'[c] = "live"
                                             THEN "resting" ELSE "rejected"]
  <2>1. u \in VenueUpdate /\ u.order = c /\ u.status \notin Endings
    BY DEF VenueUpdate, UpdateStatuses, Endings
  <2>2. order_feed' = Append(order_feed, u) \/ UNCHANGED order_feed
    BY <1>3 DEF VenueAccept, VenueRefuse, Update
  <2>3. /\ u.status \in Endings => venue_orders'[u.order] = "done"
        /\ u.status = "rejected" => venue_orders'[u.order] = "refused"
    BY <1>1, <2>1
  <2> HIDE DEF u
  <2> QED
    BY <1>4, <1>5, <2>1, <2>2, <2>3, UpdatesStayTrue
<1>8. FillsTrue'
  <2>1. \A d \in ClientOrderIds : executed(d)' = executed(d)
    BY <1>1 DEF executed
  <2>2. \A p \in venue_fills : known(p[1])' /\ p[1] \notin wire'
    BY <1>1, <1>2, <1>3 DEF GatewayInv, FillsTrue
  <2>3. /\ Messages(fill_feed)' \subseteq venue_fills'
        /\ applied_fills' \subseteq venue_fills'
        /\ \A p \in venue_fills' : FillQty[p[2]] = 1
    BY <1>1, <1>2 DEF GatewayInv, FillsTrue, Messages
  <2>4. \A d \in ClientOrderIds :
            /\ IsFiniteSet(executed(d))
            /\ Cardinality(executed(d)) <= Terms[d].quantity
            /\ venue_orders'[d] = "live" /\ executed(d) # {}
                   => Cardinality(executed(d)) < Terms[d].quantity
            /\ venue_orders'[d] = "refused" => executed(d) = {}
    BY <1>4, <1>5 DEF GatewayInv, FillsTrue
  <2> QED
    BY <1>1, <2>1, <2>2, <2>3, <2>4 DEF FillsTrue
<1>9. Executable' \subseteq Executable
  BY <1>1, <1>5 DEF Executable
<1> QED
  BY <1>1, <1>6, <1>7, <1>8, <1>9, VenueKeepsBook

(* An order the venue cancels is done there before the store can read of   *)
(* it.                                                                     *)
LEMMA CancelKeepsBook ==
    ASSUME GatewayInv, NEW c \in ClientOrderIds, VenueCancel(c)
    PROVE  BookInv'
<1>1. /\ venue_orders[c] = "live" /\ VenueStep
      /\ venue_orders'[c] = "done"
      /\ \A d \in ClientOrderIds \ {c} : venue_orders'[d] = venue_orders[d]
      /\ \E s \in {"canceled", "expired"} :
             order_feed' = Append(order_feed, [order |-> c, status |-> s])
      /\ UNCHANGED <<wire, venue_fills, fill_feed>>
  BY DEF VenueCancel, Update, GatewayInv, GatewayTypeOK
<1>2. /\ \A d \in ClientOrderIds : known(d)' = known(d)
      /\ UNCHANGED <<applied_fills, in_flight>>
  BY <1>1 DEF VenueStep, omsVars, runnerOnly, known
<1>3. wire \subseteq ClientOrderIds /\ in_flight \subseteq ClientOrderIds
      /\ venue_fills \subseteq ClientOrderIds \X FillIds
  BY DEF GatewayInv, GatewayTypeOK
<1>4. known(c) /\ c \notin wire
  BY <1>1, VenueKnows
<1>5. SubmitsOK'
  BY <1>1, <1>2, <1>3, <1>4 DEF GatewayInv, SubmitsOK
<1>6. UpdatesTrue'
  <2> PICK s \in {"canceled", "expired"} :
         order_feed' = Append(order_feed, [order |-> c, status |-> s])
    BY <1>1
  <2> DEFINE u == [order |-> c, status |-> s]
  <2>1. u \in VenueUpdate /\ u.order = c /\ u.status # "rejected"
    BY DEF VenueUpdate, UpdateStatuses
  <2>2. order_feed' = Append(order_feed, u)
    OBVIOUS
  <2> HIDE DEF u
  <2> QED
    BY <1>1, <2>1, <2>2, UpdatesStayTrue
<1>7. FillsTrue'
  <2>1. \A d \in ClientOrderIds : executed(d)' = executed(d)
    BY <1>1 DEF executed
  <2>2. \A p \in venue_fills : known(p[1])' = known(p[1])
    BY <1>2, <1>3
  <2> QED
    BY <1>1, <1>2, <2>1, <2>2 DEF GatewayInv, FillsTrue, Messages
<1>8. Executable' \subseteq Executable
  BY <1>1 DEF Executable
<1> QED
  BY <1>1, <1>5, <1>6, <1>7, <1>8, VenueKeepsBook

(* Executing the last contract of an order ends it. *)
LEMMA ExecutionKeepsBook ==
    ASSUME GatewayInv, NEW c \in ClientOrderIds, NEW f \in FillIds, VenueFill(c, f)
    PROVE  BookInv'
<1> DEFINE left == Terms[c].quantity - Cardinality(executed(c))
<1>1. /\ venue_orders[c] = "live" /\ VenueStep
      /\ f \notin executed(c) /\ FillQty[f] = 1 /\ left >= 1
      /\ venue_orders'[c] = IF left = 1 THEN "done" ELSE "live"
      /\ \A d \in ClientOrderIds \ {c} : venue_orders'[d] = venue_orders[d]
      /\ ExecutionUpdate(c, left = 1)
      /\ venue_fills' = venue_fills \union {<<c, f>>}
      /\ fill_feed' = Append(fill_feed, <<c, f>>)
      /\ UNCHANGED wire
  BY DEF VenueFill, Update, GatewayInv, GatewayTypeOK
<1>2. /\ \A d \in ClientOrderIds : known(d)' = known(d)
      /\ UNCHANGED <<applied_fills, in_flight>>
  BY <1>1 DEF VenueStep, omsVars, runnerOnly, known
<1>3. wire \subseteq ClientOrderIds /\ in_flight \subseteq ClientOrderIds
      /\ venue_fills \subseteq ClientOrderIds \X FillIds
      /\ fill_feed \in Seq(ClientOrderIds \X FillIds)
  BY DEF GatewayInv, GatewayTypeOK
<1>4. known(c) /\ c \notin wire
  BY <1>1, VenueKnows
<1>5. SubmitsOK'
  BY <1>1, <1>2, <1>3, <1>4 DEF GatewayInv, SubmitsOK
<1>6. UpdatesTrue'
  <2>1. PICK u \in VenueUpdate :
            /\ u.order = c /\ u.status # "rejected"
            /\ u.status \in Endings => left = 1
            /\ order_feed' = Append(order_feed, u) \/ UNCHANGED order_feed
    <3> DEFINE says(s) == [order |-> c, status |-> s]
    <3>1. CASE left = 1 /\ \E s \in {"filled", "executed"} : Update(c, s)
      <4> PICK s \in {"filled", "executed"} : Update(c, s)
        BY <3>1
      <4> says(s) \in VenueUpdate
        BY DEF VenueUpdate, UpdateStatuses
      <4> WITNESS says(s) \in VenueUpdate
      <4> QED
        BY <3>1 DEF Update
    <3>2. CASE Update(c, "partially_filled") \/ UNCHANGED order_feed
      <4> says("partially_filled") \in VenueUpdate
        BY DEF VenueUpdate, UpdateStatuses
      <4> WITNESS says("partially_filled") \in VenueUpdate
      <4> QED
        BY <3>2 DEF Update, Endings
    <3> QED
      BY <1>1, <3>1, <3>2 DEF ExecutionUpdate
  <2>2. /\ u.status \in Endings => venue_orders'[u.order] = "done"
        /\ u.status = "rejected" => venue_orders'[u.order] = "refused"
    BY <1>1, <2>1
  <2> QED
    BY <1>1, <2>1, <2>2, UpdatesStayTrue
<1>7. FillsTrue'
  <2>1. Messages(fill_feed') = Messages(fill_feed) \union {<<c, f>>}
    BY <1>1, <1>3, FeedSent
  <2>2. \A d \in ClientOrderIds \ {c} : executed(d)' = executed(d)
    BY <1>1 DEF executed
  <2>3. executed(c)' = executed(c) \union {f}
    BY <1>1 DEF executed
  <2>4. IsFiniteSet(executed(c)) /\ Cardinality(executed(c)) \in Nat
    BY FS_CardinalityType DEF GatewayInv, FillsTrue
  <2>5. IsFiniteSet(executed(c)') /\ Cardinality(executed(c)') = Cardinality(executed(c)) + 1
    BY <1>1, <2>3, <2>4, FS_AddElement
  <2>6. \A d \in ClientOrderIds :
            /\ IsFiniteSet(executed(d)')
            /\ Cardinality(executed(d)') <= Terms[d].quantity
            /\ venue_orders'[d] = "live" /\ executed(d)' # {}
                   => Cardinality(executed(d)') < Terms[d].quantity
            /\ venue_orders'[d] = "refused" => executed(d)' = {}
    <3>1. Terms[c].quantity \in Nat
      BY SentIsOrder
    <3>2. ASSUME NEW d \in ClientOrderIds \ {c}
          PROVE  /\ IsFiniteSet(executed(d)')
                 /\ Cardinality(executed(d)') <= Terms[d].quantity
                 /\ venue_orders'[d] = "live" /\ executed(d)' # {}
                        => Cardinality(executed(d)') < Terms[d].quantity
                 /\ venue_orders'[d] = "refused" => executed(d)' = {}
      BY <1>1, <2>2 DEF GatewayInv, FillsTrue
    <3>3. /\ Cardinality(executed(c)') <= Terms[c].quantity
          /\ venue_orders'[c] = "live" => Cardinality(executed(c)') < Terms[c].quantity
          /\ venue_orders'[c] # "refused"
      BY <1>1, <2>4, <2>5, <3>1
    <3> QED
      BY <2>5, <3>2, <3>3
  <2>7. \A p \in venue_fills' : FillQty[p[2]] = 1 /\ known(p[1])' /\ p[1] \notin wire'
    BY <1>1, <1>2, <1>3, <1>4 DEF GatewayInv, FillsTrue
  <2> QED
    BY <1>1, <1>2, <2>1, <2>6, <2>7 DEF GatewayInv, FillsTrue
<1>8. Executable' \subseteq Executable
  BY <1>1 DEF Executable
<1> QED
  BY <1>1, <1>5, <1>6, <1>7, <1>8, VenueKeepsBook

(* A fill sent again, and messages lost, say nothing new. *)
LEMMA ChannelKeepsBook ==
    ASSUME GatewayInv,
           \/ \E c \in ClientOrderIds, f \in FillIds : VenueRedeliver(c, f)
           \/ Reconnect
    PROVE  BookInv'
<1>1. /\ VenueStep /\ UNCHANGED <<wire, venue_orders, venue_fills>>
  BY DEF VenueRedeliver, Reconnect
<1>2. /\ \A d \in ClientOrderIds : known(d)' = known(d)
      /\ UNCHANGED <<orders, applied_fills, in_flight>>
  BY <1>1 DEF VenueStep, omsVars, runnerOnly, known
<1>3. /\ order_feed \in Seq(VenueUpdate) /\ fill_feed \in Seq(ClientOrderIds \X FillIds)
      /\ wire \subseteq ClientOrderIds /\ in_flight \subseteq ClientOrderIds
      /\ venue_fills \subseteq ClientOrderIds \X FillIds
  BY DEF GatewayInv, GatewayTypeOK, VenueUpdate
<1>4. Messages(order_feed') \subseteq Messages(order_feed)
      /\ Messages(fill_feed') \subseteq venue_fills
  <2>1. Messages(fill_feed) \subseteq venue_fills
    BY DEF GatewayInv, FillsTrue
  <2>2. ASSUME NEW c \in ClientOrderIds, NEW f \in FillIds, VenueRedeliver(c, f)
        PROVE  Messages(fill_feed') \subseteq venue_fills /\ UNCHANGED order_feed
    BY SMTT(20), <1>3, <2>1, <2>2, FeedSent DEF VenueRedeliver
  <2>3. CASE Reconnect
    <3>1. PICK n \in 0 .. Len(order_feed), m \in 0 .. Len(fill_feed) :
              order_feed' = SubSeq(order_feed, 1, n) /\ fill_feed' = SubSeq(fill_feed, 1, m)
      BY <2>3 DEF Reconnect
    <3>2. Messages(order_feed') \subseteq Messages(order_feed)
      BY <1>3, <3>1, FeedCut
    <3>3. Messages(fill_feed') \subseteq Messages(fill_feed)
      BY <1>3, <3>1, FeedCut
    <3> QED
      BY <2>1, <3>2, <3>3
  <2> QED
    BY <2>2, <2>3
<1>5. SubmitsOK'
  BY <1>1, <1>2, <1>3 DEF GatewayInv, SubmitsOK
<1>6. UpdatesTrue'
  BY <1>1, <1>4 DEF GatewayInv, UpdatesTrue
<1>7. FillsTrue'
  <2>1. \A d \in ClientOrderIds : executed(d)' = executed(d)
    BY <1>1 DEF executed
  <2>2. \A p \in venue_fills : known(p[1])' = known(p[1])
    BY <1>2, <1>3
  <2> QED
    BY <1>1, <1>2, <1>4, <2>1, <2>2 DEF GatewayInv, FillsTrue
<1>8. Executable' \subseteq Executable
  BY <1>1 DEF Executable
<1> QED
  BY <1>1, <1>5, <1>6, <1>7, <1>8, VenueKeepsBook
-----------------------------------------------------------------------------
(* The whole step. *)

(* Market data, the clock, cancels and refused intents. *)
Aside == \/ refuse_place \/ ClockTick
         \/ \E c \in ClientOrderIds : cancel(c)
         \/ \E i \in Instruments :
                \/ suspend_market(i) \/ resume_market(i)
                \/ \E valid \in BOOLEAN : record_quote(i, valid)

(* These handlers touch neither the store nor the channels.                *)
LEMMA AsideKeepsBook ==
    ASSUME GatewayInv, Aside
    PROVE  BookInv'
<1>1. UNCHANGED <<omsVars, sleeve_open_orders, in_flight, exited, wire, venue_orders,
                  venue_fills, order_feed, fill_feed>>
  BY DEF Aside, refuse_place, ClockTick, cancel, suspend_market, resume_market,
         LifecycleEvent, record_quote, runnerOnly, venueOnly
<1> QED
  BY <1>1, BookUntouched

(* Every step keeps what loop and venue believe of each other.             *)
LEMMA BookKept ==
    ASSUME GatewayInv, OmsInv', [GatewayNext]_gatewayVars
    PROVE  BookInv'
<1>1. CASE \E c \in ClientOrderIds : place(c)
  BY <1>1, PlaceKeepsBook
<1>2. CASE \E c \in ClientOrderIds :
             finalize_accepted(c) \/ finalize_rejected(c) \/ finalize_unknown(c)
  BY <1>2, FinalizeKeepsBook
<1>3. CASE apply_order_update
  BY <1>3, UpdateKeepsBook
<1>4. CASE apply_fill_event
  BY <1>4, FillKeepsBook
<1>5. CASE \E c \in ClientOrderIds : VenueAccept(c) \/ VenueRefuse(c)
  BY <1>5, AcceptKeepsBook
<1>6. CASE \E c \in ClientOrderIds : VenueCancel(c)
  BY <1>6, CancelKeepsBook
<1>7. CASE \E c \in ClientOrderIds, f \in FillIds : VenueFill(c, f)
  BY <1>7, ExecutionKeepsBook
<1>8. CASE (\E c \in ClientOrderIds, f \in FillIds : VenueRedeliver(c, f)) \/ Reconnect
  BY <1>8, ChannelKeepsBook
<1>9. CASE Aside
  BY <1>9, AsideKeepsBook
<1>10. CASE UNCHANGED gatewayVars
  BY <1>10, BookUntouched DEF gatewayVars, gatewayOnly, runnerOnly, venueOnly
<1> QED
  BY <1>1, <1>2, <1>3, <1>4, <1>5, <1>6, <1>7, <1>8, <1>9, <1>10 DEF GatewayNext, Aside

(* A quote read while a market is halted does not outlive the halt.        *)
LEMMA QuotesKept ==
    ASSUME GatewayInv, [GatewayNext]_gatewayVars
    PROVE  QuotesSinceHalt'
<1> USE DEF QuotesSinceHalt
<1>1. /\ QuotesSinceHalt
      /\ quote \in [Instruments -> [at : 0 .. MaxTime, seen : BOOLEAN, bbo : BOOLEAN]]
      /\ market_state \in [Instruments -> {"None", "Tradable", "Suspended"}]
  BY DEF GatewayInv, GatewayTypeOK
<1>2. ASSUME NEW i \in Instruments, suspend_market(i) PROVE QuotesSinceHalt'
  <2>1. /\ quote'[i].seen = FALSE
        /\ \A j \in Instruments \ {i} : quote'[j] = quote[j]
    BY <1>1, <1>2 DEF suspend_market, NoQuote
  <2>2. quoted_since_halt \ {i} \subseteq quoted_since_halt'
    BY <1>2 DEF suspend_market, LifecycleEvent
  <2> QED
    BY <1>1, <2>1, <2>2
<1>3. ASSUME NEW i \in Instruments, resume_market(i) PROVE QuotesSinceHalt'
  <2>1. market_state'[i] = "Tradable"
    BY <1>1, <1>3 DEF resume_market
  <2>2. CASE market_state[i] = "Suspended"
    <3>1. /\ quote'[i].seen = FALSE
          /\ \A j \in Instruments \ {i} : quote'[j] = quote[j]
      BY <1>1, <1>3, <2>2 DEF resume_market, NoQuote
    <3>2. quoted_since_halt' = quoted_since_halt \ {i}
      BY <1>3, <2>2 DEF resume_market, LifecycleEvent
    <3> QED
      BY <1>1, <3>1, <3>2
  <2>3. CASE market_state[i] # "Suspended"
    BY <1>1, <1>3, <2>1, <2>3 DEF resume_market, LifecycleEvent
  <2> QED
    BY <2>2, <2>3
<1>4. ASSUME NEW i \in Instruments, NEW valid \in BOOLEAN, record_quote(i, valid)
      PROVE  QuotesSinceHalt'
  BY <1>1, <1>4 DEF record_quote
<1>5. CASE UNCHANGED <<quote, quoted_since_halt>>
  BY <1>1, <1>5
<1>6. ASSUME NEW c \in ClientOrderIds,
             place(c) \/ finalize_accepted(c) \/ finalize_rejected(c)
                \/ finalize_unknown(c) \/ cancel(c)
      PROVE  UNCHANGED <<quote, quoted_since_halt>>
  BY <1>6 DEF place, finalize_accepted, finalize_rejected, finalize_unknown, Finalized,
              cancel, history
<1>7. CASE apply_order_update \/ apply_fill_event \/ refuse_place \/ ClockTick
  <2>1. UNCHANGED <<quote, quoted_since_halt>>
    BY <1>7 DEF apply_order_update, UpdateRead, apply_fill_event, FillRead, refuse_place,
                ClockTick, history
  <2> QED
    BY <1>5, <2>1
<1>8. ASSUME VenueStep PROVE UNCHANGED <<quote, quoted_since_halt>>
  BY <1>8 DEF VenueStep, gatewayOnly
<1>9. CASE UNCHANGED gatewayVars
  BY <1>5, <1>9 DEF gatewayVars, gatewayOnly, history
<1> QED
  BY <1>2, <1>3, <1>4, <1>5, <1>6, <1>7, <1>8, <1>9
     DEF GatewayNext, VenueAccept, VenueRefuse, VenueCancel, VenueFill, VenueRedeliver, Reconnect

(* Cancels are counted against the budget of the second. *)
LEMMA SuspendKeepsTypes ==
    ASSUME GatewayTypeOK, TypeOK', NEW i \in Instruments, suspend_market(i)
    PROVE  GatewayTypeOK'
<1>1. PICK sent \in SUBSET open_on(i) :
          /\ Cardinality(sent) <= MaxCancelsPerSecond - cancels_this_second
          /\ cancels_this_second' = cancels_this_second + Cardinality(sent)
          /\ cancels_sent' = cancels_sent \union sent
  BY DEF suspend_market
<1>2. open_on(i) \subseteq open_orders /\ open_orders \subseteq ClientOrderIds
  BY DEF open_on, open_orders
<1>3. Cardinality(sent) \in Nat /\ sent \subseteq ClientOrderIds
  BY <1>2, OpenOrdersFinite, FS_Subset, FS_CardinalityType
<1>4. cancels_this_second' \in 0 .. MaxCancelsPerSecond
  BY <1>1, <1>3, LimitsAssumption DEF GatewayTypeOK
<1>5. cancels_sent' \subseteq ClientOrderIds
  BY <1>1, <1>3 DEF GatewayTypeOK
<1>6. /\ market_state' \in [Instruments -> {"None", "Tradable", "Suspended"}]
      /\ quote' \in [Instruments -> [at : 0 .. MaxTime, seen : BOOLEAN, bbo : BOOLEAN]]
      /\ quoted_since_halt' \subseteq Instruments
      /\ lifecycle_events' \in 0 .. MaxLifecycleEvents
  BY GatewayBoundsAssumption DEF suspend_market, LifecycleEvent, NoQuote, GatewayTypeOK
<1> QED
  BY <1>4, <1>5, <1>6 DEF suspend_market, LifecycleEvent, runnerOnly, venueOnly, GatewayTypeOK

(* Quotes, market states and budgets stay well-formed.                     *)
LEMMA MarketKeepsTypes ==
    ASSUME GatewayTypeOK, TypeOK', Aside
    PROVE  GatewayTypeOK'
<1> USE GatewayBoundsAssumption, LimitsAssumption
<1>1. ASSUME NEW i \in Instruments, resume_market(i) PROVE GatewayTypeOK'
  BY <1>1 DEF resume_market, LifecycleEvent, NoQuote, runnerOnly, venueOnly, GatewayTypeOK
<1>2. ASSUME NEW i \in Instruments, NEW valid \in BOOLEAN, record_quote(i, valid)
      PROVE  GatewayTypeOK'
  BY <1>2 DEF record_quote, runnerOnly, venueOnly, GatewayTypeOK
<1>3. ASSUME NEW c \in ClientOrderIds, cancel(c) PROVE GatewayTypeOK'
  BY <1>3 DEF cancel, runnerOnly, venueOnly, GatewayTypeOK
<1>4. CASE refuse_place
  BY <1>4 DEF refuse_place, runnerOnly, venueOnly, history, GatewayTypeOK
<1>5. CASE ClockTick
  BY <1>5 DEF ClockTick, runnerOnly, venueOnly, history, GatewayTypeOK
<1> QED
  BY <1>1, <1>2, <1>3, <1>4, <1>5, SuspendKeepsTypes DEF Aside

(* What the loop writes in the order path stays well-formed.               *)
LEMMA LoopKeepsTypes ==
    ASSUME GatewayInv, TypeOK',
           \/ \E c \in ClientOrderIds : place(c) \/ finalize_accepted(c)
                                          \/ finalize_rejected(c) \/ finalize_unknown(c)
           \/ apply_order_update
           \/ apply_fill_event
    PROVE  GatewayTypeOK'
<1>0. GatewayTypeOK
  BY DEF GatewayInv
<1>1. ASSUME NEW c \in ClientOrderIds, place(c) PROVE GatewayTypeOK'
  BY <1>0, <1>1, LimitsAssumption DEF place, history, GatewayTypeOK
<1>2. sync_runtime_state => sleeve_open_orders' \in Nat
  BY DEF sync_runtime_state, TypeOK
<1>3. ASSUME NEW c \in ClientOrderIds,
             finalize_accepted(c) \/ finalize_rejected(c) \/ finalize_unknown(c)
      PROVE  GatewayTypeOK'
  <2>1. sync_runtime_state /\ Finalized
    BY <1>3 DEF finalize_accepted, finalize_rejected, finalize_unknown
  <2> QED
    BY <1>0, <1>2, <2>1 DEF Finalized, venueOnly, history, GatewayTypeOK
<1>4. CASE apply_order_update
  <2>1. UpdateRead
    BY <1>4 DEF apply_order_update
  <2>2. order_feed' \in Seq(VenueUpdate)
    BY <2>1, UpdateHead
  <2>3. sleeve_open_orders' \in Nat /\ exited' \in BOOLEAN
    BY <1>0, <1>2, <1>4 DEF apply_order_update, GatewayTypeOK
  <2> QED
    BY <1>0, <2>1, <2>2, <2>3 DEF UpdateRead, history, GatewayTypeOK, VenueUpdate
<1>5. CASE apply_fill_event
  <2>1. FillRead
    BY <1>5 DEF apply_fill_event
  <2>2. fill_feed' \in Seq(ClientOrderIds \X FillIds)
    BY <2>1, FillHead
  <2>3. PICK c \in ClientOrderIds, f \in FillIds : Head(fill_feed) = <<c, f>>
    BY <2>1, FillHead
  <2>4. Head(fill_feed)[1] = c /\ Head(fill_feed)[2] = f
    BY <2>3
  <2>5. sleeve_open_orders' \in Nat /\ exited' \in BOOLEAN
    BY <1>0, <1>2, <1>5 DEF apply_fill_event, GatewayTypeOK
  <2>6. signed(c, FillQty[f]) \in Int
    BY FillQtyAssumption DEF signed
  <2>7. positions' \in [Instruments -> Int]
    <3>1. \/ UNCHANGED positions
          \/ positions' = [positions EXCEPT ![Terms[c].instrument] = @ + signed(c, FillQty[f])]
      BY <1>5, <2>4 DEF apply_fill_event
    <3> QED
      BY <1>0, <2>6, <3>1 DEF GatewayTypeOK
  <2> QED
    BY <1>0, <2>1, <2>2, <2>5, <2>7 DEF FillRead, history, GatewayTypeOK
<1> QED
  BY <1>1, <1>3, <1>4, <1>5

(* What the venue writes stays well-formed.                                *)
LEMMA VenueKeepsTypes ==
    ASSUME GatewayTypeOK, TypeOK',
           \/ \E c \in ClientOrderIds :
                  \/ VenueAccept(c) \/ VenueRefuse(c) \/ VenueCancel(c)
                  \/ \E f \in FillIds : VenueFill(c, f) \/ VenueRedeliver(c, f)
           \/ Reconnect
    PROVE  GatewayTypeOK'
<1>1. order_feed \in Seq(VenueUpdate) /\ fill_feed \in Seq(ClientOrderIds \X FillIds)
  BY DEF GatewayTypeOK, VenueUpdate
<1>2. ASSUME NEW c \in ClientOrderIds,
             NEW s \in UpdateStatuses, Update(c, s)
      PROVE  order_feed' \in Seq(VenueUpdate)
  BY <1>1, <1>2, FeedSent DEF Update, VenueUpdate
<1>3. ASSUME NEW c \in ClientOrderIds, NEW f \in FillIds,
             fill_feed' = Append(fill_feed, <<c, f>>)
      PROVE  fill_feed' \in Seq(ClientOrderIds \X FillIds)
  BY <1>1, <1>3, FeedSent
<1> DEFINE VenueTypes ==
             /\ wire \subseteq ClientOrderIds
             /\ venue_orders \in [ClientOrderIds -> {"none", "live", "refused", "done"}]
             /\ venue_fills \subseteq ClientOrderIds \X FillIds
             /\ order_feed \in Seq(VenueUpdate)
             /\ fill_feed \in Seq(ClientOrderIds \X FillIds)
             /\ redeliveries \in 0 .. MaxRedeliveries
             /\ disconnected \in BOOLEAN
<1>4. VenueTypes
  BY DEF GatewayTypeOK, VenueUpdate
<1>5. ASSUME NEW c \in ClientOrderIds, VenueAccept(c) \/ VenueRefuse(c) \/ VenueCancel(c)
      PROVE  VenueTypes'
  <2>1. (\E s \in UpdateStatuses : Update(c, s)) \/ UNCHANGED order_feed
    BY <1>5 DEF VenueAccept, VenueRefuse, VenueCancel, UpdateStatuses
  <2>2. order_feed' \in Seq(VenueUpdate)
    BY <1>1, <1>2, <2>1
  <2> QED
    BY <1>4, <1>5, <2>2 DEF VenueAccept, VenueRefuse, VenueCancel
<1>6. ASSUME NEW c \in ClientOrderIds, NEW f \in FillIds, VenueFill(c, f)
      PROVE  VenueTypes'
  <2>1. (\E s \in UpdateStatuses : Update(c, s)) \/ UNCHANGED order_feed
    BY <1>6 DEF VenueFill, ExecutionUpdate, UpdateStatuses
  <2>2. order_feed' \in Seq(VenueUpdate) /\ fill_feed' \in Seq(ClientOrderIds \X FillIds)
    BY <1>1, <1>2, <1>3, <1>6, <2>1 DEF VenueFill
  <2> QED
    BY <1>4, <1>6, <2>2 DEF VenueFill
<1>7. ASSUME NEW c \in ClientOrderIds, NEW f \in FillIds, VenueRedeliver(c, f)
      PROVE  VenueTypes'
  <2>1. fill_feed' \in Seq(ClientOrderIds \X FillIds)
    BY <1>3, <1>7 DEF VenueRedeliver
  <2> QED
    BY <1>4, <1>7, <2>1, GatewayBoundsAssumption DEF VenueRedeliver
<1>8. ASSUME Reconnect PROVE VenueTypes'
  <2>1. order_feed' \in Seq(VenueUpdate) /\ fill_feed' \in Seq(ClientOrderIds \X FillIds)
    BY <1>1, <1>8, FeedCut DEF Reconnect
  <2> QED
    BY <1>4, <1>8, <2>1 DEF Reconnect
<1>9. VenueTypes' /\ VenueStep
  BY <1>5, <1>6, <1>7, <1>8
     DEF VenueAccept, VenueRefuse, VenueCancel, VenueFill, VenueRedeliver, Reconnect
<1> QED
  BY <1>9 DEF VenueStep, gatewayOnly, runnerOnly, GatewayTypeOK, VenueUpdate

(* Every step keeps the types.                                             *)
LEMMA TypesKept ==
    ASSUME GatewayInv, TypeOK', [GatewayNext]_gatewayVars
    PROVE  GatewayTypeOK'
<1>1. GatewayTypeOK
  BY DEF GatewayInv
<1>2. CASE UNCHANGED gatewayVars
  BY <1>1, <1>2 DEF gatewayVars, gatewayOnly, runnerOnly, venueOnly, history, GatewayTypeOK
<1> QED
  BY <1>1, <1>2, LoopKeepsTypes, MarketKeepsTypes, VenueKeepsTypes DEF GatewayNext, Aside
-----------------------------------------------------------------------------
(* Every step keeps the inductive invariant.                               *)
LEMMA GatewayStep ==
    ASSUME GatewayInv, [GatewayNext]_gatewayVars
    PROVE  GatewayInv'
<1>1. OmsInv'
  BY StoreKept
<1>2. BookInv'
  BY <1>1, BookKept
<1>3. GatewayTypeOK'
  BY <1>1, TypesKept DEF OmsInv
<1> QED
  BY <1>1, <1>2, <1>3, QuotesKept DEF OmsInv, BookInv, GatewayInv

(* Nothing is sent, stored or believed at the start.                       *)
LEMMA GatewayInitial == ASSUME GatewayInit PROVE GatewayInv
<1>1. OmsInv
  BY OmsInitial DEF GatewayInit
<1>2. \A c \in ClientOrderIds : ~known(c) /\ orders[c].filled = 0
  BY DEF GatewayInit, Init, known, NoOrder
<1>3. open_orders = {}
  BY <1>2 DEF open_orders
<1>4. GatewayTypeOK
  <2>1. /\ now \in 0 .. MaxTime /\ redeliveries \in 0 .. MaxRedeliveries
        /\ lifecycle_events \in 0 .. MaxLifecycleEvents
        /\ orders_this_second \in 0 .. MaxOrdersPerSecond
        /\ cancels_this_second \in 0 .. MaxCancelsPerSecond
    BY LimitsAssumption, GatewayBoundsAssumption DEF GatewayInit
  <2>2. quote \in [Instruments -> [at : 0 .. MaxTime, seen : BOOLEAN, bbo : BOOLEAN]]
    BY GatewayBoundsAssumption DEF GatewayInit, NoQuote
  <2>3. /\ order_feed \in Seq(VenueUpdate)
        /\ fill_feed \in Seq(ClientOrderIds \X FillIds)
    BY DEF GatewayInit
  <2>4. /\ market_state \in [Instruments -> {"None", "Tradable", "Suspended"}]
        /\ positions \in [Instruments -> Int]
        /\ venue_orders \in [ClientOrderIds -> {"none", "live", "refused", "done"}]
    BY DEF GatewayInit
  <2> QED
    BY <1>1, <2>1, <2>2, <2>3, <2>4 DEF GatewayInit, GatewayTypeOK, OmsInv, VenueUpdate
<1>5. /\ order_feed = <<>> /\ fill_feed = <<>> /\ Messages(<<>>) = {}
      /\ venue_fills = {} /\ applied_fills = {}
  BY DEF GatewayInit, Init, Messages
<1>6. SubmitsOK /\ UpdatesTrue /\ NoOrphanOrders
  BY <1>5 DEF GatewayInit, SubmitsOK, UpdatesTrue, NoOrphanOrders, Executable
<1>7. FillsTrue
  <2>1. \A c \in ClientOrderIds : executed(c) = {} /\ Terms[c].quantity \in Nat
    BY <1>5, SentIsOrder DEF executed
  <2> QED
    BY <1>5, <2>1, FS_EmptySet DEF FillsTrue
<1>8. StoreTrue
  <2>1. \A c \in ClientOrderIds : FillsOf(c) = {}
    BY <1>5 DEF FillsOf
  <2> QED
    BY <1>2, <2>1, FS_EmptySet DEF StoreTrue
<1>9. OpenOrdersSynced /\ OpenWithinLimit /\ OpenDoNotCross
  BY <1>3, FS_EmptySet, LimitsAssumption
     DEF GatewayInit, OpenOrdersSynced, OpenWithinLimit, OpenDoNotCross
<1>10. QuotesSinceHalt
  BY DEF GatewayInit, QuotesSinceHalt, NoQuote
<1> QED
  BY <1>1, <1>4, <1>6, <1>7, <1>8, <1>9, <1>10 DEF OmsInv, GatewayInv

(* The inductive invariant of the order path holds in every reachable      *)
(* state, whatever the loop and the venue do in between each other's steps. *)
THEOREM GatewayInvariant == GatewaySpec => []GatewayInv
<1>1. GatewayInit => GatewayInv
  BY GatewayInitial
<1>2. GatewayInv /\ [GatewayNext]_gatewayVars => GatewayInv'
  BY GatewayStep
<1> QED
  BY <1>1, <1>2, PTL DEF GatewaySpec

(* The gateway, the loop and the venue only hold well-formed data, and the *)
(* rate budgets of orders and of cancels are never overspent.              *)
THEOREM GatewayTypeCorrect == GatewaySpec => []GatewayTypeOK
BY GatewayInvariant, PTL DEF GatewayInv

(* What the venue may still execute is open in the order store, although   *)
(* finalize_place has to guess on a submit that timed out and updates and  *)
(* fills overtake each other or are lost.                                  *)
THEOREM NoOrderOrphaned == GatewaySpec => []NoOrphanOrders
BY GatewayInvariant, PTL DEF GatewayInv

(* The count risk.evaluate reads between two events is the number of open  *)
(* orders: every handler that touches the store ends in a sync.            *)
THEOREM OpenOrdersAlwaysSynced == GatewaySpec => []OpenOrdersSynced
BY GatewayInvariant, PTL DEF GatewayInv

(* risk.evaluate's limit on open orders bounds what the venue may execute, *)
(* although the venue acts while the loop is waiting.                      *)
THEOREM VenueOrdersWithinLimit == GatewaySpec => []VenueOrdersBounded
<1>1. GatewayInv => VenueOrdersBounded
  <2> SUFFICES ASSUME GatewayInv PROVE VenueOrdersBounded
    OBVIOUS
  <2>1. Executable \subseteq open_orders
    BY DEF GatewayInv, NoOrphanOrders
  <2>2. /\ Cardinality(Executable) <= Cardinality(open_orders)
        /\ Cardinality(Executable) \in Nat
    BY <2>1, OpenOrdersFinite, FS_Subset, FS_CardinalityType
  <2> QED
    BY <2>2, OpenOrdersFinite, LimitsAssumption
       DEF GatewayInv, OpenWithinLimit, VenueOrdersBounded
<1> QED
  BY <1>1, GatewayInvariant, PTL

(* Own orders the venue may execute never cross: the self-cross check of   *)
(* prepare_one looks at the store's orders, the unknown ones included.     *)
THEOREM VenueOrdersNeverCross == GatewaySpec => []NoSelfCross
<1>1. GatewayInv => NoSelfCross
  BY DEF GatewayInv, NoOrphanOrders, OpenDoNotCross, NoSelfCross
<1> QED
  BY <1>1, GatewayInvariant, PTL

(* An order leaves the gateway only on a quote that is recent and was read *)
(* after the market's last suspension, and never into a suspended market.  *)
THEOREM PlacedOnlyOnFreshQuote == GatewaySpec => PlacedOnFreshQuote
<1> DEFINE Placed(c) ==
      LET i == Terms[c].instrument
      IN  /\ market_state[i] # "Suspended"
          /\ now - quote[i].at <= MaxQuoteAge
          /\ i \in quoted_since_halt
<1>1. GatewayInv /\ [GatewayNext]_gatewayVars
      => [\A c \in in_flight' \ in_flight : Placed(c)]_gatewayVars
  <2> SUFFICES ASSUME GatewayInv, [GatewayNext]_gatewayVars,
                      NEW c \in in_flight' \ in_flight
               PROVE  Placed(c)
    OBVIOUS
  <2>1. \E d \in ClientOrderIds : place(d)
    <3>1. CASE \E d \in ClientOrderIds : finalize_accepted(d) \/ finalize_rejected(d)
                                          \/ finalize_unknown(d)
      BY <3>1 DEF finalize_accepted, finalize_rejected, finalize_unknown, Finalized
    <3>2. CASE apply_order_update \/ apply_fill_event
      BY <3>2 DEF apply_order_update, UpdateRead, apply_fill_event, FillRead
    <3>3. CASE Aside
      BY <3>3 DEF Aside, refuse_place, ClockTick, cancel, suspend_market, resume_market,
                  LifecycleEvent, record_quote, runnerOnly
    <3>4. CASE VenueStep
      BY <3>4 DEF VenueStep, runnerOnly
    <3>5. CASE UNCHANGED gatewayVars
      BY <3>5 DEF gatewayVars, runnerOnly
    <3> QED
      BY <3>1, <3>2, <3>3, <3>4, <3>5
         DEF GatewayNext, Aside, VenueAccept, VenueRefuse, VenueCancel, VenueFill,
             VenueRedeliver, Reconnect
  <2>2. place(c) /\ c \in ClientOrderIds
    BY <2>1 DEF place
  <2>3. Terms[c].instrument \in Instruments
    BY <2>2, TermsAssumption DEF TermsSet
  <2>4. /\ market_state[Terms[c].instrument] # "Suspended"
        /\ market_data_fresh(Terms[c].instrument)
    BY <2>2 DEF place, admitted
  <2> QED
    BY <2>3, <2>4 DEF market_data_fresh, GatewayInv, QuotesSinceHalt
<1>2. GatewaySpec => [][\A c \in in_flight' \ in_flight : Placed(c)]_gatewayVars
  BY <1>1, GatewayInvariant, PTL DEF GatewaySpec
<1> QED
  BY <1>2 DEF PlacedOnFreshQuote
-----------------------------------------------------------------------------
(* Used by the gateway, the store still implements the order lifecycle: a  *)
(* placed order begins its life in the one step of prepare_one, and what   *)
(* the venue sends twice or too late neither revives it nor counts twice.  *)
THEOREM GatewayImplementsLifecycle == GatewaySpec => ImplementsLifecycle
<1>1. GatewayInit => Lifecycle!LifecycleInit
  BY DEF GatewayInit, Init, Lifecycle!LifecycleInit, PhaseOf, known
<1>2. ASSUME GatewayInv, NEW c \in ClientOrderIds, place(c)
      PROVE  Lifecycle!LifecycleNext
  <2>1. /\ TypeOK /\ ~known(c) /\ UNCHANGED applied_fills
        /\ orders' = [orders EXCEPT ![c] = Sent(c)]
    BY <1>2 DEF place, Sent, GatewayInv, GatewayTypeOK
  <2>2. Phases' = [Phases EXCEPT ![c] = "live"]
    BY <2>1, SentIsOrder, PhasesRewritten DEF is_terminal, TerminalStates
  <2>3. Phases[c] = "unused"
    BY <2>1 DEF Phases, PhaseOf
  <2>4. Lifecycle!Begin(c)
    BY <2>1, <2>2, <2>3 DEF Lifecycle!Begin, Phases
  <2> QED
    BY <2>4 DEF Lifecycle!LifecycleNext
<1>3. GatewayInv /\ [GatewayNext]_gatewayVars
      => [Lifecycle!LifecycleNext]_(Lifecycle!lifecycleVars)
  BY <1>2, StoreSteps, LifecycleStep DEF GatewayInv, GatewayTypeOK
<1> QED
  BY <1>1, <1>3, GatewayInvariant, PTL
     DEF GatewaySpec, ImplementsLifecycle, Lifecycle!LifecycleSpec
-----------------------------------------------------------------------------
(* The position risk reads.  Two facts carry it: the position is the net   *)
(* of the fills the store says it applied, and a fill of the venue that is *)
(* not among them is still in the feed, unless messages were lost or the   *)
(* loop stopped over the fill.                                             *)
PositionNetsApplied == \A i \in Instruments : positions[i] = NetOf(i, applied_fills)

UnappliedAreQueued ==
    ~exited /\ ~disconnected => venue_fills \subseteq applied_fills \union Messages(fill_feed)

PositionInv ==
    /\ GatewayInv
    /\ IsFiniteSet(venue_fills)
    /\ PositionNetsApplied
    /\ UnappliedAreQueued

(* The sets of fills a position is summed over are finite. *)
LEMMA FillsSummable ==
    ASSUME GatewayInv, IsFiniteSet(venue_fills), NEW fills, fills \subseteq venue_fills
    PROVE  \A i \in Instruments :
               /\ IsFiniteSet(FillsOn(i, fills))
               /\ \A p \in FillsOn(i, fills) : FillEffect[p] \in Int
               /\ NetOf(i, fills) \in Int
<1> SUFFICES ASSUME NEW i \in Instruments
             PROVE  /\ IsFiniteSet(FillsOn(i, fills))
                    /\ \A p \in FillsOn(i, fills) : FillEffect[p] \in Int
                    /\ NetOf(i, fills) \in Int
  OBVIOUS
<1>1. FillsOn(i, fills) \subseteq venue_fills
  BY DEF FillsOn
<1>2. IsFiniteSet(FillsOn(i, fills))
  BY <1>1, FS_Subset
<1>3. \A p \in FillsOn(i, fills) : FillEffect[p] \in Int
  <2>1. venue_fills \subseteq ClientOrderIds \X FillIds
    BY DEF GatewayInv, GatewayTypeOK
  <2>2. \A p \in ClientOrderIds \X FillIds : FillQty[p[2]] \in Nat
    BY FillQtyAssumption
  <2>3. \A p \in ClientOrderIds \X FillIds : FillEffect[p] \in Int
    BY <2>2 DEF FillEffect, signed
  <2> QED
    BY <1>1, <2>1, <2>3
<1>4. NetOf(i, fills) \in Int
  BY <1>2, <1>3, SumType DEF NetOf
<1> QED
  BY <1>2, <1>3, <1>4

(* A step that applies no fill leaves the position's fact alone. *)
LEMMA PositionKept ==
    ASSUME PositionNetsApplied, UNCHANGED <<positions, applied_fills>>
    PROVE  PositionNetsApplied'
BY DEF PositionNetsApplied, NetOf, FillsOn, FillEffect, signed

(* A fill applied for the first time moves the position of its instrument  *)
(* by its signed quantity, and no other.                                   *)
LEMMA AppliedMovesPosition ==
    ASSUME PositionInv, NEW c \in ClientOrderIds, NEW f \in FillIds,
           <<c, f>> \in venue_fills, <<c, f>> \notin applied_fills,
           applied_fills' = applied_fills \union {<<c, f>>},
           positions' = [positions EXCEPT ![Terms[c].instrument] = @ + signed(c, FillQty[f])]
    PROVE  PositionNetsApplied'
<1> SUFFICES ASSUME NEW i \in Instruments
             PROVE  positions'[i] = SumOver(FillEffect, FillsOn(i, applied_fills'))
  BY DEF PositionNetsApplied, NetOf, FillsOn, FillEffect, signed
<1>1. /\ applied_fills \subseteq venue_fills /\ positions \in [Instruments -> Int]
      /\ applied_fills' \subseteq venue_fills
  BY DEF PositionInv, GatewayInv, FillsTrue, GatewayTypeOK
<1>2. positions[i] = SumOver(FillEffect, FillsOn(i, applied_fills))
  BY DEF PositionInv, PositionNetsApplied, NetOf
<1>3. FillEffect[<<c, f>>] = signed(c, FillQty[f])
  BY DEF FillEffect
<1>4. /\ IsFiniteSet(FillsOn(i, applied_fills))
      /\ \A p \in FillsOn(i, applied_fills') : FillEffect[p] \in Int
  BY <1>1, FillsSummable DEF PositionInv
<1>5. CASE Terms[c].instrument = i
  <2>1. FillsOn(i, applied_fills') = FillsOn(i, applied_fills) \union {<<c, f>>}
    BY <1>5 DEF FillsOn
  <2>2. <<c, f>> \notin FillsOn(i, applied_fills)
    BY DEF FillsOn
  <2>3. SumOver(FillEffect, FillsOn(i, applied_fills) \union {<<c, f>>})
          = SumOver(FillEffect, FillsOn(i, applied_fills)) + FillEffect[<<c, f>>]
    BY <1>4, <2>1, <2>2, SumAdded
  <2>4. positions'[i] = positions[i] + signed(c, FillQty[f])
    BY <1>1, <1>5
  <2> QED
    BY <1>2, <1>3, <2>1, <2>3, <2>4
<1>6. CASE Terms[c].instrument # i
  <2>1. FillsOn(i, applied_fills') = FillsOn(i, applied_fills)
    BY <1>6 DEF FillsOn
  <2>2. positions'[i] = positions[i]
    BY <1>1, <1>6
  <2> QED
    BY <1>2, <2>1, <2>2
<1> QED
  BY <1>5, <1>6

(* The loop takes the oldest fill off its feed. *)
LEMMA FillReadMeans ==
    ASSUME GatewayInv, FillRead
    PROVE  /\ Messages(fill_feed) = {Head(fill_feed)} \union Messages(fill_feed')
           /\ Head(fill_feed) \in venue_fills
<1>1. fill_feed \in Seq(ClientOrderIds \X FillIds) /\ fill_feed # <<>>
      /\ fill_feed' = Tail(fill_feed)
  BY DEF GatewayInv, GatewayTypeOK, FillRead
<1>2. /\ Head(fill_feed) \in Messages(fill_feed)
      /\ Messages(fill_feed') \subseteq Messages(fill_feed)
  BY <1>1, FeedRead
<1>3. ASSUME NEW k \in 1 .. Len(fill_feed)
      PROVE  fill_feed[k] \in {Head(fill_feed)} \union Messages(fill_feed')
  <2>1. Len(fill_feed) \in Nat \ {0}
    BY <1>1, EmptySeq
  <2>2. /\ Len(Tail(fill_feed)) = Len(fill_feed) - 1
        /\ \A n \in 1 .. Len(Tail(fill_feed)) : Tail(fill_feed)[n] = fill_feed[n + 1]
    BY <1>1, <2>1, HeadTailProperties
  <2>3. CASE k = 1
    BY <1>1, <2>3
  <2>4. CASE k # 1
    <3>1. k - 1 \in 1 .. Len(Tail(fill_feed)) /\ (k - 1) + 1 = k
      BY <2>1, <2>2, <2>4
    <3>2. Tail(fill_feed)[k - 1] = fill_feed[k]
      BY <2>2, <3>1
    <3> QED
      BY <1>1, <3>1, <3>2 DEF Messages
  <2> QED
    BY <2>3, <2>4
<1>4. Messages(fill_feed) \subseteq {Head(fill_feed)} \union Messages(fill_feed')
  BY <1>3 DEF Messages
<1>5. Messages(fill_feed) \subseteq venue_fills
  BY DEF GatewayInv, FillsTrue
<1> QED
  BY <1>2, <1>4, <1>5

(* Reading a fill keeps position and queue. *)
LEMMA FillKeepsPosition ==
    ASSUME PositionInv, apply_fill_event
    PROVE  PositionNetsApplied' /\ UnappliedAreQueued' /\ venue_fills' = venue_fills
<1> DEFINE c == Head(fill_feed)[1]
           f == Head(fill_feed)[2]
<1>1. FillRead /\ venue_fills' = venue_fills /\ disconnected' = disconnected
  BY DEF apply_fill_event, FillRead, history
<1>2. /\ Messages(fill_feed) = {Head(fill_feed)} \union Messages(fill_feed')
      /\ Head(fill_feed) \in venue_fills
  BY <1>1, FillReadMeans DEF PositionInv
<1>3. c \in ClientOrderIds /\ f \in FillIds /\ Head(fill_feed) = <<c, f>>
  <2>1. venue_fills \subseteq ClientOrderIds \X FillIds
    BY DEF PositionInv, GatewayInv, GatewayTypeOK
  <2> QED
    BY <1>2, <2>1
<1> DEFINE repeated == /\ <<c, f>> \in applied_fills
                       /\ UNCHANGED <<omsVars, sleeve_open_orders, positions, exited>>
           taken == /\ apply_fill(c, f)
                    /\ positions' = [positions EXCEPT ![Terms[c].instrument]
                                         = @ + signed(c, FillQty[f])]
                    /\ UNCHANGED exited
           torn == /\ apply_fill_torn(c, f)
                   /\ exited' = TRUE
                   /\ UNCHANGED <<sleeve_open_orders, positions>>
<1>4. repeated \/ taken \/ torn
  BY DEF apply_fill_event
<1> HIDE DEF c, f
<1>5. CASE repeated
  <2>1. UNCHANGED <<positions, applied_fills, exited>>
    BY <1>5 DEF omsVars
  <2>2. PositionNetsApplied'
    BY <2>1, PositionKept DEF PositionInv
  <2>3. UnappliedAreQueued'
    BY <1>1, <1>2, <1>3, <1>5, <2>1 DEF PositionInv, UnappliedAreQueued
  <2> QED
    BY <1>1, <2>2, <2>3
<1>6. CASE taken
  <2>1. /\ <<c, f>> \notin applied_fills
        /\ applied_fills' = applied_fills \union {<<c, f>>}
    BY <1>6 DEF apply_fill, fill_admitted
  <2>2. PositionNetsApplied'
    BY <1>2, <1>3, <1>6, <2>1, AppliedMovesPosition
  <2>3. UnappliedAreQueued'
    BY <1>1, <1>2, <1>3, <1>6, <2>1 DEF PositionInv, UnappliedAreQueued
  <2> QED
    BY <1>1, <2>2, <2>3
<1>7. CASE torn
  <2>1. UNCHANGED <<positions, applied_fills>> /\ exited'
    BY <1>7 DEF apply_fill_torn
  <2>2. PositionNetsApplied'
    BY <2>1, PositionKept DEF PositionInv
  <2> QED
    BY <1>1, <2>1, <2>2 DEF UnappliedAreQueued
<1> QED
  BY <1>4, <1>5, <1>6, <1>7

(* Every other step of the loop leaves positions, fills and feed alone. *)
LEMMA LoopLeavesFills ==
    ASSUME \/ \E c \in ClientOrderIds :
                  \/ place(c)
                  \/ finalize_accepted(c) \/ finalize_rejected(c) \/ finalize_unknown(c)
                  \/ cancel(c)
           \/ \E i \in Instruments :
                  \/ suspend_market(i) \/ resume_market(i)
                  \/ \E valid \in BOOLEAN : record_quote(i, valid)
           \/ refuse_place
           \/ apply_order_update
           \/ ClockTick
           \/ UNCHANGED gatewayVars
    PROVE  /\ UNCHANGED <<positions, applied_fills, venue_fills, fill_feed, disconnected>>
           /\ exited => exited'
<1>1. ASSUME NEW c \in ClientOrderIds,
             \/ place(c)
             \/ finalize_accepted(c) \/ finalize_rejected(c) \/ finalize_unknown(c)
             \/ cancel(c)
      PROVE  UNCHANGED <<positions, applied_fills, venue_fills, fill_feed, disconnected, exited>>
  BY <1>1 DEF place, finalize_accepted, finalize_rejected, finalize_unknown, Finalized, cancel,
              set_venue_order_id, transition, omsVars, runnerOnly, venueOnly, history
<1>2. ASSUME NEW i \in Instruments,
             \/ suspend_market(i) \/ resume_market(i)
             \/ \E valid \in BOOLEAN : record_quote(i, valid)
      PROVE  UNCHANGED <<positions, applied_fills, venue_fills, fill_feed, disconnected, exited>>
  BY <1>2 DEF suspend_market, resume_market, LifecycleEvent, record_quote,
              omsVars, runnerOnly, venueOnly, history
<1>3. CASE refuse_place \/ ClockTick \/ UNCHANGED gatewayVars
  BY <1>3 DEF refuse_place, ClockTick, gatewayVars, gatewayOnly, omsVars, runnerOnly, venueOnly,
              history
<1>4. CASE apply_order_update
  <2>1. UNCHANGED <<positions, venue_fills, fill_feed, disconnected>> /\ ~exited
    BY <1>4 DEF apply_order_update, UpdateRead, Idle, history
  <2>2. UNCHANGED applied_fills
    BY <1>4 DEF apply_order_update, transition, omsVars
  <2> QED
    BY <2>1, <2>2
<1> QED
  BY <1>1, <1>2, <1>3, <1>4

(* Every step keeps position, queue and what they rest on. *)
LEMMA PositionStep ==
    ASSUME PositionInv, [GatewayNext]_gatewayVars
    PROVE  PositionInv'
<1>1. GatewayInv'
  BY GatewayStep DEF PositionInv
<1> SUFFICES PositionNetsApplied' /\ UnappliedAreQueued' /\ IsFiniteSet(venue_fills)'
  BY <1>1 DEF PositionInv
<1>2. fill_feed \in Seq(ClientOrderIds \X FillIds)
  BY DEF PositionInv, GatewayInv, GatewayTypeOK
<1>3. ASSUME UNCHANGED <<positions, applied_fills, venue_fills, fill_feed, disconnected>>,
             exited => exited'
      PROVE  PositionNetsApplied' /\ UnappliedAreQueued' /\ IsFiniteSet(venue_fills)'
  BY <1>3, PositionKept DEF PositionInv, UnappliedAreQueued
<1>4. ASSUME VenueStep
      PROVE  UNCHANGED <<positions, applied_fills, exited>>
  BY <1>4 DEF VenueStep, omsVars, gatewayOnly, runnerOnly
<1>5. ASSUME NEW c \in ClientOrderIds, VenueAccept(c) \/ VenueRefuse(c) \/ VenueCancel(c)
      PROVE  PositionNetsApplied' /\ UnappliedAreQueued' /\ IsFiniteSet(venue_fills)'
  BY <1>3, <1>4, <1>5 DEF VenueAccept, VenueRefuse, VenueCancel
<1>6. ASSUME NEW c \in ClientOrderIds, NEW f \in FillIds, VenueFill(c, f)
      PROVE  PositionNetsApplied' /\ UnappliedAreQueued' /\ IsFiniteSet(venue_fills)'
  <2>1. /\ venue_fills' = venue_fills \union {<<c, f>>}
        /\ fill_feed' = Append(fill_feed, <<c, f>>)
        /\ VenueStep /\ UNCHANGED disconnected
    BY <1>6 DEF VenueFill
  <2>2. Messages(fill_feed') = Messages(fill_feed) \union {<<c, f>>}
    <3>1. <<c, f>> \in ClientOrderIds \X FillIds
      OBVIOUS
    <3>2. Messages(Append(fill_feed, <<c, f>>)) = Messages(fill_feed) \union {<<c, f>>}
      BY <1>2, <3>1, FeedSent
    <3> QED
      BY <2>1, <3>2
  <2>3. UnappliedAreQueued'
    BY <1>4, <2>1, <2>2 DEF PositionInv, UnappliedAreQueued
  <2>4. IsFiniteSet(venue_fills')
    BY <2>1, FS_AddElement DEF PositionInv
  <2> QED
    BY <1>4, <2>1, <2>3, <2>4, PositionKept DEF PositionInv
<1>7. ASSUME NEW c \in ClientOrderIds, NEW f \in FillIds, VenueRedeliver(c, f)
      PROVE  PositionNetsApplied' /\ UnappliedAreQueued' /\ IsFiniteSet(venue_fills)'
  <2>1. /\ venue_fills' = venue_fills
        /\ fill_feed' = Append(fill_feed, <<c, f>>)
        /\ VenueStep /\ UNCHANGED disconnected
    BY <1>7 DEF VenueRedeliver
  <2>2. Messages(fill_feed') = Messages(fill_feed) \union {<<c, f>>}
    <3>1. <<c, f>> \in ClientOrderIds \X FillIds
      OBVIOUS
    <3>2. Messages(Append(fill_feed, <<c, f>>)) = Messages(fill_feed) \union {<<c, f>>}
      BY <1>2, <3>1, FeedSent
    <3> QED
      BY <2>1, <3>2
  <2>3. UnappliedAreQueued'
    BY <1>4, <2>1, <2>2 DEF PositionInv, UnappliedAreQueued
  <2> QED
    BY <1>4, <2>1, <2>3, PositionKept DEF PositionInv
<1>8. CASE Reconnect
  <2>1. VenueStep /\ disconnected' /\ venue_fills' = venue_fills
    BY <1>8 DEF Reconnect
  <2> QED
    BY <1>4, <2>1, PositionKept DEF PositionInv, UnappliedAreQueued
<1>9. CASE apply_fill_event
  BY <1>9, FillKeepsPosition DEF PositionInv
<1> QED
  BY <1>3, <1>5, <1>6, <1>7, <1>8, <1>9, LoopLeavesFills DEF GatewayNext

(* With the position the net of the applied fills, what is queued and not  *)
(* applied makes up the difference to the venue's.                         *)
LEMMA PositionAgrees ==
    ASSUME PositionInv
    PROVE  PositionTracksVenue
<1> SUFFICES ASSUME ~exited, ~disconnected, NEW i \in Instruments
             PROVE  positions[i] + NetOf(i, Range(fill_feed) \ applied_fills)
                        = NetOf(i, venue_fills)
  BY DEF PositionTracksVenue
<1> DEFINE queued == Messages(fill_feed) \ applied_fills
<1>1. Range(fill_feed) = Messages(fill_feed)
  <2>1. fill_feed \in Seq(ClientOrderIds \X FillIds)
    BY DEF PositionInv, GatewayInv, GatewayTypeOK
  <2>2. DOMAIN fill_feed = 1 .. Len(fill_feed)
    BY <2>1
  <2> QED
    BY <2>2 DEF Range, Messages
<1>2. applied_fills \subseteq venue_fills /\ queued \subseteq venue_fills
  BY DEF PositionInv, GatewayInv, FillsTrue
<1>3. venue_fills = applied_fills \union queued
  BY <1>2 DEF PositionInv, UnappliedAreQueued
<1>4. /\ FillsOn(i, venue_fills) = FillsOn(i, applied_fills) \union FillsOn(i, queued)
      /\ FillsOn(i, applied_fills) \cap FillsOn(i, queued) = {}
  BY <1>3 DEF FillsOn
<1> HIDE DEF queued
<1>5. /\ IsFiniteSet(FillsOn(i, applied_fills)) /\ IsFiniteSet(FillsOn(i, queued))
      /\ \A p \in FillsOn(i, applied_fills) \union FillsOn(i, queued) : FillEffect[p] \in Int
  BY <1>2, FillsSummable DEF PositionInv
<1>6. SumOver(FillEffect, FillsOn(i, applied_fills) \union FillsOn(i, queued))
        = SumOver(FillEffect, FillsOn(i, applied_fills)) + SumOver(FillEffect, FillsOn(i, queued))
  BY <1>4, <1>5, SumUnion
<1>7. NetOf(i, venue_fills) = NetOf(i, applied_fills) + NetOf(i, queued)
  BY <1>4, <1>6 DEF NetOf
<1>8. positions[i] = NetOf(i, applied_fills)
  BY DEF PositionInv, PositionNetsApplied
<1> QED
  BY <1>1, <1>7, <1>8 DEF queued

(* The position apply_fill keeps for risk is the venue's but for the fills *)
(* still queued, however often fills are sent again and whichever channel  *)
(* is ahead.                                                               *)
THEOREM PositionIsTheVenues == GatewaySpec => []PositionTracksVenue
<1>1. GatewayInit => PositionInv
  <2> SUFFICES ASSUME GatewayInit PROVE PositionInv
    OBVIOUS
  <2>1. /\ venue_fills = {} /\ applied_fills = {}
        /\ \A i \in Instruments : positions[i] = 0
    BY DEF GatewayInit, Init
  <2>2. \A i \in Instruments : FillsOn(i, {}) = {}
    BY DEF FillsOn
  <2>3. PositionNetsApplied
    BY <2>1, <2>2, SumEmpty DEF PositionNetsApplied, NetOf
  <2> QED
    BY <2>1, <2>3, GatewayInitial, FS_EmptySet DEF PositionInv, UnappliedAreQueued
<1>2. PositionInv /\ [GatewayNext]_gatewayVars => PositionInv'
  BY PositionStep
<1>3. PositionInv => PositionTracksVenue
  BY PositionAgrees
<1> QED
  BY <1>1, <1>2, <1>3, PTL DEF GatewaySpec
=============================================================================
