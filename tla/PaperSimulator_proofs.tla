----------------------- MODULE PaperSimulator_proofs ------------------------
(***************************************************************************)
(* Proofs about module PaperSimulator, with the volumes that Backtest counts*)
(* and whatever books, trades and orders it is given: what each method of  *)
(* the simulator does to its orders, to the book and to the reservations   *)
(* behind the orders.  Sane is what every method keeps; one lemma per method*)
(* says so.                                                                *)
(***************************************************************************)
EXTENDS Backtest, Lists_proofs

-----------------------------------------------------------------------------
(* Fills and orders.                                                       *)

(* A fill, as _emit_fill makes it. *)
Fill ==
    [id : ClientOrderIds, side : Sides, order_side : {"BUY", "SELL"}, price : 0 .. One,
     quantity : Nat, liquidity : {"taker", "maker"}, filled_at : Int, fee : Nat]

(* What its contracts cost. *)
amount(f) == f.price * f.quantity

(* What a fill adds to the cash. *)
flow(f) == IF f.order_side = "BUY" THEN -(amount(f) + f.fee) ELSE amount(f) - f.fee

(* The amount of a fill is a natural number.                               *)
LEMMA AmountType ==
    ASSUME NEW f \in Fill
    PROVE  /\ amount(f) \in Nat /\ flow(f) \in Int /\ f.fee \in Nat /\ f.quantity \in Nat
           /\ f.price \in Nat /\ f.side \in Outcomes /\ f.id \in ClientOrderIds
           /\ f.order_side \in {"BUY", "SELL"}
<1>1. /\ f.price \in Nat /\ f.quantity \in Nat /\ f.fee \in Nat /\ f.side \in Outcomes
      /\ f.id \in ClientOrderIds /\ f.order_side \in {"BUY", "SELL"}
  BY DEF Fill, One, Sides, Outcomes
<1>2. amount(f) \in Nat
  <2>1. PICK p \in Nat, q \in Nat : p = f.price /\ q = f.quantity
    BY <1>1
  <2>2. p * q \in Nat
    BY <2>1
  <2> QED
    BY <2>1, <2>2 DEF amount
<1> QED
  BY <1>1, <1>2 DEF flow

(* What a fill pays out of the reservation of c. *)
payment(f, c) == IF f.id = c /\ f.order_side = "BUY" THEN amount(f) ELSE 0

(* What the fills pay out of the reservation of c. *)
spent(fills, c) == SumOver([k \in DOMAIN fills |-> payment(fills[k], c)], DOMAIN fills)

(* Payments are natural numbers.                                           *)
LEMMA PaymentType ==
    ASSUME NEW f \in Fill, NEW c
    PROVE  payment(f, c) \in Nat
  BY AmountType DEF payment

(* The cash an order may spend is a natural number.                        *)
LEMMA OrderType ==
    ASSUME NEW i \in OrderIntent(ClientOrderIds)
    PROVE  /\ i.id \in ClientOrderIds /\ i.side \in Sides /\ i.side \in Outcomes
           /\ i.order_side \in {"BUY", "SELL"} /\ i.price \in 0 .. One /\ i.price \in Nat
           /\ i.quantity \in Nat /\ notional(i) \in Nat
<1>1. /\ i.id \in ClientOrderIds /\ i.side \in Sides /\ i.side \in Outcomes
      /\ i.order_side \in {"BUY", "SELL"} /\ i.price \in 0 .. One /\ i.price \in Nat
      /\ i.quantity \in Nat
  BY DEF OrderIntent, One, Sides, Outcomes
<1>2. PICK p \in Nat, q \in Nat : p = i.price /\ q = i.quantity
  BY <1>1
<1>3. p * q \in Nat
  BY <1>2
<1> QED
  BY <1>1, <1>2, <1>3 DEF notional

-----------------------------------------------------------------------------
(* The simulator's orders.                                                 *)

(* An order as the simulator keeps it. *)
PendingOrder ==
    [id : ClientOrderIds, intent : OrderIntent(ClientOrderIds), submitted_at : Int,
     effective_at : Int, queue_ahead : Nat, filled : Nat,
     status : {"OPEN", "PARTIALLY_FILLED", "FILLED", "CANCELED"},
     active : BOOLEAN, cancel_at : Int]

(* A dictionary holds one order under an id. *)
Ledger ==
    {q \in Seq(PendingOrder) : \A j, k \in DOMAIN q : q[j].id = q[k].id => j = k}

(* The values of the dictionary. *)
Orders(q) == {q[k] : k \in DOMAIN q}

(* The orders of a dictionary are its values, each under its own id.       *)
LEMMA Lookup ==
    ASSUME NEW q \in Ledger
    PROVE  /\ Orders(q) \subseteq PendingOrder
           /\ \A o, p \in Orders(q) : o.id = p.id => o = p
           /\ \A c : lookup(q, c) = {} <=> \A p \in Orders(q) : p.id # c
           /\ \A c : \A p \in Orders(q) : p.id = c => order_at(q, c) = p /\ lookup(q, c) # {}
           /\ \A c : lookup(q, c) # {} => order_at(q, c) \in Orders(q) /\ order_at(q, c).id = c
<1>1. \A k \in DOMAIN q : q[k] \in PendingOrder
  BY DEF Ledger
<1>2. Orders(q) \subseteq PendingOrder
  BY <1>1 DEF Orders
<1>3. \A o, p \in Orders(q) : o.id = p.id => o = p
  BY DEF Orders, Ledger
<1>4. \A c : lookup(q, c) = {} <=> \A p \in Orders(q) : p.id # c
  BY DEF Orders, lookup
<1>5. ASSUME NEW c, lookup(q, c) # {}
      PROVE  order_at(q, c) \in Orders(q) /\ order_at(q, c).id = c
  <2>1. PICK k : k = CHOOSE j \in lookup(q, c) : TRUE
    OBVIOUS
  <2>2. k \in lookup(q, c)
    BY <1>5, <2>1
  <2> QED
    BY <2>1, <2>2 DEF lookup, order_at, Orders
<1>6. ASSUME NEW c, NEW p \in Orders(q), p.id = c
      PROVE  order_at(q, c) = p /\ lookup(q, c) # {}
  <2>1. lookup(q, c) # {}
    BY <1>4, <1>6
  <2> QED
    BY <1>3, <1>5, <1>6, <2>1
<1> QED
  BY <1>2, <1>3, <1>4, <1>5, <1>6

(* put replaces the order under an id, or adds it at the end.              *)
LEMMA Put ==
    ASSUME NEW q \in Ledger, NEW o \in PendingOrder
    PROVE  /\ put(q, o) \in Ledger
           /\ Orders(put(q, o)) = {p \in Orders(q) : p.id # o.id} \union {o}
<1>1. q \in Seq(PendingOrder) /\ \A j, k \in DOMAIN q : q[j].id = q[k].id => j = k
  BY DEF Ledger
<1>2. PICK n \in Nat : n = Len(q) /\ DOMAIN q = 1 .. n
  BY <1>1
<1>3. CASE lookup(q, o.id) = {}
  <2>1. \A k \in 1 .. n : q[k].id # o.id
    BY <1>2, <1>3 DEF lookup
  <2>2. PICK r : r = Append(q, o)
    OBVIOUS
  <2>3. put(q, o) = r
    BY <1>3, <2>2 DEF put
  <2>4. r \in Seq(PendingOrder) /\ DOMAIN r = 1 .. (n + 1) /\ r[n + 1] = o /\ \A k \in 1 .. n : r[k] = q[k]
    BY <1>1, <1>2, <2>2
  <2>5. \A j \in 1 .. (n + 1) : j \in 1 .. n \/ j = n + 1
    OBVIOUS
  <2>6. \A j, k \in DOMAIN r : r[j].id = r[k].id => j = k
    BY <1>1, <1>2, <2>1, <2>4, <2>5
  <2>7. r \in Ledger
    BY <2>4, <2>6 DEF Ledger
  <2>8. Orders(r) = {p \in Orders(q) : p.id # o.id} \union {o}
    <3>1. ASSUME NEW p \in Orders(r)
          PROVE  (p \in Orders(q) /\ p.id # o.id) \/ p = o
      <4>1. PICK k \in 1 .. (n + 1) : p = r[k]
        BY <2>4 DEF Orders
      <4> QED
        BY <1>2, <2>1, <2>4, <2>5, <4>1 DEF Orders
    <3>2. ASSUME NEW p \in Orders(q)
          PROVE  p \in Orders(r)
      <4>1. PICK k \in 1 .. n : p = q[k]
        BY <1>2 DEF Orders
      <4>2. k \in 1 .. (n + 1)
        OBVIOUS
      <4> QED
        BY <2>4, <4>1, <4>2 DEF Orders
    <3>3. o \in Orders(r)
      <4>1. n + 1 \in 1 .. (n + 1)
        OBVIOUS
      <4> QED
        BY <2>4, <4>1 DEF Orders
    <3> QED
      BY <3>1, <3>2, <3>3
  <2> QED
    BY <2>3, <2>7, <2>8
<1>4. CASE lookup(q, o.id) # {}
  <2>1. PICK x : x = CHOOSE k \in lookup(q, o.id) : TRUE
    OBVIOUS
  <2>2. x \in 1 .. n /\ q[x].id = o.id
    BY <1>2, <1>4, <2>1 DEF lookup
  <2>3. PICK r : r = [q EXCEPT ![x] = o]
    OBVIOUS
  <2>4. put(q, o) = r
    BY <1>4, <2>1, <2>3 DEF put
  <2>5. r \in Seq(PendingOrder) /\ DOMAIN r = 1 .. n /\ r[x] = o /\ \A k \in 1 .. n : k # x => r[k] = q[k]
    BY <1>1, <1>2, <2>2, <2>3
  <2>6. \A k \in 1 .. n : r[k].id = q[k].id
    BY <2>2, <2>5
  <2>7. r \in Ledger
    BY <1>1, <1>2, <2>5, <2>6 DEF Ledger
  <2>8. ASSUME NEW p
        PROVE  p \in Orders(r) <=> (p \in Orders(q) /\ p.id # o.id) \/ p = o
    <3>1. ASSUME p \in Orders(r)
          PROVE  (p \in Orders(q) /\ p.id # o.id) \/ p = o
      <4>1. PICK k \in 1 .. n : p = r[k]
        BY <2>5, <3>1 DEF Orders
      <4>2. k # x => p = q[k] /\ q[k].id # q[x].id
        BY <1>1, <1>2, <2>2, <2>5, <4>1
      <4> QED
        BY <1>2, <2>2, <2>5, <4>1, <4>2 DEF Orders
    <3>2. ASSUME p \in Orders(q), p.id # o.id
          PROVE  p \in Orders(r)
      <4>1. PICK k \in 1 .. n : p = q[k]
        BY <1>2, <3>2 DEF Orders
      <4> QED
        BY <2>2, <2>5, <3>2, <4>1 DEF Orders
    <3>3. o \in Orders(r)
      BY <2>2, <2>5 DEF Orders
    <3> QED
      BY <3>1, <3>2, <3>3
  <2> QED
    BY <2>4, <2>7, <2>8
<1> QED
  BY <1>3, <1>4

(* drop takes the order under an id out.                                   *)
LEMMA Drop ==
    ASSUME NEW q \in Ledger, NEW c
    PROVE  /\ drop(q, c) \in Ledger
           /\ Orders(drop(q, c)) = {p \in Orders(q) : p.id # c}
<1>1. q \in Seq(PendingOrder) /\ \A j, k \in DOMAIN q : q[j].id = q[k].id => j = k
  BY DEF Ledger
<1>2. PICK K : K = {k \in DOMAIN q : q[k].id # c}
  OBVIOUS
<1>3. PICK r : r = keep(q, K)
  OBVIOUS
<1>4. drop(q, c) = r
  BY <1>2, <1>3 DEF drop
<1>5. K \subseteq DOMAIN q
  BY <1>2
<1>6. PICK m, n : /\ Enumerates(m, n, K) /\ r = [i \in 1 .. n |-> q[m[i]]]
                  /\ r \in Seq(PendingOrder) /\ Len(r) = n
  BY <1>1, <1>3, <1>5, Kept
<1>7. /\ \A i \in 1 .. n : m[i] \in K
      /\ \A i, j \in 1 .. n : m[i] = m[j] => i = j
      /\ \A x \in K : \E i \in 1 .. n : m[i] = x
  BY <1>6 DEF Enumerates
<1>8. DOMAIN r = 1 .. n /\ \A i \in 1 .. n : r[i] = q[m[i]]
  BY <1>6
<1>9. \A i, j \in DOMAIN r : r[i].id = r[j].id => i = j
  BY <1>1, <1>5, <1>7, <1>8
<1>10. r \in Ledger
  BY <1>6, <1>9 DEF Ledger
<1>11. ASSUME NEW p
       PROVE  p \in Orders(r) <=> p \in Orders(q) /\ p.id # c
  <2>1. ASSUME p \in Orders(r)
        PROVE  p \in Orders(q) /\ p.id # c
    <3>1. PICK i \in 1 .. n : p = r[i]
      BY <1>8, <2>1 DEF Orders
    <3> QED
      BY <1>2, <1>7, <1>8, <3>1 DEF Orders
  <2>2. ASSUME p \in Orders(q), p.id # c
        PROVE  p \in Orders(r)
    <3>1. PICK k \in K : p = q[k]
      BY <1>2, <2>2 DEF Orders
    <3>2. PICK i \in 1 .. n : m[i] = k
      BY <1>7
    <3> QED
      BY <1>8, <3>1, <3>2 DEF Orders
  <2> QED
    BY <2>1, <2>2
<1> QED
  BY <1>4, <1>10, <1>11

(* An order with another status and without a cancel under way. *)
Canceled(p) == [p EXCEPT !.status = "CANCELED", !.cancel_at = Never]

(* Canceling changes no order but its status.                              *)
LEMMA CancelOrders ==
    ASSUME NEW q \in Ledger, NEW K
    PROVE  /\ cancel_orders(q, K) \in Ledger
           /\ \A y \in Orders(cancel_orders(q, K)) :
                 \E p \in Orders(q) : y = p \/ y = Canceled(p)
<1>1. q \in Seq(PendingOrder) /\ \A j, k \in DOMAIN q : q[j].id = q[k].id => j = k
  BY DEF Ledger
<1>2. PICK n \in Nat : n = Len(q) /\ DOMAIN q = 1 .. n
  BY <1>1
<1>3. PICK r : r = cancel_orders(q, K)
  OBVIOUS
<1>4. DOMAIN r = 1 .. n /\ r = [k \in 1 .. n |-> r[k]]
  BY <1>2, <1>3 DEF cancel_orders
<1>5. \A k \in 1 .. n : r[k] = q[k] \/ r[k] = Canceled(q[k])
  BY <1>2, <1>3 DEF cancel_orders, Canceled
<1>6. \A p \in PendingOrder : Canceled(p) \in PendingOrder /\ Canceled(p).id = p.id
  <2>1. SUFFICES ASSUME NEW p \in PendingOrder
                 PROVE  Canceled(p) \in PendingOrder /\ Canceled(p).id = p.id
    OBVIOUS
  <2>2. PICK st \in {"OPEN", "PARTIALLY_FILLED", "FILLED", "CANCELED"}, at \in Int :
           st = "CANCELED" /\ at = Never
    BY DEF Never
  <2>3. Canceled(p) = [p EXCEPT !.status = st, !.cancel_at = at]
    BY <2>2 DEF Canceled
  <2> QED
    BY <2>3 DEF PendingOrder
<1>7. \A k \in 1 .. n : q[k] \in PendingOrder
  BY <1>1, <1>2
<1>8. \A k \in 1 .. n : r[k] \in PendingOrder /\ r[k].id = q[k].id
  BY <1>5, <1>6, <1>7
<1>9. r \in Seq(PendingOrder)
  BY <1>4, <1>8
<1>10. r \in Ledger
  BY <1>1, <1>2, <1>4, <1>8, <1>9 DEF Ledger
<1>11. \A y \in Orders(r) : \E p \in Orders(q) : y = p \/ y = Canceled(p)
  BY <1>2, <1>4, <1>5 DEF Orders
<1> QED
  BY <1>3, <1>10, <1>11

-----------------------------------------------------------------------------
(* What fills pay and take, and what a book shows, as totals of lists.     *)

(* What each fill pays out of the reservation of c. *)
paid(c) == [f \in Fill |-> payment(f, c)]

(* What each taker fill takes of side b of the book of outcome s. *)
swept(s, b) ==
    [f \in Fill |-> IF f.liquidity = "taker" /\ f.side = s /\ f.order_side = b
                    THEN f.quantity ELSE 0]

(* What each level shows. *)
sizes == [l \in Level |-> l.quantity]

(* They are natural numbers.                                               *)
LEMMA Weights ==
    /\ \A c : paid(c) \in [Fill -> Nat] /\ paid(c) \in [Fill -> Int]
    /\ \A s, b : swept(s, b) \in [Fill -> Nat] /\ swept(s, b) \in [Fill -> Int]
    /\ sizes \in [Level -> Nat] /\ sizes \in [Level -> Int]
<1>1. ASSUME NEW c
      PROVE  paid(c) \in [Fill -> Nat] /\ paid(c) \in [Fill -> Int]
  <2>1. \A f \in Fill : payment(f, c) \in Nat
    BY PaymentType
  <2>2. PICK g : g = paid(c)
    OBVIOUS
  <2>3. g = [f \in Fill |-> g[f]] /\ \A f \in Fill : g[f] \in Nat
    BY <2>1, <2>2 DEF paid
  <2> QED
    BY <2>2, <2>3
<1>2. ASSUME NEW s, NEW b
      PROVE  swept(s, b) \in [Fill -> Nat] /\ swept(s, b) \in [Fill -> Int]
  <2>1. \A f \in Fill : f.quantity \in Nat
    BY DEF Fill
  <2>2. PICK g : g = swept(s, b)
    OBVIOUS
  <2>3. g = [f \in Fill |-> g[f]] /\ \A f \in Fill : g[f] \in Nat
    BY <2>1, <2>2 DEF swept
  <2> QED
    BY <2>2, <2>3
<1>3. sizes \in [Level -> Nat] /\ sizes \in [Level -> Int]
  <2>1. \A l \in Level : l.quantity \in Nat
    BY DEF Level
  <2>2. sizes = [l \in Level |-> sizes[l]] /\ \A l \in Level : sizes[l] \in Nat
    BY <2>1 DEF sizes
  <2> QED
    BY <2>2
<1> QED
  BY <1>1, <1>2, <1>3

(* What fills pay for an order.                                            *)
LEMMA Spent ==
    ASSUME NEW fills \in Seq(Fill), NEW c
    PROVE  /\ spent(fills, c) = Total(fills, paid(c))
           /\ spent(fills, c) \in Nat
<1>1. PICK n \in Nat : DOMAIN fills = 1 .. n /\ \A k \in 1 .. n : fills[k] \in Fill
  <2>1. DOMAIN fills = 1 .. Len(fills) /\ Len(fills) \in Nat /\ \A k \in 1 .. Len(fills) : fills[k] \in Fill
    OBVIOUS
  <2> QED
    BY <2>1
<1>2. PICK f, g, S : /\ f = [k \in DOMAIN fills |-> payment(fills[k], c)]
                     /\ g = [k \in DOMAIN fills |-> paid(c)[fills[k]]] /\ S = 1 .. n
  OBVIOUS
<1>3. IsFiniteSet(S) /\ \A k \in S : f[k] = g[k]
  BY <1>1, <1>2, UpTo DEF paid
<1>4. SumOver(f, S) = SumOver(g, S)
  BY <1>3, SumSame
<1>5. spent(fills, c) = Total(fills, paid(c))
  BY <1>1, <1>2, <1>4 DEF spent, Total
<1>6. Total(fills, paid(c)) \in Nat
  <2>1. \A x \in Fill : paid(c)[x] \in Nat
    BY Weights
  <2> QED
    BY <2>1, Weights, TotalType
<1> QED
  BY <1>5, <1>6

(* What fills take of a side of the book.                                  *)
LEMMA Swept ==
    ASSUME NEW fills \in Seq(Fill), NEW s \in Sides, NEW b \in {"BUY", "SELL"}
    PROVE  /\ taker_volume(fills)[s][b] = Total(fills, swept(s, b))
           /\ taker_volume(fills)[s][b] \in Nat
<1>1. PICK n \in Nat : DOMAIN fills = 1 .. n /\ \A k \in 1 .. n : fills[k] \in Fill
  <2>1. DOMAIN fills = 1 .. Len(fills) /\ Len(fills) \in Nat /\ \A k \in 1 .. Len(fills) : fills[k] \in Fill
    OBVIOUS
  <2> QED
    BY <2>1
<1>2. PICK K : K = {k \in DOMAIN fills : /\ fills[k].liquidity = "taker"
                                         /\ fills[k].side = s /\ fills[k].order_side = b}
  OBVIOUS
<1>3. PICK f, g, S : /\ f = [k \in DOMAIN fills |-> fills[k].quantity]
                     /\ g = [k \in DOMAIN fills |-> swept(s, b)[fills[k]]] /\ S = 1 .. n
  OBVIOUS
<1>4. \A k \in S : /\ g[k] \in Int
                   /\ k \in K => f[k] = g[k]
                   /\ k \notin K => g[k] = 0
  <2>1. \A k \in S : g[k] = IF k \in K THEN fills[k].quantity ELSE 0
    BY <1>1, <1>2, <1>3 DEF swept
  <2>2. \A k \in S : fills[k].quantity \in Nat /\ f[k] = fills[k].quantity
    BY <1>1, <1>3 DEF Fill
  <2> QED
    BY <2>1, <2>2
<1>5. IsFiniteSet(S) /\ K \subseteq S /\ IsFiniteSet(K)
  BY <1>1, <1>2, <1>3, UpTo, FS_Subset
<1>6. SumOver(f, K) = SumOver(g, K)
  <2>1. \A k \in K : f[k] = g[k]
    BY <1>4, <1>5
  <2> QED
    BY ONLY <1>5, <2>1, SumSame
<1>7. SumOver(g, S) = SumOver(g, K)
  <2>1. (\A k \in S : g[k] \in Int) /\ \A k \in S \ K : g[k] = 0
    BY <1>4
  <2> QED
    BY ONLY <1>5, <2>1, SumZeros
<1>8. taker_volume(fills)[s][b] = SumOver(f, K)
  BY <1>2, <1>3 DEF taker_volume, quantity_at
<1>9. Total(fills, swept(s, b)) = SumOver(g, S)
  BY <1>1, <1>3 DEF Total
<1>10. Total(fills, swept(s, b)) \in Nat
  <2>1. \A x \in Fill : swept(s, b)[x] \in Nat
    BY Weights
  <2> QED
    BY <2>1, Weights, TotalType
<1> QED
  BY <1>6, <1>7, <1>8, <1>9, <1>10

(* What a side of the book holds.                                          *)
LEMMA Sized ==
    ASSUME NEW levels \in Seq(Level)
    PROVE  /\ total_quantity(levels) = Total(levels, sizes)
           /\ total_quantity(levels) \in Nat
<1>1. PICK n \in Nat : DOMAIN levels = 1 .. n /\ \A k \in 1 .. n : levels[k] \in Level
  <2>1. DOMAIN levels = 1 .. Len(levels) /\ Len(levels) \in Nat /\ \A k \in 1 .. Len(levels) : levels[k] \in Level
    OBVIOUS
  <2> QED
    BY <2>1
<1>2. PICK f, g, S : /\ f = [k \in DOMAIN levels |-> levels[k].quantity]
                     /\ g = [k \in DOMAIN levels |-> sizes[levels[k]]] /\ S = 1 .. n
  OBVIOUS
<1>3. IsFiniteSet(S) /\ \A k \in S : f[k] = g[k]
  BY <1>1, <1>2, UpTo DEF sizes
<1>4. SumOver(f, S) = SumOver(g, S)
  BY <1>3, SumSame
<1>5. total_quantity(levels) = Total(levels, sizes)
  BY <1>1, <1>2, <1>4 DEF total_quantity, quantity_at, Total
<1>6. Total(levels, sizes) \in Nat
  <2>1. \A x \in Level : sizes[x] \in Nat
    BY Weights
  <2> QED
    BY <2>1, Weights, TotalType
<1> QED
  BY <1>5, <1>6

(* A fee is a natural number of cents.                                     *)
LEMMA FeeType ==
    ASSUME NEW p \in 0 .. One, NEW q \in Nat, NEW l
    PROVE  fee(p, q, l) \in Nat
<1>1. PICK raw \in Nat : raw = p * (One - p) * q
  <2>1. PICK x \in Nat, y \in Nat : x = p /\ y = One - p
    BY DEF One
  <2>2. x * y \in Nat
    BY <2>1
  <2>3. (x * y) * q \in Nat
    BY <2>2
  <2> QED
    BY <2>1, <2>3
<1>2. \A x \in Nat : x \div 1000000 \in Nat /\ x \div 10000 \in Nat
  OBVIOUS
<1>3. 175 * raw + 999999 \in Nat /\ 7 * raw + 9999 \in Nat
  BY <1>1
<1>4. (175 * raw + 999999) \div 1000000 \in Nat /\ (7 * raw + 9999) \div 10000 \in Nat
  BY <1>2, <1>3
<1> QED
  BY <1>1, <1>4 DEF fee

(* A fill of an order is a fill.                                           *)
LEMMA AFill ==
    ASSUME NEW i \in OrderIntent(ClientOrderIds), NEW p \in 0 .. One, NEW q \in Nat,
           NEW l \in {"taker", "maker"}, NEW at \in Int
    PROVE  a_fill(i, p, q, l, at) \in Fill
<1>1. fee(p, q, l) \in Nat
  BY FeeType
<1>2. i.id \in ClientOrderIds /\ i.side \in Sides /\ i.order_side \in {"BUY", "SELL"}
  BY OrderType
<1> QED
  BY <1>1, <1>2 DEF a_fill, Fill

-----------------------------------------------------------------------------
(* Taker orders.                                                           *)

(* The two sides of the book an order looks at.                            *)
LEMMA SidesOfBook ==
    ASSUME NEW book \in OrderBook, NEW i \in OrderIntent(ClientOrderIds)
    PROVE  /\ opposite_levels(book, i) \in Seq(Level)
           /\ same_side_levels(book, i) \in Seq(Level)
<1>1. i.side \in {"YES", "NO"}
  BY OrderType DEF Sides
<1>2. book["YES"] \in TopOfBook /\ book["NO"] \in TopOfBook
  BY DEF OrderBook
<1>3. PICK top \in TopOfBook : top = book[i.side]
  BY <1>1, <1>2
<1>4. top.bids \in Seq(Level) /\ top.asks \in Seq(Level)
  BY DEF TopOfBook
<1> QED
  BY <1>3, <1>4 DEF opposite_levels, same_side_levels

(* The quantities at some positions of a list of levels.                   *)
LEMMA QuantityAt ==
    ASSUME NEW levels \in Seq(Level), NEW K, K \subseteq DOMAIN levels
    PROVE  quantity_at(levels, K) \in Nat
<1>1. PICK n \in Nat : DOMAIN levels = 1 .. n /\ \A k \in 1 .. n : levels[k] \in Level
  <2>1. DOMAIN levels = 1 .. Len(levels) /\ Len(levels) \in Nat /\ \A k \in 1 .. Len(levels) : levels[k] \in Level
    OBVIOUS
  <2> QED
    BY <2>1
<1>2. PICK f, S : f = [k \in DOMAIN levels |-> levels[k].quantity] /\ S = 1 .. n
  OBVIOUS
<1>3. IsFiniteSet(S) /\ K \subseteq S /\ \A x \in S : f[x] \in Nat
  BY <1>1, <1>2, UpTo DEF Level
<1>4. SumOver(f, K) \in Nat
  BY ONLY <1>3, SumOfPart
<1> QED
  BY <1>2, <1>4 DEF quantity_at

(* The queue an order joins.                                               *)
LEMMA QueueType ==
    ASSUME NEW book \in OrderBook, NEW i \in OrderIntent(ClientOrderIds)
    PROVE  queue_ahead(book, i) \in Nat
<1>1. i.quantity \in Nat
  BY OrderType
<1>2. PICK l \in Seq(Level) : l = same_side_levels(book, i)
  BY SidesOfBook
<1>3. {k \in DOMAIN l : l[k].price = i.price} \subseteq DOMAIN l
  OBVIOUS
<1>4. quantity_at(l, {k \in DOMAIN l : l[k].price = i.price}) \in Nat
  BY <1>3, QuantityAt
<1> QED
  BY <1>1, <1>2, <1>4 DEF queue_ahead

(* A walk stays within the limit of the order.                             *)
LEMMA Reach ==
    ASSUME NEW n \in Nat, NEW levels, Len(levels) = n, NEW i
    PROVE  /\ reach(i, levels) \in 0 .. n
           /\ \A k \in 1 .. reach(i, levels) : within_limit(i, levels[k].price)
<1>1. PICK S : S = {k \in 0 .. n : \A j \in 1 .. k : within_limit(i, levels[j].price)}
  OBVIOUS
<1>2. 0 \in S
  <2>1. 1 .. 0 = {} /\ 0 \in 0 .. n
    OBVIOUS
  <2> QED
    BY <1>1, <2>1
<1>3. IsFiniteSet(0 .. n) /\ S \subseteq 0 .. n
  BY <1>1, FS_Interval
<1>4. IsFiniteSet(S) /\ (\A x \in S : x \in Int) /\ S # {}
  <2>1. IsFiniteSet(S)
    BY <1>3, FS_Subset
  <2>2. \A x \in S : x \in Int
    BY <1>3
  <2> QED
    BY <1>2, <2>1, <2>2
<1>5. \E x \in S : \A y \in S : y <= x
  BY ONLY <1>4, Largest
<1>6. \E x \in S : \A y \in S : x >= y
  BY <1>3, <1>5
<1>7. PICK r : r = Max(S)
  OBVIOUS
<1>8. r \in S
  BY <1>6, <1>7 DEF Max
<1>9. reach(i, levels) = r
  BY <1>1, <1>7 DEF reach
<1> QED
  BY <1>1, <1>8, <1>9

(* _fill_marketable: a taker takes no more of a level than it shows, none beyond *)
(* its limit, and no more than it asked for.                               *)
LEMMA Taken ==
    ASSUME NEW levels \in Seq(Level), NEW i \in OrderIntent(ClientOrderIds)
    PROVE  LET take == taken(i, levels)
           IN  /\ DOMAIN take = DOMAIN levels
               /\ \A k \in DOMAIN levels :
                     /\ take[k] \in Nat /\ take[k] <= levels[k].quantity
                     /\ take[k] > 0 => within_limit(i, levels[k].price)
               /\ SumOver(take, DOMAIN levels) \in 0 .. i.quantity
<1>1. PICK n \in Nat : n = Len(levels) /\ DOMAIN levels = 1 .. n /\ \A k \in 1 .. n : levels[k] \in Level
  OBVIOUS
<1>2. PICK r \in 0 .. n : /\ r = reach(i, levels)
                          /\ \A k \in 1 .. r : within_limit(i, levels[k].price)
  BY <1>1, Reach
<1>3. PICK Q \in Nat : Q = i.quantity
  BY OrderType
<1>4. PICK L : L = [k \in DOMAIN levels |-> levels[k].quantity]
  OBVIOUS
<1>5. \A k \in 1 .. n : L[k] \in Nat /\ L[k] = levels[k].quantity
  BY <1>1, <1>4 DEF Level
<1>6. PICK A : A = [k \in 0 .. n |-> SumOver(L, 1 .. k)]
  OBVIOUS
<1>7. \A k \in 0 .. n : A[k] = quantity_at(levels, 1 .. k) /\ A[k] \in Nat
  <2>1. \A k \in 0 .. n : 1 .. k \subseteq 1 .. n
    OBVIOUS
  <2>2. \A k \in 0 .. n : A[k] = quantity_at(levels, 1 .. k)
    BY <1>4, <1>6 DEF quantity_at
  <2> QED
    BY <1>1, <2>1, <2>2, QuantityAt
<1>8. PICK take : take = taken(i, levels)
  OBVIOUS
<1>9. ASSUME NEW k \in 1 .. n
      PROVE  /\ k > r => take[k] = 0
             /\ k <= r => take[k] = LET m == IF Q >= A[k - 1] THEN Q - A[k - 1] ELSE 0
                                    IN  IF L[k] <= m THEN L[k] ELSE m
             /\ A[k - 1] \in Nat /\ L[k] \in Nat
  <2>1. k - 1 \in 0 .. n
    OBVIOUS
  <2>2. PICK a \in Nat, l \in Nat : a = A[k - 1] /\ l = L[k] /\ a = quantity_at(levels, 1 .. (k - 1))
                                    /\ l = levels[k].quantity
    BY <1>5, <1>7, <2>1
  <2>3. take[k] = IF k > r THEN 0 ELSE Min({l, Max({0, Q - a})})
    BY <1>1, <1>2, <1>3, <1>8, <2>2 DEF taken
  <2>4. Max({0, Q - a}) = IF 0 >= Q - a THEN 0 ELSE Q - a
    <3>1. PICK z \in Int : z = Q - a
      OBVIOUS
    <3>2. Max({0, z}) = IF 0 >= z THEN 0 ELSE z
      BY ONLY 0 \in Int, z \in Int, OfTwo
    <3> QED
      BY <3>1, <3>2
  <2>5. PICK m \in Nat : m = Max({0, Q - a}) /\ m = IF Q >= a THEN Q - a ELSE 0
    BY <2>4
  <2>6. Min({l, m}) = IF l <= m THEN l ELSE m
    BY OfTwo
  <2> QED
    BY <2>2, <2>3, <2>5, <2>6
<1>10. ASSUME NEW k \in 1 .. n
       PROVE  /\ take[k] \in Nat /\ take[k] <= L[k]
              /\ take[k] > 0 => k <= r /\ take[k] + A[k - 1] <= Q
  <2>1. PICK a \in Nat, l \in Nat, m \in Nat :
           a = A[k - 1] /\ l = L[k] /\ m = IF Q >= a THEN Q - a ELSE 0
    <3>1. PICK a \in Nat, l \in Nat : a = A[k - 1] /\ l = L[k]
      BY <1>9
    <3>2. PICK m \in Nat : m = IF Q >= a THEN Q - a ELSE 0
      <4>1. CASE Q >= a
        <5>1. Q - a \in Nat
          BY <4>1
        <5> QED
          BY <4>1, <5>1
      <4>2. CASE ~(Q >= a)
        BY <4>2
      <4> QED
        BY <4>1, <4>2
    <3> QED
      BY <3>1, <3>2
  <2>2. take[k] = IF k > r THEN 0 ELSE IF l <= m THEN l ELSE m
    BY <1>9, <2>1
  <2> QED
    BY <2>1, <2>2
<1>11. DOMAIN take = 1 .. n
  BY <1>1, <1>8 DEF taken
<1> DEFINE P == {k \in 0 .. n : /\ SumOver(take, 1 .. k) \in Nat
                                /\ SumOver(take, 1 .. k) <= Q /\ SumOver(take, 1 .. k) <= A[k]}
<1>12. 0 \in P
  <2>1. 1 .. 0 = {} /\ 0 \in 0 .. n
    OBVIOUS
  <2>2. SumOver(take, {}) = 0 /\ SumOver(L, {}) = 0
    BY SumEmpty
  <2> QED
    BY <1>6, <2>1, <2>2
<1>13. ASSUME NEW k \in 1 .. n, k - 1 \in P
       PROVE  k \in P
  <2>1. PICK j \in Nat : j = k - 1 /\ k = j + 1 /\ j \in 0 .. n /\ k \in 0 .. n
    <3>1. k - 1 \in Nat /\ k = (k - 1) + 1 /\ k - 1 \in 0 .. n /\ k \in 0 .. n
      OBVIOUS
    <3> QED
      BY <3>1
  <2>2. \A x \in 1 .. (j + 1) : take[x] \in Int /\ L[x] \in Int
    BY <1>5, <1>10, <2>1
  <2>3. SumOver(take, 1 .. (j + 1)) = SumOver(take, 1 .. j) + take[j + 1]
    <3>1. \A x \in 1 .. (j + 1) : take[x] \in Int
      BY <2>2
    <3> QED
      BY ONLY <2>1, <3>1, SumNext
  <2>4. SumOver(L, 1 .. (j + 1)) = SumOver(L, 1 .. j) + L[j + 1]
    <3>1. \A x \in 1 .. (j + 1) : L[x] \in Int
      BY <2>2
    <3> QED
      BY ONLY <2>1, <3>1, SumNext
  <2>5. PICK s \in Nat, a \in Nat, x \in Nat, l \in Nat :
           /\ s = SumOver(take, 1 .. j) /\ a = A[j] /\ x = take[k] /\ l = L[k] /\ s <= Q /\ s <= a
    BY <1>5, <1>7, <1>10, <1>13, <2>1
  <2>6. x <= l /\ (x > 0 => x + a <= Q)
    BY <1>10, <2>1, <2>5
  <2>7. SumOver(take, 1 .. k) = s + x /\ A[k] = a + l
    BY <1>6, <2>1, <2>3, <2>4, <2>5
  <2>8. s + x \in Nat /\ s + x <= Q /\ s + x <= a + l
    <3>1. s + x \in Nat /\ s + x <= a + l
      <4>1. x <= l /\ s <= a
        BY <2>5, <2>6
      <4> QED
        BY ONLY <4>1, s \in Nat, x \in Nat, a \in Nat, l \in Nat
    <3>2. CASE x > 0
      <4>1. x + a <= Q /\ a \in Nat /\ x \in Nat /\ s \in Nat /\ s <= a /\ Q \in Nat
        BY <2>5, <2>6, <3>2
      <4>2. s + x <= Q
        BY ONLY <4>1
      <4> QED
        BY <3>1, <4>2
    <3>3. CASE x = 0
      BY <2>5, <3>1, <3>3
    <3> QED
      BY <2>5, <3>2, <3>3
  <2> QED
    BY <2>1, <2>7, <2>8
<1>14. \A k \in 0 .. n : k \in P
  <2> HIDE DEF P
  <2> QED
    BY <1>12, <1>13, Upto
<1>15. SumOver(take, 1 .. n) \in 0 .. Q
  <2>1. n \in 0 .. n
    OBVIOUS
  <2> QED
    BY <1>14, <2>1
<1>16. \A k \in 1 .. n : take[k] > 0 => within_limit(i, levels[k].price)
  <2>1. \A k \in 1 .. n : k <= r => k \in 1 .. r
    OBVIOUS
  <2> QED
    BY <1>2, <1>10, <2>1
<1> QED
  BY <1>1, <1>3, <1>5, <1>8, <1>10, <1>11, <1>15, <1>16

(* A level has a price and a quantity.                                     *)
LEMMA LevelType ==
    ASSUME NEW v \in Level
    PROVE  v.price \in 0 .. One /\ v.price \in Nat /\ v.quantity \in Nat
  BY DEF Level, One

(* The fills of a taker order. *)
taker_fills(i, levels, when) ==
    LET take == taken(i, levels)
        fills == [k \in DOMAIN levels |-> a_fill(i, levels[k].price, take[k], "taker", when)]
    IN  keep(fills, {k \in DOMAIN fills : take[k] > 0})

(* How many contracts they are. *)
took_of(i, levels) == SumOver(taken(i, levels), DOMAIN levels)

(* The fills of a taker order: their quantities add up to what it took,    *)
(* they are its own, and what a buy pays is within its limit.              *)
LEMMA TakerFills ==
    ASSUME NEW levels \in Seq(Level), NEW i \in OrderIntent(ClientOrderIds), NEW when \in Int
    PROVE  LET got == taker_fills(i, levels, when)
               n == took_of(i, levels)
           IN  /\ got \in Seq(Fill) /\ n \in 0 .. i.quantity /\ n \in Nat
               /\ \A s \in Sides, b \in {"BUY", "SELL"} :
                     Total(got, swept(s, b))
                        = IF s = i.side /\ b = i.order_side THEN n ELSE 0
               /\ \A c : c # i.id => Total(got, paid(c)) = 0
               /\ i.order_side = "SELL" => Total(got, paid(i.id)) = 0
               /\ i.order_type # "market" => Total(got, paid(i.id)) <= i.price * n
               /\ got = <<>> => n = 0
<1>1. PICK l : l = Len(levels) /\ l \in Nat /\ DOMAIN levels = 1 .. l /\ \A k \in 1 .. l : levels[k] \in Level
  OBVIOUS
<1>2. PICK take : /\ take = taken(i, levels) /\ DOMAIN take = 1 .. l
                  /\ \A k \in 1 .. l : /\ take[k] \in Nat /\ take[k] <= levels[k].quantity
                                       /\ take[k] > 0 => within_limit(i, levels[k].price)
                  /\ SumOver(take, 1 .. l) \in 0 .. i.quantity
  BY <1>1, Taken
<1>3. PICK n \in Nat : n = took_of(i, levels) /\ n = SumOver(take, 1 .. l) /\ n \in 0 .. i.quantity
  <2>1. i.quantity \in Nat
    BY OrderType
  <2> QED
    BY <1>1, <1>2, <2>1 DEF took_of
<1>4. PICK fills : fills = [k \in 1 .. l |-> a_fill(i, levels[k].price, take[k], "taker", when)]
  OBVIOUS
<1>5. \A k \in 1 .. l : fills[k] \in Fill
  <2>1. SUFFICES ASSUME NEW k \in 1 .. l
                 PROVE  fills[k] \in Fill
    OBVIOUS
  <2>2. levels[k].price \in 0 .. One /\ take[k] \in Nat
    BY <1>1, <1>2 DEF Level
  <2> QED
    BY <1>4, <2>2, AFill
<1>6. fills \in Seq(Fill) /\ DOMAIN fills = 1 .. l
  BY <1>1, <1>4, <1>5
<1>7. PICK K : K = {k \in DOMAIN fills : take[k] > 0} /\ K \subseteq DOMAIN fills
  OBVIOUS
<1>a. fills \in Seq(Fill)
  BY <1>6
<1>b. K \subseteq DOMAIN fills
  BY <1>7
<1>8. PICK got : got = keep(fills, K)
  OBVIOUS
<1>9. got = taker_fills(i, levels, when)
  BY <1>1, <1>2, <1>4, <1>7, <1>8 DEF taker_fills
<1>10. got \in Seq(Fill)
  <2>1. \E m, j : /\ Enumerates(m, j, K) /\ got = [r \in 1 .. j |-> fills[m[r]]]
                  /\ got \in Seq(Fill) /\ Len(got) = j
    BY ONLY <1>a, <1>b, <1>8, Kept
  <2> QED
    BY <2>1
<1>11. ASSUME NEW val \in [Fill -> Int], \A k \in 1 .. l : take[k] = 0 => val[fills[k]] = 0
       PROVE  Total(got, val) = SumOver([k \in 1 .. l |-> val[fills[k]]], 1 .. l)
  <2>1. \A k \in DOMAIN fills \ K : val[fills[k]] = 0
    BY <1>2, <1>6, <1>7, <1>11
  <2>2. Total(keep(fills, K), val) = Total(fills, val)
    BY ONLY <1>a, <1>b, val \in [Fill -> Int], <2>1, TotalKept
  <2> QED
    BY <1>6, <1>8, <2>2 DEF Total
<1>12. IsFiniteSet(1 .. l)
  BY <1>1, UpTo
<1>13. ASSUME NEW k \in 1 .. l
       PROVE  /\ fills[k].id = i.id /\ fills[k].side = i.side /\ fills[k].order_side = i.order_side
              /\ fills[k].price = levels[k].price /\ fills[k].quantity = take[k]
              /\ fills[k].liquidity = "taker"
  BY <1>4 DEF a_fill
<1>14. ASSUME NEW s \in Sides, NEW b \in {"BUY", "SELL"}
       PROVE  Total(got, swept(s, b)) = IF s = i.side /\ b = i.order_side THEN n ELSE 0
  <2>1. PICK val \in [Fill -> Int] : val = swept(s, b)
    BY Weights
  <2>2. \A k \in 1 .. l : val[fills[k]] = IF s = i.side /\ b = i.order_side THEN take[k] ELSE 0
    BY <1>5, <1>13, <2>1 DEF swept
  <2>3. \A k \in 1 .. l : take[k] = 0 => val[fills[k]] = 0
    BY <2>2
  <2>4. Total(got, val) = SumOver([k \in 1 .. l |-> val[fills[k]]], 1 .. l)
    BY <1>11, <2>3
  <2>5. PICK w, S : w = [k \in 1 .. l |-> val[fills[k]]] /\ S = 1 .. l
    OBVIOUS
  <2>6. CASE s = i.side /\ b = i.order_side
    <3>1. IsFiniteSet(S) /\ \A k \in S : w[k] = take[k]
      BY <1>12, <2>2, <2>5, <2>6
    <3>2. SumOver(w, S) = SumOver(take, S)
      BY ONLY <3>1, SumSame
    <3> QED
      BY <1>3, <2>1, <2>4, <2>5, <2>6, <3>2
  <2>7. CASE ~(s = i.side /\ b = i.order_side)
    <3>1. IsFiniteSet(S) /\ {} \subseteq S /\ (\A k \in S : w[k] \in Int)
      BY <1>12, <2>2, <2>5, <2>7
    <3>2. \A k \in S \ {} : w[k] = 0
      BY <2>2, <2>5, <2>7
    <3>3. PICK T : T = {}
      OBVIOUS
    <3>4. IsFiniteSet(S) /\ T \subseteq S /\ (\A k \in S : w[k] \in Int) /\ \A k \in S \ T : w[k] = 0
      BY <3>1, <3>2, <3>3
    <3>5. SumOver(w, S) = SumOver(w, T)
      BY ONLY <3>4, SumZeros
    <3> QED
      BY <2>1, <2>4, <2>5, <2>7, <3>3, <3>5, SumEmpty
  <2> QED
    BY <2>6, <2>7
<1>15. ASSUME NEW c
       PROVE  /\ c # i.id \/ i.order_side = "SELL" => Total(got, paid(c)) = 0
              /\ c = i.id /\ i.order_type # "market" => Total(got, paid(c)) <= i.price * n
  <2>1. PICK val \in [Fill -> Int] : val = paid(c)
    BY Weights
  <2>2. \A k \in 1 .. l : val[fills[k]] = IF c = i.id /\ i.order_side = "BUY"
                                          THEN levels[k].price * take[k] ELSE 0
    BY <1>5, <1>13, <2>1 DEF paid, payment, amount
  <2>3. ASSUME NEW k \in 1 .. l
        PROVE  /\ levels[k].price \in Nat /\ take[k] \in Nat /\ levels[k].price * take[k] \in Nat
               /\ take[k] = 0 => levels[k].price * take[k] = 0
    <3>1. levels[k].price \in Nat /\ take[k] \in Nat
      <4>1. levels[k] \in Level /\ take[k] \in Nat
        BY <1>1, <1>2
      <4>2. PICK v \in Level : v = levels[k]
        BY <4>1
      <4>3. v.price \in Nat
        BY LevelType
      <4> QED
        BY <4>1, <4>2, <4>3
    <3>2. PICK x \in Nat, y \in Nat : x = levels[k].price /\ y = take[k]
      BY <3>1
    <3>3. x * y \in Nat /\ x * 0 = 0
      BY <3>2
    <3> QED
      BY <3>2, <3>3
  <2>4. \A k \in 1 .. l : take[k] = 0 => val[fills[k]] = 0
    BY <2>2, <2>3
  <2>5. Total(got, val) = SumOver([k \in 1 .. l |-> val[fills[k]]], 1 .. l)
    BY <1>11, <2>4
  <2>6. PICK w, S : w = [k \in 1 .. l |-> val[fills[k]]] /\ S = 1 .. l
    OBVIOUS
  <2>7. IsFiniteSet(S) /\ \A k \in S : w[k] \in Int
    BY <1>12, <2>2, <2>3, <2>6
  <2>8. ASSUME c # i.id \/ i.order_side = "SELL"
        PROVE  Total(got, paid(c)) = 0
    <3>1. PICK T : T = {}
      OBVIOUS
    <3>2. T \subseteq S /\ \A k \in S \ T : w[k] = 0
      BY <2>2, <2>6, <2>8, <3>1
    <3>3. SumOver(w, S) = SumOver(w, T)
      BY ONLY <2>7, <3>2, SumZeros
    <3> QED
      BY <2>1, <2>5, <2>6, <3>1, <3>3, SumEmpty
  <2>9. ASSUME c = i.id, i.order_type # "market"
        PROVE  Total(got, paid(c)) <= i.price * n
    <3>1. PICK p \in Nat : p = i.price
      BY OrderType
    <3>2. PICK g : g = [k \in S |-> p * take[k]]
      OBVIOUS
    <3>3. ASSUME NEW k \in S
          PROVE  g[k] \in Int /\ w[k] <= g[k]
      <4>1. PICK x \in Nat, y \in Nat : x = levels[k].price /\ y = take[k] /\ g[k] = p * y
        BY <2>3, <2>6, <3>2
      <4>2. w[k] = IF i.order_side = "BUY" THEN x * y ELSE 0
        BY <2>2, <2>6, <2>9, <4>1
      <4>3. p * y \in Nat
        BY <4>1
      <4>4. i.order_side = "BUY" /\ y > 0 => x <= p
        BY <1>2, <2>6, <2>9, <3>1, <4>1 DEF within_limit
      <4>5. CASE y = 0
        BY <4>1, <4>2, <4>5
      <4>6. CASE y > 0 /\ x <= p
        <5>1. x * y <= p * y
          BY ONLY <4>1, <4>6, <3>1, p \in Nat, x \in Nat, y \in Nat
        <5> QED
          BY <4>1, <4>2, <4>3, <5>1
      <4>7. CASE i.order_side # "BUY"
        BY <4>1, <4>2, <4>3, <4>7
      <4> QED
        BY <4>4, <4>5, <4>6, <4>7
    <3>4. \A k \in S : w[k] \in Int /\ g[k] \in Int /\ w[k] <= g[k]
      BY <2>7, <3>3
    <3>5. SumOver(w, S) <= SumOver(g, S)
      BY ONLY <2>7, <3>4, SumMonotone
    <3>6. (\A k \in S : take[k] \in Int) /\ p \in Int /\ \A k \in S : g[k] = p * take[k]
      BY <1>2, <2>6, <3>2
    <3>7. SumOver(g, S) = p * SumOver(take, S)
      BY ONLY <2>7, <3>6, SumScaled
    <3> QED
      BY <1>3, <2>1, <2>5, <2>6, <3>1, <3>5, <3>7
  <2> QED
    BY <2>8, <2>9
<1>16. ASSUME got = <<>>
       PROVE  n = 0
  <2>1. PICK s \in Sides, b \in {"BUY", "SELL"} : s = i.side /\ b = i.order_side
    BY OrderType
  <2>2. Total(got, swept(s, b)) = n
    BY <1>14, <2>1
  <2> QED
    BY <1>16, <2>2, TotalOfNone
<1> QED
  BY <1>3, <1>9, <1>10, <1>14, <1>15, <1>16

(* What one side of a book shows. *)
shows(book, s, b) == show(book)[s][b]

(* What a book shows, as a total.                                          *)
LEMMA Shows ==
    ASSUME NEW book \in OrderBook, NEW s \in Sides
    PROVE  /\ book[s].asks \in Seq(Level) /\ book[s].bids \in Seq(Level)
           /\ shows(book, s, "BUY") = Total(book[s].asks, sizes)
           /\ shows(book, s, "SELL") = Total(book[s].bids, sizes)
           /\ shows(book, s, "BUY") \in Nat /\ shows(book, s, "SELL") \in Nat
<1>1. book["YES"] \in TopOfBook /\ book["NO"] \in TopOfBook /\ s \in {"YES", "NO"}
  BY DEF OrderBook, Sides
<1>2. PICK top \in TopOfBook : top = book[s]
  BY <1>1
<1>3. top.bids \in Seq(Level) /\ top.asks \in Seq(Level)
  BY DEF TopOfBook
<1>4. /\ shows(book, s, "BUY") = total_quantity(book[s].asks)
      /\ shows(book, s, "SELL") = total_quantity(book[s].bids)
  BY DEF shows, show
<1> QED
  BY <1>2, <1>3, <1>4, Sized

(* The levels of a book without what a taker took of them. *)
left(levels, take) ==
    LET less == [k \in DOMAIN levels |-> [levels[k] EXCEPT !.quantity = @ - take[k]]]
    IN  keep(less, {k \in DOMAIN less : less[k].quantity > 0})

(* What is left of the levels, and what was taken, is what they held.      *)
LEMMA Left ==
    ASSUME NEW levels \in Seq(Level), NEW i \in OrderIntent(ClientOrderIds)
    PROVE  LET l == left(levels, taken(i, levels))
           IN  /\ l \in Seq(Level)
               /\ Total(l, sizes) + took_of(i, levels) = Total(levels, sizes)
<1>1. PICK n : n = Len(levels) /\ n \in Nat /\ DOMAIN levels = 1 .. n /\ \A k \in 1 .. n : levels[k] \in Level
  OBVIOUS
<1>2. PICK take : /\ take = taken(i, levels) /\ DOMAIN take = 1 .. n
                  /\ \A k \in 1 .. n : take[k] \in Nat /\ take[k] <= levels[k].quantity
  BY <1>1, Taken
<1>3. PICK less : less = [k \in 1 .. n |-> [levels[k] EXCEPT !.quantity = @ - take[k]]]
  OBVIOUS
<1>4. ASSUME NEW k \in 1 .. n
      PROVE  /\ less[k] \in Level /\ less[k].quantity + take[k] = levels[k].quantity
             /\ less[k].quantity \in Nat /\ levels[k].quantity \in Nat
  <2>1. PICK v \in Level, x \in Nat, y \in Nat : v = levels[k] /\ x = v.quantity /\ y = take[k] /\ y <= x
    <3>1. PICK v \in Level : v = levels[k]
      BY <1>1
    <3>2. v.quantity \in Nat
      BY LevelType
    <3> QED
      BY <1>2, <3>1, <3>2
  <2>2. PICK z \in Nat : z = x - y /\ z + y = x
    <3>1. x - y \in Nat /\ (x - y) + y = x
      BY <2>1
    <3> QED
      BY <3>1
  <2>3. PICK u : u = [v EXCEPT !.quantity = z]
    OBVIOUS
  <2>4. less[k] = [v EXCEPT !.quantity = @ - y]
    BY <1>3, <2>1
  <2>5. [v EXCEPT !.quantity = @ - y] = u
    BY <2>1, <2>2, <2>3
  <2>6. u \in Level /\ u.quantity = z
    BY <2>2, <2>3 DEF Level
  <2> QED
    BY <2>1, <2>2, <2>4, <2>5, <2>6
<1>5. less \in Seq(Level) /\ DOMAIN less = 1 .. n
  BY <1>1, <1>3, <1>4
<1>a. less \in Seq(Level)
  BY <1>5
<1>6. PICK K : K = {k \in DOMAIN less : less[k].quantity > 0}
  OBVIOUS
<1>b. K \subseteq DOMAIN less
  BY <1>6
<1>7. PICK l : l = keep(less, K)
  OBVIOUS
<1>8. l = left(levels, taken(i, levels))
  BY <1>1, <1>2, <1>3, <1>6, <1>7 DEF left
<1>9. l \in Seq(Level)
  <2>1. \E m, j : /\ Enumerates(m, j, K) /\ l = [r \in 1 .. j |-> less[m[r]]]
                  /\ l \in Seq(Level) /\ Len(l) = j
    BY ONLY <1>a, <1>b, <1>7, Kept
  <2> QED
    BY <2>1
<1>10. Total(l, sizes) = Total(less, sizes)
  <2>1. PICK val \in [Level -> Int] : val = sizes
    BY Weights
  <2>2. \A k \in DOMAIN less \ K : val[less[k]] = 0
    <3>1. SUFFICES ASSUME NEW k \in DOMAIN less \ K
                   PROVE  val[less[k]] = 0
      OBVIOUS
    <3>2. less[k] \in Level /\ less[k].quantity \in Nat /\ ~(less[k].quantity > 0)
      BY <1>4, <1>5, <1>6
    <3>3. less[k].quantity = 0
      BY <3>2
    <3> QED
      BY <2>1, <3>2, <3>3 DEF sizes
  <2>3. Total(keep(less, K), val) = Total(less, val)
    BY ONLY <1>a, <1>b, val \in [Level -> Int], <2>2, TotalKept
  <2> QED
    BY <1>7, <2>1, <2>3
<1>11. PICK f, h, S : /\ f = [k \in DOMAIN less |-> sizes[less[k]]]
                      /\ h = [k \in DOMAIN levels |-> sizes[levels[k]]] /\ S = 1 .. n
  OBVIOUS
<1>12. \A k \in S : f[k] \in Int /\ take[k] \in Int /\ h[k] = f[k] + take[k]
  <2>1. SUFFICES ASSUME NEW k \in S
                 PROVE  f[k] \in Int /\ take[k] \in Int /\ h[k] = f[k] + take[k]
    OBVIOUS
  <2>2. f[k] = less[k].quantity /\ h[k] = levels[k].quantity
    BY <1>1, <1>4, <1>5, <1>11 DEF sizes
  <2> QED
    BY <1>2, <1>4, <1>11, <2>2
<1>13. IsFiniteSet(S)
  BY <1>1, <1>11, UpTo
<1>14. SumOver(h, S) = SumOver(f, S) + SumOver(take, S)
  BY ONLY <1>12, <1>13, SumPlus
<1>15. Total(levels, sizes) = SumOver(h, S) /\ Total(less, sizes) = SumOver(f, S)
  BY <1>1, <1>5, <1>11 DEF Total
<1>16. took_of(i, levels) = SumOver(take, S)
  BY <1>1, <1>2, <1>11 DEF took_of
<1> QED
  BY <1>8, <1>9, <1>10, <1>14, <1>15, <1>16

(* _with_opposite_levels_debited: what a taker took is not shown again.    *)
LEMMA Debited ==
    ASSUME NEW book \in OrderBook, NEW i \in OrderIntent(ClientOrderIds)
    PROVE  LET levels == opposite_levels(book, i)
               b2 == debited(book, i, taken(i, levels))
           IN  /\ b2 \in OrderBook /\ b2.known = book.known
               /\ \A s \in Sides, b \in {"BUY", "SELL"} :
                     shows(book, s, b) = shows(b2, s, b)
                        + (IF s = i.side /\ b = i.order_side THEN took_of(i, levels) ELSE 0)
<1>1. PICK levels \in Seq(Level) : levels = opposite_levels(book, i)
  BY SidesOfBook
<1>2. PICK l \in Seq(Level), n \in Nat :
         /\ l = left(levels, taken(i, levels)) /\ n = took_of(i, levels)
         /\ Total(l, sizes) + n = Total(levels, sizes)
  <2>1. took_of(i, levels) \in Nat
    BY TakerFills, 0 \in Int
  <2> QED
    BY <2>1, Left
<1>3. i.side \in Sides /\ i.side \in {"YES", "NO"} /\ i.order_side \in {"BUY", "SELL"}
  BY OrderType DEF Sides
<1>4. PICK b2 : b2 = debited(book, i, taken(i, levels))
  OBVIOUS
<1>5. b2 = IF i.order_side = "BUY" THEN [book EXCEPT ![i.side].asks = l]
                                   ELSE [book EXCEPT ![i.side].bids = l]
  BY <1>1, <1>2, <1>4 DEF debited, left
<1>6. PICK top \in TopOfBook : top = book[i.side]
  BY <1>3 DEF OrderBook
<1>7. CASE i.order_side = "BUY"
  <2>1. PICK t2 : t2 = [top EXCEPT !.asks = l]
    OBVIOUS
  <2>2. t2 \in TopOfBook /\ t2.asks = l /\ t2.bids = top.bids
    BY <2>1 DEF TopOfBook
  <2>3. b2 = [book EXCEPT ![i.side] = t2]
    BY <1>5, <1>6, <1>7, <2>1
  <2>4. b2 \in OrderBook /\ b2.known = book.known
    BY <1>3, <2>2, <2>3 DEF OrderBook
  <2>5. b2[i.side] = t2 /\ \A s \in Sides : s # i.side => b2[s] = book[s]
    BY <1>3, <2>3 DEF OrderBook, Sides
  <2>6. levels = top.asks
    BY <1>1, <1>6, <1>7 DEF opposite_levels
  <2>7. ASSUME NEW s \in Sides, NEW b \in {"BUY", "SELL"}
        PROVE  shows(book, s, b) = shows(b2, s, b)
                  + (IF s = i.side /\ b = i.order_side THEN n ELSE 0)
    <3>1. shows(book, s, b) \in Nat /\ shows(b2, s, b) \in Nat
      BY <2>4, Shows
    <3>2. CASE s = i.side /\ b = "BUY"
      BY <1>2, <1>6, <1>7, <2>2, <2>4, <2>5, <2>6, <3>1, <3>2, Shows
    <3>3. CASE ~(s = i.side /\ b = "BUY")
      <4>1. shows(book, s, b) = shows(b2, s, b)
        <5>1. b = "BUY" => b2[s].asks = book[s].asks
          BY <2>5, <3>3
        <5>2. b2[s].bids = book[s].bids
          BY <1>6, <2>2, <2>5
        <5> QED
          BY <2>4, <5>1, <5>2, Shows
      <4> QED
        BY <1>7, <3>1, <3>3, <4>1
    <3> QED
      BY <3>2, <3>3
  <2> QED
    BY <1>1, <1>2, <1>4, <2>4, <2>7
<1>8. CASE i.order_side = "SELL"
  <2>1. PICK t2 : t2 = [top EXCEPT !.bids = l]
    OBVIOUS
  <2>2. t2 \in TopOfBook /\ t2.bids = l /\ t2.asks = top.asks
    BY <2>1 DEF TopOfBook
  <2>3. b2 = [book EXCEPT ![i.side] = t2]
    BY <1>5, <1>6, <1>8, <2>1
  <2>4. b2 \in OrderBook /\ b2.known = book.known
    BY <1>3, <2>2, <2>3 DEF OrderBook
  <2>5. b2[i.side] = t2 /\ \A s \in Sides : s # i.side => b2[s] = book[s]
    BY <1>3, <2>3 DEF OrderBook, Sides
  <2>6. levels = top.bids
    BY <1>1, <1>6, <1>8 DEF opposite_levels
  <2>7. ASSUME NEW s \in Sides, NEW b \in {"BUY", "SELL"}
        PROVE  shows(book, s, b) = shows(b2, s, b)
                  + (IF s = i.side /\ b = i.order_side THEN n ELSE 0)
    <3>1. shows(book, s, b) \in Nat /\ shows(b2, s, b) \in Nat
      BY <2>4, Shows
    <3>2. CASE s = i.side /\ b = "SELL"
      BY <1>2, <1>6, <1>8, <2>2, <2>4, <2>5, <2>6, <3>1, <3>2, Shows
    <3>3. CASE ~(s = i.side /\ b = "SELL")
      <4>1. shows(book, s, b) = shows(b2, s, b)
        <5>1. b = "SELL" => b2[s].bids = book[s].bids
          BY <2>5, <3>3
        <5>2. b2[s].asks = book[s].asks
          BY <1>6, <2>2, <2>5
        <5> QED
          BY <2>4, <5>1, <5>2, Shows
      <4> QED
        BY <1>8, <3>1, <3>3, <4>1
    <3> QED
      BY <3>2, <3>3
  <2> QED
    BY <1>1, <1>2, <1>4, <2>4, <2>7
<1> QED
  BY <1>3, <1>7, <1>8

-----------------------------------------------------------------------------
(* The simulator.                                                          *)

(* The state of a simulator: one book, the orders, the fills not yet read. *)
Simulator ==
    [book : OrderBook, status : {"opened"} \cup Lifecycles, pending : Ledger,
     fills : Seq(Fill)]

(* An order is kept under its own id, is not overfilled, and is filled     *)
(* only once it is active. *)
Tidy(p) ==
    /\ p.intent.id = p.id
    /\ p.filled <= p.intent.quantity
    /\ ~p.active => p.filled = 0

(* A simulator whose orders are tidy. *)
Proper == {s \in Simulator : \A p \in Orders(s.pending) : Tidy(p)}

(* What an order may still spend. *)
claim(p) == p.intent.price * (p.intent.quantity - p.filled)

(* Between s and t takers took from the book just what it no longer shows. *)
SameLiquidity(s, t) ==
    \A o \in Sides, b \in {"BUY", "SELL"} :
        taker_volume(t.fills)[o][b] + shows(t.book, o, b)
            = taker_volume(s.fills)[o][b] + shows(s.book, o, b)

(* What becomes of order i when it meets the book: what it takes is gone   *)
(* from the book, what it pays and what its remainder may still spend is   *)
(* within its notional, and no other order changes. *)
Places(s, t, i) ==
    /\ t \in Proper /\ t.book.known = s.book.known /\ t.status = s.status
    /\ SameLiquidity(s, t)
    /\ \A p : p.id # i.id => (p \in Orders(t.pending) <=> p \in Orders(s.pending))
    /\ \A y \in Orders(t.pending) : y.id = i.id =>
          /\ ~in_flight(y) /\ y.filled = 0
          /\ y.intent.order_type = i.order_type /\ y.intent.order_side = i.order_side
          /\ y.status \in Live /\ y.intent.order_side = "BUY" =>
                spent(t.fills, i.id) + claim(y) <= spent(s.fills, i.id) + notional(i)
    /\ \A c : c # i.id \/ i.order_side = "SELL" => spent(t.fills, c) = spent(s.fills, c)
    /\ i.order_type # "market" =>
          spent(t.fills, i.id) <= spent(s.fills, i.id) + notional(i)

(* The remainder of an order is an order.                                  *)
LEMMA Remainder ==
    ASSUME NEW i \in OrderIntent(ClientOrderIds), NEW q \in Nat
    PROVE  LET r == [i EXCEPT !.quantity = q]
           IN  /\ r \in OrderIntent(ClientOrderIds)
               /\ r.id = i.id /\ r.quantity = q /\ r.price = i.price
               /\ r.order_side = i.order_side /\ r.order_type = i.order_type
  BY DEF OrderIntent

(* A new order that rests at once.                                         *)
LEMMA NewResting ==
    ASSUME NEW i \in OrderIntent(ClientOrderIds), NEW u \in Int, NEW v \in Int, NEW ahead \in Nat,
           NEW st \in {"OPEN", "PARTIALLY_FILLED"}
    PROVE  LET p == pending_order(i, u, v, ahead, st, TRUE)
           IN  /\ p \in PendingOrder /\ Tidy(p) /\ p.id = i.id /\ p.intent = i
               /\ p.filled = 0 /\ p.queue_ahead = ahead /\ p.active
               /\ p.effective_at = v /\ p.status = st
<1>1. PICK at \in Int : at = Never
  BY DEF Never
<1>2. PICK p : p = pending_order(i, u, v, ahead, st, TRUE)
  OBVIOUS
<1>3. p = [id |-> i.id, intent |-> i, submitted_at |-> u, effective_at |-> v, queue_ahead |-> ahead,
           filled |-> 0, status |-> st, active |-> TRUE, cancel_at |-> at]
  BY <1>1, <1>2 DEF pending_order
<1>4. i.id \in ClientOrderIds /\ i.quantity \in Nat
  BY OrderType
<1>5. p \in PendingOrder
  BY <1>3, <1>4 DEF PendingOrder
<1>6. /\ p.id = i.id /\ p.intent = i /\ p.filled = 0 /\ p.queue_ahead = ahead
      /\ p.active /\ p.effective_at = v /\ p.status = st
  BY <1>3
<1>7. Tidy(p)
  BY <1>4, <1>6 DEF Tidy
<1> QED
  BY <1>2, <1>5, <1>6, <1>7

(* A new order under way to the venue.                                     *)
LEMMA NewInFlight ==
    ASSUME NEW i \in OrderIntent(ClientOrderIds), NEW u \in Int, NEW v \in Int, NEW ahead \in Nat,
           NEW st \in {"OPEN", "PARTIALLY_FILLED"}
    PROVE  LET p == pending_order(i, u, v, ahead, st, FALSE)
           IN  /\ p \in PendingOrder /\ Tidy(p) /\ p.id = i.id /\ p.intent = i
               /\ p.filled = 0 /\ p.queue_ahead = ahead /\ ~p.active
               /\ p.effective_at = v /\ p.status = st
<1>1. PICK at \in Int : at = Never
  BY DEF Never
<1>2. PICK p : p = pending_order(i, u, v, ahead, st, FALSE)
  OBVIOUS
<1>3. p = [id |-> i.id, intent |-> i, submitted_at |-> u, effective_at |-> v, queue_ahead |-> ahead,
           filled |-> 0, status |-> st, active |-> FALSE, cancel_at |-> at]
  BY <1>1, <1>2 DEF pending_order
<1>4. i.id \in ClientOrderIds /\ i.quantity \in Nat
  BY OrderType
<1>5. p \in PendingOrder
  BY <1>3, <1>4 DEF PendingOrder
<1>6. /\ p.id = i.id /\ p.intent = i /\ p.filled = 0 /\ p.queue_ahead = ahead
      /\ ~p.active /\ p.effective_at = v /\ p.status = st
  BY <1>3
<1>7. Tidy(p)
  BY <1>4, <1>6 DEF Tidy
<1> QED
  BY <1>2, <1>5, <1>6, <1>7

(* The parts of a simulator.                                               *)
LEMMA Parts ==
    ASSUME NEW s \in Simulator
    PROVE  /\ s.book \in OrderBook /\ s.pending \in Ledger /\ s.fills \in Seq(Fill)
  BY DEF Simulator

(* _fill_marketable.                                                       *)
LEMMA FillMarketable ==
    ASSUME NEW s \in Proper, NEW i \in OrderIntent(ClientOrderIds), NEW when \in Int,
           \A p \in Orders(s.pending) : p.id # i.id
    PROVE  Places(s, fill_marketable(s, i, when), i)
<1>1. s \in Simulator /\ s.book \in OrderBook /\ s.pending \in Ledger /\ s.fills \in Seq(Fill)
  BY Parts DEF Proper
<1>2. PICK levels \in Seq(Level) : levels = opposite_levels(s.book, i)
  BY <1>1, SidesOfBook
<1>3. /\ i.id \in ClientOrderIds /\ i.quantity \in Nat /\ i.price \in Nat /\ notional(i) \in Nat
      /\ i.side \in Sides /\ i.order_side \in {"BUY", "SELL"} /\ notional(i) = i.price * i.quantity
  BY OrderType DEF notional
<1>4. PICK got \in Seq(Fill), n \in Nat :
         /\ got = taker_fills(i, levels, when) /\ n = took_of(i, levels) /\ n \in 0 .. i.quantity
         /\ \A o \in Sides, b \in {"BUY", "SELL"} :
               Total(got, swept(o, b)) = IF o = i.side /\ b = i.order_side THEN n ELSE 0
         /\ \A c : c # i.id => Total(got, paid(c)) = 0
         /\ i.order_side = "SELL" => Total(got, paid(i.id)) = 0
         /\ i.order_type # "market" => Total(got, paid(i.id)) <= i.price * n
  BY TakerFills
<1>5. PICK b2 \in OrderBook :
         /\ b2 = debited(s.book, i, taken(i, levels)) /\ b2.known = s.book.known
         /\ \A o \in Sides, b \in {"BUY", "SELL"} :
               shows(s.book, o, b) = shows(b2, o, b)
                  + (IF o = i.side /\ b = i.order_side THEN n ELSE 0)
  BY <1>1, <1>2, <1>4, Debited
<1>6. PICK rem \in Nat : rem = i.quantity - n /\ rem + n = i.quantity
  <2>1. i.quantity - n \in Nat /\ (i.quantity - n) + n = i.quantity
    BY <1>3, <1>4
  <2> QED
    BY <2>1
<1>7. PICK rest \in OrderIntent(ClientOrderIds) :
         /\ rest = [i EXCEPT !.quantity = rem] /\ rest.id = i.id /\ rest.quantity = rem
         /\ rest.price = i.price /\ rest.order_side = i.order_side /\ rest.order_type = i.order_type
  <2>1. PICK rest : rest = [i EXCEPT !.quantity = rem]
    OBVIOUS
  <2>2. /\ rest \in OrderIntent(ClientOrderIds) /\ rest.id = i.id /\ rest.quantity = rem
        /\ rest.price = i.price /\ rest.order_side = i.order_side
        /\ rest.order_type = i.order_type
    BY <2>1, Remainder
  <2> QED
    BY <2>1, <2>2
<1>8. PICK ahead \in Nat : ahead = queue_ahead(b2, rest)
  BY QueueType
<1>9. PICK st \in {"OPEN", "PARTIALLY_FILLED"} : st = IF got # <<>> THEN "PARTIALLY_FILLED" ELSE "OPEN"
  OBVIOUS
<1>10. PICK p \in PendingOrder :
          /\ p = pending_order(rest, when, when, ahead, st, TRUE)
          /\ Tidy(p) /\ p.id = i.id /\ p.intent = rest /\ p.filled = 0 /\ p.active
  <2>1. PICK p : p = pending_order(rest, when, when, ahead, st, TRUE)
    OBVIOUS
  <2>2. p \in PendingOrder /\ Tidy(p) /\ p.intent = rest /\ p.filled = 0 /\ p.active
    <3>1. p \in PendingOrder
      BY <2>1, NewResting
    <3>2. Tidy(p)
      BY <2>1, NewResting
    <3>3. p.intent = rest /\ p.filled = 0 /\ p.active
      BY <2>1 DEF pending_order
    <3> QED
      BY <3>1, <3>2, <3>3
  <2>3. p.id = rest.id
    BY <2>2 DEF Tidy
  <2> QED
    BY <1>7, <2>1, <2>2, <2>3
<1>11. PICK q \in Ledger : /\ q = put(s.pending, p)
                           /\ Orders(q) = {x \in Orders(s.pending) : x.id # p.id} \union {p}
  BY <1>1, Put
<1>12. PICK fl \in Seq(Fill) : fl = s.fills \o got
  <2>1. PICK a \in Seq(Fill) : a = s.fills
    BY <1>1
  <2>2. a \o got \in Seq(Fill)
    OBVIOUS
  <2> QED
    BY <2>1, <2>2
<1>13. PICK t : t = fill_marketable(s, i, when)
  OBVIOUS
<1>14. SumOver(taken(i, levels), DOMAIN taken(i, levels)) = n
  BY <1>4, Taken DEF took_of
<1>15. \/ t = s
       \/ t = [s EXCEPT !.fills = fl, !.book = b2, !.pending = s.pending]
       \/ t = [s EXCEPT !.fills = fl, !.book = b2, !.pending = q] /\ i.order_type # "market"
  <2> DEFINE shown_to == opposite_levels(s.book, i)
             take == taken(i, shown_to)
             over == i.quantity - SumOver(take, DOMAIN take)
             other == debited(s.book, i, take)
             made_now == taker_fills(i, shown_to, when)
             goes == rem > 0 /\ i.order_type # "market" /\ i.tif \notin {"IOC", "FOK"}
  <2>1. fill_marketable(s, i, when) =
            IF i.tif = "FOK" /\ marketable_quantity(i, shown_to) < i.quantity
            THEN s
            ELSE [s EXCEPT !.fills = @ \o made_now, !.book = other,
                           !.pending = IF over > 0 /\ i.order_type # "market"
                                                   /\ i.tif \notin {"IOC", "FOK"}
                              THEN put(@, pending_order([i EXCEPT !.quantity = over], when, when,
                                              queue_ahead(other, [i EXCEPT !.quantity = over]),
                                              IF made_now # <<>> THEN "PARTIALLY_FILLED" ELSE "OPEN",
                                              TRUE))
                              ELSE @]
    BY DEF fill_marketable, taker_fills
  <2>2. levels = shown_to /\ got = made_now /\ b2 = other /\ rem = over
    BY <1>2, <1>4, <1>5, <1>6, <1>14
  <2> HIDE DEF shown_to, take, over, other, made_now, goes
  <2>3. t = IF i.tif = "FOK" /\ marketable_quantity(i, levels) < i.quantity
            THEN s
            ELSE [s EXCEPT !.fills = @ \o got, !.book = b2,
                           !.pending = IF goes
                              THEN put(@, pending_order([i EXCEPT !.quantity = rem], when, when,
                                              queue_ahead(b2, [i EXCEPT !.quantity = rem]),
                                              IF got # <<>> THEN "PARTIALLY_FILLED" ELSE "OPEN", TRUE))
                              ELSE @]
    BY <1>13, <2>1, <2>2 DEF goes
  <2>4. t = IF i.tif = "FOK" /\ marketable_quantity(i, levels) < i.quantity
            THEN s
            ELSE [s EXCEPT !.fills = fl, !.book = b2,
                           !.pending = IF goes THEN q ELSE s.pending]
    BY <1>1, <1>7, <1>8, <1>9, <1>10, <1>11, <1>12, <2>3 DEF Simulator
  <2>5. goes => i.order_type # "market"
    BY DEF goes
  <2> QED
    BY <2>4, <2>5
<1>16. ASSUME NEW c
       PROVE  /\ spent(fl, c) = spent(s.fills, c) + Total(got, paid(c))
              /\ spent(s.fills, c) \in Nat /\ spent(fl, c) \in Nat /\ Total(got, paid(c)) \in Nat
  <2>1. PICK val \in [Fill -> Int] : val = paid(c)
    BY Weights
  <2>2. Total(s.fills \o got, val) = Total(s.fills, val) + Total(got, val)
    BY <1>1, TotalOfBoth
  <2>3. /\ spent(fl, c) = Total(fl, val) /\ spent(fl, c) \in Nat
        /\ spent(s.fills, c) = Total(s.fills, val) /\ spent(s.fills, c) \in Nat
        /\ spent(got, c) = Total(got, val) /\ spent(got, c) \in Nat
    BY <1>1, <2>1, Spent
  <2> QED
    BY <1>12, <2>1, <2>2, <2>3
<1>17. ASSUME NEW o \in Sides, NEW b \in {"BUY", "SELL"}
       PROVE  taker_volume(fl)[o][b] + shows(b2, o, b) = taker_volume(s.fills)[o][b] + shows(s.book, o, b)
  <2>1. PICK val \in [Fill -> Int] : val = swept(o, b)
    BY Weights
  <2>2. Total(s.fills \o got, val) = Total(s.fills, val) + Total(got, val)
    BY <1>1, TotalOfBoth
  <2>3. PICK z \in Nat : z = IF o = i.side /\ b = i.order_side THEN n ELSE 0
    OBVIOUS
  <2>4. Total(got, val) = z /\ shows(s.book, o, b) = shows(b2, o, b) + z
    BY <1>4, <1>5, <2>1, <2>3
  <2>5. PICK x \in Nat, y \in Nat : x = taker_volume(s.fills)[o][b] /\ y = shows(b2, o, b)
    <3>1. taker_volume(s.fills)[o][b] \in Nat /\ shows(b2, o, b) \in Nat
      BY <1>1, Swept, Shows
    <3> QED
      BY <3>1
  <2>6. taker_volume(fl)[o][b] = x + z
    BY <1>1, <1>12, <2>1, <2>2, <2>4, <2>5, Swept
  <2>7. (x + z) + y = x + (y + z)
    BY <2>3, <2>5
  <2> QED
    BY <2>4, <2>5, <2>6, <2>7
<1>18. i.order_type # "market" => Total(got, paid(i.id)) <= i.price * n
  BY <1>4
<1>19. PICK pr \in Nat : pr = i.price
  BY <1>3
<1>20. pr * n \in Nat /\ pr * rem \in Nat /\ pr * n + pr * rem = notional(i)
  <2>1. pr * n \in Nat /\ pr * rem \in Nat /\ pr * n + pr * rem = pr * (rem + n)
    <3>1. \A x, y, z \in Nat : x * y \in Nat /\ x * z \in Nat /\ x * y + x * z = x * (z + y)
      BY ONLY TRUE
    <3> QED
      BY ONLY <3>1, pr \in Nat, n \in Nat, rem \in Nat
  <2>2. rem + n = i.quantity /\ notional(i) = pr * i.quantity
    BY <1>3, <1>6, <1>19
  <2>3. notional(i) = pr * (rem + n)
    BY ONLY <2>2
  <2> QED
    BY ONLY <2>1, <2>3
<1>21. i.order_type # "market" =>
          /\ spent(fl, i.id) <= spent(s.fills, i.id) + notional(i)
          /\ spent(fl, i.id) + claim(p) <= spent(s.fills, i.id) + notional(i)
  <2>1. claim(p) = pr * rem
    <3>1. rem - 0 = rem
      OBVIOUS
    <3>2. p.intent.price = pr /\ p.intent.quantity = rem /\ p.filled = 0
      BY <1>7, <1>10, <1>19
    <3> QED
      BY ONLY <3>1, <3>2 DEF claim
  <2>2. PICK a \in Nat, g \in Nat, x \in Nat, y \in Nat, m \in Nat :
           /\ a = spent(s.fills, i.id) /\ g = Total(got, paid(i.id)) /\ x = pr * n /\ y = pr * rem
           /\ m = notional(i) /\ x + y = m
    BY <1>3, <1>16, <1>20
  <2>3. spent(fl, i.id) = a + g
    BY <1>16, <2>2
  <2>4. i.order_type # "market" => g <= x
    BY <1>18, <1>19, <2>2
  <2>5. i.order_type # "market" => a + g <= a + m /\ (a + g) + y <= a + m
    BY <2>2, <2>4
  <2> QED
    BY <2>1, <2>2, <2>3, <2>5
<1>22. \A c : c # i.id \/ i.order_side = "SELL" => spent(fl, c) = spent(s.fills, c)
  <2>1. SUFFICES ASSUME NEW c, c # i.id \/ i.order_side = "SELL"
                 PROVE  spent(fl, c) = spent(s.fills, c)
    OBVIOUS
  <2>2. Total(got, paid(c)) = 0
    BY <1>4, <2>1
  <2> QED
    BY <1>16, <2>2
<1>a. s \in Simulator /\ s.pending \in Ledger
  BY <1>1
<1>b. fl \in Seq(Fill) /\ b2 \in OrderBook /\ q \in Ledger
  OBVIOUS
<1>23. CASE t = s
  <2>1. \A c : spent(s.fills, c) \in Nat
    BY <1>16
  <2>2. spent(s.fills, i.id) <= spent(s.fills, i.id) + notional(i)
    BY <1>3, <2>1
  <2>3. t \in Proper
    BY <1>23
  <2> QED
    BY <1>13, <1>23, <2>2, <2>3 DEF Places, SameLiquidity
<1>24. CASE t = [s EXCEPT !.fills = fl, !.book = b2, !.pending = s.pending]
  <2>1. t \in Simulator /\ t.book = b2 /\ t.pending = s.pending /\ t.fills = fl /\ t.status = s.status
    BY ONLY <1>a, <1>b, <1>24 DEF Simulator
  <2>2. t \in Proper
    BY <2>1 DEF Proper
  <2>3. SameLiquidity(s, t)
    BY <1>17, <2>1 DEF SameLiquidity
  <2> QED
    BY <1>5, <1>13, <1>21, <1>22, <2>1, <2>2, <2>3 DEF Places
<1>25. CASE t = [s EXCEPT !.fills = fl, !.book = b2, !.pending = q] /\ i.order_type # "market"
  <2>1. t \in Simulator /\ t.book = b2 /\ t.pending = q /\ t.fills = fl /\ t.status = s.status
    BY ONLY <1>a, <1>b, <1>25 DEF Simulator
  <2>2. t \in Proper
    BY <1>10, <1>11, <2>1 DEF Proper
  <2>3. SameLiquidity(s, t)
    BY <1>17, <2>1 DEF SameLiquidity
  <2>4. \A x : x.id # i.id => (x \in Orders(t.pending) <=> x \in Orders(s.pending))
    BY <1>10, <1>11, <2>1
  <2>5. \A y \in Orders(t.pending) : y.id = i.id => y = p
    BY <1>10, <1>11, <2>1
  <2>6. /\ ~in_flight(p) /\ p.filled = 0
        /\ p.intent.order_type = i.order_type /\ p.intent.order_side = i.order_side
    BY <1>7, <1>10 DEF in_flight
  <2>7. \A y \in Orders(t.pending) : y.id = i.id =>
           /\ ~in_flight(y) /\ y.filled = 0
           /\ y.intent.order_type = i.order_type /\ y.intent.order_side = i.order_side
           /\ y.status \in Live /\ y.intent.order_side = "BUY" =>
                 spent(t.fills, i.id) + claim(y) <= spent(s.fills, i.id) + notional(i)
    BY <1>21, <1>25, <2>1, <2>5, <2>6
  <2> QED
    BY <1>5, <1>13, <1>21, <1>22, <2>1, <2>2, <2>3, <2>4, <2>7 DEF Places
<1> QED
  BY <1>15, <1>23, <1>24, <1>25

(* The parts of an order.                                                  *)
LEMMA OrderParts ==
    ASSUME NEW p \in PendingOrder
    PROVE  /\ p.id \in ClientOrderIds /\ p.intent \in OrderIntent(ClientOrderIds)
           /\ p.effective_at \in Int /\ p.submitted_at \in Int /\ p.cancel_at \in Int
           /\ p.queue_ahead \in Nat /\ p.filled \in Nat /\ p.active \in BOOLEAN
           /\ p.status \in {"OPEN", "PARTIALLY_FILLED", "FILLED", "CANCELED"}
           /\ p.intent.quantity \in Nat /\ p.intent.price \in Nat
  BY OrderType DEF PendingOrder

(* An order that is put back without having met the book. *)
LEMMA PutBack ==
    ASSUME NEW s \in Proper, NEW p \in Orders(s.pending), NEW o \in PendingOrder,
           o.id = p.id, o.intent = p.intent, o.filled = p.filled, Tidy(o), ~in_flight(o),
           NEW t, t = [s EXCEPT !.pending = put(@, o)]
    PROVE  /\ t \in Proper
           /\ in_flight(p) => Places(s, t, p.intent)
<1>1. s \in Simulator /\ s.pending \in Ledger /\ s.fills \in Seq(Fill)
  BY Parts DEF Proper
<1>2. PICK q \in Ledger : /\ q = put(s.pending, o)
                          /\ Orders(q) = {x \in Orders(s.pending) : x.id # o.id} \union {o}
  BY <1>1, Put
<1>3. t \in Simulator /\ t.book = s.book /\ t.pending = q /\ t.fills = s.fills /\ t.status = s.status
  BY <1>1, <1>2 DEF Simulator
<1>4. t \in Proper
  BY <1>2, <1>3 DEF Proper
<1>5. ASSUME in_flight(p)
      PROVE  Places(s, t, p.intent)
  <2>1. p \in PendingOrder /\ Tidy(p)
    BY <1>1, Lookup DEF Proper
  <2>2. PICK i \in OrderIntent(ClientOrderIds) : i = p.intent /\ i = o.intent
    BY <2>1, OrderParts
  <2>3. i.id = o.id /\ o.filled = 0
    BY <1>5, <2>1, <2>2 DEF Tidy, in_flight
  <2>4. \A x : x.id # i.id => (x \in Orders(t.pending) <=> x \in Orders(s.pending))
    BY <1>2, <1>3, <2>3
  <2>5. \A y \in Orders(t.pending) : y.id = i.id => y = o
    BY <1>2, <1>3, <2>3
  <2>6. claim(o) = notional(i)
    <3>1. PICK n \in Nat : n = i.quantity
      BY OrderType
    <3>2. n - 0 = n
      OBVIOUS
    <3> QED
      BY <2>2, <2>3, <3>1, <3>2 DEF claim, notional
  <2>7. \A y \in Orders(t.pending) : y.id = i.id =>
           /\ ~in_flight(y) /\ y.filled = 0
           /\ y.intent.order_type = i.order_type /\ y.intent.order_side = i.order_side
           /\ y.status \in Live /\ y.intent.order_side = "BUY" =>
                 spent(t.fills, i.id) + claim(y) <= spent(s.fills, i.id) + notional(i)
    <3>1. spent(s.fills, i.id) \in Nat /\ notional(i) \in Nat
      BY <1>1, Spent, OrderType
    <3>2. spent(t.fills, i.id) + claim(o) <= spent(s.fills, i.id) + notional(i)
      <4>1. PICK a \in Nat : a = spent(s.fills, i.id) + notional(i)
        BY <3>1
      <4>2. a <= a
        OBVIOUS
      <4> QED
        BY <1>3, <2>6, <4>1, <4>2
    <3> QED
      BY <2>2, <2>3, <2>5, <3>2
  <2>8. SameLiquidity(s, t)
    BY <1>3 DEF SameLiquidity
  <2>9. /\ \A c : c # i.id \/ i.order_side = "SELL" => spent(t.fills, c) = spent(s.fills, c)
        /\ i.order_type # "market" =>
              spent(t.fills, i.id) <= spent(s.fills, i.id) + notional(i)
    <3>1. PICK a \in Nat, m \in Nat : a = spent(s.fills, i.id) /\ m = notional(i)
      BY <1>1, Spent, OrderType
    <3>2. a <= a + m
      BY <3>1
    <3> QED
      BY <1>3, <3>1, <3>2
  <2>10. t.book.known = s.book.known
    BY <1>3
  <2>11. Places(s, t, i)
    BY <1>3, <1>4, <2>4, <2>7, <2>8, <2>9, <2>10 DEF Places
  <2> QED
    BY <2>2, <2>11
<1> QED
  BY <1>4, <1>5

(* _activate_due_orders, one order: it meets the book, or rests, or is     *)
(* canceled because it cannot rest.                                        *)
LEMMA Activate ==
    ASSUME NEW s \in Proper, NEW c
    PROVE  /\ activate(s, c) \in Proper
           /\ \A p \in Orders(s.pending) :
                 p.id = c /\ in_flight(p) => Places(s, activate(s, c), p.intent)
<1>1. s \in Simulator /\ s.pending \in Ledger /\ s.book \in OrderBook
  BY Parts DEF Proper
<1>2. CASE lookup(s.pending, c) = {}
  <2>1. activate(s, c) = s
    BY <1>2 DEF activate
  <2>2. \A p \in Orders(s.pending) : p.id # c
    BY <1>1, <1>2, Lookup
  <2> QED
    BY <2>1, <2>2
<1>3. CASE lookup(s.pending, c) # {}
  <2>1. PICK p \in Orders(s.pending) : p = order_at(s.pending, c) /\ p.id = c
    BY <1>1, <1>3, Lookup
  <2>2. p \in PendingOrder /\ Tidy(p)
    BY <1>1, Lookup DEF Proper
  <2>3. PICK i \in OrderIntent(ClientOrderIds) : i = p.intent /\ i.id = c
    BY <2>1, <2>2, OrderParts DEF Tidy
  <2>4. \A x \in Orders(s.pending) : x.id = c => x = p
    BY <1>1, <2>1, Lookup
  <2>5. PICK t : t = activate(s, c)
    OBVIOUS
  <2>6. CASE is_marketable(i, s.book)
    <3>1. PICK q \in Ledger : q = drop(s.pending, c) /\ Orders(q) = {x \in Orders(s.pending) : x.id # c}
      BY <1>1, Drop
    <3>2. PICK u : u = [s EXCEPT !.pending = q]
      OBVIOUS
    <3>3. u \in Simulator /\ u.book = s.book /\ u.pending = q /\ u.fills = s.fills /\ u.status = s.status
      BY <1>1, <3>2 DEF Simulator
    <3>4. u \in Proper
      BY <3>1, <3>3 DEF Proper
    <3>5. u = [s EXCEPT !.pending = drop(@, c)]
      BY <1>1, <3>1, <3>2 DEF Simulator
    <3>6. t = fill_marketable(u, i, p.effective_at)
      BY <1>3, <2>1, <2>3, <2>5, <2>6, <3>5 DEF activate
    <3>7. p.effective_at \in Int /\ \A x \in Orders(u.pending) : x.id # i.id
      BY <2>2, <2>3, <3>1, <3>3, OrderParts
    <3>8. Places(u, t, i)
      BY <3>4, <3>6, <3>7, FillMarketable
    <3>9. Places(s, t, i)
      <4>1. SameLiquidity(s, t)
        BY <3>3, <3>8 DEF Places, SameLiquidity
      <4>2. \A x : x.id # i.id => (x \in Orders(t.pending) <=> x \in Orders(s.pending))
        BY <2>3, <3>1, <3>3, <3>8 DEF Places
      <4>3. /\ t \in Proper /\ t.book.known = s.book.known /\ t.status = s.status
        BY <3>3, <3>8 DEF Places
      <4> QED
        BY <3>3, <3>8, <4>1, <4>2, <4>3 DEF Places
    <3> QED
      BY <2>3, <2>4, <2>5, <3>9 DEF Places
  <2>7. CASE ~is_marketable(i, s.book) /\ (i.order_type = "market" \/ i.tif \in {"IOC", "FOK"})
    <3>1. PICK st \in {"OPEN", "PARTIALLY_FILLED", "FILLED", "CANCELED"} : st = "CANCELED"
      OBVIOUS
    <3>2. PICK o : o = [p EXCEPT !.status = st]
      OBVIOUS
    <3>3. /\ o \in PendingOrder /\ o.id = p.id /\ o.intent = p.intent /\ o.filled = p.filled
          /\ o.active = p.active /\ o.status = st
      BY <2>2, <3>2 DEF PendingOrder
    <3>4. Tidy(o) /\ ~in_flight(o)
      BY <2>2, <3>1, <3>3 DEF Tidy, in_flight, Live
    <3>5. t = [s EXCEPT !.pending = put(@, o)]
      BY <1>3, <2>1, <2>3, <2>5, <2>7, <3>1, <3>2 DEF activate
    <3>6. t \in Proper /\ (in_flight(p) => Places(s, t, p.intent))
      BY <3>3, <3>4, <3>5, PutBack
    <3> QED
      BY <2>4, <2>5, <3>6
  <2>8. CASE ~is_marketable(i, s.book) /\ ~(i.order_type = "market" \/ i.tif \in {"IOC", "FOK"})
    <3>1. PICK ahead \in Nat, at \in Int : ahead = queue_ahead(s.book, i) /\ at = p.effective_at
      BY <1>1, <2>2, QueueType, OrderParts
    <3>2. PICK o : o = [p EXCEPT !.queue_ahead = ahead, !.submitted_at = at, !.active = TRUE]
      OBVIOUS
    <3>3. /\ o \in PendingOrder /\ o.id = p.id /\ o.intent = p.intent /\ o.filled = p.filled
          /\ o.active
      BY <2>2, <3>2 DEF PendingOrder
    <3>4. Tidy(o) /\ ~in_flight(o)
      BY <2>2, <3>3 DEF Tidy, in_flight
    <3>5. t = [s EXCEPT !.pending = put(@, o)]
      BY <1>3, <2>1, <2>3, <2>5, <2>8, <3>1, <3>2 DEF activate
    <3>6. t \in Proper /\ (in_flight(p) => Places(s, t, p.intent))
      BY <3>3, <3>4, <3>5, PutBack
    <3> QED
      BY <2>4, <2>5, <3>6
  <2> QED
    BY <2>6, <2>7, <2>8
<1> QED
  BY <1>2, <1>3

(* The orders of a list are activated one after the other. *)
activates(s, due) == FoldLeft(LAMBDA t, p : activate(t, p.id), s, due)

(* The simulators that this goes through.                                  *)
LEMMA ActivateRun ==
    ASSUME NEW s \in Proper, NEW due \in Seq(PendingOrder), NEW n \in Nat, DOMAIN due = 1 .. n
    PROVE  \E v : /\ v[0] = s /\ activates(s, due) = v[n]
                  /\ \A k \in 0 .. n : v[k] \in Proper
                  /\ \A k \in 1 .. n : v[k] = activate(v[k - 1], due[k].id)
<1>a. DOMAIN due = 1 .. n
  OBVIOUS
<1>b. s \in Proper
  OBVIOUS
<1>2. \A k \in 1 .. n : \A b \in Proper : activate(b, due[k].id) \in Proper
  BY Activate
<1> DEFINE step == [k \in 1 .. n |-> [b \in Proper |-> activate(b, due[k].id)]]
<1>3. \A k \in 1 .. n : step[k] \in [Proper -> Proper]
  BY <1>2
<1>4. PICK g : Steps(g, step, s, n, Proper)
  <2>1. Closed(step, n, Proper)
    BY <1>3 DEF Closed
  <2> HIDE DEF step
  <2> QED
    BY <2>1, <1>b, FoldRuns
<1>5. \A r \in SUBSET (1 .. n) : r # {} => Max(r) \in 1 .. n
  BY LastPosition
<1>6. \A k \in 1 .. n : \A b \in Proper : step[k][b] = activate(b, due[k].id)
  OBVIOUS
<1> HIDE DEF step
<1>7. \A r \in SUBSET (1 .. n) : r # {} =>
         g[r] = activate(g[r \ {Max(r)}], due[Max(r)].id)
  BY <1>4, <1>5, <1>6 DEF Steps
<1> DEFINE Runs(h) == h = [r \in SUBSET DOMAIN due |->
                              IF r = {} THEN s
                              ELSE activate(h[r \ {Max(r)}], due[Max(r)].id)]
           h == CHOOSE h : Runs(h)
<1>8. Runs(g)
  <2> DEFINE G == [r \in SUBSET DOMAIN due |->
                     IF r = {} THEN s
                     ELSE activate(g[r \ {Max(r)}], due[Max(r)].id)]
  <2>1. DOMAIN G = SUBSET (1 .. n) /\ G = [r \in DOMAIN G |-> G[r]]
    BY <1>a
  <2>2. \A r \in SUBSET (1 .. n) : G[r] = g[r]
    <3>1. \A r \in SUBSET (1 .. n) : G[r] = IF r = {} THEN s
                     ELSE activate(g[r \ {Max(r)}], due[Max(r)].id)
      BY <1>a
    <3> HIDE DEF G
    <3> QED
      BY <1>4, <1>7, <3>1 DEF Steps
  <2>3. DOMAIN g = SUBSET (1 .. n) /\ g = [r \in DOMAIN g |-> g[r]]
    BY <1>4 DEF Steps
  <2>4. g = G
    <3> HIDE DEF G
    <3> QED
      BY <2>1, <2>2, <2>3
  <2> QED
    BY <2>4
<1>9. activates(s, due) = h[DOMAIN due]
  BY DEF activates, FoldLeft, MapThenFoldSet
<1>10. Runs(h)
  BY <1>8
<1>11. /\ h[{}] = s
       /\ \A r \in SUBSET (1 .. n) : r # {} =>
            h[r] = activate(h[r \ {Max(r)}], due[Max(r)].id)
  <2> HIDE DEF h
  <2>1. {} \in SUBSET DOMAIN due
    OBVIOUS
  <2> QED
    BY <1>10, <1>a, <2>1
<1> HIDE DEF h, Runs
<1> DEFINE v == [k \in 0 .. n |-> h[1 .. k]]
<1>12. v[0] = s
  <2>1. 1 .. 0 = {} /\ 0 \in 0 .. n
    OBVIOUS
  <2> QED
    BY <1>11, <2>1
<1>13. \A k \in 1 .. n : v[k] = activate(v[k - 1], due[k].id)
  <2>1. SUFFICES ASSUME NEW k \in 1 .. n
                 PROVE  v[k] = activate(v[k - 1], due[k].id)
    OBVIOUS
  <2>2. v[k] = h[1 .. k] /\ v[k - 1] = h[1 .. (k - 1)]
    OBVIOUS
  <2>3. /\ 1 .. k \in SUBSET (1 .. n) /\ 1 .. k # {}
        /\ Max(1 .. k) = k /\ (1 .. k) \ {Max(1 .. k)} = 1 .. (k - 1)
    BY LastOfPrefix
  <2>4. h[1 .. k] = activate(h[(1 .. k) \ {Max(1 .. k)}], due[Max(1 .. k)].id)
    BY <1>11, <2>3
  <2> HIDE DEF v
  <2> QED
    BY <2>2, <2>3, <2>4
<1>14. v[n] = activates(s, due)
  BY <1>9, <1>a
<1> HIDE DEF v
<1>15. \A k \in 0 .. n : v[k] \in Proper
  <2> DEFINE P == {k \in 0 .. n : v[k] \in Proper}
  <2>1. 0 \in P
    BY <1>b, <1>12
  <2>2. \A k \in 1 .. n : k - 1 \in P => k \in P
    BY <1>2, <1>13
  <2>3. \A k \in 0 .. n : k \in P
    <3> HIDE DEF P
    <3> QED
      BY <2>1, <2>2, Upto
  <2> QED
    BY <2>3
<1> QED
  BY <1>12, <1>13, <1>14, <1>15

-----------------------------------------------------------------------------
(* What the simulator's orders keep, while fills fills are booked against  *)
(* reservations R: they are of the ids D; what a live buy has spent and    *)
(* may spend is reserved; the orders of A queue behind J less what has     *)
(* traded of P, and the others are not filled. *)

(* What a live buy has spent and may still spend is reserved. *)
Funded(s, R) ==
    \A p \in Orders(s.pending) :
        p.status \in Live /\ p.intent.order_side = "BUY" =>
            spent(s.fills, p.id) + claim(p) <= R[p.id]

(* The place of an order: the volume printed since it came to rest went    *)
(* through what was ahead of it before it filled the order.               *)
Waits(p, A, J, P) ==
    IF p.id \in A
    THEN /\ p.active /\ p.queue_ahead <= J[p.id]
         /\ p.filled + J[p.id] - p.queue_ahead <= P[p.id]
         /\ p.filled > 0 => p.queue_ahead = 0
    ELSE p.filled = 0

(* All of that together, for a simulator s that was u when its fills were  *)
(* last handed over.                                                       *)
Sane(s, u, D, R, A, J, P) ==
    /\ s \in Proper /\ s.book.known = u.book.known /\ SameLiquidity(u, s)
    /\ Funded(s, R)
    /\ \A p \in Orders(s.pending) : p.id \in D /\ Waits(p, A, J, P)

(* Without market orders, fills are paid from reservations. *)
Covered(s, R) ==
    /\ \A p \in Orders(s.pending) : p.intent.order_type # "market"
    /\ \A c \in ClientOrderIds : spent(s.fills, c) <= R[c]

(* An order that meets the book keeps all of it, and is no longer in flight.*)
LEMMA PlacesSane ==
    ASSUME NEW s, NEW t, NEW u, NEW D, NEW R \in [ClientOrderIds -> Nat], NEW A, NEW J, NEW P,
           Sane(s, u, D, R, A, J, P), NEW p \in Orders(s.pending), in_flight(p),
           Places(s, t, p.intent)
    PROVE  /\ Sane(t, u, D, R, A, J, P)
           /\ Covered(s, R) => Covered(t, R)
           /\ \A y \in Orders(t.pending) : y.id # p.id => y \in Orders(s.pending)
           /\ \A y \in Orders(s.pending) : y.id # p.id => y \in Orders(t.pending)
           /\ \A y \in Orders(t.pending) : y.id = p.id => ~in_flight(y)
<1>1. s \in Proper /\ s \in Simulator /\ s.pending \in Ledger /\ s.fills \in Seq(Fill)
  BY Parts DEF Sane, Proper
<1>2. t \in Proper /\ t \in Simulator /\ t.pending \in Ledger /\ t.fills \in Seq(Fill)
  BY Parts DEF Places, Proper
<1>3. p \in PendingOrder /\ Tidy(p)
  BY <1>1, Lookup DEF Proper
<1>4. PICK i \in OrderIntent(ClientOrderIds) : i = p.intent /\ i.id = p.id
  BY <1>3, OrderParts DEF Tidy
<1>5. Places(s, t, i)
  BY <1>4
<1>6. /\ \A y \in Orders(t.pending) : y.id # p.id => y \in Orders(s.pending)
      /\ \A y \in Orders(s.pending) : y.id # p.id => y \in Orders(t.pending)
      /\ \A y \in Orders(t.pending) : y.id = p.id =>
            /\ ~in_flight(y) /\ y.filled = 0
            /\ y.intent.order_type = i.order_type /\ y.intent.order_side = i.order_side
            /\ y.status \in Live /\ y.intent.order_side = "BUY" =>
                  spent(t.fills, i.id) + claim(y) <= spent(s.fills, i.id) + notional(i)
      /\ \A c : c # p.id \/ i.order_side = "SELL" => spent(t.fills, c) = spent(s.fills, c)
      /\ i.order_type # "market" =>
            spent(t.fills, p.id) <= spent(s.fills, p.id) + notional(i)
  BY <1>4, <1>5 DEF Places
<1>7. claim(p) = notional(i) /\ p.status \in Live /\ p.filled = 0 /\ ~p.active
  <2>1. p.filled = 0 /\ p.status \in Live /\ ~p.active
    BY <1>3 DEF in_flight, Tidy
  <2>2. PICK n \in Nat : n = i.quantity
    BY OrderType
  <2>3. n - 0 = n
    OBVIOUS
  <2> QED
    BY <1>4, <2>1, <2>2, <2>3 DEF claim, notional
<1>8. /\ \A c : spent(s.fills, c) \in Nat /\ spent(t.fills, c) \in Nat
      /\ notional(i) \in Nat /\ \A c \in ClientOrderIds : R[c] \in Nat
      /\ p.id \in ClientOrderIds /\ i.order_side \in {"BUY", "SELL"}
  BY <1>1, <1>2, <1>3, Spent, OrderType, OrderParts
<1>9. i.order_side = "BUY" => spent(s.fills, p.id) + notional(i) <= R[p.id]
  BY <1>4, <1>7 DEF Sane, Funded
<1>10. Funded(t, R)
  <2>1. SUFFICES ASSUME NEW y \in Orders(t.pending), y.status \in Live, y.intent.order_side = "BUY"
                 PROVE  spent(t.fills, y.id) + claim(y) <= R[y.id]
    BY DEF Funded
  <2>2. CASE y.id # p.id
    BY <1>6, <2>1, <2>2 DEF Sane, Funded
  <2>3. CASE y.id = p.id
    <3>1. y \in PendingOrder
      BY <1>2, Lookup
    <3>2. spent(t.fills, i.id) + claim(y) <= spent(s.fills, i.id) + notional(i)
      BY <1>6, <2>1, <2>3
    <3>3. PICK a \in Int : a = spent(t.fills, i.id) + claim(y)
      <4>1. claim(y) \in Int
        <5>1. PICK x \in Nat, m \in Nat, f \in Nat :
                 x = y.intent.price /\ m = y.intent.quantity /\ f = y.filled
          BY <3>1, OrderParts
        <5>2. x * (m - f) \in Int
          OBVIOUS
        <5> QED
          BY <5>1, <5>2 DEF claim
      <4> QED
        BY <1>8, <4>1
    <3>4. CASE i.order_side = "BUY"
      <4>1. PICK b \in Nat, r \in Nat : b = spent(s.fills, p.id) + notional(i) /\ r = R[p.id]
        BY <1>8
      <4>2. a <= b /\ b <= r
        BY <1>4, <1>9, <3>2, <3>3, <3>4, <4>1
      <4>3. a <= r
        BY <4>2
      <4> QED
        BY <1>4, <2>3, <3>3, <4>1, <4>3
    <3>5. CASE i.order_side = "SELL"
      BY <1>6, <2>1, <2>3, <3>5
    <3> QED
      BY <1>8, <3>4, <3>5
  <2> QED
    BY <2>2, <2>3
<1>11. Covered(s, R) => Covered(t, R)
  <2>1. SUFFICES ASSUME Covered(s, R)
                 PROVE  Covered(t, R)
    OBVIOUS
  <2>2. i.order_type # "market"
    BY <1>4, <2>1 DEF Covered
  <2>3. \A y \in Orders(t.pending) : y.intent.order_type # "market"
    BY <1>6, <2>1, <2>2 DEF Covered
  <2>4. ASSUME NEW c \in ClientOrderIds
        PROVE  spent(t.fills, c) <= R[c]
    <3>1. CASE c # p.id \/ i.order_side = "SELL"
      BY <1>6, <2>1, <3>1 DEF Covered
    <3>2. CASE c = p.id /\ i.order_side = "BUY"
      <4>1. PICK a \in Nat, b \in Nat, r \in Nat :
               a = spent(t.fills, p.id) /\ b = spent(s.fills, p.id) + notional(i) /\ r = R[p.id]
        BY <1>8
      <4>2. a <= b /\ b <= r
        BY <1>6, <1>9, <2>2, <3>2, <4>1
      <4>3. a <= r
        BY <4>2
      <4> QED
        BY <3>2, <4>1, <4>3
    <3> QED
      BY <1>8, <3>1, <3>2
  <2> QED
    BY <2>3, <2>4 DEF Covered
<1>12. SameLiquidity(u, t)
  <2>1. SameLiquidity(u, s) /\ SameLiquidity(s, t)
    BY <1>5 DEF Sane, Places
  <2> QED
    BY <2>1 DEF SameLiquidity
<1>13. p.id \notin A /\ p.id \in D
  BY <1>7 DEF Sane, Waits
<1>14. ASSUME NEW y \in Orders(t.pending)
       PROVE  y.id \in D /\ Waits(y, A, J, P)
  <2>1. CASE y.id # p.id
    BY <1>6, <2>1 DEF Sane
  <2>2. CASE y.id = p.id
    BY <1>6, <1>13, <2>2 DEF Waits
  <2> QED
    BY <2>1, <2>2
<1>15. t.book.known = u.book.known
  BY <1>5 DEF Sane, Places
<1>16. Sane(t, u, D, R, A, J, P)
  BY <1>2, <1>10, <1>12, <1>14, <1>15 DEF Sane
<1> QED
  BY <1>6, <1>11, <1>16

(* Some orders are canceled, and nothing else happens to any. *)
Cancels(q, r) ==
    /\ r \in Ledger
    /\ \A y \in Orders(r) : \E p \in Orders(q) : y = p \/ y = Canceled(p)

(* A canceled order is the same order, and no longer live.                 *)
LEMMA CanceledOrder ==
    ASSUME NEW p \in PendingOrder
    PROVE  /\ Canceled(p) \in PendingOrder
           /\ Canceled(p).id = p.id /\ Canceled(p).intent = p.intent
           /\ Canceled(p).queue_ahead = p.queue_ahead /\ Canceled(p).filled = p.filled
           /\ Canceled(p).active = p.active /\ Canceled(p).status \notin Live
<1>1. PICK st \in {"OPEN", "PARTIALLY_FILLED", "FILLED", "CANCELED"}, at \in Int :
         st = "CANCELED" /\ at = Never
  BY DEF Never
<1>2. PICK o : o = Canceled(p)
  OBVIOUS
<1>3. o = [p EXCEPT !.status = st, !.cancel_at = at]
  BY <1>1, <1>2 DEF Canceled
<1>4. /\ o \in PendingOrder /\ o.id = p.id /\ o.intent = p.intent
      /\ o.queue_ahead = p.queue_ahead /\ o.filled = p.filled
      /\ o.active = p.active /\ o.status = st
  BY <1>3 DEF PendingOrder
<1>5. o.status \notin Live
  BY <1>1, <1>4 DEF Live
<1> QED
  BY <1>2, <1>4, <1>5

(* Orders that are canceled keep all that Sane says.                       *)
LEMMA CancelsSane ==
    ASSUME NEW s, NEW t \in Simulator, NEW u, NEW D, NEW R, NEW A, NEW J, NEW P,
           Sane(s, u, D, R, A, J, P), Cancels(s.pending, t.pending),
           t.book = s.book, t.fills = s.fills
    PROVE  /\ Sane(t, u, D, R, A, J, P)
           /\ Covered(s, R) => Covered(t, R)
           /\ \A y \in Orders(t.pending) : in_flight(y) => y \in Orders(s.pending)
<1>1. s \in Proper /\ s.pending \in Ledger
  BY Parts DEF Sane, Proper
<1>2. ASSUME NEW y \in Orders(t.pending)
      PROVE  \E p \in Orders(s.pending) :
                /\ Tidy(p) /\ Tidy(y) /\ y.id = p.id /\ y.intent = p.intent /\ y.filled = p.filled
                /\ y.active = p.active /\ y.queue_ahead = p.queue_ahead
                /\ y.status \in Live => y = p
  <2>1. PICK p \in Orders(s.pending) : y = p \/ y = Canceled(p)
    BY DEF Cancels
  <2>2. p \in PendingOrder /\ Tidy(p)
    BY <1>1, Lookup DEF Proper
  <2>3. /\ y.id = p.id /\ y.intent = p.intent /\ y.filled = p.filled
        /\ y.active = p.active /\ y.queue_ahead = p.queue_ahead
        /\ y.status \in Live => y = p
    BY <2>1, <2>2, CanceledOrder
  <2>4. Tidy(y)
    BY <2>2, <2>3 DEF Tidy
  <2> QED
    BY <2>2, <2>3, <2>4
<1>3. t \in Proper
  BY <1>2 DEF Proper
<1>4. Funded(t, R)
  <2>1. SUFFICES ASSUME NEW y \in Orders(t.pending), y.status \in Live, y.intent.order_side = "BUY"
                 PROVE  spent(t.fills, y.id) + claim(y) <= R[y.id]
    BY DEF Funded
  <2>2. y \in Orders(s.pending)
    BY <1>2, <2>1
  <2>3. spent(s.fills, y.id) + claim(y) <= R[y.id]
    BY <2>1, <2>2 DEF Sane, Funded
  <2> QED
    BY <2>3
<1>5. \A y \in Orders(t.pending) : y.id \in D /\ Waits(y, A, J, P)
  <2>1. SUFFICES ASSUME NEW y \in Orders(t.pending)
                 PROVE  y.id \in D /\ Waits(y, A, J, P)
    OBVIOUS
  <2>2. PICK p \in Orders(s.pending) :
           /\ y.id = p.id /\ y.filled = p.filled /\ y.active = p.active
           /\ y.queue_ahead = p.queue_ahead
    BY <1>2
  <2>3. p.id \in D /\ Waits(p, A, J, P)
    BY DEF Sane
  <2> QED
    BY <2>2, <2>3 DEF Waits
<1>6. SameLiquidity(u, t) /\ t.book.known = u.book.known
  BY DEF Sane, SameLiquidity
<1>7. Covered(s, R) => Covered(t, R)
  <2>1. SUFFICES ASSUME Covered(s, R)
                 PROVE  Covered(t, R)
    OBVIOUS
  <2>2. \A y \in Orders(t.pending) : y.intent.order_type # "market"
    BY <1>2, <2>1 DEF Covered
  <2>3. \A c \in ClientOrderIds : spent(t.fills, c) <= R[c]
    BY <2>1 DEF Covered
  <2> QED
    BY <2>2, <2>3 DEF Covered
<1>8. \A y \in Orders(t.pending) : in_flight(y) => y \in Orders(s.pending)
  BY <1>2 DEF in_flight
<1> QED
  BY <1>3, <1>4, <1>5, <1>6, <1>7, <1>8 DEF Sane

(* _apply_due_controls.                                                    *)
LEMMA Controls ==
    ASSUME NEW s, NEW u, NEW D, NEW R, NEW A, NEW J, NEW P,
           Sane(s, u, D, R, A, J, P), NEW time
    PROVE  LET t == apply_due_controls(s, time)
           IN  /\ Sane(t, u, D, R, A, J, P)
               /\ Covered(s, R) => Covered(t, R)
               /\ \A y \in Orders(t.pending) : in_flight(y) => y \in Orders(s.pending)
               /\ t.book = s.book /\ t.fills = s.fills /\ t.status = s.status
<1>1. s \in Simulator /\ s.pending \in Ledger
  BY Parts DEF Sane, Proper
<1>2. PICK K : K = {k \in DOMAIN s.pending : s.pending[k].cancel_at \in 0 .. time}
  OBVIOUS
<1>3. PICK q : q = cancel_orders(s.pending, K)
  OBVIOUS
<1>4. q \in Ledger /\ \A y \in Orders(q) : \E p \in Orders(s.pending) : y = p \/ y = Canceled(p)
  BY <1>1, <1>3, CancelOrders
<1>5. PICK t : t = apply_due_controls(s, time)
  OBVIOUS
<1>6. t = [s EXCEPT !.pending = q]
  BY <1>1, <1>2, <1>3, <1>5 DEF apply_due_controls, Simulator
<1>7. t \in Simulator /\ t.book = s.book /\ t.pending = q /\ t.fills = s.fills /\ t.status = s.status
  BY <1>1, <1>4, <1>6 DEF Simulator
<1>8. Cancels(s.pending, t.pending)
  BY <1>4, <1>7 DEF Cancels
<1>9. /\ Sane(t, u, D, R, A, J, P)
      /\ Covered(s, R) => Covered(t, R)
      /\ \A y \in Orders(t.pending) : in_flight(y) => y \in Orders(s.pending)
  BY <1>7, <1>8, CancelsSane
<1> QED
  BY <1>5, <1>7, <1>9

(* A list of orders in flight, each of them once. *)
AllDue(due, n, q) ==
    /\ DOMAIN due = 1 .. n
    /\ \A k \in 1 .. n : due[k] \in Orders(q) /\ in_flight(due[k])
    /\ \A j, k \in 1 .. n : due[j].id = due[k].id => j = k

(* What is in flight was before, and is none of them. *)
NoneDue(r, due, n, q) ==
    \A y \in Orders(r) :
        in_flight(y) => y \in Orders(q) /\ \A k \in 1 .. n : due[k].id # y.id

(* Orders that are due meet the book one after the other.                  *)
LEMMA ActivateDue ==
    ASSUME NEW s, NEW u, NEW D, NEW R \in [ClientOrderIds -> Nat], NEW A, NEW J, NEW P,
           Sane(s, u, D, R, A, J, P),
           NEW due \in Seq(PendingOrder), NEW n \in Nat, AllDue(due, n, s.pending)
    PROVE  LET t == activates(s, due)
           IN  /\ Sane(t, u, D, R, A, J, P)
               /\ Covered(s, R) => Covered(t, R)
               /\ NoneDue(t.pending, due, n, s.pending)
<1>1. s \in Proper
  BY DEF Sane
<1>2. /\ DOMAIN due = 1 .. n
      /\ \A k \in 1 .. n : due[k] \in Orders(s.pending) /\ in_flight(due[k])
      /\ \A j, k \in 1 .. n : due[j].id = due[k].id => j = k
  BY DEF AllDue
<1>3. PICK v : /\ v[0] = s /\ activates(s, due) = v[n]
               /\ \A k \in 0 .. n : v[k] \in Proper
               /\ \A k \in 1 .. n : v[k] = activate(v[k - 1], due[k].id)
  BY <1>1, <1>2, ActivateRun
<1> DEFINE Good(k) ==
              /\ Sane(v[k], u, D, R, A, J, P)
              /\ Covered(s, R) => Covered(v[k], R)
              /\ \A j \in 1 .. n : j > k => due[j] \in Orders(v[k].pending)
              /\ \A y \in Orders(v[k].pending) :
                    in_flight(y) => /\ y \in Orders(s.pending)
                                    /\ \A j \in 1 .. n : j <= k => due[j].id # y.id
           Q == {k \in 0 .. n : Good(k)}
<1>4. 0 \in Q
  <2>1. \A j \in 1 .. n : ~(j <= 0)
    OBVIOUS
  <2>2. 0 \in 0 .. n
    OBVIOUS
  <2> QED
    BY <1>2, <1>3, <2>1, <2>2
<1>5. ASSUME NEW k \in 1 .. n, k - 1 \in Q
      PROVE  k \in Q
  <2>1. PICK i \in 0 .. n : i = k - 1
    BY <1>5
  <2>2. Good(i)
    BY <1>5, <2>1
  <2>3. PICK a, b, p : a = v[i] /\ b = v[k] /\ p = due[k]
    OBVIOUS
  <2>4. p \in Orders(a.pending) /\ in_flight(p)
    <3>1. k > i
      BY <2>1
    <3> QED
      BY <1>2, <2>2, <2>3, <3>1
  <2>5. a \in Proper /\ b = activate(a, p.id)
    BY <1>3, <2>1, <2>3
  <2>6. Places(a, b, p.intent)
    BY <2>4, <2>5, Activate
  <2>7. Sane(a, u, D, R, A, J, P)
    BY <2>2, <2>3
  <2>8. /\ Sane(b, u, D, R, A, J, P)
        /\ Covered(a, R) => Covered(b, R)
        /\ \A y \in Orders(b.pending) : y.id # p.id => y \in Orders(a.pending)
        /\ \A y \in Orders(a.pending) : y.id # p.id => y \in Orders(b.pending)
        /\ \A y \in Orders(b.pending) : y.id = p.id => ~in_flight(y)
    BY <2>4, <2>6, <2>7, PlacesSane
  <2>9. \A j \in 1 .. n : (j > k => j > i /\ j # k) /\ (j <= k => j <= i \/ j = k)
    BY <2>1
  <2>10. \A j \in 1 .. n : j > k => due[j] \in Orders(b.pending)
    <3>1. SUFFICES ASSUME NEW j \in 1 .. n, j > k
                   PROVE  due[j] \in Orders(b.pending)
      OBVIOUS
    <3>2. due[j] \in Orders(a.pending) /\ due[j].id # p.id
      BY <1>2, <2>2, <2>3, <2>9, <3>1
    <3> QED
      BY <2>8, <3>2
  <2>11. \A y \in Orders(b.pending) :
            in_flight(y) => /\ y \in Orders(s.pending)
                            /\ \A j \in 1 .. n : j <= k => due[j].id # y.id
    <3>1. SUFFICES ASSUME NEW y \in Orders(b.pending), in_flight(y)
                   PROVE  /\ y \in Orders(s.pending)
                          /\ \A j \in 1 .. n : j <= k => due[j].id # y.id
      OBVIOUS
    <3>2. y.id # p.id /\ y \in Orders(a.pending)
      BY <2>8, <3>1
    <3> QED
      BY <2>2, <2>3, <2>9, <3>1, <3>2
  <2>12. Covered(s, R) => Covered(b, R)
    BY <2>2, <2>3, <2>8
  <2>13. Good(k) /\ k \in 0 .. n
    BY <2>3, <2>8, <2>10, <2>11, <2>12
  <2> QED
    BY <2>13
<1>6. \A k \in 0 .. n : k \in Q
  <2> HIDE DEF Q
  <2> QED
    BY <1>4, <1>5, Upto
<1>7. Good(n)
  <2>1. n \in 0 .. n
    OBVIOUS
  <2> QED
    BY <1>6, <2>1
<1>8. \A j \in 1 .. n : j <= n
  OBVIOUS
<1> QED
  BY <1>3, <1>7, <1>8 DEF NoneDue

(* _activate_due_orders.                                                   *)
LEMMA ActivateDueOrders ==
    ASSUME NEW s, NEW u, NEW D, NEW R \in [ClientOrderIds -> Nat], NEW A, NEW J, NEW P,
           Sane(s, u, D, R, A, J, P), NEW time
    PROVE  LET t == activate_due_orders(s, time)
           IN  /\ Sane(t, u, D, R, A, J, P)
               /\ Covered(s, R) => Covered(t, R)
               /\ \A y \in Orders(t.pending) :
                     in_flight(y) => y \in Orders(s.pending) /\ ~(y.effective_at <= time)
<1>1. s \in Simulator /\ s.pending \in Ledger
  BY Parts DEF Sane, Proper
<1>2. PICK q \in Seq(PendingOrder) : q = s.pending
  BY <1>1 DEF Ledger
<1>3. PICK K : K = {k \in DOMAIN q : in_flight(q[k]) /\ q[k].effective_at <= time}
  OBVIOUS
<1>4. PICK due : due = keep(q, K)
  OBVIOUS
<1>5. K \subseteq DOMAIN q
  BY <1>3
<1>6. PICK m, n : /\ Enumerates(m, n, K) /\ due = [i \in 1 .. n |-> q[m[i]]]
                  /\ due \in Seq(PendingOrder) /\ Len(due) = n
  BY ONLY <1>4, <1>5, q \in Seq(PendingOrder), Kept
<1>7. /\ n \in Nat /\ \A i \in 1 .. n : m[i] \in K
      /\ \A i, j \in 1 .. n : m[i] = m[j] => i = j
      /\ \A x \in K : \E i \in 1 .. n : m[i] = x
  BY <1>6 DEF Enumerates
<1>8. DOMAIN due = 1 .. n /\ \A i \in 1 .. n : due[i] = q[m[i]]
  BY <1>6
<1>9. AllDue(due, n, q)
  <2>1. \A k \in 1 .. n : due[k] \in Orders(q) /\ in_flight(due[k])
    BY <1>3, <1>7, <1>8 DEF Orders
  <2>2. \A j, k \in 1 .. n : due[j].id = due[k].id => j = k
    <3>1. \A x, y \in DOMAIN q : q[x].id = q[y].id => x = y
      BY <1>1, <1>2 DEF Ledger
    <3> QED
      BY <1>5, <1>7, <1>8, <3>1
  <2> QED
    BY <1>8, <2>1, <2>2 DEF AllDue
<1>10. PICK t : t = activates(s, due)
  OBVIOUS
<1>11. /\ Sane(t, u, D, R, A, J, P)
       /\ Covered(s, R) => Covered(t, R)
       /\ \A y \in Orders(t.pending) :
             in_flight(y) => /\ y \in Orders(s.pending)
                             /\ \A k \in 1 .. n : due[k].id # y.id
  <2>1. AllDue(due, n, s.pending)
    BY <1>2, <1>9
  <2>2. due \in Seq(PendingOrder) /\ n \in Nat
    BY <1>6, <1>7
  <2>3. Sane(s, u, D, R, A, J, P) /\ R \in [ClientOrderIds -> Nat]
    OBVIOUS
  <2>4. /\ Sane(t, u, D, R, A, J, P)
        /\ Covered(s, R) => Covered(t, R)
        /\ NoneDue(t.pending, due, n, s.pending)
    BY ONLY <1>10, <2>1, <2>2, <2>3, ActivateDue
  <2> QED
    BY <2>4 DEF NoneDue
<1>12. activate_due_orders(s, time) = t
  BY <1>2, <1>3, <1>4, <1>10 DEF activate_due_orders, activates
<1>13. ASSUME NEW y \in Orders(t.pending), in_flight(y)
       PROVE  ~(y.effective_at <= time)
  <2>1. y \in Orders(q) /\ \A k \in 1 .. n : due[k].id # y.id
    BY <1>2, <1>11, <1>13
  <2>2. PICK x \in DOMAIN q : y = q[x]
    BY <2>1 DEF Orders
  <2>3. x \notin K
    BY <1>7, <1>8, <2>1, <2>2
  <2> QED
    BY <1>3, <1>13, <2>2, <2>3
<1> QED
  BY <1>11, <1>12, <1>13

(* _advance: due controls first, then due orders.                          *)
LEMMA Advance ==
    ASSUME NEW s, NEW u, NEW D, NEW R \in [ClientOrderIds -> Nat], NEW A, NEW J, NEW P,
           Sane(s, u, D, R, A, J, P), NEW time
    PROVE  LET t == advance(s, time)
           IN  /\ Sane(t, u, D, R, A, J, P)
               /\ Covered(s, R) => Covered(t, R)
               /\ \A y \in Orders(t.pending) :
                     in_flight(y) => y \in Orders(s.pending) /\ ~(y.effective_at <= time)
<1>1. PICK r : r = apply_due_controls(s, time)
  OBVIOUS
<1>2. /\ Sane(r, u, D, R, A, J, P)
      /\ Covered(s, R) => Covered(r, R)
      /\ \A y \in Orders(r.pending) : in_flight(y) => y \in Orders(s.pending)
  BY <1>1, Controls
<1>3. PICK t : t = activate_due_orders(r, time)
  OBVIOUS
<1>4. /\ Sane(t, u, D, R, A, J, P)
      /\ Covered(r, R) => Covered(t, R)
      /\ \A y \in Orders(t.pending) :
            in_flight(y) => y \in Orders(r.pending) /\ ~(y.effective_at <= time)
  BY <1>2, <1>3, ActivateDueOrders
<1>5. t = advance(s, time)
  BY <1>1, <1>3 DEF advance
<1> QED
  BY <1>2, <1>4, <1>5

-----------------------------------------------------------------------------
(* The final flush. *)
flushes(s, times) == FoldLeft(advance, s, times)

(* The simulators of which that is so. *)
AllSane(u, D, R, A, J, P) == {s \in Proper : Sane(s, u, D, R, A, J, P)}

(* v are the simulators that the flush goes through, all of them in X. *)
Flushing(v, s, times, n, X) ==
    /\ v[0] = s /\ flushes(s, times) = v[n]
    /\ \A k \in 0 .. n : v[k] \in X
    /\ \A k \in 1 .. n : v[k] = advance(v[k - 1], times[k])

(* The simulators that the flush goes through are sane.                    *)
LEMMA FlushRun ==
    ASSUME NEW u, NEW D, NEW R \in [ClientOrderIds -> Nat], NEW A, NEW J, NEW P,
           NEW s \in AllSane(u, D, R, A, J, P),
           NEW times, NEW n \in Nat, DOMAIN times = 1 .. n
    PROVE  \E v : Flushing(v, s, times, n, AllSane(u, D, R, A, J, P))
<1>a. DOMAIN times = 1 .. n
  OBVIOUS
<1>b. s \in AllSane(u, D, R, A, J, P)
  OBVIOUS
<1>2. \A k \in 1 .. n : \A b \in AllSane(u, D, R, A, J, P) : advance(b, times[k]) \in AllSane(u, D, R, A, J, P)
  <2>1. SUFFICES ASSUME NEW k \in 1 .. n, NEW b \in AllSane(u, D, R, A, J, P)
                 PROVE  advance(b, times[k]) \in AllSane(u, D, R, A, J, P)
    OBVIOUS
  <2>2. Sane(b, u, D, R, A, J, P)
    BY DEF AllSane
  <2>3. PICK w : w = times[k]
    OBVIOUS
  <2>4. Sane(advance(b, w), u, D, R, A, J, P)
    BY <2>2, Advance
  <2>5. advance(b, w) \in Proper
    BY <2>4 DEF Sane
  <2> QED
    BY <2>3, <2>4, <2>5 DEF AllSane
<1> DEFINE step == [k \in 1 .. n |-> [b \in AllSane(u, D, R, A, J, P) |-> advance(b, times[k])]]
<1>3. \A k \in 1 .. n : step[k] \in [AllSane(u, D, R, A, J, P) -> AllSane(u, D, R, A, J, P)]
  BY <1>2
<1>4. PICK g : Steps(g, step, s, n, AllSane(u, D, R, A, J, P))
  <2>1. Closed(step, n, AllSane(u, D, R, A, J, P))
    BY <1>3 DEF Closed
  <2> HIDE DEF step
  <2> QED
    BY <2>1, <1>b, FoldRuns
<1>5. \A r \in SUBSET (1 .. n) : r # {} => Max(r) \in 1 .. n
  BY LastPosition
<1>6. \A k \in 1 .. n : \A b \in AllSane(u, D, R, A, J, P) : step[k][b] = advance(b, times[k])
  OBVIOUS
<1> HIDE DEF step
<1>7. \A r \in SUBSET (1 .. n) : r # {} =>
         g[r] = advance(g[r \ {Max(r)}], times[Max(r)])
  BY <1>4, <1>5, <1>6 DEF Steps
<1> DEFINE Runs(h) == h = [r \in SUBSET DOMAIN times |->
                              IF r = {} THEN s
                              ELSE advance(h[r \ {Max(r)}], times[Max(r)])]
           h == CHOOSE h : Runs(h)
<1>8. Runs(g)
  <2> DEFINE G == [r \in SUBSET DOMAIN times |->
                     IF r = {} THEN s
                     ELSE advance(g[r \ {Max(r)}], times[Max(r)])]
  <2>1. DOMAIN G = SUBSET (1 .. n) /\ G = [r \in DOMAIN G |-> G[r]]
    BY <1>a
  <2>2. \A r \in SUBSET (1 .. n) : G[r] = g[r]
    <3>1. \A r \in SUBSET (1 .. n) : G[r] = IF r = {} THEN s
                     ELSE advance(g[r \ {Max(r)}], times[Max(r)])
      BY <1>a
    <3> HIDE DEF G
    <3> QED
      BY <1>4, <1>7, <3>1 DEF Steps
  <2>3. DOMAIN g = SUBSET (1 .. n) /\ g = [r \in DOMAIN g |-> g[r]]
    BY <1>4 DEF Steps
  <2>4. g = G
    <3> HIDE DEF G
    <3> QED
      BY <2>1, <2>2, <2>3
  <2> QED
    BY <2>4
<1>9. flushes(s, times) = h[DOMAIN times]
  BY DEF flushes, FoldLeft, MapThenFoldSet
<1>10. Runs(h)
  BY <1>8
<1>11. /\ h[{}] = s
       /\ \A r \in SUBSET (1 .. n) : r # {} =>
            h[r] = advance(h[r \ {Max(r)}], times[Max(r)])
  <2> HIDE DEF h
  <2>1. {} \in SUBSET DOMAIN times
    OBVIOUS
  <2> QED
    BY <1>10, <1>a, <2>1
<1> HIDE DEF h, Runs
<1> DEFINE v == [k \in 0 .. n |-> h[1 .. k]]
<1>12. v[0] = s
  <2>1. 1 .. 0 = {} /\ 0 \in 0 .. n
    OBVIOUS
  <2> QED
    BY <1>11, <2>1
<1>13. \A k \in 1 .. n : v[k] = advance(v[k - 1], times[k])
  <2>1. SUFFICES ASSUME NEW k \in 1 .. n
                 PROVE  v[k] = advance(v[k - 1], times[k])
    OBVIOUS
  <2>2. v[k] = h[1 .. k] /\ v[k - 1] = h[1 .. (k - 1)]
    OBVIOUS
  <2>3. /\ 1 .. k \in SUBSET (1 .. n) /\ 1 .. k # {}
        /\ Max(1 .. k) = k /\ (1 .. k) \ {Max(1 .. k)} = 1 .. (k - 1)
    BY LastOfPrefix
  <2>4. h[1 .. k] = advance(h[(1 .. k) \ {Max(1 .. k)}], times[Max(1 .. k)])
    BY <1>11, <2>3
  <2> HIDE DEF v
  <2> QED
    BY <2>2, <2>3, <2>4
<1>14. v[n] = flushes(s, times)
  BY <1>9, <1>a
<1> HIDE DEF v
<1>15. \A k \in 0 .. n : v[k] \in AllSane(u, D, R, A, J, P)
  <2> DEFINE Good == {k \in 0 .. n : v[k] \in AllSane(u, D, R, A, J, P)}
  <2>1. 0 \in Good
    BY <1>b, <1>12
  <2>2. \A k \in 1 .. n : k - 1 \in Good => k \in Good
    BY <1>2, <1>13
  <2>3. \A k \in 0 .. n : k \in Good
    <3> HIDE DEF Good
    <3> QED
      BY <2>1, <2>2, Upto
  <2> QED
    BY <2>3
<1> QED
  BY <1>12, <1>13, <1>14, <1>15 DEF Flushing

(* The times at which something is under way. *)
due_times(q) ==
    LET live == {k \in DOMAIN q : q[k].status \in Live}
    IN  {q[k].effective_at : k \in {j \in live : ~q[j].active}}
           \cup ({q[k].cancel_at : k \in live} \ {Never})

(* They are finitely many integers, and the time of every order in flight  *)
(* is one of them.                                                         *)
LEMMA DueTimes ==
    ASSUME NEW q \in Ledger
    PROVE  /\ IsFiniteSet(due_times(q)) /\ \A t \in due_times(q) : t \in Int
           /\ \A y \in Orders(q) : in_flight(y) => y.effective_at \in due_times(q)
<1>1. /\ DOMAIN q = 1 .. Len(q) /\ Len(q) \in Nat
      /\ \A k \in DOMAIN q : q[k] \in PendingOrder
  BY DEF Ledger
<1>2. \A k \in DOMAIN q : q[k].effective_at \in Int /\ q[k].cancel_at \in Int
  BY <1>1, OrderParts
<1>3. IsFiniteSet(DOMAIN q)
  BY <1>1, UpTo
<1>4. PICK L, M : /\ L = {k \in DOMAIN q : q[k].status \in Live}
                  /\ M = {k \in L : ~q[k].active}
  OBVIOUS
<1>5. PICK E, C : E = {q[k].effective_at : k \in M} /\ C = {q[k].cancel_at : k \in L}
  OBVIOUS
<1>6. IsFiniteSet(L) /\ IsFiniteSet(M) /\ L \subseteq DOMAIN q /\ M \subseteq L
  BY <1>3, <1>4, FS_Subset
<1>7. IsFiniteSet(E) /\ \A t \in E : t \in Int
  <2> DEFINE h == [k \in M |-> q[k].effective_at]
  <2>1. h \in Surjection(M, E)
    BY <1>5 DEF Surjection
  <2>2. IsFiniteSet(E)
    <3> HIDE DEF h
    <3> QED
      BY <1>6, <2>1, FS_Surjection
  <2> QED
    BY <1>2, <1>5, <1>6, <2>2
<1>8. IsFiniteSet(C \ {Never}) /\ \A t \in C : t \in Int
  <2> DEFINE h == [k \in L |-> q[k].cancel_at]
  <2>1. h \in Surjection(L, C)
    BY <1>5 DEF Surjection
  <2>2. IsFiniteSet(C)
    <3> HIDE DEF h
    <3> QED
      BY <1>6, <2>1, FS_Surjection
  <2>3. C \ {Never} \subseteq C
    OBVIOUS
  <2>4. IsFiniteSet(C \ {Never})
    BY <2>2, <2>3, FS_Subset
  <2> QED
    BY <1>2, <1>5, <1>6, <2>4
<1>9. due_times(q) = E \union (C \ {Never})
  BY <1>4, <1>5 DEF due_times
<1>10. IsFiniteSet(due_times(q))
  BY <1>7, <1>8, <1>9, FS_Union
<1>11. ASSUME NEW y \in Orders(q), in_flight(y)
       PROVE  y.effective_at \in due_times(q)
  <2>1. PICK k \in DOMAIN q : y = q[k]
    BY <1>11 DEF Orders
  <2>2. k \in M
    BY <1>4, <1>11, <2>1 DEF in_flight
  <2> QED
    BY <1>5, <1>9, <2>1, <2>2
<1> QED
  BY <1>7, <1>8, <1>9, <1>10, <1>11

(* flush_inflight leaves no order in flight.                               *)
LEMMA Flush ==
    ASSUME NEW s \in Simulator, NEW u, NEW D, NEW R \in [ClientOrderIds -> Nat], NEW A, NEW J, NEW P,
           Sane(fresh(s), u, D, R, A, J, P)
    PROVE  LET t == flush_inflight(s)
           IN  /\ Sane(t, u, D, R, A, J, P)
               /\ Covered(fresh(s), R) => Covered(t, R)
               /\ \A y \in Orders(t.pending) : ~in_flight(y)
<1>1. PICK f : f = fresh(s)
  OBVIOUS
<1>2. s.pending \in Ledger /\ f.pending = s.pending
  BY <1>1, Parts DEF fresh, Simulator
<1>3. PICK S : S = due_times(s.pending)
  OBVIOUS
<1>4. /\ IsFiniteSet(S) /\ \A x \in S : x \in Int
      /\ \A y \in Orders(s.pending) : in_flight(y) => y.effective_at \in S
  BY <1>2, <1>3, DueTimes
<1>5. PICK before, times, n :
         /\ before = [x \in S |-> {y \in S : y < x}]
         /\ times = by_rank(S, before) /\ n = Cardinality(S)
  OBVIOUS
<1>6. Line(before, S)
  BY <1>4, <1>5, BySize
<1>7. Enumerates(times, n, S)
  BY ONLY <1>4, <1>5, <1>6, ByRank
<1>8. n \in Nat /\ \A x \in S : \E k \in 1 .. n : times[k] = x
  BY <1>7 DEF Enumerates
<1>9. DOMAIN times = 1 .. n
  BY <1>5 DEF by_rank
<1>10. PICK t : t = flushes(f, times)
  OBVIOUS
<1>11. t = flush_inflight(s)
  BY <1>1, <1>3, <1>5, <1>10 DEF flush_inflight, flushes, due_times, fresh
<1>12. Sane(f, u, D, R, A, J, P)
  BY <1>1
<1>13. f \in AllSane(u, D, R, A, J, P)
  BY <1>12 DEF AllSane, Sane
<1>a. PICK v : Flushing(v, f, times, n, AllSane(u, D, R, A, J, P))
  BY ONLY <1>8, <1>9, <1>13, R \in [ClientOrderIds -> Nat], FlushRun
<1>14. /\ v[0] = f /\ flushes(f, times) = v[n]
       /\ \A k \in 0 .. n : v[k] \in AllSane(u, D, R, A, J, P)
       /\ \A k \in 1 .. n : v[k] = advance(v[k - 1], times[k])
  BY <1>a DEF Flushing
<1> DEFINE Good(x) ==
              /\ Sane(v[x], u, D, R, A, J, P)
              /\ Covered(f, R) => Covered(v[x], R)
              /\ \A y \in Orders(v[x].pending) :
                    in_flight(y) => /\ y \in Orders(f.pending)
                                    /\ \A j \in 1 .. n : j <= x => ~(y.effective_at <= times[j])
           Q == {k \in 0 .. n : Good(k)}
<1>15. 0 \in Q
  <2>1. 0 \in 0 .. n /\ \A j \in 1 .. n : ~(j <= 0)
    BY <1>8
  <2> QED
    BY <1>12, <1>14, <2>1
<1>16. ASSUME NEW k \in 1 .. n, k - 1 \in Q
       PROVE  k \in Q
  <2>1. PICK i \in 0 .. n : i = k - 1
    BY <1>16
  <2>2. Good(i)
    BY <1>16, <2>1
  <2>3. PICK a, b, w : a = v[i] /\ b = v[k] /\ w = times[k]
    OBVIOUS
  <2>4. Sane(a, u, D, R, A, J, P) /\ b = advance(a, w)
    BY <1>14, <2>1, <2>2, <2>3
  <2>5. /\ Sane(b, u, D, R, A, J, P)
        /\ Covered(a, R) => Covered(b, R)
        /\ \A y \in Orders(b.pending) :
              in_flight(y) => y \in Orders(a.pending) /\ ~(y.effective_at <= w)
    BY <2>4, Advance
  <2>6. \A j \in 1 .. n : j <= k => j <= i \/ j = k
    BY <1>8, <2>1
  <2>7. \A y \in Orders(b.pending) :
           in_flight(y) => /\ y \in Orders(f.pending)
                           /\ \A j \in 1 .. n : j <= k => ~(y.effective_at <= times[j])
    BY <2>2, <2>3, <2>5, <2>6
  <2>8. k \in 0 .. n
    BY <1>8
  <2> QED
    BY <2>2, <2>3, <2>5, <2>7, <2>8
<1>17. \A k \in 0 .. n : k \in Q
  <2> HIDE DEF Q
  <2> QED
    BY <1>8, <1>15, <1>16, Upto
<1>18. Good(n)
  <2>1. n \in 0 .. n
    BY <1>8
  <2> QED
    BY <1>17, <2>1
<1>19. \A y \in Orders(t.pending) : ~in_flight(y)
  <2>1. SUFFICES ASSUME NEW y \in Orders(t.pending), in_flight(y)
                 PROVE  FALSE
    OBVIOUS
  <2>2. /\ y \in Orders(f.pending)
        /\ \A j \in 1 .. n : j <= n => ~(y.effective_at <= times[j])
    BY <1>10, <1>14, <1>18, <2>1
  <2>3. y.effective_at \in S /\ y.effective_at \in Int
    BY <1>2, <1>4, <2>1, <2>2
  <2>4. PICK x \in Int : x = y.effective_at
    BY <2>3
  <2>5. PICK j \in 1 .. n : times[j] = x
    BY <1>8, <2>3, <2>4
  <2>6. x <= x /\ j <= n
    BY <1>8, <2>4
  <2> QED
    BY <2>2, <2>4, <2>5, <2>6
<1> QED
  BY <1>1, <1>10, <1>11, <1>14, <1>18, <1>19

-----------------------------------------------------------------------------
(* A trade meets the resting orders.                                       *)

(* The fills when the order i has made a trade of take contracts. *)
made(fills, i, take, time) ==
    IF take = 0 THEN fills ELSE Append(fills, a_fill(i, i.price, take, "maker", time))

(* What becomes of the totals: a maker takes nothing from the book, and a  *)
(* buy pays its own price.                                                 *)
MadeOf(fills, fl, i, take) ==
    /\ fl \in Seq(Fill)
    /\ \A o \in Sides, b \in {"BUY", "SELL"} :
          taker_volume(fl)[o][b] = taker_volume(fills)[o][b]
    /\ \A c : c # i.id \/ i.order_side = "SELL" => spent(fl, c) = spent(fills, c)
    /\ i.order_side = "BUY" => spent(fl, i.id) = spent(fills, i.id) + i.price * take

(* A maker's fill for the contracts that are left to it.                   *)
LEMMA MakerFill ==
    ASSUME NEW fills \in Seq(Fill), NEW i \in OrderIntent(ClientOrderIds),
           NEW take \in Nat, NEW time \in Int
    PROVE  MadeOf(fills, made(fills, i, take, time), i, take)
<1>1. /\ i.id \in ClientOrderIds /\ i.order_side \in {"BUY", "SELL"} /\ i.price \in 0 .. One
      /\ i.price \in Nat
  <2>1. i.price \in 0 .. One
    BY DEF OrderIntent
  <2> QED
    BY <2>1, OrderType
<1>2. PICK f \in Fill : f = a_fill(i, i.price, take, "maker", time)
  <2>1. i.price \in 0 .. One
    BY DEF OrderIntent
  <2>2. PICK l \in {"taker", "maker"} : l = "maker"
    OBVIOUS
  <2>3. a_fill(i, i.price, take, l, time) \in Fill
    BY <2>1, AFill
  <2> QED
    BY <2>2, <2>3
<1>3. /\ f.id = i.id /\ f.order_side = i.order_side /\ f.price = i.price /\ f.quantity = take
      /\ f.liquidity = "maker"
  BY <1>2 DEF a_fill
<1>4. PICK fl : /\ fl = made(fills, i, take, time)
                /\ fl = IF take = 0 THEN fills ELSE Append(fills, f)
  BY <1>2 DEF made
<1>5. CASE take = 0
  <2>1. fl = fills
    BY <1>4, <1>5
  <2>2. i.order_side = "BUY" => spent(fl, i.id) = spent(fills, i.id) + i.price * take
    <3>1. PICK a \in Nat, pr \in Nat : a = spent(fills, i.id) /\ pr = i.price
      BY <1>1, Spent
    <3>2. a = a + pr * take
      BY <1>5
    <3> QED
      BY <2>1, <3>1, <3>2
  <2> QED
    BY <1>2, <1>4, <2>1, <2>2 DEF MadeOf
<1>6. CASE take # 0
  <2>1. fl = Append(fills, f)
    BY <1>4, <1>6
  <2>2. fl \in Seq(Fill)
    BY <2>1
  <2>3. ASSUME NEW o \in Sides, NEW b \in {"BUY", "SELL"}
        PROVE  taker_volume(fl)[o][b] = taker_volume(fills)[o][b]
    <3>1. PICK val \in [Fill -> Int] : val = swept(o, b)
      BY Weights
    <3>2. Total(fl, val) = Total(fills, val) + val[f]
      BY <2>1, TotalAppended
    <3>3. val[f] = 0
      BY <1>3, <3>1 DEF swept
    <3>4. PICK x \in Nat : x = taker_volume(fills)[o][b]
      BY Swept
    <3>5. Total(fills, val) = x /\ taker_volume(fl)[o][b] = Total(fl, val)
      BY <2>2, <3>1, <3>4, Swept
    <3> QED
      BY <3>2, <3>3, <3>4, <3>5
  <2>4. ASSUME NEW c
        PROVE  spent(fl, c) = spent(fills, c) + payment(f, c) /\ spent(fills, c) \in Nat
    <3>1. PICK val \in [Fill -> Int] : val = paid(c)
      BY Weights
    <3>2. Total(fl, val) = Total(fills, val) + val[f]
      BY <2>1, TotalAppended
    <3>3. val[f] = payment(f, c)
      BY <3>1 DEF paid
    <3>4. spent(fl, c) = Total(fl, val) /\ spent(fills, c) = Total(fills, val) /\ spent(fills, c) \in Nat
      BY <2>2, <3>1, Spent
    <3> QED
      BY <3>2, <3>3, <3>4
  <2>5. \A c : c # i.id \/ i.order_side = "SELL" => payment(f, c) = 0
    BY <1>3 DEF payment
  <2>6. i.order_side = "BUY" => payment(f, i.id) = i.price * take
    BY <1>3 DEF payment, amount
  <2>7. \A c : c # i.id \/ i.order_side = "SELL" => spent(fl, c) = spent(fills, c)
    BY <2>4, <2>5
  <2> QED
    BY <1>2, <2>1, <2>2, <2>3, <2>4, <2>6, <2>7, <1>4 DEF MadeOf
<1> QED
  BY <1>5, <1>6

(* What a resting order p becomes when it meets a trade: burn of its queue *)
(* goes first, and take fills it. *)
Meets(a, b, p, q, burn, take) ==
    /\ b \in Proper /\ b.book = a.book /\ q \in PendingOrder
    /\ q.id = p.id /\ q.intent = p.intent /\ q.active
    /\ q.queue_ahead + burn = p.queue_ahead /\ q.filled = p.filled + take
    /\ q.queue_ahead > 0 => take = 0
    /\ Orders(b.pending) = {x \in Orders(a.pending) : x.id # p.id} \union {q}
    /\ \A o \in Sides, l \in {"BUY", "SELL"} :
          taker_volume(b.fills)[o][l] = taker_volume(a.fills)[o][l]
    /\ \A c : c # p.id \/ p.intent.order_side = "SELL" => spent(b.fills, c) = spent(a.fills, c)
    /\ p.intent.order_side = "BUY" =>
          spent(b.fills, p.id) = spent(a.fills, p.id) + p.intent.price * take

(* One order on its turn in _apply_trade.                                  *)
LEMMA Meet ==
    ASSUME NEW vol \in Nat, NEW a \in Proper, NEW m, m.volume = vol, m.s = a,
           NEW p \in PendingOrder, Tidy(p), NEW t, NEW time \in Int
    PROVE  LET n == meet(m, p, t, time)
           IN  \/ n = m
               \/ /\ p.status \in Live /\ p.active /\ passive_fill(t, p.intent)
                  /\ \E b, q : \E burn, take, left_over \in Nat :
                        /\ n = [volume |-> left_over, s |-> b]
                        /\ left_over + burn + take = vol
                        /\ Meets(a, b, p, q, burn, take)
<1>1. PICK n : n = meet(m, p, t, time)
  OBVIOUS
<1>2. SUFFICES ASSUME n # m
               PROVE  /\ p.status \in Live /\ p.active /\ passive_fill(t, p.intent)
                      /\ \E b, q : \E burn, take, left_over \in Nat :
                            /\ n = [volume |-> left_over, s |-> b]
                            /\ left_over + burn + take = vol
                            /\ Meets(a, b, p, q, burn, take)
  BY <1>1
<1>3. PICK i \in OrderIntent(ClientOrderIds) : i = p.intent /\ i.id = p.id
  BY OrderParts DEF Tidy
<1>4. PICK ahead \in Nat, filled \in Nat, quantity \in Nat :
         /\ ahead = p.queue_ahead /\ filled = p.filled /\ quantity = i.quantity
         /\ filled <= quantity
  BY <1>3, OrderParts DEF Tidy
<1>5. PICK burn \in Nat : /\ burn = Min({p.queue_ahead, m.volume})
                          /\ burn <= ahead /\ burn <= vol /\ (burn = ahead \/ burn = vol)
  <2>1. Min({ahead, vol}) = IF ahead <= vol THEN ahead ELSE vol
    BY OfTwo
  <2>2. PICK x \in Nat : x = (IF ahead <= vol THEN ahead ELSE vol)
    OBVIOUS
  <2>3. x <= ahead /\ x <= vol /\ (x = ahead \/ x = vol)
    BY <2>2
  <2> QED
    BY <1>4, <2>1, <2>2, <2>3
<1>6. PICK take \in Nat : /\ take = Min({p.intent.quantity - p.filled, volume_left(m.volume, burn)})
                          /\ take <= quantity - filled /\ take <= vol - burn
  <2>1. PICK x \in Nat, y \in Nat : x = quantity - filled /\ y = vol - burn
    BY <1>4, <1>5
  <2>2. Min({x, y}) = IF x <= y THEN x ELSE y
    BY OfTwo
  <2>3. PICK z \in Nat : z = (IF x <= y THEN x ELSE y)
    OBVIOUS
  <2>4. z <= x /\ z <= y
    BY <2>3
  <2>5. x = p.intent.quantity - p.filled /\ y = volume_left(m.volume, burn)
    BY <1>3, <1>4, <2>1 DEF volume_left
  <2> QED
    BY <2>1, <2>2, <2>3, <2>4, <2>5
<1>7. PICK less \in Nat : less = ahead - burn /\ less + burn = ahead
  <2>1. ahead - burn \in Nat /\ (ahead - burn) + burn = ahead
    <3>1. burn <= ahead /\ burn \in Nat /\ ahead \in Nat
      BY <1>5
    <3> QED
      BY ONLY <3>1
  <2> QED
    BY <2>1
<1>8. PICK rest \in Nat : rest = vol - burn - take /\ rest + burn + take = vol
  <2>1. vol - burn - take \in Nat /\ (vol - burn - take) + burn + take = vol
    BY <1>5, <1>6
  <2> QED
    BY <2>1
<1>9. PICK more \in Nat : more = filled + take /\ more <= quantity
  <2>1. filled + take \in Nat /\ filled + take <= quantity
    BY <1>4, <1>6
  <2> QED
    BY <2>1
<1>10. less > 0 => take = 0
  BY <1>5, <1>6, <1>7
<1>11. a \in Simulator /\ a.pending \in Ledger /\ a.fills \in Seq(Fill)
  BY Parts DEF Proper
<1>12. PICK fl \in Seq(Fill) :
          /\ fl = IF take = 0 THEN a.fills ELSE Append(a.fills, a_fill(i, i.price, take, "maker", time))
          /\ \A o \in Sides, b \in {"BUY", "SELL"} :
                taker_volume(fl)[o][b] = taker_volume(a.fills)[o][b]
          /\ \A c : c # i.id \/ i.order_side = "SELL" => spent(fl, c) = spent(a.fills, c)
          /\ i.order_side = "BUY" => spent(fl, i.id) = spent(a.fills, i.id) + i.price * take
  <2>1. PICK fl : fl = made(a.fills, i, take, time)
    OBVIOUS
  <2>2. PICK f : f \in Seq(Fill) /\ f = a.fills
    BY <1>11
  <2>3. MadeOf(f, fl, i, take)
    <3>1. fl = made(f, i, take, time)
      BY <2>1, <2>2
    <3>2. f \in Seq(Fill) /\ i \in OrderIntent(ClientOrderIds) /\ take \in Nat /\ time \in Int
      BY <2>2
    <3> QED
      BY ONLY <3>1, <3>2, MakerFill
  <2> QED
    BY <2>1, <2>2, <2>3 DEF made, MadeOf
<1>13. PICK st \in {"OPEN", "PARTIALLY_FILLED", "FILLED", "CANCELED"} :
          st = IF take = 0 THEN p.status
               ELSE IF more = p.intent.quantity THEN "FILLED" ELSE "PARTIALLY_FILLED"
  BY OrderParts
<1>14. PICK q : q = [p EXCEPT !.queue_ahead = less, !.filled = more, !.status = st]
  OBVIOUS
<1>15. /\ q \in PendingOrder /\ q.id = p.id /\ q.intent = p.intent /\ q.active = p.active
       /\ q.queue_ahead = less /\ q.filled = more
  BY <1>14 DEF PendingOrder
<1>16. PICK d \in Ledger : /\ d = put(a.pending, q)
                           /\ Orders(d) = {x \in Orders(a.pending) : x.id # q.id} \union {q}
  BY <1>11, <1>15, Put
<1>17. /\ p.status \in Live /\ p.active /\ passive_fill(t, p.intent)
  BY <1>1, <1>2 DEF meet
<1>18. PICK b : b = [a EXCEPT !.fills = fl, !.pending = d]
  OBVIOUS
<1>19. n = [volume |-> rest, s |-> b]
  <2>1. n = [volume |-> m.volume - burn - take,
              s |-> [m.s EXCEPT
                       !.fills = IF take = 0 THEN @
                                 ELSE Append(@, a_fill(p.intent, p.intent.price, take,
                                                  "maker", time)),
                       !.pending = put(@, [p EXCEPT
                           !.queue_ahead = @ - burn,
                           !.filled = p.filled + take,
                           !.status = IF take = 0 THEN @
                                      ELSE IF p.filled + take = p.intent.quantity THEN "FILLED"
                                      ELSE "PARTIALLY_FILLED"])]]
    BY <1>1, <1>2, <1>5, <1>6 DEF meet
  <2>2. [p EXCEPT !.queue_ahead = @ - burn,
                  !.filled = p.filled + take,
                  !.status = IF take = 0 THEN @
                             ELSE IF p.filled + take = p.intent.quantity THEN "FILLED"
                             ELSE "PARTIALLY_FILLED"] = q
    BY <1>4, <1>7, <1>9, <1>13, <1>14 DEF PendingOrder
  <2>3. [a EXCEPT !.fills = IF take = 0 THEN @
                            ELSE Append(@, a_fill(p.intent, p.intent.price, take, "maker", time)),
                  !.pending = put(@, q)] = b
    BY <1>3, <1>11, <1>12, <1>16, <1>18 DEF Simulator
  <2> QED
    BY <1>8, <2>1, <2>2, <2>3
<1>20. b \in Simulator /\ b.book = a.book /\ b.pending = d /\ b.fills = fl
  BY <1>11, <1>18 DEF Simulator
<1>21. Tidy(q)
  BY <1>3, <1>4, <1>9, <1>15, <1>17 DEF Tidy
<1>22. b \in Proper
  BY <1>16, <1>20, <1>21 DEF Proper
<1>23. Meets(a, b, p, q, burn, take)
  BY <1>3, <1>4, <1>7, <1>9, <1>10, <1>12, <1>15, <1>16, <1>17, <1>20, <1>22 DEF Meets
<1> QED
  BY <1>8, <1>17, <1>19, <1>23

(* Who is before whom in _apply_trade. *)
elders(q) ==
    [k \in DOMAIN q |->
        {j \in DOMAIN q : \/ q[j].submitted_at < q[k].submitted_at
                          \/ q[j].submitted_at = q[k].submitted_at /\ j < k}]

(* The orders stand in line.                                               *)
LEMMA Elders ==
    ASSUME NEW q \in Ledger
    PROVE  Line(elders(q), DOMAIN q) /\ IsFiniteSet(DOMAIN q)
<1>1. DOMAIN q = 1 .. Len(q) /\ Len(q) \in Nat /\ \A k \in DOMAIN q : q[k] \in PendingOrder
  BY DEF Ledger
<1>2. \A k \in DOMAIN q : q[k].submitted_at \in Int /\ k \in Int
  BY <1>1, OrderParts
<1>3. IsFiniteSet(DOMAIN q)
  BY <1>1, UpTo
<1>4. PICK b : b = elders(q)
  OBVIOUS
<1>5. \A k \in DOMAIN q : \A j : j \in b[k] <=>
         /\ j \in DOMAIN q
         /\ \/ q[j].submitted_at < q[k].submitted_at
            \/ q[j].submitted_at = q[k].submitted_at /\ j < k
  BY <1>4 DEF elders
<1>6. \A k \in DOMAIN q : b[k] \subseteq DOMAIN q /\ k \notin b[k]
  BY <1>2, <1>5
<1>7. ASSUME NEW j \in DOMAIN q, NEW k \in DOMAIN q, j # k
      PROVE  \/ j \in b[k] /\ b[j] \subseteq b[k]
             \/ k \in b[j] /\ b[k] \subseteq b[j]
  <2>1. j \in b[k] \/ k \in b[j]
    <3>1. PICK x \in Int, y \in Int : x = q[j].submitted_at /\ y = q[k].submitted_at
      BY <1>2
    <3>2. x < y \/ y < x \/ (x = y /\ j < k) \/ (x = y /\ k < j)
      BY <1>2, <1>7
    <3> QED
      BY <1>5, <3>1, <3>2
  <2>2. ASSUME NEW l \in DOMAIN q, NEW r \in DOMAIN q, l \in b[r]
        PROVE  b[l] \subseteq b[r]
    <3>1. SUFFICES ASSUME NEW z \in b[l]
                   PROVE  z \in b[r]
      OBVIOUS
    <3>2. z \in DOMAIN q
      BY <1>5
    <3>3. PICK x \in Int, y \in Int, w \in Int :
             x = q[l].submitted_at /\ y = q[r].submitted_at /\ w = q[z].submitted_at
      BY <1>2, <3>2
    <3>4. /\ w < x \/ (w = x /\ z < l)
          /\ x < y \/ (x = y /\ l < r)
      BY <1>5, <2>2, <3>1, <3>3
    <3>5. w < y \/ (w = y /\ z < r)
      BY <1>2, <3>2, <3>4
    <3> QED
      BY <1>5, <3>2, <3>3, <3>5
  <2> QED
    BY <2>1, <2>2
<1>8. Line(b, DOMAIN q)
  BY <1>6, <1>7 DEF Line
<1> QED
  BY <1>3, <1>4, <1>8

(* The state of the loop over the orders. *)
Tapes == [volume : Nat, s : Proper]

(* The loop of _apply_trade. *)
meets(s, order, t, time) ==
    FoldLeft(LAMBDA m, k : meet(m, s.pending[k], t, time), [volume |-> t.quantity, s |-> s], order)

(* v are the states the loop goes through. *)
Meeting(v, s, order, n, t, time) ==
    /\ v[0] = [volume |-> t.quantity, s |-> s] /\ meets(s, order, t, time) = v[n]
    /\ \A k \in 0 .. n : v[k] \in Tapes
    /\ \A k \in 1 .. n : v[k] = meet(v[k - 1], s.pending[order[k]], t, time)

(* What the loop goes through.                                             *)
LEMMA MeetRun ==
    ASSUME NEW s \in Proper, NEW t, t.quantity \in Nat, NEW time \in Int,
           NEW order, NEW n \in Nat, Enumerates(order, n, DOMAIN s.pending), DOMAIN order = 1 .. n
    PROVE  \E v : Meeting(v, s, order, n, t, time)
<1>a. DOMAIN order = 1 .. n /\ n \in Nat /\ \A k \in 1 .. n : order[k] \in DOMAIN s.pending
  BY DEF Enumerates
<1>b. [volume |-> t.quantity, s |-> s] \in Tapes
  BY DEF Tapes
<1>2. \A k \in 1 .. n : \A b \in Tapes : meet(b, s.pending[order[k]], t, time) \in Tapes
  <2>1. SUFFICES ASSUME NEW k \in 1 .. n, NEW b \in Tapes
                 PROVE  meet(b, s.pending[order[k]], t, time) \in Tapes
    OBVIOUS
  <2>2. PICK p : p = s.pending[order[k]]
    OBVIOUS
  <2>3. p \in PendingOrder /\ Tidy(p)
    <3>1. p \in Orders(s.pending)
      BY <1>a, <2>2 DEF Orders
    <3>2. s.pending \in Ledger
      BY Parts DEF Proper
    <3> QED
      BY <3>1, <3>2, Lookup DEF Proper
  <2>4. PICK vol \in Nat, a \in Proper : b.volume = vol /\ b.s = a
    BY DEF Tapes
  <2>5. PICK m : m = meet(b, p, t, time)
    OBVIOUS
  <2>6. \/ m = b
        \/ \E c, q : \E burn, take, left_over \in Nat :
              m = [volume |-> left_over, s |-> c] /\ Meets(a, c, p, q, burn, take)
    BY ONLY <2>3, <2>4, <2>5, time \in Int, Meet
  <2>7. m \in Tapes
    BY <2>6 DEF Tapes, Meets
  <2> QED
    BY <2>2, <2>5, <2>7
<1> DEFINE step == [k \in 1 .. n |-> [b \in Tapes |-> meet(b, s.pending[order[k]], t, time)]]
<1>3. \A k \in 1 .. n : step[k] \in [Tapes -> Tapes]
  BY <1>2
<1>4. PICK g : Steps(g, step, [volume |-> t.quantity, s |-> s], n, Tapes)
  <2>1. Closed(step, n, Tapes)
    BY <1>3 DEF Closed
  <2> HIDE DEF step
  <2> QED
    BY <2>1, <1>b, FoldRuns
<1>5. \A r \in SUBSET (1 .. n) : r # {} => Max(r) \in 1 .. n
  BY LastPosition
<1>6. \A k \in 1 .. n : \A b \in Tapes : step[k][b] = meet(b, s.pending[order[k]], t, time)
  OBVIOUS
<1> HIDE DEF step
<1>7. \A r \in SUBSET (1 .. n) : r # {} =>
         g[r] = meet(g[r \ {Max(r)}], s.pending[order[Max(r)]], t, time)
  BY <1>4, <1>5, <1>6 DEF Steps
<1> DEFINE Runs(h) == h = [r \in SUBSET DOMAIN order |->
                              IF r = {} THEN [volume |-> t.quantity, s |-> s]
                              ELSE meet(h[r \ {Max(r)}], s.pending[order[Max(r)]], t, time)]
           h == CHOOSE h : Runs(h)
<1>8. Runs(g)
  <2> DEFINE G == [r \in SUBSET DOMAIN order |->
                     IF r = {} THEN [volume |-> t.quantity, s |-> s]
                     ELSE meet(g[r \ {Max(r)}], s.pending[order[Max(r)]], t, time)]
  <2>1. DOMAIN G = SUBSET (1 .. n) /\ G = [r \in DOMAIN G |-> G[r]]
    BY <1>a
  <2>2. \A r \in SUBSET (1 .. n) : G[r] = g[r]
    <3>1. \A r \in SUBSET (1 .. n) : G[r] = IF r = {} THEN [volume |-> t.quantity, s |-> s]
                     ELSE meet(g[r \ {Max(r)}], s.pending[order[Max(r)]], t, time)
      BY <1>a
    <3> HIDE DEF G
    <3> QED
      BY <1>4, <1>7, <3>1 DEF Steps
  <2>3. DOMAIN g = SUBSET (1 .. n) /\ g = [r \in DOMAIN g |-> g[r]]
    BY <1>4 DEF Steps
  <2>4. g = G
    <3> HIDE DEF G
    <3> QED
      BY <2>1, <2>2, <2>3
  <2> QED
    BY <2>4
<1>9. meets(s, order, t, time) = h[DOMAIN order]
  BY DEF meets, FoldLeft, MapThenFoldSet
<1>10. Runs(h)
  BY <1>8
<1>11. /\ h[{}] = [volume |-> t.quantity, s |-> s]
       /\ \A r \in SUBSET (1 .. n) : r # {} =>
            h[r] = meet(h[r \ {Max(r)}], s.pending[order[Max(r)]], t, time)
  <2> HIDE DEF h
  <2>1. {} \in SUBSET DOMAIN order
    OBVIOUS
  <2> QED
    BY <1>10, <1>a, <2>1
<1> HIDE DEF h, Runs
<1> DEFINE v == [k \in 0 .. n |-> h[1 .. k]]
<1>12. v[0] = [volume |-> t.quantity, s |-> s]
  <2>1. 1 .. 0 = {} /\ 0 \in 0 .. n
    OBVIOUS
  <2> QED
    BY <1>11, <2>1
<1>13. \A k \in 1 .. n : v[k] = meet(v[k - 1], s.pending[order[k]], t, time)
  <2>1. SUFFICES ASSUME NEW k \in 1 .. n
                 PROVE  v[k] = meet(v[k - 1], s.pending[order[k]], t, time)
    OBVIOUS
  <2>2. v[k] = h[1 .. k] /\ v[k - 1] = h[1 .. (k - 1)]
    OBVIOUS
  <2>3. /\ 1 .. k \in SUBSET (1 .. n) /\ 1 .. k # {}
        /\ Max(1 .. k) = k /\ (1 .. k) \ {Max(1 .. k)} = 1 .. (k - 1)
    BY LastOfPrefix
  <2>4. h[1 .. k] = meet(h[(1 .. k) \ {Max(1 .. k)}], s.pending[order[Max(1 .. k)]], t, time)
    BY <1>11, <2>3
  <2> HIDE DEF v
  <2> QED
    BY <2>2, <2>3, <2>4
<1>14. v[n] = meets(s, order, t, time)
  BY <1>9, <1>a
<1> HIDE DEF v
<1>15. \A k \in 0 .. n : v[k] \in Tapes
  <2> DEFINE P == {k \in 0 .. n : v[k] \in Tapes}
  <2>1. 0 \in P
    BY <1>b, <1>12
  <2>2. \A k \in 1 .. n : k - 1 \in P => k \in P
    BY <1>2, <1>13
  <2>3. \A k \in 0 .. n : k \in P
    <3> HIDE DEF P
    <3> QED
      BY <2>1, <2>2, Upto
  <2> QED
    BY <2>3
<1> QED
  BY <1>12, <1>13, <1>14, <1>15 DEF Meeting

(* What an order may still spend is a natural number.                      *)
LEMMA ClaimType ==
    ASSUME NEW p \in PendingOrder, Tidy(p)
    PROVE  claim(p) \in Nat
<1>1. PICK x \in Nat, m \in Nat, f \in Nat :
         x = p.intent.price /\ m = p.intent.quantity /\ f = p.filled /\ f <= m
  BY OrderParts DEF Tidy
<1>2. PICK d \in Nat : d = m - f
  BY <1>1
<1>3. x * d \in Nat
  OBVIOUS
<1> QED
  BY <1>1, <1>2, <1>3 DEF claim

(* What an order is met with is no more than what is printed for it. *)
Fits(burn, take, size, P, P2, c) == burn + take <= size /\ P2[c] = P[c] + size

(* No other order changes. *)
Leaves(q, r, p) == \A y \in Orders(q) : y.id # p.id => y \in Orders(r)

(* An order that meets a trade of size contracts keeps its place: what it  *)
(* is filled with is volume beyond its queue, and is paid from what was    *)
(* reserved for it.                                                        *)
LEMMA MeetsSane ==
    ASSUME NEW a, NEW b, NEW u, NEW D, NEW R \in [ClientOrderIds -> Nat], NEW A,
           NEW J \in [ClientOrderIds -> Nat], NEW P \in [ClientOrderIds -> Nat],
           NEW P2 \in [ClientOrderIds -> Nat], Sane(a, u, D, R, A, J, P2),
           NEW p \in Orders(a.pending), Waits(p, A, J, P), p.id \in A, p.status \in Live,
           NEW q, NEW burn \in Nat, NEW take \in Nat, Meets(a, b, p, q, burn, take),
           NEW size \in Nat, Fits(burn, take, size, P, P2, p.id)
    PROVE  /\ Sane(b, u, D, R, A, J, P2)
           /\ Covered(a, R) => Covered(b, R)
           /\ Leaves(a.pending, b.pending, p)
<1>0. burn + take <= size /\ P2[p.id] = P[p.id] + size
  BY DEF Fits
<1>1. a \in Proper /\ a.pending \in Ledger /\ a.fills \in Seq(Fill)
  BY Parts DEF Sane, Proper
<1>2. p \in PendingOrder /\ Tidy(p)
  BY <1>1, Lookup DEF Proper
<1>3. /\ b \in Proper /\ b.book = a.book /\ q \in PendingOrder
      /\ q.id = p.id /\ q.intent = p.intent /\ q.active
      /\ q.queue_ahead + burn = p.queue_ahead /\ q.filled = p.filled + take
      /\ q.queue_ahead > 0 => take = 0
      /\ Orders(b.pending) = {x \in Orders(a.pending) : x.id # p.id} \union {q}
      /\ \A o \in Sides, l \in {"BUY", "SELL"} :
            taker_volume(b.fills)[o][l] = taker_volume(a.fills)[o][l]
      /\ \A c : c # p.id \/ p.intent.order_side = "SELL" => spent(b.fills, c) = spent(a.fills, c)
      /\ p.intent.order_side = "BUY" =>
            spent(b.fills, p.id) = spent(a.fills, p.id) + p.intent.price * take
  BY DEF Meets
<1>4. b.pending \in Ledger /\ b.fills \in Seq(Fill) /\ Tidy(q)
  BY <1>3, Parts DEF Proper
<1>5. /\ p.id \in ClientOrderIds /\ p.intent \in OrderIntent(ClientOrderIds)
      /\ p.intent.order_side \in {"BUY", "SELL"} /\ spent(a.fills, p.id) \in Nat
  BY <1>1, <1>2, OrderParts, OrderType, Spent
<1>6. PICK pr \in Nat, n \in Nat, f \in Nat, g \in Nat :
         /\ pr = p.intent.price /\ n = p.intent.quantity /\ f = p.filled /\ g = q.filled
         /\ g = f + take /\ g <= n
  BY <1>2, <1>3, <1>4, OrderParts DEF Tidy
<1>7. p.intent.order_side = "BUY" =>
         spent(b.fills, p.id) + claim(q) <= R[p.id] /\ spent(b.fills, p.id) <= R[p.id]
  <2>1. SUFFICES ASSUME p.intent.order_side = "BUY"
                 PROVE  spent(b.fills, p.id) + claim(q) <= R[p.id] /\ spent(b.fills, p.id) <= R[p.id]
    OBVIOUS
  <2>2. PICK m \in Nat : m = n - g /\ m + take = n - f
    <3>1. n - g \in Nat /\ (n - g) + take = n - f
      BY <1>6
    <3> QED
      BY <3>1
  <2>3. claim(q) = pr * m /\ claim(p) = pr * (m + take)
    BY <1>3, <1>6, <2>2 DEF claim
  <2>4. PICK x \in Nat, y \in Nat : x = pr * m /\ y = pr * take /\ pr * (m + take) = x + y
    <3>1. pr * m \in Nat /\ pr * take \in Nat /\ pr * (m + take) = pr * m + pr * take
      OBVIOUS
    <3> QED
      BY <3>1
  <2>5. PICK z \in Nat, r \in Nat : z = spent(a.fills, p.id) /\ r = R[p.id]
    BY <1>5
  <2>6. z + (x + y) <= r
    <3>1. spent(a.fills, p.id) + claim(p) <= R[p.id]
      BY <2>1 DEF Sane, Funded
    <3> QED
      BY <2>3, <2>4, <2>5, <3>1
  <2>7. spent(b.fills, p.id) = z + y
    BY <1>3, <1>6, <2>1, <2>4, <2>5
  <2>8. (z + y) + x <= r /\ z + y <= r
    BY <2>6
  <2> QED
    BY <2>3, <2>4, <2>5, <2>7, <2>8
<1>8. Funded(b, R)
  <2>1. SUFFICES ASSUME NEW y \in Orders(b.pending), y.status \in Live, y.intent.order_side = "BUY"
                 PROVE  spent(b.fills, y.id) + claim(y) <= R[y.id]
    BY DEF Funded
  <2>2. CASE y = q
    BY <1>3, <1>7, <2>1, <2>2
  <2>3. CASE y \in Orders(a.pending) /\ y.id # p.id
    BY <1>3, <2>1, <2>3 DEF Sane, Funded
  <2> QED
    BY <1>3, <2>2, <2>3
<1>9. Waits(q, A, J, P2)
  <2>1. /\ p.active /\ p.queue_ahead <= J[p.id]
        /\ p.filled + J[p.id] - p.queue_ahead <= P[p.id]
        /\ p.filled > 0 => p.queue_ahead = 0
    BY DEF Waits
  <2>2. PICK j \in Nat, h \in Nat, k \in Nat, x \in Nat, y \in Nat :
           /\ j = J[p.id] /\ h = p.queue_ahead /\ k = q.queue_ahead
           /\ x = P[p.id] /\ y = P2[p.id]
    BY <1>2, <1>3, <1>5, OrderParts
  <2>3. k + burn = h /\ (k > 0 => take = 0) /\ y = x + size /\ burn + take <= size
    BY <1>0, <1>3, <2>2
  <2>4. h <= j /\ f + j - h <= x /\ (f > 0 => h = 0)
    BY <1>6, <2>1, <2>2
  <2>5. k <= j /\ g + j - k <= y /\ (g > 0 => k = 0)
    BY <1>6, <2>3, <2>4
  <2> QED
    BY <1>3, <1>6, <2>2, <2>5 DEF Waits
<1>10. \A y \in Orders(b.pending) : y.id \in D /\ Waits(y, A, J, P2)
  BY <1>3, <1>9 DEF Sane
<1>11. SameLiquidity(u, b) /\ b.book.known = u.book.known
  BY <1>3 DEF Sane, SameLiquidity
<1>12. Covered(a, R) => Covered(b, R)
  <2>1. SUFFICES ASSUME Covered(a, R)
                 PROVE  Covered(b, R)
    OBVIOUS
  <2>2. \A y \in Orders(b.pending) : y.intent.order_type # "market"
    BY <1>3, <2>1 DEF Covered
  <2>3. ASSUME NEW c \in ClientOrderIds
        PROVE  spent(b.fills, c) <= R[c]
    BY <1>3, <1>5, <1>7, <2>1 DEF Covered
  <2> QED
    BY <2>2, <2>3 DEF Covered
<1> QED
  BY <1>3, <1>8, <1>10, <1>11, <1>12 DEF Sane, Leaves

(* What has been printed only grows. *)
Grows(P, P2) == \A c \in ClientOrderIds : P[c] <= P2[c]

(* What a trade prints for the orders of A, where P has been printed. *)
Prints(s, t, time, A, P, P2) ==
    /\ Grows(P, P2)
    /\ \A p \in Orders(s.pending) :
          p.active => /\ p.id \in A
                      /\ p.effective_at <= time /\ passive_fill(t, p.intent) =>
                            P2[p.id] = P[p.id] + t.quantity

(* More may have been printed than an order needs.                         *)
LEMMA MorePrinted ==
    ASSUME NEW s, NEW u, NEW D, NEW R, NEW A, NEW J \in [ClientOrderIds -> Nat],
           NEW P \in [ClientOrderIds -> Nat], NEW P2 \in [ClientOrderIds -> Nat],
           Sane(s, u, D, R, A, J, P), Grows(P, P2)
    PROVE  Sane(s, u, D, R, A, J, P2)
<1>1. s \in Proper /\ s.pending \in Ledger
  BY Parts DEF Sane, Proper
<1>2. ASSUME NEW p \in Orders(s.pending)
      PROVE  Waits(p, A, J, P2)
  <2>1. Waits(p, A, J, P)
    BY DEF Sane
  <2>a. p \in PendingOrder
    BY <1>1, Lookup
  <2>b. p.id \in ClientOrderIds /\ p.queue_ahead \in Nat /\ p.filled \in Nat
    BY <2>a, OrderParts
  <2>c. P[p.id] \in Nat /\ P2[p.id] \in Nat /\ J[p.id] \in Nat /\ P[p.id] <= P2[p.id]
    BY <2>b DEF Grows
  <2>2. PICK x \in Nat, y \in Nat, j \in Nat, h \in Nat, f \in Nat :
           /\ x = P[p.id] /\ y = P2[p.id] /\ x <= y
           /\ j = J[p.id] /\ h = p.queue_ahead /\ f = p.filled
    BY <2>b, <2>c
  <2>3. f + j - h <= x => f + j - h <= y
    BY <2>2
  <2> QED
    BY <2>1, <2>2, <2>3 DEF Waits
<1> QED
  BY <1>2 DEF Sane

(* The orders that rest are those of A. *)
Within(q, A) == \A y \in Orders(q) : y.active => y.id \in A

(* _apply_trade: the volume of a trade is shared out once, and to each     *)
(* order only beyond its queue.                                            *)
LEMMA ApplyTrade ==
    ASSUME NEW s, NEW u, NEW D, NEW R \in [ClientOrderIds -> Nat], NEW A,
           NEW J \in [ClientOrderIds -> Nat], NEW P \in [ClientOrderIds -> Nat],
           NEW P2 \in [ClientOrderIds -> Nat], Sane(s, u, D, R, A, J, P),
           NEW t, t.quantity \in Nat, NEW time \in Int, Prints(s, t, time, A, P, P2)
    PROVE  LET b == apply_trade(s, t, time)
           IN  /\ Sane(b, u, D, R, A, J, P2)
               /\ Covered(s, R) => Covered(b, R)
               /\ Within(b.pending, A)
<1>1. s \in Proper /\ s.pending \in Ledger
  BY Parts DEF Sane, Proper
<1>2. PICK q : q = s.pending
  OBVIOUS
<1>3. PICK before : before = elders(q)
  OBVIOUS
<1>4. Line(before, DOMAIN q) /\ IsFiniteSet(DOMAIN q)
  BY <1>1, <1>2, <1>3, Elders
<1>5. PICK order, n : order = by_rank(DOMAIN q, before) /\ n = Cardinality(DOMAIN q)
  OBVIOUS
<1>6. Enumerates(order, n, DOMAIN q)
  <2>1. PICK S : S = DOMAIN q
    OBVIOUS
  <2>2. Line(before, S) /\ IsFiniteSet(S) /\ order = by_rank(S, before) /\ n = Cardinality(S)
    BY <1>4, <1>5, <2>1
  <2>3. Enumerates(order, n, S)
    BY ONLY <2>2, ByRank
  <2> QED
    BY <2>1, <2>3
<1>7. /\ n \in Nat /\ DOMAIN order = 1 .. n /\ \A k \in 1 .. n : order[k] \in DOMAIN q
      /\ \A j, k \in 1 .. n : order[j] = order[k] => j = k
  BY <1>6 DEF Enumerates
<1>8. PICK w : w = meets(s, order, t, time)
  OBVIOUS
<1>9. apply_trade(s, t, time) = w.s
  BY <1>2, <1>3, <1>5, <1>8 DEF apply_trade, meets, elders
<1>10. PICK v : Meeting(v, s, order, n, t, time)
  <2>1. Enumerates(order, n, DOMAIN s.pending)
    BY <1>2, <1>6
  <2> QED
    BY ONLY <1>1, <1>7, <2>1, t.quantity \in Nat, time \in Int, MeetRun
<1>11. /\ v[0] = [volume |-> t.quantity, s |-> s] /\ w = v[n]
       /\ \A k \in 0 .. n : v[k] \in Tapes
       /\ \A k \in 1 .. n : v[k] = meet(v[k - 1], q[order[k]], t, time)
  BY <1>2, <1>8, <1>10 DEF Meeting
<1> DEFINE Good(k) ==
              /\ Sane(v[k].s, u, D, R, A, J, P2)
              /\ Covered(s, R) => Covered(v[k].s, R)
              /\ Within(v[k].s.pending, A)
              /\ v[k].volume \in Nat /\ v[k].volume <= t.quantity
              /\ \A j \in 1 .. n : j > k => q[order[j]] \in Orders(v[k].s.pending)
           Q == {k \in 0 .. n : Good(k)}
<1>12. 0 \in Q
  <2>1. Sane(s, u, D, R, A, J, P2)
    <3>1. Grows(P, P2)
      BY DEF Prints
    <3> QED
      BY <3>1, MorePrinted
  <2>2. v[0].s = s /\ v[0].volume = t.quantity
    BY <1>11
  <2>3. \A j \in 1 .. n : q[order[j]] \in Orders(s.pending)
    BY <1>2, <1>7 DEF Orders
  <2>a. Within(s.pending, A)
    BY DEF Prints, Within
  <2>4. PICK x \in Nat : x = t.quantity
    OBVIOUS
  <2>5. x <= x /\ 0 \in 0 .. n
    BY <1>7
  <2> QED
    BY <2>1, <2>2, <2>3, <2>4, <2>5, <2>a
<1>13. ASSUME NEW k \in 1 .. n, k - 1 \in Q
       PROVE  k \in Q
  <2>1. PICK i \in 0 .. n : i = k - 1
    BY <1>13
  <2>2. Good(i) /\ k \in 0 .. n
    BY <1>13, <2>1
  <2>3. PICK m, z, a, p : m = v[i] /\ z = v[k] /\ a = m.s /\ p = q[order[k]]
    OBVIOUS
  <2>4. z = meet(m, p, t, time)
    BY <1>11, <2>1, <2>3
  <2>5. Sane(a, u, D, R, A, J, P2) /\ a \in Proper
    BY <2>2, <2>3 DEF Sane
  <2>6. p \in Orders(a.pending) /\ p \in Orders(q)
    <3>1. k > i
      BY <1>7, <2>1
    <3> QED
      BY <1>7, <2>2, <2>3, <3>1 DEF Orders
  <2>7. p \in PendingOrder /\ Tidy(p) /\ Waits(p, A, J, P)
    BY <1>1, <1>2, <2>6, Lookup DEF Proper, Sane
  <2>8. PICK vol \in Nat : vol = m.volume /\ vol <= t.quantity
    BY <2>2, <2>3
  <2>9. \A j \in 1 .. n : j > k => j > i /\ q[order[j]].id # p.id
    <3>1. \A x, y \in DOMAIN q : q[x].id = q[y].id => x = y
      BY <1>1, <1>2 DEF Ledger
    <3>2. \A j \in 1 .. n : j > k => j > i /\ j # k
      BY <1>7, <2>1
    <3> QED
      BY <1>7, <2>3, <3>1, <3>2
  <2>10. \/ z = m
         \/ /\ p.status \in Live /\ p.active /\ passive_fill(t, p.intent)
            /\ \E b, r : \E burn, take, left_over \in Nat :
                  /\ z = [volume |-> left_over, s |-> b]
                  /\ left_over + burn + take = vol
                  /\ Meets(a, b, p, r, burn, take)
    <3>1. m.volume = vol /\ m.s = a
      BY <2>3, <2>8
    <3> QED
      BY ONLY <2>4, <2>5, <2>7, <3>1, vol \in Nat, time \in Int, Meet
  <2>11. CASE z = m
    <3>1. \A j \in 1 .. n : j > k => q[order[j]] \in Orders(z.s.pending)
      BY <2>2, <2>3, <2>9, <2>11
    <3> QED
      BY <2>2, <2>3, <2>11, <3>1
  <2>12. CASE z # m
    <3>a. PICK b, r :
             \E burn, take, left_over \in Nat :
                /\ z = [volume |-> left_over, s |-> b]
                /\ left_over + burn + take = vol
                /\ Meets(a, b, p, r, burn, take)
      BY <2>10, <2>12
    <3>1. PICK burn \in Nat, take \in Nat, left_over \in Nat :
             /\ z = [volume |-> left_over, s |-> b]
             /\ left_over + burn + take = vol
             /\ Meets(a, b, p, r, burn, take)
      BY <3>a
    <3>2. p.status \in Live /\ p.active /\ passive_fill(t, p.intent)
      BY <2>10, <2>12
    <3>c. p.effective_at <= time
      <4>1. p.effective_at \in Int
        BY <2>7 DEF PendingOrder
      <4>2. time >= p.effective_at
        BY <2>4, <2>12 DEF meet
      <4> QED
        BY <4>1, <4>2
    <3>3. p.id \in A /\ P2[p.id] = P[p.id] + t.quantity
      BY <1>2, <2>6, <3>2, <3>c DEF Prints
    <3>4. PICK size \in Nat : size = t.quantity
      OBVIOUS
    <3>5. burn + take <= size /\ left_over <= size
      BY <2>8, <3>1, <3>4
    <3>6. /\ Sane(b, u, D, R, A, J, P2)
          /\ Covered(a, R) => Covered(b, R)
          /\ \A y \in Orders(a.pending) : y.id # p.id => y \in Orders(b.pending)
      <4>1. p.status \in Live /\ p.id \in A
        BY <3>2, <3>3, <3>4
      <4>2. Fits(burn, take, size, P, P2, p.id) /\ Meets(a, b, p, r, burn, take)
        BY <3>1, <3>3, <3>4, <3>5 DEF Fits
      <4>3. Sane(a, u, D, R, A, J, P2) /\ p \in Orders(a.pending) /\ Waits(p, A, J, P)
        BY <2>5, <2>6, <2>7
      <4>4. /\ R \in [ClientOrderIds -> Nat] /\ J \in [ClientOrderIds -> Nat]
            /\ P \in [ClientOrderIds -> Nat] /\ P2 \in [ClientOrderIds -> Nat]
            /\ burn \in Nat /\ take \in Nat /\ size \in Nat
        OBVIOUS
      <4>5. /\ Sane(b, u, D, R, A, J, P2)
            /\ Covered(a, R) => Covered(b, R)
            /\ Leaves(a.pending, b.pending, p)
        BY ONLY <4>1, <4>2, <4>3, <4>4, MeetsSane
      <4> QED
        BY <4>5 DEF Leaves
    <3>b. Within(b.pending, A)
      <4>1. Orders(b.pending) = {x \in Orders(a.pending) : x.id # p.id} \union {r} /\ r.id = p.id
        BY <3>1 DEF Meets
      <4>2. Within(a.pending, A)
        BY <2>2, <2>3
      <4> QED
        BY <3>3, <4>1, <4>2 DEF Within
    <3>7. z.s = b /\ z.volume = left_over
      BY <3>1
    <3>8. \A j \in 1 .. n : j > k => q[order[j]] \in Orders(b.pending)
      BY <2>2, <2>3, <2>9, <3>6
    <3> QED
      BY <2>2, <2>3, <3>4, <3>5, <3>6, <3>7, <3>8, <3>b
  <2> QED
    BY <2>11, <2>12
<1>14. \A k \in 0 .. n : k \in Q
  <2> HIDE DEF Q
  <2> QED
    BY <1>7, <1>12, <1>13, Upto
<1>15. Good(n)
  <2>1. n \in 0 .. n
    BY <1>7
  <2> QED
    BY <1>14, <2>1
<1> QED
  BY <1>9, <1>11, <1>15

-----------------------------------------------------------------------------
(* Between the events.                                                     *)

(* A book event replaces the book.                                         *)
LEMMA Rebook ==
    ASSUME NEW s, NEW u, NEW D, NEW R, NEW A, NEW J, NEW P, Sane(s, u, D, R, A, J, P),
           NEW bk \in OrderBook
    PROVE  LET x == [s EXCEPT !.book = bk]
           IN  /\ Sane(x, x, D, R, A, J, P)
               /\ Covered(s, R) => Covered(x, R)
               /\ x.pending = s.pending /\ x.fills = s.fills /\ x.book = bk
<1>1. s \in Proper /\ s \in Simulator /\ s.pending \in Ledger
  BY Parts DEF Sane, Proper
<1>2. PICK x : x = [s EXCEPT !.book = bk]
  OBVIOUS
<1>3. x \in Simulator /\ x.book = bk /\ x.pending = s.pending /\ x.fills = s.fills
  BY <1>1, <1>2 DEF Simulator
<1>4. x \in Proper
  BY <1>1, <1>3 DEF Proper
<1>5. Sane(x, x, D, R, A, J, P)
  BY <1>3, <1>4 DEF Sane, Funded, SameLiquidity
<1>6. Covered(s, R) => Covered(x, R)
  BY <1>3 DEF Covered
<1> QED
  BY <1>2, <1>3, <1>5, <1>6

(* R2 is what is left of the reservations R once the fills are booked. *)
Booking(R, R2, fills) ==
    \A c \in ClientOrderIds : spent(fills, c) <= R[c] => R2[c] = R[c] - spent(fills, c)

(* Fills that are booked are paid; what may still be spent stays reserved. *)
LEMMA Booked ==
    ASSUME NEW s, NEW u, NEW D, NEW R \in [ClientOrderIds -> Nat], NEW A, NEW J, NEW P,
           Sane(s, u, D, R, A, J, P), NEW R2 \in [ClientOrderIds -> Nat], Booking(R, R2, s.fills)
    PROVE  LET x == fresh(s)
           IN  /\ Sane(x, x, D, R2, A, J, P)
               /\ Covered(s, R) => Covered(x, R2)
               /\ x.pending = s.pending /\ x.fills = <<>> /\ x.book = s.book
<1>1. s \in Proper /\ s \in Simulator /\ s.pending \in Ledger /\ s.fills \in Seq(Fill)
  BY Parts DEF Sane, Proper
<1>2. PICK none \in Seq(Fill) : none = <<>>
  <2>1. <<>> \in Seq(Fill)
    OBVIOUS
  <2> QED
    BY <2>1
<1>3. PICK x : x = fresh(s)
  OBVIOUS
<1>4. /\ x \in Simulator /\ x.book = s.book /\ x.pending = s.pending /\ x.fills = none
  BY <1>1, <1>2, <1>3 DEF Simulator, fresh
<1>5. x \in Proper
  BY <1>1, <1>4 DEF Proper
<1>6. \A c : spent(none, c) = 0
  BY <1>2, Spent, TotalOfNone
<1>7. Funded(x, R2)
  <2>1. SUFFICES ASSUME NEW y \in Orders(s.pending), y.status \in Live, y.intent.order_side = "BUY"
                 PROVE  spent(none, y.id) + claim(y) <= R2[y.id]
    BY <1>4 DEF Funded
  <2>2. y \in PendingOrder /\ Tidy(y)
    BY <1>1, Lookup DEF Proper
  <2>3. y.id \in ClientOrderIds /\ claim(y) \in Nat
    BY <2>2, OrderParts, ClaimType
  <2>4. PICK k \in Nat, a \in Nat, r \in Nat, z \in Nat :
           /\ k = claim(y) /\ a = spent(s.fills, y.id) /\ r = R[y.id] /\ z = R2[y.id]
    BY <1>1, <2>3, Spent
  <2>5. a + k <= r
    BY <2>1, <2>4 DEF Sane, Funded
  <2>6. a <= r
    BY <2>4, <2>5
  <2>7. z = r - a
    BY <2>3, <2>4, <2>6 DEF Booking
  <2>8. 0 + k <= z
    BY <2>4, <2>5, <2>7
  <2> QED
    BY <1>6, <2>4, <2>8
<1>8. Sane(x, x, D, R2, A, J, P)
  BY <1>4, <1>5, <1>7 DEF Sane, SameLiquidity
<1>9. Covered(s, R) => Covered(x, R2)
  BY <1>4, <1>6 DEF Covered
<1> QED
  BY <1>2, <1>3, <1>4, <1>8, <1>9

(* Which orders rest.                                                      *)
LEMMA Resting ==
    ASSUME NEW s \in Proper
    PROVE  /\ \A p \in Orders(s.pending) : p.id \in resting(s) <=> p.active
           /\ \A c \in resting(s) : /\ c \in ClientOrderIds
                                    /\ order_at(s.pending, c) \in Orders(s.pending)
                                    /\ order_at(s.pending, c).id = c
<1>1. s.pending \in Ledger
  BY Parts DEF Proper
<1>2. ASSUME NEW p \in Orders(s.pending)
      PROVE  p.id \in resting(s) <=> p.active
  <2>1. p \in PendingOrder /\ p.id \in ClientOrderIds
    BY <1>1, Lookup, OrderParts
  <2>2. PICK k \in DOMAIN s.pending : p = s.pending[k]
    BY DEF Orders
  <2>3. \A j \in lookup(s.pending, p.id) : s.pending[j] = p
    BY <1>1, <2>2 DEF lookup, Ledger
  <2>4. k \in lookup(s.pending, p.id)
    BY <2>2 DEF lookup
  <2> QED
    BY <2>1, <2>2, <2>3, <2>4 DEF resting
<1>3. ASSUME NEW c \in resting(s)
      PROVE  /\ c \in ClientOrderIds /\ order_at(s.pending, c) \in Orders(s.pending)
             /\ order_at(s.pending, c).id = c
  <2>1. c \in ClientOrderIds /\ lookup(s.pending, c) # {}
    BY DEF resting
  <2> QED
    BY <1>1, <2>1, Lookup
<1> QED
  BY <1>2, <1>3

(* The queue that new resting orders join. *)
joining(s, A, J) ==
    [c \in ClientOrderIds |->
        IF c \in resting(s) \ A THEN order_at(s.pending, c).queue_ahead ELSE J[c]]

(* An order that comes to rest is at the end of its queue.                 *)
LEMMA Rests ==
    ASSUME NEW s, NEW u, NEW D, NEW R, NEW A, NEW J \in [ClientOrderIds -> Nat],
           NEW P \in [ClientOrderIds -> Nat], Sane(s, u, D, R, A, J, P)
    PROVE  /\ Sane(s, u, D, R, resting(s), joining(s, A, J), P)
           /\ joining(s, A, J) \in [ClientOrderIds -> Nat]
<1>1. s \in Proper /\ s.pending \in Ledger
  BY Parts DEF Sane, Proper
<1>2. PICK j : j = joining(s, A, J)
  OBVIOUS
<1>3. /\ j = [c \in ClientOrderIds |-> j[c]]
      /\ \A c \in ClientOrderIds :
            j[c] = IF c \in resting(s) \ A THEN order_at(s.pending, c).queue_ahead ELSE J[c]
  BY <1>2 DEF joining
<1>4. j \in [ClientOrderIds -> Nat]
  <2>1. ASSUME NEW c \in resting(s)
        PROVE  order_at(s.pending, c).queue_ahead \in Nat
    <3>1. order_at(s.pending, c) \in PendingOrder
      BY <1>1, Resting, Lookup
    <3> QED
      BY <3>1, OrderParts
  <2>2. \A c \in ClientOrderIds : j[c] \in Nat
    BY <1>3, <2>1
  <2> QED
    BY <1>3, <2>2
<1>5. ASSUME NEW p \in Orders(s.pending)
      PROVE  Waits(p, resting(s), j, P)
  <2>1. p \in PendingOrder
    BY <1>1, Lookup
  <2>2. p.id \in ClientOrderIds /\ p.queue_ahead \in Nat /\ p.filled \in Nat
    BY <2>1, OrderParts
  <2>3. Waits(p, A, J, P) /\ (p.id \in resting(s) <=> p.active)
    BY <1>1, Resting DEF Sane
  <2>4. CASE p.id \in A
    BY <1>3, <2>2, <2>3, <2>4 DEF Waits
  <2>5. CASE p.id \notin A /\ ~p.active
    BY <2>3, <2>5 DEF Waits
  <2>6. CASE p.id \notin A /\ p.active
    <3>1. order_at(s.pending, p.id) = p
      BY <1>1, Lookup
    <3>2. j[p.id] = p.queue_ahead /\ p.filled = 0
      BY <1>3, <2>2, <2>3, <2>6, <3>1 DEF Waits
    <3>3. PICK h \in Nat, x \in Nat : h = p.queue_ahead /\ x = P[p.id]
      BY <2>2
    <3>4. h <= h /\ 0 + h - h <= x
      BY <3>3
    <3> QED
      BY <2>3, <2>6, <3>2, <3>3, <3>4 DEF Waits
  <2> QED
    BY <2>4, <2>5, <2>6
<1>6. Sane(s, u, D, R, resting(s), j, P)
  BY <1>5 DEF Sane
<1> QED
  BY <1>2, <1>4, <1>6

(* When the resting orders are those of A, they still wait as they did.    *)
LEMMA StillRests ==
    ASSUME NEW s, NEW u, NEW D, NEW R, NEW A, NEW J, NEW P, Sane(s, u, D, R, A, J, P),
           Within(s.pending, A)
    PROVE  Sane(s, u, D, R, resting(s), J, P)
<1>1. s \in Proper
  BY DEF Sane
<1>2. \A p \in Orders(s.pending) : Waits(p, resting(s), J, P)
  BY <1>1, Resting DEF Waits, Within, Sane
<1> QED
  BY <1>2 DEF Sane

(* A cancel changes nothing but the status and the time of a cancel.       *)
LEMMA Amend ==
    ASSUME NEW s, NEW u, NEW D, NEW R, NEW A, NEW J, NEW P, Sane(s, u, D, R, A, J, P),
           NEW p \in Orders(s.pending), NEW o \in PendingOrder,
           o.id = p.id, o.intent = p.intent, o.filled = p.filled, o.active = p.active,
           o.queue_ahead = p.queue_ahead, o.status \in Live => p.status \in Live
    PROVE  LET t == [s EXCEPT !.pending = put(@, o)]
           IN  /\ Sane(t, u, D, R, A, J, P)
               /\ Covered(s, R) => Covered(t, R)
               /\ t.book = s.book /\ t.fills = s.fills
               /\ \A c : Within(s.pending, c) => Within(t.pending, c)
<1>1. s \in Proper /\ s \in Simulator /\ s.pending \in Ledger
  BY Parts DEF Sane, Proper
<1>2. PICK q \in Ledger : /\ q = put(s.pending, o)
                          /\ Orders(q) = {x \in Orders(s.pending) : x.id # o.id} \union {o}
  BY <1>1, Put
<1>3. PICK t : t = [s EXCEPT !.pending = put(@, o)]
  OBVIOUS
<1>4. t \in Simulator /\ t.book = s.book /\ t.pending = q /\ t.fills = s.fills
  BY <1>1, <1>2, <1>3 DEF Simulator
<1>5. Tidy(p) /\ Tidy(o)
  BY <1>1 DEF Proper, Tidy
<1>6. t \in Proper
  BY <1>1, <1>2, <1>4, <1>5 DEF Proper
<1>7. claim(o) = claim(p)
  BY DEF claim
<1>8. Funded(t, R)
  <2>1. SUFFICES ASSUME NEW y \in Orders(t.pending), y.status \in Live, y.intent.order_side = "BUY"
                 PROVE  spent(t.fills, y.id) + claim(y) <= R[y.id]
    BY DEF Funded
  <2>2. CASE y = o
    <3>1. p.status \in Live /\ p.intent.order_side = "BUY"
      BY <2>1, <2>2
    <3>2. spent(s.fills, p.id) + claim(p) <= R[p.id]
      BY <3>1 DEF Sane, Funded
    <3> QED
      BY <1>4, <1>7, <2>2, <3>2
  <2>3. CASE y \in Orders(s.pending)
    BY <1>4, <2>1, <2>3 DEF Sane, Funded
  <2> QED
    BY <1>2, <1>4, <2>2, <2>3
<1>9. \A y \in Orders(t.pending) : y.id \in D /\ Waits(y, A, J, P)
  <2>1. p.id \in D /\ Waits(p, A, J, P)
    BY DEF Sane
  <2>2. o.id \in D /\ Waits(o, A, J, P)
    BY <2>1 DEF Waits
  <2> QED
    BY <1>2, <1>4, <2>2 DEF Sane
<1>10. Sane(t, u, D, R, A, J, P)
  BY <1>4, <1>6, <1>8, <1>9 DEF Sane, SameLiquidity
<1>11. Covered(s, R) => Covered(t, R)
  BY <1>2, <1>4 DEF Covered
<1>12. \A c : Within(s.pending, c) => Within(t.pending, c)
  BY <1>2, <1>4 DEF Within
<1> QED
  BY <1>3, <1>4, <1>10, <1>11, <1>12

(* What a new order i may do to the simulator: it takes, pays and may      *)
(* spend what its notional allows. *)
Comes(s, t, i) ==
    /\ t \in Proper /\ t.book.known = s.book.known /\ SameLiquidity(s, t)
    /\ \A p : p.id # i.id => (p \in Orders(t.pending) <=> p \in Orders(s.pending))
    /\ \A y \in Orders(t.pending) : y.id = i.id =>
          /\ y.filled = 0
          /\ y.intent.order_type = i.order_type /\ y.intent.order_side = i.order_side
          /\ y.status \in Live /\ y.intent.order_side = "BUY" =>
                spent(t.fills, i.id) + claim(y) <= spent(s.fills, i.id) + notional(i)
    /\ \A c : c # i.id \/ i.order_side = "SELL" => spent(t.fills, c) = spent(s.fills, c)
    /\ i.order_type # "market" =>
          spent(t.fills, i.id) <= spent(s.fills, i.id) + notional(i)

(* Its reservation. *)
Reserves(R, R2, i) ==
    /\ \A c \in ClientOrderIds \ {i.id} : R2[c] = R[c]
    /\ i.order_side = "BUY" => R2[i.id] = notional(i)

(* A new order of a new id, for which cash is reserved.                    *)
LEMMA NewOrder ==
    ASSUME NEW s, NEW u, NEW D, NEW R \in [ClientOrderIds -> Nat], NEW A, NEW J, NEW P,
           Sane(s, u, D, R, A, J, P), s.fills = <<>>, A \subseteq D,
           NEW i \in OrderIntent(ClientOrderIds), i.id \notin D,
           NEW R2 \in [ClientOrderIds -> Nat], Reserves(R, R2, i),
           NEW t, Comes(s, t, i)
    PROVE  /\ Sane(t, u, D \union {i.id}, R2, A, J, P)
           /\ Covered(s, R) /\ i.order_type # "market" => Covered(t, R2)
<1>1. /\ i.id \in ClientOrderIds /\ i.order_side \in {"BUY", "SELL"} /\ notional(i) \in Nat
      /\ s \in Proper /\ t \in Proper
  BY OrderType DEF Sane, Comes
<1>2. t.pending \in Ledger /\ t.fills \in Seq(Fill)
  BY <1>1, Parts DEF Proper
<1>3. \A c : spent(s.fills, c) = 0
  <2>1. s.fills \in Seq(Fill)
    BY <1>1, Parts DEF Proper
  <2> QED
    BY <2>1, Spent, TotalOfNone
<1>4. \A y \in Orders(t.pending) : y.id # i.id => y \in Orders(s.pending)
  BY DEF Comes
<1>5. \A c : spent(t.fills, c) \in Nat
  BY <1>2, Spent
<1>6. Funded(t, R2)
  <2>1. SUFFICES ASSUME NEW y \in Orders(t.pending), y.status \in Live, y.intent.order_side = "BUY"
                 PROVE  spent(t.fills, y.id) + claim(y) <= R2[y.id]
    BY DEF Funded
  <2>2. y \in PendingOrder /\ y.id \in ClientOrderIds
    BY <1>2, Lookup, OrderParts
  <2>3. CASE y.id # i.id
    <3>1. /\ spent(s.fills, y.id) + claim(y) <= R[y.id]
          /\ spent(t.fills, y.id) = spent(s.fills, y.id) /\ R2[y.id] = R[y.id]
      BY <1>4, <2>1, <2>2, <2>3 DEF Sane, Funded, Comes, Reserves
    <3> QED
      BY <3>1
  <2>4. CASE y.id = i.id
    <3>1. /\ spent(t.fills, i.id) + claim(y) <= spent(s.fills, i.id) + notional(i)
          /\ R2[i.id] = notional(i)
      BY <2>1, <2>4 DEF Comes, Reserves
    <3>2. PICK m \in Nat : m = notional(i) /\ 0 + m = m
      BY <1>1
    <3> QED
      BY <1>3, <2>4, <3>1, <3>2
  <2> QED
    BY <2>3, <2>4
<1>7. \A y \in Orders(t.pending) : y.id \in D \union {i.id} /\ Waits(y, A, J, P)
  <2>1. SUFFICES ASSUME NEW y \in Orders(t.pending)
                 PROVE  y.id \in D \union {i.id} /\ Waits(y, A, J, P)
    OBVIOUS
  <2>2. CASE y.id # i.id
    BY <1>4, <2>2 DEF Sane
  <2>3. CASE y.id = i.id
    BY <2>3 DEF Comes, Waits
  <2> QED
    BY <2>2, <2>3
<1>8. SameLiquidity(u, t) /\ t.book.known = u.book.known
  <2>1. SameLiquidity(u, s) /\ SameLiquidity(s, t) /\ t.book.known = u.book.known
    BY DEF Sane, Comes
  <2> QED
    BY <2>1 DEF SameLiquidity
<1>9. ASSUME Covered(s, R), i.order_type # "market"
      PROVE  Covered(t, R2)
  <2>1. \A y \in Orders(t.pending) : y.intent.order_type # "market"
    BY <1>4, <1>9 DEF Covered, Comes
  <2>2. ASSUME NEW c \in ClientOrderIds
        PROVE  spent(t.fills, c) <= R2[c]
    <3>1. PICK r \in Nat : r = R2[c] /\ 0 <= r
      OBVIOUS
    <3>2. CASE c # i.id \/ i.order_side = "SELL"
      <4>1. spent(t.fills, c) = 0
        BY <1>3, <3>2 DEF Comes
      <4> QED
        BY <3>1, <4>1
    <3>3. CASE c = i.id /\ i.order_side = "BUY"
      <4>1. spent(t.fills, i.id) <= spent(s.fills, i.id) + notional(i) /\ R2[i.id] = notional(i)
        BY <1>9, <3>3 DEF Comes, Reserves
      <4>2. PICK m \in Nat : m = notional(i) /\ 0 + m = m
        BY <1>1
      <4> QED
        BY <1>3, <3>3, <4>1, <4>2
    <3> QED
      BY <1>1, <3>2, <3>3
  <2> QED
    BY <2>1, <2>2 DEF Covered
<1> QED
  BY <1>1, <1>6, <1>7, <1>8, <1>9 DEF Sane

(* An order that is added to the simulator's orders.                       *)
LEMMA Added ==
    ASSUME NEW s \in Proper, NEW i \in OrderIntent(ClientOrderIds),
           NEW o \in PendingOrder, Tidy(o), o.id = i.id, o.intent = i, o.filled = 0
    PROVE  Comes(s, [s EXCEPT !.pending = put(@, o)], i)
<1>1. s \in Simulator /\ s.pending \in Ledger /\ s.fills \in Seq(Fill)
  BY Parts DEF Proper
<1>2. PICK q \in Ledger : /\ q = put(s.pending, o)
                          /\ Orders(q) = {x \in Orders(s.pending) : x.id # o.id} \union {o}
  BY <1>1, Put
<1>3. PICK t : t = [s EXCEPT !.pending = put(@, o)]
  OBVIOUS
<1>4. t \in Simulator /\ t.book = s.book /\ t.pending = q /\ t.fills = s.fills
  BY <1>1, <1>2, <1>3 DEF Simulator
<1>5. t \in Proper
  BY <1>2, <1>4 DEF Proper
<1>6. PICK a \in Nat, m \in Nat : a = spent(s.fills, i.id) /\ m = notional(i)
  BY <1>1, Spent, OrderType
<1>7. a <= a + m /\ a + m <= a + m
  BY <1>6
<1>8. claim(o) = m
  <2>1. PICK n \in Nat : n = i.quantity /\ n - 0 = n
    BY OrderType
  <2> QED
    BY <1>6, <2>1 DEF claim, notional
<1>9. \A y \in Orders(t.pending) : y.id = i.id => y = o
  BY <1>2, <1>4
<1>10. \A x : x.id # i.id => (x \in Orders(t.pending) <=> x \in Orders(s.pending))
  BY <1>2, <1>4
<1>11. \A y \in Orders(t.pending) : y.id = i.id =>
          /\ y.filled = 0
          /\ y.intent.order_type = i.order_type /\ y.intent.order_side = i.order_side
          /\ y.status \in Live /\ y.intent.order_side = "BUY" =>
                spent(t.fills, i.id) + claim(y) <= spent(s.fills, i.id) + notional(i)
  BY <1>4, <1>6, <1>7, <1>8, <1>9
<1>12. spent(t.fills, i.id) <= spent(s.fills, i.id) + notional(i)
  BY <1>4, <1>6, <1>7
<1>13. SameLiquidity(s, t)
  BY <1>4 DEF SameLiquidity
<1>14. \A c : c # i.id \/ i.order_side = "SELL" => spent(t.fills, c) = spent(s.fills, c)
  BY <1>4
<1>15. t.book.known = s.book.known
  BY <1>4
<1>16. Comes(s, t, i)
  BY <1>5, <1>10, <1>11, <1>12, <1>13, <1>14, <1>15 DEF Comes
<1> QED
  BY <1>3, <1>16

(* submit: the order goes out, or meets the book, or rests.                *)
LEMMA Submit ==
    ASSUME NEW s \in Simulator, NEW u, NEW D, NEW R \in [ClientOrderIds -> Nat], NEW A, NEW J,
           NEW P, Sane(fresh(s), u, D, R, A, J, P), A \subseteq D,
           NEW i \in OrderIntent(ClientOrderIds), i.id \notin D,
           NEW R2 \in [ClientOrderIds -> Nat], Reserves(R, R2, i), NEW time \in Int
    PROVE  LET t == submit(s, i, time)
           IN  /\ Sane(t, u, D \union {i.id}, R2, A, J, P)
               /\ Covered(fresh(s), R) /\ i.order_type # "market" => Covered(t, R2)
<1>1. PICK f : f = fresh(s)
  OBVIOUS
<1>2. /\ f.fills = <<>> /\ f.book = s.book /\ f \in Proper /\ f \in Simulator
      /\ f.pending \in Ledger /\ f.book \in OrderBook
  <2>1. f.fills = <<>> /\ f.book = s.book
    BY <1>1 DEF fresh, Simulator
  <2>2. f \in Proper
    BY <1>1 DEF Sane
  <2> QED
    BY <2>1, <2>2, Parts DEF Proper
<1>3. \A p \in Orders(f.pending) : p.id # i.id
  BY <1>1 DEF Sane
<1>4. PICK t : t = submit(s, i, time)
  OBVIOUS
<1>5. Comes(f, t, i)
  <2>1. CASE SubmitLatency > 0
    <3>1. PICK v \in Int, z \in Nat, st \in {"OPEN", "PARTIALLY_FILLED"} :
             v = time + SubmitLatency /\ z = 0 /\ st = "OPEN"
      <4>1. time + SubmitLatency \in Int
        BY LatencyAssumption
      <4> QED
        BY <4>1
    <3>2. PICK o : o = pending_order(i, time, v, z, st, FALSE)
      OBVIOUS
    <3>3. o \in PendingOrder /\ Tidy(o) /\ o.id = i.id /\ o.intent = i /\ o.filled = 0
      <4>1. o \in PendingOrder
        BY <3>2, NewInFlight
      <4>2. Tidy(o)
        BY <3>2, NewInFlight
      <4>3. o.id = i.id /\ o.intent = i /\ o.filled = 0
        BY <3>2 DEF pending_order
      <4> QED
        BY <4>1, <4>2, <4>3
    <3>4. t = [f EXCEPT !.pending = put(@, o)]
      BY <1>1, <1>4, <2>1, <3>1, <3>2 DEF submit
    <3>5. Comes(f, [f EXCEPT !.pending = put(@, o)], i)
      BY <1>2, <3>3, Added
    <3> QED
      BY <3>4, <3>5
  <2>2. CASE ~(SubmitLatency > 0) /\ is_marketable(i, s.book)
    <3>1. t = fill_marketable(f, i, time)
      BY <1>1, <1>4, <2>2 DEF submit
    <3>2. Places(f, t, i)
      BY <1>2, <1>3, <3>1, FillMarketable
    <3> QED
      BY <3>2 DEF Places, Comes
  <2>3. CASE ~(SubmitLatency > 0) /\ ~is_marketable(i, s.book)
    <3>1. PICK z \in Nat, st \in {"OPEN", "PARTIALLY_FILLED"} :
             z = queue_ahead(s.book, i) /\ st = "OPEN"
      BY <1>2, QueueType
    <3>2. PICK o : o = pending_order(i, time, time, z, st, TRUE)
      OBVIOUS
    <3>3. o \in PendingOrder /\ Tidy(o) /\ o.id = i.id /\ o.intent = i /\ o.filled = 0
      <4>1. o \in PendingOrder
        BY <3>2, NewResting
      <4>2. Tidy(o)
        BY <3>2, NewResting
      <4>3. o.id = i.id /\ o.intent = i /\ o.filled = 0
        BY <3>2 DEF pending_order
      <4> QED
        BY <4>1, <4>2, <4>3
    <3>4. t = [f EXCEPT !.pending = put(@, o)]
      BY <1>1, <1>4, <2>3, <3>1, <3>2 DEF submit
    <3>5. Comes(f, [f EXCEPT !.pending = put(@, o)], i)
      BY <1>2, <3>3, Added
    <3> QED
      BY <3>4, <3>5
  <2> QED
    BY <2>1, <2>2, <2>3
<1>6. Sane(f, u, D, R, A, J, P) /\ f.fills = <<>>
  BY <1>1, <1>2
<1>7. /\ Sane(t, u, D \union {i.id}, R2, A, J, P)
      /\ Covered(f, R) /\ i.order_type # "market" => Covered(t, R2)
  BY ONLY <1>5, <1>6, A \subseteq D, i \in OrderIntent(ClientOrderIds), i.id \notin D,
          R \in [ClientOrderIds -> Nat], R2 \in [ClientOrderIds -> Nat], Reserves(R, R2, i), NewOrder
<1> QED
  BY <1>1, <1>4, <1>7

(* cancel: the order is canceled, or its cancel goes out.                  *)
LEMMA Cancel ==
    ASSUME NEW s \in Simulator, NEW u, NEW D, NEW R, NEW A, NEW J, NEW P,
           Sane(fresh(s), u, D, R, A, J, P), NEW c, NEW time \in Int
    PROVE  LET t == cancel(s, c, time)
           IN  /\ Sane(t, u, D, R, A, J, P)
               /\ Covered(fresh(s), R) => Covered(t, R)
               /\ t.book = s.book /\ t.fills = <<>>
               /\ \A a : Within(s.pending, a) => Within(t.pending, a)
<1>1. PICK f : f = fresh(s)
  OBVIOUS
<1>2. /\ f.fills = <<>> /\ f.book = s.book /\ f.pending = s.pending
      /\ f \in Proper /\ f \in Simulator /\ f.pending \in Ledger
  <2>1. f.fills = <<>> /\ f.book = s.book /\ f.pending = s.pending
    BY <1>1 DEF fresh, Simulator
  <2>2. f \in Proper
    BY <1>1 DEF Sane
  <2> QED
    BY <2>1, <2>2, Parts DEF Proper
<1>3. PICK t : t = cancel(s, c, time)
  OBVIOUS
<1>4. CASE t = f
  BY <1>1, <1>2, <1>3, <1>4
<1>5. CASE t # f
  <2>1. /\ lookup(s.pending, c) # {}
        /\ \A k \in lookup(s.pending, c) : s.pending[k].status \in Live
        /\ t = [f EXCEPT !.pending = put(@, IF CancelLatency > 0
                    THEN [order_at(@, c) EXCEPT !.cancel_at = time + CancelLatency]
                    ELSE [order_at(@, c) EXCEPT !.status = "CANCELED"])]
    BY <1>1, <1>3, <1>5 DEF cancel
  <2>2. PICK p \in Orders(f.pending) : p = order_at(f.pending, c)
    BY <1>2, <2>1, Lookup
  <2>3. p \in PendingOrder
    BY <1>2, Lookup
  <2>4. p.status \in Live
    <3>1. PICK k \in DOMAIN f.pending : p = f.pending[k] /\ p.id = c
      BY <1>2, <2>1, <2>2, Lookup DEF Orders
    <3>2. k \in lookup(s.pending, c)
      BY <1>2, <3>1 DEF lookup
    <3> QED
      BY <1>2, <2>1, <3>1, <3>2
  <2>5. PICK at \in Int, st \in {"OPEN", "PARTIALLY_FILLED", "FILLED", "CANCELED"} :
           at = time + CancelLatency /\ st = "CANCELED"
    <3>1. time + CancelLatency \in Int
      BY LatencyAssumption
    <3> QED
      BY <3>1
  <2>6. PICK o : o = IF CancelLatency > 0 THEN [p EXCEPT !.cancel_at = at]
                                          ELSE [p EXCEPT !.status = st]
    OBVIOUS
  <2>7. /\ o \in PendingOrder /\ o.id = p.id /\ o.intent = p.intent /\ o.filled = p.filled
        /\ o.active = p.active /\ o.queue_ahead = p.queue_ahead
    <3>1. CASE CancelLatency > 0
      BY <2>3, <2>6, <3>1 DEF PendingOrder
    <3>2. CASE ~(CancelLatency > 0)
      BY <2>3, <2>6, <3>2 DEF PendingOrder
    <3> QED
      BY <3>1, <3>2
  <2>8. t = [f EXCEPT !.pending = put(@, o)]
    BY <1>2, <2>1, <2>2, <2>5, <2>6 DEF Simulator
  <2>9. PICK w : w = [f EXCEPT !.pending = put(@, o)]
    OBVIOUS
  <2>10. /\ Sane(w, u, D, R, A, J, P)
         /\ Covered(f, R) => Covered(w, R)
         /\ w.book = f.book /\ w.fills = f.fills
         /\ \A a : Within(f.pending, a) => Within(w.pending, a)
    <3>1. Sane(f, u, D, R, A, J, P)
      BY <1>1
    <3> QED
      BY <2>4, <2>7, <2>9, <3>1, Amend
  <2> QED
    BY <1>1, <1>2, <1>3, <2>8, <2>9, <2>10
<1> QED
  BY <1>4, <1>5

(* on_event for a lifecycle event: a market that closes cancels all.       *)
LEMMA OnLifecycle ==
    ASSUME NEW s \in Simulator, NEW u, NEW D, NEW R, NEW A, NEW J, NEW P,
           Sane(fresh(s), u, D, R, A, J, P), NEW kind \in Lifecycles
    PROVE  LET t == on_lifecycle(s, kind)
           IN  /\ Sane(t, u, D, R, A, J, P)
               /\ Covered(fresh(s), R) => Covered(t, R)
               /\ t.book = s.book /\ t.fills = <<>>
               /\ \A a : Within(s.pending, a) => Within(t.pending, a)
<1>1. PICK f : f = fresh(s)
  OBVIOUS
<1>2. /\ f.fills = <<>> /\ f.book = s.book /\ f.pending = s.pending
      /\ f \in Proper /\ f \in Simulator /\ f.pending \in Ledger
  <2>1. f.fills = <<>> /\ f.book = s.book /\ f.pending = s.pending
    BY <1>1 DEF fresh, Simulator
  <2>2. f \in Proper
    BY <1>1 DEF Sane
  <2> QED
    BY <2>1, <2>2, Parts DEF Proper
<1>3. PICK t : t = on_lifecycle(s, kind)
  OBVIOUS
<1>4. CASE kind = "metadata_updated"
  <2>1. t = f
    BY <1>1, <1>3, <1>4 DEF on_lifecycle
  <2> QED
    BY <1>1, <1>2, <1>3, <2>1
<1>5. CASE kind # "metadata_updated"
  <2>1. PICK q : q = IF kind \in {"closed", "determined", "finalized"}
                     THEN cancel_orders(f.pending, DOMAIN f.pending) ELSE f.pending
    OBVIOUS
  <2>2. /\ Cancels(f.pending, q)
        /\ \A a : Within(f.pending, a) => Within(q, a)
    <3>1. CASE q = f.pending
      BY <1>2, <3>1 DEF Cancels
    <3>2. CASE q = cancel_orders(f.pending, DOMAIN f.pending)
      <4>1. PICK K : K = DOMAIN f.pending
        OBVIOUS
      <4>2. Cancels(f.pending, q)
        BY <1>2, <3>2, <4>1, CancelOrders DEF Cancels
      <4>3. \A y \in Orders(q) : \E p \in Orders(f.pending) : y.id = p.id /\ y.active = p.active
        <5>1. SUFFICES ASSUME NEW y \in Orders(q)
                       PROVE  \E p \in Orders(f.pending) : y.id = p.id /\ y.active = p.active
          OBVIOUS
        <5>2. PICK p \in Orders(f.pending) : y = p \/ y = Canceled(p)
          BY <4>2 DEF Cancels
        <5>3. p \in PendingOrder
          BY <1>2, Lookup
        <5> QED
          BY <5>2, <5>3, CanceledOrder
      <4> QED
        BY <4>2, <4>3 DEF Within
    <3> QED
      BY <2>1, <3>1, <3>2
  <2>3. PICK st \in {"opened"} \union Lifecycles : st = kind
    OBVIOUS
  <2>4. t = [f EXCEPT !.status = st, !.pending = q]
    BY <1>1, <1>2, <1>3, <1>5, <2>1, <2>3 DEF on_lifecycle, Simulator
  <2>5. t \in Simulator /\ t.book = f.book /\ t.fills = f.fills /\ t.pending = q
    BY <1>2, <2>2, <2>4 DEF Simulator, Cancels
  <2>6. /\ Sane(t, u, D, R, A, J, P)
        /\ Covered(f, R) => Covered(t, R)
    <3>1. Sane(f, u, D, R, A, J, P) /\ Cancels(f.pending, t.pending)
      BY <1>1, <2>2, <2>5
    <3> QED
      BY <2>5, <3>1, CancelsSane
  <2> QED
    BY <1>1, <1>2, <1>3, <2>2, <2>5, <2>6
<1> QED
  BY <1>4, <1>5
=============================================================================
