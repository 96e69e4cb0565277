-------------------------- MODULE Backtest_proofs ---------------------------
(***************************************************************************)
(* Proofs about module Backtest, for every strategy, market and latency:   *)
(* the sleeve's cash and books agree, its reservations fund what can still *)
(* fill, and the paper simulator neither reuses liquidity nor jumps the    *)
(* queue.  First what one fill and a list of fills do to an account, then  *)
(* the inductive invariant, which joins the account and the simulator of   *)
(* PaperSimulator_proofs, and one lemma per action.                        *)
(***************************************************************************)
EXTENDS PaperSimulator_proofs

-----------------------------------------------------------------------------
(* Accounts and fills.                                                     *)

(* A sleeve account; nothing in it is negative but what may be.            *)
Account ==
    [total : Nat, available : Nat, held : Nat, reserved : [ClientOrderIds -> Nat],
     opened : SUBSET Outcomes, quantity : [Outcomes -> Nat], cost : [Outcomes -> Nat],
     mark : [Outcomes -> Int], realized : Int, net_pnl : [Days -> Int],
     unrealized : [Days -> Int], uncredited : Int, oversold : Int,
     cut_total : Int, cut_available : Int]

(* What the books say a position cost and earned, without settlements. *)
book_value(a) == a.realized - gross_exposure(a) + a.oversold

(* A closed position carries no cost. *)
NoFreeCost(a) == \A s \in Outcomes : a.quantity[s] = 0 => a.cost[s] = 0

(* Cutting at zero.                                                        *)
LEMMA Cut ==
    ASSUME NEW n \in Int
    PROVE  /\ Floor0(n) = IF n >= 0 THEN n ELSE 0
           /\ Floor0(n) \in Nat
<1>1. Max({n, 0}) = IF n >= 0 THEN n ELSE 0
  BY OfTwo
<1> QED
  BY <1>1 DEF Floor0

(* PnLTracker.on_fill: the books change by what the fill pays or brings,   *)
(* and a position that is closed has no cost left.                         *)
LEMMA TrackFill ==
    ASSUME NEW a \in Account, NEW f \in Fill, NEW d \in Int, NoFreeCost(a)
    PROVE  LET b == track_fill(a, f, d)
           IN  /\ b \in Account /\ NoFreeCost(b)
               /\ b.total = a.total /\ b.available = a.available /\ b.held = a.held
               /\ b.reserved = a.reserved /\ b.uncredited = a.uncredited
               /\ b.cut_total = a.cut_total /\ b.cut_available = a.cut_available
               /\ book_value(b) = book_value(a) + flow(f)
<1> DEFINE b == track_fill(a, f, d)
           s == f.side
           closed == Min({a.quantity[s], f.quantity})
           basis == IF closed = 0 THEN 0 ELSE (a.cost[s] * closed) \div a.quantity[s]
           pnl == IF f.order_side = "BUY" THEN -f.fee
                  ELSE f.price * closed - basis - f.fee
           np == [a.net_pnl EXCEPT ![d] = @ + pnl]
<1>1. /\ amount(f) \in Nat /\ f.fee \in Nat /\ f.quantity \in Nat /\ f.price \in Nat
      /\ s \in Outcomes /\ f.order_side \in {"BUY", "SELL"} /\ amount(f) = f.price * f.quantity
  BY AmountType DEF amount
<1>2. /\ a.quantity \in [Outcomes -> Nat] /\ a.cost \in [Outcomes -> Nat]
      /\ a.realized \in Int /\ a.oversold \in Int /\ a.net_pnl \in [Days -> Int]
      /\ a.opened \subseteq Outcomes
  BY DEF Account
<1>3. a.quantity[s] \in Nat /\ a.cost[s] \in Nat
  BY <1>1, <1>2
<1>4. /\ closed = IF a.quantity[s] <= f.quantity THEN a.quantity[s] ELSE f.quantity
      /\ closed \in 0 .. a.quantity[s] /\ closed \in 0 .. f.quantity /\ closed \in Nat
  <2>1. closed = IF a.quantity[s] <= f.quantity THEN a.quantity[s] ELSE f.quantity
    BY <1>1, <1>3, OfTwo
  <2> HIDE DEF closed
  <2> QED
    BY <1>1, <1>3, <2>1
<1> HIDE DEF closed
<1>5. basis \in 0 .. a.cost[s] /\ basis \in Nat /\ (closed = a.quantity[s] => basis = a.cost[s])
  <2>1. CASE closed = 0
    BY <1>2, <1>1, <1>3, <2>1 DEF NoFreeCost
  <2>2. CASE closed # 0
    <3>1. PICK c \in Nat, q \in Nat, k \in Nat : c = a.cost[s] /\ q = a.quantity[s] /\ k = closed
      BY <1>3, <1>4
    <3>2. q > 0 /\ k \in 0 .. q
      BY <1>4, <2>2, <3>1
    <3>3. (c * k) \div q \in 0 .. c /\ (c * q) \div q = c
      BY ONLY <3>1, <3>2, PartOf
    <3>4. basis = (c * k) \div q
      BY <2>2, <3>1
    <3> HIDE DEF basis
    <3> QED
      BY <3>1, <3>3, <3>4
  <2> QED
    BY <2>1, <2>2
<1> HIDE DEF basis
<1>6. /\ f.price * closed \in Nat /\ f.price * (f.quantity - closed) \in Nat
      /\ f.price * closed + f.price * (f.quantity - closed) = amount(f)
  <2>1. PICK p \in Nat, q \in Nat, k \in Nat : p = f.price /\ q = f.quantity /\ k = closed /\ k <= q
    BY <1>1, <1>4
  <2>2. p * k \in Nat /\ p * (q - k) \in Nat /\ p * k + p * (q - k) = p * q
    <3>1. q - k \in Nat
      BY <2>1
    <3> QED
      BY <3>1
  <2> QED
    BY <1>1, <2>1, <2>2
<1>7. pnl \in Int
  BY <1>1, <1>5, <1>6
<1> HIDE DEF pnl
<1>8. np \in [Days -> Int]
  <2>1. PICK u \in [Days -> Int], v \in Int : u = a.net_pnl /\ v = pnl
    BY <1>2, <1>7
  <2>2. \A x \in Days : u[x] + v \in Int
    BY <2>1
  <2>3. [u EXCEPT ![d] = @ + v] \in [Days -> Int]
    BY <2>1, <2>2
  <2> QED
    BY <2>1, <2>3
<1> HIDE DEF np
<1>9. CASE f.order_side = "BUY"
  <2>1. b = [a EXCEPT !.net_pnl = np, !.opened = @ \cup {s}, !.realized = @ + pnl,
                      !.quantity[s] = @ + f.quantity, !.cost[s] = @ + amount(f)]
    BY <1>1, <1>9 DEF track_fill, record_realized_pnl, np, pnl, closed, basis
  <2>2. /\ [a.quantity EXCEPT ![s] = @ + f.quantity] \in [Outcomes -> Nat]
        /\ [a.cost EXCEPT ![s] = @ + amount(f)] \in [Outcomes -> Nat]
    BY <1>1, <1>2
  <2> HIDE DEF s
  <2>3. /\ b.total = a.total /\ b.available = a.available /\ b.held = a.held
        /\ b.reserved = a.reserved /\ b.uncredited = a.uncredited
        /\ b.cut_total = a.cut_total /\ b.cut_available = a.cut_available
        /\ b.quantity = [a.quantity EXCEPT ![s] = @ + f.quantity]
        /\ b.cost = [a.cost EXCEPT ![s] = @ + amount(f)]
        /\ b.realized = a.realized + pnl /\ b.oversold = a.oversold
    BY <2>1 DEF Account
  <2>4. b \in Account
    <3>1. b = [a EXCEPT !.net_pnl = np, !.opened = a.opened \cup {s}, !.realized = a.realized + pnl,
                        !.quantity = [a.quantity EXCEPT ![s] = @ + f.quantity],
                        !.cost = [a.cost EXCEPT ![s] = @ + amount(f)]]
      BY <2>1 DEF Account
    <3>2. a.realized + pnl \in Int /\ a.opened \cup {s} \subseteq Outcomes
      BY <1>1, <1>2, <1>7
    <3> HIDE DEF b
    <3> QED
      BY <1>8, <2>2, <3>1, <3>2 DEF Account
  <2> HIDE DEF b
  <2>5. NoFreeCost(b)
    BY <1>1, <1>2, <1>3, <2>3 DEF NoFreeCost, amount
  <2>6. book_value(b) = book_value(a) + flow(f)
    <3>1. pnl = -f.fee /\ flow(f) = -(amount(f) + f.fee)
      BY <1>9 DEF pnl, flow
    <3>2. \/ s = "YES" /\ b.cost["YES"] = a.cost["YES"] + amount(f) /\ b.cost["NO"] = a.cost["NO"]
          \/ s = "NO" /\ b.cost["NO"] = a.cost["NO"] + amount(f) /\ b.cost["YES"] = a.cost["YES"]
      BY <1>1, <1>2, <2>3 DEF Outcomes
    <3>3. a.cost["YES"] \in Nat /\ a.cost["NO"] \in Nat
      BY <1>2 DEF Outcomes
    <3> QED
      BY <1>1, <1>2, <2>3, <3>1, <3>2, <3>3 DEF book_value, gross_exposure
  <2> QED
    BY <2>3, <2>4, <2>5, <2>6 DEF b
<1>10. CASE f.order_side = "SELL"
  <2> DEFINE over == f.price * (f.quantity - closed)
  <2>1. b = [a EXCEPT !.net_pnl = np, !.opened = @ \cup {s}, !.realized = @ + pnl,
                      !.quantity[s] = @ - closed, !.cost[s] = @ - basis, !.oversold = @ + over]
    BY <1>1, <1>10 DEF track_fill, record_realized_pnl, np, pnl, closed, basis
  <2>2. /\ [a.quantity EXCEPT ![s] = @ - closed] \in [Outcomes -> Nat]
        /\ [a.cost EXCEPT ![s] = @ - basis] \in [Outcomes -> Nat]
    <3>1. a.quantity[s] - closed \in Nat /\ a.cost[s] - basis \in Nat
      BY <1>3, <1>4, <1>5
    <3> QED
      BY <1>1, <1>2, <3>1
  <2>3. over \in Nat
    BY <1>6
  <2> HIDE DEF s, over
  <2>4. /\ b.total = a.total /\ b.available = a.available /\ b.held = a.held
        /\ b.reserved = a.reserved /\ b.uncredited = a.uncredited
        /\ b.cut_total = a.cut_total /\ b.cut_available = a.cut_available
        /\ b.quantity = [a.quantity EXCEPT ![s] = @ - closed]
        /\ b.cost = [a.cost EXCEPT ![s] = @ - basis]
        /\ b.realized = a.realized + pnl /\ b.oversold = a.oversold + over
    BY <2>1 DEF Account
  <2>5. b \in Account
    <3>1. b = [a EXCEPT !.net_pnl = np, !.opened = a.opened \cup {s}, !.realized = a.realized + pnl,
                        !.quantity = [a.quantity EXCEPT ![s] = @ - closed],
                        !.cost = [a.cost EXCEPT ![s] = @ - basis], !.oversold = a.oversold + over]
      BY <2>1 DEF Account
    <3>2. /\ a.realized + pnl \in Int /\ a.opened \cup {s} \subseteq Outcomes
          /\ a.oversold + over \in Int
      BY <1>1, <1>2, <1>7, <2>3
    <3> HIDE DEF b
    <3> QED
      BY <1>8, <2>2, <3>1, <3>2 DEF Account
  <2> HIDE DEF b
  <2>6. NoFreeCost(b)
    <3>1. b.quantity[s] = a.quantity[s] - closed /\ b.cost[s] = a.cost[s] - basis
      BY <1>1, <1>2, <2>4
    <3>2. b.quantity[s] = 0 => b.cost[s] = 0
      BY <1>3, <1>4, <1>5, <3>1
    <3>3. \A r \in Outcomes : r # s => b.quantity[r] = a.quantity[r] /\ b.cost[r] = a.cost[r]
      BY <1>2, <2>4
    <3> QED
      BY <3>2, <3>3 DEF NoFreeCost
  <2>7. book_value(b) = book_value(a) + flow(f)
    <3>1. pnl = f.price * closed - basis - f.fee /\ flow(f) = amount(f) - f.fee
      BY <1>10 DEF pnl, flow
    <3>2. \/ s = "YES" /\ b.cost["YES"] = a.cost["YES"] - basis /\ b.cost["NO"] = a.cost["NO"]
          \/ s = "NO" /\ b.cost["NO"] = a.cost["NO"] - basis /\ b.cost["YES"] = a.cost["YES"]
      BY <1>1, <1>2, <2>4 DEF Outcomes
    <3>3. a.cost["YES"] \in Nat /\ a.cost["NO"] \in Nat
      BY <1>2 DEF Outcomes
    <3>4. PICK x \in Nat, y \in Nat : x = f.price * closed /\ y = over /\ x + y = amount(f)
      BY <1>6, <2>3 DEF over
    <3>5. /\ b.realized = a.realized + (x - basis - f.fee) /\ flow(f) = x + y - f.fee
          /\ b.oversold = a.oversold + y
      <4>1. pnl = x - basis - f.fee
        BY <3>1, <3>4
      <4>2. b.realized = a.realized + (x - basis - f.fee)
        BY <2>4, <4>1
      <4>3. flow(f) = x + y - f.fee
        BY <1>1, <3>1, <3>4
      <4>4. b.oversold = a.oversold + y
        BY <2>4, <3>4
      <4> QED
        BY <4>2, <4>3, <4>4
    <3>6. b.cost["YES"] + b.cost["NO"] = a.cost["YES"] + a.cost["NO"] - basis
      BY <1>5, <3>2, <3>3
    <3>7. /\ book_value(a) = a.realized - (a.cost["YES"] + a.cost["NO"]) + a.oversold
          /\ book_value(b) = b.realized - (b.cost["YES"] + b.cost["NO"]) + b.oversold
      BY DEF book_value, gross_exposure
    <3>8. PICK z \in Int, rz \in Int, ov \in Int : /\ z = a.cost["YES"] + a.cost["NO"]
                                                /\ rz = a.realized /\ ov = a.oversold
      BY <1>2, <3>3
    <3>9. book_value(b) = (rz + (x - basis - f.fee)) - (z - basis) + (ov + y)
      <4>1. b.cost["YES"] + b.cost["NO"] = z - basis
        BY <1>5, <3>3, <3>6, <3>8
      <4>2. b.realized = rz + (x - basis - f.fee) /\ b.oversold = ov + y
        BY <3>5, <3>8
      <4> QED
        BY <3>7, <4>1, <4>2
    <3>10. book_value(a) = rz - z + ov
      BY <3>7, <3>8
    <3>11. f.fee \in Int /\ basis \in Int
      BY <1>1, <1>5
    <3> QED
      BY ONLY <3>4, <3>5, <3>8, <3>9, <3>10, <3>11
  <2> QED
    BY <2>4, <2>5, <2>6, <2>7 DEF b
<1> QED
  BY <1>1, <1>9, <1>10

(* What a fill takes of a reservation. *)
consumed(a, f) ==
    IF f.order_side = "BUY" THEN Min({a.reserved[f.id], amount(f)}) ELSE 0

(* CashMatchesBooks and CashPartition, of an account. *)
Matched(a) ==
    a.total - a.cut_total = StartingCash + book_value(a) - a.uncredited

Partitioned(a) ==
    /\ a.held = SumOver(a.reserved, ClientOrderIds)
    /\ a.available - a.cut_available + a.held = a.total - a.cut_total

(* _apply_fill_cash: total and available change by what the fill pays or   *)
(* brings, up to the cuts at zero, and the reservation by what it covered. *)
LEMMA ApplyFillCash ==
    ASSUME NEW a \in Account, NEW f \in Fill
    PROVE  LET b == apply_fill_cash(a, f)
               covered == IF consumed(a, f) > 0 THEN -f.fee ELSE flow(f)
           IN  /\ consumed(a, f) \in 0 .. a.reserved[f.id]
               /\ b \in Account
               /\ b.quantity = a.quantity /\ b.cost = a.cost /\ b.realized = a.realized
               /\ b.oversold = a.oversold /\ b.uncredited = a.uncredited
               /\ b.reserved = [a.reserved EXCEPT ![f.id] = @ - consumed(a, f)]
               /\ f.order_side = "BUY" => b.held = Floor0(a.held - consumed(a, f))
               /\ f.order_side # "BUY" => b.held = a.held
               /\ b.total - b.cut_total = a.total - a.cut_total + flow(f)
               /\ b.available - b.cut_available = a.available - a.cut_available + covered
<1> DEFINE b == apply_fill_cash(a, f)
           k == consumed(a, f)
           covered == IF k > 0 THEN -f.fee ELSE flow(f)
           r == [a.reserved EXCEPT ![f.id] = @ - k]
           h == IF f.order_side = "BUY" THEN Floor0(a.held - k) ELSE a.held
           tt == a.total + flow(f)
           av == a.available + covered
<1>1. /\ amount(f) \in Nat /\ flow(f) \in Int /\ f.fee \in Nat /\ f.id \in ClientOrderIds
      /\ f.order_side \in {"BUY", "SELL"}
  BY AmountType
<1>2. /\ a.reserved \in [ClientOrderIds -> Nat] /\ a.total \in Nat /\ a.available \in Nat
      /\ a.held \in Nat /\ a.cut_total \in Int /\ a.cut_available \in Int
      /\ a.reserved[f.id] \in Nat
  BY <1>1 DEF Account
<1>3. k \in 0 .. a.reserved[f.id] /\ k \in Nat
  <2>1. Min({a.reserved[f.id], amount(f)})
           = IF a.reserved[f.id] <= amount(f) THEN a.reserved[f.id] ELSE amount(f)
    BY <1>1, <1>2, OfTwo
  <2> QED
    BY <1>1, <1>2, <2>1 DEF consumed
<1>4. b = [a EXCEPT !.reserved = r, !.held = h, !.total = Floor0(tt), !.available = Floor0(av),
                    !.cut_total = @ + Floor0(-tt), !.cut_available = @ + Floor0(-av)]
  <2>1. CASE f.order_side = "BUY"
    <3>1. k = Min({a.reserved[f.id], f.price * f.quantity}) /\ flow(f) = -(f.price * f.quantity + f.fee)
      BY <2>1 DEF consumed, flow, amount
    <3>2. h = Floor0(a.held - k)
      BY <2>1
    <3>3. consume_reservation(a, f.id, f.price * f.quantity)
            = [a EXCEPT !.reserved = r, !.held = Floor0(a.held - k)]
      <4>1. consume_reservation(a, f.id, f.price * f.quantity)
               = [a EXCEPT !.reserved[f.id] = @ - k, !.held = Floor0(@ - k)]
        BY <3>1 DEF consume_reservation
      <4> QED
        BY <4>1 DEF Account
    <3> HIDE DEF k, h, r
    <3> DEFINE e == consume_reservation(a, f.id, f.price * f.quantity)
    <3>4. /\ e.total = a.total /\ e.available = a.available /\ e.cut_total = a.cut_total
          /\ e.cut_available = a.cut_available
      BY <3>3 DEF Account
    <3>5. b = [e EXCEPT !.total = Floor0(@ + flow(f)), !.available = Floor0(@ + covered),
                        !.cut_total = @ + Floor0(-(e.total + flow(f))),
                        !.cut_available = @ + Floor0(-(e.available + covered))]
      BY <2>1, <3>1 DEF apply_fill_cash
    <3>6. b = [e EXCEPT !.total = Floor0(tt), !.available = Floor0(av),
                        !.cut_total = @ + Floor0(-tt), !.cut_available = @ + Floor0(-av)]
      BY <3>4, <3>5
    <3> HIDE DEF b, tt, av
    <3> QED
      BY <3>2, <3>3, <3>6 DEF Account
  <2>2. CASE f.order_side = "SELL"
    <3>1. k = 0 /\ flow(f) = f.price * f.quantity - f.fee /\ covered = flow(f) /\ h = a.held
      BY <2>2 DEF consumed, flow, amount
    <3>2. r = a.reserved
      BY <1>1, <1>2, <3>1
    <3> HIDE DEF k, h, r, covered
    <3>3. b = [a EXCEPT !.total = Floor0(@ + flow(f)), !.available = Floor0(@ + flow(f)),
                        !.cut_total = @ + Floor0(-(a.total + flow(f))),
                        !.cut_available = @ + Floor0(-(a.available + flow(f)))]
      BY <2>2, <3>1 DEF apply_fill_cash
    <3> HIDE DEF b
    <3> QED
      BY <3>1, <3>2, <3>3 DEF Account
  <2> QED
    BY <1>1, <2>1, <2>2
<1>5. covered \in Int
  BY <1>1, <1>3
<1>6. tt \in Int /\ av \in Int
  BY <1>1, <1>2, <1>5
<1>7. /\ Floor0(tt) \in Nat /\ Floor0(-tt) \in Nat /\ Floor0(tt) - Floor0(-tt) = tt
      /\ Floor0(av) \in Nat /\ Floor0(-av) \in Nat /\ Floor0(av) - Floor0(-av) = av
  <2> HIDE DEF tt, av
  <2>1. \A n \in Int : Floor0(n) = IF n >= 0 THEN n ELSE 0
    BY Cut
  <2>2. -tt \in Int /\ -av \in Int
    BY <1>6
  <2> QED
    BY <1>6, <2>1, <2>2
<1>8. h \in Nat
  <2>1. a.held - k \in Int
    BY <1>2, <1>3
  <2> HIDE DEF k
  <2> QED
    BY <1>2, <2>1, Cut
<1>9. r \in [ClientOrderIds -> Nat]
  <2>1. a.reserved[f.id] - k \in Nat
    BY <1>2, <1>3
  <2> HIDE DEF k
  <2> QED
    BY <1>1, <1>2, <2>1
<1>10. a.cut_total + Floor0(-tt) \in Int /\ a.cut_available + Floor0(-av) \in Int
  BY <1>2, <1>7
<1> HIDE DEF b, r, h, tt, av, k
<1>11. b = [a EXCEPT !.reserved = r, !.held = h, !.total = Floor0(tt), !.available = Floor0(av),
                     !.cut_total = a.cut_total + Floor0(-tt),
                     !.cut_available = a.cut_available + Floor0(-av)]
  BY <1>4
<1>12. b \in Account
  BY <1>7, <1>8, <1>9, <1>10, <1>11 DEF Account
<1>13. /\ b.quantity = a.quantity /\ b.cost = a.cost /\ b.realized = a.realized
       /\ b.oversold = a.oversold /\ b.uncredited = a.uncredited
       /\ b.reserved = r /\ b.held = h /\ b.total = Floor0(tt) /\ b.available = Floor0(av)
       /\ b.cut_total = a.cut_total + Floor0(-tt)
       /\ b.cut_available = a.cut_available + Floor0(-av)
  BY <1>11 DEF Account
<1>14. b.total - b.cut_total = a.total - a.cut_total + flow(f)
  <2>1. Floor0(tt) - Floor0(-tt) = a.total + flow(f)
    BY <1>7 DEF tt
  <2> QED
    BY <1>1, <1>2, <1>7, <1>13, <2>1
<1>15. b.available - b.cut_available = a.available - a.cut_available + covered
  <2>1. Floor0(av) - Floor0(-av) = a.available + covered
    BY <1>7 DEF av
  <2> HIDE DEF covered
  <2> QED
    BY <1>2, <1>5, <1>7, <1>13, <2>1
<1> QED
  BY <1>1, <1>3, <1>12, <1>13, <1>14, <1>15 DEF b, k, r, h

(* One fill: cash and books stay in step, the reservation of its order     *)
(* pays what it can, and the split of the balance holds if the reservation *)
(* of a buy covers it.                                                     *)
LEMMA OnFill ==
    ASSUME NEW a \in Account, NEW f \in Fill, NEW d \in Int, NoFreeCost(a)
    PROVE  LET b == on_fill(a, f, d)
           IN  /\ b \in Account /\ NoFreeCost(b)
               /\ Matched(a) => Matched(b)
               /\ consumed(a, f) \in 0 .. a.reserved[f.id]
               /\ b.reserved = [a.reserved EXCEPT ![f.id] = @ - consumed(a, f)]
               /\ Partitioned(a) /\ (f.order_side = "BUY" => amount(f) <= a.reserved[f.id])
                     => Partitioned(b)
<1> DEFINE m == track_fill(a, f, d)
           b == apply_fill_cash(m, f)
<1>1. /\ m \in Account /\ NoFreeCost(m)
      /\ m.total = a.total /\ m.available = a.available /\ m.held = a.held
      /\ m.reserved = a.reserved /\ m.uncredited = a.uncredited
      /\ m.cut_total = a.cut_total /\ m.cut_available = a.cut_available
      /\ book_value(m) = book_value(a) + flow(f)
  BY TrackFill
<1>2. consumed(m, f) = consumed(a, f)
  BY <1>1 DEF consumed
<1> HIDE DEF m
<1> DEFINE k == consumed(a, f)
           covered == IF k > 0 THEN -f.fee ELSE flow(f)
<1>3. /\ k \in 0 .. a.reserved[f.id]
      /\ b \in Account
      /\ b.quantity = m.quantity /\ b.cost = m.cost /\ b.realized = m.realized
      /\ b.oversold = m.oversold /\ b.uncredited = m.uncredited
      /\ b.reserved = [a.reserved EXCEPT ![f.id] = @ - k]
      /\ f.order_side = "BUY" => b.held = Floor0(a.held - k)
      /\ f.order_side # "BUY" => b.held = a.held
      /\ b.total - b.cut_total = m.total - m.cut_total + flow(f)
      /\ b.available - b.cut_available = m.available - m.cut_available + covered
  BY <1>1, <1>2, ApplyFillCash
<1>4. on_fill(a, f, d) = b
  BY DEF on_fill, m
<1> HIDE DEF b
<1>5. /\ amount(f) \in Nat /\ flow(f) \in Int /\ f.fee \in Nat /\ f.id \in ClientOrderIds
      /\ f.order_side \in {"BUY", "SELL"}
  BY AmountType
<1>6. /\ a.reserved \in [ClientOrderIds -> Nat] /\ a.held \in Nat /\ a.reserved[f.id] \in Nat
      /\ a.total \in Nat /\ a.cut_total \in Int /\ a.available \in Nat /\ a.cut_available \in Int
      /\ a.realized \in Int /\ a.oversold \in Int /\ a.uncredited \in Int
      /\ a.cost["YES"] \in Nat /\ a.cost["NO"] \in Nat
  BY <1>5 DEF Account, Outcomes
<1>7. NoFreeCost(b)
  BY <1>1, <1>3 DEF NoFreeCost
<1>8. ASSUME Matched(a)
      PROVE  Matched(b)
  <2>1. book_value(b) = book_value(a) + flow(f)
    BY <1>1, <1>3 DEF book_value, gross_exposure
  <2>2. book_value(a) \in Int
    BY <1>6 DEF book_value, gross_exposure
  <2>3. /\ b.total - b.cut_total = a.total - a.cut_total + flow(f)
        /\ a.total - a.cut_total = StartingCash + book_value(a) - a.uncredited
        /\ b.uncredited = a.uncredited /\ StartingCash \in Int
    BY <1>1, <1>3, <1>8, AccountAssumption DEF Matched
  <2> QED
    BY <1>5, <1>6, <2>1, <2>2, <2>3 DEF Matched
<1>9. ASSUME Partitioned(a), f.order_side = "BUY" => amount(f) <= a.reserved[f.id]
      PROVE  Partitioned(b)
  <2>1. PICK R : R = SumOver(a.reserved, ClientOrderIds)
    OBVIOUS
  <2>2. SumOver(b.reserved, ClientOrderIds) = R - k
    <3>1. PICK g, z, v : /\ g = a.reserved /\ z = f.id /\ v = a.reserved[f.id] - k
                         /\ v \in Int
      BY <1>3, <1>6
    <3>2. /\ z \in ClientOrderIds /\ ClientOrderIds \subseteq DOMAIN g
          /\ \A x \in ClientOrderIds : g[x] \in Int
      BY <1>5, <1>6, <3>1
    <3>3. IsFiniteSet(ClientOrderIds)
      BY BacktestAssumption
    <3>4. SumOver([g EXCEPT ![z] = v], ClientOrderIds) = SumOver(g, ClientOrderIds) - g[z] + v
      BY ONLY <3>1, <3>2, <3>3, SumUpdated
    <3>5. b.reserved = [g EXCEPT ![z] = v]
      BY <1>3, <3>1
    <3>6. SumOver(g, ClientOrderIds) \in Int
      BY <3>2, <3>3, SumType
    <3> QED
      BY <1>3, <1>6, <2>1, <3>1, <3>4, <3>5, <3>6
  <2>3. a.held = R /\ R \in Nat
    BY <1>6, <1>9, <2>1 DEF Partitioned
  <2>4. k <= R
    <3>1. IsFiniteSet(ClientOrderIds) /\ \A x \in ClientOrderIds : a.reserved[x] \in Nat
      BY <1>6, BacktestAssumption
    <3>2. PICK g, z : g = a.reserved /\ z = f.id
      OBVIOUS
    <3>3. IsFiniteSet(ClientOrderIds \ {z}) /\ \A x \in ClientOrderIds \ {z} : g[x] \in Nat
      BY <3>1, <3>2, FS_Subset
    <3>4. SumOver(g, ClientOrderIds \ {z}) \in Nat
      BY <3>3, SumNat
    <3>5. SumOver(g, ClientOrderIds) = g[z] + SumOver(g, ClientOrderIds \ {z})
      <4>1. z \in ClientOrderIds /\ \A x \in ClientOrderIds : g[x] \in Int
        BY <1>5, <3>1, <3>2
      <4> QED
        BY ONLY <3>1, <4>1, SumSplit
    <3> QED
      BY <1>3, <1>6, <2>1, <3>2, <3>4, <3>5
  <2>5. b.held = R - k
    <3>1. a.held - k \in Int /\ a.held - k >= 0 /\ k \in Nat
      BY <1>3, <1>6, <2>3, <2>4
    <3>2. Floor0(a.held - k) = a.held - k
      BY <3>1, Cut
    <3>3. f.order_side = "SELL" => k = 0
      BY DEF consumed
    <3> HIDE DEF k
    <3> QED
      BY <1>3, <1>5, <1>6, <2>3, <3>1, <3>2, <3>3
  <2>6. covered - k = flow(f)
    <3>1. CASE f.order_side = "BUY"
      <4>1. k = amount(f)
        <5>1. Min({a.reserved[f.id], amount(f)})
                 = IF a.reserved[f.id] <= amount(f) THEN a.reserved[f.id] ELSE amount(f)
          BY <1>5, <1>6, OfTwo
        <5> QED
          BY <1>5, <1>6, <1>9, <3>1, <5>1 DEF consumed
      <4>2. flow(f) = -(amount(f) + f.fee)
        BY <3>1 DEF flow
      <4> HIDE DEF k
      <4> QED
        BY <1>5, <4>1, <4>2
    <3>2. CASE f.order_side = "SELL"
      <4>1. k = 0
        BY <3>2 DEF consumed
      <4> HIDE DEF k
      <4> QED
        BY <1>5, <4>1
    <3> QED
      BY <1>5, <3>1, <3>2
  <2>7. /\ b.total - b.cut_total = a.total - a.cut_total + flow(f)
        /\ b.available - b.cut_available = a.available - a.cut_available + covered
        /\ a.available - a.cut_available + a.held = a.total - a.cut_total
    BY <1>1, <1>3, <1>9 DEF Partitioned
  <2>8. k \in Int /\ covered \in Int
    BY <1>3, <1>5, <1>6
  <2> HIDE DEF k, covered
  <2>9. b.available - b.cut_available + b.held = b.total - b.cut_total
    BY <1>5, <1>6, <2>3, <2>5, <2>6, <2>7, <2>8
  <2> QED
    BY <2>2, <2>5, <2>9 DEF Partitioned
<1> HIDE DEF k, covered
<1> QED
  BY <1>3, <1>4, <1>7, <1>8, <1>9 DEF k

-----------------------------------------------------------------------------
(* Lists of fills.                                                         *)

(* The accounts of which that is so. *)
Sound == {a \in Account : NoFreeCost(a)}

(* The context hears of the fills one after the other.                     *)
LEMMA FillsRun ==
    ASSUME NEW a \in Sound, NEW fills \in Seq(Fill), NEW n \in Nat, DOMAIN fills = 1 .. n
    PROVE  \E v : /\ v[0] = a /\ on_fills(a, fills) = v[n]
                  /\ \A k \in 0 .. n : v[k] \in Sound
                  /\ \A k \in 1 .. n :
                        v[k] = on_fill(v[k - 1], fills[k], day(fills[k].filled_at))
<1>1. \A k \in 1 .. n : fills[k] \in Fill
  OBVIOUS
<1>2. \A k \in 1 .. n : \A b \in Sound : on_fill(b, fills[k], day(fills[k].filled_at)) \in Sound
  <2>1. SUFFICES ASSUME NEW k \in 1 .. n, NEW b \in Sound
                 PROVE  on_fill(b, fills[k], day(fills[k].filled_at)) \in Sound
    OBVIOUS
  <2>2. day(fills[k].filled_at) \in Int
    BY <1>1, BacktestAssumption DEF Fill, day
  <2>3. b \in Account /\ NoFreeCost(b)
    BY DEF Sound
  <2> QED
    BY <1>1, <2>2, <2>3, OnFill DEF Sound
<1> DEFINE step == [k \in 1 .. n |-> [b \in Sound |-> on_fill(b, fills[k], day(fills[k].filled_at))]]
<1>3. \A k \in 1 .. n : step[k] \in [Sound -> Sound]
  BY <1>2
<1>4. PICK g : Steps(g, step, a, n, Sound)
  <2>1. Closed(step, n, Sound)
    BY <1>3 DEF Closed
  <2> HIDE DEF step
  <2> QED
    BY <2>1, FoldRuns
<1>5. \A s \in SUBSET (1 .. n) : s # {} => Max(s) \in 1 .. n
  BY LastPosition
<1>6. \A k \in 1 .. n : \A b \in Sound : step[k][b] = on_fill(b, fills[k], day(fills[k].filled_at))
  OBVIOUS
<1> HIDE DEF step
<1>7. \A s \in SUBSET (1 .. n) : s # {} =>
         g[s] = on_fill(g[s \ {Max(s)}], fills[Max(s)], day(fills[Max(s)].filled_at))
  BY <1>4, <1>5, <1>6 DEF Steps
<1> DEFINE Runs(h) == h = [s \in SUBSET DOMAIN fills |->
                              IF s = {} THEN a
                              ELSE on_fill(h[s \ {Max(s)}], fills[Max(s)], day(fills[Max(s)].filled_at))]
           h == CHOOSE h : Runs(h)
<1>8. Runs(g)
  <2> DEFINE G == [s \in SUBSET DOMAIN fills |->
                     IF s = {} THEN a
                     ELSE on_fill(g[s \ {Max(s)}], fills[Max(s)], day(fills[Max(s)].filled_at))]
  <2>1. DOMAIN G = SUBSET (1 .. n) /\ G = [s \in DOMAIN G |-> G[s]]
    OBVIOUS
  <2>2. \A s \in SUBSET (1 .. n) : G[s] = g[s]
    <3>1. \A s \in SUBSET (1 .. n) : G[s] = IF s = {} THEN a
                     ELSE on_fill(g[s \ {Max(s)}], fills[Max(s)], day(fills[Max(s)].filled_at))
      OBVIOUS
    <3> HIDE DEF G
    <3> QED
      BY <1>4, <1>7, <3>1 DEF Steps
  <2>3. DOMAIN g = SUBSET (1 .. n) /\ g = [s \in DOMAIN g |-> g[s]]
    BY <1>4 DEF Steps
  <2>4. g = G
    <3> HIDE DEF G
    <3> QED
      BY <2>1, <2>2, <2>3
  <2> QED
    BY <2>4
<1>9. on_fills(a, fills) = h[DOMAIN fills]
  BY DEF on_fills, FoldLeft, MapThenFoldSet
<1>10. Runs(h)
  BY <1>8
<1>11. /\ h[{}] = a
       /\ \A s \in SUBSET (1 .. n) : s # {} =>
            h[s] = on_fill(h[s \ {Max(s)}], fills[Max(s)], day(fills[Max(s)].filled_at))
  <2> HIDE DEF h
  <2>1. {} \in SUBSET DOMAIN fills
    OBVIOUS
  <2> QED
    BY <1>10, <2>1
<1> HIDE DEF h, Runs
<1> DEFINE v == [k \in 0 .. n |-> h[1 .. k]]
<1>12. v[0] = a
  <2>1. 1 .. 0 = {} /\ 0 \in 0 .. n
    OBVIOUS
  <2> QED
    BY <1>11, <2>1
<1>13. \A k \in 1 .. n : v[k] = on_fill(v[k - 1], fills[k], day(fills[k].filled_at))
  <2>1. SUFFICES ASSUME NEW k \in 1 .. n
                 PROVE  v[k] = on_fill(v[k - 1], fills[k], day(fills[k].filled_at))
    OBVIOUS
  <2>2. v[k] = h[1 .. k] /\ v[k - 1] = h[1 .. (k - 1)]
    OBVIOUS
  <2>3. /\ 1 .. k \in SUBSET (1 .. n) /\ 1 .. k # {}
        /\ Max(1 .. k) = k /\ (1 .. k) \ {Max(1 .. k)} = 1 .. (k - 1)
    BY LastOfPrefix
  <2>4. h[1 .. k] = on_fill(h[(1 .. k) \ {Max(1 .. k)}], fills[Max(1 .. k)],
                            day(fills[Max(1 .. k)].filled_at))
    BY <1>11, <2>3
  <2> HIDE DEF v
  <2> QED
    BY <2>2, <2>3, <2>4
<1>14. v[n] = on_fills(a, fills)
  BY <1>9
<1> HIDE DEF v
<1>15. \A k \in 0 .. n : v[k] \in Sound
  <2> DEFINE P == {k \in 0 .. n : v[k] \in Sound}
  <2>1. 0 \in P
    BY <1>12
  <2>2. \A k \in 1 .. n : k - 1 \in P => k \in P
    BY <1>2, <1>13
  <2>3. \A k \in 0 .. n : k \in P
    <3> HIDE DEF P
    <3> QED
      BY <2>1, <2>2, Upto
  <2> QED
    BY <2>3
<1> QED
  BY <1>12, <1>13, <1>14, <1>15

(* What a list of fills does to the account: cash and books stay in step;  *)
(* where the reservation of an order covers its fills it pays for them,    *)
(* and where that is so for all orders the balance stays split.            *)
LEMMA OnFills ==
    ASSUME NEW a \in Sound, NEW fills \in Seq(Fill)
    PROVE  LET b == on_fills(a, fills)
           IN  /\ b \in Sound
               /\ Matched(a) => Matched(b)
               /\ \A c \in ClientOrderIds :
                     /\ b.reserved[c] <= a.reserved[c]
                     /\ spent(fills, c) <= a.reserved[c] =>
                           b.reserved[c] = a.reserved[c] - spent(fills, c)
               /\ /\ Partitioned(a)
                  /\ \A c \in ClientOrderIds : spent(fills, c) <= a.reserved[c]
                  => Partitioned(b)
<1>1. PICK n \in Nat : DOMAIN fills = 1 .. n
  <2>1. DOMAIN fills = 1 .. Len(fills) /\ Len(fills) \in Nat
    OBVIOUS
  <2> QED
    BY <2>1
<1>2. PICK v : /\ v[0] = a /\ on_fills(a, fills) = v[n]
               /\ \A k \in 0 .. n : v[k] \in Sound
               /\ \A k \in 1 .. n :
                     v[k] = on_fill(v[k - 1], fills[k], day(fills[k].filled_at))
  BY <1>1, FillsRun
<1> DEFINE w(c) == [k \in DOMAIN fills |-> payment(fills[k], c)]
<1>3. PICK sp : sp = [c \in ClientOrderIds |-> [k \in 0 .. n |-> SumOver(w(c), 1 .. k)]]
  OBVIOUS
<1>4. \A k \in 1 .. n : fills[k] \in Fill
  BY <1>1
<1>5. ASSUME NEW c \in ClientOrderIds
      PROVE  /\ sp[c][0] = 0 /\ sp[c][n] = spent(fills, c)
             /\ \A k \in 0 .. n : sp[c][k] \in Nat /\ sp[c][k] <= sp[c][n]
             /\ \A k \in 1 .. n : sp[c][k] = sp[c][k - 1] + payment(fills[k], c)
  <2>1. \A k \in 1 .. n : w(c)[k] = payment(fills[k], c) /\ w(c)[k] \in Nat
    BY <1>1, <1>4, PaymentType
  <2>2. spent(fills, c) = SumOver(w(c), 1 .. n)
    BY <1>1 DEF spent
  <2> HIDE DEF w
  <2>3. \A k \in 0 .. n : sp[c][k] = SumOver(w(c), 1 .. k)
    BY <1>3
  <2>4. IsFiniteSet(1 .. n)
    BY UpTo
  <2>5. ASSUME NEW k \in 0 .. n
        PROVE  sp[c][k] \in Nat /\ sp[c][k] <= sp[c][n]
    <3>1. 1 .. k \subseteq 1 .. n /\ n \in 0 .. n
      OBVIOUS
    <3>2. PICK S, T : S = 1 .. n /\ T = 1 .. k
      OBVIOUS
    <3>3. IsFiniteSet(S) /\ T \subseteq S /\ \A x \in S : w(c)[x] \in Nat
      BY <2>1, <2>4, <3>1, <3>2
    <3>4. SumOver(w(c), T) \in Nat /\ SumOver(w(c), T) <= SumOver(w(c), S)
      BY ONLY <3>3, SumOfPart
    <3> QED
      BY <2>3, <3>1, <3>2, <3>4
  <2>6. ASSUME NEW k \in 1 .. n
        PROVE  sp[c][k] = sp[c][k - 1] + payment(fills[k], c)
    <3>1. PICK j \in Nat : j = k - 1 /\ j + 1 = k
      <4>1. k - 1 \in Nat /\ (k - 1) + 1 = k
        OBVIOUS
      <4> QED
        BY <4>1
    <3>2. PICK W : W = w(c)
      OBVIOUS
    <3>3. \A x \in 1 .. (j + 1) : W[x] \in Int
      BY <2>1, <3>1, <3>2
    <3>4. SumOver(W, 1 .. (j + 1)) = SumOver(W, 1 .. j) + W[j + 1]
      BY ONLY <3>1, <3>3, SumNext
    <3>5. j \in 0 .. n /\ k \in 0 .. n
      BY <3>1
    <3> QED
      BY <2>1, <2>3, <3>1, <3>2, <3>4, <3>5
  <2>7. sp[c][0] = 0
    <3>1. 1 .. 0 = {} /\ 0 \in 0 .. n
      OBVIOUS
    <3> QED
      BY <2>3, <3>1, SumEmpty
  <2>8. n \in 0 .. n
    OBVIOUS
  <2> QED
    BY <2>2, <2>3, <2>5, <2>6, <2>7, <2>8
<1> HIDE DEF w
<1>6. ASSUME NEW k \in 1 .. n
      PROVE  /\ k - 1 \in 0 .. n /\ v[k - 1] \in Account /\ NoFreeCost(v[k - 1])
             /\ fills[k] \in Fill /\ fills[k].id \in ClientOrderIds
             /\ consumed(v[k - 1], fills[k]) \in 0 .. v[k - 1].reserved[fills[k].id]
             /\ v[k].reserved = [v[k - 1].reserved EXCEPT ![fills[k].id] = @ - consumed(v[k - 1], fills[k])]
             /\ Matched(v[k - 1]) => Matched(v[k])
             /\ /\ Partitioned(v[k - 1])
                /\ fills[k].order_side = "BUY" => amount(fills[k]) <= v[k - 1].reserved[fills[k].id]
                => Partitioned(v[k])
  <2>1. k - 1 \in 0 .. n
    OBVIOUS
  <2>2. v[k - 1] \in Account /\ NoFreeCost(v[k - 1])
    BY <1>2, <2>1 DEF Sound
  <2>3. fills[k] \in Fill /\ fills[k].id \in ClientOrderIds /\ day(fills[k].filled_at) \in Int
    BY <1>4, BacktestAssumption DEF Fill, day
  <2>4. PICK u \in Account, f \in Fill, d \in Int : u = v[k - 1] /\ f = fills[k] /\ d = day(f.filled_at)
    BY <2>2, <2>3
  <2>5. v[k] = on_fill(u, f, d) /\ NoFreeCost(u)
    BY <1>2, <2>2, <2>4
  <2>6. PICK b : b = on_fill(u, f, d)
    OBVIOUS
  <2>7. /\ consumed(u, f) \in 0 .. u.reserved[f.id]
        /\ b.reserved = [u.reserved EXCEPT ![f.id] = @ - consumed(u, f)]
        /\ Matched(u) => Matched(b)
        /\ /\ Partitioned(u)
           /\ f.order_side = "BUY" => amount(f) <= u.reserved[f.id]
           => Partitioned(b)
    BY <2>5, <2>6, OnFill
  <2> QED
    BY <2>1, <2>2, <2>3, <2>4, <2>5, <2>6, <2>7
<1> DEFINE Held(k) == \A c \in ClientOrderIds :
                         /\ v[k].reserved[c] <= a.reserved[c]
                         /\ sp[c][k] <= a.reserved[c] => v[k].reserved[c] = a.reserved[c] - sp[c][k]
           P == {k \in 0 .. n : Held(k)}
<1>13. n \in 0 .. n /\ 0 \in 0 .. n
  OBVIOUS
<1>7. \A k \in 0 .. n : \A c \in ClientOrderIds : v[k].reserved[c] \in Nat
  BY <1>2 DEF Sound, Account
<1>8. 0 \in P
  <2>1. \A c \in ClientOrderIds : v[0].reserved[c] \in Nat /\ sp[c][0] = 0
    BY <1>5, <1>7
  <2> QED
    BY <1>2, <2>1
<1>9. ASSUME NEW k \in 1 .. n, k - 1 \in P
      PROVE  k \in P
  <2>1. Held(k - 1) /\ k \in 0 .. n /\ k - 1 \in 0 .. n
    BY <1>9
  <2>2. ASSUME NEW c \in ClientOrderIds
        PROVE  /\ v[k].reserved[c] <= a.reserved[c]
               /\ sp[c][k] <= a.reserved[c] => v[k].reserved[c] = a.reserved[c] - sp[c][k]
    <3>0. PICK f \in Fill : f = fills[k]
      BY <1>4
    <3>10. PICK q : q = consumed(v[k - 1], f)
      OBVIOUS
    <3>1. f = fills[k] /\ q = consumed(v[k - 1], f)
      BY <3>0, <3>10
    <3>2. PICK x \in Nat, y \in Nat, z \in Nat, u \in Nat, p \in Nat :
             /\ x = v[k - 1].reserved[c] /\ y = a.reserved[c] /\ z = sp[c][k - 1]
             /\ u = sp[c][k] /\ p = payment(f, c) /\ u = z + p
      <4>1. v[k - 1].reserved[c] \in Nat /\ a.reserved[c] \in Nat
        BY <1>2, <1>7, <2>1, <1>13
      <4>2. /\ sp[c][k - 1] \in Nat /\ sp[c][k] \in Nat
            /\ sp[c][k] = sp[c][k - 1] + payment(f, c)
        BY <1>5, <2>1, <3>1
      <4>3. payment(f, c) \in Nat
        BY PaymentType
      <4> QED
        BY <4>1, <4>2, <4>3
    <3>3. x <= y /\ (z <= y => x = y - z)
      BY <2>1, <3>2
    <3>4. v[k - 1].reserved \in [ClientOrderIds -> Nat]
      BY <1>6 DEF Account
    <3>5. CASE c # f.id
      <4>1. v[k].reserved[c] = x /\ p = 0
        BY <1>6, <3>1, <3>2, <3>4, <3>5 DEF payment
      <4> QED
        BY <3>2, <3>3, <4>1
    <3>6. CASE c = f.id
      <4>0. PICK hold : hold = v[k].reserved[c]
        OBVIOUS
      <4>1. q \in 0 .. x /\ hold = x - q
        BY <4>0, <1>6, <3>1, <3>2, <3>4, <3>6
      <4>2. f.order_side = "BUY" => p = amount(f) /\ (p <= x => q = p)
        <5>1. amount(f) \in Nat
          BY AmountType
        <5>2. Min({x, amount(f)}) = IF x <= amount(f) THEN x ELSE amount(f)
          BY <5>1, OfTwo
        <5> QED
          BY <3>1, <3>2, <3>6, <5>1, <5>2 DEF payment, consumed
      <4>3. f.order_side # "BUY" => p = 0 /\ q = 0
        BY <3>1, <3>2 DEF payment, consumed
      <4>4. ASSUME u <= y
            PROVE  hold = y - u
        <5>1. x \in Nat /\ y \in Nat /\ z \in Nat /\ p \in Nat /\ u = z + p
          BY ONLY <3>2
        <5>2. z <= y /\ p <= y - z
          BY ONLY <4>4, <5>1
        <5>3. x = y - z
          BY ONLY <3>3, <5>2
        <5>4. q = p
          <6>1. CASE f.order_side = "BUY"
            BY <4>2, <5>2, <5>3, <6>1
          <6>2. CASE f.order_side # "BUY"
            BY <4>3, <6>2
          <6> QED
            BY <6>1, <6>2
        <5>5. hold = (y - z) - p
          BY <4>1, <5>3, <5>4
        <5>6. (y - z) - p = y - (z + p)
          BY ONLY <5>1
        <5> QED
          BY ONLY <5>1, <5>5, <5>6
      <4>5. hold <= y
        <5>1. x \in Nat /\ y \in Nat /\ x <= y
          BY ONLY <3>2, <3>3
        <5>2. q \in Nat /\ hold = x - q
          BY ONLY <4>1, <5>1
        <5> QED
          BY ONLY <5>1, <5>2
      <4> QED
        BY <3>2, <4>0, <4>4, <4>5
    <3> QED
      BY <3>5, <3>6
  <2>3. Held(k)
    BY <2>2
  <2> QED
    BY <2>1, <2>3
<1>10. \A k \in 0 .. n : Held(k)
  <2>1. \A k \in 0 .. n : k \in P
    <3> HIDE DEF P
    <3> QED
      BY <1>8, <1>9, Upto
  <2> QED
    BY <2>1
<1> HIDE DEF P
<1>11. ASSUME Matched(a)
       PROVE  Matched(v[n])
  <2> DEFINE Q == {k \in 0 .. n : Matched(v[k])}
  <2>1. 0 \in Q
    BY <1>2, <1>11
  <2>2. ASSUME NEW k \in 1 .. n, k - 1 \in Q
        PROVE  k \in Q
    <3>1. Matched(v[k - 1]) /\ k \in 0 .. n
      BY <2>2
    <3>2. Matched(v[k])
      BY <1>6, <3>1
    <3> QED
      BY <3>1, <3>2
  <2>3. \A k \in 0 .. n : k \in Q
    <3> HIDE DEF Q
    <3> QED
      BY <2>1, <2>2, Upto
  <2>4. n \in 0 .. n
    OBVIOUS
  <2> QED
    BY <2>3, <2>4
<1>12. ASSUME Partitioned(a), \A c \in ClientOrderIds : spent(fills, c) <= a.reserved[c]
       PROVE  Partitioned(v[n])
  <2> DEFINE Q == {k \in 0 .. n : Partitioned(v[k])}
  <2>1. 0 \in Q
    BY <1>2, <1>12
  <2>2. ASSUME NEW k \in 1 .. n, k - 1 \in Q
        PROVE  k \in Q
    <3>1. PICK f \in Fill, c \in ClientOrderIds : f = fills[k] /\ c = f.id
      BY <1>6
    <3>4. Partitioned(v[k - 1]) /\ k \in 0 .. n
      BY <2>2
    <3>5. (f.order_side = "BUY" => amount(f) <= v[k - 1].reserved[c]) => Partitioned(v[k])
      BY <1>6, <3>1, <3>4
    <3>2. CASE f.order_side = "BUY"
      <4>1. PICK y \in Nat, z \in Nat, u \in Nat, e \in Nat :
               /\ y = a.reserved[c] /\ z = sp[c][k - 1] /\ u = sp[c][k] /\ e = sp[c][n]
               /\ u = z + payment(f, c) /\ u <= e /\ e <= y
        <5>1. k - 1 \in 0 .. n /\ k \in 0 .. n /\ n \in 0 .. n
          OBVIOUS
        <5>2. /\ sp[c][k - 1] \in Nat /\ sp[c][k] \in Nat /\ sp[c][n] \in Nat
              /\ sp[c][k] = sp[c][k - 1] + payment(f, c) /\ sp[c][k] <= sp[c][n]
              /\ sp[c][n] <= a.reserved[c]
          BY <1>5, <1>12, <3>1, <5>1
        <5>3. a.reserved[c] \in Nat
          BY <1>2, <1>7
        <5> QED
          BY <5>2, <5>3
      <4>2. payment(f, c) = amount(f) /\ amount(f) \in Nat
        BY <3>1, <3>2, AmountType DEF payment
      <4>3. v[k - 1].reserved[c] = y - z
        <5>1. Held(k - 1)
          BY <1>6, <1>10
        <5>2. z <= y
          <6>1. PICK g \in Nat : g = payment(f, c)
            BY <4>2
          <6>2. z \in Nat /\ u \in Nat /\ e \in Nat /\ y \in Nat /\ u <= e /\ e <= y
            BY ONLY <4>1
          <6>3. u = z + g
            BY <4>1, <6>1
          <6>4. z <= u
            BY ONLY <6>2, <6>3, g \in Nat
          <6> QED
            BY ONLY <6>2, <6>4
        <5>3. sp[c][k - 1] <= a.reserved[c] => v[k - 1].reserved[c] = a.reserved[c] - sp[c][k - 1]
          BY <5>1
        <5> QED
          BY <4>1, <5>2, <5>3
      <4>4. amount(f) <= y - z
        <5>1. PICK g \in Nat : g = amount(f) /\ g = payment(f, c)
          BY <4>2
        <5>2. u = z + g
          BY <4>1, <5>1
        <5>3. z \in Nat /\ y \in Nat /\ u <= y
          BY ONLY <4>1
        <5>4. g <= y - z
          BY ONLY <5>2, <5>3, g \in Nat
        <5> QED
          BY <5>1, <5>4
      <4> QED
        BY <3>4, <3>5, <4>3, <4>4
    <3>3. CASE f.order_side # "BUY"
      BY <3>4, <3>5, <3>3
    <3> QED
      BY <3>2, <3>3
  <2>3. \A k \in 0 .. n : k \in Q
    <3> HIDE DEF Q
    <3> QED
      BY <2>1, <2>2, Upto
  <2>4. n \in 0 .. n
    OBVIOUS
  <2> QED
    BY <2>3, <2>4
<1> QED
  BY <1>2, <1>5, <1>10, <1>11, <1>12, <1>13

-----------------------------------------------------------------------------
(* The other methods of the account.                                       *)

(* reserve_intent: an order that may spend cash and holds none gets its    *)
(* notional, out of what is available.                                     *)
LEMMA Reserve ==
    ASSUME NEW a \in Sound, NEW o \in OrderIntent(ClientOrderIds),
           a.reserved[o.id] = 0, ~cannot_reserve(a, o)
    PROVE  LET b == reserve(a, o)
           IN  /\ b \in Sound
               /\ Matched(a) => Matched(b)
               /\ Partitioned(a) => Partitioned(b)
               /\ \A c \in ClientOrderIds \ {o.id} : b.reserved[c] = a.reserved[c]
               /\ o.order_side = "BUY" => b.reserved[o.id] = notional(o)
<1>1. /\ a \in Account /\ NoFreeCost(a) /\ notional(o) \in Nat /\ o.id \in ClientOrderIds
      /\ a.reserved \in [ClientOrderIds -> Nat] /\ a.available \in Nat /\ a.held \in Nat
      /\ a.total \in Nat /\ a.cut_total \in Int /\ a.cut_available \in Int
  BY OrderType DEF Sound, Account
<1>2. CASE ~needs_reservation(a, o)
  <2>1. reserve(a, o) = a
    BY <1>2 DEF reserve
  <2>2. o.order_side = "BUY" => notional(o) = 0
    BY <1>1, <1>2 DEF needs_reservation
  <2> QED
    BY <1>1, <2>1, <2>2
<1>3. CASE needs_reservation(a, o)
  <2>1. PICK n \in Nat, c \in ClientOrderIds, g \in [ClientOrderIds -> Nat], av \in Nat, h \in Nat :
           /\ n = notional(o) /\ c = o.id /\ g = a.reserved /\ av = a.available /\ h = a.held
    BY <1>1
  <2>2. PICK b : b = [a EXCEPT !.reserved = [g EXCEPT ![c] = n], !.available = av - n, !.held = h + n]
    OBVIOUS
  <2>3. b = reserve(a, o)
    BY <1>1, <1>3, <2>1, <2>2 DEF reserve, Account
  <2>4. av - n \in Nat /\ h + n \in Nat /\ [g EXCEPT ![c] = n] \in [ClientOrderIds -> Nat]
    BY <1>3, <2>1 DEF cannot_reserve
  <2>5. b \in Account
    BY <1>1, <2>2, <2>4 DEF Account
  <2>6. /\ b.reserved = [g EXCEPT ![c] = n] /\ b.available = av - n /\ b.held = h + n
        /\ b.quantity = a.quantity /\ b.cost = a.cost /\ b.total = a.total
        /\ b.realized = a.realized /\ b.oversold = a.oversold /\ b.uncredited = a.uncredited
        /\ b.cut_total = a.cut_total /\ b.cut_available = a.cut_available
    BY <1>1, <2>2 DEF Account
  <2>7. b \in Sound
    BY <1>1, <2>5, <2>6 DEF Sound, NoFreeCost
  <2>8. Matched(a) => Matched(b)
    BY <2>6 DEF Matched, book_value, gross_exposure
  <2>9. ASSUME Partitioned(a)
        PROVE  Partitioned(b)
    <3>1. IsFiniteSet(ClientOrderIds) /\ \A x \in ClientOrderIds : g[x] \in Int
      BY <2>1, BacktestAssumption
    <3>2. ClientOrderIds \subseteq DOMAIN g /\ n \in Int
      BY <2>1
    <3>3. SumOver([g EXCEPT ![c] = n], ClientOrderIds) = SumOver(g, ClientOrderIds) - g[c] + n
      BY ONLY <2>1, <3>1, <3>2, SumUpdated
    <3>4. PICK R \in Int : R = SumOver(g, ClientOrderIds)
      BY <3>1, SumType
    <3>5. h = R /\ g[c] = 0
      BY <2>1, <2>9, <3>4 DEF Partitioned
    <3>6. b.held = SumOver(b.reserved, ClientOrderIds)
      BY <2>1, <2>6, <3>3, <3>4, <3>5
    <3>7. PICK ca \in Int, ct \in Int, tt \in Int :
             ca = a.cut_available /\ ct = a.cut_total /\ tt = a.total
      BY <1>1
    <3>8. av - ca + h = tt - ct
      BY <2>1, <2>9, <3>7 DEF Partitioned
    <3>9. (av - n) - ca + (h + n) = tt - ct
      BY <2>1, <3>7, <3>8
    <3> QED
      BY <2>6, <3>6, <3>7, <3>9 DEF Partitioned
  <2>10. \A x \in ClientOrderIds \ {o.id} : b.reserved[x] = a.reserved[x]
    BY <2>1, <2>6
  <2>11. b.reserved[o.id] = notional(o)
    BY <2>1, <2>6
  <2> QED
    BY <2>3, <2>7, <2>8, <2>9, <2>10, <2>11
<1> QED
  BY <1>2, <1>3

(* A new account.                                                          *)
LEMMA AtFirst ==
    /\ NewAccount \in Sound /\ Matched(NewAccount) /\ Partitioned(NewAccount)
    /\ \A c \in ClientOrderIds : NewAccount.reserved[c] = 0
<1>1. StartingCash \in Nat
  BY AccountAssumption
<1>2. NewAccount \in Account
  BY <1>1 DEF NewAccount, Account, NoMark
<1>3. NoFreeCost(NewAccount)
  BY DEF NewAccount, NoFreeCost
<1>4. Matched(NewAccount)
  <2>1. /\ NewAccount.cost["YES"] = 0 /\ NewAccount.cost["NO"] = 0 /\ NewAccount.realized = 0
        /\ NewAccount.oversold = 0 /\ NewAccount.uncredited = 0 /\ NewAccount.cut_total = 0
        /\ NewAccount.total = StartingCash
    BY DEF NewAccount, Outcomes
  <2> QED
    BY <1>1, <2>1 DEF Matched, book_value, gross_exposure
<1>5. \A c \in ClientOrderIds : NewAccount.reserved[c] = 0
  BY DEF NewAccount
<1>6. Partitioned(NewAccount)
  <2>1. PICK g : g = NewAccount.reserved
    OBVIOUS
  <2>2. IsFiniteSet(ClientOrderIds) /\ {} \subseteq ClientOrderIds /\ (\A x \in ClientOrderIds : g[x] \in Int)
    BY <1>5, <2>1, BacktestAssumption
  <2>3. \A x \in ClientOrderIds \ {} : g[x] = 0
    BY <1>5, <2>1
  <2>4. PICK S, T : S = ClientOrderIds /\ T = {}
    OBVIOUS
  <2>5. IsFiniteSet(S) /\ T \subseteq S /\ (\A x \in S : g[x] \in Int) /\ \A x \in S \ T : g[x] = 0
    BY <2>2, <2>3, <2>4
  <2>6. SumOver(g, S) = SumOver(g, T)
    BY ONLY <2>5, SumZeros
  <2>7. SumOver(g, ClientOrderIds) = 0
    BY <2>4, <2>6, SumEmpty
  <2>8. /\ NewAccount.held = 0 /\ NewAccount.available = StartingCash /\ NewAccount.total = StartingCash
        /\ NewAccount.cut_available = 0 /\ NewAccount.cut_total = 0
    BY DEF NewAccount
  <2> QED
    BY <1>1, <2>1, <2>7, <2>8 DEF Partitioned
<1> QED
  BY <1>2, <1>3, <1>4, <1>5, <1>6 DEF Sound

(* Both outcomes added up.                                                 *)
LEMMA BothOutcomes ==
    ASSUME NEW f, f["YES"] \in Int, f["NO"] \in Int
    PROVE  /\ IsFiniteSet(Outcomes) /\ \A s \in Outcomes : f[s] \in Int
           /\ SumOver(f, Outcomes) = f["YES"] + f["NO"]
<1>1. /\ "YES" \notin {} /\ "NO" \notin {"YES"}
      /\ Outcomes = ({} \union {"YES"}) \union {"NO"} /\ {} \union {"YES"} = {"YES"}
  BY DEF Outcomes
<1>2. IsFiniteSet({}) /\ IsFiniteSet({"YES"})
  BY FS_EmptySet, FS_Singleton
<1>3. IsFiniteSet(Outcomes)
  BY <1>1, <1>2, FS_AddElement
<1>4. SumOver(f, {}) = 0
  BY SumEmpty
<1>5. SumOver(f, {"YES"}) = f["YES"]
  <2>1. SumOver(f, {} \union {"YES"}) = SumOver(f, {}) + f["YES"]
    BY <1>1, <1>2, SumAdded
  <2> QED
    BY <1>1, <1>4, <2>1
<1>6. SumOver(f, {"YES"} \union {"NO"}) = SumOver(f, {"YES"}) + f["NO"]
  <2>1. \A x \in {"YES"} \union {"NO"} : f[x] \in Int
    OBVIOUS
  <2>2. PICK S, z : S = {"YES"} /\ z = "NO"
    OBVIOUS
  <2>3. IsFiniteSet(S) /\ z \notin S /\ \A x \in S \union {z} : f[x] \in Int
    BY <1>1, <1>2, <2>1, <2>2
  <2>4. SumOver(f, S \union {z}) = SumOver(f, S) + f[z]
    BY ONLY <2>3, SumAdded
  <2> QED
    BY <2>2, <2>4
<1>7. \A s \in Outcomes : f[s] \in Int
  BY DEF Outcomes
<1>8. Outcomes = {"YES"} \union {"NO"}
  BY DEF Outcomes
<1> QED
  BY <1>3, <1>5, <1>6, <1>7, <1>8

(* The context marks a position: cash and costs stay.                      *)
LEMMA MarkQuote ==
    ASSUME NEW a \in Sound, NEW s, NEW bid \in Int, NEW ask \in Int, NEW d
    PROVE  LET b == mark_quote(a, s, bid, ask, d)
           IN  /\ b \in Sound
               /\ Matched(a) => Matched(b)
               /\ Partitioned(a) => Partitioned(b)
               /\ b.reserved = a.reserved
<1>1. /\ a \in Account /\ NoFreeCost(a) /\ a.quantity \in [Outcomes -> Nat]
      /\ a.cost \in [Outcomes -> Nat] /\ a.mark \in [Outcomes -> Int]
      /\ a.unrealized \in [Days -> Int]
  BY DEF Sound, Account
<1>2. CASE s \notin a.opened
  <2>1. mark_quote(a, s, bid, ask, d) = a
    BY <1>2 DEF mark_quote
  <2> QED
    BY <2>1
<1>3. CASE s \in a.opened
  <2>1. PICK m \in Int : m = IF bid # NoMark THEN bid ELSE ask
    OBVIOUS
  <2>2. PICK mk \in [Outcomes -> Int] : mk = [a.mark EXCEPT ![s] = m]
    BY <1>1
  <2>3. PICK e : e = [a EXCEPT !.mark = mk]
    OBVIOUS
  <2>4. e.mark = mk /\ e.quantity = a.quantity /\ e.cost = a.cost /\ e.unrealized = a.unrealized
    BY <1>1, <2>3 DEF Account
  <2>5. e = [a EXCEPT !.mark[s] = m]
    BY <1>1, <2>2, <2>3
  <2>6. PICK u \in Int : u = unrealized_pnl(e)
    <3>1. PICK f : f = [r \in Outcomes |-> e.mark[r] * e.quantity[r] - e.cost[r]]
      OBVIOUS
    <3>2. \A r \in Outcomes : f[r] \in Int
      <4>1. SUFFICES ASSUME NEW r \in Outcomes
                     PROVE  f[r] \in Int
        OBVIOUS
      <4>2. PICK x \in Int, y \in Nat, z \in Nat : x = e.mark[r] /\ y = e.quantity[r] /\ z = e.cost[r]
        BY <1>1, <2>2, <2>4
      <4>3. x * y - z \in Int
        BY <4>2
      <4> QED
        BY <3>1, <4>2, <4>3
    <3>3. PICK S : S = {r \in Outcomes : e.quantity[r] > 0 /\ e.mark[r] # NoMark}
      OBVIOUS
    <3>4. IsFiniteSet(Outcomes)
      <4>1. f["YES"] \in Int /\ f["NO"] \in Int
        BY <3>2 DEF Outcomes
      <4> QED
        BY <4>1, BothOutcomes
    <3>5. IsFiniteSet(S) /\ \A r \in S : f[r] \in Int
      BY <3>2, <3>3, <3>4, FS_Subset
    <3>6. SumOver(f, S) \in Int
      BY <3>5, SumType
    <3> QED
      BY <3>1, <3>3, <3>6 DEF unrealized_pnl
  <2>7. PICK w \in [Days -> Int] : w = [a.unrealized EXCEPT ![d] = u]
    BY <1>1, <2>6
  <2>8. PICK b : b = [a EXCEPT !.mark = mk, !.unrealized = w]
    OBVIOUS
  <2>9. b = mark_quote(a, s, bid, ask, d)
    <3>1. mark_quote(a, s, bid, ask, d) = [e EXCEPT !.unrealized[d] = u]
      BY <1>3, <2>1, <2>5, <2>6 DEF mark_quote
    <3>2. [e EXCEPT !.unrealized[d] = u] = [e EXCEPT !.unrealized = w]
      BY <1>1, <2>3, <2>4, <2>7 DEF Account
    <3> QED
      BY <2>3, <2>8, <3>1, <3>2, <1>1 DEF Account
  <2>10. b \in Account
    BY <1>1, <2>8 DEF Account
  <2>11. /\ b.reserved = a.reserved /\ b.available = a.available /\ b.held = a.held
         /\ b.quantity = a.quantity /\ b.cost = a.cost /\ b.total = a.total
         /\ b.realized = a.realized /\ b.oversold = a.oversold /\ b.uncredited = a.uncredited
         /\ b.cut_total = a.cut_total /\ b.cut_available = a.cut_available
    BY <1>1, <2>8 DEF Account
  <2>12. b \in Sound
    BY <1>1, <2>10, <2>11 DEF Sound, NoFreeCost
  <2>13. Matched(a) => Matched(b)
    BY <2>11 DEF Matched, book_value, gross_exposure
  <2>14. Partitioned(a) => Partitioned(b)
    BY <2>11 DEF Partitioned
  <2> QED
    BY <2>9, <2>11, <2>12, <2>13, <2>14
<1> QED
  BY <1>2, <1>3

(* A settlement closes the positions: what they cost leaves the books, and *)
(* the payout, which cash never sees, is booked as uncredited.             *)
LEMMA Settle ==
    ASSUME NEW a \in Sound, NEW resolved, NEW payout \in Nat, NEW d
    PROVE  LET b == settle(a, resolved, payout, d)
           IN  /\ b \in Sound
               /\ Matched(a) => Matched(b)
               /\ Partitioned(a) => Partitioned(b)
               /\ b.reserved = a.reserved
<1>1. /\ a \in Account /\ NoFreeCost(a) /\ a.quantity \in [Outcomes -> Nat]
      /\ a.cost \in [Outcomes -> Nat] /\ a.net_pnl \in [Days -> Int]
      /\ a.realized \in Int /\ a.uncredited \in Int /\ a.oversold \in Int /\ a.total \in Nat
      /\ a.cut_total \in Int
  BY DEF Sound, Account
<1>2. PICK held : held = {s \in Outcomes : a.quantity[s] > 0}
  OBVIOUS
<1>3. PICK value : value = [s \in Outcomes |-> IF s = resolved THEN payout * a.quantity[s] ELSE 0]
  OBVIOUS
<1>4. PICK gain : gain = [s \in Outcomes |-> value[s] - a.cost[s]]
  OBVIOUS
<1>5. ASSUME NEW s \in Outcomes
      PROVE  /\ value[s] \in Nat /\ a.cost[s] \in Nat /\ gain[s] \in Int
             /\ gain[s] = value[s] - a.cost[s]
             /\ s \notin held => value[s] = 0 /\ gain[s] = 0
  <2>1. PICK q \in Nat, c \in Nat : q = a.quantity[s] /\ c = a.cost[s]
    BY <1>1
  <2>2. payout * q \in Nat /\ payout * 0 = 0
    BY <2>1
  <2>3. value[s] = IF s = resolved THEN payout * q ELSE 0
    BY <1>3, <2>1
  <2>4. value[s] \in Nat
    BY <2>2, <2>3
  <2>5. s \notin held => q = 0 /\ c = 0
    BY <1>1, <1>2, <2>1 DEF NoFreeCost
  <2>6. gain[s] = value[s] - c
    BY <1>4, <2>1
  <2> QED
    BY <2>1, <2>2, <2>3, <2>4, <2>5, <2>6
<1>6. "YES" \in Outcomes /\ "NO" \in Outcomes /\ held \subseteq Outcomes
  BY <1>2 DEF Outcomes
<1>7. IsFiniteSet(Outcomes) /\ SumOver(gain, Outcomes) = gain["YES"] + gain["NO"]
  BY <1>5, <1>6, BothOutcomes
<1>8. SumOver(value, Outcomes) = value["YES"] + value["NO"]
  <2>1. value["YES"] \in Int /\ value["NO"] \in Int
    BY <1>5, <1>6
  <2> QED
    BY <2>1, BothOutcomes
<1>9. PICK S, T : S = Outcomes /\ T = held
  OBVIOUS
<1>10. SumOver(gain, S) = SumOver(gain, T)
  <2>1. IsFiniteSet(S) /\ T \subseteq S /\ (\A x \in S : gain[x] \in Int) /\ \A x \in S \ T : gain[x] = 0
    BY <1>5, <1>6, <1>7, <1>9
  <2> QED
    BY ONLY <2>1, SumZeros
<1>11. SumOver(value, S) = SumOver(value, T)
  <2>1. IsFiniteSet(S) /\ T \subseteq S /\ (\A x \in S : value[x] \in Int) /\ \A x \in S \ T : value[x] = 0
    BY <1>5, <1>6, <1>7, <1>9
  <2> QED
    BY ONLY <2>1, SumZeros
<1>12. PICK v1 \in Nat, v2 \in Nat, c1 \in Nat, c2 \in Nat :
          v1 = value["YES"] /\ v2 = value["NO"] /\ c1 = a.cost["YES"] /\ c2 = a.cost["NO"]
  BY <1>5, <1>6
<1>13. SumOver(gain, held) = (v1 - c1) + (v2 - c2) /\ SumOver(value, held) = v1 + v2
  BY <1>5, <1>6, <1>7, <1>8, <1>9, <1>10, <1>11, <1>12
<1>14. PICK p \in Int, u \in Int : p = (v1 - c1) + (v2 - c2) /\ u = v1 + v2
  BY <1>12
<1>15. PICK np \in [Days -> Int] : np = [a.net_pnl EXCEPT ![d] = @ + p]
  <2>1. PICK w \in [Days -> Int] : w = a.net_pnl
    BY <1>1
  <2>2. \A x \in Days : w[x] + p \in Int
    BY <1>14, <2>1
  <2>3. [w EXCEPT ![d] = @ + p] \in [Days -> Int]
    BY <2>1, <2>2
  <2> QED
    BY <2>1, <2>3
<1>16. PICK none \in [Outcomes -> Nat] : none = [s \in Outcomes |-> 0]
  OBVIOUS
<1>17. PICK b : b = [a EXCEPT !.net_pnl = np, !.realized = a.realized + p, !.quantity = none,
                              !.cost = none, !.uncredited = a.uncredited + u]
  OBVIOUS
<1>18. b = settle(a, resolved, payout, d)
  <2>1. SumOver([s \in Outcomes |-> value[s] - a.cost[s]], held) = p
    BY <1>4, <1>13, <1>14
  <2>2. SumOver(value, held) = u
    BY <1>13, <1>14
  <2>3. settle(a, resolved, payout, d)
           = [record_realized_pnl(a, p, d) EXCEPT !.realized = @ + p, !.quantity = none,
                  !.cost = none, !.uncredited = @ + u]
    BY <1>2, <1>3, <1>16, <2>1, <2>2 DEF settle
  <2>4. record_realized_pnl(a, p, d) = [a EXCEPT !.net_pnl = np]
    BY <1>1, <1>15 DEF record_realized_pnl
  <2> QED
    BY <1>1, <1>17, <2>3, <2>4 DEF Account
<1>19. b \in Account
  <2>1. a.realized + p \in Int /\ a.uncredited + u \in Int
    BY <1>1, <1>14
  <2> QED
    BY <1>1, <1>15, <1>16, <1>17, <2>1 DEF Account
<1>20. /\ b.reserved = a.reserved /\ b.available = a.available /\ b.held = a.held
       /\ b.quantity = none /\ b.cost = none /\ b.total = a.total
       /\ b.realized = a.realized + p /\ b.oversold = a.oversold /\ b.uncredited = a.uncredited + u
       /\ b.cut_total = a.cut_total /\ b.cut_available = a.cut_available
  BY <1>1, <1>17 DEF Account
<1>21. b \in Sound
  BY <1>16, <1>19, <1>20 DEF Sound, NoFreeCost
<1>22. ASSUME Matched(a)
       PROVE  Matched(b)
  <2>1. PICK re \in Int, ov \in Int, un \in Int, tt \in Int, ct \in Int, st \in Int :
           /\ re = a.realized /\ ov = a.oversold /\ un = a.uncredited /\ tt = a.total
           /\ ct = a.cut_total /\ st = StartingCash
    BY <1>1, AccountAssumption
  <2>2. tt - ct = st + (re - (c1 + c2) + ov) - un
    BY <1>12, <1>22, <2>1 DEF Matched, book_value, gross_exposure
  <2>3. b.cost["YES"] = 0 /\ b.cost["NO"] = 0
    BY <1>6, <1>16, <1>20
  <2>4. tt - ct = st + ((re + p) - (0 + 0) + ov) - (un + u)
    BY <1>12, <1>14, <2>1, <2>2
  <2> QED
    BY <1>20, <2>1, <2>3, <2>4 DEF Matched, book_value, gross_exposure
<1>23. Partitioned(a) => Partitioned(b)
  BY <1>20 DEF Partitioned
<1> QED
  BY <1>18, <1>20, <1>21, <1>22, <1>23

-----------------------------------------------------------------------------
(* The run.                                                                *)

(* The account while the orders D have been dispatched. *)
Honest(a, D) ==
    /\ a \in Sound /\ Matched(a)
    /\ \A c \in ClientOrderIds \ D : a.reserved[c] = 0
    /\ AllowMarketOrders = FALSE => Partitioned(a)

(* Where market orders are not allowed, fills are covered. *)
Paid(s, R) == AllowMarketOrders = FALSE => Covered(s, R)

(* Simulator and account between two calls. *)
Standing(s, D, a, A, J, P) ==
    /\ s \in Simulator /\ Honest(a, D)
    /\ Sane(fresh(s), fresh(s), D, a.reserved, A, J, P)
    /\ Paid(fresh(s), a.reserved)

(* Between two calls, the fills of the last one do not count.              *)
LEMMA Fresh ==
    ASSUME NEW s \in Simulator
    PROVE  LET f == fresh(s)
           IN  /\ f \in Simulator /\ f.fills = <<>> /\ f.book = s.book /\ f.pending = s.pending
               /\ resting(f) = resting(s)
               /\ \A A, J : joining(f, A, J) = joining(s, A, J)
               /\ s.fills = <<>> => f = s
<1>1. PICK none \in Seq(Fill) : none = <<>>
  <2>1. <<>> \in Seq(Fill)
    OBVIOUS
  <2> QED
    BY <2>1
<1>2. PICK f : f = fresh(s)
  OBVIOUS
<1>3. /\ f \in Simulator /\ f.book = s.book /\ f.pending = s.pending /\ f.fills = none
  BY <1>1, <1>2 DEF Simulator, fresh
<1>4. resting(f) = resting(s)
  BY <1>3 DEF resting
<1>5. \A A, J : joining(f, A, J) = joining(s, A, J)
  BY <1>3, <1>4 DEF joining
<1>6. s.fills = <<>> => f = s
  BY <1>2 DEF fresh, Simulator
<1> QED
  BY <1>1, <1>2, <1>3, <1>4, <1>5, <1>6

(* The fills of a call are booked.                                         *)
LEMMA AfterCall ==
    ASSUME NEW s, NEW u, NEW D, NEW a, NEW A, NEW J, NEW P, Honest(a, D),
           Sane(s, u, D, a.reserved, A, J, P), Paid(s, a.reserved)
    PROVE  Standing(s, D, on_fills(a, s.fills), A, J, P)
<1>1. s \in Proper /\ s \in Simulator /\ s.fills \in Seq(Fill)
  BY Parts DEF Sane, Proper
<1>2. PICK b : b = on_fills(a, s.fills)
  OBVIOUS
<1>3. a \in Sound
  BY DEF Honest
<1>4. /\ b \in Sound
      /\ Matched(a) => Matched(b)
      /\ \A c \in ClientOrderIds :
            /\ b.reserved[c] <= a.reserved[c]
            /\ spent(s.fills, c) <= a.reserved[c] =>
                  b.reserved[c] = a.reserved[c] - spent(s.fills, c)
      /\ /\ Partitioned(a)
         /\ \A c \in ClientOrderIds : spent(s.fills, c) <= a.reserved[c]
         => Partitioned(b)
  BY <1>1, <1>2, <1>3, OnFills
<1>5. a.reserved \in [ClientOrderIds -> Nat] /\ b.reserved \in [ClientOrderIds -> Nat]
  BY <1>3, <1>4 DEF Sound, Account
<1>6. Booking(a.reserved, b.reserved, s.fills)
  BY <1>4 DEF Booking
<1>7. /\ Sane(fresh(s), fresh(s), D, b.reserved, A, J, P)
      /\ Covered(s, a.reserved) => Covered(fresh(s), b.reserved)
  BY <1>5, <1>6, Booked
<1>8. \A c \in ClientOrderIds \ D : b.reserved[c] = 0
  <2>1. SUFFICES ASSUME NEW c \in ClientOrderIds \ D
                 PROVE  b.reserved[c] = 0
    OBVIOUS
  <2>2. PICK x \in Nat, y \in Nat : x = a.reserved[c] /\ y = b.reserved[c]
    BY <1>5
  <2>3. x = 0 /\ y <= x
    BY <1>4, <2>2 DEF Honest
  <2> QED
    BY <2>2, <2>3
<1>9. AllowMarketOrders = FALSE => Partitioned(b)
  BY <1>4 DEF Honest, Paid, Covered
<1>10. Honest(b, D)
  BY <1>4, <1>8, <1>9 DEF Honest
<1>11. Paid(fresh(s), b.reserved)
  BY <1>7 DEF Paid
<1> QED
  BY <1>1, <1>2, <1>7, <1>10, <1>11 DEF Standing

(* A call without fills.                                                   *)
LEMMA AfterQuiet ==
    ASSUME NEW s, NEW u, NEW D, NEW a, NEW A, NEW J, NEW P, Honest(a, D),
           Sane(s, u, D, a.reserved, A, J, P), Paid(s, a.reserved), s.fills = <<>>
    PROVE  Standing(s, D, a, A, J, P)
<1>1. s \in Proper /\ s \in Simulator
  BY Parts DEF Sane, Proper
<1>2. fresh(s) = s
  BY <1>1, Fresh
<1>3. Sane(s, s, D, a.reserved, A, J, P)
  BY <1>1 DEF Sane, SameLiquidity
<1> QED
  BY <1>1, <1>2, <1>3 DEF Standing

(* What the account does besides fills leaves the reservations alone.      *)
LEMMA AfterMark ==
    ASSUME NEW s, NEW D, NEW a, NEW A, NEW J, NEW P, Standing(s, D, a, A, J, P),
           NEW b \in Sound, Matched(a) => Matched(b), Partitioned(a) => Partitioned(b),
           b.reserved = a.reserved
    PROVE  Standing(s, D, b, A, J, P)
<1>1. Honest(b, D)
  BY DEF Standing, Honest
<1> QED
  BY <1>1 DEF Standing

(* Orders that came to rest are now in the queue.                          *)
LEMMA AfterRests ==
    ASSUME NEW s, NEW D, NEW a, NEW A, NEW J \in [ClientOrderIds -> Nat],
           NEW P \in [ClientOrderIds -> Nat], Standing(s, D, a, A, J, P)
    PROVE  /\ Standing(s, D, a, resting(s), joining(s, A, J), P)
           /\ joining(s, A, J) \in [ClientOrderIds -> Nat]
<1>1. PICK f : f = fresh(s)
  OBVIOUS
<1>2. s \in Simulator /\ Sane(f, f, D, a.reserved, A, J, P)
  BY <1>1 DEF Standing
<1>3. /\ Sane(f, f, D, a.reserved, resting(f), joining(f, A, J), P)
      /\ joining(f, A, J) \in [ClientOrderIds -> Nat]
  BY <1>2, Rests
<1>4. resting(f) = resting(s) /\ joining(f, A, J) = joining(s, A, J)
  BY <1>1, <1>2, Fresh
<1> QED
  BY <1>1, <1>3, <1>4 DEF Standing

(* No other order has come to rest.                                        *)
LEMMA AfterStill ==
    ASSUME NEW s, NEW D, NEW a, NEW A, NEW J, NEW P, Standing(s, D, a, A, J, P),
           Within(s.pending, A)
    PROVE  Standing(s, D, a, resting(s), J, P)
<1>1. PICK f : f = fresh(s)
  OBVIOUS
<1>2. s \in Simulator /\ Sane(f, f, D, a.reserved, A, J, P)
  BY <1>1 DEF Standing
<1>3. resting(f) = resting(s) /\ f.pending = s.pending
  BY <1>1, <1>2, Fresh
<1>4. Sane(f, f, D, a.reserved, resting(f), J, P)
  BY <1>2, <1>3, StillRests
<1> QED
  BY <1>1, <1>3, <1>4 DEF Standing

(* What takers took of a book and what is left of it.                      *)
LEMMA TakenOfBook ==
    ASSUME NEW s \in Simulator, NEW t \in Simulator, s.fills = <<>>, SameLiquidity(s, t),
           NEW o \in Sides, NEW b \in {"BUY", "SELL"}
    PROVE  /\ taker_volume(t.fills)[o][b] + shows(t.book, o, b) = shows(s.book, o, b)
           /\ taker_volume(t.fills)[o][b] \in Nat
           /\ shows(t.book, o, b) \in Nat /\ shows(s.book, o, b) \in Nat
<1>1. /\ t.fills \in Seq(Fill) /\ s.fills \in Seq(Fill)
      /\ t.book \in OrderBook /\ s.book \in OrderBook
  BY Parts
<1>2. /\ taker_volume(t.fills)[o][b] \in Nat
      /\ shows(t.book, o, b) \in Nat /\ shows(s.book, o, b) \in Nat
  BY <1>1, Swept, Shows
<1>3. taker_volume(s.fills)[o][b] = 0
  BY <1>1, Swept, TotalOfNone
<1>4. taker_volume(t.fills)[o][b] + shows(t.book, o, b)
         = taker_volume(s.fills)[o][b] + shows(s.book, o, b)
  BY DEF SameLiquidity
<1>5. PICK x \in Nat : x = shows(s.book, o, b) /\ 0 + x = x
  BY <1>2
<1> QED
  BY <1>2, <1>3, <1>4, <1>5

(* What a book event may rely on. *)
BookRead(s, t, D, R, A, J, P, bk) ==
    /\ \E u : Sane(t, u, D, R, A, J, P)
    /\ Covered(fresh(s), R) => Covered(t, R)
    /\ s.book.known => t.book = bk
    /\ ~s.book.known =>
          \E x \in Simulator : x.fills = <<>> /\ x.book = bk /\ SameLiquidity(x, t)

(* on_event for a book: what is due meets the old book, or the first one.  *)
LEMMA OnBook ==
    ASSUME NEW s \in Simulator, NEW D, NEW R \in [ClientOrderIds -> Nat], NEW A, NEW J, NEW P,
           Sane(fresh(s), fresh(s), D, R, A, J, P), NEW bk \in OrderBook, NEW time
    PROVE  BookRead(s, on_book(s, bk, time), D, R, A, J, P, bk)
<1>1. PICK f : f = fresh(s)
  OBVIOUS
<1>2. f.fills = <<>> /\ f.book = s.book /\ Sane(f, f, D, R, A, J, P)
  BY <1>1, Fresh
<1>3. PICK t : t = on_book(s, bk, time)
  OBVIOUS
<1>4. CASE s.book.known
  <2>1. PICK m : m = advance(f, time)
    OBVIOUS
  <2>2. Sane(m, f, D, R, A, J, P) /\ (Covered(f, R) => Covered(m, R))
    BY <1>2, <2>1, Advance
  <2>3. t = [m EXCEPT !.book = bk]
    BY <1>1, <1>3, <1>4, <2>1 DEF on_book
  <2>4. /\ Sane(t, t, D, R, A, J, P)
        /\ Covered(m, R) => Covered(t, R)
        /\ t.book = bk
    BY <2>2, <2>3, Rebook
  <2> QED
    BY <1>1, <1>3, <1>4, <2>2, <2>4 DEF BookRead
<1>5. CASE ~s.book.known
  <2>1. PICK m : m = apply_due_controls(f, time)
    OBVIOUS
  <2>2. Sane(m, f, D, R, A, J, P) /\ (Covered(f, R) => Covered(m, R)) /\ m.fills = f.fills
    BY <1>2, <2>1, Controls
  <2>3. PICK x : x = [m EXCEPT !.book = bk]
    OBVIOUS
  <2>4. /\ Sane(x, x, D, R, A, J, P)
        /\ Covered(m, R) => Covered(x, R)
        /\ x.fills = m.fills /\ x.book = bk
    BY <2>2, <2>3, Rebook
  <2>5. t = activate_due_orders(x, time)
    BY <1>1, <1>3, <1>5, <2>1, <2>3 DEF on_book
  <2>6. Sane(t, x, D, R, A, J, P) /\ (Covered(x, R) => Covered(t, R))
    BY <2>4, <2>5, ActivateDueOrders
  <2>7. x \in Simulator /\ SameLiquidity(x, t)
    BY <2>4, <2>6 DEF Sane, Proper
  <2> QED
    BY <1>1, <1>2, <1>3, <1>5, <2>2, <2>4, <2>6, <2>7 DEF BookRead
<1> QED
  BY <1>4, <1>5

-----------------------------------------------------------------------------
(* The inductive invariant.                                                *)

(* Contracts by outcome and by side of the order. *)
Volumes == [Sides -> [{"BUY", "SELL"} -> Nat]]

(* What was taken of a book and what it still shows are what it showed. *)
Balanced(book, showed, gone) ==
    book.known => \A s \in Sides, b \in {"BUY", "SELL"} :
                     gone[s][b] + shows(book, s, b) = showed[s][b]

(* No submit is on its way to the venue. *)
NoneInFlight(s) == \A p \in Orders(s.pending) : ~in_flight(p)

(* Account and simulator stand between two calls, the book accounts for    *)
(* what was taken of it, and a run that is over has nothing under way.     *)
BacktestInv ==
    /\ state \in {"CREATED", "RUNNING", "DISPOSED", "ABORTED"}
    /\ now \in 0 .. MaxTime /\ dispatched \subseteq ClientOrderIds
    /\ joined \in [ClientOrderIds -> Nat] /\ printed \in [ClientOrderIds -> Nat]
    /\ took \in Volumes
    /\ Standing(sim, dispatched, acct, resting(sim), joined, printed)
    /\ Balanced(sim.book, shown, took)
    /\ state = "DISPOSED" => NoneInFlight(sim)

(* What takers took is counted by outcome and by side of the order.        *)
LEMMA TakenType ==
    ASSUME NEW fills \in Seq(Fill)
    PROVE  taker_volume(fills) \in Volumes
<1>1. PICK v : v = taker_volume(fills)
  OBVIOUS
<1>2. \A s \in Sides, b \in {"BUY", "SELL"} : v[s][b] \in Nat
  BY <1>1, Swept
<1>3. /\ v = [s \in Sides |-> v[s]]
      /\ \A s \in Sides : v[s] = [b \in {"BUY", "SELL"} |-> v[s][b]]
  BY <1>1 DEF taker_volume
<1>4. \A s \in Sides : v[s] \in [{"BUY", "SELL"} -> Nat]
  BY <1>2, <1>3
<1>5. v \in Volumes
  BY <1>3, <1>4 DEF Volumes
<1> QED
  BY <1>1, <1>5

(* Volumes are added one by one.                                           *)
LEMMA Adding ==
    ASSUME NEW f \in Volumes, NEW g \in Volumes
    PROVE  /\ add(f, g) \in Volumes
           /\ \A s \in Sides, b \in {"BUY", "SELL"} :
                 /\ add(f, g)[s][b] = f[s][b] + g[s][b]
                 /\ f[s][b] \in Nat /\ g[s][b] \in Nat
<1>1. \A s \in Sides, b \in {"BUY", "SELL"} : f[s][b] \in Nat /\ g[s][b] \in Nat
  BY DEF Volumes
<1>2. \A s \in Sides, b \in {"BUY", "SELL"} :
         /\ add(f, g)[s][b] = f[s][b] + g[s][b]
         /\ f[s][b] + g[s][b] \in Nat
  BY <1>1 DEF add
<1>3. add(f, g) \in Volumes
  BY <1>2 DEF add, Volumes
<1> QED
  BY <1>1, <1>2, <1>3

(* A call takes from the book what its fills say.                          *)
LEMMA StillBalanced ==
    ASSUME NEW s \in Simulator, NEW t \in Simulator, SameLiquidity(fresh(s), t),
           t.book.known = s.book.known, NEW showed, NEW gone \in Volumes,
           Balanced(s.book, showed, gone)
    PROVE  /\ add(gone, taker_volume(t.fills)) \in Volumes
           /\ Balanced(t.book, showed, add(gone, taker_volume(t.fills)))
<1>1. PICK f \in Simulator : f = fresh(s) /\ f.fills = <<>> /\ f.book = s.book
  BY Fresh
<1>2. t.fills \in Seq(Fill)
  BY Parts
<1>3. PICK v \in Volumes : v = taker_volume(t.fills)
  BY <1>2, TakenType
<1>4. PICK w : w = add(gone, v)
  OBVIOUS
<1>5. /\ w \in Volumes
      /\ \A o \in Sides, b \in {"BUY", "SELL"} :
            w[o][b] = gone[o][b] + v[o][b] /\ gone[o][b] \in Nat
  BY <1>4, Adding
<1>6. ASSUME t.book.known, NEW o \in Sides, NEW b \in {"BUY", "SELL"}
      PROVE  w[o][b] + shows(t.book, o, b) = showed[o][b]
  <2>1. SameLiquidity(f, t)
    BY <1>1
  <2>2. /\ taker_volume(t.fills)[o][b] + shows(t.book, o, b) = shows(f.book, o, b)
        /\ taker_volume(t.fills)[o][b] \in Nat
        /\ shows(t.book, o, b) \in Nat /\ shows(f.book, o, b) \in Nat
    BY <1>1, <2>1, TakenOfBook
  <2>3. PICK x \in Nat, y \in Nat, z \in Nat, g \in Nat :
           /\ x = v[o][b] /\ y = shows(t.book, o, b) /\ z = shows(f.book, o, b)
           /\ g = gone[o][b]
    BY <1>3, <1>5, <2>2
  <2>4. x + y = z /\ w[o][b] = g + x
    BY <1>3, <1>5, <2>2, <2>3
  <2>5. g + z = showed[o][b]
    BY <1>1, <1>6, <2>3 DEF Balanced
  <2> QED
    BY <2>3, <2>4, <2>5
<1>7. Balanced(t.book, showed, w)
  BY <1>6 DEF Balanced
<1> QED
  BY <1>3, <1>4, <1>5, <1>7

(* Before the run.                                                         *)
LEMMA Start ==
    ASSUME Init
    PROVE  BacktestInv
<1> USE DEF Init
<1>1. PICK none \in Seq(PendingOrder) : none = <<>>
  <2>1. <<>> \in Seq(PendingOrder)
    OBVIOUS
  <2> QED
    BY <2>1
<1>2. PICK nofills \in Seq(Fill) : nofills = <<>>
  <2>1. <<>> \in Seq(Fill)
    OBVIOUS
  <2> QED
    BY <2>1
<1>3. NoBook \in OrderBook
  <2>1. <<>> \in Seq(Level)
    OBVIOUS
  <2> QED
    BY <2>1 DEF NoBook, OrderBook, TopOfBook
<1>4. none \in Ledger /\ Orders(none) = {} /\ DOMAIN none = {}
  BY <1>1 DEF Ledger, Orders
<1>5. /\ sim.book = NoBook /\ ~sim.book.known /\ sim.pending = none /\ sim.fills = nofills
      /\ sim \in Simulator
  BY <1>1, <1>2, <1>3, <1>4 DEF EmptySimulator, Simulator, NoBook
<1>6. resting(sim) = {}
  BY <1>4, <1>5 DEF resting, lookup
<1>7. Honest(acct, dispatched)
  BY AtFirst DEF Honest
<1>8. fresh(sim) = sim
  BY <1>2, <1>5, Fresh
<1>9. sim \in Proper
  BY <1>4, <1>5 DEF Proper
<1>10. Sane(sim, sim, dispatched, acct.reserved, resting(sim), joined, printed)
  BY <1>4, <1>5, <1>9 DEF Sane, SameLiquidity, Funded
<1>11. Paid(sim, acct.reserved)
  <2>1. \A c \in ClientOrderIds : spent(nofills, c) = 0
    BY Spent, TotalOfNone, <1>2
  <2>2. acct.reserved \in [ClientOrderIds -> Nat]
    BY AtFirst DEF Sound, Account
  <2>3. \A c \in ClientOrderIds : spent(sim.fills, c) <= acct.reserved[c]
    BY <1>5, <2>1, <2>2
  <2> QED
    BY <1>4, <1>5, <2>3 DEF Paid, Covered
<1>12. Standing(sim, dispatched, acct, resting(sim), joined, printed)
  BY <1>5, <1>7, <1>8, <1>10, <1>11 DEF Standing
<1>13. /\ joined \in [ClientOrderIds -> Nat] /\ printed \in [ClientOrderIds -> Nat]
       /\ took \in Volumes
  BY DEF Volumes, NoShow
<1>14. now \in 0 .. MaxTime
  BY BacktestAssumption
<1> QED
  BY <1>5, <1>12, <1>13, <1>14 DEF BacktestInv, Balanced

-----------------------------------------------------------------------------
(* The events.                                                             *)

(* What the stream leaves to an event: its time, and no new decision.      *)
LEMMA Streamed ==
    ASSUME BacktestInv, NEW t \in now .. MaxTime, NEW s, NEW a, NEW e, stream(t, s, a, e)
    PROVE  /\ t \in Int /\ t \in 0 .. MaxTime
           /\ state' = "RUNNING" /\ now' = t /\ dispatched' = dispatched
           /\ sim' = s /\ acct' = a
<1>1. MaxTime \in Nat /\ now \in 0 .. MaxTime
  BY BacktestAssumption DEF BacktestInv
<1>2. t \in Int /\ t \in 0 .. MaxTime
  BY <1>1
<1> QED
  BY <1>2 DEF stream

(* What the simulator and the account are between two actions.             *)
LEMMA Now ==
    ASSUME BacktestInv
    PROVE  /\ sim \in Simulator /\ fresh(sim) \in Simulator
           /\ fresh(sim).fills = <<>> /\ fresh(sim).book = sim.book
           /\ acct.reserved \in [ClientOrderIds -> Nat]
           /\ Honest(acct, dispatched) /\ acct \in Sound
           /\ Sane(fresh(sim), fresh(sim), dispatched, acct.reserved,
                   resting(sim), joined, printed)
           /\ Paid(fresh(sim), acct.reserved)
<1>1. Standing(sim, dispatched, acct, resting(sim), joined, printed)
  BY DEF BacktestInv
<1>2. sim \in Simulator /\ Honest(acct, dispatched)
  BY <1>1 DEF Standing
<1>3. acct \in Sound /\ acct.reserved \in [ClientOrderIds -> Nat]
  BY <1>2 DEF Honest, Sound, Account
<1> QED
  BY <1>1, <1>2, <1>3, Fresh DEF Standing

(* A call whose fills are booked, after which orders have come to rest.    *)
LEMMA CallStands ==
    ASSUME BacktestInv, NEW s, NEW u, NEW D, NEW a, Honest(a, D),
           Sane(s, u, D, a.reserved, resting(sim), joined, printed), Paid(s, a.reserved),
           note_rests(s)
    PROVE  /\ Standing(s, D, on_fills(a, s.fills), resting(s), joined', printed')
           /\ joined' \in [ClientOrderIds -> Nat] /\ printed' \in [ClientOrderIds -> Nat]
<1>1. joined \in [ClientOrderIds -> Nat] /\ printed \in [ClientOrderIds -> Nat]
  BY DEF BacktestInv
<1>2. PICK A : A = resting(sim)
  OBVIOUS
<1>3. joined' = joining(s, A, joined) /\ printed' = printed
  BY <1>2 DEF note_rests, joining
<1>4. PICK b : b = on_fills(a, s.fills)
  OBVIOUS
<1>5. Standing(s, D, b, A, joined, printed)
  BY <1>2, <1>4, AfterCall
<1>6. /\ Standing(s, D, b, resting(s), joining(s, A, joined), printed)
      /\ joining(s, A, joined) \in [ClientOrderIds -> Nat]
  BY <1>1, <1>5, AfterRests
<1> QED
  BY <1>1, <1>3, <1>4, <1>6

(* A new book.                                                             *)
LEMMA BookEvent ==
    ASSUME BacktestInv, NEW t \in now .. MaxTime, NEW r \in arrivals(t),
           NEW bk \in Books, book_event(t, r, bk)
    PROVE  BacktestInv'
<1>1. PICK s : s = on_book(sim, bk, r)
  OBVIOUS
<1>2. PICK e : stream(t, s, on_fills(acct, s.fills), e)
  BY <1>1 DEF book_event
<1>3. /\ shown' = show(bk)
      /\ took' = IF sim.book.known THEN NoShow ELSE taker_volume(s.fills)
      /\ note_rests(s)
  BY <1>1 DEF book_event
<1>4. /\ t \in 0 .. MaxTime
      /\ state' = "RUNNING" /\ now' = t /\ dispatched' = dispatched
      /\ sim' = s /\ acct' = on_fills(acct, s.fills)
  BY <1>2, Streamed
<1>5. bk \in OrderBook /\ bk.known /\ r \in Int
  BY BacktestAssumption DEF arrivals
<1>6. PICK R \in [ClientOrderIds -> Nat] : R = acct.reserved
  BY Now
<1>a. PICK A, D, J, P : A = resting(sim) /\ D = dispatched /\ J = joined /\ P = printed
  OBVIOUS
<1>7. /\ Sane(fresh(sim), fresh(sim), D, R, A, J, P) /\ Paid(fresh(sim), R)
      /\ sim \in Simulator /\ Honest(acct, dispatched)
  BY <1>6, <1>a, Now
<1>b. BookRead(sim, on_book(sim, bk, r), D, R, A, J, P, bk)
  BY ONLY <1>5, <1>6, <1>7, R \in [ClientOrderIds -> Nat], OnBook
<1>8. /\ \E u : Sane(s, u, dispatched, R, A, joined, printed)
      /\ Covered(fresh(sim), R) => Covered(s, R)
      /\ sim.book.known => s.book = bk
      /\ ~sim.book.known =>
            \E x \in Simulator : x.fills = <<>> /\ x.book = bk /\ SameLiquidity(x, s)
  BY <1>1, <1>a, <1>b DEF BookRead
<1>9. PICK u : Sane(s, u, dispatched, R, A, joined, printed)
  BY <1>8
<1>10. Paid(s, R)
  BY <1>7, <1>8 DEF Paid
<1>11. /\ Standing(s, dispatched, on_fills(acct, s.fills), resting(s), joined', printed')
       /\ joined' \in [ClientOrderIds -> Nat] /\ printed' \in [ClientOrderIds -> Nat]
  BY <1>3, <1>6, <1>a, <1>7, <1>9, <1>10, CallStands
<1>12. s \in Simulator /\ s.fills \in Seq(Fill)
  BY <1>9, Parts DEF Sane, Proper
<1>13. took' \in Volumes /\ Balanced(s.book, shown', took')
  <2>1. CASE sim.book.known
    <3>1. took' = NoShow /\ s.book = bk
      BY <1>3, <1>8, <2>1
    <3>2. \A o \in Sides, b \in {"BUY", "SELL"} : NoShow[o][b] = 0
      BY DEF NoShow
    <3>3. ASSUME NEW o \in Sides, NEW b \in {"BUY", "SELL"}
          PROVE  took'[o][b] + shows(bk, o, b) = shown'[o][b]
      <4>1. PICK n \in Nat : n = shows(bk, o, b)
        BY <1>5, Shows
      <4>2. shown'[o][b] = n
        BY <1>3, <4>1 DEF shows
      <4>3. took'[o][b] = 0
        BY <3>1, <3>2
      <4> QED
        BY <4>1, <4>2, <4>3
    <3>4. NoShow \in Volumes
      BY DEF NoShow, Volumes
    <3> QED
      BY <3>1, <3>3, <3>4 DEF Balanced
  <2>2. CASE ~sim.book.known
    <3>1. took' = taker_volume(s.fills)
      BY <1>3, <2>2
    <3>2. PICK x \in Simulator : x.fills = <<>> /\ x.book = bk /\ SameLiquidity(x, s)
      BY <1>8, <2>2
    <3>3. ASSUME NEW o \in Sides, NEW b \in {"BUY", "SELL"}
          PROVE  took'[o][b] + shows(s.book, o, b) = shown'[o][b]
      <4>1. taker_volume(s.fills)[o][b] + shows(s.book, o, b) = shows(x.book, o, b)
        BY <1>12, <3>2, TakenOfBook
      <4>2. shown'[o][b] = shows(x.book, o, b)
        BY <1>3, <3>2 DEF shows
      <4> QED
        BY <3>1, <4>1, <4>2
    <3>4. took' \in Volumes
      BY <1>12, <3>1, TakenType
    <3> QED
      BY <3>3, <3>4 DEF Balanced
  <2> QED
    BY <2>1, <2>2
<1> QED
  BY <1>4, <1>11, <1>13, Now DEF BacktestInv

(* What a call took of the book is added to what was taken.                *)
LEMMA CallTakes ==
    ASSUME BacktestInv, NEW s, NEW D, NEW R, NEW A, NEW J, NEW P,
           Sane(s, fresh(sim), D, R, A, J, P)
    PROVE  /\ add(took, taker_volume(s.fills)) \in Volumes
           /\ Balanced(s.book, shown, add(took, taker_volume(s.fills)))
<1>1. sim \in Simulator /\ fresh(sim).book = sim.book
  BY Now
<1>2. s \in Simulator /\ SameLiquidity(fresh(sim), s) /\ s.book.known = sim.book.known
  BY <1>1 DEF Sane, Proper
<1>3. took \in Volumes /\ Balanced(sim.book, shown, took)
  BY DEF BacktestInv
<1>4. PICK v : v = taker_volume(s.fills)
  OBVIOUS
<1>5. add(took, v) \in Volumes /\ Balanced(s.book, shown, add(took, v))
  BY <1>1, <1>2, <1>3, <1>4, StillBalanced
<1> QED
  BY <1>4, <1>5

(* Time passes at the simulator.                                           *)
LEMMA CallAdvances ==
    ASSUME BacktestInv, NEW t
    PROVE  LET s == advance(fresh(sim), t)
           IN  /\ Sane(s, fresh(sim), dispatched, acct.reserved,
                       resting(sim), joined, printed)
               /\ Paid(s, acct.reserved)
<1>1. PICK R \in [ClientOrderIds -> Nat] : R = acct.reserved
  BY Now
<1>2. PICK A, D, J, P, f : /\ A = resting(sim) /\ D = dispatched /\ J = joined /\ P = printed
                           /\ f = fresh(sim)
  OBVIOUS
<1>3. Sane(f, f, D, R, A, J, P) /\ Paid(f, R)
  BY <1>1, <1>2, Now
<1>4. PICK s : s = advance(f, t)
  OBVIOUS
<1>5. Sane(s, f, D, R, A, J, P) /\ (Covered(f, R) => Covered(s, R))
  BY <1>3, <1>4, Advance
<1>6. Paid(s, R)
  BY <1>3, <1>5 DEF Paid
<1> QED
  BY <1>1, <1>2, <1>4, <1>5, <1>6

(* A quote.                                                                *)
LEMMA QuoteEvent ==
    ASSUME BacktestInv, NEW t \in now .. MaxTime, NEW r \in arrivals(t),
           NEW q \in Quotes, quote_event(t, r, q)
    PROVE  BacktestInv'
<1>1. PICK s : s = on_quote(sim, r)
  OBVIOUS
<1>2. PICK a : a = on_fills(acct, s.fills)
  OBVIOUS
<1> DEFINE price(levels) == IF levels = <<>> THEN NoMark ELSE Head(levels).price
<1>3. q.bids \in Seq(Level) /\ q.asks \in Seq(Level)
  BY BacktestAssumption
<1>4. ASSUME NEW levels \in Seq(Level)
      PROVE  price(levels) \in Int
  <2>1. CASE levels = <<>>
    BY <2>1 DEF NoMark
  <2>2. CASE levels # <<>>
    <3>1. PICK l \in Level : l = Head(levels)
      BY <2>2
    <3>2. PICK x \in 0 .. One : x = l.price
      BY DEF Level
    <3>3. x \in Int
      BY DEF One
    <3> QED
      BY <2>2, <3>1, <3>2, <3>3
  <2> QED
    BY <2>1, <2>2
<1>5. PICK bid \in Int, ask \in Int : bid = price(q.bids) /\ ask = price(q.asks)
  BY <1>3, <1>4
<1>6. PICK b : b = mark_quote(a, q.side, bid, ask, day(r))
  OBVIOUS
<1>7. PICK e : stream(t, s, b, e)
  BY <1>1, <1>2, <1>5, <1>6 DEF quote_event
<1>8. /\ took' = add(took, taker_volume(s.fills)) /\ shown' = shown
      /\ note_rests(s)
  BY <1>1 DEF quote_event
<1>9. /\ t \in 0 .. MaxTime
      /\ state' = "RUNNING" /\ now' = t /\ dispatched' = dispatched
      /\ sim' = s /\ acct' = b
  BY <1>7, Streamed
<1>10. /\ Sane(s, fresh(sim), dispatched, acct.reserved, resting(sim), joined, printed)
       /\ Paid(s, acct.reserved) /\ Honest(acct, dispatched)
  BY <1>1, CallAdvances, Now DEF on_quote
<1>11. /\ Standing(s, dispatched, a, resting(s), joined', printed')
       /\ joined' \in [ClientOrderIds -> Nat] /\ printed' \in [ClientOrderIds -> Nat]
  BY <1>2, <1>8, <1>10, CallStands
<1>12. a \in Sound
  BY <1>11 DEF Standing, Honest
<1>13. /\ b \in Sound
       /\ Matched(a) => Matched(b)
       /\ Partitioned(a) => Partitioned(b)
       /\ b.reserved = a.reserved
  BY <1>6, <1>12, MarkQuote
<1>14. Standing(s, dispatched, b, resting(s), joined', printed')
  BY <1>11, <1>13, AfterMark
<1>15. took' \in Volumes /\ Balanced(s.book, shown', took')
  BY <1>8, <1>10, CallTakes
<1> QED
  BY <1>9, <1>11, <1>14, <1>15, Now DEF BacktestInv

(* A change of the market's status.                                        *)
LEMMA LifecycleEvent ==
    ASSUME BacktestInv, NEW t \in now .. MaxTime, NEW kind \in Lifecycles,
           lifecycle_event(t, kind)
    PROVE  BacktestInv'
<1>1. PICK s : s = on_lifecycle(sim, kind)
  OBVIOUS
<1>2. PICK e : stream(t, s, acct, e)
  BY <1>1 DEF lifecycle_event
<1>3. shown' = shown /\ took' = took /\ joined' = joined /\ printed' = printed
  BY DEF lifecycle_event, histories
<1>4. /\ t \in 0 .. MaxTime
      /\ state' = "RUNNING" /\ now' = t /\ dispatched' = dispatched
      /\ sim' = s /\ acct' = acct
  BY <1>2, Streamed
<1>5. PICK R, A, D, J, P : /\ R = acct.reserved /\ A = resting(sim) /\ D = dispatched
                           /\ J = joined /\ P = printed
  OBVIOUS
<1>6. /\ Sane(fresh(sim), fresh(sim), D, R, A, J, P) /\ sim \in Simulator
      /\ Paid(fresh(sim), R) /\ Honest(acct, D)
  BY <1>5, Now
<1>7. /\ Sane(s, fresh(sim), D, R, A, J, P)
      /\ Covered(fresh(sim), R) => Covered(s, R)
      /\ s.book = sim.book /\ s.fills = <<>>
      /\ \A x : Within(sim.pending, x) => Within(s.pending, x)
  BY <1>1, <1>6, OnLifecycle
<1>8. Paid(s, R)
  BY <1>6, <1>7 DEF Paid
<1>9. Standing(s, D, acct, A, J, P)
  BY <1>5, <1>6, <1>7, <1>8, AfterQuiet
<1>10. Within(sim.pending, A)
  <2>1. fresh(sim) \in Proper /\ fresh(sim).pending = sim.pending
        /\ resting(fresh(sim)) = resting(sim)
    BY <1>6, Fresh DEF Sane
  <2> QED
    BY <1>5, <2>1, Resting DEF Within
<1>11. Standing(s, D, acct, resting(s), J, P)
  BY <1>7, <1>9, <1>10, AfterStill
<1>12. Balanced(s.book, shown', took') /\ took' \in Volumes
  BY <1>3, <1>7 DEF BacktestInv
<1> QED
  BY <1>3, <1>4, <1>5, <1>11, <1>12 DEF BacktestInv

(* A settlement.                                                           *)
LEMMA SettlementEvent ==
    ASSUME BacktestInv, NEW t \in now .. MaxTime, NEW resolved, settlement_event(t, resolved)
    PROVE  BacktestInv'
<1>1. PICK s : s = fresh(sim)
  OBVIOUS
<1>2. PICK b : b = IF resolved = "None" THEN acct ELSE settle(acct, resolved, One, day(t))
  OBVIOUS
<1>3. PICK e : stream(t, s, b, e)
  BY <1>1, <1>2 DEF settlement_event
<1>4. shown' = shown /\ took' = took /\ joined' = joined /\ printed' = printed
  BY DEF settlement_event, histories
<1>5. /\ t \in 0 .. MaxTime
      /\ state' = "RUNNING" /\ now' = t /\ dispatched' = dispatched
      /\ sim' = s /\ acct' = b
  BY <1>3, Streamed
<1>6. PICK A, D, J, P : /\ A = resting(sim) /\ D = dispatched
                        /\ J = joined /\ P = printed
  OBVIOUS
<1>7. /\ Sane(s, s, D, acct.reserved, A, J, P) /\ sim \in Simulator /\ acct \in Sound
      /\ Paid(s, acct.reserved) /\ Honest(acct, D) /\ s.fills = <<>> /\ s.book = sim.book
      /\ resting(s) = A
  BY <1>1, <1>6, Now, Fresh
<1>8. Standing(s, D, acct, A, J, P)
  BY <1>7, AfterQuiet
<1>9. /\ b \in Sound
      /\ Matched(acct) => Matched(b)
      /\ Partitioned(acct) => Partitioned(b)
      /\ b.reserved = acct.reserved
  <2>1. One \in Nat
    BY DEF One
  <2>2. CASE resolved = "None"
    BY <1>2, <1>7, <2>2
  <2>3. CASE resolved # "None"
    BY <1>2, <1>7, <2>1, <2>3, Settle
  <2> QED
    BY <2>2, <2>3
<1>10. Standing(s, D, b, A, J, P)
  BY <1>8, <1>9, AfterMark
<1>11. Balanced(s.book, shown', took') /\ took' \in Volumes
  BY <1>4, <1>7 DEF BacktestInv
<1> QED
  BY <1>4, <1>5, <1>6, <1>7, <1>10, <1>11 DEF BacktestInv

(* What a trade prints, for the orders that rest when it comes.            *)
LEMMA TradePrints ==
    ASSUME BacktestInv, NEW s \in Proper, NEW t \in Trades, NEW r
    PROVE  LET here == {c \in resting(s) :
                           LET p == order_at(s.pending, c)
                           IN  p.effective_at <= r /\ passive_fill(t, p.intent)}
               more == [c \in ClientOrderIds |->
                           printed[c] + (IF c \in here THEN t.quantity ELSE 0)]
           IN  more \in [ClientOrderIds -> Nat] /\ Prints(s, t, r, resting(s), printed, more)
<1>1. PICK P \in [ClientOrderIds -> Nat] : P = printed
  BY DEF BacktestInv
<1>2. PICK here : here = {c \in resting(s) :
                          LET p == order_at(s.pending, c)
                          IN  p.effective_at <= r /\ passive_fill(t, p.intent)}
  OBVIOUS
<1>3. PICK z \in Nat : z = t.quantity
  BY BacktestAssumption
<1>4. PICK more : more = [c \in ClientOrderIds |-> P[c] + (IF c \in here THEN z ELSE 0)]
  OBVIOUS
<1>5. ASSUME NEW c \in ClientOrderIds
      PROVE  /\ more[c] \in Nat /\ P[c] <= more[c]
             /\ c \in here => more[c] = P[c] + z
  <2>1. PICK x \in Nat : x = P[c]
    OBVIOUS
  <2>2. more[c] = x + (IF c \in here THEN z ELSE 0)
    BY <1>4, <2>1
  <2> QED
    BY <2>1, <2>2
<1>6. more \in [ClientOrderIds -> Nat] /\ Grows(P, more)
  BY <1>4, <1>5 DEF Grows
<1>7. ASSUME NEW p \in Orders(s.pending), p.active
      PROVE  /\ p.id \in resting(s)
             /\ p.effective_at <= r /\ passive_fill(t, p.intent) =>
                   more[p.id] = P[p.id] + t.quantity
  <2>1. s.pending \in Ledger
    BY Parts DEF Proper
  <2>2. p.id \in resting(s) /\ p.id \in ClientOrderIds
    BY <1>7, Resting
  <2>3. order_at(s.pending, p.id) = p
    BY <2>1, Lookup
  <2>4. p.effective_at <= r /\ passive_fill(t, p.intent) => p.id \in here
    BY <1>2, <2>2, <2>3
  <2> QED
    BY <1>3, <1>5, <2>2, <2>4
<1>8. Prints(s, t, r, resting(s), P, more)
  BY <1>6, <1>7 DEF Prints
<1> QED
  BY <1>1, <1>2, <1>3, <1>4, <1>6, <1>8

(* A trade.                                                                *)
LEMMA TradeEvent ==
    ASSUME BacktestInv, NEW t \in now .. MaxTime, NEW r \in arrivals(t),
           NEW tr \in Trades, trade_event(t, r, tr)
    PROVE  BacktestInv'
<1>1. PICK m : m = advance(fresh(sim), r)
  OBVIOUS
<1>2. PICK s : s = apply_trade(m, tr, r)
  OBVIOUS
<1>3. PICK a : a = on_fills(acct, s.fills)
  OBVIOUS
<1>4. PICK e : stream(t, s, a, e)
  BY <1>1, <1>2, <1>3 DEF trade_event, on_trade
<1>5. took' = add(took, taker_volume(s.fills)) /\ shown' = shown
  BY <1>1, <1>2 DEF trade_event, on_trade
<1>6. PICK A, J, P, R, D : /\ A = resting(sim) /\ J = joined /\ P = printed
                           /\ R = acct.reserved /\ D = dispatched
  OBVIOUS
<1>7. joined' = joining(m, A, J)
  BY <1>1, <1>6 DEF trade_event, joining
<1>8. /\ t \in 0 .. MaxTime
      /\ state' = "RUNNING" /\ now' = t /\ dispatched' = dispatched
      /\ sim' = s /\ acct' = a
  BY <1>4, Streamed
<1>9. /\ J \in [ClientOrderIds -> Nat] /\ P \in [ClientOrderIds -> Nat]
      /\ R \in [ClientOrderIds -> Nat] /\ Honest(acct, D)
  BY <1>6, Now DEF BacktestInv
<1>10. PICK f : f = fresh(sim)
  OBVIOUS
<1>11. Sane(m, f, D, R, A, J, P) /\ Paid(m, R)
  BY <1>1, <1>6, <1>10, CallAdvances
<1>12. /\ Sane(m, f, D, R, resting(m), joined', P)
       /\ joined' \in [ClientOrderIds -> Nat]
  BY <1>7, <1>9, <1>11, Rests
<1>13. m \in Proper
  BY <1>11 DEF Sane
<1>14. printed' \in [ClientOrderIds -> Nat] /\ Prints(m, tr, r, resting(m), P, printed')
  BY <1>1, <1>6, <1>13, TradePrints DEF trade_event
<1>15. tr.quantity \in Nat /\ r \in Int
  BY BacktestAssumption DEF arrivals
<1>16. PICK J2 \in [ClientOrderIds -> Nat], P2 \in [ClientOrderIds -> Nat] :
          J2 = joined' /\ P2 = printed'
  BY <1>12, <1>14
<1>17. PICK B : B = resting(m)
  OBVIOUS
<1>18. Sane(m, f, D, R, B, J2, P) /\ Prints(m, tr, r, B, P, P2)
  BY <1>12, <1>14, <1>16, <1>17
<1>19. /\ Sane(s, f, D, R, B, J2, P2)
       /\ Covered(m, R) => Covered(s, R)
       /\ Within(s.pending, B)
  BY <1>2, <1>9, <1>15, <1>18, ApplyTrade
<1>20. Paid(s, R)
  BY <1>11, <1>19 DEF Paid
<1>21. Standing(s, D, a, B, J2, P2)
  BY <1>3, <1>6, <1>9, <1>19, <1>20, AfterCall
<1>22. Standing(s, D, a, resting(s), J2, P2)
  BY <1>19, <1>21, AfterStill
<1>23. took' \in Volumes /\ Balanced(s.book, shown', took')
  BY <1>5, <1>10, <1>19, CallTakes
<1> QED
  BY <1>6, <1>8, <1>12, <1>14, <1>16, <1>22, <1>23, Now DEF BacktestInv

-----------------------------------------------------------------------------
(* The decisions, and the end of the run.                                  *)

(* What the gate lets through has a price, and is an order.                *)
LEMMA Ordered ==
    ASSUME BacktestInv, NEW c \in ClientOrderIds, NEW i \in Intents,
           NEW o, o = an_order(i, c), within_bounds(o, now)
    PROVE  o \in OrderIntent(ClientOrderIds) /\ o.id = c
<1>1. PICK z : z = [i EXCEPT !.price = 0]
  OBVIOUS
<1>2. is_intent(i, {"none"})
  BY BacktestAssumption
<1>3. i \in OrderIntent({"none"}) \/ (i.order_type = "market" /\ i.price = NoPrice
                                      /\ z \in OrderIntent({"none"}))
  BY <1>1, <1>2 DEF is_intent
<1>4. PICK x : x = IF i.expires_at = NoExpiry THEN NoExpiry ELSE now + i.expires_at
  OBVIOUS
<1>5. CASE i \in OrderIntent({"none"})
  <2>1. o = [i EXCEPT !.id = c, !.expires_at = x]
    BY <1>4, <1>5 DEF an_order, OrderIntent
  <2>2. x \in Int
    <3>1. now \in Int /\ i.expires_at \in Int
      BY <1>5, BacktestAssumption DEF BacktestInv, OrderIntent
    <3> QED
      BY <1>4, <3>1 DEF NoExpiry
  <2> QED
    BY <1>5, <2>1, <2>2 DEF OrderIntent
<1>6. CASE i \notin OrderIntent({"none"})
  <2>1. i.order_type = "market" /\ i.price = NoPrice
    BY <1>3, <1>6
  <2>2. o.order_type = i.order_type /\ o.price = i.price
    BY DEF an_order
  <2>3. o.price # NoPrice
    BY <2>1, <2>2 DEF within_bounds
  <2> QED
    BY <2>1, <2>2, <2>3
<1> QED
  BY <1>5, <1>6

(* Orders that rest have been dispatched.                                  *)
LEMMA RestingDispatched ==
    ASSUME BacktestInv
    PROVE  /\ resting(sim) \subseteq dispatched
           /\ Within(sim.pending, resting(sim))
<1>1. PICK f : f = fresh(sim)
  OBVIOUS
<1>2. /\ f \in Proper /\ f.pending = sim.pending /\ resting(f) = resting(sim)
      /\ \A p \in Orders(f.pending) : p.id \in dispatched
  BY <1>1, Now, Fresh DEF Sane
<1>3. ASSUME NEW c \in resting(sim)
      PROVE  c \in dispatched
  BY <1>2, Resting
<1>4. Within(sim.pending, resting(sim))
  BY <1>2, Resting DEF Within
<1> QED
  BY <1>3, <1>4

(* A reservation for a new order.                                          *)
LEMMA ReservedFor ==
    ASSUME BacktestInv, NEW o \in OrderIntent(ClientOrderIds), o.id \notin dispatched,
           ~cannot_reserve(acct, o)
    PROVE  LET b == reserve(acct, o)
           IN  /\ Honest(b, dispatched \union {o.id})
               /\ b.reserved \in [ClientOrderIds -> Nat]
               /\ Reserves(acct.reserved, b.reserved, o)
<1>1. PICK b : b = reserve(acct, o)
  OBVIOUS
<1>2. o.id \in ClientOrderIds
  BY OrderType
<1>3. acct \in Sound /\ Honest(acct, dispatched) /\ acct.reserved[o.id] = 0
  BY <1>2, Now DEF Honest
<1>4. /\ b \in Sound
      /\ Matched(acct) => Matched(b)
      /\ Partitioned(acct) => Partitioned(b)
      /\ \A c \in ClientOrderIds \ {o.id} : b.reserved[c] = acct.reserved[c]
      /\ o.order_side = "BUY" => b.reserved[o.id] = notional(o)
  BY <1>1, <1>3, Reserve
<1>5. b.reserved \in [ClientOrderIds -> Nat]
  BY <1>4 DEF Sound, Account
<1>6. \A c \in ClientOrderIds \ (dispatched \union {o.id}) : b.reserved[c] = 0
  BY <1>3, <1>4 DEF Honest
<1>7. Honest(b, dispatched \union {o.id})
  BY <1>3, <1>4, <1>6 DEF Honest
<1>8. Reserves(acct.reserved, b.reserved, o)
  BY <1>4 DEF Reserves
<1> QED
  BY <1>1, <1>5, <1>7, <1>8

(* The reservation of a new order changes nothing for the others.          *)
LEMMA OthersKept ==
    ASSUME NEW s, NEW u, NEW D, NEW R \in [ClientOrderIds -> Nat], NEW A, NEW J, NEW P,
           Sane(s, u, D, R, A, J, P), s.fills = <<>>, NEW o, o.id \notin D,
           NEW R2 \in [ClientOrderIds -> Nat], Reserves(R, R2, o)
    PROVE  /\ Sane(s, u, D \union {o.id}, R2, A, J, P)
           /\ Covered(s, R) => Covered(s, R2)
<1>1. s \in Proper /\ s.pending \in Ledger /\ Orders(s.pending) \subseteq PendingOrder
  BY Parts, Lookup DEF Sane, Proper
<1>2. ASSUME NEW p \in Orders(s.pending)
      PROVE  R2[p.id] = R[p.id]
  <2>1. p.id \in ClientOrderIds /\ p.id \in D
    BY <1>1 DEF Sane, PendingOrder
  <2> QED
    BY <2>1 DEF Reserves
<1>3. Funded(s, R2)
  BY <1>2 DEF Sane, Funded
<1>4. Sane(s, u, D \union {o.id}, R2, A, J, P)
  BY <1>3 DEF Sane
<1>5. \A c \in ClientOrderIds : spent(s.fills, c) <= R2[c]
  <2>1. SUFFICES ASSUME NEW c \in ClientOrderIds
                 PROVE  spent(s.fills, c) <= R2[c]
    OBVIOUS
  <2>2. PICK x \in Nat : x = R2[c]
    OBVIOUS
  <2>3. spent(s.fills, c) = 0
    BY <1>1, Parts, Spent, TotalOfNone DEF Proper
  <2> QED
    BY <2>2, <2>3
<1> QED
  BY <1>4, <1>5 DEF Covered

(* An order is placed.                                                     *)
LEMMA PlaceOrder ==
    ASSUME BacktestInv, NEW o \in OrderIntent(ClientOrderIds), place_order(o)
    PROVE  BacktestInv'
<1>1. /\ o.id \notin dispatched /\ ~cannot_reserve(acct, o)
      /\ allows(gate, acct, o, snapshot, now, day(now))
      /\ dispatched' = dispatched \union {o.id} /\ now' = now /\ shown' = shown
      /\ state = "RUNNING"
  BY DEF place_order, deciding
<1>2. AllowMarketOrders = FALSE => o.order_type # "market"
  BY <1>1 DEF allows, within_bounds
<1>3. PICK b : b = reserve(acct, o)
  OBVIOUS
<1>4. /\ Honest(b, dispatched') /\ b.reserved \in [ClientOrderIds -> Nat]
      /\ Reserves(acct.reserved, b.reserved, o)
  BY <1>1, <1>3, ReservedFor
<1>5. PICK R \in [ClientOrderIds -> Nat], R2 \in [ClientOrderIds -> Nat] :
         R = acct.reserved /\ R2 = b.reserved
  BY <1>4, Now
<1>6. PICK A, J, P, D, D2, f : /\ A = resting(sim) /\ J = joined /\ P = printed
                               /\ D = dispatched /\ D2 = dispatched' /\ f = fresh(sim)
  OBVIOUS
<1>7. /\ Sane(f, f, D, R, A, J, P) /\ f.fills = <<>> /\ sim \in Simulator /\ Paid(f, R)
      /\ A \subseteq D /\ o.id \notin D /\ D2 = D \union {o.id} /\ Reserves(R, R2, o)
      /\ resting(f) = A /\ f.book = sim.book
  BY <1>1, <1>4, <1>5, <1>6, Now, RestingDispatched, Fresh
<1>8. o.id \in ClientOrderIds /\ now \in Int
  BY OrderType, BacktestAssumption DEF BacktestInv
<1>9. dispatched' \subseteq ClientOrderIds /\ now' \in 0 .. MaxTime
  BY <1>1, <1>8 DEF BacktestInv
<1>10. CASE refuses_orders(sim)
  <2>1. /\ state' = "ABORTED" /\ acct' = b /\ sim' = sim /\ took' = took
        /\ joined' = joined /\ printed' = printed
    BY <1>3, <1>10 DEF place_order
  <2>2. Sane(f, f, D2, R2, A, J, P) /\ (Covered(f, R) => Covered(f, R2))
    BY <1>7, OthersKept
  <2>3. Paid(f, R2)
    BY <1>7, <2>2 DEF Paid
  <2>4. Standing(sim, D2, b, A, J, P)
    BY <1>4, <1>5, <1>6, <1>7, <2>2, <2>3 DEF Standing
  <2> QED
    BY <1>1, <1>6, <1>9, <2>1, <2>4 DEF BacktestInv
<1>11. CASE ~refuses_orders(sim)
  <2>1. PICK s : s = submit(sim, o, now)
    OBVIOUS
  <2>2. /\ sim' = s /\ acct' = on_fills(b, s.fills) /\ state' = state
        /\ took' = add(took, taker_volume(s.fills))
        /\ note_rests(s)
    BY <1>3, <1>11, <2>1 DEF place_order
  <2>3. Sane(fresh(sim), f, D, R, A, J, P)
    BY <1>6, <1>7
  <2>4. /\ Sane(s, f, D \union {o.id}, R2, A, J, P)
        /\ Covered(fresh(sim), R) /\ o.order_type # "market" => Covered(s, R2)
    BY <1>7, <1>8, <2>1, <2>3, Submit
  <2>5. Paid(s, R2)
    BY <1>2, <1>6, <1>7, <2>4 DEF Paid
  <2>6. /\ Standing(s, D2, on_fills(b, s.fills), resting(s), joined', printed')
        /\ joined' \in [ClientOrderIds -> Nat] /\ printed' \in [ClientOrderIds -> Nat]
    <3>1. /\ Sane(s, f, D2, b.reserved, resting(sim), joined, printed)
          /\ Paid(s, b.reserved) /\ Honest(b, D2)
      BY <1>4, <1>5, <1>6, <1>7, <2>4, <2>5
    <3> QED
      BY <2>2, <3>1, CallStands
  <2>7. took' \in Volumes /\ Balanced(s.book, shown', took')
    BY <1>1, <1>6, <2>2, <2>4, CallTakes
  <2> QED
    BY <1>1, <1>6, <1>9, <2>2, <2>6, <2>7 DEF BacktestInv
<1> QED
  BY <1>10, <1>11

(* An order is canceled.                                                   *)
LEMMA CancelOrder ==
    ASSUME BacktestInv, NEW c \in ClientOrderIds, cancel_order(c)
    PROVE  BacktestInv'
<1>1. PICK s : s = cancel(sim, c, now)
  OBVIOUS
<1>2. /\ sim' = s /\ acct' = acct /\ state' = state /\ now' = now /\ dispatched' = dispatched
      /\ shown' = shown /\ took' = took /\ joined' = joined /\ printed' = printed
      /\ state = "RUNNING"
  BY <1>1 DEF cancel_order, deciding, histories
<1>3. PICK R, A, D, J, P : /\ R = acct.reserved /\ A = resting(sim) /\ D = dispatched
                           /\ J = joined /\ P = printed
  OBVIOUS
<1>4. /\ Sane(fresh(sim), fresh(sim), D, R, A, J, P) /\ sim \in Simulator
      /\ Paid(fresh(sim), R) /\ Honest(acct, D) /\ Within(sim.pending, A)
  BY <1>3, Now, RestingDispatched
<1>5. now \in Int
  BY BacktestAssumption DEF BacktestInv
<1>6. /\ Sane(s, fresh(sim), D, R, A, J, P)
      /\ Covered(fresh(sim), R) => Covered(s, R)
      /\ s.book = sim.book /\ s.fills = <<>>
      /\ \A x : Within(sim.pending, x) => Within(s.pending, x)
  BY <1>1, <1>4, <1>5, Cancel
<1>7. Paid(s, R)
  BY <1>4, <1>6 DEF Paid
<1>8. Standing(s, D, acct, A, J, P)
  BY <1>3, <1>4, <1>6, <1>7, AfterQuiet
<1>9. Standing(s, D, acct, resting(s), J, P)
  BY <1>4, <1>6, <1>8, AfterStill
<1>10. Balanced(s.book, shown', took')
  BY <1>2, <1>6 DEF BacktestInv
<1> QED
  BY <1>2, <1>3, <1>9, <1>10 DEF BacktestInv

(* The run is over.                                                        *)
LEMMA Finish ==
    ASSUME BacktestInv, finish
    PROVE  BacktestInv'
<1>1. PICK s : s = flush_inflight(sim)
  OBVIOUS
<1>2. /\ sim' = s /\ acct' = on_fills(acct, s.fills) /\ state' = "DISPOSED" /\ now' = now
      /\ dispatched' = dispatched /\ shown' = shown
      /\ took' = add(took, taker_volume(s.fills))
      /\ note_rests(s)
  BY <1>1 DEF finish
<1>3. PICK R \in [ClientOrderIds -> Nat] : R = acct.reserved
  BY Now
<1>4. PICK A, D, J, P : /\ A = resting(sim) /\ D = dispatched
                        /\ J = joined /\ P = printed
  OBVIOUS
<1>5. /\ Sane(fresh(sim), fresh(sim), D, R, A, J, P) /\ sim \in Simulator
      /\ Paid(fresh(sim), R) /\ Honest(acct, D)
  BY <1>3, <1>4, Now
<1>6. /\ Sane(s, fresh(sim), D, R, A, J, P)
      /\ Covered(fresh(sim), R) => Covered(s, R)
      /\ \A y \in Orders(s.pending) : ~in_flight(y)
  BY <1>1, <1>5, Flush
<1>7. Paid(s, R)
  BY <1>5, <1>6 DEF Paid
<1>8. /\ Standing(s, D, on_fills(acct, s.fills), resting(s), joined', printed')
      /\ joined' \in [ClientOrderIds -> Nat] /\ printed' \in [ClientOrderIds -> Nat]
  BY <1>2, <1>3, <1>4, <1>5, <1>6, <1>7, CallStands
<1>9. took' \in Volumes /\ Balanced(s.book, shown', took')
  BY <1>2, <1>6, CallTakes
<1>10. NoneInFlight(s)
  BY <1>6 DEF NoneInFlight
<1> QED
  BY <1>2, <1>4, <1>8, <1>9, <1>10 DEF BacktestInv

-----------------------------------------------------------------------------
(* The invariant holds throughout.                                         *)

(* Every step of a run keeps it.                                           *)
LEMMA KeepsInvariant ==
    BacktestInv /\ [Next]_vars => BacktestInv'
<1> SUFFICES ASSUME BacktestInv, [Next]_vars
             PROVE  BacktestInv'
  OBVIOUS
<1>1. CASE start
  BY <1>1 DEF start, histories, BacktestInv
<1>2. ASSUME NEW t \in now .. MaxTime, NEW r \in arrivals(t), NEW b \in Books,
             book_event(t, r, b)
      PROVE  BacktestInv'
  BY <1>2, BookEvent
<1>3. ASSUME NEW t \in now .. MaxTime, NEW r \in arrivals(t), NEW q \in Quotes,
             quote_event(t, r, q)
      PROVE  BacktestInv'
  BY <1>3, QuoteEvent
<1>4. ASSUME NEW t \in now .. MaxTime, NEW r \in arrivals(t), NEW tr \in Trades,
             trade_event(t, r, tr)
      PROVE  BacktestInv'
  BY <1>4, TradeEvent
<1>5. ASSUME NEW t \in now .. MaxTime, NEW k \in Lifecycles, lifecycle_event(t, k)
      PROVE  BacktestInv'
  BY <1>5, LifecycleEvent
<1>6. ASSUME NEW t \in now .. MaxTime, NEW r \in Sides \cup {"None"}, settlement_event(t, r)
      PROVE  BacktestInv'
  BY <1>6, SettlementEvent
<1>7. ASSUME NEW c \in ClientOrderIds, NEW i \in Intents, place_order(an_order(i, c))
      PROVE  BacktestInv'
  <2>1. PICK o : o = an_order(i, c)
    OBVIOUS
  <2>2. within_bounds(o, now)
    BY <1>7, <2>1 DEF place_order, allows
  <2>3. o \in OrderIntent(ClientOrderIds)
    BY <2>1, <2>2, Ordered
  <2> QED
    BY <1>7, <2>1, <2>3, PlaceOrder
<1>8. ASSUME NEW c \in ClientOrderIds, NEW i \in Intents, reject_order(an_order(i, c))
      PROVE  BacktestInv'
  BY <1>8 DEF reject_order, histories, BacktestInv
<1>9. ASSUME NEW c \in ClientOrderIds, cancel_order(c)
      PROVE  BacktestInv'
  BY <1>9, CancelOrder
<1>10. CASE finish
  BY <1>10, Finish
<1>11. CASE UNCHANGED vars
  BY <1>11 DEF vars, BacktestInv
<1> QED
  BY <1>1, <1>2, <1>3, <1>4, <1>5, <1>6, <1>7, <1>8, <1>9, <1>10, <1>11 DEF Next

(* The inductive invariant holds in every state of a run.                  *)
THEOREM BacktestInvariant ==
    Spec => []BacktestInv
<1>1. Init => BacktestInv
  BY Start
<1>2. BacktestInv /\ [Next]_vars => BacktestInv'
  BY KeepsInvariant
<1> QED
  BY <1>1, <1>2, PTL DEF Spec

(* No balance, position, reservation or queue becomes negative, and no     *)
(* order is filled beyond its quantity: the shapes that on_fill and        *)
(* _apply_trade rely on.                                                   *)
THEOREM RunTyped ==
    Spec => []BacktestTypeOK
<1>1. ASSUME BacktestInv
      PROVE  BacktestTypeOK
  <2>1. acct \in Account /\ sim \in Simulator
    BY <1>1, Now DEF Sound
  <2>2. /\ acct.total >= 0 /\ acct.available >= 0 /\ acct.held >= 0
        /\ \A s \in Outcomes : acct.quantity[s] >= 0 /\ acct.cost[s] >= 0
        /\ \A c \in ClientOrderIds : acct.reserved[c] >= 0
    BY <2>1 DEF Account
  <2>3. ASSUME NEW k \in DOMAIN sim.pending
        PROVE  LET p == sim.pending[k]
               IN  p.queue_ahead >= 0 /\ p.filled \in 0 .. p.intent.quantity
    <3>1. sim.pending \in Ledger /\ fresh(sim) \in Proper /\ fresh(sim).pending = sim.pending
      BY <1>1, <2>1, Now, Parts, Fresh DEF Sane
    <3>2. PICK p \in Orders(sim.pending) : p = sim.pending[k]
      BY DEF Orders
    <3>3. p \in PendingOrder /\ Tidy(p)
      BY <3>1, <3>2, Lookup DEF Proper
    <3>4. PICK x \in Nat, y \in Nat, z \in Nat :
             x = p.queue_ahead /\ y = p.filled /\ z = p.intent.quantity
      BY <3>3 DEF PendingOrder, OrderIntent
    <3>5. y <= z
      BY <3>3, <3>4 DEF Tidy
    <3> QED
      BY <3>2, <3>4, <3>5
  <2> QED
    BY <1>1, <2>2, <2>3 DEF BacktestTypeOK, BacktestInv
<1> QED
  BY <1>1, BacktestInvariant, PTL

(* _with_opposite_levels_debited: what several taker orders have taken of  *)
(* a ladder of the book, and what the simulator still holds of it, never   *)
(* exceed what the book event showed of that ladder.                       *)
THEOREM NoLevelSoldTwice ==
    Spec => []LiquidityNotReused
<1>1. ASSUME BacktestInv
      PROVE  LiquidityNotReused
  BY <1>1 DEF BacktestInv, Balanced, LiquidityNotReused, shows
<1> QED
  BY <1>1, BacktestInvariant, PTL

(* _apply_trade: a resting order is filled only by what was printed beyond *)
(* the queue that stood before it when it came to rest.                    *)
THEOREM QueueKept ==
    Spec => []QueueRespected
<1>1. ASSUME BacktestInv, NEW c \in resting(sim)
      PROVE  order_at(sim.pending, c).filled <= Floor0(printed[c] - joined[c])
  <2>1. PICK f : f = fresh(sim)
    OBVIOUS
  <2>2. PICK A, D, J, P : A = resting(sim) /\ D = dispatched /\ J = joined /\ P = printed
    OBVIOUS
  <2>3. /\ f \in Proper /\ f.pending = sim.pending /\ resting(f) = A
        /\ Sane(f, f, D, acct.reserved, A, J, P)
    BY <1>1, <2>1, <2>2, Now, Fresh DEF Sane
  <2>4. PICK p \in Orders(f.pending) :
           p = order_at(sim.pending, c) /\ p.id = c /\ c \in ClientOrderIds
    BY <1>1, <2>2, <2>3, Resting
  <2>5. Waits(p, A, J, P)
    BY <2>3 DEF Sane
  <2>6. f.pending \in Ledger
    BY <2>3, Parts DEF Proper
  <2>7. p \in PendingOrder
    BY <2>6, Lookup
  <2>8. PICK q \in Nat, n \in Nat : q = p.queue_ahead /\ n = p.filled
    BY <2>7 DEF PendingOrder
  <2>9. PICK x \in Nat, y \in Nat : x = printed[c] /\ y = joined[c]
    BY <1>1, <2>4 DEF BacktestInv
  <2>10. n + y - q <= x /\ (n > 0 => q = 0)
    BY <1>1, <2>2, <2>4, <2>5, <2>8, <2>9 DEF Waits
  <2>11. Floor0(x - y) = IF x - y >= 0 THEN x - y ELSE 0
    BY Cut
  <2>12. n <= Floor0(x - y)
    BY <2>10, <2>11
  <2> QED
    BY <2>4, <2>8, <2>9, <2>12
<1>2. BacktestInv => QueueRespected
  BY <1>1 DEF QueueRespected
<1> QED
  BY <1>2, BacktestInvariant, PTL

(* Where a sleeve may not send market orders (allow_market_orders, which   *)
(* is off unless a configuration turns it on), _reserve,                   *)
(* _consume_reservation and _apply_fill_cash keep what is held equal to    *)
(* the reservations, and held and available cash equal to the total, up to *)
(* what was cut off at zero.                                               *)
THEOREM CashSplit ==
    ASSUME AllowMarketOrders = FALSE
    PROVE  Spec => []CashPartition
<1>1. ASSUME BacktestInv
      PROVE  CashPartition
  <2>1. Partitioned(acct)
    BY <1>1, Now DEF Honest
  <2> QED
    BY <2>1 DEF Partitioned, CashPartition
<1> QED
  BY <1>1, BacktestInvariant, PTL

(* reserve_intent, on_fill and the simulator: a live buy has what its      *)
(* remainder can cost reserved for it, through latency, partial fills, the *)
(* queue and the flush.                                                    *)
THEOREM BuysFunded ==
    Spec => []LiveBuysFunded
<1>1. ASSUME BacktestInv, NEW k \in DOMAIN sim.pending,
             sim.pending[k].status \in Live, sim.pending[k].intent.order_side = "BUY"
      PROVE  acct.reserved[sim.pending[k].id] >=
                sim.pending[k].intent.price
                   * (sim.pending[k].intent.quantity - sim.pending[k].filled)
  <2>1. PICK f : f = fresh(sim)
    OBVIOUS
  <2>2. PICK A, D, J, P, R : /\ A = resting(sim) /\ D = dispatched /\ J = joined /\ P = printed
                             /\ R = acct.reserved
    OBVIOUS
  <2>3. /\ f \in Proper /\ f.pending = sim.pending /\ f.fills = <<>>
        /\ Sane(f, f, D, R, A, J, P) /\ R \in [ClientOrderIds -> Nat]
    BY <1>1, <2>1, <2>2, Now, Fresh DEF Sane
  <2>4. PICK p \in Orders(f.pending) : p = sim.pending[k]
    BY <2>3 DEF Orders
  <2>5. f.pending \in Ledger /\ f.fills \in Seq(Fill)
    BY <2>3, Parts DEF Proper
  <2>6. p \in PendingOrder /\ p.id \in ClientOrderIds /\ Tidy(p)
    BY <2>3, <2>5, Lookup DEF PendingOrder, Proper
  <2>7. spent(f.fills, p.id) + claim(p) <= R[p.id]
    BY <1>1, <2>3, <2>4 DEF Sane, Funded
  <2>8. spent(f.fills, p.id) = 0
    BY <2>3, <2>5, Spent, TotalOfNone
  <2>9. PICK x \in Nat, y \in Nat : x = claim(p) /\ y = R[p.id]
    BY <2>3, <2>6, ClaimType
  <2>10. y >= x
    BY <2>7, <2>8, <2>9
  <2> QED
    BY <2>2, <2>4, <2>9, <2>10 DEF claim
<1>2. BacktestInv => LiveBuysFunded
  BY <1>1 DEF LiveBuysFunded
<1> QED
  BY <1>2, BacktestInvariant, PTL

(* StatefulContextProvider's cash and PnLTracker's books, kept by two      *)
(* classes from the same fills, agree.                                     *)
THEOREM CashAndBooksAgree ==
    Spec => []CashMatchesBooks
<1>1. ASSUME BacktestInv
      PROVE  CashMatchesBooks
  <2>1. acct \in Account /\ Matched(acct)
    BY <1>1, Now DEF Honest, Sound
  <2>2. PICK total \in Int, cut \in Int, cash \in Int, won \in Int, cost \in Int,
             over \in Int, due \in Int :
           /\ total = acct.total /\ cut = acct.cut_total /\ cash = StartingCash
           /\ won = acct.realized /\ cost = gross_exposure(acct)
           /\ over = acct.oversold /\ due = acct.uncredited
    <3>1. acct.total \in Int /\ acct.cut_total \in Int /\ StartingCash \in Int
      BY <2>1, AccountAssumption DEF Account
    <3>2. acct.realized \in Int /\ acct.oversold \in Int /\ acct.uncredited \in Int
      BY <2>1 DEF Account
    <3>3. gross_exposure(acct) \in Int
      BY <2>1 DEF Account, Outcomes, gross_exposure
    <3> QED
      BY <3>1, <3>2, <3>3
  <2>3. total - cut = cash + (won - cost + over) - due
    BY <2>1, <2>2 DEF Matched, book_value
  <2>4. total = cash + won - cost - due + over + cut
    BY <2>2, <2>3
  <2> QED
    BY <2>2, <2>4 DEF CashMatchesBooks
<1> QED
  BY <1>1, BacktestInvariant, PTL

(* flush_inflight: when the run is over, no submit is still under way.     *)
THEOREM NothingInFlight ==
    Spec => []FlushResolvesInflight
<1>1. ASSUME BacktestInv, state = "DISPOSED", NEW k \in DOMAIN sim.pending
      PROVE  ~in_flight(sim.pending[k])
  <2>1. sim.pending[k] \in Orders(sim.pending)
    BY DEF Orders
  <2> QED
    BY <1>1, <2>1 DEF BacktestInv, NoneInFlight
<1>2. BacktestInv => FlushResolvesInflight
  BY <1>1 DEF FlushResolvesInflight
<1> QED
  BY <1>2, BacktestInvariant, PTL
=============================================================================
