------------------------- MODULE Accounting_proofs -------------------------
(***************************************************************************)
(* Proofs about module Accounting, for every set of keys, prices, sizes    *)
(* and fees.  The inductive invariant is AccountingInv; what one fill does *)
(* to one position is settled first, on integers, case by case.            *)
(***************************************************************************)
EXTENDS Accounting, Lists_proofs, FiniteSetTheorems, TLAPS

(* The truncating division behind the average loses less than its divisor. *)
LEMMA Truncation ==
    ASSUME NEW a \in Nat, NEW n \in Nat \ {0}
    PROVE  /\ a \div n \in Nat
           /\ (a \div n) * n <= a
           /\ a < (a \div n) * n + n
  BY SMT

(* Averaging a growing position, update_position_for_fill's same-side arm: *)
(* the new cost basis differs from the old one plus the fill by less than  *)
(* one tick per contract.                                                  *)
LEMMA AverageDrift ==
    ASSUME NEW p \in Position, NEW q \in Int, NEW price \in Nat,
           p.quantity # 0, same_side(p, q)
    PROVE  /\ vwap(p, q, price) \in Nat
           /\ abs(p.quantity + q) \in Nat \ {0}
           /\ (p.quantity * p.avg + q * price) - (p.quantity + q) * vwap(p, q, price)
                \in -(abs(p.quantity + q) - 1) .. abs(p.quantity + q) - 1
<1> DEFINE total == p.quantity * p.avg + q * price
           n == p.quantity + q
<1>1. p.quantity \in Int /\ p.avg \in Nat
  BY DEF Position
<1>2. total \in Int /\ n \in Int
  BY <1>1
<1>3. CASE p.quantity > 0
  <2>1. q >= 0
    BY <1>1, <1>3 DEF same_side, signum
  <2>2. p.quantity * p.avg >= 0 /\ q * price >= 0
    BY <1>1, <1>3, <2>1
  <2>3. total \in Nat /\ n \in Nat \ {0} /\ abs(total) = total /\ abs(n) = n
    BY <1>1, <1>2, <1>3, <2>1, <2>2 DEF abs
  <2>4. vwap(p, q, price) = total \div n
    BY <2>3 DEF vwap
  <2> HIDE DEF total, n
  <2>5. /\ total \div n \in Nat
        /\ (total \div n) * n <= total
        /\ total < (total \div n) * n + n
    BY <2>3, Truncation
  <2>6. PICK v \in Nat : v = total \div n
    BY <2>5
  <2>7. v * n <= total /\ total < v * n + n /\ v * n = n * v /\ n * v \in Int
    BY <2>3, <2>5, <2>6
  <2>8. total - n * v \in -(n - 1) .. n - 1
    BY <2>3, <2>7
  <2>9. vwap(p, q, price) = v /\ abs(n) = n
    BY <2>3, <2>4, <2>6
  <2>10. /\ vwap(p, q, price) \in Nat
         /\ abs(n) \in Nat \ {0}
         /\ total - n * vwap(p, q, price) \in -(abs(n) - 1) .. abs(n) - 1
    BY <2>3, <2>8, <2>9
  <2> QED
    BY <2>10 DEF total, n
<1>4. CASE p.quantity < 0
  <2>1. q <= 0
    BY <1>1, <1>4 DEF same_side, signum
  <2>2. p.quantity * p.avg <= 0 /\ q * price <= 0
    BY <1>1, <1>4, <2>1
  <2>3. /\ total <= 0 /\ -total \in Nat /\ -n \in Nat \ {0}
        /\ abs(total) = -total /\ abs(n) = -n
    BY <1>1, <1>2, <1>4, <2>1, <2>2 DEF abs
  <2>4. vwap(p, q, price) = (-total) \div (-n)
    BY <2>3 DEF vwap
  <2> HIDE DEF total, n
  <2>5. PICK t \in Nat, m \in Nat \ {0} : t = -total /\ m = -n
    BY <2>3
  <2>6. /\ t \div m \in Nat
        /\ (t \div m) * m <= t
        /\ t < (t \div m) * m + m
    BY Truncation
  <2>7. PICK v \in Nat : v = t \div m
    BY <2>6
  <2>8. v * m <= t /\ t < v * m + m /\ v * m \in Int
    BY <2>6, <2>7
  <2>9. total = -t /\ n = -m
    BY <1>2, <2>5
  <2>10. (-m) * v = -(v * m)
    OBVIOUS
  <2>11. total - n * v \in -(m - 1) .. m - 1
    BY <2>8, <2>9, <2>10
  <2>12. vwap(p, q, price) = v /\ abs(n) = m
    BY <2>3, <2>4, <2>5, <2>7
  <2>13. /\ vwap(p, q, price) \in Nat
         /\ abs(n) \in Nat \ {0}
         /\ total - n * vwap(p, q, price) \in -(abs(n) - 1) .. abs(n) - 1
    BY <2>11, <2>12
  <2> QED
    BY <2>13 DEF total, n
<1> QED
  BY <1>1, <1>3, <1>4

(* One fill moves the books of its position by what it rounds off at most, *)
(* whichever arm of update_position_for_fill it takes.                     *)
LEMMA FillBalances ==
    ASSUME NEW p \in Position, NEW q \in Int, NEW price \in Nat
    PROVE  LET u == updated(p, q, price)
           IN  /\ u \in Position
               /\ realized(p, q, price) \in Int
               /\ RoundedOff(p, q) \in Nat
               /\ (q * price + p.quantity * p.avg + realized(p, q, price)) - u.quantity * u.avg
                    \in -RoundedOff(p, q) .. RoundedOff(p, q)
<1> DEFINE u == updated(p, q, price)
           n == p.quantity + q
           r == realized(p, q, price)
<1>1. p.quantity \in Int /\ p.avg \in Nat /\ n \in Int
  BY DEF Position
<1>2. CASE p.quantity = 0
  <2>1. u = [quantity |-> n, avg |-> price] /\ r = 0 /\ RoundedOff(p, q) = 0
    BY <1>2 DEF updated, realized, RoundedOff
  <2>2. u.quantity = q /\ u.avg = price
    BY <1>1, <1>2, <2>1
  <2>3. p.quantity * p.avg = 0 /\ q * price \in Int
    BY <1>1, <1>2
  <2>4. u \in Position
    BY <1>1, <2>1 DEF Position
  <2> QED
    BY <2>1, <2>2, <2>3, <2>4
<1>3. CASE p.quantity # 0 /\ same_side(p, q)
  <2>1. /\ u = [quantity |-> n, avg |-> vwap(p, q, price)]
        /\ r = 0 /\ RoundedOff(p, q) = abs(n) - 1
    BY <1>3 DEF updated, realized, RoundedOff
  <2>2. /\ vwap(p, q, price) \in Nat
        /\ abs(n) \in Nat \ {0}
        /\ (p.quantity * p.avg + q * price) - n * vwap(p, q, price)
             \in -(abs(n) - 1) .. abs(n) - 1
    BY <1>3, AverageDrift
  <2>3. p.quantity * p.avg \in Int /\ q * price \in Int /\ n * vwap(p, q, price) \in Int
    BY <1>1, <2>2
  <2>4. u \in Position
    BY <1>1, <2>1, <2>2 DEF Position
  <2> QED
    BY <2>1, <2>2, <2>3, <2>4
<1>4. CASE p.quantity # 0 /\ ~same_side(p, q)
  <2>1. RoundedOff(p, q) = 0
    BY <1>4 DEF RoundedOff
  <2>2. r = signum(p.quantity) * AtMost(abs(q), abs(p.quantity)) * (price - p.avg)
    BY <1>4 DEF realized
  <2>3. CASE n = 0
    <3>1. u = Flat
      BY <1>1, <1>4, <2>3 DEF updated, signum
    <3>2. signum(p.quantity) * AtMost(abs(q), abs(p.quantity)) = p.quantity /\ q = -p.quantity
      BY <1>1, <2>3 DEF signum, AtMost, abs
    <3>3. r = p.quantity * (price - p.avg)
      BY <2>2, <3>2
    <3>4. u.quantity = 0 /\ u.avg = 0 /\ u \in Position
      BY <3>1 DEF Flat, Position
    <3>5. q * price + p.quantity * p.avg + r = 0 /\ r \in Int
      BY <1>1, <3>2, <3>3
    <3> QED
      BY <2>1, <3>4, <3>5
  <2>4. CASE n # 0 /\ signum(n) = signum(p.quantity)
    <3>1. u = [quantity |-> n, avg |-> p.avg]
      BY <1>4, <2>4 DEF updated
    <3>2. signum(p.quantity) * AtMost(abs(q), abs(p.quantity)) = -q
      BY <1>1, <1>4, <2>4 DEF signum, AtMost, abs, same_side
    <3>3. r = (-q) * (price - p.avg)
      BY <2>2, <3>2
    <3>4. u.quantity = n /\ u.avg = p.avg /\ u \in Position
      BY <1>1, <3>1 DEF Position
    <3>5. (q * price + p.quantity * p.avg + r) - n * p.avg = 0 /\ r \in Int
      BY <1>1, <3>3
    <3> QED
      BY <2>1, <3>4, <3>5
  <2>5. CASE n # 0 /\ signum(n) # signum(p.quantity)
    <3>1. u = [quantity |-> n, avg |-> price]
      BY <1>4, <2>5 DEF updated
    <3>2. signum(p.quantity) * AtMost(abs(q), abs(p.quantity)) = p.quantity
      BY <1>1, <1>4, <2>5 DEF signum, AtMost, abs, same_side
    <3>3. r = p.quantity * (price - p.avg)
      BY <2>2, <3>2
    <3>4. u.quantity = n /\ u.avg = price /\ u \in Position
      BY <1>1, <3>1 DEF Position
    <3>5. (q * price + p.quantity * p.avg + r) - n * price = 0 /\ r \in Int
      BY <1>1, <3>3
    <3> QED
      BY <2>1, <3>4, <3>5
  <2> QED
    BY <2>3, <2>4, <2>5
<1> QED
  BY <1>2, <1>3, <1>4

(* No fill is stamped with a day after the one the bucket is for. *)
LaterDaysClean ==
    \A d \in 0 .. MaxDays : d > daily_loss_day_utc => loss_by_day[d] = 0

(* The inductive invariant.  The bucket rolls to zero on the first fill of *)
(* a day, which is that day's loss only because no earlier fill was of it: *)
(* hence LaterDaysClean.                                                   *)
AccountingInv ==
    /\ AccountingTypeOK
    /\ BooksBalance
    /\ DailyLossIsOfItsDay
    /\ LaterDaysClean

(* The books start empty, balanced and with no loss.                       *)
LEMMA AccountingInitial == AccountingInit => AccountingInv
<1> SUFFICES ASSUME AccountingInit PROVE AccountingInv
  OBVIOUS
<1>1. AccountingTypeOK
  BY AccountingBoundsAssumption DEF AccountingInit, AccountingTypeOK, Position, Flat
<1>2. BooksBalance
  <2> SUFFICES ASSUME NEW k \in Keys
               PROVE  paid[k] - (positions[k].quantity * positions[k].avg - earned[k])
                        \in -rounding[k] .. rounding[k]
    BY DEF BooksBalance
  <2>1. /\ paid[k] = 0 /\ earned[k] = 0 /\ rounding[k] = 0
        /\ positions[k].quantity = 0 /\ positions[k].avg = 0
    BY DEF AccountingInit, Flat
  <2> QED
    BY <2>1
<1>3. DailyLossIsOfItsDay
  BY AccountingBoundsAssumption DEF AccountingInit, DailyLossIsOfItsDay
<1>4. LaterDaysClean
  BY AccountingBoundsAssumption DEF AccountingInit, LaterDaysClean
<1> QED
  BY <1>1, <1>2, <1>3, <1>4 DEF AccountingInv

(* A fill keeps the invariant. *)
LEMMA FillKeepsInv ==
    ASSUME AccountingInv, NEW k \in Keys, NEW q \in Int, NEW price \in Nat, NEW fee \in Nat,
           apply_fill(k, q, price, fee)
    PROVE  AccountingInv'
<1> DEFINE p == positions[k]
           u == updated(p, q, price)
           r == realized(p, q, price)
           w == RoundedOff(p, q)
<1>1. p \in Position
  BY DEF AccountingInv, AccountingTypeOK
<1>2. /\ u \in Position /\ r \in Int /\ w \in Nat
      /\ (q * price + p.quantity * p.avg + r) - u.quantity * u.avg \in -w .. w
  BY <1>1, FillBalances
<1>3. /\ positions' = [positions EXCEPT ![k] = u]
      /\ paid' = [paid EXCEPT ![k] = paid[k] + q * price]
      /\ earned' = [earned EXCEPT ![k] = earned[k] + r]
      /\ rounding' = [rounding EXCEPT ![k] = rounding[k] + w]
  BY DEF apply_fill
<1>4. /\ q * price \in Int /\ p.quantity \in Int /\ p.avg \in Int
      /\ u.quantity \in Int /\ u.avg \in Int
      /\ p.quantity * p.avg \in Int /\ u.quantity * u.avg \in Int
  BY <1>1, <1>2 DEF Position
<1> DEFINE loss == (IF r < 0 THEN -r ELSE 0) + fee
<1>5. loss \in Nat
  BY <1>2
<1>6. /\ daily_realized_loss' = daily_loss_before + loss
      /\ daily_loss_day_utc' = today /\ today' = today
      /\ cash' = (cash - q * price) - fee /\ fills' = fills + 1
  BY DEF apply_fill, loss_contribution
<1>7. loss_by_day' = [loss_by_day EXCEPT ![today] = loss_by_day[today] + loss]
  <2>1. loss_by_day' = [loss_by_day EXCEPT ![today] = loss_by_day[today]
                            + (IF r < 0 THEN -r ELSE 0) + fee]
    BY DEF apply_fill
  <2>2. loss_by_day[today] \in Nat /\ (IF r < 0 THEN -r ELSE 0) \in Nat
    BY <1>2 DEF AccountingInv, AccountingTypeOK
  <2>3. loss_by_day[today] + (IF r < 0 THEN -r ELSE 0) + fee = loss_by_day[today] + loss
    BY <2>2
  <2> QED
    BY <2>1, <2>3
<1> HIDE DEF p, u, r, w, loss
<1>8. BooksBalance'
  <2> SUFFICES ASSUME NEW j \in Keys
               PROVE  paid'[j] - (positions'[j].quantity * positions'[j].avg - earned'[j])
                        \in -rounding'[j] .. rounding'[j]
    BY DEF BooksBalance
  <2>1. paid[j] - (positions[j].quantity * positions[j].avg - earned[j])
          \in -rounding[j] .. rounding[j]
    BY DEF AccountingInv, BooksBalance
  <2>2. /\ paid[j] \in Int /\ earned[j] \in Int /\ rounding[j] \in Nat
        /\ k \in DOMAIN paid /\ k \in DOMAIN earned /\ k \in DOMAIN rounding
        /\ k \in DOMAIN positions
    BY DEF AccountingInv, AccountingTypeOK
  <2>3. CASE j # k
    <3>1. paid'[j] = paid[j] /\ earned'[j] = earned[j] /\ rounding'[j] = rounding[j]
          /\ positions'[j] = positions[j]
      BY <1>3, <2>3 DEF AccountingInv, AccountingTypeOK
    <3> QED
      BY <2>1, <3>1
  <2>4. CASE j = k
    <3>1. /\ paid'[j] = paid[j] + q * price /\ earned'[j] = earned[j] + r
          /\ rounding'[j] = rounding[j] + w /\ positions'[j] = u
      BY <1>3, <2>2, <2>4 DEF AccountingInv, AccountingTypeOK
    <3>2. paid[j] - (p.quantity * p.avg - earned[j]) \in -rounding[j] .. rounding[j]
      BY <2>1, <2>4 DEF p
    <3>3. PICK a \in Int, b \in Int, c \in Int :
              a = q * price /\ b = p.quantity * p.avg /\ c = u.quantity * u.avg
      BY <1>4
    <3>4. (paid[j] + a) - (c - (earned[j] + r)) \in -(rounding[j] + w) .. rounding[j] + w
      BY <1>2, <2>2, <3>2, <3>3
    <3> QED
      BY <3>1, <3>3, <3>4
  <2> QED
    BY <2>3, <2>4
<1>9. today \in 0 .. MaxDays /\ daily_loss_before \in Nat
  BY DEF AccountingInv, AccountingTypeOK, daily_loss_before
<1>10. AccountingTypeOK'
  <2>1. positions' \in [Keys -> Position]
    BY <1>2, <1>3 DEF AccountingInv, AccountingTypeOK
  <2>2. paid' \in [Keys -> Int]
    <3>1. paid[k] + q * price \in Int
      BY <1>4 DEF AccountingInv, AccountingTypeOK
    <3> QED
      BY <1>3, <3>1 DEF AccountingInv, AccountingTypeOK
  <2>3. earned' \in [Keys -> Int] /\ rounding' \in [Keys -> Nat]
    BY <1>2, <1>3 DEF AccountingInv, AccountingTypeOK
  <2>4. loss_by_day' \in [0 .. MaxDays -> Nat]
    BY <1>5, <1>7, <1>9 DEF AccountingInv, AccountingTypeOK
  <2>5. cash' \in Int
    <3>1. PICK a \in Int : a = q * price
      BY <1>4
    <3>2. (cash - a) - fee \in Int
      BY DEF AccountingInv, AccountingTypeOK
    <3> QED
      BY <1>6, <3>1, <3>2
  <2>6. daily_realized_loss' \in Nat /\ daily_loss_day_utc' \in 0 .. today'
        /\ today' \in 0 .. MaxDays /\ fills' \in Nat
    BY <1>5, <1>6, <1>9 DEF AccountingInv, AccountingTypeOK
  <2> QED
    BY <2>1, <2>2, <2>3, <2>4, <2>5, <2>6 DEF AccountingTypeOK
<1>11. DailyLossIsOfItsDay'
  <2>1. daily_loss_before = loss_by_day[today]
    BY <1>9 DEF AccountingInv, AccountingTypeOK, DailyLossIsOfItsDay, LaterDaysClean,
                daily_loss_before
  <2>2. loss_by_day'[today] = loss_by_day[today] + loss
    BY <1>7, <1>9 DEF AccountingInv, AccountingTypeOK
  <2> QED
    BY <1>6, <2>1, <2>2 DEF DailyLossIsOfItsDay
<1>12. LaterDaysClean'
  BY <1>6, <1>7, <1>9 DEF AccountingInv, AccountingTypeOK, LaterDaysClean
<1> QED
  BY <1>8, <1>10, <1>11, <1>12 DEF AccountingInv

(* A step of the specification keeps the invariant. *)
LEMMA AccountingStep ==
    AccountingInv /\ [AccountingNext]_accountingVars => AccountingInv'
<1> SUFFICES ASSUME AccountingInv, [AccountingNext]_accountingVars PROVE AccountingInv'
  OBVIOUS
<1>1. ASSUME NEW k \in Keys, NEW n \in FillSizes, NEW price \in Prices, NEW fee \in Fees,
             NEW q \in {n, -n}, apply_fill(k, q, price, fee)
      PROVE  AccountingInv'
  <2>1. q \in Int /\ price \in Nat /\ fee \in Nat
    BY AmountsAssumption
  <2> QED
    BY <1>1, <2>1, FillKeepsInv
<1>2. CASE DayPasses
  <2>1. AccountingTypeOK'
    BY <1>2, AccountingBoundsAssumption DEF DayPasses, AccountingInv, AccountingTypeOK
  <2>2. BooksBalance'
    BY <1>2 DEF DayPasses, AccountingInv, BooksBalance
  <2>3. DailyLossIsOfItsDay' /\ LaterDaysClean'
    BY <1>2 DEF DayPasses, AccountingInv, DailyLossIsOfItsDay, LaterDaysClean
  <2> QED
    BY <2>1, <2>2, <2>3 DEF AccountingInv
<1>3. CASE UNCHANGED accountingVars
  <2>1. AccountingTypeOK'
    BY <1>3 DEF accountingVars, AccountingInv, AccountingTypeOK
  <2>2. BooksBalance'
    BY <1>3 DEF accountingVars, AccountingInv, BooksBalance
  <2>3. DailyLossIsOfItsDay' /\ LaterDaysClean'
    BY <1>3 DEF accountingVars, AccountingInv, DailyLossIsOfItsDay, LaterDaysClean
  <2> QED
    BY <2>1, <2>2, <2>3 DEF AccountingInv
<1> QED
  BY <1>1, <1>2, <1>3 DEF AccountingNext

(* The invariant holds in every reachable state. *)
THEOREM AccountingInvariant == AccountingSpec => []AccountingInv
  BY AccountingInitial, AccountingStep, PTL DEF AccountingSpec

(* apply_fill's position, realized P&L and cash agree with what was paid,  *)
(* up to rounding, after any sequence of fills of any prices and sizes.    *)
THEOREM BooksAlwaysBalance == AccountingSpec => []BooksBalance
<1>1. AccountingInv => BooksBalance
  BY DEF AccountingInv
<1> QED
  BY <1>1, AccountingInvariant, PTL

(* The daily loss bucket never mixes days: it holds all the losses of the  *)
(* day it is stamped with and none of another.                             *)
THEOREM BucketHoldsItsDay == AccountingSpec => []DailyLossIsOfItsDay
<1>1. AccountingInv => DailyLossIsOfItsDay
  BY DEF AccountingInv
<1> QED
  BY <1>1, AccountingInvariant, PTL

(* Positions, losses, cash and the history behind them keep their types.   *)
THEOREM AccountingTypeCorrect == AccountingSpec => []AccountingTypeOK
<1>1. AccountingInv => AccountingTypeOK
  BY DEF AccountingInv
<1> QED
  BY <1>1, AccountingInvariant, PTL
-----------------------------------------------------------------------------
(* What a key's fills took out of cash net of the profit they realized.    *)
Settled == [k \in Keys |-> paid[k] + earned[k]]

Days == 0 .. MaxDays

(* The cash that is gone went into the keys or into the recorded losses: a *)
(* fill takes its price and fee out of cash, and what it realizes is in    *)
(* the key when it is a profit and in a day's bucket when it is a loss.    *)
CashAccountedFor == -cash <= SumOver(Settled, Keys) + SumOver(loss_by_day, Days)

CashInv == AccountingInv /\ CashAccountedFor

(* The totals that CashAccountedFor compares are integers. *)
LEMMA TotalsAreIntegers ==
    ASSUME AccountingTypeOK
    PROVE  /\ SumOver(Settled, Keys) \in Int
           /\ SumOver(loss_by_day, Days) \in Int
           /\ IsFiniteSet(Days) /\ DOMAIN loss_by_day = Days
           /\ \A k \in Keys : Settled[k] \in Int
           /\ \A d \in Days : loss_by_day[d] \in Int
<1>1. IsFiniteSet(Days)
  BY AccountingBoundsAssumption, FS_Interval DEF Days
<1>2. \A k \in Keys : Settled[k] \in Int
  BY DEF AccountingTypeOK, Settled
<1>3. (\A d \in Days : loss_by_day[d] \in Int) /\ DOMAIN loss_by_day = Days
  <2>1. loss_by_day \in [Days -> Nat]
    BY DEF AccountingTypeOK, Days
  <2> QED
    BY <2>1
<1> QED
  BY <1>1, <1>2, <1>3, KeysAssumption, SumType

(* A fill moves the cash and the totals together. *)
LEMMA FillKeepsCash ==
    ASSUME CashInv, NEW k \in Keys, NEW q \in Int, NEW price \in Nat, NEW fee \in Nat,
           apply_fill(k, q, price, fee)
    PROVE  CashAccountedFor'
<1> DEFINE p == positions[k]
           r == realized(p, q, price)
           loss == (IF r < 0 THEN -r ELSE 0) + fee
           cost == q * price
           lost == loss_by_day[today] + loss
           held == Settled[k] + cost + r
<1>1. p \in Position /\ cost \in Int
  BY DEF CashInv, AccountingInv, AccountingTypeOK
<1>2. r \in Int /\ loss \in Nat /\ r + loss >= fee
  <2>1. r \in Int
    BY <1>1, FillBalances
  <2> HIDE DEF r
  <2> QED
    BY <2>1
<1>3. /\ paid' = [paid EXCEPT ![k] = paid[k] + cost]
      /\ earned' = [earned EXCEPT ![k] = earned[k] + r]
      /\ cash' = cash - cost - fee
  BY DEF apply_fill
<1>4. loss_by_day' = [loss_by_day EXCEPT ![today] = lost]
  <2>1. loss_by_day' = [loss_by_day EXCEPT ![today] = loss_by_day[today]
                            + (IF r < 0 THEN -r ELSE 0) + fee]
    BY DEF apply_fill
  <2>2. loss_by_day[today] \in Nat /\ (IF r < 0 THEN -r ELSE 0) \in Nat
    BY <1>2 DEF CashInv, AccountingInv, AccountingTypeOK
  <2>3. loss_by_day[today] + (IF r < 0 THEN -r ELSE 0) + fee = lost
    BY <2>2
  <2> QED
    BY <2>1, <2>3
<1>5. /\ paid \in [Keys -> Int] /\ earned \in [Keys -> Int] /\ cash \in Int
      /\ today \in Days
  BY DEF CashInv, AccountingInv, AccountingTypeOK, Days
<1> HIDE DEF p, r, loss, cost
<1>6. Settled' = [Settled EXCEPT ![k] = held]
  <2>1. \A j \in Keys : paid'[j] + earned'[j] = IF j = k THEN held ELSE paid[j] + earned[j]
    <3>1. held = (paid[k] + cost) + (earned[k] + r)
      BY <1>1, <1>2, <1>5 DEF Settled
    <3> HIDE DEF held
    <3> QED
      BY <1>3, <1>5, <3>1
  <2> HIDE DEF held
  <2> QED
    BY <2>1 DEF Settled
<1>7. /\ SumOver(Settled, Keys) \in Int /\ SumOver(loss_by_day, Days) \in Int
      /\ IsFiniteSet(Days) /\ DOMAIN loss_by_day = Days
      /\ \A j \in Keys : Settled[j] \in Int
      /\ \A d \in Days : loss_by_day[d] \in Int
  BY TotalsAreIntegers DEF CashInv, AccountingInv
<1>8. held \in Int /\ lost \in Int /\ held = Settled[k] + (cost + r) /\ lost = loss_by_day[today] + loss
  BY <1>1, <1>2, <1>5, <1>7
<1>9. SumOver(Settled', Keys) = SumOver(Settled, Keys) - Settled[k] + held
  <2>1. Keys \subseteq DOMAIN Settled
    BY DEF Settled
  <2> HIDE DEF held
  <2>2. SumOver([Settled EXCEPT ![k] = held], Keys)
          = SumOver(Settled, Keys) - Settled[k] + held
    BY <1>7, <1>8, <2>1, KeysAssumption, SumUpdated
  <2> QED
    BY <1>6, <2>2
<1>10. SumOver(loss_by_day', Days) = SumOver(loss_by_day, Days) - loss_by_day[today] + lost
  <2> HIDE DEF lost
  <2>1. SumOver([loss_by_day EXCEPT ![today] = lost], Days)
          = SumOver(loss_by_day, Days) - loss_by_day[today] + lost
    <3> DEFINE f == loss_by_day
    <3>1. IsFiniteSet(Days) /\ (\A x \in Days : f[x] \in Int) /\ Days \subseteq DOMAIN f
      BY <1>7
    <3>2. today \in Days /\ lost \in Int
      BY <1>5, <1>8
    <3> HIDE DEF f
    <3>3. SumOver([f EXCEPT ![today] = lost], Days) = SumOver(f, Days) - f[today] + lost
      BY <3>1, <3>2, SumUpdated
    <3> QED
      BY <3>3 DEF f
  <2> QED
    BY <1>4, <2>1
<1> HIDE DEF held, lost
<1>11. -cash <= SumOver(Settled, Keys) + SumOver(loss_by_day, Days)
  BY DEF CashInv, CashAccountedFor
<1>12. -cash' <= SumOver(Settled', Keys) + SumOver(loss_by_day', Days)
  <2>1. Settled[k] \in Int /\ loss_by_day[today] \in Int
    BY <1>5, <1>7
  <2>2. /\ SumOver(Settled', Keys) = SumOver(Settled, Keys) + cost + r
        /\ SumOver(loss_by_day', Days) = SumOver(loss_by_day, Days) + loss
    BY <1>1, <1>2, <1>7, <1>8, <1>9, <1>10, <2>1
  <2>3. -cash' = -cash + cost + fee
    BY <1>1, <1>3, <1>5
  <2> QED
    BY <1>1, <1>2, <1>5, <1>7, <1>11, <2>2, <2>3
<1> QED
  BY <1>12 DEF CashAccountedFor, Days

(* A step of the specification keeps the cash accounted for. *)
LEMMA CashStep ==
    CashInv /\ [AccountingNext]_accountingVars => CashInv'
<1> SUFFICES ASSUME CashInv, [AccountingNext]_accountingVars PROVE CashInv'
  OBVIOUS
<1>1. AccountingInv'
  BY AccountingStep DEF CashInv
<1>2. ASSUME NEW k \in Keys, NEW n \in FillSizes, NEW price \in Prices, NEW fee \in Fees,
             NEW q \in {n, -n}, apply_fill(k, q, price, fee)
      PROVE  CashAccountedFor'
  <2>1. q \in Int /\ price \in Nat /\ fee \in Nat
    BY AmountsAssumption
  <2> QED
    BY <1>2, <2>1, FillKeepsCash
<1>3. CASE DayPasses \/ UNCHANGED accountingVars
  <2>1. cash' = cash /\ Settled' = Settled /\ loss_by_day' = loss_by_day
    BY <1>3 DEF DayPasses, accountingVars, Settled
  <2> QED
    BY <1>1, <2>1 DEF CashInv, CashAccountedFor, Days
<1> QED
  BY <1>1, <1>2, <1>3 DEF AccountingNext, CashInv

(* In flat books what was settled is rounding only, so the cash that is    *)
(* gone is in the daily losses.                                            *)
LEMMA FlatBooks == CashInv => CashLossIsRecorded
<1> SUFFICES ASSUME CashInv, \A k \in Keys : positions[k].quantity = 0
             PROVE  -cash <= SumOver(loss_by_day, DOMAIN loss_by_day) + SumOver(rounding, Keys)
  BY DEF CashLossIsRecorded
<1>1. /\ SumOver(Settled, Keys) \in Int /\ SumOver(loss_by_day, Days) \in Int
      /\ DOMAIN loss_by_day = Days /\ \A k \in Keys : Settled[k] \in Int
  BY TotalsAreIntegers DEF CashInv, AccountingInv
<1>2. \A k \in Keys : rounding[k] \in Int /\ paid[k] \in Int /\ earned[k] \in Int
                       /\ positions[k].avg \in Nat
  BY DEF CashInv, AccountingInv, AccountingTypeOK, Position
<1>3. \A k \in Keys : Settled[k] <= rounding[k]
  <2> SUFFICES ASSUME NEW k \in Keys
               PROVE  Settled[k] <= rounding[k]
    OBVIOUS
  <2>1. positions[k].quantity * positions[k].avg = 0
    BY <1>2
  <2>2. paid[k] - (0 - earned[k]) \in -rounding[k] .. rounding[k]
    BY <2>1 DEF CashInv, AccountingInv, BooksBalance
  <2> QED
    BY <1>2, <2>2 DEF Settled
<1>4. SumOver(Settled, Keys) <= SumOver(rounding, Keys)
  BY <1>1, <1>2, <1>3, KeysAssumption, SumMonotone
<1>5. SumOver(rounding, Keys) \in Int /\ cash \in Int
  BY <1>2, KeysAssumption, SumType DEF CashInv, AccountingInv, AccountingTypeOK
<1>6. -cash <= SumOver(Settled, Keys) + SumOver(loss_by_day, Days)
  BY DEF CashInv, CashAccountedFor
<1> QED
  BY <1>1, <1>4, <1>5, <1>6

(* Flat books have lost no more cash than the daily losses hold, rounding  *)
(* aside: apply_fill records every loss it takes out of cash.              *)
THEOREM CashLossesAreRecorded == AccountingSpec => []CashLossIsRecorded
<1>1. AccountingInit => CashInv
  <2> SUFFICES ASSUME AccountingInit PROVE CashInv
    OBVIOUS
  <2>1. AccountingInv
    BY AccountingInitial
  <2>2. SumOver(Settled, Keys) \in Nat
    <3>1. \A k \in Keys : Settled[k] \in Nat
      BY DEF AccountingInit, Settled
    <3> QED
      BY <3>1, KeysAssumption, SumNat
  <2>3. SumOver(loss_by_day, Days) \in Nat
    <3>1. IsFiniteSet(Days) /\ \A d \in Days : loss_by_day[d] \in Nat
      BY <2>1, TotalsAreIntegers DEF AccountingInv, AccountingTypeOK, Days
    <3> QED
      BY <3>1, SumNat
  <2>4. cash = 0
    BY DEF AccountingInit
  <2> QED
    BY <2>1, <2>2, <2>3, <2>4 DEF CashInv, CashAccountedFor
<1>2. CashInv /\ [AccountingNext]_accountingVars => CashInv'
  BY CashStep
<1>3. CashInv => CashLossIsRecorded
  BY FlatBooks
<1> QED
  BY <1>1, <1>2, <1>3, PTL DEF AccountingSpec
=============================================================================
