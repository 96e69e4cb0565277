---------------------------- MODULE Accounting ----------------------------
(***************************************************************************)
(* What DryRunGateway::apply_fill (rust/crates/gateway/src/lib.rs) does to *)
(* the sleeve state once the order store has accepted a fill: position and *)
(* average price, realized P&L, the daily loss bucket that the risk gate   *)
(* reads, and available cash.                                              *)
(*                                                                         *)
(* Amounts are integers in ticks, and a position is keyed by instrument    *)
(* and outcome side.  The saturating bounds of i64 are out of reach of     *)
(* prices below one dollar.  The live runner stamps a fill with the time   *)
(* it was normalized, so days never run backwards.                         *)
(***************************************************************************)
EXTENDS Integers, FiniteSets, Sums

CONSTANTS Keys,        \* outcome_position_key values
          Prices,      \* fill prices, in ticks
          FillSizes,   \* contracts per fill
          Fees,        \* fee per fill, in ticks
          MaxFills,    \* bound: fills applied
          MaxDays      \* bound: days that pass

(* The instruments the gateway is configured with, two sides each. *)
ASSUME KeysAssumption == IsFiniteSet(Keys)
ASSUME AmountsAssumption ==
    Prices \subseteq Nat /\ FillSizes \subseteq Nat /\ Fees \subseteq Nat
ASSUME AccountingBoundsAssumption == MaxFills \in Nat /\ MaxDays \in Nat

VARIABLES positions,             \* key -> quantity and average price
          daily_realized_loss,
          daily_loss_day_utc,
          cash,                  \* available_cash_ticks, less what it started at
          today,                 \* the UTC day of the wall clock
          (* history *)
          fills,                 \* fills applied
          paid,                  \* key -> net amount paid for its contracts
          earned,                \* key -> P&L realized, losses negative
          rounding,              \* key -> what averaging may have rounded off
          loss_by_day            \* day -> losses and fees of its fills

accountingVars == <<positions, daily_realized_loss, daily_loss_day_utc, cash,
                    today, fills, paid, earned, rounding, loss_by_day>>

Position == [quantity : Int, avg : Nat]

(* The entry a key without a position defaults to. *)
Flat == [quantity |-> 0, avg |-> 0]

abs(n) == IF n < 0 THEN -n ELSE n
signum(n) == IF n < 0 THEN -1 ELSE IF n = 0 THEN 0 ELSE 1
AtMost(m, n) == IF m <= n THEN m ELSE n

AccountingInit ==
    /\ positions = [k \in Keys |-> Flat]
    /\ daily_realized_loss = 0
    /\ daily_loss_day_utc = 0
    /\ cash = 0
    /\ today = 0
    /\ fills = 0
    /\ paid = [k \in Keys |-> 0]
    /\ earned = [k \in Keys |-> 0]
    /\ rounding = [k \in Keys |-> 0]
    /\ loss_by_day = [d \in 0 .. MaxDays |-> 0]
-----------------------------------------------------------------------------
(* update_position_for_fill. *)

same_side(p, q) == signum(p.quantity) = signum(q) \/ q = 0

(* The volume weighted average, truncated toward zero; both operands have  *)
(* the sign of the position.                                               *)
vwap(p, q, price) ==
    abs(p.quantity * p.avg + q * price) \div abs(p.quantity + q)

(* Mutant of updated: a position that flips keeps its old average. *)
updated_flip_keeps_average(p, q, price) ==
    LET n == p.quantity + q
    IN  CASE p.quantity = 0 -> [quantity |-> n, avg |-> price]
          [] p.quantity # 0 /\ same_side(p, q) -> [quantity |-> n, avg |-> vwap(p, q, price)]
          [] p.quantity # 0 /\ ~same_side(p, q) /\ n = 0 -> Flat
          [] OTHER -> [quantity |-> n, avg |-> p.avg]

(* The position after a fill of q signed contracts. *)
updated(p, q, price) ==
    LET n == p.quantity + q
    IN  CASE p.quantity = 0 -> [quantity |-> n, avg |-> price]
          [] p.quantity # 0 /\ same_side(p, q) -> [quantity |-> n, avg |-> vwap(p, q, price)]
          [] p.quantity # 0 /\ ~same_side(p, q) /\ n = 0 -> Flat
          [] p.quantity # 0 /\ ~same_side(p, q) /\ signum(n) = signum(p.quantity)
                 -> [quantity |-> n, avg |-> p.avg]
          [] OTHER -> [quantity |-> n, avg |-> price]

(* Mutant of realized: the sign of the position is forgotten. *)
realized_as_long(p, q, price) ==
    IF p.quantity = 0 \/ same_side(p, q) THEN 0
    ELSE AtMost(abs(q), abs(p.quantity)) * (price - p.avg)

(* Mutant of realized: the whole fill is realized, not what it closes. *)
realized_whole_fill(p, q, price) ==
    IF p.quantity = 0 \/ same_side(p, q) THEN 0
    ELSE signum(p.quantity) * abs(q) * (price - p.avg)

(* P&L on the part of the position the fill closes. *)
realized(p, q, price) ==
    IF p.quantity = 0 \/ same_side(p, q) THEN 0
    ELSE signum(p.quantity) * AtMost(abs(q), abs(p.quantity)) * (price - p.avg)

(* Less than one tick per contract, each time an average is taken. *)
RoundedOff(p, q) ==
    IF p.quantity # 0 /\ same_side(p, q) THEN abs(p.quantity + q) - 1 ELSE 0
-----------------------------------------------------------------------------
(* Mutant of loss_contribution: a profit is taken off the loss. *)
loss_contribution_netted(r, fee) == fee - r

(* What one fill adds to the daily loss. *)
loss_contribution(r, fee) == (IF r < 0 THEN -r ELSE 0) + fee

(* Mutant of daily_loss_before: the bucket is not rolled. *)
daily_loss_before_unrolled == daily_realized_loss

(* The daily loss bucket, rolled when the fill is of another day. *)
daily_loss_before ==
    IF today = daily_loss_day_utc THEN daily_realized_loss ELSE 0

(* apply_fill after the order store returned Ok(true). *)
apply_fill(k, q, price, fee) ==
    LET p == positions[k]
        r == realized(p, q, price)
    IN  /\ positions' = [positions EXCEPT ![k] = updated(p, q, price)]
        /\ daily_realized_loss' = daily_loss_before + loss_contribution(r, fee)
        /\ daily_loss_day_utc' = today
        /\ cash' = cash - q * price - fee
        /\ fills' = fills + 1
        /\ paid' = [paid EXCEPT ![k] = @ + q * price]
        /\ earned' = [earned EXCEPT ![k] = @ + r]
        /\ rounding' = [rounding EXCEPT ![k] = @ + RoundedOff(p, q)]
        /\ loss_by_day' = [loss_by_day EXCEPT ![today] = @ + (IF r < 0 THEN -r ELSE 0) + fee]
        /\ UNCHANGED today

(* Midnight UTC. *)
DayPasses ==
    /\ today < MaxDays
    /\ today' = today + 1
    /\ UNCHANGED <<positions, daily_realized_loss, daily_loss_day_utc, cash, fills,
                   paid, earned, rounding, loss_by_day>>

AccountingNext ==
    \/ /\ fills < MaxFills
       /\ \E k \in Keys, n \in FillSizes, price \in Prices, fee \in Fees :
              \E q \in {n, -n} : apply_fill(k, q, price, fee)
    \/ DayPasses

AccountingSpec == AccountingInit /\ [][AccountingNext]_accountingVars
-----------------------------------------------------------------------------
(* Properties. *)

AccountingTypeOK ==
    /\ positions \in [Keys -> Position]
    /\ daily_realized_loss \in Nat
    /\ daily_loss_day_utc \in 0 .. today
    /\ cash \in Int
    /\ today \in 0 .. MaxDays
    /\ fills \in Nat
    /\ paid \in [Keys -> Int] /\ earned \in [Keys -> Int]
    /\ rounding \in [Keys -> Nat]
    /\ loss_by_day \in [0 .. MaxDays -> Nat]

(* What a position cost, plus what closing parts of it has realized, is    *)
(* what was paid, up to the rounding of the averages: no sequence of       *)
(* adding, reducing, closing and flipping creates or loses money.          *)
BooksBalance ==
    \A k \in Keys :
        LET drift == paid[k] - (positions[k].quantity * positions[k].avg - earned[k])
        IN  drift \in -rounding[k] .. rounding[k]

(* The bucket holds the losses and fees of its own day, all of them and no *)
(* other day's, however many days passed without a fill.                   *)
DailyLossIsOfItsDay == daily_realized_loss = loss_by_day[daily_loss_day_utc]

(* When every position is closed the cash that is gone is covered by the   *)
(* daily losses recorded, up to rounding: the daily loss stop cannot be    *)
(* outrun by losses that no bucket holds.                                  *)
CashLossIsRecorded ==
    (\A k \in Keys : positions[k].quantity = 0)
        => -cash <= SumOver(loss_by_day, DOMAIN loss_by_day) + SumOver(rounding, Keys)

(* The loss the risk gate reads is today's: the bucket is reset at UTC     *)
(* midnight.  The code resets it at the first fill of a day instead.       *)
DailyLossResetAtMidnight == daily_realized_loss = loss_by_day[today]
=============================================================================
