------------------------------- MODULE Studies -------------------------------
(***************************************************************************)
(* What the research commands share.  A study is a set of commands that    *)
(* read what has happened (world) and each other's files, and write files: *)
(* a capture, an evaluation, a mark-out, a settlement.  Nobody runs them   *)
(* in a fixed order, and the world moves between two of them.              *)
(*                                                                         *)
(* Prices, probabilities and profits are in cents of a contract that pays  *)
(* Dollar; a missing number is Missing.                                    *)
(***************************************************************************)
EXTENDS Integers, Sequences, SequencesExt, FiniteSets, FiniteSetsExt, TLC

CONSTANT Horizon        \* the mark-out horizon

VARIABLES today,        \* the time a command sees
          world,        \* what has happened; the shape is the study's
          files,        \* what the commands have written, by file
          left          \* bound: the days and the commands still to come

lab_vars == <<today, world, files, left>>

Dollar == 100
Missing == -1000

ASSUME StudyAssumption == Horizon \in Nat \ {0}

written(name) == name \in DOMAIN files

(* A command ends by writing its files; a command that raises writes none. *)
write_all(contents) ==
    /\ left.commands > 0
    /\ left' = [left EXCEPT !.commands = @ - 1]
    /\ files' = contents @@ files
    /\ UNCHANGED <<today, world>>

write(name, content) == write_all(name :> content)

(* What happens outside is of interest while a command may still run. *)
happens(next) ==
    /\ left.commands > 0
    /\ world' = next
    /\ UNCHANGED <<today, files, left>>

(* A call of a service, which changes what the service holds. *)
calls(next) ==
    /\ left.commands > 0
    /\ left' = [left EXCEPT !.commands = @ - 1]
    /\ world' = next
    /\ UNCHANGED <<today, files>>

time_passes ==
    /\ left.days > 0 /\ left.commands > 0
    /\ today' = today + 1
    /\ left' = [left EXCEPT !.days = @ - 1]
    /\ UNCHANGED <<world, files>>

-----------------------------------------------------------------------------
(* Helpers. *)

total(s) == FoldSeq(+, 0, s)

mapped(s, Op(_)) == [k \in DOMAIN s |-> Op(s[k])]

(* Rows in the order of a key; equal keys keep their order. *)
sorted_by(s, Key(_)) ==
    LET rank(k) == Cardinality({j \in DOMAIN s : \/ Key(s[j]) < Key(s[k])
                                                 \/ Key(s[j]) = Key(s[k]) /\ j < k}) + 1
    IN  [r \in DOMAIN s |-> s[CHOOSE k \in DOMAIN s : rank(k) = r]]

clip(low, p, high) == Max({low, Min({high, p})})

(* kalshi_taker_fee_per_contract: 7 % of p (1 - p), up to the next cent. *)
taker_fee(p) ==
    IF p <= 0 \/ p >= Dollar THEN 0 ELSE (7 * p * (Dollar - p) + 9999) \div 10000

(* kalshi_fee of calibration.py, to the cent below. *)
curve_fee(p) == (7 * p * (Dollar - p)) \div 10000

(* Which side a taker buys, at which price and with which edge left. *)
taker_side(fair, yes_price, no_price) ==
    LET yes_edge == fair - yes_price - taker_fee(yes_price)
        no_edge == (Dollar - fair) - no_price - taker_fee(no_price)
    IN  IF yes_edge >= no_edge
        THEN [side |-> "YES", price |-> yes_price, fee |-> taker_fee(yes_price), edge |-> yes_edge]
        ELSE [side |-> "NO", price |-> no_price, fee |-> taker_fee(no_price), edge |-> no_edge]

payoff(side, yes) == IF (side = "YES") = yes THEN Dollar ELSE 0

(* The first arm whose condition holds, as in a chain of early returns. *)
verdict(arms) == Head(SelectSeq(arms, LAMBDA a : a[1]))[2]

mean_positive(s) == s # <<>> /\ total(s) > 0

(* _normal_ci: is the lower end of the 95 % interval of the mean positive? *)
ci_positive(s) ==
    LET n == Len(s)
        sum == total(s)
        squares == total(mapped(s, LAMBDA v : v * v))
    IN  n >= 2 /\ sum > 0 /\ 10000 * sum * sum * (n - 1) > 38416 * (n * squares - sum * sum)

(* _first_quote_at_or_after: at most one quote. *)
first_at_or_after(quotes, target) ==
    LET later == SelectSeq(quotes, LAMBDA q : q.at >= target)
    IN  SubSeq(later, 1, Min({1, Len(later)}))

(* The price a position can be left at. *)
exit_price(side, q) == IF side = "YES" THEN q.bid ELSE Dollar - q.ask
=============================================================================
