-------------------------------- MODULE Lists --------------------------------
(***************************************************************************)
(* Lists as the Python side handles them: sorted, filtered in order, and   *)
(* added up.                                                               *)
(***************************************************************************)
EXTENDS Integers, Sequences, FiniteSets, Sums

(* The elements of S in the order in which before[x] are those that stand  *)
(* before x.                                                               *)
by_rank(S, before) ==
    [r \in 1 .. Cardinality(S) |-> CHOOSE x \in S : Cardinality(before[x]) = r - 1]

(* What list s holds at the positions of K, in the order of s.             *)
keep(s, K) ==
    LET order == by_rank(K, [k \in K |-> {j \in K : j < k}])
    IN  [r \in DOMAIN order |-> s[order[r]]]

(* The quantities that list s holds at the positions of K, added up.       *)
quantity_at(s, K) == SumOver([k \in DOMAIN s |-> s[k].quantity], K)

total_quantity(s) == quantity_at(s, DOMAIN s)
=============================================================================
