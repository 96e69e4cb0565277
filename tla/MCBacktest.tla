----------------------------- MODULE MCBacktest -----------------------------
(* A one-market instance of Backtest: two orders, books with two asks, a    *)
(* trade that can reach a resting order, a pause and a close.               *)
EXTENDS Backtest, TLC

Perms == Permutations(ClientOrderIds)

lv(p, q) == [price |-> p, quantity |-> q]

(* The NO side of a Kalshi book is the complement of its YES side. *)
a_book(bids, asks) ==
    [known |-> TRUE, YES |-> [bids |-> bids, asks |-> asks],
     NO |-> [bids |-> [k \in DOMAIN asks |-> flip(asks[k])],
             asks |-> [k \in DOMAIN bids |-> flip(bids[k])]]]

MCBooks == {a_book(<<lv(40, 1)>>, <<lv(50, 1), lv(55, 1), lv(70, 1)>>),
            a_book(<<lv(40, 1)>>, <<lv(55, 3)>>)}

MCQuotes == {[side |-> "YES", bids |-> <<lv(40, 2)>>, asks |-> <<lv(50, 2)>>]}

MCTrades == {[side |-> "YES", price |-> 55, quantity |-> 2, aggressor |-> "None"]}

MCLifecycles == {"paused", "closed"}

for_side(side, order_side, price, quantity, type, tif, life) ==
    [id |-> "none", side |-> side, order_side |-> order_side, price |-> price,
     quantity |-> quantity, order_type |-> type, tif |-> tif, expires_at |-> life]
an_intent(order_side, price, quantity, type, tif, life) ==
    for_side("YES", order_side, price, quantity, type, tif, life)

(* The last one takes the offer that a buy of YES takes, from its mirror. *)
MCIntents == {an_intent("BUY", 55, 3, "limit", "GTC", 2),
              an_intent("BUY", 60, 1, "limit", "IOC", 1),
              an_intent("SELL", 55, 2, "limit", "GTC", 2),
              an_intent("SELL", 40, 1, "limit", "FOK", 1),
              an_intent("BUY", 60, 1, "limit", "GTC", NoExpiry),
              an_intent("BUY", NoPrice, 1, "market", "IOC", 1),
              for_side("NO", "SELL", 45, 2, "limit", "IOC", 1)}
=============================================================================
