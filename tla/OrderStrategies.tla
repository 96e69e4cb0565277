--------------------------- MODULE OrderStrategies ---------------------------
(***************************************************************************)
(* The strategy plugins that keep track of what they have sent: exposures, *)
(* positions, resting orders, one-shot marks.  They also hear what became  *)
(* of each decision (on_feedback: IntentAccepted or IntentRejected, called *)
(* by the runner before the next event) and of their orders (own_update,   *)
(* own_reject and own_fill events).  The feedback kinds VenueAcked,        *)
(* VenueRejected and VenueTerminal, which the plugins also know, are sent  *)
(* by no part of the Python code.                                          *)
(*                                                                         *)
(* s.ids counts the client order ids a plugin has made.                    *)
(***************************************************************************)
EXTENDS SignalStrategies, TLC

CONSTANTS Senators, ScoreTtl, NegativeThreshold,      \* politics_legislative_cascade
          AdverseWindow, AdverseVolume, QueueThreshold,   \* microstructure_queue_evader
          TrailingStop                                \* sports_tennis_xgboost

(* Finitely many senators are named; the code keeps the last 20 trades.    *)
ASSUME OrderAssumption == IsFiniteSet(Senators) /\ AdverseWindow \in Nat \ {0}

Protective == 0         \* the client order id of the spec's protective order

(* A dictionary with the entry of a key set. *)
with(f, key, value) == [k \in DOMAIN f \cup {key} |-> IF k = key THEN value ELSE f[k]]

with_id(decision, id) == with(decision, "id", id)

emit(s, decision) ==
    [s |-> [s EXCEPT !.ids = @ + 1], out |-> <<with_id(decision, s.ids + 1)>>]

-----------------------------------------------------------------------------
(* microstructure_obi_scalper.  The imbalance of the top of the book, or   *)
(* the model's prediction when one is loaded, says "long", "flip" or       *)
(* "idle"; a book that is empty, one-sided or too wide is not tradable.    *)
microstructure_obi_scalper(s, e) ==
    LET existing == s.own.open[e.market]
    IN  IF e.kind # "book" \/ ~two_sided(e) THEN quiet(s)
        ELSE CASE e.view = "long" -> emit(s, place(e.market, "YES", e.ask, Size, "IOC", FALSE))
               [] e.view = "flip" /\ existing # None /\ existing \notin s.own.pending_cancel ->
                     decide(s, <<[do |-> "cancel", id |-> existing]>>)
               [] OTHER -> quiet(s)

obi_remove_order(s, id) ==
    [s EXCEPT !.own.pending_cancel = @ \ {id},
              !.own.open = [m \in Markets |->
                  IF s.own.open[m] = id THEN None ELSE s.own.open[m]]]

obi_on_feedback(s, d, accepted) ==
    CASE d.do = "place" /\ accepted -> [s EXCEPT !.own.open[d.market] = d.id]
      [] d.do = "cancel" /\ accepted -> [s EXCEPT !.own.pending_cancel = @ \cup {d.id}]
      [] d.do = "place" -> obi_remove_order(s, d.id)
      [] OTHER -> [s EXCEPT !.own.pending_cancel = @ \ {d.id}]

-----------------------------------------------------------------------------
(* microstructure_queue_evader, for the orders of one market: own maps the *)
(* price and side of a resting order to what is known of its queue.        *)

queue_key(o) == <<o.price, o.order_side>>

queue_order_update(s, e) ==
    LET key == queue_key(e)
        fresh == [id |-> e.id, ahead |-> 0, volume |-> 0, seen |-> 0, history |-> <<>>]
    IN  [s EXCEPT !.own =
            IF e.status = "terminal" THEN [k \in DOMAIN s.own \ {key} |-> s.own[k]]
            ELSE IF key \in DOMAIN s.own THEN [s.own EXCEPT ![key].id = e.id]
            ELSE with(s.own, key, fresh)]

(* A shrinking level moves the order forward, a new one puts it at its end. *)
queue_estimate(r, depth) ==
    [r EXCEPT !.ahead = IF depth < r.seen THEN Max({0, @ - (r.seen - depth)})
                        ELSE IF r.seen = 0 THEN depth ELSE @,
              !.seen = depth]

(* The last AdverseWindow trades at or through the price count. *)
adverse_trade(r, quantity) ==
    IF Len(r.history) = AdverseWindow
    THEN [r EXCEPT !.volume = @ + quantity - Head(r.history),
                   !.history = Append(Tail(@), quantity)]
    ELSE [r EXCEPT !.volume = @ + quantity, !.history = Append(@, quantity)]

(* An order that is near the front while takers run through its level is   *)
(* canceled, and forgotten whether or not the cancel is accepted.          *)
queue_observe_trade(s, e) ==
    LET adverse(k) == IF k[2] = "BUY" THEN e.price <= k[1] ELSE e.price >= k[1]
        after == [k \in DOMAIN s.own |->
                    IF adverse(k) THEN adverse_trade(s.own[k], e.quantity) ELSE s.own[k]]
        leave == {k \in DOMAIN after : after[k].ahead <= QueueThreshold
                                         /\ after[k].volume >= AdverseVolume}
    IN  decide([s EXCEPT !.own = [k \in DOMAIN after \ leave |-> after[k]]],
               [i \in 1 .. Cardinality(leave) |->
                    [do |-> "cancel", id |-> after[SetToSeq(leave)[i]].id]])

microstructure_queue_evader(s, e) ==
    CASE e.kind = "own_update" -> quiet(queue_order_update(s, e))
      [] e.kind = "book" ->
            quiet([s EXCEPT !.own = [k \in DOMAIN s.own |->
                                        queue_estimate(s.own[k], e.depth[k])]])
      [] e.kind = "trade" -> queue_observe_trade(s, e)
      [] OTHER -> quiet(s)

-----------------------------------------------------------------------------
(* politics_legislative_cascade. *)

known_scores(own) == {x \in Senators : own.scores[x] # NoQuote}
score_total(own, S) == SumOver([x \in S |-> own.scores[x].score], S)

(* Mutant of evict_expired: the sum keeps the scores that are dropped. *)
evict_expired_kept(own, now) ==
    [own EXCEPT !.scores = [x \in Senators |->
        IF own.scores[x] # NoQuote /\ own.scores[x].at < now - ScoreTtl
        THEN NoQuote ELSE own.scores[x]]]

(* _evict_expired_scores *)
evict_expired(own, now) ==
    LET old == {x \in known_scores(own) : own.scores[x].at < now - ScoreTtl}
    IN  [own EXCEPT !.total = @ - score_total(own, old),
                    !.scores = [x \in Senators |-> IF x \in old THEN NoQuote ELSE own.scores[x]]]

(* A new score replaces the senator's last one; below the threshold the    *)
(* protective order is canceled and NO is bought, on every further signal. *)
politics_legislative_cascade(s, e) ==
    LET own == evict_expired(s.own, e.at)
        prior == IF own.scores[e.senator] = NoQuote THEN 0 ELSE own.scores[e.senator].score
        scored == [own EXCEPT !.scores[e.senator] = [score |-> e.score, at |-> e.at],
                              !.total = @ - prior + e.score]
        buy == emit([s EXCEPT !.own = scored],
                    place(Ladder[1], "NO", One \div 2, Size, "GTC", FALSE))
        cancel == IF own.protective THEN <<[do |-> "cancel", id |-> Protective]>> ELSE <<>>
    IN  CASE e.kind # "sentiment" -> quiet(s)
          [] e.kind = "sentiment" /\ e.score = None -> quiet([s EXCEPT !.own = own])
          [] OTHER -> IF scored.total >= NegativeThreshold
                      THEN quiet([s EXCEPT !.own = scored])
                      ELSE decide(buy.s, cancel \o buy.out)

legislative_on_feedback(s, d, accepted) ==
    IF accepted /\ d.do = "cancel" /\ s.own.protective /\ d.id = Protective
    THEN [s EXCEPT !.own.protective = FALSE] ELSE s

-----------------------------------------------------------------------------
(* sports_hole_by_hole_pin: one order per hole, even if the signal comes   *)
(* again; a hole counts once an order for it was accepted.  A signal's gate *)
(* stands for the hole's token, which may be missing; the signals are of   *)
(* one player.                                                             *)
fire_key(e) ==
    IF e.gate = "missing" THEN <<"market", e.market>> ELSE <<"token", e.gate>>

sports_hole_by_hole_pin(s, e) ==
    CASE e.kind = "quote" -> quiet(cache_any_mid(s, e))
      [] e.kind = "signal" ->
            IF /\ e.market # None /\ e.probability # None
               /\ fire_key(e) \notin s.own
               /\ s.mid[e.market] # None /\ e.probability - s.mid[e.market] >= MinEdge
            THEN emit(s, with(place(e.market, "YES", snapshot_for(s.quote[e.market], "YES").ask,
                                    Size, "IOC", TRUE),
                              "fire_key", fire_key(e)))
            ELSE quiet(s)
      [] OTHER -> quiet(s)

hole_on_feedback(s, d, accepted) ==
    IF accepted /\ d.do = "place" THEN [s EXCEPT !.own = @ \cup {d.fire_key}] ELSE s

-----------------------------------------------------------------------------
(* sports_tennis_xgboost, for one market.  pending, active and exit are    *)
(* client order ids.                                                       *)

NewTennis ==
    [probability |-> None, ready |-> FALSE, bid |-> None, ask |-> None,
     pending |-> None, active |-> None, pending_side |-> "none",
     held |-> 0, holding |-> FALSE, held_side |-> "none", peak |-> None,
     exit |-> None, exits |-> {}, closed |-> FALSE]

(* What the held side could be sold for. *)
liquidation_bid(t) == IF t.held_side = "YES" THEN t.bid ELSE One - t.ask

tennis_exit(s) ==
    LET bid == liquidation_bid(s.own)
        peak == IF s.own.peak = None THEN bid ELSE Max({bid, s.own.peak})
        id == s.ids + 1
    IN  IF TrailingStop <= 0 \/ s.own.exit # None \/ s.own.bid = None THEN quiet(s)
        ELSE IF peak - bid < TrailingStop THEN quiet([s EXCEPT !.own.peak = peak])
        ELSE emit([s EXCEPT !.own.peak = peak, !.own.exit = id, !.own.exits = @ \cup {id}],
                  [place(Ladder[1], s.own.held_side, bid, s.own.held, "IOC", TRUE)
                      EXCEPT !.order_side = "SELL"])

tennis_entry(s) ==
    LET t == s.own
        yes_edge == t.probability - t.ask
        no_edge == t.bid - t.probability
        side == IF yes_edge >= no_edge THEN "YES" ELSE "NO"
    IN  IF \/ t.active # None \/ t.pending # None
           \/ t.probability = None \/ t.bid = None \/ ~t.ready
           \/ Max({yes_edge, no_edge}) < MinEdge
        THEN quiet(s)
        ELSE emit([s EXCEPT !.own.pending_side = side],
                  place(Ladder[1], side, IF side = "YES" THEN t.ask ELSE One - t.bid,
                        Size, "GTD", TRUE))

(* _decision: a held position is managed before an entry is considered. *)
tennis_decision(s) ==
    CASE s.own.closed -> quiet(s)
      [] ~s.own.closed /\ s.own.holding -> tennis_exit(s)
      [] OTHER -> tennis_entry(s)

clear_order_state(t, id) ==
    [t EXCEPT !.pending = IF @ = id THEN None ELSE @, !.active = IF @ = id THEN None ELSE @]

(* _apply_order_update: a failed exit may be tried again. *)
tennis_order_update(t, e) ==
    CASE e.status = "open" -> [t EXCEPT !.pending = None, !.active = e.id]
      [] e.status = "filled" -> [t EXCEPT !.pending = None, !.active = None]
      [] OTHER -> [clear_order_state(t, e.id) EXCEPT !.exit = IF @ = e.id THEN None ELSE @]

(* A late fill of an exit that was given up is still a sale. *)
is_exit_fill(t, id) == id \in t.exits

(* _apply_fill *)
tennis_fill(t, e) ==
    IF is_exit_fill(t, e.id)
    THEN IF t.held - e.quantity <= 0
         THEN [t EXCEPT !.holding = FALSE, !.held = 0, !.exit = None, !.closed = TRUE]
         ELSE [t EXCEPT !.held = @ - e.quantity, !.exit = None]
    ELSE [t EXCEPT !.pending = None, !.active = e.id, !.holding = TRUE,
                   !.held_side = t.pending_side, !.held = @ + e.quantity,
                   !.peak = IF t.held = 0 THEN None ELSE @]

sports_tennis_xgboost(s, e) ==
    CASE e.kind = "signal" ->
            IF e.market # Ladder[1] \/ ~bounded(e.probability) THEN quiet(s)
            ELSE tennis_decision([s EXCEPT !.own.probability = e.probability,
                                           !.own.ready = e.gate = "high"])
      [] e.kind = "quote" ->
            IF e.market # Ladder[1] \/ e.side # "YES" \/ ~two_sided(e) THEN quiet(s)
            ELSE tennis_decision([s EXCEPT !.own.bid = e.bid, !.own.ask = e.ask])
      [] e.kind = "own_update" -> quiet([s EXCEPT !.own = tennis_order_update(@, e)])
      [] e.kind = "own_reject" -> quiet([s EXCEPT !.own = clear_order_state(@, e.id)])
      [] e.kind = "own_fill" -> quiet([s EXCEPT !.own = tennis_fill(@, e)])
      [] OTHER -> quiet(s)

tennis_on_feedback(s, d, accepted) ==
    IF accepted THEN [s EXCEPT !.own.pending = d.id]
    ELSE [s EXCEPT !.own = clear_order_state(@, d.id)]
=============================================================================
