----------------------------- MODULE Desk_proofs -----------------------------
(***************************************************************************)
(* Proofs about module Desk, for every job, parameter set, market and      *)
(* bound: the weather plugin never asks for a trade at the close, whatever *)
(* the tasks of the live runner do between a forecast and its decision;    *)
(* the totals a plugin keeps up to date are what they add up; and what a   *)
(* plugin buys is priced from the market.                                  *)
(*                                                                         *)
(* What is read with a clock of its own is a signal's close: it travels    *)
(* from the forecast task through the queue into the plugin, stays there   *)
(* while quotes price it again, and ends in a decision.  CloseInv follows  *)
(* it along that way.  Totals adds, plugin by plugin, what a total rests   *)
(* on.  PriceInv sets what a plugin keeps of a market against the prices   *)
(* the market last showed.                                                 *)
(***************************************************************************)
EXTENDS Desk, Lists_proofs

-----------------------------------------------------------------------------
(* The invariant. *)

(* A signal's close: none, or a time if the run is a live one. *)
Closing(x) == x.closes = None \/ (job \in LiveJobs /\ x.closes \in Int)

(* A price that a venue shows, or none. *)
Shown(p) == p = None \/ p \in 1 .. One - 1

(* What the weather plugin is handed. *)
Heard(e) ==
    /\ e.market \in Markets
    /\ e.kind = "signal" => Closing(e) /\ e.ladder \in Ladders
    /\ e.kind \in {"quote", "book"} =>
        {"market", "bid", "ask"} \subseteq DOMAIN e /\ Shown(e.bid) /\ Shown(e.ask)

(* What the weather plugin remembers. *)
Remembers(t) ==
    /\ "own" \in DOMAIN t /\ {"params", "signal"} \subseteq DOMAIN t.own
    /\ t.own.params = WeatherParams[job]
    /\ DOMAIN t.own.signal = Markets
    /\ \A m \in Markets : t.own.signal[m] = NoQuote \/ Closing(t.own.signal[m])

(* A decision made at time n leaves the time the spec asks for. *)
InTime(d, n) ==
    /\ "closes" \in DOMAIN d
    /\ \/ d.closes = None
       \/ job \in LiveJobs /\ d.closes - n >= WeatherParams[job].min_close

AtMostOne(out, n) == out = <<>> \/ \E d : out = <<d>> /\ InTime(d, n)

(* A list of events on their way to the plugin. *)
Carries(q) == \E S : q \in Seq(S) /\ \A e \in S : Heard(e)

Mind ==
    job \in Weathers =>
        /\ Remembers(s)
        /\ AtMostOne(todo, now)

Way ==
    job \in LiveJobs =>
        /\ now \in Int
        /\ catalog \subseteq Markets /\ last_found \subseteq Markets
        /\ forecast \in [as_of : Int, left : Seq(Markets)]
        /\ Carries(wire) /\ Carries(queue)

CloseInv == Mind /\ Way

-----------------------------------------------------------------------------
(* What the plugin does with an event. *)

(* Answers(r, n): the plugin's answer at time n leaves it as it should be. *)
Answers(r, n) == Remembers(r.s) /\ AtMostOne(r.out, n)

(* No decision, and the plugin remembers what it did. *)
LEMMA QuietAnswers ==
    ASSUME NEW t, Remembers(t), NEW n PROVE Answers(quiet(t), n)
BY DEF quiet, Answers, AtMostOne

(* An order that is numbered keeps what it says of the close. *)
LEMMA EmitAnswers ==
    ASSUME NEW t, Remembers(t), NEW d, NEW n, InTime(d, n)
    PROVE  Answers(emit(t, d), n)
<1> DEFINE x == with_id(d, t.ids + 1)
           u == [t EXCEPT !.ids = @ + 1]
<1>1. InTime(x, n)
  BY DEF InTime, with_id, with
<1>2. Remembers(u)
  <2>1. u.own = t.own /\ "own" \in DOMAIN u
    BY DEF Remembers
  <2> QED
    BY <2>1 DEF Remembers
<1>3. emit(t, d).s = u /\ emit(t, d).out = <<x>>
  BY DEF emit
<1> QED
  BY <1>1, <1>2, <1>3 DEF Answers, AtMostOne

(* An order placed on a signal with the time left that the spec asks for.  *)
LEMMA OrderInTime ==
    ASSUME NEW g, Closing(g), NEW n, job \in LiveJobs => n \in Int,
           job \in LiveJobs => ~near_close(WeatherParams[job], g, n),
           NEW m, NEW x, NEW p, NEW k, NEW f, NEW v
    PROVE  InTime([place(m, x, p, k, f, v) EXCEPT !.closes = g.closes], n)
<1> DEFINE d == [place(m, x, p, k, f, v) EXCEPT !.closes = g.closes]
<1>1. "closes" \in DOMAIN d /\ d.closes = g.closes
  BY DEF place
<1>2. CASE g.closes = None
  BY <1>1, <1>2 DEF InTime
<1>3. CASE g.closes # None
  <2>1. job \in LiveJobs /\ g.closes \in Int /\ n \in Int
    BY <1>3 DEF Closing
  <2>2. WeatherParams[job].min_close \in Nat \ {0}
    BY <2>1, LiveAssumption
  <2>3. ~near_close(WeatherParams[job], g, n)
    BY <2>1
  <2>4. PICK k0, c0, n0 : k0 = WeatherParams[job].min_close /\ c0 = g.closes /\ n0 = n
    OBVIOUS
  <2>5. k0 \in Nat \ {0} /\ c0 \in Int /\ n0 \in Int /\ c0 # None
    BY <1>3, <2>1, <2>2, <2>4
  <2>6. ~(k0 > 0 /\ c0 # None /\ c0 - n0 < k0)
    BY <2>3, <2>4 DEF near_close
  <2>7. c0 - n0 >= k0
    BY ONLY <2>5, <2>6
  <2>8. ASSUME NEW y, "closes" \in DOMAIN y, y.closes = c0
        PROVE  InTime(y, n)
    BY <2>1, <2>4, <2>7, <2>8 DEF InTime
  <2> QED
    BY <1>1, <2>4, <2>8
<1> QED
  BY <1>2, <1>3

(* Whether a signal is decided on or priced again: an order is placed for  *)
(* a signal's close only if there is the time for it now.                  *)
LEMMA ForecastAnswers ==
    ASSUME NEW t, Remembers(t), NEW g, Closing(g), NEW c,
           job \in LiveJobs => c.now \in Int
    PROVE  Answers(forecast_decision(t, g, c), c.now)
<1> DEFINE w == t.own.params
           capital == available_capital(w, c)
<1>1. w = WeatherParams[job]
  BY DEF Remembers
<1>2. CASE near_close(w, g, c.now) \/ t.mid[g.market] = None \/ capital <= 0
  <2>1. forecast_decision(t, g, c) = quiet(t)
    BY <1>2 DEF forecast_decision
  <2> QED
    BY <2>1, QuietAnswers
<1>3. CASE ~(near_close(w, g, c.now) \/ t.mid[g.market] = None \/ capital <= 0)
  <2>1. \A m, x, p, k, f, v : InTime([place(m, x, p, k, f, v) EXCEPT !.closes = g.closes], c.now)
    BY <1>1, <1>3, OrderInTime
  <2>2. \A x, p, e : Answers(weather_place_order(t, g, x, p, e, capital), c.now)
    <3> SUFFICES ASSUME NEW x, NEW p, NEW e
                 PROVE  Answers(weather_place_order(t, g, x, p, e, capital), c.now)
      OBVIOUS
    <3> DEFINE size == size_for_edge(t.own.params, e, p, capital)
               order == [ladder |-> g.ladder, market |-> g.market, notional |-> p * size,
                         price |-> p, probability |-> g.probability]
               d == [place(g.market, x, p, size, "IOC", TRUE) EXCEPT !.closes = g.closes]
               u == [t EXCEPT !.own.pending = with(t.own.pending, t.ids + 1, order),
                              !.own.last[g.market] = [price |-> p, probability |-> g.probability]]
    <3>1. Remembers(u)
      <4>1. /\ "own" \in DOMAIN u /\ DOMAIN u.own = DOMAIN t.own
            /\ u.own.params = t.own.params /\ u.own.signal = t.own.signal
        BY DEF Remembers
      <4> QED
        BY <4>1 DEF Remembers
    <3>2. InTime(d, c.now)
      BY <2>1
    <3>3. Answers(emit(u, d), c.now) /\ Answers(quiet(t), c.now)
      BY <3>1, <3>2, EmitAnswers, QuietAnswers
    <3>4. weather_place_order(t, g, x, p, e, capital) \in {emit(u, d), quiet(t)}
      BY DEF weather_place_order
    <3> QED
      BY <3>3, <3>4
  <2>3. Answers(taker_decision(t, g, capital), c.now)
    BY <2>2, QuietAnswers DEF taker_decision
  <2>4. Answers(passive_decision(t, g, capital), c.now)
    BY <2>1, EmitAnswers, QuietAnswers DEF passive_decision
  <2> QED
    BY <1>3, <2>3, <2>4 DEF forecast_decision
<1> QED
  BY <1>2, <1>3

(* _latest_tick_decision prices the signal it remembers, with its close. *)
LEMMA TickAnswers ==
    ASSUME NEW t, Remembers(t), NEW m \in Markets, NEW c,
           job \in LiveJobs => c.now \in Int
    PROVE  Answers(latest_tick_decision(t, m, c), c.now)
<1> DEFINE g == t.own.signal[m]
<1>1. CASE g = NoQuote
  BY <1>1, QuietAnswers DEF latest_tick_decision
<1>2. CASE g # NoQuote
  <2>1. Closing(g)
    BY <1>2 DEF Remembers
  <2>2. Answers(forecast_decision(t, g, c), c.now)
    BY <2>1, ForecastAnswers
  <2> QED
    BY <2>2, QuietAnswers DEF latest_tick_decision
<1> QED
  BY <1>1, <1>2

(* weather_temperature_arbitrage.on_event: a price and a settlement leave  *)
(* the signals be, and a signal is remembered with its close.              *)
LEMMA EventAnswers ==
    ASSUME NEW t, Remembers(t), NEW e, Heard(e), NEW c,
           job \in LiveJobs => c.now \in Int
    PROVE  Answers(weather_temperature_arbitrage(t, e, c), c.now)
<1>0. e.market \in Markets
  BY DEF Heard
<1>1. CASE e.kind = "settlement"
  <2> DEFINE u == [t EXCEPT !.own = release_settled_notional(@, e.market)]
  <2>1. /\ "own" \in DOMAIN u /\ DOMAIN u.own = DOMAIN t.own
        /\ u.own.params = t.own.params /\ u.own.signal = t.own.signal
    BY DEF Remembers, release_settled_notional
  <2>2. Remembers(u)
    BY <2>1 DEF Remembers
  <2>3. weather_temperature_arbitrage(t, e, c) = quiet(u)
    BY <1>1 DEF weather_temperature_arbitrage
  <2> QED
    BY <2>2, <2>3, QuietAnswers
<1>2. ASSUME NEW q PROVE Remembers(cache_any_mid(t, q))
  <2> DEFINE u == cache_any_mid(t, q)
  <2>1. "own" \in DOMAIN u /\ u.own = t.own
    BY DEF cache_any_mid, Remembers
  <2> QED
    BY <2>1 DEF Remembers
<1>3. CASE e.kind \in {"quote", "book"}
  <2>1. PICK q : weather_temperature_arbitrage(t, e, c)
                    = latest_tick_decision(cache_any_mid(t, q), e.market, c)
    BY <1>3 DEF weather_temperature_arbitrage, track_mid, track_book
  <2> QED
    BY <1>0, <1>2, <2>1, TickAnswers
<1>4. CASE e.kind = "signal"
  <2> DEFINE u == [t EXCEPT !.own.signal[e.market] = e]
  <2>1. Closing(e)
    BY <1>4 DEF Heard
  <2>2. Remembers(u)
    <3>1. /\ "own" \in DOMAIN u /\ DOMAIN u.own = DOMAIN t.own
          /\ u.own.params = t.own.params
          /\ u.own.signal = [t.own.signal EXCEPT ![e.market] = e]
      BY DEF Remembers
    <3> QED
      BY <2>1, <3>1 DEF Remembers
  <2>3. Answers(forecast_decision(u, e, c), c.now) /\ Answers(quiet(t), c.now)
    BY <2>1, <2>2, ForecastAnswers, QuietAnswers
  <2>4. weather_temperature_arbitrage(t, e, c) \in {forecast_decision(u, e, c), quiet(t)}
    BY <1>4 DEF weather_temperature_arbitrage
  <2> QED
    BY <2>3, <2>4
<1>5. CASE e.kind \notin {"settlement", "quote", "book", "signal"}
  <2>1. weather_temperature_arbitrage(t, e, c) = quiet(t)
    BY <1>5 DEF weather_temperature_arbitrage
  <2> QED
    BY <2>1, QuietAnswers
<1> QED
  BY <1>1, <1>3, <1>4, <1>5

(* on_feedback: what the verdict changes is the money, not the signals.    *)
LEMMA FeedbackRemembers ==
    ASSUME NEW t, Remembers(t), NEW d, NEW b
    PROVE  Remembers(weather_on_feedback(t, d, b))
<1> DEFINE u == weather_on_feedback(t, d, b)
<1>1. /\ "own" \in DOMAIN u /\ DOMAIN u.own = DOMAIN t.own
      /\ u.own.params = t.own.params /\ u.own.signal = t.own.signal
  BY ZenonT(40) DEF Remembers, weather_on_feedback, record_accepted_order
<1> QED
  BY <1>1 DEF Remembers

-----------------------------------------------------------------------------
(* One decision at a time is on its way to its verdict. *)

(* A list of one element, element by element. *)
LEMMA Mapped ==
    ASSUME NEW d, NEW x
    PROVE  [k \in DOMAIN <<d>> |-> x] = <<x>>
OBVIOUS

(* An event that is handed over leaves one decision in time, or none. *)
LEMMA HandedOver ==
    ASSUME job \in Weathers, Remembers(s), NEW e, Heard(e), NEW c,
           job \in LiveJobs => c.now \in Int,
           hand_over(e, c), now' = c.now
    PROVE  Mind'
<1> DEFINE r == on_event(job, s, e, c)
           out == [k \in DOMAIN r.out |-> wrap(r.out[k], e)]
<1>1. s' = r.s /\ todo' = out /\ job' = job
  BY DEF hand_over
<1>2. r = weather_temperature_arbitrage(s, e, c)
  BY DEF on_event, Weathers, LiveJobs
<1> HIDE DEF r
<1>3. Remembers(r.s) /\ AtMostOne(r.out, c.now)
  BY <1>2, EventAnswers DEF Answers
<1>4. AtMostOne(out, c.now)
  <2>1. CASE r.out = <<>>
    BY <2>1 DEF AtMostOne
  <2>2. CASE r.out # <<>>
    <3>1. PICK d : r.out = <<d>> /\ InTime(d, c.now)
      BY <1>3, <2>2 DEF AtMostOne
    <3>2. out = [k \in DOMAIN <<d>> |-> wrap(d, e)]
      BY <3>1
    <3>3. out = <<wrap(d, e)>>
      BY <3>2, Mapped
    <3>4. InTime(wrap(d, e), c.now)
      BY <3>1 DEF InTime, wrap
    <3> QED
      BY <3>3, <3>4 DEF AtMostOne
  <2> QED
    BY <2>1, <2>2
<1> HIDE DEF out
<1>5. Remembers(s)' /\ AtMostOne(todo, now)'
  BY <1>1, <1>3, <1>4 DEF Remembers, Closing, AtMostOne, InTime
<1> QED
  BY <1>5 DEF Mind

(* The verdict on a decision is the end of it. *)
LEMMA Judged ==
    ASSUME Mind, job \in Weathers, todo # <<>>, NEW b,
           s' = on_feedback(job, s, Head(todo), b), todo' = Tail(todo), job' = job
    PROVE  Mind'
<1>1. Remembers(s) /\ AtMostOne(todo, now)
  BY DEF Mind
<1>2. todo' = <<>>
  <2>1. PICK d : todo = <<d>>
    BY <1>1 DEF AtMostOne
  <2> QED
    BY <2>1
<1>3. s' = weather_on_feedback(s, Head(todo), b)
  BY DEF on_feedback, Weathers, LiveJobs
<1>4. Remembers(s')
  BY <1>1, <1>3, FeedbackRemembers
<1> QED
  BY <1>2, <1>4 DEF Mind, AtMostOne, Remembers, Closing

(* The quotes of a run are of its markets, at prices a venue shows. *)
LEMMA QuotesShown ==
    ASSUME NEW q \in quotes
    PROVE  /\ q.market \in Markets /\ q.kind = "quote" /\ Shown(q.bid) /\ Shown(q.ask)
           /\ DOMAIN q = {"kind", "market", "side", "bid", "ask"}
<1>1. PICK m \in Markets, x \in {"YES", "NO"}, p \in QuotePrices :
          q = [kind |-> "quote", market |-> m, side |-> x, bid |-> p[1], ask |-> p[2]]
  BY DEF quotes
<1>2. Shown(p[1]) /\ Shown(p[2])
  BY RunAssumption DEF Shown
<1> QED
  BY <1>1, <1>2

(* On stored events no signal knows of a close. *)
LEMMA StoredHeard ==
    ASSUME job \in Weathers \ LiveJobs, NEW e \in inputs(job)
    PROVE  Heard(e)
<1>1. e \in quotes \cup {b \in books : b.market = Ladder[1]}
              \cup [kind : {"settlement"}, market : Markets]
              \cup [kind : {"signal"}, market : Markets, probability : Probabilities,
                   lead : {None, 0, 1}, ladder : Ladders, closes : {None}, at : {now}]
  BY DEF inputs, Weathers, LiveJobs
<1>2. ASSUME NEW q \in quotes
      PROVE  /\ q.market \in Markets /\ q.kind = "quote" /\ Shown(q.bid) /\ Shown(q.ask)
             /\ {"market", "bid", "ask"} \subseteq DOMAIN q
  BY <1>2, QuotesShown
<1>3. ASSUME NEW q \in books
      PROVE  /\ q.market \in Markets /\ q.kind = "book" /\ Shown(q.bid) /\ Shown(q.ask)
             /\ {"market", "bid", "ask"} \subseteq DOMAIN q
  <2>1. PICK r \in quotes : q = [r EXCEPT !.kind = "book"]
    BY DEF books
  <2>2. DOMAIN r = {"kind", "market", "side", "bid", "ask"}
    BY QuotesShown
  <2> QED
    BY <1>2, <2>1, <2>2
<1> QED
  BY <1>1, <1>2, <1>3 DEF Heard, Closing

(* The runner: events, verdicts, start and stop. *)
LEMMA RunKeepsMind ==
    ASSUME Mind, RunNext
    PROVE  Mind'
<1>1. CASE job \notin Weathers
  <2>1. job' = job
    BY DEF RunNext, runner_start, process_event, accept, reject, runner_stop, hand_over
  <2> QED
    BY <1>1, <2>1 DEF Mind
<1>2. CASE job \in Weathers
  <2> USE <1>2
  <2>0. Remembers(s) /\ AtMostOne(todo, now)
    BY DEF Mind
  <2>1. CASE UNCHANGED <<job, s, todo, now>>
    BY <2>0, <2>1 DEF Mind, AtMostOne, InTime, Remembers, Closing
  <2>2. CASE process_event
    <3>1. PICK e \in inputs(job), cash_then \in CashLevels :
            /\ hand_over(e, [now |-> event_time(e), cash |-> cash_then])
            /\ now' = event_time(e)
      BY <2>2 DEF process_event
    <3>2. job \in Weathers \ LiveJobs
      BY <2>2 DEF process_event
    <3>3. Heard(e)
      BY <3>2, StoredHeard
    <3> QED
      BY <2>0, <3>1, <3>2, <3>3, HandedOver
  <2>3. CASE accept
    BY <2>3, Judged DEF accept
  <2>4. CASE reject
    BY <2>4, Judged DEF reject
  <2> QED
    BY <2>1, <2>2, <2>3, <2>4 DEF RunNext, runner_start, runner_stop
<1> QED
  BY <1>1, <1>2

-----------------------------------------------------------------------------
(* What is on its way between the tasks. *)

(* A list of events the plugin may hear carries them. *)
LEMMA CarriesIt ==
    ASSUME NEW S, NEW q \in Seq(S), \A e \in S : Heard(e)
    PROVE  Carries(q)
BY DEF Carries

(* Put at the end of a queue. *)
LEMMA CarriesMore ==
    ASSUME NEW q, Carries(q), NEW e, Heard(e)
    PROVE  Carries(Append(q, e))
<1>1. PICK S : q \in Seq(S) /\ \A x \in S : Heard(x)
  BY DEF Carries
<1>2. q \in Seq(S \cup {e}) /\ e \in S \cup {e}
  BY <1>1
<1>3. Append(q, e) \in Seq(S \cup {e})
  BY <1>2
<1> QED
  BY <1>1, <1>3 DEF Carries

(* Taken from its head. *)
LEMMA CarriesLess ==
    ASSUME NEW q, Carries(q), q # <<>>
    PROVE  Heard(Head(q)) /\ Carries(Tail(q))
<1>1. PICK S : q \in Seq(S) /\ \A x \in S : Heard(x)
  BY DEF Carries
<1>2. Head(q) \in S /\ Tail(q) \in Seq(S)
  BY <1>1
<1> QED
  BY <1>1, <1>2 DEF Carries

(* An empty queue carries nothing. *)
LEMMA CarriesNone == Carries(<<>>)
<1>1. PICK S, q : S = {} /\ q = <<>>
  OBVIOUS
<1>2. q \in Seq(S) /\ \A e \in S : Heard(e)
  BY <1>1
<1>3. Carries(q)
  BY <1>2, CarriesIt
<1> QED
  BY <1>1, <1>3

(* The contracts of a tick are contracts of the catalog. *)
LEMMA Listed ==
    ASSUME NEW S, S \subseteq Markets
    PROVE  SetToSeq(S) \in Seq(Markets)
<1>1. IsFiniteSet(S) /\ Cardinality(S) \in Nat
  BY SignalAssumption, FS_Subset, FS_CardinalityType
<1>2. \E f : f \in Bijection(1 .. Cardinality(S), S)
  BY <1>1, FS_CardinalityType DEF ExistsBijection
<1>3. \E f : f \in [1 .. Cardinality(S) -> S] /\ IsInjective(f)
  BY <1>2 DEF Bijection, Injection, IsInjective
<1>4. SetToSeq(S) \in [1 .. Cardinality(S) -> S]
  BY <1>3 DEF SetToSeq
<1>5. SetToSeq(S) \in Seq(S)
  BY <1>1, <1>4
<1> QED
  BY <1>5

(* A message of the venue and a forecast make events the plugin may hear.  *)
LEMMA MessageHeard ==
    ASSUME NEW q \in quotes
    PROVE  /\ Heard([q EXCEPT !.kind = "book"])
           /\ Heard(q)
           /\ Heard([q EXCEPT !.side = "NO", !.bid = flip(q.ask), !.ask = flip(q.bid)])
<1>1. /\ q.market \in Markets /\ q.kind = "quote" /\ Shown(q.bid) /\ Shown(q.ask)
      /\ DOMAIN q = {"kind", "market", "side", "bid", "ask"}
  BY QuotesShown
<1>2. \A p : Shown(p) => Shown(flip(p))
  BY DEF Shown, flip, One, None
<1>3. Shown(flip(q.ask)) /\ Shown(flip(q.bid))
  BY <1>1, <1>2
<1> QED
  BY <1>1, <1>3 DEF Heard

(* _kxhigh_external_signal and its threshold twin: a close is a time. *)
LEMMA ForecastHeard ==
    ASSUME job \in LiveJobs, NEW m \in Markets, NEW n, NEW p
    PROVE  Heard(forecast_signal(m, n, p))
BY LiveAssumption DEF Heard, Closing, forecast_signal

(* The events of one message. *)
LEMMA CarriesPair ==
    ASSUME NEW x, Heard(x), NEW y, Heard(y)
    PROVE  Carries(<<x, y>>) /\ Carries(<<x>>)
<1>1. PICK S, p, q : S = {x, y} /\ p = <<x, y>> /\ q = <<x>>
  OBVIOUS
<1>2. p \in Seq(S) /\ q \in Seq(S) /\ \A e \in S : Heard(e)
  BY <1>1
<1>3. Carries(p) /\ Carries(q)
  BY <1>2, CarriesIt
<1> QED
  BY <1>1, <1>3

(* The tasks of the live runner, as the plugin sees them: only the         *)
(* strategy task hands over, and the clock moves only between events.      *)
LEMMA LiveKeepsMind ==
    ASSUME Mind, Way, LiveNext
    PROVE  Mind'
<1> USE DEF LiveNext
<1>0. job \in LiveJobs /\ job' = job /\ job \in Weathers
  BY DEF discover, discover_times_out, discover_raises, rediscover, ws_message, ws_put,
         ws_session_ends, forecast_tick, forecast_skip, forecast_put, balance_refresh,
         strategy_get, hand_over, clock, shutdown, looping, run_vars, Weathers
<1>1. Remembers(s) /\ AtMostOne(todo, now) /\ now \in Int
  BY <1>0 DEF Mind, Way
<1>2. CASE UNCHANGED <<s, todo, now>>
  BY <1>0, <1>1, <1>2 DEF Mind, AtMostOne, InTime, Remembers, Closing
<1>3. CASE strategy_get
  <2>1. hand_over(Head(queue), [now |-> now, cash |-> cash]) /\ now' = now /\ queue # <<>>
    BY <1>3 DEF strategy_get
  <2>2. Heard(Head(queue))
    BY <1>0, <2>1, CarriesLess DEF Way
  <2> QED
    BY <1>0, <1>1, <2>1, <2>2, HandedOver
<1>4. CASE clock
  <2>1. todo' = <<>> /\ s' = s
    BY <1>4 DEF clock, looping
  <2> QED
    BY <1>0, <1>1, <2>1 DEF Mind, AtMostOne, Remembers, Closing
<1> QED
  BY <1>2, <1>3, <1>4
  DEF discover, discover_times_out, discover_raises, rediscover, ws_message, ws_put,
      ws_session_ends, forecast_tick, forecast_skip, forecast_put, balance_refresh,
      shutdown, run_vars

(* The tasks of the live runner, each with what it carries. *)
LEMMA LiveKeepsWay ==
    ASSUME Way, LiveNext
    PROVE  Way'
<1>0. job \in LiveJobs /\ job' = job
  BY DEF LiveNext, discover, discover_times_out, discover_raises, rediscover, ws_message, ws_put,
         ws_session_ends, forecast_tick, forecast_skip, forecast_put, balance_refresh,
         strategy_get, hand_over, clock, shutdown, looping, run_vars
<1>1. /\ now \in Int /\ catalog \subseteq Markets /\ last_found \subseteq Markets
      /\ forecast \in [as_of : Int, left : Seq(Markets)] /\ Carries(wire) /\ Carries(queue)
  BY <1>0 DEF Way
<1>2. ASSUME /\ now' \in Int /\ catalog' \subseteq Markets /\ last_found' \subseteq Markets
             /\ forecast' \in [as_of : Int, left : Seq(Markets)] /\ Carries(wire') /\ Carries(queue')
      PROVE  Way'
  BY <1>0, <1>2 DEF Way, Carries, Heard, Closing
<1>3. CASE discover
  BY <1>1, <1>2, <1>3, LiveAssumption DEF discover, run_vars
<1>4. CASE discover_times_out
  BY <1>1, <1>2, <1>4 DEF discover_times_out, run_vars
<1>5. CASE discover_raises \/ rediscover \/ balance_refresh
  BY <1>1, <1>2, <1>5 DEF discover_raises, rediscover, balance_refresh, run_vars
<1>6. CASE ws_message
  <2>1. PICK q \in quotes :
            \/ wire' = <<q, [q EXCEPT !.side = "NO", !.bid = flip(q.ask), !.ask = flip(q.bid)]>>
            \/ wire' = <<[q EXCEPT !.kind = "book"]>>
    BY <1>6 DEF ws_message
  <2>2. Carries(wire')
    BY <2>1, MessageHeard, CarriesPair
  <2> QED
    BY <1>1, <1>2, <1>6, <2>2 DEF ws_message, run_vars
<1>7. CASE ws_put
  <2>1. Heard(Head(wire)) /\ Carries(wire') /\ queue' = Append(queue, Head(wire))
    BY <1>1, <1>7, CarriesLess DEF ws_put
  <2>2. Carries(queue')
    BY <1>1, <2>1, CarriesMore
  <2> QED
    BY <1>1, <1>2, <1>7, <2>1, <2>2 DEF ws_put, run_vars
<1>8. CASE ws_session_ends
  BY <1>1, <1>2, <1>8, CarriesNone DEF ws_session_ends, run_vars
<1>9. CASE forecast_tick
  <2>1. forecast' \in [as_of : Int, left : Seq(Markets)]
    BY <1>1, <1>9, Listed DEF forecast_tick
  <2> QED
    BY <1>1, <1>2, <1>9, <2>1 DEF forecast_tick, run_vars
<1>10. ASSUME forecast.left # <<>>
       PROVE  /\ Head(forecast.left) \in Markets
              /\ [forecast EXCEPT !.left = Tail(@)] \in [as_of : Int, left : Seq(Markets)]
  <2>1. PICK a, l : a = forecast.as_of /\ l = forecast.left
    OBVIOUS
  <2>2. l \in Seq(Markets) /\ l # <<>>
    BY <1>1, <1>10, <2>1
  <2>3. Head(l) \in Markets /\ Tail(l) \in Seq(Markets)
    BY <2>2
  <2> QED
    BY <1>1, <2>1, <2>3
<1>11. CASE forecast_skip
  BY <1>1, <1>2, <1>10, <1>11 DEF forecast_skip, run_vars
<1>12. CASE forecast_put
  <2>1. PICK p : queue' = Append(queue, forecast_signal(Head(forecast.left), forecast.as_of, p))
    BY <1>12 DEF forecast_put
  <2>2. Carries(queue')
    BY <1>0, <1>1, <1>10, <1>12, <2>1, ForecastHeard, CarriesMore DEF forecast_put
  <2> QED
    BY <1>1, <1>2, <1>10, <1>12, <2>2 DEF forecast_put, run_vars
<1>13. CASE strategy_get
  <2>1. Carries(queue')
    BY <1>1, <1>13, CarriesLess DEF strategy_get
  <2> QED
    BY <1>1, <1>2, <1>13, <2>1 DEF strategy_get
<1>14. CASE clock
  BY <1>1, <1>2, <1>14 DEF clock, live_vars
<1>15. CASE shutdown
  <2>1. forecast' \in [as_of : Int, left : Seq(Markets)]
    BY <1>15 DEF shutdown, None
  <2> QED
    BY <1>1, <1>2, <1>15, <2>1, CarriesNone DEF shutdown
<1> QED
  BY <1>3, <1>4, <1>5, <1>6, <1>7, <1>8, <1>9, <1>11, <1>12, <1>13, <1>14, <1>15 DEF LiveNext

-----------------------------------------------------------------------------
(* The theorem. *)

(* At first nothing is on its way. *)
LEMMA CloseInitially == Init => CloseInv
<1> SUFFICES ASSUME Init PROVE CloseInv
  OBVIOUS
<1>1. Way
  <2>1. now \in Int /\ forecast \in [as_of : Int, left : Seq(Markets)]
    BY DEF Init, RunInit, LiveInit, None
  <2> QED
    BY <2>1, CarriesNone DEF Way, Init, LiveInit
<1>2. ASSUME job \in Weathers PROVE Remembers(s)
  <2>1. own_state(job) = NewWeather(WeatherParams[job])
    BY <1>2 DEF own_state, Weathers, LiveJobs
  <2>2. s.own = NewWeather(WeatherParams[job]) /\ "own" \in DOMAIN s
    BY <2>1 DEF Init, RunInit, new_plugin
  <2> QED
    BY <2>2 DEF Remembers, NewWeather
<1> QED
  BY <1>1, <1>2 DEF CloseInv, Mind, AtMostOne, Init, RunInit

(* Every step keeps it: a run, the live tasks, a study. *)
LEMMA CloseKept == CloseInv /\ [Next]_vars => CloseInv'
<1> SUFFICES ASSUME CloseInv, [Next]_vars PROVE CloseInv'
  OBVIOUS
<1> USE DEF CloseInv
<1>1. CASE job \notin StudyJobs /\ RunNext /\ UNCHANGED <<live_vars, lab_vars>>
  <2>1. Mind'
    BY <1>1, RunKeepsMind
  <2>2. job' = job /\ (job \in LiveJobs => now' = now)
    BY <1>1 DEF RunNext, runner_start, process_event, accept, reject, runner_stop, hand_over
  <2>3. Way'
    BY <1>1, <2>2 DEF Way, live_vars, Carries, Heard, Closing
  <2> QED
    BY <2>1, <2>3
<1>2. CASE LiveNext
  BY <1>2, LiveKeepsMind, LiveKeepsWay
<1>3. CASE UNCHANGED <<run_vars, live_vars>>
  <2>1. UNCHANGED <<job, s, todo, now, catalog, last_found, forecast, wire, queue>>
    BY <1>3 DEF run_vars, live_vars
  <2> QED
    BY <2>1 DEF Mind, Way, AtMostOne, InTime, Remembers, Carries, Heard, Closing
<1>4. StudyNext => UNCHANGED <<run_vars, live_vars>>
  BY DEF StudyNext, OneJob
<1> QED
  BY <1>1, <1>2, <1>3, <1>4 DEF Next, vars

(* Whatever the forecast, market-data, balance and strategy tasks do in    *)
(* between, an order of the weather plugin that waits for its verdict is   *)
(* for a market that has the minimum time to go at that moment             *)
(* (_near_close, and the order of the tasks of cli/live_paper.py).         *)
THEOREM InTimeForTheClose == Spec => []NoTradeAtTheClose
<1>1. CloseInv => NoTradeAtTheClose
  <2> SUFFICES ASSUME CloseInv, job \in Weathers, NEW d \in Buys, d.closes # None
               PROVE  d.closes - now >= s.own.params.min_close
    BY DEF NoTradeAtTheClose
  <2>1. Remembers(s) /\ AtMostOne(todo, now)
    BY DEF CloseInv, Mind
  <2>2. PICK k \in DOMAIN todo : d = todo[k]
    BY DEF Buys, Pending
  <2>3. PICK x : todo = <<x>> /\ InTime(x, now)
    BY <2>1, <2>2 DEF AtMostOne
  <2>4. d = x
    BY <2>2, <2>3
  <2> QED
    BY <2>1, <2>3, <2>4 DEF InTime, Remembers
<1> QED
  BY CloseInitially, CloseKept, <1>1, PTL DEF Spec

-----------------------------------------------------------------------------
(* The cascade's score. *)

(* The scores a senator has, and their total. *)
Tallied(w) ==
    /\ {"scores", "total"} \subseteq DOMAIN w
    /\ DOMAIN w.scores = Senators
    /\ \A x \in known_scores(w) : w.scores[x].score \in Int
    /\ w.total = score_total(w, known_scores(w))

(* A total of scores is a number. *)
LEMMA ScoreTotal ==
    ASSUME NEW w, NEW S, S \subseteq Senators, \A x \in S : w.scores[x].score \in Int
    PROVE  score_total(w, S) \in Int /\ IsFiniteSet(S)
<1>1. IsFiniteSet(S)
  BY OrderAssumption, FS_Subset
<1>2. PICK f : f = [x \in S |-> w.scores[x].score]
  OBVIOUS
<1>3. SumOver(f, S) \in Int
  BY <1>1, <1>2, SumType
<1> QED
  BY <1>1, <1>2, <1>3 DEF score_total

(* Two states that know the same scores of the senators of S.              *)
LEMMA ScoreSame ==
    ASSUME NEW w, NEW v, NEW S, S \subseteq Senators, \A x \in S : w.scores[x] = v.scores[x]
    PROVE  score_total(w, S) = score_total(v, S)
<1>1. [x \in S |-> w.scores[x].score] = [x \in S |-> v.scores[x].score]
  OBVIOUS
<1> QED
  BY <1>1 DEF score_total

(* Scores of different senators add up. *)
LEMMA ScoreParts ==
    ASSUME NEW w, NEW S, NEW T, S \subseteq Senators, T \subseteq Senators, S \cap T = {},
           \A x \in S \cup T : w.scores[x].score \in Int
    PROVE  score_total(w, S \cup T) = score_total(w, S) + score_total(w, T)
<1>1. PICK f, g, h : /\ f = [x \in S |-> w.scores[x].score]
                     /\ g = [x \in T |-> w.scores[x].score]
                     /\ h = [x \in S \cup T |-> w.scores[x].score]
  OBVIOUS
<1>2. IsFiniteSet(S) /\ IsFiniteSet(T)
  BY OrderAssumption, FS_Subset
<1>3. \A x \in S \cup T : h[x] \in Int
  BY <1>1
<1>4. SumOver(h, S \cup T) = SumOver(h, S) + SumOver(h, T)
  BY <1>2, <1>3, SumUnion
<1>5. (\A x \in S : h[x] = f[x]) /\ \A x \in T : h[x] = g[x]
  BY <1>1
<1>6. SumOver(h, S) = SumOver(f, S) /\ SumOver(h, T) = SumOver(g, T)
  BY <1>2, <1>5, SumSame
<1> QED
  BY <1>1, <1>4, <1>6 DEF score_total

(* _evict_expired_scores takes away what it forgets.                       *)
LEMMA EvictTallied ==
    ASSUME NEW w, Tallied(w), NEW n
    PROVE  Tallied(evict_expired(w, n))
<1> DEFINE old == {x \in known_scores(w) : w.scores[x].at < n - ScoreTtl}
           v == evict_expired(w, n)
<1>1. /\ DOMAIN v = DOMAIN w /\ v.total = w.total - score_total(w, old)
      /\ v.scores = [x \in Senators |-> IF x \in old THEN NoQuote ELSE w.scores[x]]
  BY DEF Tallied, evict_expired
<1>2. known_scores(v) = known_scores(w) \ old
  BY <1>1 DEF known_scores
<1> HIDE DEF v
<1>3. PICK S, T : S = old /\ T = known_scores(w) \ old
  OBVIOUS
<1>4. /\ S \subseteq Senators /\ T \subseteq Senators /\ S \cap T = {}
      /\ S \cup T = known_scores(w)
      /\ \A x \in S \cup T : w.scores[x].score \in Int
  BY <1>3 DEF known_scores, Tallied
<1>5. w.total = score_total(w, S) + score_total(w, T)
  BY <1>4, ScoreParts DEF Tallied
<1>6. score_total(w, S) \in Int /\ score_total(w, T) \in Int
  BY <1>4, ScoreTotal
<1>7. \A x \in T : v.scores[x] = w.scores[x]
  BY <1>1, <1>3, <1>4
<1>8. score_total(v, T) = score_total(w, T)
  BY <1>4, <1>7, ScoreSame
<1>9. v.total = score_total(v, known_scores(v))
  BY <1>1, <1>2, <1>3, <1>5, <1>6, <1>8
<1>10. \A x \in known_scores(v) : v.scores[x].score \in Int
  BY <1>2, <1>3, <1>4, <1>7
<1>11. Tallied(v)
  BY <1>1, <1>9, <1>10 DEF Tallied
<1> QED
  BY <1>11 DEF v

(* A new score takes the place of the senator's last one.                  *)
LEMMA ScoreTallied ==
    ASSUME NEW w, Tallied(w), NEW z \in Senators, NEW n \in Int, NEW a
    PROVE  LET last_score == IF w.scores[z] = NoQuote THEN 0 ELSE w.scores[z].score
           IN  Tallied([w EXCEPT !.scores[z] = [score |-> n, at |-> a], !.total = @ - last_score + n])
<1> DEFINE last_score == IF w.scores[z] = NoQuote THEN 0 ELSE w.scores[z].score
           v == [w EXCEPT !.scores[z] = [score |-> n, at |-> a], !.total = @ - last_score + n]
           K == known_scores(w)
           T == K \ {z}
<1>1. /\ DOMAIN v = DOMAIN w /\ v.total = w.total - last_score + n
      /\ v.scores = [w.scores EXCEPT ![z] = [score |-> n, at |-> a]]
  BY DEF Tallied
<1>2. [score |-> n, at |-> a] # NoQuote
  BY DEF NoQuote
<1>3. /\ DOMAIN v.scores = Senators /\ v.scores[z] = [score |-> n, at |-> a]
      /\ \A x \in Senators \ {z} : v.scores[x] = w.scores[x]
  BY <1>1 DEF Tallied
<1> HIDE DEF v
<1>4. known_scores(v) = T \cup {z}
  BY <1>2, <1>3 DEF known_scores
<1>5. /\ K \subseteq Senators /\ T \subseteq Senators /\ {z} \subseteq Senators /\ T \cap {z} = {}
      /\ \A x \in K : w.scores[x].score \in Int
  BY DEF known_scores, Tallied
<1>6. \A x \in T \cup {z} : v.scores[x].score \in Int
  BY <1>3, <1>5
<1>7. \A x \in T : v.scores[x] = w.scores[x]
  BY <1>3, <1>5
<1>a. PICK R, Z : R = T /\ Z = {z}
  OBVIOUS
<1>8. score_total(v, known_scores(v)) = score_total(v, R) + score_total(v, Z)
  BY <1>4, <1>5, <1>6, <1>a, ScoreParts
<1>9. score_total(v, R) = score_total(w, R)
  BY <1>5, <1>7, <1>a, ScoreSame
<1>10. ASSUME NEW u, u.scores[z].score \in Int
       PROVE  score_total(u, Z) = u.scores[z].score
  <2>1. PICK f : f = [x \in Z |-> u.scores[x].score]
    OBVIOUS
  <2>2. IsFiniteSet(Z) /\ z \in Z /\ Z \ {z} = {} /\ \A x \in Z : f[x] \in Int
    BY <1>a, <1>10, <2>1, FS_Singleton
  <2>3. SumOver(f, Z) = f[z] + SumOver(f, Z \ {z})
    BY <2>2, SumSplit
  <2>4. SumOver(f, Z) = f[z] + 0
    BY <2>2, <2>3, SumEmpty
  <2> QED
    BY <1>10, <2>1, <2>2, <2>4 DEF score_total
<1>11. score_total(v, Z) = n
  BY <1>3, <1>10
<1>12. score_total(w, R) \in Int
  BY <1>5, <1>a, ScoreTotal
<1>13. w.total = score_total(w, R) + last_score /\ last_score \in Int
  <2>1. CASE z \in K
    <3>1. K = R \cup Z /\ last_score = w.scores[z].score /\ w.scores[z].score \in Int
      BY <1>5, <1>a, <2>1 DEF known_scores
    <3>2. score_total(w, R \cup Z) = score_total(w, R) + score_total(w, Z)
      BY <1>5, <1>a, <3>1, ScoreParts
    <3> QED
      BY <1>10, <3>1, <3>2 DEF Tallied
  <2>2. CASE z \notin K
    <3>1. K = R /\ last_score = 0
      BY <1>a, <2>2 DEF known_scores
    <3> QED
      BY <1>12, <3>1 DEF Tallied
  <2> QED
    BY <2>1, <2>2
<1>14. v.total = score_total(v, known_scores(v))
  BY <1>1, <1>8, <1>9, <1>11, <1>12, <1>13
<1> QED
  BY <1>1, <1>3, <1>4, <1>6, <1>14 DEF Tallied, v

(* on_event and on_feedback of the cascade. *)
Cascade(t) == "own" \in DOMAIN t /\ Tallied(t.own)

(* What the cascade is is what it owns. *)
LEMMA CascadeOwn ==
    ASSUME NEW t, Cascade(t), NEW w, Tallied(w)
    PROVE  Cascade([t EXCEPT !.own = w])
BY DEF Cascade

(* An order that is numbered changes nothing else. *)
LEMMA EmitOwn ==
    ASSUME NEW t, "own" \in DOMAIN t, NEW d
    PROVE  /\ "own" \in DOMAIN emit(t, d).s
           /\ emit(t, d).s.own = t.own
BY SMTT(30) DEF emit

(* on_event of the cascade. *)
LEMMA CascadeHears ==
    ASSUME NEW t, Cascade(t), NEW e \in inputs("politics_legislative_cascade")
    PROVE  Cascade(politics_legislative_cascade(t, e).s)
<1>1. e \in [kind : {"sentiment"}, senator : Senators, score : {None, -3, 2}, at : {now, now + 2}]
  BY DEF inputs
<1> DEFINE own == evict_expired(t.own, e.at)
           last_score == IF own.scores[e.senator] = NoQuote THEN 0 ELSE own.scores[e.senator].score
           with_score == [own EXCEPT !.scores[e.senator] = [score |-> e.score, at |-> e.at],
                                 !.total = @ - last_score + e.score]
           u == [t EXCEPT !.own = with_score]
           d == place(Ladder[1], "NO", One \div 2, Size, "GTC", FALSE)
           r == politics_legislative_cascade(t, e)
<1>2. Tallied(own)
  BY EvictTallied DEF Cascade
<1>3. e.senator \in Senators /\ e.score \in Int
  BY <1>1 DEF None
<1>4. Tallied(with_score)
  BY <1>2, <1>3, ScoreTallied
<1>5. Cascade([t EXCEPT !.own = own]) /\ Cascade(u)
  BY <1>2, <1>4, CascadeOwn
<1>6. Cascade(emit(u, d).s)
  BY <1>5, EmitOwn DEF Cascade
<1>7. r.s \in {t, [t EXCEPT !.own = own], u, emit(u, d).s}
  BY DEF politics_legislative_cascade, quiet, decide
<1> QED
  BY <1>5, <1>6, <1>7

(* on_feedback of the cascade: only the protective order is forgotten. *)
LEMMA CascadeJudged ==
    ASSUME NEW t, Cascade(t), NEW d, NEW b
    PROVE  Cascade(legislative_on_feedback(t, d, b))
<1> DEFINE w == [t.own EXCEPT !.protective = FALSE]
<1>1. DOMAIN w = DOMAIN t.own /\ w.scores = t.own.scores /\ w.total = t.own.total
  BY DEF Cascade, Tallied
<1>2. Tallied(w)
  <2>1. known_scores(w) = known_scores(t.own)
    BY <1>1 DEF known_scores
  <2>2. \A S : score_total(w, S) = score_total(t.own, S)
    BY <1>1 DEF score_total
  <2> HIDE DEF w
  <2> QED
    BY <1>1, <2>1, <2>2 DEF Cascade, Tallied
<1>3. legislative_on_feedback(t, d, b) \in {t, [t EXCEPT !.own = w]}
  BY DEF legislative_on_feedback
<1>4. Cascade([t EXCEPT !.own = w])
  BY <1>2, CascadeOwn
<1> QED
  BY <1>3, <1>4

-----------------------------------------------------------------------------
(* The evader's volumes. *)

(* The sum of no numbers. *)
LEMMA SumOfNone == sum(<<>>) = 0
<1>1. PICK h : h = <<>>
  OBVIOUS
<1>2. DOMAIN h = {}
  BY <1>1
<1> QED
  BY <1>1, <1>2, SumEmpty DEF sum

(* The sum of a list, one more at its end, one less at its head. *)
LEMMA SumOfList ==
    ASSUME NEW h \in Seq(Int)
    PROVE  /\ sum(h) \in Int
           /\ \A n \in Int : sum(Append(h, n)) = sum(h) + n
           /\ h # <<>> => sum(h) = Head(h) + sum(Tail(h))
<1>1. PICK n \in Nat : n = Len(h) /\ DOMAIN h = 1 .. n /\ \A k \in 1 .. n : h[k] \in Int
  OBVIOUS
<1>2. sum(h) \in Int
  BY <1>1, UpTo, SumType DEF sum
<1>3. ASSUME NEW x \in Int
      PROVE  sum(Append(h, x)) = sum(h) + x
  <2>1. PICK g : g = Append(h, x)
    OBVIOUS
  <2>2. DOMAIN g = 1 .. (n + 1) /\ g[n + 1] = x /\ \A k \in 1 .. n : g[k] = h[k]
    BY <1>1, <2>1
  <2>3. \A k \in 1 .. (n + 1) : g[k] \in Int
    BY <1>1, <1>3, <2>2
  <2>4. SumOver(g, 1 .. (n + 1)) = SumOver(g, 1 .. n) + g[n + 1]
    BY <2>3, SumNext
  <2>5. SumOver(g, 1 .. n) = SumOver(h, 1 .. n)
    BY <2>2, UpTo, SumSame
  <2> QED
    BY <1>1, <2>1, <2>2, <2>4, <2>5 DEF sum
<1>4. ASSUME h # <<>>
      PROVE  sum(h) = Head(h) + sum(Tail(h))
  <2>1. PICK g, m : g = Tail(h) /\ m = n - 1
    OBVIOUS
  <2>2. m \in Nat /\ n = 1 + m /\ DOMAIN g = 1 .. m /\ \A k \in 1 .. m : g[k] = h[1 + k]
    BY <1>1, <1>4, <2>1
  <2>3. Joins(h, 1, h, m, g)
    BY <1>1, <2>2 DEF Joins
  <2>4. SumOver(h, 1 .. (1 + m)) = SumOver(h, 1 .. 1) + SumOver(g, 1 .. m)
    <3>1. PICK o \in Nat : o = 1
      OBVIOUS
    <3>2. Joins(h, o, h, m, g)
      BY <2>3, <3>1
    <3>3. SumOver(h, 1 .. (o + m)) = SumOver(h, 1 .. o) + SumOver(g, 1 .. m)
      BY <2>2, <3>2, SumConcat
    <3> QED
      BY <3>1, <3>3
  <2>5. SumOver(h, 1 .. 1) = h[1]
    <3>0. 1 .. 1 = {1} /\ {1} \ {1} = {}
      OBVIOUS
    <3>1. IsFiniteSet({1}) /\ 1 .. 1 = {1} /\ {1} \ {1} = {}
      BY <3>0, FS_Singleton
    <3>2. h[1] \in Int
      BY <1>1, <2>2
    <3>3. SumOver(h, {1}) = h[1] + SumOver(h, {1} \ {1})
      BY <3>1, <3>2, SumSplit
    <3>4. SumOver(h, {1}) = h[1] + 0
      BY <3>1, <3>3, SumEmpty
    <3> QED
      BY <3>1, <3>2, <3>4
  <2>6. Head(h) = h[1]
    BY <1>4
  <2> QED
    BY <1>1, <2>1, <2>2, <2>4, <2>5, <2>6 DEF sum
<1> QED
  BY <1>2, <1>3, <1>4

(* What is known of one order's queue. *)
Counted(r) ==
    /\ {"volume", "history"} \subseteq DOMAIN r
    /\ r.history \in Seq(Int) /\ r.volume = sum(r.history)

(* The oldest trade leaves the window as the newest enters it. *)
LEMMA TradeCounted ==
    ASSUME NEW r, Counted(r), NEW n \in Int
    PROVE  Counted(adverse_trade(r, n))
<1>1. PICK h : h = r.history
  OBVIOUS
<1>2. h \in Seq(Int) /\ r.volume = sum(h) /\ sum(h) \in Int
  BY <1>1, SumOfList DEF Counted
<1>3. CASE Len(h) = AdverseWindow
  <2>1. h # <<>>
    BY <1>2, <1>3, OrderAssumption
  <2>2. PICK g : g = Tail(h)
    OBVIOUS
  <2>3. g \in Seq(Int) /\ Head(h) \in Int
    BY <1>2, <2>1, <2>2
  <2>4. sum(h) = Head(h) + sum(g) /\ sum(g) \in Int /\ sum(Append(g, n)) = sum(g) + n
    BY <1>2, <2>1, <2>2, <2>3, SumOfList
  <2>5. PICK v, a : v = r.volume + n - Head(h) /\ a = Append(g, n)
    OBVIOUS
  <2>6. a \in Seq(Int) /\ v = sum(a)
    BY <1>2, <2>3, <2>4, <2>5
  <2>7. adverse_trade(r, n) = [r EXCEPT !.volume = v, !.history = a]
    BY <1>1, <1>3, <2>2, <2>5 DEF adverse_trade
  <2> QED
    BY <2>6, <2>7 DEF Counted
<1>4. CASE Len(h) # AdverseWindow
  <2>1. PICK v, a : v = r.volume + n /\ a = Append(h, n)
    OBVIOUS
  <2>2. a \in Seq(Int) /\ v = sum(a)
    BY <1>2, <2>1, SumOfList
  <2>3. adverse_trade(r, n) = [r EXCEPT !.volume = v, !.history = a]
    BY <1>1, <1>4, <2>1 DEF adverse_trade
  <2> QED
    BY <2>2, <2>3 DEF Counted
<1> QED
  BY <1>3, <1>4

(* on_event of the evader. *)
Evader(t) == "own" \in DOMAIN t /\ \A k \in DOMAIN t.own : Counted(t.own[k])

(* What the evader is is what it owns. *)
LEMMA EvaderOwn ==
    ASSUME NEW t, Evader(t), NEW w, \A k \in DOMAIN w : Counted(w[k])
    PROVE  Evader([t EXCEPT !.own = w])
BY DEF Evader

(* on_event of the evader. *)
LEMMA EvaderHears ==
    ASSUME NEW t, Evader(t), NEW e \in inputs("microstructure_queue_evader")
    PROVE  Evader(microstructure_queue_evader(t, e).s)
<1>1. e \in foreign_updates \cup depths \cup {x \in trades : x.market = Ladder[1]}
  BY DEF inputs
<1>2. CASE e.kind = "own_update"
  <2> DEFINE key == queue_key(e)
             fresh == [id |-> e.id, ahead |-> 0, volume |-> 0, seen |-> 0, history |-> <<>>]
  <2>1. PICK w : queue_order_update(t, e) = [t EXCEPT !.own = w]
                 /\ w = IF e.status = "terminal" THEN [k \in DOMAIN t.own \ {key} |-> t.own[k]]
                        ELSE IF key \in DOMAIN t.own THEN [t.own EXCEPT ![key].id = e.id]
                        ELSE with(t.own, key, fresh)
    BY DEF queue_order_update
  <2>a. microstructure_queue_evader(t, e).s = queue_order_update(t, e)
    BY <1>2 DEF microstructure_queue_evader, quiet
  <2>b. ASSUME \A k \in DOMAIN w : Counted(w[k])
        PROVE  Evader(microstructure_queue_evader(t, e).s)
    <3>1. Evader([t EXCEPT !.own = w])
      BY <2>b, EvaderOwn
    <3>2. microstructure_queue_evader(t, e).s = [t EXCEPT !.own = w]
      BY <2>a, <2>1
    <3> QED
      BY ONLY <3>1, <3>2
  <2>2. CASE e.status = "terminal"
    <3>1. \A k \in DOMAIN w : Counted(w[k])
      BY <2>1, <2>2 DEF Evader
    <3> QED
      BY <2>b, <3>1
  <2>3. CASE e.status # "terminal" /\ key \in DOMAIN t.own
    <3>1. w = [t.own EXCEPT ![key] = [t.own[key] EXCEPT !.id = e.id]]
      BY <2>1, <2>3
    <3>2. Counted([t.own[key] EXCEPT !.id = e.id])
      BY <2>3 DEF Evader, Counted
    <3>3. \A k \in DOMAIN w : Counted(w[k])
      BY <3>1, <3>2 DEF Evader
    <3> QED
      BY <2>b, <3>3
  <2>4. CASE e.status # "terminal" /\ key \notin DOMAIN t.own
    <3>1. w = with(t.own, key, fresh)
      BY <2>1, <2>4
    <3>2. Counted(fresh)
      <4>1. <<>> \in Seq(Int)
        OBVIOUS
      <4> QED
        BY <4>1, SumOfNone DEF Counted
    <3>3. \A k \in DOMAIN w : Counted(w[k])
      <4> HIDE DEF fresh, key
      <4> QED
        BY <3>1, <3>2 DEF Evader, with
    <3> QED
      BY <2>b, <3>3
  <2> QED
    BY <2>2, <2>3, <2>4
<1>3. CASE e.kind = "book"
  <2>1. PICK w : w = [k \in DOMAIN t.own |-> queue_estimate(t.own[k], e.depth[k])]
    OBVIOUS
  <2>2. \A r, n : Counted(r) => Counted(queue_estimate(r, n))
    BY DEF Counted, queue_estimate
  <2>3. \A k \in DOMAIN w : Counted(w[k])
    BY <2>1, <2>2 DEF Evader
  <2> QED
    BY <1>3, <2>1, <2>3, EvaderOwn DEF microstructure_queue_evader, quiet
<1>4. CASE e.kind = "trade"
  <2>1. e.quantity \in Int
    BY <1>1, <1>4 DEF foreign_updates, depths, trades
  <2> DEFINE adverse(k) == IF k[2] = "BUY" THEN e.price <= k[1] ELSE e.price >= k[1]
             after == [k \in DOMAIN t.own |->
                        IF adverse(k) THEN adverse_trade(t.own[k], e.quantity) ELSE t.own[k]]
             leave == {k \in DOMAIN after : after[k].ahead <= QueueThreshold
                                             /\ after[k].volume >= AdverseVolume}
             w == [k \in DOMAIN after \ leave |-> after[k]]
  <2>2. \A k \in DOMAIN after : Counted(after[k])
    BY <2>1, TradeCounted DEF Evader
  <2>3. \A k \in DOMAIN w : Counted(w[k])
    <3> HIDE DEF after, leave
    <3> QED
      BY <2>2
  <2>4. queue_observe_trade(t, e).s = [t EXCEPT !.own = w]
    BY DEF queue_observe_trade, decide
  <2>5. microstructure_queue_evader(t, e).s = [t EXCEPT !.own = w]
    BY <1>4, <2>4 DEF microstructure_queue_evader
  <2>6. Evader([t EXCEPT !.own = w])
    <3> HIDE DEF w
    <3> QED
      BY <2>3, EvaderOwn
  <2> QED
    BY <2>5, <2>6
<1>5. CASE e.kind \notin {"own_update", "book", "trade"}
  BY <1>5 DEF microstructure_queue_evader, quiet
<1> QED
  BY <1>2, <1>3, <1>4, <1>5

-----------------------------------------------------------------------------
(* The tennis plugin's position. *)

(* The orders of the venue, and which of them sell: those the plugin sent  *)
(* as exits, numbered among the first n.                                   *)
Sent(o, n, exits) ==
    /\ n \in Nat /\ exits \subseteq 1 .. n /\ DOMAIN o \subseteq 1 .. n
    /\ \A i \in DOMAIN o :
        /\ {"filled", "order_side"} \subseteq DOMAIN o[i]
        /\ o[i].filled \in Nat
        /\ o[i].order_side = IF i \in exits THEN "SELL" ELSE "BUY"

(* What was traded is a number. *)
LEMMA TradedType ==
    ASSUME NEW o, NEW n, NEW X, Sent(o, n, X), NEW x
    PROVE  /\ IsFiniteSet(DOMAIN o) /\ traded_total(o, x) \in Int
           /\ \A i \in DOMAIN o : o[i].filled \in Int
<1>1. IsFiniteSet(1 .. n)
  BY UpTo DEF Sent
<1>2. IsFiniteSet(DOMAIN o)
  BY <1>1, FS_Subset DEF Sent
<1>3. PICK f : f = [i \in DOMAIN o |-> IF o[i].order_side = x THEN o[i].filled ELSE 0]
  OBVIOUS
<1>4. \A i \in DOMAIN o : f[i] \in Int /\ o[i].filled \in Int
  BY <1>3 DEF Sent
<1> QED
  BY <1>2, <1>3, <1>4, SumType DEF traded_total

(* The orders p are the orders o with q more filled of the order z.        *)
Fills(p, o, z, q) == p = [o EXCEPT ![z].filled = @ + q]

(* A fill counts for the side of its order. *)
LEMMA FillCounts ==
    ASSUME NEW o, NEW n, NEW X, Sent(o, n, X), NEW z \in DOMAIN o, NEW q \in Nat, NEW x,
           NEW p, Fills(p, o, z, q)
    PROVE  /\ Sent(p, n, X)
           /\ traded_total(p, x) = traded_total(o, x) + (IF o[z].order_side = x THEN q ELSE 0)
<1> DEFINE f == [i \in DOMAIN o |-> IF o[i].order_side = x THEN o[i].filled ELSE 0]
           g == [i \in DOMAIN p |-> IF p[i].order_side = x THEN p[i].filled ELSE 0]
           v == IF o[z].order_side = x THEN o[z].filled + q ELSE 0
<1>1. /\ DOMAIN p = DOMAIN o
      /\ \A i \in DOMAIN o : i # z => p[i] = o[i]
      /\ p[z] = [o[z] EXCEPT !.filled = o[z].filled + q]
  BY DEF Fills
<1>2. p[z].filled = o[z].filled + q /\ p[z].order_side = o[z].order_side /\ DOMAIN p[z] = DOMAIN o[z]
  BY <1>1 DEF Sent
<1>3. Sent(p, n, X)
  BY <1>1, <1>2 DEF Sent
<1>4. /\ DOMAIN f = DOMAIN o /\ \A i \in DOMAIN o : f[i] \in Int
      /\ f[z] = IF o[z].order_side = x THEN o[z].filled ELSE 0
      /\ v \in Int
  BY TradedType DEF Sent
<1>5. g = [f EXCEPT ![z] = v]
  <2>1. \A i \in DOMAIN o : g[i] = IF i = z THEN v ELSE f[i]
    BY <1>1, <1>2
  <2> QED
    BY <1>1, <2>1
<1> HIDE DEF f, g, v
<1>6. SumOver(g, DOMAIN o) = SumOver(f, DOMAIN o) - f[z] + v
  <2>1. PICK S, F, V : S = DOMAIN o /\ F = f /\ V = v
    OBVIOUS
  <2>2. IsFiniteSet(S) /\ z \in S /\ S \subseteq DOMAIN F /\ V \in Int /\ \A i \in S : F[i] \in Int
    BY <1>4, <2>1, TradedType
  <2>3. SumOver([F EXCEPT ![z] = V], S) = SumOver(F, S) - F[z] + V
    BY ONLY <2>2, SumUpdated
  <2> QED
    BY <1>5, <2>1, <2>3
<1>7. SumOver(f, DOMAIN o) \in Int /\ o[z].filled \in Int
  BY TradedType DEF traded_total, f
<1>8. SumOver(g, DOMAIN o) = SumOver(f, DOMAIN o) + (IF o[z].order_side = x THEN q ELSE 0)
  BY <1>4, <1>6, <1>7 DEF v
<1>9. traded_total(p, x) = SumOver(g, DOMAIN o) /\ traded_total(o, x) = SumOver(f, DOMAIN o)
  BY <1>1 DEF traded_total, f, g
<1>10. traded_total(p, x) = traded_total(o, x) + (IF o[z].order_side = x THEN q ELSE 0)
  BY <1>8, <1>9
<1> QED
  BY <1>3, <1>10

(* A new order has no fills. *)
LEMMA NewOrderCounts ==
    ASSUME NEW o, NEW n, NEW X, Sent(o, n, X), n \notin DOMAIN o, n \in Nat \ {0}, NEW d,
           d.order_side = IF n \in X THEN "SELL" ELSE "BUY", NEW x
    PROVE  LET p == with(o, n, at_venue(d))
           IN  Sent(p, n, X) /\ traded_total(p, x) = traded_total(o, x)
<1> DEFINE p == with(o, n, at_venue(d))
           f == [i \in DOMAIN o |-> IF o[i].order_side = x THEN o[i].filled ELSE 0]
           g == [i \in DOMAIN p |-> IF p[i].order_side = x THEN p[i].filled ELSE 0]
<1>1. /\ DOMAIN p = DOMAIN o \cup {n}
      /\ \A i \in DOMAIN o : p[i] = o[i]
      /\ p[n] = at_venue(d)
  BY DEF with
<1> HIDE DEF p
<1>2. Sent(p, n, X)
  BY <1>1 DEF Sent, at_venue
<1>3. /\ \A i \in DOMAIN o : g[i] = f[i] /\ f[i] \in Int
      /\ g[n] = 0 /\ \A i \in DOMAIN o \cup {n} : g[i] \in Int
  BY <1>1, TradedType DEF at_venue
<1> HIDE DEF f, g
<1>4. SumOver(g, DOMAIN o \cup {n}) = SumOver(g, DOMAIN o) + g[n]
  BY <1>3, TradedType, SumAdded
<1>5. SumOver(g, DOMAIN o) = SumOver(f, DOMAIN o)
  BY <1>3, TradedType, SumSame
<1>6. SumOver(f, DOMAIN o) \in Int
  BY <1>3, TradedType, SumType
<1>7. traded_total(p, x) = traded_total(o, x)
  BY <1>1, <1>3, <1>4, <1>5, <1>6 DEF traded_total, f, g
<1> QED
  BY <1>2, <1>7 DEF p

(* What of the plugin's memory its position rests on. *)
Shaped(t) == {"own", "ids"} \subseteq DOMAIN t /\ {"held", "exits"} \subseteq DOMAIN t.own

(* r is the answer of a plugin in state t that leaves the position alone:  *)
(* no order, or one with the next number, which is an exit if it sells.    *)
Holds(t, r) ==
    /\ Shaped(r.s) /\ r.s.own.held = t.own.held
    /\ \/ r.out = <<>> /\ r.s.ids = t.ids /\ r.s.own.exits = t.own.exits
       \/ /\ r.s.ids = t.ids + 1
          /\ \E d : /\ r.out = <<d>> /\ {"id", "order_side"} \subseteq DOMAIN d /\ d.id = t.ids + 1
                    /\ \/ d.order_side = "SELL" /\ r.s.own.exits = t.own.exits \cup {t.ids + 1}
                       \/ d.order_side = "BUY" /\ r.s.own.exits = t.own.exits

(* No order. *)
LEMMA HoldsQuiet ==
    ASSUME NEW t, NEW u, Shaped(u), u.own.held = t.own.held, u.ids = t.ids, u.own.exits = t.own.exits
    PROVE  Holds(t, quiet(u))
BY DEF Holds, quiet

(* One order, which is an exit if it sells. *)
LEMMA HoldsEmit ==
    ASSUME NEW t, NEW u, Shaped(u), u.own.held = t.own.held, u.ids = t.ids,
           NEW d, "order_side" \in DOMAIN d,
           \/ d.order_side = "SELL" /\ u.own.exits = t.own.exits \cup {t.ids + 1}
           \/ d.order_side = "BUY" /\ u.own.exits = t.own.exits
    PROVE  Holds(t, emit(u, d))
<1> DEFINE x == with_id(d, u.ids + 1)
           v == [u EXCEPT !.ids = @ + 1]
<1>1. emit(u, d).s = v /\ emit(u, d).out = <<x>>
  BY DEF emit
<1>2. {"id", "order_side"} \subseteq DOMAIN x /\ x.id = t.ids + 1 /\ x.order_side = d.order_side
  BY DEF with_id, with
<1>3. Shaped(v) /\ v.own = u.own /\ v.ids = t.ids + 1
  BY DEF Shaped
<1> HIDE DEF x, v
<1> QED
  BY <1>1, <1>2, <1>3 DEF Holds

(* _decision: an exit, an entry or nothing. *)
LEMMA TennisDecides ==
    ASSUME NEW t, Shaped(t)
    PROVE  Holds(t, tennis_decision(t))
<1>1. Holds(t, quiet(t))
  BY HoldsQuiet
<1>2. Holds(t, tennis_exit(t))
  <2> DEFINE bid == liquidation_bid(t.own)
             peak == IF t.own.peak = None THEN bid ELSE Max({bid, t.own.peak})
             id == t.ids + 1
             u == [t EXCEPT !.own.peak = peak]
             v == [t EXCEPT !.own.peak = peak, !.own.exit = id, !.own.exits = @ \cup {id}]
             d == [place(Ladder[1], t.own.held_side, bid, t.own.held, "IOC", TRUE)
                      EXCEPT !.order_side = "SELL"]
  <2>1. Shaped(u) /\ u.own.held = t.own.held /\ u.ids = t.ids /\ u.own.exits = t.own.exits
    <3> HIDE DEF peak
    <3> QED
      BY DEF Shaped
  <2>2. /\ Shaped(v) /\ v.own.held = t.own.held /\ v.ids = t.ids
        /\ v.own.exits = t.own.exits \cup {t.ids + 1}
    <3> HIDE DEF peak
    <3> QED
      BY DEF Shaped
  <2>3. "order_side" \in DOMAIN d /\ d.order_side = "SELL"
    BY DEF place
  <2>4. tennis_exit(t) \in {quiet(t), quiet(u), emit(v, d)}
    BY DEF tennis_exit
  <2> HIDE DEF u, v, d
  <2>5. Holds(t, quiet(u)) /\ Holds(t, emit(v, d))
    BY <2>1, <2>2, <2>3, HoldsQuiet, HoldsEmit
  <2> QED
    BY <1>1, <2>4, <2>5
<1>3. Holds(t, tennis_entry(t))
  <2>1. PICK x, p : tennis_entry(t) \in
            {quiet(t), emit([t EXCEPT !.own.pending_side = x],
                            place(Ladder[1], x, p, Size, "GTD", TRUE))}
    BY DEF tennis_entry
  <2> DEFINE u == [t EXCEPT !.own.pending_side = x]
             d == place(Ladder[1], x, p, Size, "GTD", TRUE)
  <2>2. Shaped(u) /\ u.own.held = t.own.held /\ u.ids = t.ids /\ u.own.exits = t.own.exits
    BY DEF Shaped
  <2>3. "order_side" \in DOMAIN d /\ d.order_side = "BUY"
    BY DEF place
  <2> HIDE DEF u, d
  <2>4. Holds(t, emit(u, d))
    BY <2>2, <2>3, HoldsEmit
  <2> QED
    BY <1>1, <2>1, <2>4 DEF u, d
<1> QED
  BY <1>1, <1>2, <1>3 DEF tennis_decision

(* Every event but a fill leaves the position alone. *)
LEMMA TennisHears ==
    ASSUME NEW t, Shaped(t), NEW e, e.kind # "own_fill"
    PROVE  Holds(t, sports_tennis_xgboost(t, e))
<1> DEFINE r == sports_tennis_xgboost(t, e)
<1>1. ASSUME NEW u, Shaped(u), u.own.held = t.own.held, u.ids = t.ids, u.own.exits = t.own.exits
      PROVE  Holds(t, quiet(u)) /\ Holds(t, tennis_decision(u))
  <2>1. Holds(u, tennis_decision(u)) /\ Holds(t, quiet(u))
    BY <1>1, TennisDecides, HoldsQuiet
  <2> QED
    BY <1>1, <2>1 DEF Holds
<1>2. CASE e.kind = "signal"
  <2> DEFINE u == [t EXCEPT !.own.probability = e.probability, !.own.ready = e.gate = "high"]
  <2>1. Shaped(u) /\ u.own.held = t.own.held /\ u.ids = t.ids /\ u.own.exits = t.own.exits
    BY DEF Shaped
  <2>2. r \in {quiet(t), tennis_decision(u)}
    BY <1>2 DEF sports_tennis_xgboost
  <2> HIDE DEF u, r
  <2> QED
    BY <1>1, <2>1, <2>2 DEF r
<1>3. CASE e.kind = "quote"
  <2> DEFINE u == [t EXCEPT !.own.bid = e.bid, !.own.ask = e.ask]
  <2>1. Shaped(u) /\ u.own.held = t.own.held /\ u.ids = t.ids /\ u.own.exits = t.own.exits
    BY DEF Shaped
  <2>2. r \in {quiet(t), tennis_decision(u)}
    BY <1>3 DEF sports_tennis_xgboost
  <2> HIDE DEF u, r
  <2> QED
    BY <1>1, <2>1, <2>2 DEF r
<1>4. CASE e.kind \in {"own_update", "own_reject"}
  <2>1. PICK w : r = quiet([t EXCEPT !.own = w])
                 /\ w \in {tennis_order_update(t.own, e), clear_order_state(t.own, e.id)}
    BY <1>4 DEF sports_tennis_xgboost
  <2>2. DOMAIN w = DOMAIN t.own /\ w.held = t.own.held /\ w.exits = t.own.exits
    BY <2>1 DEF tennis_order_update, clear_order_state, Shaped
  <2>3. PICK u : u = [t EXCEPT !.own = w]
    OBVIOUS
  <2>4. Shaped(u) /\ u.own.held = t.own.held /\ u.ids = t.ids /\ u.own.exits = t.own.exits
    BY <2>2, <2>3 DEF Shaped
  <2> QED
    BY <1>1, <2>1, <2>3, <2>4
<1>5. CASE e.kind \notin {"signal", "quote", "own_update", "own_reject"}
  BY <1>5, HoldsQuiet DEF sports_tennis_xgboost
<1> QED
  BY <1>2, <1>3, <1>4, <1>5

Position ==
    /\ Shaped(s) /\ s.own.held \in Int
    /\ Sent(orders, s.ids, s.own.exits)
    /\ \/ todo = <<>>
       \/ \E d : /\ todo = <<d>> /\ s.ids \notin DOMAIN orders /\ s.ids > 0
                 /\ d.id = s.ids
                 /\ d.order_side = IF s.ids \in s.own.exits THEN "SELL" ELSE "BUY"
    /\ ~oversold => s.own.held = bought(orders) - sold(orders)

(* Handing an event to the tennis plugin: a fill moves its position as it  *)
(* moves the record of the venue.                                          *)
LEMMA PositionHeard ==
    ASSUME job = "sports_tennis_xgboost", Position, NEW e \in inputs(job), NEW c, hand_over(e, c)
    PROVE  Position'
<1> DEFINE r == on_event(job, s, e, c)
           out == [k \in DOMAIN r.out |-> wrap(r.out[k], e)]
<1>1. /\ s' = r.s /\ todo' = out /\ todo = <<>> /\ orders' = reported(e)
      /\ oversold' = (oversold \/ sold(reported(e)) > bought(reported(e)))
  BY DEF hand_over
<1>2. r = sports_tennis_xgboost(s, e)
  BY DEF on_event, Weathers, LiveJobs
<1> HIDE DEF r
<1>3. /\ Shaped(s) /\ s.own.held \in Int /\ Sent(orders, s.ids, s.own.exits)
      /\ ~oversold => s.own.held = bought(orders) - sold(orders)
      /\ s.ids \in Nat /\ s.own.exits \subseteq 1 .. s.ids /\ DOMAIN orders \subseteq 1 .. s.ids
  BY DEF Position, Sent
<1>4. CASE e.kind # "own_fill"
  <2>1. orders' = orders
    BY <1>1, <1>4 DEF reported
  <2>2. Holds(s, r)
    BY <1>2, <1>3, <1>4, TennisHears
  <2>3. Shaped(s') /\ s'.own.held = s.own.held
    BY <1>1, <2>2 DEF Holds
  <2>4. ~oversold' => s'.own.held = bought(orders') - sold(orders')
    BY <1>1, <1>3, <2>1, <2>3
  <2>5. CASE r.out = <<>> /\ r.s.ids = s.ids /\ r.s.own.exits = s.own.exits
    <3>1. todo' = <<>>
      BY <1>1, <2>5
    <3> QED
      BY <1>1, <1>3, <2>1, <2>3, <2>4, <2>5, <3>1 DEF Position
  <2>6. ASSUME r.s.ids = s.ids + 1, NEW d, r.out = <<d>>, {"id", "order_side"} \subseteq DOMAIN d,
               d.id = s.ids + 1,
               \/ d.order_side = "SELL" /\ r.s.own.exits = s.own.exits \cup {s.ids + 1}
               \/ d.order_side = "BUY" /\ r.s.own.exits = s.own.exits
        PROVE  Position'
    <3>1. PICK x : x = wrap(d, e)
      OBVIOUS
    <3>2. x.id = s.ids + 1 /\ x.order_side = d.order_side
      BY <2>6, <3>1 DEF wrap
    <3>3. todo' = <<x>>
      <4>1. out = [k \in DOMAIN <<d>> |-> wrap(d, e)]
        BY <2>6
      <4>2. [k \in DOMAIN <<d>> |-> x] = <<x>>
        OBVIOUS
      <4> QED
        BY <1>1, <3>1, <4>1, <4>2
    <3>4. PICK n, X : n = s.ids + 1 /\ X = r.s.own.exits
      OBVIOUS
    <3>5. /\ n \in Nat /\ n > 0 /\ n \notin DOMAIN orders /\ n \notin s.own.exits
          /\ x.order_side = IF n \in X THEN "SELL" ELSE "BUY"
          /\ \A i \in DOMAIN orders : i \in X <=> i \in s.own.exits
          /\ X \subseteq 1 .. n /\ DOMAIN orders \subseteq 1 .. n
      BY <1>3, <2>6, <3>2, <3>4
    <3>6. Sent(orders, n, X)
      BY <1>3, <3>5 DEF Sent
    <3>7. s'.ids = n /\ s'.own.exits = X
      BY <1>1, <2>6, <3>4
    <3> HIDE DEF out
    <3>8. \E y : /\ todo' = <<y>> /\ s'.ids \notin DOMAIN orders' /\ s'.ids > 0
                 /\ y.id = s'.ids
                 /\ y.order_side = IF s'.ids \in s'.own.exits THEN "SELL" ELSE "BUY"
      BY <2>1, <3>2, <3>3, <3>4, <3>5, <3>7
    <3>9. s'.own.held \in Int /\ Sent(orders', s'.ids, s'.own.exits)
      BY <1>3, <2>1, <2>3, <3>6, <3>7
    <3> QED
      BY <2>3, <2>4, <3>8, <3>9 DEF Position, Sent, Shaped, bought, sold, traded_total
  <2> QED
    BY <2>2, <2>5, <2>6 DEF Holds
<1>5. CASE e.kind = "own_fill"
  <2>1. e.id \in DOMAIN orders /\ e.quantity = 1
    BY <1>5 DEF inputs, reports, quotes, signals
  <2>2. r.s = [s EXCEPT !.own = tennis_fill(s.own, e)] /\ r.out = <<>>
    BY <1>2, <1>5 DEF sports_tennis_xgboost, quiet
  <2>3. PICK w : w = tennis_fill(s.own, e)
    OBVIOUS
  <2>4. PICK z : z = e.id
    OBVIOUS
  <2>5. /\ DOMAIN w = DOMAIN s.own /\ w.exits = s.own.exits
        /\ z \in s.own.exits => w.held = IF s.own.held - 1 <= 0 THEN 0 ELSE s.own.held - 1
        /\ z \notin s.own.exits => w.held = s.own.held + 1
    BY <1>3, <2>1, <2>3, <2>4 DEF tennis_fill, is_exit_fill, Shaped
  <2>6. s' = [s EXCEPT !.own = w] /\ todo' = <<>>
    BY <1>1, <2>2, <2>3
  <2>7. Shaped(s') /\ s'.ids = s.ids /\ s'.own = w
    BY <1>3, <2>5, <2>6 DEF Shaped
  <2>8. orders' = [orders EXCEPT ![z].filled = @ + 1]
    BY <1>1, <1>5, <2>1, <2>4 DEF reported
  <2>9. /\ Sent(orders', s.ids, s.own.exits)
        /\ bought(orders') = bought(orders) + (IF orders[z].order_side = "BUY" THEN 1 ELSE 0)
        /\ sold(orders') = sold(orders) + (IF orders[z].order_side = "SELL" THEN 1 ELSE 0)
    <3>1. PICK q, n, X : q \in Nat /\ q = 1 /\ n = s.ids /\ X = s.own.exits
      OBVIOUS
    <3>2. Sent(orders, n, X) /\ z \in DOMAIN orders
      BY <1>3, <2>1, <2>4, <3>1
    <3>3. PICK p : p = [orders EXCEPT ![z].filled = @ + q]
      OBVIOUS
    <3>4. \A x : /\ Sent(p, n, X)
                 /\ traded_total(p, x) = traded_total(orders, x) + (IF orders[z].order_side = x THEN q ELSE 0)
      <4>1. Fills(p, orders, z, q)
        BY <3>3 DEF Fills
      <4> QED
        BY <3>1, <3>2, <4>1, FillCounts
    <3>5. orders' = p
      BY <2>8, <3>1, <3>3
    <3>6. Sent(orders', n, X)
      BY <3>4, <3>5 DEF Sent
    <3>7. \A x : traded_total(orders, x)' = traded_total(p, x)
      BY <3>5 DEF traded_total
    <3> QED
      BY <3>1, <3>4, <3>6, <3>7 DEF bought, sold
  <2>10. orders[z].order_side = IF z \in s.own.exits THEN "SELL" ELSE "BUY"
    BY <1>3, <2>1, <2>4 DEF Sent
  <2>11. bought(orders) \in Int /\ sold(orders) \in Int
    BY <1>3, TradedType DEF bought, sold
  <2>12. w.held \in Int
    BY <1>3, <2>5
  <2>13. ~oversold' => w.held = bought(orders') - sold(orders')
    <3>1. SUFFICES ASSUME ~oversold, ~(sold(orders') > bought(orders'))
                   PROVE  w.held = bought(orders') - sold(orders')
      BY <1>1
    <3>2. PICK h, b, k, h2, b2, k2 : /\ h = s.own.held /\ b = bought(orders) /\ k = sold(orders)
                                     /\ h2 = w.held /\ b2 = bought(orders') /\ k2 = sold(orders')
      OBVIOUS
    <3>3. h = b - k /\ ~(k2 > b2) /\ h \in Int /\ b \in Int /\ k \in Int
      BY <1>3, <2>11, <3>1, <3>2
    <3>4. CASE z \in s.own.exits
      <4>1. b2 = b /\ k2 = k + 1 /\ h2 = IF h - 1 <= 0 THEN 0 ELSE h - 1
        BY <2>5, <2>9, <2>10, <2>11, <3>2, <3>4
      <4>2. h2 = b2 - k2
        BY ONLY <3>3, <4>1
      <4> QED
        BY <3>2, <4>2
    <3>5. CASE z \notin s.own.exits
      <4>1. b2 = b + 1 /\ k2 = k /\ h2 = h + 1
        BY <2>5, <2>9, <2>10, <2>11, <3>2, <3>5
      <4>2. h2 = b2 - k2
        BY ONLY <3>3, <4>1
      <4> QED
        BY <3>2, <4>2
    <3> QED
      BY <3>4, <3>5
  <2> QED
    BY <2>5, <2>6, <2>7, <2>9, <2>12, <2>13 DEF Position, Sent, Shaped, bought, sold, traded_total
<1> QED
  BY <1>4, <1>5

(* An order is recorded with the venue before the next event. *)
LEMMA PositionJudged ==
    ASSUME job = "sports_tennis_xgboost", Position, accept \/ reject
    PROVE  Position'
<1>1. /\ Shaped(s) /\ s.own.held \in Int /\ Sent(orders, s.ids, s.own.exits) /\ s.ids \in Nat
      /\ ~oversold => s.own.held = bought(orders) - sold(orders)
  BY DEF Position, Sent
<1>2. PICK d : /\ todo = <<d>> /\ s.ids \notin DOMAIN orders /\ s.ids > 0 /\ d.id = s.ids
               /\ d.order_side = IF s.ids \in s.own.exits THEN "SELL" ELSE "BUY"
  BY DEF Position, accept, reject
<1>3. Head(todo) = d /\ Tail(todo) = <<>>
  BY <1>2
<1>4. PICK w : s' = [s EXCEPT !.own = w]
               /\ w \in {[s.own EXCEPT !.pending = d.id], clear_order_state(s.own, d.id)}
  <2>1. PICK b : s' = on_feedback(job, s, d, b)
    BY <1>3 DEF accept, reject
  <2>2. s' = tennis_on_feedback(s, d, b)
    BY <2>1 DEF on_feedback, Weathers, LiveJobs
  <2>3. \/ s' = [s EXCEPT !.own = [s.own EXCEPT !.pending = d.id]]
        \/ s' = [s EXCEPT !.own = clear_order_state(s.own, d.id)]
    BY <2>2 DEF tennis_on_feedback
  <2> QED
    BY ONLY <2>3
<1>5. /\ DOMAIN w = DOMAIN s.own /\ w.held = s.own.held /\ w.exits = s.own.exits
  BY <1>1, <1>4 DEF clear_order_state, Shaped
<1>6. Shaped(s') /\ s'.ids = s.ids /\ s'.own.held = s.own.held /\ s'.own.exits = s.own.exits
  BY <1>1, <1>4, <1>5 DEF Shaped
<1>7. todo' = <<>> /\ oversold' = oversold
  BY <1>3 DEF accept, reject
<1>8. PICK p, n, X : p = with(orders, s.ids, at_venue(d)) /\ n = s.ids /\ X = s.own.exits
  OBVIOUS
<1>9. Sent(p, n, X) /\ \A x : traded_total(p, x) = traded_total(orders, x)
  BY <1>1, <1>2, <1>8, NewOrderCounts
<1>10. orders' \in {orders, p}
  BY <1>2, <1>3, <1>8 DEF accept, reject
<1>11. Sent(orders', s.ids, s.own.exits)
  BY <1>1, <1>8, <1>9, <1>10
<1>12. bought(orders') = bought(orders) /\ sold(orders') = sold(orders)
  BY <1>9, <1>10 DEF bought, sold
<1> QED
  BY <1>1, <1>6, <1>7, <1>11, <1>12 DEF Position, Sent, Shaped, bought, sold, traded_total

-----------------------------------------------------------------------------
(* The weather plugin's money. *)

Prices == 1 .. One - 1

(* What the plugin knows of the markets: a mid comes with both prices, and *)
(* a signal is of its market.                                              *)
Knows(t) ==
    /\ {"mid", "quote", "own"} \subseteq DOMAIN t /\ "signal" \in DOMAIN t.own
    /\ DOMAIN t.mid = Markets /\ DOMAIN t.quote = Markets /\ DOMAIN t.own.signal = Markets
    /\ \A m \in Markets :
        /\ t.mid[m] # None => t.quote[m].bid \in Prices /\ t.quote[m].ask \in Prices
        /\ LET g == t.own.signal[m]
           IN  g = NoQuote \/ (g.market = m /\ g.ladder \in Ladders /\ g.probability \in 0 .. One)

Accepted(acc, l) == {i \in DOMAIN acc : acc[i].ladder = l}
Notional(acc, l) == sum([i \in Accepted(acc, l) |-> acc[i].notional])

(* The totals agree with what was accepted. *)
Ledger(w) ==
    /\ {"params", "pending", "accepted", "ladder", "ladder_orders", "instrument", "active"} \subseteq DOMAIN w
    /\ w.params = WeatherParams[job]
    /\ DOMAIN w.instrument = Markets /\ \A m \in Markets : w.instrument[m] \in Nat
    /\ w.active = SumOver(w.instrument, Markets)
    /\ IsFiniteSet(DOMAIN w.accepted)
    /\ \A i \in DOMAIN w.accepted : w.accepted[i].notional \in Int
    /\ DOMAIN w.ladder = Ladders /\ DOMAIN w.ladder_orders = Ladders
    /\ \A l \in Ladders :
        /\ w.ladder[l] = Notional(w.accepted, l)
        /\ w.ladder[l] <= w.params.ladder_notional
        /\ w.ladder_orders[l] = Cardinality(Accepted(w.accepted, l))

(* There is room on its ladder for the order o. *)
Fits(w, o) ==
    /\ o.ladder \in Ladders /\ o.market \in Markets /\ o.notional \in Nat
    /\ w.ladder[o.ladder] + o.notional <= w.params.ladder_notional

(* Only the order that waits for its verdict may be pending, under a       *)
(* number of its own.                                                      *)
Booked(t, out) ==
    /\ {"own", "ids"} \subseteq DOMAIN t /\ Ledger(t.own)
    /\ t.ids \in Nat /\ DOMAIN t.own.accepted \subseteq 1 .. t.ids
    /\ \/ out = <<>> /\ DOMAIN t.own.pending = {}
       \/ /\ \E d : out = <<d>> /\ "id" \in DOMAIN d /\ d.id = t.ids
          /\ t.ids > 0 /\ t.ids \notin DOMAIN t.own.accepted
          /\ DOMAIN t.own.pending \subseteq {t.ids}
          /\ \A i \in DOMAIN t.own.pending : Fits(t.own, t.own.pending[i])

(* The parameters of a weather spec are numbers. *)
LEMMA ParamTypes ==
    ASSUME job \in Weathers, NEW w, w = WeatherParams[job]
    PROVE  /\ w.ladder_notional \in Nat
           /\ w.ladder \in Int /\ w.trade \in Int /\ w.kelly \in Int /\ w.max_size \in Int
           /\ w.near_edge \in Int /\ w.static_capital \in Int
BY RunAssumption

(* What is on a ladder is a number. *)
LEMMA LadderType ==
    ASSUME job \in Weathers, NEW w, Ledger(w), NEW l \in Ladders
    PROVE  /\ w.ladder[l] \in Int /\ w.params.ladder_notional \in Nat
           /\ IsFiniteSet(Accepted(w.accepted, l))
<1>1. PICK S, f : S = Accepted(w.accepted, l) /\ f = [i \in S |-> w.accepted[i].notional]
  OBVIOUS
<1>2. S \subseteq DOMAIN w.accepted
  BY <1>1 DEF Accepted
<1>3. IsFiniteSet(S)
  BY <1>2, FS_Subset DEF Ledger
<1>4. \A i \in S : f[i] \in Int
  BY <1>1, <1>2 DEF Ledger
<1>5. SumOver(f, S) \in Int /\ DOMAIN f = S
  BY <1>1, <1>3, <1>4, SumType
<1> QED
  <2>1. w.ladder[l] = SumOver(f, S)
    BY <1>1, <1>5 DEF Ledger, Notional, sum
  <2> QED
    BY <1>1, <1>3, <1>5, <2>1, ParamTypes DEF Ledger

(* The least of three numbers is a number. *)
LEMMA OfThree ==
    ASSUME NEW a \in Int, NEW b \in Int, NEW c \in Int
    PROVE  Min({a, b, c}) \in Int
<1>1. \E m \in {a, b, c} : \A y \in {a, b, c} : m <= y
  OBVIOUS
<1>2. Min({a, b, c}) \in {a, b, c}
  BY <1>1 DEF Min
<1> QED
  BY <1>2

(* A quotient is a number. *)
LEMMA Quotient ==
    ASSUME NEW a \in Int, NEW b \in Int, b > 0
    PROVE  a \div b \in Int
OBVIOUS

(* A size is a number. *)
LEMMA SizeType ==
    ASSUME job \in Weathers, NEW w, w = WeatherParams[job],
           NEW e \in Int, NEW p \in Prices, NEW c \in Int
    PROVE  size_for_edge(w, e, p, c) \in Int
<1>1. PICK fraction : fraction = Min({Abs(e), One})
  OBVIOUS
<1>2. fraction \in Int
  BY <1>1, OfTwo DEF Abs, One
<1>3. PICK trade, kelly, size : trade = w.trade /\ kelly = w.kelly /\ size = w.max_size
  OBVIOUS
<1>4. trade \in Int /\ kelly \in Int /\ size \in Int
  BY <1>3, ParamTypes
<1>5. p \in Int /\ p > 0
  BY DEF Prices, One
<1>6. PICK raw : raw = IF trade > 0 THEN (c * trade * fraction * kelly) \div (10000 * One * p)
                       ELSE (fraction * kelly * size) \div (100 * One)
  OBVIOUS
<1>7. raw \in Int
  <2>1. PICK a, b : a = c * trade * fraction * kelly /\ b = 10000 * One * p
    OBVIOUS
  <2>2. a \in Int /\ b \in Int /\ b > 0
    BY <1>2, <1>4, <1>5, <2>1 DEF One
  <2>3. a \div b \in Int
    BY <2>2, Quotient
  <2>4. PICK f : f = fraction * kelly * size
    OBVIOUS
  <2>5. f \in Int
    BY <1>2, <1>4, <2>4
  <2>6. f \div (100 * One) \in Int
    BY <2>5, Quotient DEF One
  <2> QED
    BY <1>6, <2>1, <2>3, <2>4, <2>6
<1>8. PICK cap : cap = IF trade > 0 THEN Min({100 * c, trade * c}) ELSE 100 * c
  OBVIOUS
<1>9. cap \in Int
  <2>1. PICK a, b : a = 100 * c /\ b = trade * c
    OBVIOUS
  <2>2. a \in Int /\ b \in Int
    BY <1>4, <2>1
  <2>3. Min({a, b}) \in Int
    BY <2>2, OfTwo
  <2> QED
    BY <1>8, <2>1, <2>2, <2>3
<1>10. Max({raw, 1}) \in Int
  <2>1. PICK u \in Int : u = 1
    OBVIOUS
  <2>2. Max({raw, u}) \in Int
    BY <1>7, OfTwo
  <2> QED
    BY <2>1, <2>2
<1>11. cap \div (100 * p) \in Int
  <2>1. PICK b : b = 100 * p
    OBVIOUS
  <2>2. b \in Int /\ b > 0
    BY <1>5, <2>1
  <2> QED
    BY <1>9, <2>1, <2>2, Quotient
<1>12. size_for_edge(w, e, p, c) = Min({Max({raw, 1}), size, cap \div (100 * p)})
  BY <1>1, <1>3, <1>6, <1>8 DEF size_for_edge
<1> QED
  BY SMTT(30), <1>4, <1>10, <1>11, <1>12, OfThree

(* Nothing changes in the books. *)
LEMMA QuietBooked ==
    ASSUME NEW t, Booked(t, <<>>), NEW u, Knows(u),
           {"own", "ids"} \subseteq DOMAIN u, u.own = t.own, u.ids = t.ids
    PROVE  Knows(quiet(u).s) /\ Booked(quiet(u).s, quiet(u).out)
BY DEF quiet, Booked

(* A ladder's limit is that of the spec, or below it.                      *)
LEMMA LadderLimit ==
    ASSUME job \in Weathers, NEW w, w = WeatherParams[job], NEW c \in Int
    PROVE  max_ladder_notional(w, c) \in Int /\ max_ladder_notional(w, c) <= w.ladder_notional
<1>1. PICK a, l : a = w.ladder_notional /\ l = w.ladder
  OBVIOUS
<1>2. a \in Int /\ l \in Int
  BY <1>1, ParamTypes
<1>3. PICK b : b = (l * c) \div 100
  OBVIOUS
<1>4. b \in Int
  <2>1. PICK f : f = l * c
    OBVIOUS
  <2>2. f \in Int
    BY <1>2, <2>1
  <2>3. f \div 100 \in Int
    BY <2>2
  <2> QED
    BY <1>3, <2>1, <2>3
<1>5. Min({a, b}) \in Int /\ Min({a, b}) <= a
  BY <1>2, <1>4, OfTwo
<1>6. max_ladder_notional(w, c) = IF l > 0 THEN Min({a, b}) ELSE a
  BY <1>1, <1>3 DEF max_ladder_notional
<1> QED
  BY <1>1, <1>2, <1>5, <1>6

(* _place_order: an order that is emitted is pending, and fits its ladder. *)
LEMMA PlaceBooked ==
    ASSUME job \in Weathers, NEW t, Knows(t), Booked(t, <<>>),
           NEW g, g.market \in Markets, g.ladder \in Ladders,
           NEW x, NEW p \in Prices, NEW e \in Int, NEW c \in Int
    PROVE  LET r == weather_place_order(t, g, x, p, e, c)
           IN  Knows(r.s) /\ Booked(r.s, r.out)
<1> DEFINE r == weather_place_order(t, g, x, p, e, c)
           size == size_for_edge(t.own.params, e, p, c)
           order == [ladder |-> g.ladder, market |-> g.market, notional |-> p * size,
                     price |-> p, probability |-> g.probability]
           d == [place(g.market, x, p, size, "IOC", TRUE) EXCEPT !.closes = g.closes]
           n == t.ids + 1
           u == [t EXCEPT !.own.pending = with(t.own.pending, n, order),
                          !.own.last[g.market] = [price |-> p, probability |-> g.probability]]
           v == [u EXCEPT !.ids = @ + 1]
           y == with_id(d, n)
<1>1. /\ {"own", "ids"} \subseteq DOMAIN t /\ Ledger(t.own) /\ t.ids \in Nat
      /\ DOMAIN t.own.accepted \subseteq 1 .. t.ids /\ DOMAIN t.own.pending = {}
  BY DEF Booked
<1>2. CASE r = quiet(t)
  BY <1>1, <1>2, QuietBooked
<1>3. CASE r # quiet(t)
  <2>1. /\ size > 0 /\ can_add_ladder_exposure(t.own, g.ladder, g.market, p * size, c)
        /\ r = emit(u, d)
    BY <1>3 DEF weather_place_order
  <2>2. u.ids = t.ids
    BY <1>1
  <2>3. r.s = v /\ r.out = <<y>>
    BY <2>1, <2>2 DEF emit
  <2>4. "id" \in DOMAIN y /\ y.id = n
    BY DEF with_id, with
  <2>5. /\ DOMAIN v = DOMAIN t /\ v.mid = t.mid /\ v.quote = t.quote /\ v.ids = n
        /\ DOMAIN v.own = DOMAIN t.own
        /\ v.own.pending = with(t.own.pending, n, order)
        /\ \A k \in DOMAIN t.own : k \notin {"pending", "last"} => v.own[k] = t.own[k]
    <3> HIDE DEF order, d, size
    <3> QED
      BY <1>1 DEF Knows, Ledger
  <2> HIDE DEF v, u, y, d
  <2>6. /\ v.own.signal = t.own.signal
        /\ v.own.params = t.own.params /\ v.own.accepted = t.own.accepted
        /\ v.own.ladder = t.own.ladder /\ v.own.ladder_orders = t.own.ladder_orders
        /\ v.own.instrument = t.own.instrument /\ v.own.active = t.own.active
    BY <1>1, <2>5 DEF Knows, Ledger
  <2>7. Knows(v)
    BY <2>5, <2>6 DEF Knows
  <2>8. Ledger(v.own)
    BY <1>1, <2>5, <2>6 DEF Ledger
  <2>9. DOMAIN v.own.pending = {n} /\ v.own.pending[n] = order
    <3> HIDE DEF order
    <3> QED
      BY <1>1, <2>5 DEF with
  <2>10. Fits(v.own, order)
    <3>1. PICK a, k, l : a = p * size /\ k = size /\ l = t.own.ladder[g.ladder]
      OBVIOUS
    <3>2. t.own.params = WeatherParams[job] /\ k \in Int
      BY <1>1, <3>1, SizeType DEF Ledger
    <3>3. p \in Nat /\ a = p * k /\ k > 0
      BY <2>1, <3>1 DEF Prices
    <3>4. a \in Nat
      <4>1. \A i, j \in Nat : i * j \in Nat
        OBVIOUS
      <4>2. k \in Nat
        BY <3>2, <3>3
      <4> QED
        BY <3>3, <4>1, <4>2
    <3>5. PICK m, b : m = max_ladder_notional(t.own.params, c) /\ b = t.own.params.ladder_notional
      OBVIOUS
    <3>6. l + a <= m
      BY <2>1, <3>1, <3>5 DEF can_add_ladder_exposure
    <3>7. m \in Int /\ m <= b
      BY <3>2, <3>5, LadderLimit
    <3>8. l \in Int /\ b \in Nat
      BY <1>1, <3>1, <3>5, LadderType
    <3>9. l + a <= b
      BY ONLY <3>4, <3>6, <3>7, <3>8
    <3>10. /\ order.ladder = g.ladder /\ order.market = g.market /\ order.notional = a
      BY <3>1
    <3> HIDE DEF order, size
    <3> QED
      BY <2>6, <3>1, <3>4, <3>5, <3>9, <3>10 DEF Fits
  <2>11. n \in Nat /\ n > 0 /\ DOMAIN v.own.accepted \subseteq 1 .. n /\ n \notin DOMAIN v.own.accepted
    BY <1>1, <2>6
  <2> HIDE DEF order, n
  <2>12. Booked(v, <<y>>)
    BY <2>4, <2>5, <2>8, <2>9, <2>10, <2>11, <1>1 DEF Booked
  <2> QED
    BY <2>3, <2>7, <2>12
<1> QED
  BY <1>2, <1>3

(* _taker_decision: either side is bought at a price that is shown. *)
LEMMA TakerBooked ==
    ASSUME job \in Weathers, NEW t, Knows(t), Booked(t, <<>>),
           NEW g, g.market \in Markets, g.ladder \in Ladders, g.probability \in 0 .. One,
           t.mid[g.market] # None, NEW c \in Int
    PROVE  LET r == taker_decision(t, g, c)
           IN  Knows(r.s) /\ Booked(r.s, r.out)
<1> DEFINE w == t.own.params
           r == taker_decision(t, g, c)
<1>1. w = WeatherParams[job]
  BY DEF Booked, Ledger
<1>2. PICK a, b, x, near, n : /\ a = t.quote[g.market].ask /\ b = t.quote[g.market].bid
                              /\ x = g.probability /\ near = w.near_edge /\ n = w.near_price
  OBVIOUS
<1>3. a \in Prices /\ b \in Prices /\ x \in Int /\ near \in Int /\ One - b \in Prices
  <2>1. t.quote[g.market].bid \in Prices /\ t.quote[g.market].ask \in Prices
    BY DEF Knows
  <2>2. near \in Int
    BY <1>1, <1>2, ParamTypes
  <2>3. \A p \in Prices : One - p \in Prices
    BY DEF Prices, One
  <2>4. \A p \in 0 .. One : p \in Int
    OBVIOUS
  <2> QED
    BY <1>2, <2>1, <2>2, <2>3, <2>4
<1>4. PICK y, z : /\ y = x - a - (IF a >= n THEN near ELSE 0)
                  /\ z = (One - x) - (One - b) - (IF One - b >= n THEN near ELSE 0)
  OBVIOUS
<1>5. y \in Int /\ z \in Int
  BY SMTT(30), <1>3, <1>4 DEF Prices, One
<1>6. \/ r = quiet(t)
      \/ r = weather_place_order(t, g, "YES", a, y, c)
      \/ r = weather_place_order(t, g, "NO", One - b, z, c)
  BY <1>2, <1>4 DEF taker_decision
<1>7. CASE r = quiet(t)
  BY <1>7, QuietBooked DEF Booked
<1>8. CASE r = weather_place_order(t, g, "YES", a, y, c)
  BY <1>3, <1>5, <1>8, PlaceBooked
<1>9. CASE r = weather_place_order(t, g, "NO", One - b, z, c)
  BY <1>3, <1>5, <1>9, PlaceBooked
<1> QED
  BY <1>6, <1>7, <1>8, <1>9

(* The passive mode enters nothing in the books. *)
LEMMA PassiveBooked ==
    ASSUME NEW t, Knows(t), Booked(t, <<>>), NEW g, NEW c
    PROVE  LET r == passive_decision(t, g, c)
           IN  Knows(r.s) /\ Booked(r.s, r.out)
<1> DEFINE r == passive_decision(t, g, c)
           n == t.ids + 1
           v == [t EXCEPT !.ids = @ + 1]
<1>1. CASE r = quiet(t)
  BY <1>1, QuietBooked DEF Booked
<1>2. CASE r # quiet(t)
  <2>1. PICK d : r = emit(t, d)
    BY <1>2 DEF passive_decision
  <2>2. PICK y : y = with_id(d, n)
    OBVIOUS
  <2>3. r.s = v /\ r.out = <<y>>
    BY <2>1, <2>2 DEF emit
  <2>4. "id" \in DOMAIN y /\ y.id = n
    BY <2>2 DEF with_id, with
  <2>5. /\ DOMAIN v = DOMAIN t /\ v.mid = t.mid /\ v.quote = t.quote /\ v.own = t.own
        /\ v.ids = n
    BY DEF Knows, Booked
  <2>6. /\ t.ids \in Nat /\ DOMAIN t.own.accepted \subseteq 1 .. t.ids /\ Ledger(t.own)
        /\ DOMAIN t.own.pending = {} /\ {"own", "ids"} \subseteq DOMAIN t
    BY DEF Booked
  <2>7. n \in Nat /\ n > 0 /\ DOMAIN t.own.accepted \subseteq 1 .. n /\ n \notin DOMAIN t.own.accepted
    BY <2>6
  <2> HIDE DEF v, n
  <2>8. Knows(v)
    BY <2>5 DEF Knows
  <2>9. Booked(v, <<y>>)
    BY <2>4, <2>5, <2>6, <2>7 DEF Booked
  <2> QED
    BY <2>3, <2>8, <2>9
<1> QED
  BY <1>1, <1>2

(* _forecast_decision, in either mode. *)
LEMMA ForecastBooked ==
    ASSUME job \in Weathers, NEW t, Knows(t), Booked(t, <<>>),
           NEW g, g.market \in Markets, g.ladder \in Ladders, g.probability \in 0 .. One,
           NEW c, c.cash \in Int
    PROVE  LET r == forecast_decision(t, g, c)
           IN  Knows(r.s) /\ Booked(r.s, r.out)
<1> DEFINE capital == available_capital(t.own.params, c)
           r == forecast_decision(t, g, c)
<1>1. capital \in Int
  <2>1. t.own.params = WeatherParams[job]
    BY DEF Booked, Ledger
  <2>2. t.own.params.static_capital \in Int
    BY <2>1, ParamTypes
  <2> QED
    BY <2>2 DEF available_capital
<1>2. CASE r = quiet(t)
  BY <1>2, QuietBooked DEF Booked
<1>3. CASE r # quiet(t)
  <2>1. /\ t.mid[g.market] # None
        /\ r \in {taker_decision(t, g, capital), passive_decision(t, g, capital)}
    BY <1>3 DEF forecast_decision
  <2> HIDE DEF capital
  <2> QED
    BY <1>1, <2>1, TakerBooked, PassiveBooked
<1> QED
  BY <1>2, <1>3

(* _latest_tick_decision. *)
LEMMA TickBooked ==
    ASSUME job \in Weathers, NEW t, Knows(t), Booked(t, <<>>), NEW m \in Markets,
           NEW c, c.cash \in Int
    PROVE  LET r == latest_tick_decision(t, m, c)
           IN  Knows(r.s) /\ Booked(r.s, r.out)
<1>1. PICK g : g = t.own.signal[m]
  OBVIOUS
<1>2. g = NoQuote \/ (g.market = m /\ g.ladder \in Ladders /\ g.probability \in 0 .. One)
  BY <1>1 DEF Knows
<1>3. CASE latest_tick_decision(t, m, c) = quiet(t)
  BY <1>3, QuietBooked DEF Booked
<1>4. CASE latest_tick_decision(t, m, c) # quiet(t)
  <2>1. latest_tick_decision(t, m, c) = forecast_decision(t, g, c) /\ g # NoQuote
    BY <1>1, <1>4 DEF latest_tick_decision
  <2> QED
    BY <1>2, <2>1, ForecastBooked
<1> QED
  BY <1>3, <1>4

(* _release_settled_notional: what a ticker had is no longer active. *)
LEMMA SettledLedger ==
    ASSUME NEW w, Ledger(w), NEW m \in Markets
    PROVE  LET v == release_settled_notional(w, m)
           IN  Ledger(v) /\ DOMAIN v = DOMAIN w /\ v.pending = w.pending /\ v.signal = w.signal
                 /\ v.accepted = w.accepted
<1> DEFINE v == release_settled_notional(w, m)
<1>1. PICK f, a, x : f = w.instrument /\ a = w.active /\ x = 0
  OBVIOUS
<1>2. DOMAIN f = Markets /\ IsFiniteSet(Markets) /\ (\A k \in Markets : f[k] \in Nat) /\ a = SumOver(f, Markets)
  BY <1>1, SignalAssumption DEF Ledger
<1>3. PICK g : g = [f EXCEPT ![m] = x]
  OBVIOUS
<1>4. SumOver(g, Markets) = a - f[m] + x
  <2>1. PICK S : S = Markets
    OBVIOUS
  <2>2. /\ x \in Int /\ m \in S /\ IsFiniteSet(S) /\ S \subseteq DOMAIN f
        /\ \A k \in S : f[k] \in Int
    BY <1>1, <1>2, <2>1
  <2>3. SumOver([f EXCEPT ![m] = x], S) = SumOver(f, S) - f[m] + x
    BY <2>2, SumUpdated
  <2> QED
    BY <1>2, <1>3, <2>1, <2>3
<1>5. DOMAIN g = Markets /\ \A k \in Markets : g[k] \in Nat
  BY <1>1, <1>2, <1>3
<1>6. SumOver(g, Markets) \in Nat /\ a \in Int /\ f[m] \in Nat
  BY <1>2, <1>5, SumNat
<1>7. a - f[m] \in Int /\ a - f[m] >= 0
  BY <1>1, <1>4, <1>6
<1>8. Max({x, a - f[m]}) = a - f[m]
  <2>1. PICK b : b = a - f[m]
    OBVIOUS
  <2>2. x \in Int /\ b \in Int /\ b >= x
    BY <1>1, <1>7, <2>1
  <2>3. Max({x, b}) = IF x >= b THEN x ELSE b
    BY <2>2, OfTwo
  <2> QED
    BY <2>1, <2>2, <2>3
<1>9. /\ DOMAIN v = DOMAIN w
      /\ v.active = a - f[m] /\ v.instrument = g
      /\ \A k \in DOMAIN w : k \notin {"active", "instrument"} => v[k] = w[k]
  <2>1. Max({0, w.active - w.instrument[m]}) = a - f[m]
    BY <1>1, <1>8
  <2>2. v = [w EXCEPT !.active = a - f[m], !.instrument = g]
    BY <1>1, <1>3, <2>1 DEF release_settled_notional
  <2> HIDE DEF v
  <2> QED
    BY <2>2 DEF Ledger
<1> HIDE DEF v
<1>10. v.active = SumOver(g, Markets)
  BY <1>1, <1>4, <1>6, <1>9
<1>11. /\ v.params = w.params /\ v.pending = w.pending /\ v.accepted = w.accepted
       /\ v.ladder = w.ladder /\ v.ladder_orders = w.ladder_orders
  BY <1>9 DEF Ledger
<1>12. Ledger(v)
  BY <1>5, <1>9, <1>10, <1>11 DEF Ledger
<1>13. v.signal = w.signal
  BY DEF v, release_settled_notional
<1> QED
  BY <1>9, <1>11, <1>12, <1>13 DEF v

(* on_event: prices, signals and settlements. *)
LEMMA EventBooked ==
    ASSUME job \in Weathers, NEW t, Knows(t), Booked(t, <<>>), NEW e, Heard(e),
           NEW c, c.cash \in Int
    PROVE  LET r == weather_temperature_arbitrage(t, e, c)
           IN  Knows(r.s) /\ Booked(r.s, r.out)
<1> DEFINE r == weather_temperature_arbitrage(t, e, c)
<1>0. e.market \in Markets
  BY DEF Heard
<1>1. CASE e.kind = "settlement"
  <2>1. PICK v : v = release_settled_notional(t.own, e.market)
    OBVIOUS
  <2>2. /\ Ledger(v) /\ DOMAIN v = DOMAIN t.own /\ v.pending = t.own.pending
        /\ v.signal = t.own.signal /\ v.accepted = t.own.accepted
    BY <1>0, <2>1, SettledLedger DEF Booked
  <2>3. PICK u : u = [t EXCEPT !.own = v]
    OBVIOUS
  <2>4. DOMAIN u = DOMAIN t /\ u.own = v /\ u.ids = t.ids /\ u.mid = t.mid /\ u.quote = t.quote
    BY <2>3 DEF Booked, Knows
  <2>5. Knows(u) /\ Booked(u, <<>>)
    BY <2>2, <2>4 DEF Knows, Booked
  <2>6. r = quiet(u)
    BY <1>1, <2>1, <2>3 DEF weather_temperature_arbitrage
  <2> QED
    BY <2>5, <2>6 DEF quiet
<1>2. CASE e.kind \in {"quote", "book"}
  <2>1. PICK q : /\ r = latest_tick_decision(cache_any_mid(t, q), e.market, c)
                 /\ q.market = e.market /\ q.bid = e.bid /\ q.ask = e.ask
    <3>1. {"market", "bid", "ask"} \subseteq DOMAIN e
      BY <1>2 DEF Heard
    <3>2. CASE e.kind = "quote"
      BY <3>2 DEF weather_temperature_arbitrage, track_mid
    <3>3. CASE e.kind = "book"
      <4>1. PICK q : q = [e EXCEPT !.side = "YES"]
        OBVIOUS
      <4>2. q.market = e.market /\ q.bid = e.bid /\ q.ask = e.ask
        BY <3>1, <4>1
      <4>3. r = latest_tick_decision(cache_any_mid(t, q), e.market, c)
        BY <3>3, <4>1 DEF weather_temperature_arbitrage, track_book
      <4> QED
        BY <4>2, <4>3
    <3> QED
      BY <1>2, <3>2, <3>3
  <2>2. Shown(q.bid) /\ Shown(q.ask) /\ q.market \in Markets
    BY <1>0, <1>2, <2>1 DEF Heard
  <2>3. PICK u : u = cache_any_mid(t, q)
    OBVIOUS
  <2>4. CASE u = t
    BY <1>0, <2>1, <2>3, <2>4, TickBooked
  <2>5. CASE u # t
    <3>1. /\ two_sided(q)
          /\ u = [t EXCEPT !.mid[q.market] = mid_of(q), !.quote[q.market] = q]
      BY <2>3, <2>5 DEF cache_any_mid
    <3>2. q.bid \in Prices /\ q.ask \in Prices
      BY <2>2, <3>1 DEF two_sided, Shown, Prices
    <3>3. PICK z : z = mid_of(q)
      OBVIOUS
    <3>4. /\ DOMAIN u = DOMAIN t /\ u.own = t.own /\ u.ids = t.ids
          /\ u.mid = [t.mid EXCEPT ![q.market] = z]
          /\ u.quote = [t.quote EXCEPT ![q.market] = q]
      BY <3>1, <3>3 DEF Knows, Booked
    <3>5. Knows(u)
      BY <2>2, <3>2, <3>4 DEF Knows
    <3>6. Booked(u, <<>>)
      BY <3>4 DEF Booked
    <3> QED
      BY <1>0, <2>1, <2>3, <3>5, <3>6, TickBooked
  <2> QED
    BY <2>4, <2>5
<1>3. CASE e.kind = "signal"
  <2>1. CASE r = quiet(t)
    BY <2>1, QuietBooked DEF Booked
  <2>2. CASE r # quiet(t)
    <3>1. PICK u : u = [t EXCEPT !.own.signal[e.market] = e]
      OBVIOUS
    <3>2. r = forecast_decision(u, e, c) /\ e.probability \in 0 .. One
      BY <1>3, <2>2, <3>1 DEF weather_temperature_arbitrage, bounded
    <3>3. e.ladder \in Ladders
      BY <1>3 DEF Heard
    <3>4. /\ DOMAIN u = DOMAIN t /\ u.ids = t.ids /\ u.mid = t.mid /\ u.quote = t.quote
          /\ DOMAIN u.own = DOMAIN t.own
          /\ u.own.signal = [t.own.signal EXCEPT ![e.market] = e]
          /\ \A k \in DOMAIN t.own : k # "signal" => u.own[k] = t.own[k]
      BY <3>1 DEF Knows, Booked
    <3>5. Knows(u)
      BY <1>0, <3>2, <3>3, <3>4 DEF Knows
    <3>6. /\ u.own.params = t.own.params /\ u.own.pending = t.own.pending
          /\ u.own.accepted = t.own.accepted /\ u.own.ladder = t.own.ladder
          /\ u.own.ladder_orders = t.own.ladder_orders
          /\ u.own.instrument = t.own.instrument /\ u.own.active = t.own.active
      BY <3>4 DEF Booked, Ledger
    <3>7. Ledger(u.own)
      BY <3>4, <3>6 DEF Booked, Ledger
    <3>8. Booked(u, <<>>)
      BY <3>4, <3>6, <3>7 DEF Booked
    <3> QED
      BY <1>0, <3>2, <3>3, <3>5, <3>8, ForecastBooked
  <2> QED
    BY <2>1, <2>2
<1>4. CASE e.kind \notin {"settlement", "quote", "book", "signal"}
  <2>1. r = quiet(t)
    BY <1>4 DEF weather_temperature_arbitrage
  <2> QED
    BY <2>1, QuietBooked DEF Booked
<1> QED
  BY <1>1, <1>2, <1>3, <1>4

-----------------------------------------------------------------------------
(* The verdict. *)

(* One more accepted order: what its ladder has, and how many.             *)
LEMMA OneMore ==
    ASSUME NEW acc, IsFiniteSet(DOMAIN acc), \A i \in DOMAIN acc : acc[i].notional \in Int,
           NEW n, n \notin DOMAIN acc, NEW o, o.notional \in Int, NEW l
    PROVE  LET new == with(acc, n, o)
           IN  /\ IsFiniteSet(DOMAIN new) /\ \A i \in DOMAIN new : new[i].notional \in Int
               /\ IF l = o.ladder
                  THEN /\ Notional(new, l) = Notional(acc, l) + o.notional
                       /\ Cardinality(Accepted(new, l)) = Cardinality(Accepted(acc, l)) + 1
                  ELSE /\ Notional(new, l) = Notional(acc, l)
                       /\ Accepted(new, l) = Accepted(acc, l)
<1>1. PICK new, A, B : new = with(acc, n, o) /\ A = Accepted(acc, l) /\ B = Accepted(new, l)
  OBVIOUS
<1>2. DOMAIN new = DOMAIN acc \cup {n} /\ new[n] = o /\ \A i \in DOMAIN acc : new[i] = acc[i]
  BY <1>1 DEF with
<1>3. IsFiniteSet(DOMAIN new) /\ \A i \in DOMAIN new : new[i].notional \in Int
  BY <1>2, FS_AddElement
<1>4. B = IF l = o.ladder THEN A \cup {n} ELSE A
  BY <1>1, <1>2 DEF Accepted
<1>5. A \subseteq DOMAIN acc /\ n \notin A /\ IsFiniteSet(A)
  <2>1. A \subseteq DOMAIN acc
    BY <1>1 DEF Accepted
  <2> QED
    BY <2>1, FS_Subset
<1>6. PICK f, g : f = [i \in A |-> acc[i].notional] /\ g = [i \in B |-> new[i].notional]
  OBVIOUS
<1>7. Notional(acc, l) = SumOver(f, A) /\ Notional(new, l) = SumOver(g, B)
  <2>1. DOMAIN f = A /\ DOMAIN g = B
    BY <1>6
  <2> QED
    BY <1>1, <1>6, <2>1 DEF Notional, sum
<1>8. CASE l = o.ladder
  <2>1. B = A \cup {n}
    BY <1>4, <1>8
  <2>2. \A i \in A \cup {n} : g[i] \in Int
    BY <1>2, <1>3, <1>5, <1>6, <2>1
  <2>3. SumOver(g, A \cup {n}) = SumOver(g, A) + g[n]
    BY <1>5, <2>2, SumAdded
  <2>4. SumOver(g, A) = SumOver(f, A)
    <3>1. \A i \in A : g[i] = f[i]
      BY <1>2, <1>5, <1>6, <2>1
    <3> QED
      BY <1>5, <3>1, SumSame
  <2>5. g[n] = o.notional
    BY <1>2, <1>6, <2>1
  <2>6. Cardinality(A \cup {n}) = Cardinality(A) + 1
    BY <1>5, FS_AddElement
  <2>7. Notional(new, l) = Notional(acc, l) + o.notional
    BY <1>7, <2>1, <2>3, <2>4, <2>5
  <2>8. Cardinality(B) = Cardinality(A) + 1
    BY <2>1, <2>6
  <2> QED
    BY <1>1, <1>3, <1>8, <2>7, <2>8
<1>9. CASE l # o.ladder
  <2>1. B = A
    BY <1>4, <1>9
  <2>2. \A i \in A : g[i] = f[i]
    BY <1>2, <1>5, <1>6, <2>1
  <2>3. SumOver(g, A) = SumOver(f, A)
    BY <1>5, <2>2, SumSame
  <2> QED
    BY <1>1, <1>3, <1>7, <1>9, <2>1, <2>3
<1> QED
  BY <1>8, <1>9

(* _record_accepted_order enters an order in every total it belongs to.    *)
LEMMA RecordedLedger ==
    ASSUME job \in Weathers, NEW w, Ledger(w), "signal" \in DOMAIN w,
           NEW n, n \in DOMAIN w.pending,
           n \notin DOMAIN w.accepted, Fits(w, w.pending[n])
    PROVE  LET v == record_accepted_order(w, n)
           IN  /\ Ledger(v) /\ v.pending = without(w.pending, n)
               /\ DOMAIN v.accepted = DOMAIN w.accepted \cup {n}
               /\ DOMAIN v = DOMAIN w /\ v.signal = w.signal
<1> DEFINE v == record_accepted_order(w, n)
<1>1. PICK o, x, l, m, new, f, g :
        /\ o = w.pending[n] /\ x = o.notional /\ l = o.ladder /\ m = o.market
        /\ new = with(w.accepted, n, o)
        /\ f = w.instrument /\ g = [f EXCEPT ![m] = @ + x]
  OBVIOUS
<1>2. l \in Ladders /\ m \in Markets /\ x \in Nat /\ w.ladder[l] + x <= w.params.ladder_notional
  BY <1>1 DEF Fits
<1>3. /\ DOMAIN v = DOMAIN w /\ v.pending = without(w.pending, n) /\ v.signal = w.signal
      /\ v.params = w.params /\ v.accepted = new
      /\ v.ladder = [w.ladder EXCEPT ![l] = @ + x]
      /\ v.ladder_orders = [w.ladder_orders EXCEPT ![l] = @ + 1]
      /\ v.instrument = g /\ v.active = w.active + x
  <2>1. PICK p, la, lo, ac, ti, li :
            /\ p = without(w.pending, n) /\ la = [w.ladder EXCEPT ![l] = @ + x]
            /\ lo = [w.ladder_orders EXCEPT ![l] = @ + 1] /\ ac = w.active + x
            /\ ti = [w.ticker_orders EXCEPT ![m] = @ + 1]
            /\ li = [w.last EXCEPT ![m] = [price |-> o.price, probability |-> o.probability]]
    OBVIOUS
  <2>2. v = [w EXCEPT !.pending = p, !.accepted = new, !.ladder = la, !.instrument = g,
                      !.active = ac, !.ladder_orders = lo, !.ticker_orders = ti, !.last = li]
    BY <1>1, <2>1 DEF record_accepted_order
  <2>3. {"params", "pending", "accepted", "ladder", "ladder_orders", "instrument", "active"}
            \subseteq DOMAIN w /\ "signal" \in DOMAIN w
    BY DEF Ledger
  <2> HIDE DEF v
  <2> QED
    BY <2>1, <2>2, <2>3
<1> HIDE DEF v
<1>4. DOMAIN f = Markets /\ (\A k \in Markets : f[k] \in Nat) /\ w.active = SumOver(f, Markets)
  BY <1>1 DEF Ledger
<1>5. DOMAIN g = Markets /\ \A k \in Markets : g[k] \in Nat
  BY <1>1, <1>2, <1>4
<1>6. SumOver(g, Markets) = w.active + x
  <2>1. PICK y, S : y = f[m] + x /\ S = Markets
    OBVIOUS
  <2>2. /\ y \in Int /\ m \in S /\ IsFiniteSet(S) /\ S \subseteq DOMAIN f
        /\ \A k \in S : f[k] \in Int
    BY <1>2, <1>4, <2>1, SignalAssumption
  <2>3. SumOver([f EXCEPT ![m] = y], S) = SumOver(f, S) - f[m] + y
    BY <2>2, SumUpdated
  <2>4. SumOver(f, S) \in Int
    BY <2>2, SumType
  <2>5. g = [f EXCEPT ![m] = y]
    BY <1>1, <2>1
  <2>6. PICK a, b, c : a = SumOver(f, S) /\ b = f[m] /\ c = SumOver(g, S)
    OBVIOUS
  <2>7. a \in Int /\ b \in Int /\ x \in Int /\ y = b + x /\ c = a - b + y
    BY <1>2, <1>4, <2>1, <2>2, <2>3, <2>4, <2>5, <2>6
  <2>8. c = a + x
    BY ONLY <2>7
  <2> QED
    BY <1>4, <2>1, <2>6, <2>8
<1>7. /\ IsFiniteSet(DOMAIN w.accepted) /\ \A i \in DOMAIN w.accepted : w.accepted[i].notional \in Int
      /\ o.notional \in Int
  BY <1>1, <1>2 DEF Ledger
<1>8. /\ IsFiniteSet(DOMAIN new) /\ \A i \in DOMAIN new : new[i].notional \in Int
      /\ DOMAIN new = DOMAIN w.accepted \cup {n}
  <2>1. DOMAIN new = DOMAIN w.accepted \cup {n}
    BY <1>1 DEF with
  <2>2. PICK acc : acc = w.accepted
    OBVIOUS
  <2> QED
    BY <1>1, <1>7, <2>1, <2>2, OneMore
<1>9. ASSUME NEW k \in Ladders
      PROVE  /\ v.ladder[k] = Notional(v.accepted, k)
             /\ v.ladder[k] <= v.params.ladder_notional
             /\ v.ladder_orders[k] = Cardinality(Accepted(v.accepted, k))
  <2>1. /\ w.ladder[k] = Notional(w.accepted, k)
        /\ w.ladder[k] <= w.params.ladder_notional
        /\ w.ladder_orders[k] = Cardinality(Accepted(w.accepted, k))
        /\ DOMAIN w.ladder = Ladders /\ DOMAIN w.ladder_orders = Ladders
    BY DEF Ledger
  <2>2. PICK acc : acc = w.accepted
    OBVIOUS
  <2>3. IF k = l
        THEN /\ Notional(new, k) = Notional(acc, k) + x
             /\ Cardinality(Accepted(new, k)) = Cardinality(Accepted(acc, k)) + 1
        ELSE /\ Notional(new, k) = Notional(acc, k)
             /\ Accepted(new, k) = Accepted(acc, k)
    BY <1>1, <1>7, <1>8, <2>2, OneMore
  <2>4. CASE k = l
    BY <1>2, <1>3, <2>1, <2>2, <2>3, <2>4
  <2>5. CASE k # l
    BY <1>3, <2>1, <2>2, <2>3, <2>5
  <2> QED
    BY <2>4, <2>5
<1>10. Ledger(v)
  <2>1. w.params = WeatherParams[job] /\ DOMAIN v.ladder = Ladders /\ DOMAIN v.ladder_orders = Ladders
    BY <1>3 DEF Ledger
  <2>2. {"params", "pending", "accepted", "ladder", "ladder_orders", "instrument", "active"}
            \subseteq DOMAIN v
    BY <1>3 DEF Ledger
  <2> QED
    BY <1>3, <1>5, <1>6, <1>8, <1>9, <2>1, <2>2 DEF Ledger
<1> QED
  BY <1>3, <1>8, <1>10 DEF v

(* on_feedback: an accepted order is entered, a refused one forgotten. *)
LEMMA JudgedBooked ==
    ASSUME job \in Weathers, NEW t, Knows(t), NEW d, Booked(t, <<d>>), NEW b
    PROVE  LET u == weather_on_feedback(t, d, b)
           IN  Knows(u) /\ Booked(u, <<>>)
<1>1. /\ {"own", "ids"} \subseteq DOMAIN t /\ Ledger(t.own)
      /\ t.ids \in Nat /\ DOMAIN t.own.accepted \subseteq 1 .. t.ids
      /\ "id" \in DOMAIN d /\ d.id = t.ids /\ t.ids > 0 /\ t.ids \notin DOMAIN t.own.accepted
      /\ DOMAIN t.own.pending \subseteq {t.ids}
      /\ \A i \in DOMAIN t.own.pending : Fits(t.own, t.own.pending[i])
  BY DEF Booked
<1> DEFINE u == weather_on_feedback(t, d, b)
<1>2. CASE d.id \notin DOMAIN t.own.pending
  <2>1. u = t /\ DOMAIN t.own.pending = {}
    BY <1>1, <1>2 DEF weather_on_feedback
  <2> QED
    BY <1>1, <2>1 DEF Booked
<1>3. ASSUME d.id \in DOMAIN t.own.pending, NEW v, u = [t EXCEPT !.own = v],
             Ledger(v), v.pending = without(t.own.pending, t.ids),
             DOMAIN v.accepted \subseteq DOMAIN t.own.accepted \cup {t.ids},
             DOMAIN v = DOMAIN t.own, v.signal = t.own.signal
      PROVE  Knows(u) /\ Booked(u, <<>>)
  <2>1. DOMAIN u = DOMAIN t /\ u.own = v /\ u.ids = t.ids /\ u.mid = t.mid /\ u.quote = t.quote
    BY <1>1, <1>3 DEF Knows
  <2>2. DOMAIN v.pending = {}
    BY <1>1, <1>3 DEF without
  <2>3. DOMAIN v.accepted \subseteq 1 .. t.ids
    <3>1. t.ids \in 1 .. t.ids
      BY <1>1
    <3> QED
      BY <1>1, <1>3, <3>1
  <2> HIDE DEF u
  <2> QED
    BY <1>1, <1>3, <2>1, <2>2, <2>3 DEF Knows, Booked
<1>4. CASE d.id \in DOMAIN t.own.pending /\ b
  <2>1. PICK v : v = record_accepted_order(t.own, t.ids)
    OBVIOUS
  <2>2. u = [t EXCEPT !.own = v]
    BY <1>1, <1>4, <2>1 DEF weather_on_feedback
  <2>3. /\ Ledger(v) /\ v.pending = without(t.own.pending, t.ids)
        /\ DOMAIN v.accepted = DOMAIN t.own.accepted \cup {t.ids}
        /\ DOMAIN v = DOMAIN t.own /\ v.signal = t.own.signal
    <3>1. t.ids \in DOMAIN t.own.pending /\ "signal" \in DOMAIN t.own
      BY <1>1, <1>4 DEF Knows
    <3> QED
      BY <1>1, <2>1, <3>1, RecordedLedger
  <2> QED
    BY <1>3, <1>4, <2>2, <2>3
<1>5. CASE d.id \in DOMAIN t.own.pending /\ ~b
  <2>1. PICK v : v = [t.own EXCEPT !.pending = without(t.own.pending, t.ids)]
    OBVIOUS
  <2>2. u = [t EXCEPT !.own = v]
    BY <1>1, <1>5, <2>1 DEF weather_on_feedback
  <2>3. /\ DOMAIN v = DOMAIN t.own /\ v.pending = without(t.own.pending, t.ids)
        /\ v.params = t.own.params /\ v.accepted = t.own.accepted
        /\ v.ladder = t.own.ladder /\ v.ladder_orders = t.own.ladder_orders
        /\ v.instrument = t.own.instrument /\ v.active = t.own.active
        /\ v.signal = t.own.signal
    BY <1>1, <2>1 DEF Ledger, Knows
  <2>4. Ledger(v)
    BY <1>1, <2>3 DEF Ledger
  <2> QED
    BY <1>3, <1>5, <2>2, <2>3, <2>4
<1> QED
  BY <1>2, <1>4, <1>5

-----------------------------------------------------------------------------
(* The running totals of every plugin that keeps one. *)

Totals ==
    /\ job = "politics_legislative_cascade" => Cascade(s)
    /\ job = "microstructure_queue_evader" => Evader(s)
    /\ job = "sports_tennis_xgboost" => Position
    /\ job \in Weathers => Knows(s) /\ Booked(s, todo)
    /\ cash \in Int

TotalsInv == CloseInv /\ Totals

(* The weather plugin is handed an event. *)
LEMMA WeatherHeard ==
    ASSUME job \in Weathers, Knows(s), Booked(s, todo), NEW e, Heard(e),
           NEW c, c.cash \in Int, hand_over(e, c)
    PROVE  Knows(s') /\ Booked(s', todo')
<1> DEFINE r == on_event(job, s, e, c)
           out == [k \in DOMAIN r.out |-> wrap(r.out[k], e)]
<1>1. s' = r.s /\ todo' = out /\ todo = <<>>
  BY DEF hand_over
<1>2. r = weather_temperature_arbitrage(s, e, c)
  BY DEF on_event, Weathers, LiveJobs
<1> HIDE DEF r
<1>3. Knows(r.s) /\ Booked(r.s, r.out)
  BY <1>1, <1>2, EventBooked
<1>4. CASE r.out = <<>>
  <2>1. out = <<>>
    BY <1>4
  <2> QED
    BY <1>1, <1>3, <1>4, <2>1
<1>5. CASE r.out # <<>>
  <2>1. PICK d : r.out = <<d>> /\ "id" \in DOMAIN d /\ d.id = r.s.ids
    BY <1>3, <1>5 DEF Booked
  <2>2. PICK x : x = wrap(d, e)
    OBVIOUS
  <2>3. "id" \in DOMAIN x /\ x.id = d.id
    BY <2>1, <2>2 DEF wrap
  <2>4. out = <<x>>
    <3>1. out = [k \in DOMAIN <<d>> |-> wrap(d, e)]
      BY <2>1
    <3> QED
      BY <2>2, <3>1, Mapped
  <2>5. \E y : <<x>> = <<y>> /\ "id" \in DOMAIN y /\ y.id = r.s.ids
    BY <2>1, <2>3
  <2> HIDE DEF out
  <2>6. Booked(r.s, <<x>>)
    BY <1>3, <1>5, <2>5 DEF Booked
  <2> QED
    BY <1>1, <1>3, <2>4, <2>6
<1> QED
  BY <1>4, <1>5

(* The verdict on its decision. *)
LEMMA WeatherJudged ==
    ASSUME job \in Weathers, Knows(s), Booked(s, todo), todo # <<>>, NEW b,
           s' = on_feedback(job, s, Head(todo), b), todo' = Tail(todo)
    PROVE  Knows(s') /\ Booked(s', todo')
<1>1. PICK d : todo = <<d>>
  BY DEF Booked
<1>2. Head(todo) = d /\ Tail(todo) = <<>>
  BY <1>1
<1>3. s' = weather_on_feedback(s, d, b)
  BY <1>2 DEF on_feedback, Weathers, LiveJobs
<1> QED
  BY <1>1, <1>2, <1>3, JudgedBooked

(* What the totals rest on: the plugin, its decision, the venue, the cash. *)
LEMMA TotalsUnmoved ==
    ASSUME Totals, UNCHANGED <<job, s, todo, orders, oversold, cash>>
    PROVE  Totals'
<1>1. Cascade(s) => Cascade(s)'
  BY DEF Cascade, Tallied, known_scores, score_total
<1>2. Evader(s) => Evader(s)'
  BY DEF Evader, Counted, sum
<1>3. Position => Position'
  <2>1. bought(orders)' = bought(orders) /\ sold(orders)' = sold(orders)
    BY DEF bought, sold, traded_total
  <2> QED
    BY <2>1 DEF Position, Shaped, Sent
<1>4. Knows(s) => Knows(s)'
  BY DEF Knows
<1>5. Booked(s, todo) => Booked(s, todo)'
  <2>1. Ledger(s.own) => Ledger(s.own)'
    BY DEF Ledger, Notional, Accepted, sum
  <2>2. \A i : Fits(s.own, s.own.pending[i]) => Fits(s.own, s.own.pending[i])'
    BY DEF Fits
  <2> QED
    BY <2>1, <2>2 DEF Booked
<1>6. job \in Weathers <=> job' \in Weathers
  BY DEF Weathers, LiveJobs
<1> QED
  BY <1>1, <1>2, <1>3, <1>4, <1>5, <1>6 DEF Totals

(* Knows and Booked of the next state. *)
LEMMA TotalsOfWeather ==
    ASSUME job \in Weathers, Knows(s'), Booked(s', todo'), job' = job, cash' \in Int
    PROVE  Totals'
<1>1. job' \notin {"politics_legislative_cascade", "microstructure_queue_evader", "sports_tennis_xgboost"}
  BY DEF Weathers, LiveJobs
<1> QED
  BY <1>1 DEF Totals, Knows, Booked, Ledger, Notional, Accepted, sum, Fits

(* The runner, plugin by plugin. *)
LEMMA RunKeepsTotals ==
    ASSUME TotalsInv, RunNext, cash' = cash
    PROVE  Totals'
<1>0. job' = job
  BY DEF RunNext, runner_start, process_event, accept, reject, runner_stop, hand_over
<1>1. CASE runner_start \/ runner_stop
  BY <1>1, TotalsUnmoved DEF runner_start, runner_stop, TotalsInv
<1>2. CASE process_event
  <2>1. PICK e \in inputs(job), money \in CashLevels :
          hand_over(e, [now |-> event_time(e), cash |-> money])
    BY <1>2 DEF process_event
  <2>2. PICK c : c = [now |-> event_time(e), cash |-> money]
    OBVIOUS
  <2>3. hand_over(e, c) /\ c.cash \in Int /\ s' = on_event(job, s, e, c).s
    BY <2>1, <2>2, RunAssumption DEF hand_over
  <2>4. CASE job = "politics_legislative_cascade"
    <3>1. s' = politics_legislative_cascade(s, e).s
      BY <2>3, <2>4 DEF on_event, Weathers, LiveJobs
    <3>2. Cascade(s')
      BY <2>1, <2>4, <3>1, CascadeHears DEF TotalsInv, Totals
    <3> QED
      BY <1>0, <2>4, <3>2 DEF Totals, TotalsInv, Weathers, LiveJobs, Cascade, Tallied, known_scores, score_total
  <2>5. CASE job = "microstructure_queue_evader"
    <3>1. s' = microstructure_queue_evader(s, e).s
      BY <2>3, <2>5 DEF on_event, Weathers, LiveJobs
    <3>2. Evader(s')
      BY <2>1, <2>5, <3>1, EvaderHears DEF TotalsInv, Totals
    <3> QED
      BY <1>0, <2>5, <3>2 DEF Totals, TotalsInv, Weathers, LiveJobs, Evader, Counted, sum
  <2>6. CASE job = "sports_tennis_xgboost"
    <3>1. Position'
      BY <2>1, <2>3, <2>6, PositionHeard DEF TotalsInv, Totals
    <3> QED
      BY <1>0, <2>6, <3>1 DEF Totals, TotalsInv, Weathers, LiveJobs
  <2>7. CASE job \in Weathers
    <3>1. Heard(e)
      BY <1>2, <2>7, StoredHeard DEF process_event
    <3>2. Knows(s') /\ Booked(s', todo')
      BY <2>3, <2>7, <3>1, WeatherHeard DEF TotalsInv, Totals
    <3> QED
      BY <1>0, <2>7, <3>2, TotalsOfWeather DEF TotalsInv, Totals
  <2>8. CASE job \notin {"politics_legislative_cascade", "microstructure_queue_evader",
                         "sports_tennis_xgboost"} \cup Weathers
    BY <1>0, <2>8 DEF Totals, TotalsInv
  <2> QED
    BY <2>4, <2>5, <2>6, <2>7, <2>8
<1>3. CASE accept \/ reject
  <2>1. PICK b : s' = on_feedback(job, s, Head(todo), b)
    BY <1>3 DEF accept, reject
  <2>2. todo # <<>> /\ todo' = Tail(todo)
    BY <1>3 DEF accept, reject
  <2>4. CASE job = "politics_legislative_cascade"
    <3>1. s' = legislative_on_feedback(s, Head(todo), b)
      BY <2>1, <2>4 DEF on_feedback, Weathers, LiveJobs
    <3>2. Cascade(s')
      BY <2>4, <3>1, CascadeJudged DEF TotalsInv, Totals
    <3> QED
      BY <1>0, <2>4, <3>2 DEF Totals, TotalsInv, Weathers, LiveJobs, Cascade, Tallied, known_scores, score_total
  <2>5. CASE job = "microstructure_queue_evader"
    <3>1. s' = s
      BY <2>1, <2>5 DEF on_feedback, Weathers, LiveJobs
    <3> QED
      BY <1>0, <2>5, <3>1 DEF Totals, TotalsInv, Weathers, LiveJobs, Evader, Counted, sum
  <2>6. CASE job = "sports_tennis_xgboost"
    <3>1. Position'
      BY <1>3, <2>6, PositionJudged DEF TotalsInv, Totals
    <3> QED
      BY <1>0, <2>6, <3>1 DEF Totals, TotalsInv, Weathers, LiveJobs
  <2>7. CASE job \in Weathers
    <3>1. Knows(s') /\ Booked(s', todo')
      BY <2>1, <2>2, <2>7, WeatherJudged DEF TotalsInv, Totals
    <3> QED
      BY <1>0, <2>7, <3>1, TotalsOfWeather DEF TotalsInv, Totals
  <2>8. CASE job \notin {"politics_legislative_cascade", "microstructure_queue_evader",
                         "sports_tennis_xgboost"} \cup Weathers
    BY <1>0, <2>8 DEF Totals, TotalsInv
  <2> QED
    BY <2>4, <2>5, <2>6, <2>7, <2>8
<1> QED
  BY <1>1, <1>2, <1>3 DEF RunNext

(* The tasks of the live runner. *)
LEMMA LiveKeepsTotals ==
    ASSUME TotalsInv, LiveNext
    PROVE  Totals'
<1> USE DEF LiveNext
<1>0. job \in LiveJobs /\ job' = job /\ job \in Weathers
  BY DEF discover, discover_times_out, discover_raises, rediscover, ws_message, ws_put,
         ws_session_ends, forecast_tick, forecast_skip, forecast_put, balance_refresh,
         strategy_get, hand_over, clock, shutdown, looping, run_vars, Weathers
<1>1. Knows(s) /\ Booked(s, todo) /\ cash \in Int /\ Way
  BY <1>0 DEF TotalsInv, Totals, CloseInv
<1>2. CASE UNCHANGED <<job, s, todo, orders, oversold, cash>>
  BY <1>2, TotalsUnmoved DEF TotalsInv
<1>3. CASE strategy_get
  <2>1. hand_over(Head(queue), [now |-> now, cash |-> cash]) /\ queue # <<>> /\ cash' = cash
    BY <1>3 DEF strategy_get
  <2>2. Heard(Head(queue))
    BY <1>0, <1>1, <2>1, CarriesLess DEF Way
  <2>3. PICK c, e : c = [now |-> now, cash |-> cash] /\ e = Head(queue)
    OBVIOUS
  <2>4. hand_over(e, c) /\ Heard(e) /\ c.cash \in Int
    BY <1>1, <2>1, <2>2, <2>3
  <2>5. Knows(s') /\ Booked(s', todo')
    BY <1>0, <1>1, <2>4, WeatherHeard
  <2> QED
    BY <1>0, <1>1, <2>1, <2>5, TotalsOfWeather
<1>4. CASE balance_refresh
  <2>1. s' = s /\ todo' = todo /\ cash' \in Int
    BY <1>4, RunAssumption DEF balance_refresh, run_vars
  <2> QED
    BY <1>0, <1>1, <2>1, TotalsOfWeather
<1>5. CASE clock
  BY <1>5, <1>2 DEF clock, live_vars
<1>6. CASE shutdown
  BY <1>6, <1>2 DEF shutdown
<1> QED
  BY <1>2, <1>3, <1>4, <1>5, <1>6
  DEF discover, discover_times_out, discover_raises, rediscover, ws_message, ws_put,
      ws_session_ends, forecast_tick, forecast_skip, forecast_put, run_vars

(* A new plugin has nothing to add up. *)
LEMMA TotalsInitially == Init => TotalsInv
<1> SUFFICES ASSUME Init PROVE TotalsInv
  OBVIOUS
<1>1. s = new_plugin(job) /\ todo = <<>> /\ orders = <<>> /\ oversold = FALSE
  BY DEF Init, RunInit
<1>2. /\ {"mid", "quote", "own", "ids"} \subseteq DOMAIN s
      /\ s.mid = [m \in Markets |-> None] /\ s.quote = [m \in Markets |-> NoQuote]
      /\ s.own = own_state(job) /\ s.ids = 0
  BY <1>1 DEF new_plugin
<1>3. cash \in Int
  BY RunAssumption DEF Init, LiveInit
<1>4. ASSUME job = "politics_legislative_cascade" PROVE Cascade(s)
  <2>1. s.own = [scores |-> [x \in Senators |-> NoQuote], total |-> 0, protective |-> TRUE]
    BY <1>2, <1>4 DEF own_state, Weathers, LiveJobs
  <2>2. PICK w, K : w = s.own /\ K = known_scores(w)
    OBVIOUS
  <2>3. {"scores", "total"} \subseteq DOMAIN w /\ DOMAIN w.scores = Senators /\ w.total = 0
    BY <2>1, <2>2
  <2>4. K = {}
    BY <2>1, <2>2 DEF known_scores
  <2>5. score_total(w, K) = 0
    BY <2>4, SumEmpty DEF score_total
  <2>6. Tallied(w)
    BY <2>2, <2>3, <2>4, <2>5 DEF Tallied
  <2> QED
    BY <1>2, <2>2, <2>6 DEF Cascade
<1>5. ASSUME job = "microstructure_queue_evader" PROVE Evader(s)
  <2>1. s.own = <<>>
    BY <1>2, <1>5 DEF own_state, Weathers, LiveJobs
  <2> QED
    BY <1>2, <2>1 DEF Evader
<1>6. ASSUME job = "sports_tennis_xgboost" PROVE Position
  <2>1. s.own = NewTennis
    BY <1>2, <1>6 DEF own_state, Weathers, LiveJobs
  <2>2. \A x : traded_total(orders, x) = 0
    <3> SUFFICES ASSUME NEW x PROVE traded_total(orders, x) = 0
      OBVIOUS
    <3>1. PICK D : D = DOMAIN orders
      OBVIOUS
    <3>2. D = {}
      BY <1>1, <3>1
    <3> QED
      BY <3>1, <3>2, SumEmpty DEF traded_total
  <2>3. Shaped(s) /\ s.own.held = 0 /\ s.own.exits = {}
    BY <1>2, <2>1 DEF Shaped, NewTennis
  <2>4. DOMAIN orders = {}
    BY <1>1
  <2>5. Sent(orders, s.ids, s.own.exits)
    BY <1>2, <2>3, <2>4 DEF Sent
  <2> QED
    BY <1>1, <2>2, <2>3, <2>5 DEF Position, bought, sold
<1>7. ASSUME job \in Weathers PROVE Knows(s) /\ Booked(s, todo)
  <2>1. s.own = NewWeather(WeatherParams[job])
    BY <1>2, <1>7 DEF own_state, Weathers, LiveJobs
  <2>2. PICK w : w = s.own
    OBVIOUS
  <2>3. /\ {"params", "pending", "accepted", "ladder", "ladder_orders", "instrument", "active", "signal"}
                \subseteq DOMAIN w
        /\ w.params = WeatherParams[job] /\ w.signal = [m \in Markets |-> NoQuote]
        /\ w.pending = <<>> /\ w.accepted = <<>> /\ w.active = 0
        /\ w.ladder = [l \in Ladders |-> 0] /\ w.ladder_orders = [l \in Ladders |-> 0]
        /\ w.instrument = [m \in Markets |-> 0]
    BY <2>1, <2>2 DEF NewWeather
  <2>4. Knows(s)
    BY <1>2, <2>2, <2>3 DEF Knows
  <2>5. DOMAIN w.pending = {} /\ DOMAIN w.accepted = {} /\ IsFiniteSet({}) /\ Cardinality({}) = 0
    BY <2>3, FS_EmptySet
  <2>6. SumOver(w.instrument, Markets) = 0
    <3>1. PICK f, S, T : f = w.instrument /\ S = Markets /\ T = {}
      OBVIOUS
    <3>2. IsFiniteSet(S) /\ T \subseteq S /\ (\A x \in S : f[x] \in Int) /\ \A x \in S \ T : f[x] = 0
      BY <2>3, <3>1, SignalAssumption
    <3>3. SumOver(f, S) = SumOver(f, T)
      BY <3>2, SumZeros
    <3> QED
      BY <3>1, <3>3, SumEmpty
  <2>7. ASSUME NEW l PROVE Accepted(w.accepted, l) = {} /\ Notional(w.accepted, l) = 0
    <3>1. PICK A : A = Accepted(w.accepted, l)
      OBVIOUS
    <3>2. A = {}
      BY <2>5, <3>1 DEF Accepted
    <3>3. PICK f : f = [i \in A |-> w.accepted[i].notional]
      OBVIOUS
    <3>4. SumOver(f, A) = 0 /\ DOMAIN f = A
      BY <3>2, <3>3, SumEmpty
    <3> QED
      BY <3>1, <3>2, <3>3, <3>4 DEF Notional, sum
  <2>8. w.params.ladder_notional \in Nat
    BY <1>7, <2>3, RunAssumption
  <2>9. Ledger(w)
    <3>1. \A m \in Markets : w.instrument[m] \in Nat
      BY <2>3
    <3>2. IsFiniteSet(DOMAIN w.accepted) /\ \A i \in DOMAIN w.accepted : w.accepted[i].notional \in Int
      BY <2>5
    <3>3. DOMAIN w.instrument = Markets /\ DOMAIN w.ladder = Ladders /\ DOMAIN w.ladder_orders = Ladders
      BY <2>3
    <3>4. ASSUME NEW l \in Ladders
          PROVE  /\ w.ladder[l] = Notional(w.accepted, l)
                 /\ w.ladder[l] <= w.params.ladder_notional
                 /\ w.ladder_orders[l] = Cardinality(Accepted(w.accepted, l))
      <4>1. w.ladder[l] = 0 /\ w.ladder_orders[l] = 0
        BY <2>3
      <4>2. PICK A, N : A = Accepted(w.accepted, l) /\ N = Notional(w.accepted, l)
        OBVIOUS
      <4>3. Cardinality(A) = 0 /\ N = 0
        BY <2>5, <2>7, <4>2
      <4>4. PICK b : b = w.params.ladder_notional
        OBVIOUS
      <4>5. 0 <= b
        BY <2>8, <4>4
      <4> QED
        BY <4>1, <4>2, <4>3, <4>4, <4>5
    <3> QED
      BY <2>3, <2>6, <3>1, <3>2, <3>3, <3>4 DEF Ledger
  <2> QED
    BY <1>1, <1>2, <2>2, <2>4, <2>5, <2>9 DEF Booked
<1> QED
  BY CloseInitially, <1>3, <1>4, <1>5, <1>6, <1>7 DEF TotalsInv, Totals

(* Every step keeps the totals. *)
LEMMA TotalsKept == TotalsInv /\ [Next]_vars => TotalsInv'
<1> SUFFICES ASSUME TotalsInv, [Next]_vars PROVE TotalsInv'
  OBVIOUS
<1>1. CloseInv'
  BY CloseKept DEF TotalsInv
<1>2. Totals'
  <2>1. CASE job \notin StudyJobs /\ RunNext /\ UNCHANGED <<live_vars, lab_vars>>
    BY <2>1, RunKeepsTotals DEF live_vars
  <2>2. CASE LiveNext
    BY <2>2, LiveKeepsTotals
  <2>3. CASE UNCHANGED <<run_vars, live_vars>>
    BY <2>3, TotalsUnmoved DEF TotalsInv, run_vars, live_vars
  <2>4. StudyNext => UNCHANGED <<run_vars, live_vars>>
    BY DEF StudyNext, OneJob
  <2> QED
    BY <2>1, <2>2, <2>3, <2>4 DEF Next, vars
<1> QED
  BY <1>1, <1>2 DEF TotalsInv

(* What the plugins keep up to date as things come and go is what it adds  *)
(* up to, after every event and every verdict: the cascade's score         *)
(* (_evict_expired_scores), the evader's volume, the tennis plugin's       *)
(* position (_apply_fill) and the weather plugin's notionals and counts    *)
(* (_record_accepted_order, _release_settled_notional), which stay within  *)
(* the ladder's limit.                                                     *)
THEOREM TotalsAreKept == Spec => []RunningTotals
<1>1. TotalsInv => RunningTotals
  <2> SUFFICES ASSUME TotalsInv PROVE RunningTotals
    OBVIOUS
  <2> USE DEF TotalsInv, Totals
  <2>1. CASE job = "politics_legislative_cascade"
    BY <2>1 DEF RunningTotals, Cascade, Tallied, Weathers, LiveJobs
  <2>2. CASE job = "microstructure_queue_evader"
    BY <2>2 DEF RunningTotals, Evader, Counted, Weathers, LiveJobs
  <2>3. CASE job = "sports_tennis_xgboost"
    BY <2>3 DEF RunningTotals, Position, Weathers, LiveJobs
  <2>4. CASE job \in Weathers
    <3>1. Ledger(s.own)
      BY <2>4 DEF Booked
    <3>2. s.own.active = sum(s.own.instrument)
      BY <3>1 DEF Ledger, sum
    <3>3. ASSUME NEW l \in Ladders
          PROVE  LET mine == {i \in DOMAIN s.own.accepted : s.own.accepted[i].ladder = l}
                 IN  /\ s.own.ladder[l] = sum([i \in mine |-> s.own.accepted[i].notional])
                     /\ s.own.ladder[l] <= s.own.params.ladder_notional
                     /\ s.own.ladder_orders[l] = Cardinality(mine)
      BY <3>1 DEF Ledger, Notional, Accepted
    <3> QED
      BY <2>4, <3>2, <3>3 DEF RunningTotals, Weathers, LiveJobs
  <2>5. CASE job \notin {"politics_legislative_cascade", "microstructure_queue_evader",
                         "sports_tennis_xgboost"} \cup Weathers
    BY <2>5 DEF RunningTotals
  <2> QED
    BY <2>1, <2>2, <2>3, <2>4, <2>5
<1> QED
  BY TotalsInitially, TotalsKept, <1>1, PTL DEF Spec

-----------------------------------------------------------------------------
(* Prices.  What a plugin knows of a market is set against the prices the  *)
(* market last showed.                                                     *)

(* What a venue shows of a market, in YES terms.                           *)
Levels == {l \in [bid : Whole, ask : Whole] : l.bid <= l.ask}

(* p is a price of side x of a market that shows l. *)
Within(p, x, l) ==
    /\ p \in Int /\ x \in {"YES", "NO"} /\ l \in Levels
    /\ x = "YES" => l.bid <= p /\ p <= l.ask
    /\ x = "NO" => One - l.ask <= p /\ p <= One - l.bid

(* A decision does not leave the market mk, and a list of them.            *)
OnMarket(d, mk) ==
    /\ "do" \in DOMAIN d
    /\ d.do = "place" =>
        /\ {"market", "side", "price"} \subseteq DOMAIN d
        /\ d.market \in Markets /\ Within(d.price, d.side, mk[d.market])

Offers(q, mk) == \E S : q \in Seq(S) /\ \A d \in S : OnMarket(d, mk)

(* An event that carries prices of a market, or none. *)
Shows(e) ==
    e.kind \in {"quote", "book"} =>
        /\ {"kind", "market", "side", "bid", "ask"} \subseteq DOMAIN e
        /\ e.market \in Markets /\ e.side \in {"YES", "NO"}
        /\ e.kind = "book" => e.side = "YES"
        /\ e.bid \in Whole \cup {None} /\ e.ask \in Whole \cup {None}
        /\ e.bid # None /\ e.ask # None => e.bid <= e.ask

-----------------------------------------------------------------------------
(* A whole price is a number, and so is its complement. *)
LEMMA WholePrices ==
    ASSUME NEW p \in Whole
    PROVE  /\ p \in Int /\ Tick <= p /\ p <= One - Tick /\ p # None
           /\ One - p \in Whole
           /\ \E c \in Int : p = 2 * c
<1>1. PICK c \in 1 .. 99 : p = 2 * c
  BY DEF Whole, Tick, One
<1>2. 100 - c \in 1 .. 99 /\ 200 - p = 2 * (100 - c)
  BY <1>1
<1> QED
  BY <1>1, <1>2 DEF Whole, Tick, One, None

(* A list of decisions that stay on the market.                            *)
LEMMA OffersIt ==
    ASSUME NEW S, NEW q \in Seq(S), NEW mk, \A d \in S : OnMarket(d, mk)
    PROVE  Offers(q, mk)
BY DEF Offers

(* Decisions made one by one. *)
LEMMA OffersMade ==
    ASSUME NEW n \in Nat, NEW q, q = [k \in 1 .. n |-> q[k]], NEW mk,
           \A k \in 1 .. n : OnMarket(q[k], mk)
    PROVE  Offers(q, mk)
<1>1. PICK S : S = {q[k] : k \in 1 .. n}
  OBVIOUS
<1>2. [k \in 1 .. n |-> q[k]] \in Seq(S)
  BY <1>1
<1>3. q \in Seq(S) /\ \A d \in S : OnMarket(d, mk)
  BY <1>1, <1>2
<1> QED
  BY ONLY <1>3, OffersIt

(* None, or one. *)
LEMMA OffersFew ==
    ASSUME NEW mk
    PROVE  /\ Offers(<<>>, mk)
           /\ \A d : OnMarket(d, mk) => Offers(<<d>>, mk)
<1>1. PICK q, S : q = <<>> /\ S = {}
  OBVIOUS
<1>2. q \in Seq(S) /\ \A d \in S : OnMarket(d, mk)
  BY <1>1
<1>3. Offers(q, mk)
  BY <1>2, OffersIt
<1>4. ASSUME NEW d, OnMarket(d, mk) PROVE Offers(<<d>>, mk)
  <2>1. PICK p, T : p = <<d>> /\ T = {d}
    OBVIOUS
  <2>2. p \in Seq(T) /\ \A x \in T : OnMarket(x, mk)
    BY <1>4, <2>1
  <2>3. Offers(p, mk)
    BY <2>2, OffersIt
  <2> QED
    BY <2>1, <2>3
<1> QED
  BY <1>1, <1>3, <1>4

(* The price that comes of a mid is a price of its market. *)
LEMMA Clamped ==
    ASSUME NEW p \in Int, Tick <= p, p <= One - Tick
    PROVE  clamp_price(p) = p
<1>1. PICK lo, hi : lo = Tick /\ hi = One - Tick
  OBVIOUS
<1>2. lo \in Int /\ hi \in Int /\ lo <= p /\ p <= hi
  BY <1>1 DEF Tick, One
<1>3. Min({hi, p}) = p
  BY <1>2, OfTwo
<1>4. Max({lo, p}) = p
  BY SMTT(30), <1>2, OfTwo
<1> QED
  BY <1>1, <1>3, <1>4 DEF clamp_price

(* A price that is rounded down stays above the bid it was above. *)
LEMMA Floored ==
    ASSUME NEW p \in Int, NEW w \in Whole, w <= p
    PROVE  /\ floor_to_tick(p) \in Int
           /\ w <= floor_to_tick(p) /\ floor_to_tick(p) <= p
<1>1. PICK c \in Int : w = 2 * c
  BY WholePrices
<1>2. PICK h : h = p \div 2
  OBVIOUS
<1>3. h \in Int /\ 2 * h <= p /\ p < 2 * h + 2
  BY <1>2
<1>4. 2 * c <= 2 * h /\ h * 2 = 2 * h
  BY <1>1, <1>3
<1> QED
  BY <1>1, <1>2, <1>3, <1>4 DEF floor_to_tick, Tick

(* edge_order: whichever side the probability favours and however the      *)
(* price is rounded.                                                       *)
LEMMA EdgeOrder ==
    ASSUME NEW t, NEW m \in Markets, NEW mk, Within(t.mid[m], "YES", mk[m]), NEW p, NEW b
    PROVE  OnMarket(edge_order(t, m, p, b), mk)
<1>1. PICK mid, l : mid = t.mid[m] /\ l = mk[m]
  OBVIOUS
<1>2. mid \in Int /\ l \in Levels /\ l.bid <= mid /\ mid <= l.ask
  BY <1>1 DEF Within
<1>3. l.bid \in Whole /\ l.ask \in Whole
  BY <1>2 DEF Levels
<1>4. /\ l.bid \in Int /\ l.ask \in Int /\ Tick <= l.bid /\ l.ask <= One - Tick
      /\ One - l.ask \in Whole
  BY <1>3, WholePrices
<1> DEFINE side == IF p > mid THEN "YES" ELSE "NO"
           price == IF side = "YES" THEN mid ELSE One - mid
           limit == IF b THEN buy_limit_from_fair(price) ELSE clamp_price(price)
<1>5. edge_order(t, m, p, b) = place(m, side, limit, Size, "GTC", b)
  BY <1>1 DEF edge_order
<1>6. price \in Int /\ Within(price, side, l)
  BY <1>2, <1>4 DEF Within, One
<1>7. \E w \in Whole : w <= price /\ (side = "YES" => w = l.bid) /\ (side = "NO" => w = One - l.ask)
  BY <1>2, <1>3, <1>4 DEF One
<1> HIDE DEF price
<1>8. PICK w \in Whole : w <= price /\ (side = "YES" => w = l.bid) /\ (side = "NO" => w = One - l.ask)
  BY <1>7
<1>9. Tick <= w /\ w \in Int /\ price <= One - Tick
  BY <1>2, <1>4, <1>6, <1>8, WholePrices DEF Within, One, Tick
<1>10. limit \in Int /\ w <= limit /\ limit <= price
  <2>1. clamp_price(price) = price
    BY <1>6, <1>8, <1>9, Clamped DEF Tick
  <2>2. PICK f : f = floor_to_tick(price)
    OBVIOUS
  <2>3. f \in Int /\ w <= f /\ f <= price
    BY <1>6, <1>8, <2>2, Floored
  <2>4. clamp_price(f) = f
    BY <1>9, <1>6, <2>3, Clamped DEF Tick, One
  <2> QED
    BY <1>6, <1>8, <2>1, <2>2, <2>3, <2>4 DEF buy_limit_from_fair
<1> HIDE DEF limit
<1>11. Within(limit, side, l)
  BY <1>2, <1>4, <1>6, <1>8, <1>10 DEF Within, One
<1> QED
  BY <1>1, <1>5, <1>11 DEF OnMarket, place

(* What a two-sided event shows of its market, and the mids read from it.  *)
LEMMA LevelShown ==
    ASSUME NEW e, Shows(e), e.kind \in {"quote", "book"}, two_sided(e)
    PROVE  LET l == snapshot_for(e, "YES")
           IN  /\ l \in Levels
               /\ Within(yes_mid(e), "YES", l)
               /\ e.side = "YES" => Within(mid_of(e), "YES", l)
               /\ \A x \in {"YES", "NO"} : snapshot_for(e, x) = snapshot_for(with(l, "side", "YES"), x)
               /\ shown(e) = [market EXCEPT ![e.market] = l]
<1>1. /\ e.bid \in Whole /\ e.ask \in Whole /\ e.bid <= e.ask /\ e.side \in {"YES", "NO"}
      /\ "bid" \in DOMAIN e
  BY DEF Shows, two_sided
<1>2. PICK a, b : a = e.ask /\ b = e.bid
  OBVIOUS
<1>3. /\ a \in Int /\ b \in Int /\ b <= a /\ a # None /\ b # None
      /\ One - a \in Whole /\ One - b \in Whole /\ One - a # None /\ One - b # None
  BY <1>1, <1>2, WholePrices
<1>4. PICK l : l = IF e.side = "YES" THEN [bid |-> b, ask |-> a] ELSE [bid |-> One - a, ask |-> One - b]
  OBVIOUS
<1>5. l = snapshot_for(e, "YES")
  BY <1>1, <1>2, <1>3, <1>4 DEF snapshot_for, flip
<1>6. l \in Levels
  <2>1. One - a <= One - b
    BY <1>3 DEF One
  <2> QED
    BY <1>1, <1>2, <1>3, <1>4, <2>1 DEF Levels
<1>7. PICK mid : mid = mid_of(e)
  OBVIOUS
<1>8. mid \in Int /\ b <= mid /\ mid <= a
  <2>1. mid = (b + a) \div 2
    BY <1>2, <1>7 DEF mid_of
  <2> QED
    BY <1>3, <2>1
<1>9. Within(yes_mid(e), "YES", l) /\ (e.side = "YES" => Within(mid_of(e), "YES", l))
  <2>1. One - mid \in Int /\ One - a <= One - mid /\ One - mid <= One - b
    BY <1>3, <1>8 DEF One
  <2> QED
    BY <1>1, <1>4, <1>6, <1>7, <1>8, <2>1 DEF Within, yes_mid
<1>10. ASSUME NEW x \in {"YES", "NO"}
       PROVE  snapshot_for(e, x) = snapshot_for(with(l, "side", "YES"), x)
  <2>1. PICK w : w = with(l, "side", "YES")
    OBVIOUS
  <2>2. w.side = "YES" /\ w.bid = l.bid /\ w.ask = l.ask
    BY <1>4, <2>1 DEF with
  <2>3. One - (One - a) = a /\ One - (One - b) = b
    BY <1>3 DEF One
  <2> QED
    BY <1>1, <1>2, <1>3, <1>4, <2>1, <2>2, <2>3 DEF snapshot_for, flip
<1>11. shown(e) = [market EXCEPT ![e.market] = l]
  BY <1>1, <1>5 DEF shown
<1> QED
  BY <1>5, <1>6, <1>9, <1>10, <1>11

(* An event that shows nothing new leaves the market as it was.            *)
LEMMA NothingShown ==
    ASSUME NEW e, ~(e.kind \in {"quote", "book"} /\ two_sided(e))
    PROVE  shown(e) = market
BY DEF shown

(* The markets as they are known to have been.                             *)
Marketplace(mk) == mk \in [Markets -> Levels \cup {NoQuote}]

(* What an event shows keeps the markets what they are. *)
LEMMA MarketShown ==
    ASSUME Marketplace(market), NEW e, Shows(e)
    PROVE  Marketplace(shown(e))
<1>1. CASE e.kind \in {"quote", "book"} /\ two_sided(e)
  <2>1. PICK l : l = snapshot_for(e, "YES")
    OBVIOUS
  <2>2. l \in Levels /\ shown(e) = [market EXCEPT ![e.market] = l]
    BY <1>1, <2>1, LevelShown
  <2> QED
    BY <2>2 DEF Marketplace
<1>2. CASE ~(e.kind \in {"quote", "book"} /\ two_sided(e))
  BY <1>2, NothingShown
<1> QED
  BY <1>1, <1>2

(* What a plugin is made of, and a plugin whose mids are those of the      *)
(* market.                                                                 *)
Framed(t) ==
    /\ {"mid", "quote", "own", "ids"} \subseteq DOMAIN t
    /\ DOMAIN t.mid = Markets /\ DOMAIN t.quote = Markets

Mids(t, mk) ==
    /\ Framed(t)
    /\ \A m \in Markets : t.mid[m] # None => Within(t.mid[m], "YES", mk[m])

(* The quote and book branches of the plugins that cache mids.             *)
LEMMA MidCached ==
    ASSUME NEW t, Mids(t, market), Marketplace(market), NEW e, Shows(e)
    PROVE  /\ e.kind = "quote" => Mids(cache_mid(t, e), shown(e)) /\ Mids(cache_quote(t, e), shown(e))
           /\ e.kind = "book" => Mids(cache_book(t, e), shown(e))
           /\ e.kind \notin {"quote", "book"} => Mids(t, shown(e))
<1>1. CASE e.kind \in {"quote", "book"} /\ two_sided(e)
  <2>1. PICK l, p : l = snapshot_for(e, "YES") /\ p = yes_mid(e)
    OBVIOUS
  <2>2. /\ l \in Levels /\ shown(e) = [market EXCEPT ![e.market] = l]
        /\ Within(p, "YES", l) /\ (e.side = "YES" => Within(mid_of(e), "YES", l))
    BY <1>1, <2>1, LevelShown
  <2>3. e.market \in Markets /\ DOMAIN market = Markets /\ (e.kind = "book" => e.side = "YES")
    BY <1>1 DEF Shows, Marketplace
  <2>4. ASSUME NEW n, Within(n, "YES", l), NEW u, Framed(u), u.mid = [t.mid EXCEPT ![e.market] = n]
        PROVE  Mids(u, shown(e))
    BY <2>2, <2>3, <2>4 DEF Mids, Framed
  <2>5. PICK mid, v, w : mid = [t.mid EXCEPT ![e.market] = p] /\ v = [t EXCEPT !.mid = mid]
                         /\ w = [t EXCEPT !.mid = mid, !.quote[e.market] = e]
    OBVIOUS
  <2>6. Framed(v) /\ v.mid = mid /\ Framed(w) /\ w.mid = mid
    BY <2>5 DEF Mids, Framed
  <2>7. PICK y, z : y = [t.mid EXCEPT ![e.market] = mid_of(e)] /\ z = [t EXCEPT !.mid = y]
    OBVIOUS
  <2>8. Framed(z) /\ z.mid = y
    BY <2>7 DEF Mids, Framed
  <2>9. cache_mid(t, e) = v /\ cache_quote(t, e) = w /\ cache_book(t, e) = z
    BY <1>1, <2>1, <2>5, <2>7 DEF cache_mid, cache_quote, cache_book
  <2>10. Mids(v, shown(e)) /\ Mids(w, shown(e))
    BY <2>2, <2>4, <2>5, <2>6
  <2>11. e.kind = "book" => Mids(z, shown(e))
    BY <2>2, <2>3, <2>4, <2>7, <2>8
  <2> QED
    BY <1>1, <2>9, <2>10, <2>11
<1>2. CASE ~(e.kind \in {"quote", "book"} /\ two_sided(e))
  BY <1>2, NothingShown DEF cache_mid, cache_quote, cache_book
<1> QED
  BY <1>1, <1>2

(* A plugin's answer: mids of the market, and offers on it. *)
Answered(r, mk) == Mids(r.s, mk) /\ Offers(r.out, mk)

(* No decision leaves no market. *)
LEMMA QuietOnMarket ==
    ASSUME NEW t, NEW mk, Mids(t, mk) PROVE Answered(quiet(t), mk)
BY OffersFew DEF quiet, Answered

(* signal_edge, with any of the conditions the plugins set before it.      *)
LEMMA SignalAnswered ==
    ASSUME NEW t, NEW mk, Mids(t, mk), NEW e, e.market \in Markets \cup {None},
           NEW ready, NEW b
    PROVE  Answered(signal_edge(t, e, ready, b), mk)
<1>1. CASE e.market # None /\ has_edge(e.probability, t.mid[e.market])
  <2>1. e.market \in Markets /\ Within(t.mid[e.market], "YES", mk[e.market])
    BY <1>1 DEF has_edge, Mids
  <2>2. PICK d : d = edge_order(t, e.market, e.probability, b)
    OBVIOUS
  <2>3. OnMarket(d, mk)
    BY <2>1, <2>2, EdgeOrder
  <2>4. Answered(decide(t, <<d>>), mk)
    BY <2>3, OffersFew DEF decide, Answered
  <2> QED
    BY <2>2, <2>4, QuietOnMarket DEF signal_edge
<1>2. CASE ~(e.market # None /\ has_edge(e.probability, t.mid[e.market]))
  BY <1>2, QuietOnMarket DEF signal_edge
<1> QED
  BY <1>1, <1>2

-----------------------------------------------------------------------------
(* The plugins, one after the other. *)

(* A signal is for a market or for none. *)
Told(e) == Shows(e) /\ (e.kind = "signal" => e.market \in Markets \cup {None})

(* The plugins that wait for a signal.                                     *)
LEMMA SignalPlugins ==
    ASSUME NEW t, Mids(t, market), Marketplace(market), NEW e, Told(e), e.kind \in {"quote", "signal"}
    PROVE  /\ Answered(external_edge(t, e), shown(e))
           /\ Answered(flu_hospitalization_surge(t, e), shown(e))
           /\ Answered(crop_drought_yield_reversion(t, e), shown(e))
           /\ Answered(tariff_headline_gap_fader(t, e), shown(e))
           /\ Answered(shipping_chokepoint_delay(t, e), shown(e))
           /\ Answered(wildfire_smoke_event_cancel(t, e), shown(e))
           /\ Answered(earnings_guidance_language(t, e), shown(e))
           /\ Answered(court_docket_timing(t, e), shown(e))
           /\ Answered(spaceweather_grid_disruption(t, e), shown(e))
           /\ Answered(entertainment_box_office(t, e), shown(e))
<1> USE DEF external_edge, flu_hospitalization_surge, crop_drought_yield_reversion,
            tariff_headline_gap_fader, shipping_chokepoint_delay, wildfire_smoke_event_cancel,
            earnings_guidance_language, court_docket_timing, spaceweather_grid_disruption
<1>1. CASE e.kind = "quote"
  <2>1. Answered(quiet(cache_quote(t, e)), shown(e)) /\ Answered(quiet(cache_mid(t, e)), shown(e))
    BY <1>1, MidCached, QuietOnMarket DEF Told
  <2> QED
    BY <1>1, <2>1 DEF entertainment_box_office
<1>2. CASE e.kind = "signal"
  <2>1. Mids(t, shown(e)) /\ e.market \in Markets \cup {None}
    BY <1>2, MidCached DEF Told
  <2>2. \A ready, b : Answered(signal_edge(t, e, ready, b), shown(e))
    BY <2>1, SignalAnswered
  <2>3. Answered(entertainment_box_office(t, e), shown(e))
    <3>1. PICK x : x = [e EXCEPT !.probability = gross_to_prob(e.probability)]
      OBVIOUS
    <3>2. x.market = e.market
      BY <3>1
    <3>3. \A ready, b : Answered(signal_edge(t, x, ready, b), shown(e))
      BY <2>1, <3>2, SignalAnswered
    <3> QED
      BY <1>2, <2>1, <3>1, <3>3, QuietOnMarket DEF entertainment_box_office
  <2> QED
    BY <1>2, <2>2, <2>3
<1> QED
  BY <1>1, <1>2

(* The two that also read books.                                           *)
LEMMA BookPlugins ==
    ASSUME NEW t, Mids(t, market), Marketplace(market), NEW e, Told(e),
           e.kind \in {"quote", "book", "signal"}
    PROVE  /\ Answered(energy_storage_weather_spread(t, e), shown(e))
           /\ Answered(liquidity_tail_risk_insurance(t, e), shown(e))
<1>1. CASE e.kind = "quote"
  BY <1>1, MidCached, QuietOnMarket
  DEF Told, energy_storage_weather_spread, liquidity_tail_risk_insurance
<1>2. CASE e.kind = "book"
  <2>1. PICK u : u = cache_book(t, e)
    OBVIOUS
  <2>2. Mids(u, shown(e))
    BY <1>2, <2>1, MidCached DEF Told
  <2>3. Mids([u EXCEPT !.own[e.market] = e.depth], shown(e))
    BY <2>2 DEF Mids, Framed
  <2> QED
    BY <1>2, <2>1, <2>2, <2>3, QuietOnMarket DEF energy_storage_weather_spread, liquidity_tail_risk_insurance
<1>3. CASE e.kind = "signal"
  <2>1. Mids(t, shown(e)) /\ e.market \in Markets \cup {None}
    BY <1>3, MidCached DEF Told
  <2>2. \A ready, b : Answered(signal_edge(t, e, ready, b), shown(e))
    BY <2>1, SignalAnswered
  <2> QED
    BY <1>3, <2>2 DEF energy_storage_weather_spread, liquidity_tail_risk_insurance
<1> QED
  BY <1>1, <1>2, <1>3

(* The ladder lists each market once.                                      *)
LEMMA LadderListed == Enumerates(Ladder, Cardinality(Markets), Markets)
<1>1. PICK n : n = Cardinality(Markets)
  OBVIOUS
<1>2. IsFiniteSet(Markets) /\ n \in Nat
  BY <1>1, SignalAssumption, FS_CardinalityType
<1>3. \E f : f \in Bijection(1 .. n, Markets)
  BY <1>1, <1>2, FS_CardinalityType DEF ExistsBijection
<1>4. \E f : f \in [1 .. n -> Markets] /\ IsInjective(f)
  BY <1>3 DEF Bijection, Injection, IsInjective
<1>5. Ladder \in [1 .. n -> Markets] /\ IsInjective(Ladder)
  BY <1>1, <1>4 DEF Ladder, SetToSeq
<1>6. Ladder \in Injection(1 .. n, Markets)
  BY <1>5 DEF Injection, IsInjective
<1>7. IsFiniteSet(1 .. n) /\ Cardinality(1 .. n) = n
  BY <1>2, FS_Interval
<1>8. Ladder \in Surjection(1 .. n, Markets)
  BY <1>1, <1>2, <1>6, <1>7, FS_Injection
<1>9. /\ \A i, j \in 1 .. n : Ladder[i] = Ladder[j] => i = j
      /\ \A x \in Markets : \E i \in 1 .. n : Ladder[i] = x
  BY Zenon, <1>5, <1>8 DEF Surjection, IsInjective
<1> QED
  BY <1>1, <1>2, <1>5, <1>9 DEF Enumerates

(* _rank by edge, with ties in ladder order: only markets that clear the   *)
(* edge are bought, so only markets with a mid.                            *)
LEMMA StrongestOnMarket ==
    ASSUME NEW t, NEW mk, Mids(t, mk), NEW implied, \A m \in Markets : implied[m] \in Int, NEW b
    PROVE  Offers(strongest(t, implied, b), mk)
<1> DEFINE clear == {k \in DOMAIN Ladder : has_edge(implied[Ladder[k]], t.mid[Ladder[k]])}
           edge(k) == Abs(implied[Ladder[k]] - t.mid[Ladder[k]])
           before == [k \in clear |-> {j \in clear : edge(j) > edge(k) \/ (edge(j) = edge(k) /\ j < k)}]
           sorted == by_rank(clear, before)
           few == Min({Cardinality(clear), MaxOrders})
           order(k) == edge_order(t, Ladder[sorted[k]], implied[Ladder[sorted[k]]], b)
           q == [k \in 1 .. few |-> order(k)]
<1>1. PICK n \in Nat : DOMAIN Ladder = 1 .. n /\ \A k \in 1 .. n : Ladder[k] \in Markets
  BY LadderListed DEF Enumerates
<1>2. clear \subseteq 1 .. n /\ IsFiniteSet(clear) /\ Cardinality(clear) \in Nat
  <2>1. IsFiniteSet(1 .. n)
    BY FS_Interval
  <2> QED
    BY <1>1, <2>1, FS_Subset, FS_CardinalityType
<1>3. \A k \in clear : /\ Ladder[k] \in Markets
                       /\ Within(t.mid[Ladder[k]], "YES", mk[Ladder[k]])
                       /\ edge(k) \in Int
  <2> SUFFICES ASSUME NEW k \in clear
               PROVE  /\ Ladder[k] \in Markets
                      /\ Within(t.mid[Ladder[k]], "YES", mk[Ladder[k]])
                      /\ edge(k) \in Int
    OBVIOUS
  <2>1. Ladder[k] \in Markets /\ t.mid[Ladder[k]] # None
    BY <1>1 DEF has_edge
  <2>2. Within(t.mid[Ladder[k]], "YES", mk[Ladder[k]])
    BY <2>1 DEF Mids
  <2>3. implied[Ladder[k]] - t.mid[Ladder[k]] \in Int
    BY <2>1, <2>2 DEF Within
  <2> QED
    BY <2>1, <2>2, <2>3 DEF Abs
<1>4. Line(before, clear)
  <2>1. PICK f : f = [k \in clear |-> edge(k)]
    OBVIOUS
  <2>2. \A k \in clear : f[k] \in Int /\ k \in Int
    BY <1>2, <1>3, <2>1
  <2>3. PICK S, B : S = clear /\ B = before
    OBVIOUS
  <2>4. B = [k \in S |-> {j \in S : f[j] > f[k] \/ (f[j] = f[k] /\ j < k)}]
    BY <2>1, <2>3
  <2>5. \A k \in S : f[k] \in Int /\ k \in Int
    BY <2>2, <2>3
  <2>6. Line(B, S)
    BY ONLY <2>4, <2>5 DEF Line
  <2> QED
    BY <2>3, <2>6
<1> HIDE DEF before, clear
<1>5. Enumerates(sorted, Cardinality(clear), clear)
  BY <1>2, <1>4, ByRank
<1> HIDE DEF sorted
<1>6. few \in Nat /\ few <= Cardinality(clear)
  <2>1. PICK x, y : x = Cardinality(clear) /\ y = MaxOrders
    OBVIOUS
  <2>2. x \in Nat /\ y \in Nat
    BY <1>2, <2>1, SignalAssumption
  <2>3. Min({x, y}) \in Nat /\ Min({x, y}) <= x
    BY <2>2, OfTwo
  <2> QED
    BY <2>1, <2>3
<1> HIDE DEF few
<1>7. \A k \in 1 .. few : sorted[k] \in clear
  BY <1>2, <1>5, <1>6 DEF Enumerates
<1>8. \A k \in 1 .. few : OnMarket(order(k), mk)
  BY <1>3, <1>7, EdgeOrder
<1> HIDE DEF order
<1>9. Offers(q, mk)
  BY <1>6, <1>8, OffersMade
<1> QED
  BY Zenon, <1>9 DEF strongest, q, order, few, sorted, before, clear, edge

(* Quotes and a distribution over the ladder. *)
LEMMA LadderCdf ==
    ASSUME NEW t, Mids(t, market), Marketplace(market), NEW e, Told(e),
           e.kind = "distribution" => \A m \in Markets : e.implied[m] \in Int
    PROVE  e.kind \in {"quote", "distribution"} => Answered(ladder_cdf(t, e), shown(e))
<1>1. CASE e.kind = "quote"
  BY <1>1, MidCached, QuietOnMarket DEF Told, ladder_cdf
<1>2. CASE e.kind = "distribution"
  <2>1. Mids(t, shown(e))
    BY <1>2, MidCached DEF Told
  <2>2. Offers(strongest(t, e.implied, TRUE), shown(e))
    BY <1>2, <2>1, StrongestOnMarket
  <2> QED
    BY <1>2, <2>1, <2>2 DEF ladder_cdf, decide, Answered
<1> QED
  BY <1>1, <1>2

(* The plugins that order at the ask of a quote they keep. *)

(* The quote q is what the market shows.                                   *)
Agrees(q, l) ==
    /\ l \in Levels
    /\ \A x \in {"YES", "NO"} : snapshot_for(q, x) = snapshot_for(with(l, "side", "YES"), x)

Quotes(t, mk) ==
    /\ Framed(t)
    /\ \A m \in Markets : t.mid[m] # None => Agrees(t.quote[m], mk[m])

(* The ask of either side is a price of that side.                         *)
LEMMA AskOnMarket ==
    ASSUME NEW q, NEW l, Agrees(q, l), NEW x \in {"YES", "NO"}
    PROVE  /\ Within(snapshot_for(q, x).ask, x, l)
           /\ snapshot_for(q, "YES").ask = l.ask
<1>1. l \in Levels /\ l.bid \in Whole /\ l.ask \in Whole /\ l.bid <= l.ask
  BY DEF Agrees, Levels
<1>2. l.bid \in Int /\ l.ask \in Int /\ l.bid # None /\ l.ask # None
  BY <1>1, WholePrices
<1>3. PICK w : w = with(l, "side", "YES")
  OBVIOUS
<1>4. w.side = "YES" /\ w.bid = l.bid /\ w.ask = l.ask
  BY <1>1, <1>3 DEF with, Levels
<1>5. /\ snapshot_for(w, "YES").ask = l.ask
      /\ snapshot_for(w, "NO").ask = One - l.bid
  BY <1>2, <1>4 DEF snapshot_for, flip
<1>6. snapshot_for(q, x) = snapshot_for(w, x) /\ snapshot_for(q, "YES") = snapshot_for(w, "YES")
  BY <1>3 DEF Agrees
<1>7. Within(l.ask, "YES", l) /\ Within(One - l.bid, "NO", l)
  BY <1>1, <1>2 DEF Within, One
<1> QED
  BY <1>5, <1>6, <1>7

(* cache_any_mid keeps the quote whichever side it is for. *)
LEMMA QuoteKept ==
    ASSUME NEW t, Quotes(t, market), Marketplace(market), NEW e, Shows(e)
    PROVE  /\ e.kind = "quote" => Quotes(cache_any_mid(t, e), shown(e))
           /\ e.kind \notin {"quote", "book"} => Quotes(t, shown(e))
<1>1. CASE e.kind = "quote" /\ two_sided(e)
  <2>1. PICK l : l = snapshot_for(e, "YES")
    OBVIOUS
  <2>2. Agrees(e, l) /\ shown(e) = [market EXCEPT ![e.market] = l] /\ e.market \in Markets
    BY <1>1, <2>1, LevelShown DEF Agrees, Shows
  <2>3. PICK u : u = cache_any_mid(t, e)
    OBVIOUS
  <2>4. /\ Framed(u) /\ u.quote = [t.quote EXCEPT ![e.market] = e]
        /\ u.mid = [t.mid EXCEPT ![e.market] = mid_of(e)]
    BY <1>1, <2>3 DEF cache_any_mid, Quotes, Framed
  <2>5. \A m \in Markets : m # e.market => u.mid[m] = t.mid[m] /\ u.quote[m] = t.quote[m]
                                           /\ shown(e)[m] = market[m]
    BY <2>2, <2>4
  <2>6. u.quote[e.market] = e /\ shown(e)[e.market] = l
    BY <2>2, <2>4 DEF Quotes, Framed, Marketplace
  <2>7. Quotes(u, shown(e))
    BY <2>2, <2>4, <2>5, <2>6 DEF Quotes
  <2> QED
    BY <1>1, <2>3, <2>7
<1>2. CASE ~(e.kind = "quote" /\ two_sided(e))
  BY <1>2, NothingShown DEF cache_any_mid
<1> QED
  BY <1>1, <1>2

(* One order per hole, at the ask. *)
LEMMA HolePlugin ==
    ASSUME NEW t, Quotes(t, market), Marketplace(market), NEW e, Told(e), e.kind \in {"quote", "signal"}
    PROVE  LET r == sports_hole_by_hole_pin(t, e)
           IN  Quotes(r.s, shown(e)) /\ Offers(r.out, shown(e))
<1>1. CASE e.kind = "quote"
  BY <1>1, QuoteKept, OffersFew DEF Told, sports_hole_by_hole_pin, quiet
<1>2. CASE e.kind = "signal"
  <2>1. Quotes(t, shown(e)) /\ e.market \in Markets \cup {None}
    BY <1>2, QuoteKept DEF Told
  <2>a. PICK g : g = place(e.market, "YES", snapshot_for(t.quote[e.market], "YES").ask, Size, "IOC", TRUE)
    OBVIOUS
  <2>2. PICK d : d = with(g, "fire_key", fire_key(e))
    OBVIOUS
  <2>b. /\ DOMAIN d = DOMAIN g \cup {"fire_key"}
        /\ \A x \in DOMAIN g : x # "fire_key" => d[x] = g[x]
    BY <2>2 DEF with
  <2>3. sports_hole_by_hole_pin(t, e) \in {emit(t, d), quiet(t)}
    BY <1>2, <2>a, <2>2 DEF sports_hole_by_hole_pin
  <2>4. Quotes(quiet(t).s, shown(e)) /\ Offers(quiet(t).out, shown(e))
    BY <2>1, OffersFew DEF quiet
  <2>5. ASSUME e.market # None, t.mid[e.market] # None
        PROVE  Quotes(emit(t, d).s, shown(e)) /\ Offers(emit(t, d).out, shown(e))
    <3>1. e.market \in Markets /\ Agrees(t.quote[e.market], shown(e)[e.market])
      BY <2>1, <2>5 DEF Quotes
    <3>2. /\ g.do = "place" /\ g.market = e.market /\ g.side = "YES"
          /\ Within(g.price, "YES", shown(e)[e.market])
          /\ {"do", "market", "side", "price"} \subseteq DOMAIN g
      BY <2>a, <3>1, AskOnMarket DEF place
    <3>5. /\ {"do", "market", "side", "price"} \subseteq DOMAIN d
          /\ d.do = g.do /\ d.market = g.market /\ d.side = g.side /\ d.price = g.price
      BY <2>b, <3>2
    <3>3. OnMarket(with_id(d, t.ids + 1), shown(e))
      BY <3>1, <3>2, <3>5 DEF OnMarket, with_id, with
    <3>4. Quotes([t EXCEPT !.ids = @ + 1], shown(e))
      BY <2>1 DEF Quotes, Framed
    <3> QED
      BY <3>3, <3>4, OffersFew DEF emit
  <2>6. e.market = None \/ t.mid[e.market] = None => sports_hole_by_hole_pin(t, e) = quiet(t)
    BY <1>2 DEF sports_hole_by_hole_pin
  <2> QED
    BY <2>3, <2>4, <2>5, <2>6
<1> QED
  BY <1>1, <1>2

(* The settlement of one state buys the other, the only one whose quotes   *)
(* are kept, at the ask of its side.                                       *)
Second(t, mk) == Quotes(t, mk) /\ \A m \in Markets \ {Ladder[2]} : t.mid[m] = None

(* Quotes of the second state and the settlement of the first. *)
LEMMA PrimaryPlugin ==
    ASSUME NEW t, Second(t, market), Marketplace(market), NEW e, Shows(e),
           e.kind \in {"quote", "settlement"}, Ladder[2] \in Markets
    PROVE  LET r == politics_primary_momentum(t, e)
           IN  Second(r.s, shown(e)) /\ Offers(r.out, shown(e))
<1>1. CASE e.kind = "settlement"
  <2>1. Quotes(t, shown(e))
    BY <1>1, QuoteKept DEF Second
  <2>2. PICK b, p, x : /\ b = Ladder[2]
                       /\ p = (IF e.resolved = "YES" THEN (3 * One) \div 4 ELSE One \div 4)
                       /\ x = (IF p > t.mid[b] THEN "YES" ELSE "NO")
    OBVIOUS
  <2>3. PICK d : d = place(b, x, snapshot_for(t.quote[b], x).ask, Size, "IOC", TRUE)
    OBVIOUS
  <2>4. politics_primary_momentum(t, e) \in {decide(t, <<d>>), quiet(t)}
    BY <1>1, <2>2, <2>3 DEF politics_primary_momentum
  <2>5. t.mid[b] = None => politics_primary_momentum(t, e) = quiet(t)
    BY <1>1, <2>2 DEF politics_primary_momentum, has_edge
  <2>6. ASSUME t.mid[b] # None PROVE OnMarket(d, shown(e))
    <3>1. Agrees(t.quote[b], shown(e)[b]) /\ b \in Markets
      BY <2>1, <2>2, <2>6 DEF Quotes
    <3> QED
      BY <2>2, <2>3, <3>1, AskOnMarket DEF OnMarket, place
  <2> QED
    BY <2>1, <2>4, <2>5, <2>6, OffersFew DEF decide, quiet, Second
<1>2. CASE e.kind = "quote" /\ e.market = Ladder[2]
  <2>1. PICK u : u = cache_any_mid(t, e)
    OBVIOUS
  <2>2. Quotes(u, shown(e))
    BY <1>2, <2>1, QuoteKept DEF Second
  <2>3. \A m \in Markets \ {Ladder[2]} : u.mid[m] = None
    BY <1>2, <2>1 DEF Second, Quotes, Framed, cache_any_mid
  <2>4. politics_primary_momentum(t, e) = quiet(u)
    BY <1>2, <2>1 DEF politics_primary_momentum
  <2> QED
    BY <2>2, <2>3, <2>4, OffersFew DEF Second, quiet
<1>3. CASE e.kind = "quote" /\ e.market # Ladder[2]
  <2>1. politics_primary_momentum(t, e) = quiet(t)
    BY <1>3 DEF politics_primary_momentum
  <2>2. shown(e) = market \/ \E l : l \in Levels /\ shown(e) = [market EXCEPT ![e.market] = l]
    BY <1>3, LevelShown, NothingShown
  <2>3. Quotes(t, shown(e))
    <3>1. \A m \in Markets : t.mid[m] # None => m = Ladder[2] /\ shown(e)[m] = market[m]
      BY <1>3, <2>2 DEF Second, Marketplace
    <3> QED
      BY <3>1 DEF Second, Quotes
  <2> QED
    BY <2>1, <2>3, OffersFew DEF Second, quiet
<1> QED
  BY <1>1, <1>2, <1>3

(* The order-book scalper buys at the ask of the book it was just shown.   *)
LEMMA ScalperPlugin ==
    ASSUME NEW t, NEW e, Shows(e), e.kind = "book", Marketplace(market)
    PROVE  Offers(microstructure_obi_scalper(t, e).out, shown(e))
<1>1. CASE ~two_sided(e)
  BY <1>1, OffersFew DEF microstructure_obi_scalper, quiet
<1>2. CASE two_sided(e)
  <2>1. PICK l : l = snapshot_for(e, "YES")
    OBVIOUS
  <2>2. Agrees(e, l) /\ shown(e) = [market EXCEPT ![e.market] = l] /\ e.market \in Markets
    BY <1>2, <2>1, LevelShown DEF Agrees, Shows
  <2>3. shown(e)[e.market] = l /\ e.side = "YES"
    BY <2>2 DEF Marketplace, Shows
  <2>4. Within(e.ask, "YES", l)
    <3>1. Within(snapshot_for(e, "YES").ask, "YES", l)
      BY <2>2, AskOnMarket
    <3> QED
      BY <2>3, <3>1 DEF snapshot_for
  <2>5. PICK d, c : /\ d = place(e.market, "YES", e.ask, Size, "IOC", FALSE)
                    /\ c = [do |-> "cancel", id |-> t.own.open[e.market]]
    OBVIOUS
  <2>6. microstructure_obi_scalper(t, e).out \in {emit(t, d).out, decide(t, <<c>>).out, quiet(t).out}
    BY <1>2, <2>5 DEF microstructure_obi_scalper
  <2>7. OnMarket(with_id(d, t.ids + 1), shown(e))
    BY <2>2, <2>3, <2>4, <2>5 DEF OnMarket, place, with_id, with
  <2>8. OnMarket(c, shown(e))
    BY <2>5 DEF OnMarket
  <2> QED
    BY <2>6, <2>7, <2>8, OffersFew DEF emit, decide, quiet
<1> QED
  BY <1>1, <1>2

-----------------------------------------------------------------------------
(* The no-arbitrage scanner: what its legs cost, fees included.            *)

Costs(q) == [k \in DOMAIN q |-> q[k].price + contract_fee(q[k].price)]

(* What is still to be judged leaves the edge.                             *)
Locked(q) ==
    /\ \E S : q \in Seq(S) /\ \A d \in S : d.price \in 0 .. One
    /\ q # <<>> => sum(Costs(q)) <= One - MinEdge

(* _fee is not negative. *)
LEMMA FeeType ==
    ASSUME NEW p \in 0 .. One PROVE contract_fee(p) \in Nat
<1>1. PICK a, b : a = 7 * p /\ b = One - p
  OBVIOUS
<1>2. a \in Nat /\ b \in Nat
  BY <1>1 DEF One
<1>3. PICK c : c = a * b
  OBVIOUS
<1>4. c \in Nat
  BY <1>2, <1>3
<1>5. (c + 39999) \div 40000 \in Nat
  BY <1>4
<1>6. contract_fee(p) = 2 * ((c + 39999) \div 40000)
  BY <1>1, <1>3 DEF contract_fee, One, Tick
<1> QED
  BY <1>5, <1>6

(* A leg that is judged leaves less to pay.                                *)
LEMMA LessLocked ==
    ASSUME NEW q, Locked(q), q # <<>>
    PROVE  Locked(Tail(q))
<1>1. PICK S : q \in Seq(S) /\ \A d \in S : d.price \in 0 .. One
  BY DEF Locked
<1>2. PICK n \in Nat : n = Len(q) /\ DOMAIN q = 1 .. n /\ n > 0 /\ \A k \in 1 .. n : q[k] \in S
  BY <1>1
<1>3. PICK h : h = Costs(q)
  OBVIOUS
<1>4. /\ DOMAIN h = 1 .. n /\ h = [k \in 1 .. n |-> h[k]]
      /\ \A k \in 1 .. n : h[k] = q[k].price + contract_fee(q[k].price) /\ h[k] \in Nat
  <2>1. \A k \in 1 .. n : q[k].price \in 0 .. One /\ contract_fee(q[k].price) \in Nat
    BY <1>1, <1>2, FeeType
  <2>2. h = [k \in 1 .. n |-> q[k].price + contract_fee(q[k].price)]
    BY <1>2, <1>3 DEF Costs
  <2>3. ASSUME NEW k \in 1 .. n PROVE q[k].price + contract_fee(q[k].price) \in Nat
    <3>1. q[k].price \in 0 .. One /\ contract_fee(q[k].price) \in Nat
      BY <2>1
    <3>2. \A x, y : x \in 0 .. One /\ y \in Nat => x + y \in Nat
      BY DEF One
    <3> QED
      BY <3>1, <3>2
  <2> QED
    BY <2>2, <2>3
<1>5. h \in Seq(Int) /\ h # <<>> /\ Len(h) = n
  BY <1>2, <1>4
<1>6. PICK u, g : u = Tail(q) /\ g = Tail(h)
  OBVIOUS
<1>7. /\ u \in Seq(S) /\ DOMAIN u = 1 .. n - 1 /\ \A k \in 1 .. n - 1 : u[k] = q[k + 1]
  BY <1>1, <1>2, <1>6
<1>8. g \in Seq(Int) /\ DOMAIN g = 1 .. n - 1 /\ \A k \in 1 .. n - 1 : g[k] = h[k + 1]
  BY <1>2, <1>5, <1>6
<1>9. \A k \in 1 .. n - 1 : u[k].price + contract_fee(u[k].price) = g[k]
  <2> SUFFICES ASSUME NEW k \in 1 .. n - 1 PROVE u[k].price + contract_fee(u[k].price) = g[k]
    OBVIOUS
  <2>1. k + 1 \in 1 .. n
    BY <1>2
  <2>2. u[k] = q[k + 1] /\ g[k] = h[k + 1]
    BY <1>7, <1>8
  <2>3. h[k + 1] = q[k + 1].price + contract_fee(q[k + 1].price)
    BY <1>4, <2>1
  <2> QED
    BY <2>2, <2>3
<1>10. g = Costs(u)
  <2>1. g = [k \in 1 .. n - 1 |-> g[k]]
    BY <1>8
  <2>2. Costs(u) = [k \in 1 .. n - 1 |-> u[k].price + contract_fee(u[k].price)]
    BY <1>7 DEF Costs
  <2> QED
    BY <1>9, <2>1, <2>2
<1>11. sum(h) = Head(h) + sum(g) /\ sum(g) \in Int
  BY <1>5, <1>6, <1>8, SumOfList
<1>12. Head(h) \in Nat
  BY <1>2, <1>4, <1>5
<1>13. sum(h) <= One - MinEdge
  BY <1>3 DEF Locked
<1>14. sum(g) <= One - MinEdge
  BY <1>11, <1>12, <1>13, SignalAssumption DEF One
<1> QED
  BY <1>1, <1>6, <1>7, <1>10, <1>14 DEF Locked

(* The books the scanner keeps: a two-sided one is what the market shows.  *)
Looked(t, mk) ==
    /\ Framed(t)
    /\ \A m \in Markets : t.quote[m] # NoQuote /\ two_sided(t.quote[m]) => Agrees(t.quote[m], mk[m])

(* The scanner keeps every quote, a one-sided one too, which shows nothing. *)
LEMMA ScannerLooks ==
    ASSUME NEW t, Looked(t, market), Marketplace(market), NEW e, Shows(e), e.kind = "quote",
           NEW u, Framed(u), u.quote = [t.quote EXCEPT ![e.market] = e]
    PROVE  Looked(u, shown(e))
<1>1. e.market \in Markets
  BY DEF Shows
<1>2. \A m \in Markets : m # e.market => u.quote[m] = t.quote[m]
  BY DEF Looked, Framed
<1>3. u.quote[e.market] = e
  BY <1>1 DEF Looked, Framed
<1>4. CASE two_sided(e)
  <2>1. PICK l : l = snapshot_for(e, "YES")
    OBVIOUS
  <2>2. Agrees(e, l) /\ shown(e) = [market EXCEPT ![e.market] = l]
    BY <1>4, <2>1, LevelShown DEF Agrees
  <2>3. shown(e)[e.market] = l /\ \A m \in Markets : m # e.market => shown(e)[m] = market[m]
    BY <1>1, <2>2 DEF Marketplace
  <2> QED
    BY <1>2, <1>3, <2>2, <2>3 DEF Looked
<1>5. CASE ~two_sided(e)
  <2>1. shown(e) = market
    BY <1>5, NothingShown
  <2> QED
    BY <1>2, <1>3, <1>5, <2>1 DEF Looked
<1> QED
  BY <1>4, <1>5

(* One leg for each bracket of the ladder, when all of them together leave *)
(* the edge.                                                               *)
LEMMA ScannerPlugin ==
    ASSUME NEW t, Looked(t, market), Marketplace(market), NEW e, Shows(e), e.kind = "quote"
    PROVE  LET r == kalshi_noarb_scanner(t, e)
           IN  /\ Looked(r.s, shown(e))
               /\ \/ r.out = <<>>
                  \/ \E n \in Nat : /\ r.out = [k \in 1 .. n |-> r.out[k]]
                                    /\ \A k \in 1 .. n : /\ OnMarket(r.out[k], shown(e))
                                                         /\ r.out[k].do = "place"
                                                         /\ r.out[k].price \in 0 .. One
                                    /\ sum(Costs(r.out)) <= One - MinEdge
<1> DEFINE u == [t EXCEPT !.quote[e.market] = e, !.own[e.market] = e.at]
           size == Min({Size} \cup {yes_ask_quantity(u.quote[m]) : m \in Markets})
           ask(m) == snapshot_for(u.quote[m], "YES").ask
           leg(m) == place(m, "YES", clamp_price(ask(m)), size, "IOC", TRUE)
           r == kalshi_noarb_scanner(t, e)
<1>1. Framed(u) /\ u.quote = [t.quote EXCEPT ![e.market] = e]
  BY DEF Looked, Framed
<1> HIDE DEF u
<1>2. Looked(u, shown(e))
  BY <1>1, ScannerLooks
<1>3. r = IF fresh_markets(u, e.at) = Markets /\ lock_edge(u) >= MinEdge
          THEN decide(u, [k \in DOMAIN Ladder |-> leg(Ladder[k])]) ELSE quiet(u)
  BY DEF kalshi_noarb_scanner, u
<1>4. CASE ~(fresh_markets(u, e.at) = Markets /\ lock_edge(u) >= MinEdge)
  <2>1. r = quiet(u)
    BY <1>3, <1>4
  <2> QED
    BY <1>2, <2>1 DEF quiet
<1>5. CASE fresh_markets(u, e.at) = Markets /\ lock_edge(u) >= MinEdge
  <2>1. PICK n : n = Cardinality(Markets) /\ Enumerates(Ladder, n, Markets)
    BY LadderListed
  <2>2. n \in Nat /\ DOMAIN Ladder = 1 .. n /\ \A k \in 1 .. n : Ladder[k] \in Markets
    BY <2>1 DEF Enumerates
  <2>3. PICK w : w = [m \in Markets |-> ask(m) + contract_fee(ask(m))]
    OBVIOUS
  <2>4. ASSUME NEW m \in Markets
        PROVE  /\ OnMarket(leg(m), shown(e)) /\ leg(m).do = "place"
               /\ leg(m).price = ask(m) /\ ask(m) \in 0 .. One /\ w[m] \in Int
    <3>1. Agrees(u.quote[m], shown(e)[m])
      BY <1>2, <1>5 DEF fresh_markets, Looked
    <3>2. Within(ask(m), "YES", shown(e)[m]) /\ ask(m) = shown(e)[m].ask
      BY <3>1, AskOnMarket
    <3>3. ask(m) \in Whole
      BY <3>1, <3>2 DEF Agrees, Levels
    <3> HIDE DEF ask
    <3>4. ask(m) \in Int /\ Tick <= ask(m) /\ ask(m) <= One - Tick
      BY <3>3, WholePrices
    <3>5. clamp_price(ask(m)) = ask(m) /\ ask(m) \in 0 .. One
      BY <3>4, Clamped DEF Tick, One
    <3>6. contract_fee(ask(m)) \in Nat
      BY <3>5, FeeType
    <3>7. w[m] = ask(m) + contract_fee(ask(m))
      BY <2>3
    <3> QED
      BY <3>2, <3>4, <3>5, <3>6, <3>7 DEF OnMarket, place
  <2>5. PICK q : q = [k \in 1 .. n |-> leg(Ladder[k])]
    OBVIOUS
  <2>6. r = decide(u, q)
    BY <1>3, <1>5, <2>2, <2>5
  <2> HIDE DEF leg, ask
  <2>7. \A k \in 1 .. n : /\ OnMarket(q[k], shown(e)) /\ q[k].do = "place" /\ q[k].price \in 0 .. One
                          /\ q[k].price + contract_fee(q[k].price) = w[Ladder[k]]
    BY <2>2, <2>3, <2>4, <2>5
  <2>8. SumOver(w, Markets) <= One - MinEdge
    <3>1. lock_edge(u) = One - SumOver(w, Markets)
      BY <2>3 DEF lock_edge, ask
    <3>2. SumOver(w, Markets) \in Int
      BY <2>4, SumType, SignalAssumption
    <3> QED
      BY <1>5, <3>1, <3>2, SignalAssumption DEF One
  <2>9. sum(Costs(q)) = SumOver(w, Markets)
    <3>1. PICK v : v = Costs(q)
      OBVIOUS
    <3>2. DOMAIN v = 1 .. n /\ \A k \in 1 .. n : v[k] = w[Ladder[k]]
      BY <2>5, <2>7, <3>1 DEF Costs
    <3>3. PICK L, K : L = Ladder /\ K = Markets
      OBVIOUS
    <3>4. /\ Enumerates(L, n, K) /\ \A k \in K : w[k] \in Int
          /\ \A k \in 1 .. n : v[k] = w[L[k]]
      BY <2>1, <2>4, <3>2, <3>3
    <3>5. SumOver(v, 1 .. n) = SumOver(w, K)
      BY ONLY <3>4, SumReindexed
    <3> QED
      BY <3>1, <3>2, <3>3, <3>5 DEF sum
  <2>10. q = [k \in 1 .. n |-> q[k]]
    BY <2>5
  <2>11. r.s = u /\ r.out = q
    BY <2>6 DEF decide
  <2> QED
    BY <1>2, <2>2, <2>7, <2>8, <2>9, <2>10, <2>11
<1> QED
  BY <1>4, <1>5

-----------------------------------------------------------------------------
(* The events of a run. *)

(* A quote, a book, and either with a field more. *)
LEMMA QuoteShows ==
    ASSUME VenueQuotes, NEW e \in quotes
    PROVE  /\ Shows(e) /\ e.kind = "quote"
           /\ DOMAIN e = {"kind", "market", "side", "bid", "ask"}
<1>1. PICK m \in Markets, x \in {"YES", "NO"}, p \in QuotePrices :
          e = [kind |-> "quote", market |-> m, side |-> x, bid |-> p[1], ask |-> p[2]]
  BY DEF quotes
<1>2. p[1] \in Whole \cup {None} /\ p[2] \in Whole \cup {None}
  BY DEF VenueQuotes
<1>3. p[1] # None /\ p[2] # None => p[1] <= p[2]
  BY DEF VenueQuotes
<1>4. /\ e.kind = "quote" /\ e.market = m /\ e.side = x /\ e.bid = p[1] /\ e.ask = p[2]
      /\ DOMAIN e = {"kind", "market", "side", "bid", "ask"}
  BY <1>1
<1> QED
  BY <1>2, <1>3, <1>4 DEF Shows

(* A book of YES levels. *)
LEMMA BookShows ==
    ASSUME VenueQuotes, NEW e \in books
    PROVE  /\ Shows(e) /\ e.kind = "book"
           /\ DOMAIN e = {"kind", "market", "side", "bid", "ask"}
<1>1. PICK q \in quotes : q.side = "YES" /\ e = [q EXCEPT !.kind = "book"]
  BY DEF books
<1>2. /\ Shows(q) /\ q.kind = "quote" /\ DOMAIN q = {"kind", "market", "side", "bid", "ask"}
  BY QuoteShows
<1>3. /\ e.kind = "book" /\ e.market = q.market /\ e.side = "YES" /\ e.bid = q.bid /\ e.ask = q.ask
      /\ DOMAIN e = {"kind", "market", "side", "bid", "ask"}
  BY <1>1, <1>2
<1> QED
  BY <1>1, <1>2, <1>3 DEF Shows

(* A field more changes no price. *)
LEMMA WithShows ==
    ASSUME NEW e, Shows(e), e.kind \in {"quote", "book"}, NEW v,
           NEW k, k \notin {"kind", "market", "side", "bid", "ask"}
    PROVE  Shows(with(e, k, v)) /\ with(e, k, v).kind = e.kind
<1>1. PICK u : u = with(e, k, v)
  OBVIOUS
<1>2. u = [x \in DOMAIN e \cup {k} |-> IF x = k THEN v ELSE e[x]]
  BY <1>1 DEF with
<1>3. {"kind", "market", "side", "bid", "ask"} \subseteq DOMAIN e
  BY DEF Shows
<1>4. /\ {"kind", "market", "side", "bid", "ask"} \subseteq DOMAIN u
      /\ u.kind = e.kind /\ u.market = e.market /\ u.side = e.side /\ u.bid = e.bid /\ u.ask = e.ask
  BY <1>2, <1>3
<1>5. Shows(u)
  BY <1>4 DEF Shows
<1> QED
  BY <1>1, <1>4, <1>5

(* The plugins of one kind of market data. *)
SignalJobs == {"external_edge", "flu_hospitalization_surge", "crop_drought_yield_reversion",
               "entertainment_box_office", "tariff_headline_gap_fader",
               "shipping_chokepoint_delay", "wildfire_smoke_event_cancel",
               "earnings_guidance_language", "court_docket_timing",
               "spaceweather_grid_disruption"}
BookJobs == {"energy_storage_weather_spread", "liquidity_tail_risk_insurance"}
MidJobs == SignalJobs \cup BookJobs \cup {"ladder_cdf"}

(* A signal of a run. *)
LEMMA SignalTold ==
    ASSUME NEW e \in signals PROVE Told(e) /\ e.kind = "signal"
BY DEF signals, Told, Shows

(* What the plugins whose orders are priced from quotes are handed. *)
LEMMA InputsTold ==
    ASSUME VenueQuotes, NEW e \in inputs(job), job \in TwoSided
    PROVE  /\ Told(e)
           /\ job \in SignalJobs \cup {"sports_hole_by_hole_pin"} => e.kind \in {"quote", "signal"}
           /\ job \in BookJobs => e.kind \in {"quote", "book", "signal"}
           /\ job = "ladder_cdf" =>
                /\ e.kind \in {"quote", "distribution"}
                /\ e.kind = "distribution" => \A m \in Markets : e.implied[m] \in Int
           /\ job = "politics_primary_momentum" => e.kind \in {"quote", "settlement"}
           /\ job = "microstructure_obi_scalper" => e.kind = "book"
           /\ job = "kalshi_noarb_scanner" => e.kind = "quote"
<1>1. \A q \in quotes : Told(q) /\ q.kind = "quote"
  BY QuoteShows DEF Told
<1>2. \A b \in books : Told(b) /\ b.kind = "book"
  BY BookShows DEF Told
<1>3. \A x \in signals : Told(x) /\ x.kind = "signal"
  BY SignalTold
<1>4. CASE job \in SignalJobs \cup {"sports_hole_by_hole_pin"}
  <2>1. e \in quotes \cup signals
    BY <1>4 DEF inputs, SignalJobs
  <2> QED
    BY <1>1, <1>3, <1>4, <2>1 DEF SignalJobs, BookJobs
<1>5. CASE job = "energy_storage_weather_spread"
  <2>1. e \in quotes \cup books \cup signals
    BY <1>5 DEF inputs
  <2> QED
    BY <1>1, <1>2, <1>3, <1>5, <2>1 DEF SignalJobs, BookJobs
<1>6. CASE job = "liquidity_tail_risk_insurance"
  <2>1. e \in quotes \cup signals \cup {with(b, "depth", x) : b \in books, x \in {"thin", "deep"}}
    BY <1>6 DEF inputs
  <2>2. \A b \in books : \A x : Told(with(b, "depth", x)) /\ with(b, "depth", x).kind = "book"
    BY <1>2, WithShows DEF Told
  <2>3. e \in quotes \/ e \in signals \/ (Told(e) /\ e.kind = "book")
    BY <2>1, <2>2
  <2> QED
    BY <1>1, <1>3, <1>6, <2>3 DEF SignalJobs, BookJobs
<1>7. CASE job = "ladder_cdf"
  <2>1. e \in quotes \/ e \in distributions
    BY <1>7 DEF inputs
  <2>2. e \in distributions => Told(e) /\ e.kind = "distribution" /\ \A m \in Markets : e.implied[m] \in Int
    BY DEF distributions, Told, Shows, One
  <2> QED
    BY <1>1, <1>7, <2>1, <2>2 DEF SignalJobs, BookJobs
<1>8. CASE job = "politics_primary_momentum"
  <2>1. e \in quotes \/ e \in [kind : {"settlement"}, market : Markets, resolved : {"YES", "NO", "none"}]
    BY <1>8 DEF inputs
  <2>2. e \in quotes \/ (Told(e) /\ e.kind = "settlement")
    BY <2>1 DEF Told, Shows
  <2> QED
    BY <1>1, <1>8, <2>2 DEF SignalJobs, BookJobs
<1>9. CASE job = "microstructure_obi_scalper"
  <2>1. PICK b \in books, x \in {"long", "flip", "idle"} : e = with(b, "view", x)
    BY <1>9 DEF inputs
  <2>2. Told(e) /\ e.kind = "book"
    BY <1>2, <2>1, WithShows DEF Told
  <2> QED
    BY <1>9, <2>2 DEF SignalJobs, BookJobs
<1>10. CASE job = "kalshi_noarb_scanner"
  <2>1. PICK q \in quotes, n \in {now, now + 2} :
          e = with(with(with(q, "bid_quantity", 1), "ask_quantity", 2), "at", n)
    BY <1>10 DEF inputs
  <2>2. PICK x, y : x = with(q, "bid_quantity", 1) /\ y = with(x, "ask_quantity", 2)
    OBVIOUS
  <2>3. Shows(x) /\ x.kind = "quote"
    BY <1>1, <2>2, WithShows DEF Told
  <2>4. Shows(y) /\ y.kind = "quote"
    BY <2>2, <2>3, WithShows
  <2>5. Shows(e) /\ e.kind = "quote"
    BY <2>1, <2>2, <2>4, WithShows
  <2> QED
    BY <1>10, <2>5 DEF SignalJobs, BookJobs, Told
<1> QED
  BY <1>4, <1>5, <1>6, <1>7, <1>8, <1>9, <1>10 DEF TwoSided, SignalJobs

-----------------------------------------------------------------------------
(* The invariant: what the plugin keeps of a market is the market's, and   *)
(* so is what it has decided.                                              *)

(* What plugin j keeps. *)
Marks(j, t, mk) ==
    /\ j \in MidJobs => Mids(t, mk)
    /\ j = "sports_hole_by_hole_pin" => Quotes(t, mk)
    /\ j = "politics_primary_momentum" => Second(t, mk)
    /\ j = "kalshi_noarb_scanner" => Looked(t, mk)

Priced ==
    job \in TwoSided =>
        /\ Marketplace(market) /\ Marks(job, s, market) /\ Offers(todo, market)
        /\ job = "kalshi_noarb_scanner" => Locked(todo)

PriceInv == job \in Jobs /\ Priced

(* A ladder of two markets has a second one. *)
LEMMA SecondState ==
    ASSUME Cardinality(Markets) > 1 PROVE Ladder[2] \in Markets
<1>1. PICK n : n = Cardinality(Markets) /\ Enumerates(Ladder, n, Markets)
  BY LadderListed
<1>2. n \in Nat /\ n > 1 /\ \A k \in 1 .. n : Ladder[k] \in Markets
  BY <1>1 DEF Enumerates
<1> QED
  BY <1>2

(* The runner's evidence changes no price. *)
LEMMA Wrapped ==
    ASSUME NEW d, NEW mk, OnMarket(d, mk), NEW e
    PROVE  /\ OnMarket(wrap(d, e), mk)
           /\ d.do = "place" => wrap(d, e).do = "place" /\ wrap(d, e).price = d.price
<1>1. CASE d.do = "place" /\ e.kind \in {"quote", "book"}
  <2>1. PICK x : x = [d EXCEPT !.evidence = TRUE]
    OBVIOUS
  <2>2. {"do", "market", "side", "price"} \subseteq DOMAIN d
    BY <1>1 DEF OnMarket
  <2>3. /\ DOMAIN x = DOMAIN d
        /\ x.do = d.do /\ x.market = d.market /\ x.side = d.side /\ x.price = d.price
    BY <2>1, <2>2
  <2>4. wrap(d, e) = x
    BY <1>1, <2>1 DEF wrap
  <2> QED
    BY <1>1, <2>2, <2>3, <2>4 DEF OnMarket
<1>2. CASE ~(d.do = "place" /\ e.kind \in {"quote", "book"})
  BY <1>2 DEF wrap
<1> QED
  BY <1>1, <1>2

(* Nor does it change where an order is for. *)
LEMMA OffersWrapped ==
    ASSUME NEW q, NEW mk, Offers(q, mk), NEW e
    PROVE  Offers([k \in DOMAIN q |-> wrap(q[k], e)], mk)
<1>1. PICK S : q \in Seq(S) /\ \A d \in S : OnMarket(d, mk)
  BY DEF Offers
<1>2. PICK n \in Nat : DOMAIN q = 1 .. n /\ \A k \in 1 .. n : q[k] \in S
  BY <1>1
<1>3. PICK u : u = [k \in DOMAIN q |-> wrap(q[k], e)]
  OBVIOUS
<1>4. u = [k \in 1 .. n |-> u[k]] /\ \A k \in 1 .. n : OnMarket(u[k], mk)
  BY <1>1, <1>2, <1>3, Wrapped
<1>5. Offers(u, mk)
  BY <1>4, OffersMade
<1> QED
  BY <1>3, <1>5

(* A decision that is judged is one less. *)
LEMMA OffersLess ==
    ASSUME NEW q, NEW mk, Offers(q, mk), q # <<>>
    PROVE  Offers(Tail(q), mk)
<1>1. PICK S : q \in Seq(S) /\ \A d \in S : OnMarket(d, mk)
  BY DEF Offers
<1>2. Tail(q) \in Seq(S)
  BY <1>1
<1> QED
  BY <1>1, <1>2 DEF Offers

(* The scanner's legs as the runner sends them on. *)
LEMMA LegsLocked ==
    ASSUME NEW n \in Nat, NEW q, q = [k \in 1 .. n |-> q[k]], NEW mk,
           \A k \in 1 .. n : OnMarket(q[k], mk) /\ q[k].do = "place" /\ q[k].price \in 0 .. One,
           sum(Costs(q)) <= One - MinEdge, NEW e
    PROVE  Offers(q, mk) /\ Locked([k \in DOMAIN q |-> wrap(q[k], e)])
<1>1. PICK u : u = [k \in DOMAIN q |-> wrap(q[k], e)]
  OBVIOUS
<1>2. PICK S : S = {u[k] : k \in 1 .. n}
  OBVIOUS
<1>3. DOMAIN q = 1 .. n
  OBVIOUS
<1>4. \A k \in 1 .. n : u[k].price = q[k].price
  BY <1>1, <1>3, Wrapped
<1>5. u \in Seq(S) /\ \A d \in S : d.price \in 0 .. One
  <2>1. u = [k \in 1 .. n |-> u[k]]
    BY <1>1, <1>3
  <2>2. u \in Seq(S)
    BY <1>2, <2>1
  <2> QED
    BY <1>2, <1>4, <2>2
<1>6. Costs(u) = Costs(q)
  <2>1. DOMAIN u = 1 .. n
    BY <1>1, <1>3
  <2> QED
    BY <1>3, <1>4, <2>1 DEF Costs
<1>7. Locked(u)
  BY <1>5, <1>6 DEF Locked
<1> QED
  BY <1>1, <1>7, OffersMade

(* The plugin is handed an event of the run. *)
LEMMA PlacesHeard ==
    ASSUME VenueQuotes, TwoStates, PriceInv, job \in TwoSided, NEW e \in inputs(job), NEW c
    PROVE  LET r == on_event(job, s, e, c)
           IN  /\ Marks(job, r.s, shown(e)) /\ Offers(r.out, shown(e))
               /\ job = "kalshi_noarb_scanner" =>
                    Locked([k \in DOMAIN r.out |-> wrap(r.out[k], e)])
<1> DEFINE r == on_event(job, s, e, c)
<1>1. Marketplace(market) /\ Marks(job, s, market)
  BY DEF PriceInv, Priced
<1>2. Told(e) /\ Shows(e)
  BY InputsTold DEF Told
<1>3. CASE job \in MidJobs
  <2>1. Mids(s, market)
    BY <1>1, <1>3 DEF Marks
  <2>2. ASSUME job \in SignalJobs PROVE Answered(r, shown(e))
    <3>1. e.kind \in {"quote", "signal"}
      BY <2>2, InputsTold
    <3> QED
      BY <1>1, <1>2, <2>1, <2>2, <3>1, SignalPlugins DEF on_event, SignalJobs, Weathers, LiveJobs
  <2>3. ASSUME job \in BookJobs PROVE Answered(r, shown(e))
    <3>1. e.kind \in {"quote", "book", "signal"}
      BY <2>3, InputsTold
    <3> QED
      BY <1>1, <1>2, <2>1, <2>3, <3>1, BookPlugins DEF on_event, BookJobs, Weathers, LiveJobs
  <2>4. ASSUME job = "ladder_cdf" PROVE Answered(r, shown(e))
    <3>1. /\ e.kind \in {"quote", "distribution"}
          /\ e.kind = "distribution" => \A m \in Markets : e.implied[m] \in Int
      BY <2>4, InputsTold
    <3> QED
      BY <1>1, <1>2, <2>1, <2>4, <3>1, LadderCdf DEF on_event, Weathers, LiveJobs
  <2>5. Answered(r, shown(e))
    BY <1>3, <2>2, <2>3, <2>4 DEF MidJobs
  <2> QED
    BY <1>3, <2>5 DEF Answered, Marks, MidJobs, SignalJobs, BookJobs
<1>4. CASE job = "sports_hole_by_hole_pin"
  <2>1. e.kind \in {"quote", "signal"} /\ Quotes(s, market)
    BY <1>1, <1>4, InputsTold DEF Marks
  <2>2. r = sports_hole_by_hole_pin(s, e)
    BY <1>4 DEF on_event, Weathers, LiveJobs
  <2>3. Quotes(r.s, shown(e)) /\ Offers(r.out, shown(e))
    BY <1>1, <1>2, <2>1, <2>2, HolePlugin
  <2> QED
    BY <1>4, <2>3 DEF Marks, MidJobs, SignalJobs, BookJobs
<1>5. CASE job = "politics_primary_momentum"
  <2>1. e.kind \in {"quote", "settlement"} /\ Second(s, market)
    BY <1>1, <1>5, InputsTold DEF Marks
  <2>2. r = politics_primary_momentum(s, e)
    BY <1>5 DEF on_event, Weathers, LiveJobs
  <2>3. Ladder[2] \in Markets
    BY <1>5, SecondState DEF TwoStates, PriceInv
  <2>4. Second(r.s, shown(e)) /\ Offers(r.out, shown(e))
    BY <1>1, <1>2, <2>1, <2>2, <2>3, PrimaryPlugin
  <2> QED
    BY <1>5, <2>4 DEF Marks, MidJobs, SignalJobs, BookJobs
<1>6. CASE job = "microstructure_obi_scalper"
  <2>1. e.kind = "book"
    BY <1>6, InputsTold
  <2>2. r = microstructure_obi_scalper(s, e)
    BY <1>6 DEF on_event, Weathers, LiveJobs
  <2>3. Offers(r.out, shown(e))
    BY <1>1, <1>2, <2>1, <2>2, ScalperPlugin
  <2> QED
    BY <1>6, <2>3 DEF Marks, MidJobs, SignalJobs, BookJobs
<1>7. CASE job = "kalshi_noarb_scanner"
  <2>1. e.kind = "quote" /\ Looked(s, market)
    BY <1>1, <1>7, InputsTold DEF Marks
  <2>2. r = kalshi_noarb_scanner(s, e)
    BY <1>7 DEF on_event, Weathers, LiveJobs
  <2>3. PICK q : q = r.out
    OBVIOUS
  <2>4. /\ Looked(r.s, shown(e))
        /\ \/ q = <<>>
           \/ \E n \in Nat : /\ q = [k \in 1 .. n |-> q[k]]
                             /\ \A k \in 1 .. n : /\ OnMarket(q[k], shown(e))
                                                  /\ q[k].do = "place"
                                                  /\ q[k].price \in 0 .. One
                             /\ sum(Costs(q)) <= One - MinEdge
    BY <1>1, <1>2, <2>1, <2>2, <2>3, ScannerPlugin
  <2>5. Offers(q, shown(e)) /\ Locked([k \in DOMAIN q |-> wrap(q[k], e)])
    <3>1. CASE q = <<>>
      <4>1. Offers(q, shown(e)) /\ [k \in DOMAIN q |-> wrap(q[k], e)] = <<>>
        BY <3>1, OffersFew
      <4>2. PICK S, u : S = {} /\ u = <<>>
        OBVIOUS
      <4>3. u \in Seq(S) /\ \A d \in S : d.price \in 0 .. One
        BY <4>2
      <4>4. Locked(u)
        BY <4>2, <4>3 DEF Locked
      <4> QED
        BY <4>1, <4>2, <4>4
    <3>2. CASE q # <<>>
      BY <2>4, <3>2, LegsLocked
    <3> QED
      BY <3>1, <3>2
  <2> QED
    BY <1>7, <2>3, <2>4, <2>5 DEF Marks, MidJobs, SignalJobs, BookJobs
<1> QED
  BY <1>3, <1>4, <1>5, <1>6, <1>7 DEF TwoSided, MidJobs, SignalJobs, BookJobs

(* What a verdict changes of a plugin is not what it keeps of the market.  *)
LEMMA MarksJudged ==
    ASSUME NEW mk, Marks(job, s, mk), job \in TwoSided, NEW d, NEW b
    PROVE  Marks(job, on_feedback(job, s, d, b), mk)
<1>1. CASE job = "sports_hole_by_hole_pin"
  <2>1. on_feedback(job, s, d, b) = hole_on_feedback(s, d, b)
    BY <1>1 DEF on_feedback, Weathers, LiveJobs
  <2>2. Quotes(s, mk)
    BY <1>1 DEF Marks
  <2>3. Quotes(hole_on_feedback(s, d, b), mk)
    BY <2>2 DEF hole_on_feedback, Quotes, Framed
  <2> QED
    BY <1>1, <2>1, <2>3 DEF Marks, MidJobs, SignalJobs, BookJobs
<1>2. CASE job = "microstructure_obi_scalper"
  BY <1>2 DEF Marks, MidJobs, SignalJobs, BookJobs
<1>3. CASE job \notin {"sports_hole_by_hole_pin", "microstructure_obi_scalper"}
  <2>1. on_feedback(job, s, d, b) = s
    BY <1>3 DEF on_feedback, TwoSided, Weathers, LiveJobs
  <2> QED
    BY <2>1
<1> QED
  BY <1>1, <1>2, <1>3

(* A new plugin has seen no market. *)
LEMMA PriceInitially == Init => PriceInv
<1> SUFFICES ASSUME Init PROVE PriceInv
  OBVIOUS
<1>1. job \in Jobs /\ s = new_plugin(job) /\ todo = <<>> /\ market = [m \in Markets |-> NoQuote]
  BY DEF Init, RunInit
<1>2. /\ Framed(s) /\ s.mid = [m \in Markets |-> None] /\ s.quote = [m \in Markets |-> NoQuote]
  BY <1>1 DEF new_plugin, Framed
<1>3. Mids(s, market) /\ Quotes(s, market) /\ Second(s, market) /\ Looked(s, market)
  BY <1>2 DEF Mids, Quotes, Second, Looked
<1>4. Marketplace(market) /\ Marks(job, s, market)
  BY <1>1, <1>3 DEF Marketplace, Marks
<1>5. Offers(todo, market)
  BY <1>1, OffersFew
<1>6. Locked(todo)
  <2>1. PICK S, u : S = {} /\ u = <<>>
    OBVIOUS
  <2>2. u \in Seq(S) /\ \A d \in S : d.price \in 0 .. One
    BY <2>1
  <2>3. Locked(u)
    BY <2>1, <2>2 DEF Locked
  <2> QED
    BY <1>1, <2>1, <2>3
<1> QED
  BY <1>1, <1>4, <1>5, <1>6 DEF PriceInv, Priced

(* The runner keeps plugin, decisions and market together. *)
LEMMA RunKeepsPrices ==
    ASSUME VenueQuotes, TwoStates, PriceInv, RunNext
    PROVE  PriceInv'
<1>0. job' = job
  BY DEF RunNext, runner_start, process_event, accept, reject, runner_stop, hand_over
<1> SUFFICES ASSUME job \in TwoSided
             PROVE  /\ Marketplace(market') /\ Marks(job, s', market') /\ Offers(todo', market')
                    /\ job = "kalshi_noarb_scanner" => Locked(todo')
  BY <1>0 DEF PriceInv, Priced, Marketplace, Marks, Offers, Locked
<1>1. /\ Marketplace(market) /\ Marks(job, s, market) /\ Offers(todo, market)
      /\ job = "kalshi_noarb_scanner" => Locked(todo)
  BY DEF PriceInv, Priced
<1>2. CASE runner_start \/ runner_stop
  BY <1>1, <1>2 DEF runner_start, runner_stop
<1>3. CASE process_event
  <2>1. PICK e \in inputs(job), money \in CashLevels :
          hand_over(e, [now |-> event_time(e), cash |-> money])
    BY <1>3 DEF process_event
  <2>2. PICK c : c = [now |-> event_time(e), cash |-> money]
    OBVIOUS
  <2>3. PICK r : r = on_event(job, s, e, c)
    OBVIOUS
  <2>4. /\ s' = r.s /\ market' = shown(e)
        /\ todo' = [k \in DOMAIN r.out |-> wrap(r.out[k], e)]
    BY <2>1, <2>2, <2>3 DEF hand_over
  <2>5. /\ Marks(job, r.s, shown(e)) /\ Offers(r.out, shown(e))
        /\ job = "kalshi_noarb_scanner" => Locked([k \in DOMAIN r.out |-> wrap(r.out[k], e)])
    BY <2>3, PlacesHeard
  <2>6. Marketplace(shown(e))
    BY <1>1, InputsTold, MarketShown DEF Told
  <2> QED
    BY <2>4, <2>5, <2>6, OffersWrapped
<1>4. CASE accept \/ reject
  <2>1. PICK b : s' = on_feedback(job, s, Head(todo), b)
    BY <1>4 DEF accept, reject
  <2>2. todo # <<>> /\ todo' = Tail(todo) /\ market' = market
    BY <1>4 DEF accept, reject
  <2>3. Marks(job, s', market)
    BY <1>1, <2>1, MarksJudged
  <2>4. Offers(todo', market) /\ (job = "kalshi_noarb_scanner" => Locked(todo'))
    BY <1>1, <2>2, OffersLess, LessLocked
  <2> QED
    BY <1>1, <2>2, <2>3, <2>4
<1> QED
  BY <1>2, <1>3, <1>4 DEF RunNext

(* Every step does.  No plugin of a live job is priced from quotes alone.  *)
LEMMA PriceKept ==
    ASSUME VenueQuotes, TwoStates PROVE PriceInv /\ [Next]_vars => PriceInv'
<1> SUFFICES ASSUME PriceInv, [Next]_vars PROVE PriceInv'
  OBVIOUS
<1>1. CASE RunNext
  BY <1>1, RunKeepsPrices
<1>2. CASE LiveNext
  <2>1. job \in LiveJobs /\ job' = job
    BY <1>2 DEF LiveNext, discover, discover_times_out, discover_raises, rediscover, ws_message, ws_put,
       ws_session_ends, forecast_tick, forecast_skip, forecast_put, balance_refresh,
       strategy_get, hand_over, clock, shutdown, looping, run_vars
  <2>2. job' \notin TwoSided /\ job' \in Jobs
    BY <2>1 DEF PriceInv, LiveJobs, TwoSided
  <2> QED
    BY <2>2 DEF PriceInv, Priced
<1>3. CASE UNCHANGED run_vars
  BY <1>3 DEF run_vars, PriceInv, Priced, Marketplace, Marks, Offers, Locked
<1> QED
  BY <1>1, <1>2, <1>3 DEF Next, StudyNext, OneJob, vars

(* At a venue that quotes whole ticks and does not cross, every buy that   *)
(* waits for its verdict is at a price its market showed last (quote_mid,  *)
(* snapshot_for, buy_limit_from_fair), and the legs of the no-arbitrage    *)
(* scanner that still wait leave the edge after their fees.                *)
THEOREM OrdersPricedFromTheMarket ==
    ASSUME VenueQuotes, TwoStates PROVE Spec => []PricedFromTheMarket
<1>1. PriceInv => PricedFromTheMarket
  <2> SUFFICES ASSUME PriceInv, job \in TwoSided PROVE PricedFromTheMarket
    BY DEF PricedFromTheMarket, TwoSided
  <2>1. /\ Marketplace(market) /\ Offers(todo, market)
        /\ job = "kalshi_noarb_scanner" => Locked(todo)
    BY DEF PriceInv, Priced
  <2>2. ASSUME NEW d \in Buys
        PROVE  LET level == snapshot_for(with(market[d.market], "side", "YES"), d.side)
               IN  level.bid <= d.price /\ d.price <= level.ask
    <3>1. PICK S : todo \in Seq(S) /\ \A x \in S : OnMarket(x, market)
      BY <2>1 DEF Offers
    <3>2. OnMarket(d, market) /\ d.do = "place"
      BY <3>1 DEF Buys, Pending
    <3>3. PICK l : l = market[d.market]
      OBVIOUS
    <3>4. Within(d.price, d.side, l)
      BY <3>2, <3>3 DEF OnMarket
    <3>5. /\ l \in Levels /\ l.bid \in Int /\ l.ask \in Int /\ l.bid # None /\ l.ask # None
          /\ d.side \in {"YES", "NO"}
      BY <3>4, WholePrices DEF Within, Levels
    <3>6. PICK w : w = with(l, "side", "YES")
      OBVIOUS
    <3>7. w.side = "YES" /\ w.bid = l.bid /\ w.ask = l.ask
      BY <3>5, <3>6 DEF with, Levels
    <3>8. PICK level : level = snapshot_for(w, d.side)
      OBVIOUS
    <3>9. level.bid <= d.price /\ d.price <= level.ask
      BY <3>4, <3>5, <3>7, <3>8 DEF snapshot_for, flip, Within
    <3> QED
      BY <3>3, <3>6, <3>8, <3>9
  <2>3. ASSUME job = "kalshi_noarb_scanner", todo # <<>>
        PROVE  sum([k \in DOMAIN todo |-> todo[k].price + contract_fee(todo[k].price)]) <= One - MinEdge
    BY <2>1, <2>3 DEF Locked, Costs
  <2> QED
    BY <2>2, <2>3 DEF PricedFromTheMarket
<1> QED
  BY PriceInitially, PriceKept, <1>1, PTL DEF Spec
=============================================================================
