----------------------------- MODULE BackOffice -----------------------------
(***************************************************************************)
(* The parts of the Python package that keep books of their own and are    *)
(* driven call by call: capital (allocation/capital.py), the dry-run       *)
(* gateway (gateway/base.py), the settlement ledger (ledger/accounting.py),*)
(* the replayed order book (replay/order_book.py) and the artifact bundles *)
(* (artifacts/bundle.py).  Each is a job; world is its object's state.     *)
(***************************************************************************)
EXTENDS Studies

CONSTANTS OfficeOrders,     \* client order id -> [sleeve, group, amount, tier]
          TotalCapital, SleeveBudgets, GroupBudgets, SleeveCaps,
          StoreSize, StoreTtl, CommandExpiry, LookMovement, LookSpread,
          LookQuotes,       \* what the venue may quote: <<bid, ask>>
          Positions,        \* side -> contracts held when the market settles
          BookLevels,       \* what a snapshot may hold: [yes_bids, yes_asks, no_bids, no_asks]
          BookTrades,       \* trades a replay may hold: [side, aggressor, price, size]
          MaxBooks          \* max_states of the reconstructor

OrderIds == DOMAIN OfficeOrders
sum_of(f, S) == MapThenSumSet(LAMBDA x : f[x], S)

-----------------------------------------------------------------------------
(* Capital. *)

CapitalWorlds == {[reserved |-> <<>>, sleeves |-> {}, allocations |-> <<>>]}

amount_of(id) == OfficeOrders[id].amount
reserved_total(reserved) == sum_of(reserved, DOMAIN reserved)
reserved_for_sleeve(reserved, x) ==
    sum_of(reserved, {id \in DOMAIN reserved : OfficeOrders[id].sleeve = x})
reserved_for_group(reserved, g) ==
    sum_of(reserved, {id \in DOMAIN reserved : OfficeOrders[id].group = g})

(* PortfolioRiskAllocator.reserve: is there a reason against it? A sleeve  *)
(* needs a budget, a group does not.                                       *)
reserve_reasons(reserved, id) ==
    LET o == OfficeOrders[id]
    IN  \/ reserved_total(reserved) + o.amount > TotalCapital
        \/ o.sleeve \notin DOMAIN SleeveBudgets
        \/ reserved_for_sleeve(reserved, o.sleeve) + o.amount > SleeveBudgets[o.sleeve]
        \/ /\ o.group \in DOMAIN GroupBudgets
           /\ reserved_for_group(reserved, o.group) + o.amount > GroupBudgets[o.group]

(* An id that is reserved already keeps its reservation. *)
capital_reserve ==
    \E id \in OrderIds :
        /\ id \notin DOMAIN world.reserved
        /\ ~reserve_reasons(world.reserved, id)
        /\ calls([world EXCEPT !.reserved = (id :> amount_of(id)) @@ @])

(* on_intent_outcome, release: an accepted order keeps its reservation,    *)
(* every other outcome gives it back, once.                                *)
capital_outcome ==
    \E id \in OrderIds, outcome \in {"accepted", "filled", "canceled", "rejected", "expired"} :
        LET gone == IF outcome = "accepted" THEN {} ELSE {id}
        IN  calls([world EXCEPT !.reserved = Restrict(@, DOMAIN @ \ gone)])

(* InMemorySleeveRegistry.register; there is no way to leave. *)
capital_register ==
    \E x \in DOMAIN SleeveCaps : calls([world EXCEPT !.sleeves = @ \cup {x}])

(* EqualWeightAllocator.propose and apply over list_active: equal shares,  *)
(* capped by the sleeve.                                                   *)
propose(sleeves) == [x \in sleeves |-> Min({TotalCapital \div Cardinality(sleeves), SleeveCaps[x]})]

capital_rebalance ==
    calls([world EXCEPT !.allocations = propose(world.sleeves) @@ @])

CapitalNext == capital_reserve \/ capital_outcome \/ capital_register \/ capital_rebalance

(* Whatever is reserved, released and reserved again, no budget is         *)
(* exceeded, and the sleeves together are given no more than there is.     *)
CapitalBooks ==
    /\ reserved_total(world.reserved) <= TotalCapital
    /\ \A x \in DOMAIN SleeveBudgets : reserved_for_sleeve(world.reserved, x) <= SleeveBudgets[x]
    /\ \A g \in DOMAIN GroupBudgets : reserved_for_group(world.reserved, g) <= GroupBudgets[g]
    /\ sum_of(world.allocations, DOMAIN world.allocations) <= TotalCapital

-----------------------------------------------------------------------------
(* The dry-run gateway: a scheduler of commands, an idempotency store and  *)
(* the last look before a command is recorded.                             *)

GatewayWorlds ==
    {[queue |-> <<>>, keys |-> <<>>, acks |-> <<>>, latest |-> <<q, 0>>, sent |-> <<>>] : q \in LookQuotes}

gateway_quote ==
    \E q \in LookQuotes : happens([world EXCEPT !.latest = <<q, today>>])

(* InMemoryPriorityScheduler.enqueue: the order carries the quote it was   *)
(* decided on.                                                             *)
gateway_enqueue ==
    \E id \in OrderIds :
        calls([world EXCEPT !.queue =
            Append(@, [id |-> id, tier |-> OfficeOrders[id].tier, at |-> today, seen |-> world.latest[1]])])

drop_stale(queue) == SelectSeq(queue, LAMBDA c : today <= c.at + CommandExpiry)

(* _sort_key: tier, then age. *)
next_command(queue) ==
    CHOOSE k \in DOMAIN queue : \A j \in DOMAIN queue :
        \/ queue[k].tier < queue[j].tier
        \/ queue[k].tier = queue[j].tier /\ queue[k].at < queue[j].at
        \/ queue[k].tier = queue[j].tier /\ queue[k].at = queue[j].at /\ k <= j

(* InMemoryIdempotencyStore._evict: entries past their time, then the      *)
(* oldest ones.                                                            *)
evict(entries) ==
    LET fresh == SelectSeq(entries, LAMBDA e : e.at >= today - StoreTtl)
    IN  SubSeq(fresh, Max({1, Len(fresh) - StoreSize + 1}), Len(fresh))

holds_key(entries, id) == \E e \in Range(evict(entries)) : e.id = id
remember(entries, id) == evict(Append(evict(entries), [id |-> id, at |-> today]))

(* validate_gateway_last_look, _snapshot_movement, _price_collar_reasons:  *)
(* a limit order at the ask it was decided on.                             *)
look_passes(c) ==
    LET q == world.latest[1]
        moved == Max(UNION {{q[k] - c.seen[k], c.seen[k] - q[k]} : k \in 1 .. 2})
    IN  /\ q[2] - q[1] \in 0 .. LookSpread
        /\ today - world.latest[2] <= Horizon
        /\ moved <= LookMovement
        /\ c.seen[2] <= q[2]

(* One round: drop what is stale, take the first command, reserve its key, *)
(* submit and record the ack. A key that is known is not sent again.       *)
gateway_round ==
    LET fresh == drop_stale(world.queue)
    IN  /\ fresh # <<>>
        /\ LET k == next_command(fresh)
               c == fresh[k]
               known == holds_key(world.keys, c.id)
           IN  calls([world EXCEPT
                    !.queue = RemoveAt(fresh, k),
                    !.keys = IF known THEN evict(@) ELSE remember(@, c.id),
                    !.acks = IF known THEN evict(@) ELSE remember(@, c.id),
                    !.sent = IF known THEN @
                             ELSE Append(@, [id |-> c.id, at |-> today, tier |-> c.tier, look |-> world.latest,
                                             accepted |-> look_passes(c)])])

GatewayNext == time_passes \/ gateway_quote \/ gateway_enqueue \/ gateway_round

(* Within the store's time and size a command goes out once, even when it  *)
(* is queued again; and a command is accepted on a fresh book only.        *)
GatewayBooks ==
    /\ \A j, k \in DOMAIN world.sent :
        /\ j < k /\ world.sent[j].id = world.sent[k].id
        => \/ world.sent[k].at - world.sent[j].at > StoreTtl
           \/ Cardinality({world.sent[i].id : i \in j + 1 .. k - 1}) >= StoreSize
    /\ \A c \in Range(world.sent) : c.accepted => c.at - c.look[2] <= Horizon

-----------------------------------------------------------------------------
(* Settlement: JsonlLedgerStore is durable, the set of finalized           *)
(* settlements of InMemorySettlementAccounting is not.                     *)

LedgerWorlds == {[done |-> {}, entries |-> <<>>]}

settlement_entries(m, winner) ==
    mapped(SetToSeq(DOMAIN Positions), LAMBDA side :
        [market |-> m, side |-> side, amount |-> IF side = winner THEN Positions[side] * Dollar ELSE 0])

(* finalize, then append of each entry. *)
ledger_settle ==
    \E m \in {1, 2} :
        LET winner == IF m = 1 THEN "YES" ELSE "NO"
        IN  calls([world EXCEPT
                !.done = @ \cup {m},
                !.entries = IF m \in world.done THEN @ ELSE @ \o settlement_entries(m, winner)])

ledger_restart == calls([world EXCEPT !.done = {}])

LedgerNext == ledger_settle \/ ledger_restart

(* A restart may write an entry again, but with the same id: a reader who  *)
(* counts an id once finds every market's positions paid exactly once.     *)
LedgerBooks ==
    LET ids == Range(world.entries)
    IN  \A m \in {e.market : e \in ids} :
            MapThenSumSet(LAMBDA e : e.amount, {e \in ids : e.market = m})
                = Positions[IF m = 1 THEN "YES" ELSE "NO"] * Dollar

-----------------------------------------------------------------------------
(* The order book a replay reconstructs. world.books: least recently used  *)
(* first; world.venue: the venue's own book, a trade at a time.            *)

BookLadders == {"yes", "no"} \X {"bids", "asks"}
NoBook == [l \in BookLadders |-> <<>>]

ReplayWorlds == {[books |-> <<>>, venue |-> [m \in {1, 2} |-> NoBook], told |-> {}]}

state_of(books, m) ==
    IF \E b \in Range(books) : b.market = m
    THEN (CHOOSE b \in Range(books) : b.market = m).book ELSE NoBook

(* _state: the market becomes the most recently used, the oldest goes. *)
put_book(books, m, book) ==
    LET others == SelectSeq(books, LAMBDA b : b.market # m)
        all == Append(others, [market |-> m, book |-> book])
    IN  SubSeq(all, Max({1, Len(all) - MaxBooks + 1}), Len(all))

(* _decrement_ladder *)
decrement(ladder, price, size) ==
    IF price \notin DOMAIN ladder THEN ladder
    ELSE IF ladder[price] <= size THEN Restrict(ladder, DOMAIN ladder \ {price})
    ELSE [ladder EXCEPT ![price] = @ - size]

(* The ladder a trade takes from, and the same orders seen from the other  *)
(* side.                                                                   *)
hit_by(x) == <<x.side, IF x.aggressor = x.side THEN "asks" ELSE "bids">>
complement(l) == <<IF l[1] = "yes" THEN "no" ELSE "yes", IF l[2] = "bids" THEN "asks" ELSE "bids">>

(* External: what the trade does to the venue's own book. *)
traded(book, x) ==
    [l \in BookLadders |->
        CASE l = hit_by(x) -> decrement(book[l], x.price, x.size)
          [] l = complement(hit_by(x)) -> decrement(book[l], Dollar - x.price, x.size)
          [] OTHER -> book[l]]

(* _debit_trade: the ladder that was hit and its complement. *)
debit_trade(book, x) ==
    [book EXCEPT ![hit_by(x)] = decrement(@, x.price, x.size),
                 ![complement(hit_by(x))] = decrement(@, Dollar - x.price, x.size)]

(* _debit_unknown_trade: every ladder, at the price and at its complement. *)
debit_unknown_trade(book, x) ==
    [l \in BookLadders |-> decrement(decrement(book[l], x.price, x.size), Dollar - x.price, x.size)]

(* A quote says the best level only. *)
top_only(book) ==
    [l \in BookLadders |->
        IF DOMAIN book[l] = {} THEN <<>>
        ELSE Restrict(book[l], {IF l[2] = "bids" THEN Max(DOMAIN book[l]) ELSE Min(DOMAIN book[l])})]

(* told: the markets whose whole book was told, and not evicted since. *)
observed_book(m, next, venue, whole) ==
    LET books == put_book(world.books, m, next)
        kept == {b.market : b \in Range(books)}
    IN  calls([books |-> books, venue |-> [world.venue EXCEPT ![m] = venue],
               told |-> (IF whole THEN world.told \cup {m} ELSE world.told \ {m}) \cap kept])

(* OrderBookReconstructor.observe: a snapshot, the two quotes of a ticker, *)
(* a trade whose aggressor is known, one whose aggressor is not.           *)
replay_snapshot ==
    \E m \in {1, 2}, b \in BookLevels : observed_book(m, b, b, TRUE)

replay_quote ==
    \E m \in {1, 2} : observed_book(m, top_only(world.venue[m]), world.venue[m], FALSE)

replay_trade ==
    \E m \in {1, 2}, x \in BookTrades :
        /\ x.price \in DOMAIN world.venue[m][hit_by(x)]
        /\ observed_book(m, debit_trade(state_of(world.books, m), x), traded(world.venue[m], x),
                         m \in world.told)

replay_unknown_trade ==
    \E m \in {1, 2}, x \in BookTrades :
        /\ x.price \in DOMAIN world.venue[m][hit_by(x)]
        /\ observed_book(m, debit_unknown_trade(state_of(world.books, m), x), traded(world.venue[m], x), FALSE)

ReplayNext == replay_snapshot \/ replay_quote \/ replay_trade \/ replay_unknown_trade

(* The reconstructed book of a market that was not evicted is the venue's, *)
(* on both of its sides.                                                   *)
ReplayBooks ==
    /\ Len(world.books) <= MaxBooks
    /\ \A m \in world.told : state_of(world.books, m) = world.venue[m]

-----------------------------------------------------------------------------
(* Artifact bundles. A file is its content; the manifest holds what it was. *)

BundleFiles == {"strategy_spec", "model"}

(* running: what a sleeve was last given. *)
BundleWorlds ==
    {[source |-> [f \in BundleFiles |-> 1], parity |-> p, live |-> l, dirs |-> <<>>, pointer |-> <<>>,
      running |-> <<>>] : p \in BOOLEAN, l \in BOOLEAN}

bundle_source_changes ==
    \E f \in BundleFiles : world.source[f] = 1 /\ happens([world EXCEPT !.source[f] = 2])

(* write_from_files: the directory first, the manifest last; an id whose   *)
(* directory exists is refused. A source file that is missing leaves a     *)
(* directory without a manifest behind.                                    *)
bundle_write ==
    \E id \in {1, 2}, missing \in BOOLEAN, promoted \in BOOLEAN :
        /\ id \notin DOMAIN world.dirs
        /\ calls([world EXCEPT !.dirs = (id :>
                [files |-> world.source, promoted |-> promoted,
                 manifest |-> IF missing THEN <<>> ELSE <<world.source>>]) @@ @])

(* Somebody edits a file of a bundle. *)
bundle_edit ==
    \E id \in DOMAIN world.dirs, f \in BundleFiles :
        happens([world EXCEPT !.dirs[id].files[f] = 3])

(* _load_model: the model's digest must be the manifest's. *)
model_intact(d) == d.files.model = d.manifest[1].model

(* ArtifactBundleLoader.load: of the other files no digest is looked at.   *)
bundle_loads(d, require_promoted) ==
    /\ d.manifest # <<>>
    /\ require_promoted => d.promoted
    /\ model_intact(d)

(* ArtifactBundleValidator.validate *)
bundle_valid(d) == d.files = d.manifest[1] /\ (world.live => world.parity)

(* PromotionRegistry.promote, of a bundle that was loaded for it. *)
bundle_promote ==
    \E id \in DOMAIN world.dirs, require_promoted \in BOOLEAN :
        /\ bundle_loads(world.dirs[id], require_promoted)
        /\ bundle_valid(world.dirs[id])
        /\ calls([world EXCEPT !.pointer = <<[id |-> id, manifest |-> world.dirs[id].manifest[1]]>>])

(* PromotionRegistry.current *)
bundle_current ==
    \E p \in Range(world.pointer) :
        /\ bundle_loads(world.dirs[p.id], TRUE)
        /\ calls([world EXCEPT !.running = <<[id |-> p.id, files |-> world.dirs[p.id].files]>>])

BundleNext ==
    \/ bundle_source_changes \/ bundle_write \/ bundle_edit
    \/ bundle_promote \/ bundle_current

(* What is promoted has a manifest that was not rewritten since, however   *)
(* often the sources change or a bundle is written again; and what a       *)
(* sleeve runs is a promoted bundle's, with the model its manifest names.  *)
BundleBooks ==
    /\ \A p \in Range(world.pointer) :
        /\ world.dirs[p.id].manifest = <<p.manifest>>
        /\ world.live => world.parity
    /\ \A r \in Range(world.running) :
        /\ world.dirs[r.id].promoted
        /\ r.files.model = world.dirs[r.id].manifest[1].model
=============================================================================
