----------------------------- MODULE Scheduler -----------------------------
(***************************************************************************)
(* PriorityScheduler of rust/crates/gateway/src/lib.rs: a cancel lane that *)
(* drains ahead of everything else, and three tier lanes that share one    *)
(* capacity.  When the capacity is used up the oldest of the lane heads is *)
(* shed to admit the incoming intent.                                      *)
(*                                                                         *)
(* An intent is its lane, the wall clock second it was emitted at and a    *)
(* serial number.  The callers stamp emitted_at with the current time, so  *)
(* it never decreases from one enqueue to the next, and two intents may    *)
(* carry the same stamp.  drained and shed are history: what left the      *)
(* scheduler and how.                                                      *)
(***************************************************************************)
EXTENDS Integers, Sequences, FiniteSets

CONSTANTS Capacities,   \* non-cancel capacities a scheduler may be built with
          MaxIntents,   \* bound: intents enqueued in a behaviour
          MaxTime       \* bound: the wall clock

ASSUME CapacitiesAssumption == Capacities \subseteq Nat
ASSUME BoundsAssumption == MaxIntents \in Nat /\ MaxTime \in Nat

PriorityTier == {"fast", "standard", "relaxed"}
Lanes == PriorityTier \union {"cancel"}

VARIABLES queues,               \* lane -> the intents waiting in it
          max_non_cancel_len,   \* capacity the tiers share
          shed_non_cancel_intents,
          now,                  \* wall clock
          emitted,              \* number of intents enqueue has taken so far
          drained,              \* history: intents popped, in order
          shed                  \* history: intents dropped

schedulerVars == <<queues, max_non_cancel_len, shed_non_cancel_intents, now,
                   emitted, drained, shed>>

Intent == [id : 1 .. MaxIntents, lane : Lanes, emitted_at : 0 .. MaxTime]

non_cancel_len == Len(queues["fast"]) + Len(queues["standard"])
                      + Len(queues["relaxed"])

(* The order in which pop_next and pop_oldest_non_cancel visit the lanes. *)
Rank(lane) == CASE lane = "cancel" -> 0
                [] lane = "fast" -> 1
                [] lane = "standard" -> 2
                [] lane = "relaxed" -> 3

Waiting(lanes) == {l \in lanes : queues[l] # <<>>}

(* Mutant of oldest_lane: the cheapest tier pays, whatever its age. *)
oldest_lane_lowest_tier ==
    CHOOSE l \in Waiting(PriorityTier) :
        \A k \in Waiting(PriorityTier) : Rank(k) <= Rank(l)

(* The tier whose head was emitted first; the strict comparison leaves a   *)
(* tie to the lane visited first.                                          *)
oldest_lane ==
    CHOOSE l \in Waiting(PriorityTier) :
        \A k \in Waiting(PriorityTier) :
            \/ Head(queues[l]).emitted_at < Head(queues[k]).emitted_at
            \/ Head(queues[l]).emitted_at = Head(queues[k]).emitted_at
               /\ Rank(l) <= Rank(k)
-----------------------------------------------------------------------------
Init ==
    /\ queues = [l \in Lanes |-> <<>>]
    /\ max_non_cancel_len \in Capacities
    /\ shed_non_cancel_intents = 0
    /\ now = 0
    /\ emitted = 0
    /\ drained = <<>>
    /\ shed = {}

Emit(lane) == [id |-> emitted + 1, lane |-> lane, emitted_at |-> now]

(* Mutant of enqueue_cancel: a cancel is capped like any other intent. *)
enqueue_cancel_capped ==
    /\ emitted' = emitted + 1
    /\ IF non_cancel_len >= max_non_cancel_len
         THEN /\ shed' = shed \union {Emit("cancel")}
              /\ shed_non_cancel_intents' = shed_non_cancel_intents + 1
              /\ UNCHANGED queues
         ELSE /\ queues' = [queues EXCEPT !["cancel"] = Append(@, Emit("cancel"))]
              /\ UNCHANGED <<shed, shed_non_cancel_intents>>
    /\ UNCHANGED <<max_non_cancel_len, now, drained>>

(* enqueue of a CancelOrder: never capped. *)
enqueue_cancel ==
    /\ emitted' = emitted + 1
    /\ queues' = [queues EXCEPT !["cancel"] = Append(@, Emit("cancel"))]
    /\ UNCHANGED <<max_non_cancel_len, shed_non_cancel_intents, now, drained, shed>>

(* enqueue below the capacity: Enqueued. *)
enqueue_admitted(tier) ==
    /\ max_non_cancel_len # 0
    /\ non_cancel_len < max_non_cancel_len
    /\ emitted' = emitted + 1
    /\ queues' = [queues EXCEPT ![tier] = Append(@, Emit(tier))]
    /\ UNCHANGED <<max_non_cancel_len, shed_non_cancel_intents, now, drained, shed>>

(* Mutant of enqueue_shedding: the capacity test is off by one. *)
enqueue_shedding_late(tier) ==
    /\ max_non_cancel_len # 0
    /\ non_cancel_len >= max_non_cancel_len
    /\ emitted' = emitted + 1
    /\ queues' = IF non_cancel_len = max_non_cancel_len
                   THEN [queues EXCEPT ![tier] = Append(@, Emit(tier))]
                   ELSE [[queues EXCEPT ![oldest_lane] = Tail(@)]
                            EXCEPT ![tier] = Append(@, Emit(tier))]
    /\ shed' = IF non_cancel_len = max_non_cancel_len
                 THEN shed ELSE shed \union {Head(queues[oldest_lane])}
    /\ shed_non_cancel_intents' = Cardinality(shed')
    /\ UNCHANGED <<max_non_cancel_len, now, drained>>

(* Mutant of enqueue_shedding: the outcome reports a drop of the newcomer, *)
(* which is also queued.                                                   *)
enqueue_shedding_newcomer(tier) ==
    /\ max_non_cancel_len # 0
    /\ non_cancel_len >= max_non_cancel_len
    /\ emitted' = emitted + 1
    /\ shed' = shed \union {Emit(tier)}
    /\ queues' = [[queues EXCEPT ![oldest_lane] = Tail(@)]
                     EXCEPT ![tier] = Append(@, Emit(tier))]
    /\ shed_non_cancel_intents' = shed_non_cancel_intents + 1
    /\ UNCHANGED <<max_non_cancel_len, now, drained>>

(* enqueue at the capacity: DroppedOldestNonCancel, then the push.  The    *)
(* other arm of the match is dead: at a capacity above zero some tier has  *)
(* a head.                                                                 *)
enqueue_shedding(tier) ==
    /\ max_non_cancel_len # 0
    /\ non_cancel_len >= max_non_cancel_len
    /\ emitted' = emitted + 1
    /\ shed' = shed \union {Head(queues[oldest_lane])}
    /\ queues' = [[queues EXCEPT ![oldest_lane] = Tail(@)]
                     EXCEPT ![tier] = Append(@, Emit(tier))]
    /\ shed_non_cancel_intents' = shed_non_cancel_intents + 1
    /\ UNCHANGED <<max_non_cancel_len, now, drained>>

(* enqueue at the capacity of an intent whose tier is not one of the three: *)
(* the oldest is shed before the tier is read, and the newcomer is handed   *)
(* back with DecisionDecode instead of being queued.  Below the capacity    *)
(* the error is all there is, and without a capacity the tier is not read.  *)
enqueue_unknown_tier ==
    /\ max_non_cancel_len # 0
    /\ non_cancel_len >= max_non_cancel_len
    /\ shed' = shed \union {Head(queues[oldest_lane])}
    /\ queues' = [queues EXCEPT ![oldest_lane] = Tail(@)]
    /\ shed_non_cancel_intents' = shed_non_cancel_intents + 1
    /\ UNCHANGED <<max_non_cancel_len, now, emitted, drained>>

(* Mutant of enqueue_refused: the counter moves the wrong way. *)
enqueue_refused_counting_down(tier) ==
    /\ max_non_cancel_len = 0
    /\ emitted' = emitted + 1
    /\ shed' = shed \union {Emit(tier)}
    /\ shed_non_cancel_intents' = shed_non_cancel_intents - 1
    /\ UNCHANGED <<queues, max_non_cancel_len, now, drained>>

(* enqueue with no capacity at all: DroppedIncomingNonCancel. *)
enqueue_refused(tier) ==
    /\ max_non_cancel_len = 0
    /\ emitted' = emitted + 1
    /\ shed' = shed \union {Emit(tier)}
    /\ shed_non_cancel_intents' = shed_non_cancel_intents + 1
    /\ UNCHANGED <<queues, max_non_cancel_len, now, drained>>

(* Mutant of next_lane: the tiers are visited before the cancels. *)
next_lane_cancels_last ==
    CHOOSE l \in Waiting(Lanes) :
        \A k \in Waiting(Lanes) :
            k = l \/ k = "cancel" \/ (l # "cancel" /\ Rank(l) <= Rank(k))

(* The first non-empty lane. *)
next_lane == CHOOSE l \in Waiting(Lanes) :
                 \A k \in Waiting(Lanes) : Rank(l) <= Rank(k)

(* Mutant of pop_next: the newest intent of the lane is taken. *)
pop_next_newest ==
    /\ Waiting(Lanes) # {}
    /\ drained' = Append(drained, queues[next_lane][Len(queues[next_lane])])
    /\ queues' = [queues EXCEPT ![next_lane] = SubSeq(@, 1, Len(@) - 1)]
    /\ UNCHANGED <<max_non_cancel_len, shed_non_cancel_intents, now, emitted, shed>>

pop_next ==
    /\ Waiting(Lanes) # {}
    /\ drained' = Append(drained, Head(queues[next_lane]))
    /\ queues' = [queues EXCEPT ![next_lane] = Tail(@)]
    /\ UNCHANGED <<max_non_cancel_len, shed_non_cancel_intents, now, emitted, shed>>

(* Time passes between calls. *)
ClockTick ==
    /\ now < MaxTime
    /\ now' = now + 1
    /\ UNCHANGED <<queues, max_non_cancel_len, shed_non_cancel_intents, emitted,
                   drained, shed>>

enqueue(tier) == \/ enqueue_admitted(tier)
                 \/ enqueue_shedding(tier)
                 \/ enqueue_refused(tier)

Next ==
    \/ emitted < MaxIntents /\ enqueue_cancel
    \/ emitted < MaxIntents /\ \E tier \in PriorityTier : enqueue(tier)
    \/ enqueue_unknown_tier
    \/ pop_next
    \/ ClockTick

Spec == Init /\ [][Next]_schedulerVars
-----------------------------------------------------------------------------
(* Properties. *)

Queued == UNION {{queues[l][i] : i \in DOMAIN queues[l]} : l \in Lanes}
Drained == {drained[i] : i \in DOMAIN drained}

TypeOK ==
    /\ queues \in [Lanes -> Seq(Intent)]
    /\ max_non_cancel_len \in Nat
    /\ shed_non_cancel_intents \in Nat
    /\ now \in 0 .. MaxTime
    /\ emitted \in 0 .. MaxIntents
    /\ drained \in Seq(Intent)
    /\ shed \subseteq Intent

(* However enqueues of the three tiers interleave with pops, the backlog   *)
(* they share never passes the capacity the scheduler was built with, zero *)
(* included.                                                               *)
NonCancelBounded == non_cancel_len <= max_non_cancel_len

(* Every intent enqueue took is in exactly one place: waiting, popped, or  *)
(* shed and counted in shed_non_cancel_intents, the ones included that were *)
(* shed for a newcomer whose tier then turned out to be unknown.            *)
EveryIntentAccountedFor ==
    /\ \A n \in 1 .. emitted :
           Cardinality({i \in Queued : i.id = n}) + Cardinality({i \in Drained : i.id = n})
               + Cardinality({i \in shed : i.id = n}) = 1
    /\ shed_non_cancel_intents = Cardinality(shed)

(* Cancels reduce risk and are never shed, whatever the backlog. *)
CancelsNeverShed == \A i \in shed : i.lane # "cancel"

(* The intents of one lane leave it in the order they were emitted. *)
LanesAreFifo ==
    \A i, j \in DOMAIN drained :
        i < j /\ drained[i].lane = drained[j].lane => drained[i].id < drained[j].id

(* An intent popped while a cancel was waiting is itself a cancel, so no   *)
(* order is placed ahead of a cancel that was enqueued before the pop.     *)
CancelsDrainFirst ==
    [][drained' # drained /\ queues["cancel"] # <<>>
           => drained'[Len(drained')].lane = "cancel"]_schedulerVars

(* An intent shed from the backlog is as old as any that keeps its place,  *)
(* although only the three lane heads are compared.                        *)
ShedsTheOldest ==
    [][\A d \in shed' \ shed :
           d \in Queued => \A q \in Queued : q.lane # "cancel"
                                => d.emitted_at <= q.emitted_at]_schedulerVars
=============================================================================
