-------------------------- MODULE Scheduler_proofs --------------------------
(***************************************************************************)
(* Proofs about PriorityScheduler for every capacity and every bound.      *)
(* NonCancelBounded is not inductive by itself: that shedding makes room   *)
(* needs some tier to have a head whenever the capacity is used up, and    *)
(* ShedsTheOldest needs every lane to be sorted by emission time.  Then where*)
(* the intents end up, and in which order: that each is in one place needs *)
(* serial numbers never to be shared between places, and that lanes are    *)
(* first in first out needs what waits in a lane to be younger than what was*)
(* popped from it.                                                         *)
(***************************************************************************)
EXTENDS Scheduler, SequenceTheorems, FiniteSetTheorems, TLAPS

LaneIntent(l) == {i \in Intent : i.lane = l}

(* A lane holds its own intents, in the order they were emitted. *)
LaneOK(q, l, t) ==
    /\ q \in Seq(LaneIntent(l))
    /\ \A i \in 1 .. Len(q) : q[i].emitted_at <= t
    /\ \A i, j \in 1 .. Len(q) : i <= j => q[i].emitted_at <= q[j].emitted_at

LanesOK == queues \in [Lanes -> Seq(Intent)] /\ \A l \in Lanes : LaneOK(queues[l], l, now)

CountersOK ==
    /\ max_non_cancel_len \in Nat
    /\ shed_non_cancel_intents \in Nat
    /\ now \in 0 .. MaxTime
    /\ emitted \in 0 .. MaxIntents

SchedulerInv ==
    /\ LanesOK
    /\ CountersOK
    /\ drained \in Seq(Intent)
    /\ shed \subseteq Intent
    /\ NonCancelBounded
    /\ CancelsNeverShed

(* The head of a sorted lane is its oldest intent. *)
LEMMA HeadOfLane ==
    ASSUME NEW l \in Lanes, NEW t \in Int, NEW q, LaneOK(q, l, t), q # <<>>
    PROVE  /\ Head(q) \in LaneIntent(l)
           /\ Head(q).emitted_at \in Int
           /\ \A i \in 1 .. Len(q) : Head(q).emitted_at <= q[i].emitted_at
<1>1. q \in Seq(LaneIntent(l)) /\ Len(q) \in Nat \ {0}
  BY EmptySeq DEF LaneOK
<1>2. Head(q) \in LaneIntent(l)
  BY <1>1, HeadTailProperties
<1>3. Head(q) = q[1] /\ 1 \in 1 .. Len(q)
  BY <1>1
<1>4. Head(q).emitted_at \in Int
  BY <1>2, BoundsAssumption DEF LaneIntent, Intent
<1> QED BY <1>1, <1>2, <1>3, <1>4 DEF LaneOK

(* Popping a lane keeps it in order, and makes it one shorter. *)
LEMMA PopKeepsLane ==
    ASSUME NEW l \in Lanes, NEW t \in Int, NEW q, LaneOK(q, l, t), q # <<>>
    PROVE  LaneOK(Tail(q), l, t) /\ Len(Tail(q)) = Len(q) - 1
<1>1. q \in Seq(LaneIntent(l)) /\ Len(q) \in Nat \ {0}
  BY EmptySeq DEF LaneOK
<1>2. /\ Tail(q) \in Seq(LaneIntent(l))
      /\ Len(Tail(q)) = Len(q) - 1
      /\ \A i \in 1 .. Len(Tail(q)) : Tail(q)[i] = q[i + 1]
  BY <1>1, HeadTailProperties
<1>3. \A i \in 1 .. Len(Tail(q)) : i + 1 \in 1 .. Len(q)
  BY <1>1, <1>2
<1>4. \A i \in 1 .. Len(Tail(q)) : Tail(q)[i].emitted_at <= t
  BY <1>1, <1>2, <1>3 DEF LaneOK
<1>5. \A i, j \in 1 .. Len(Tail(q)) :
          i <= j => Tail(q)[i].emitted_at <= Tail(q)[j].emitted_at
  BY <1>1, <1>2, <1>3 DEF LaneOK
<1> QED BY <1>2, <1>4, <1>5 DEF LaneOK

(* Pushing an intent stamped with the current time keeps the lane in order. *)
LEMMA PushKeepsLane ==
    ASSUME NEW l \in Lanes, NEW t \in Int, NEW q, LaneOK(q, l, t),
           NEW e \in LaneIntent(l), e.emitted_at = t
    PROVE  LaneOK(Append(q, e), l, t) /\ Len(Append(q, e)) = Len(q) + 1
<1>1. q \in Seq(LaneIntent(l)) /\ Len(q) \in Nat
  BY DEF LaneOK
<1>2. /\ Append(q, e) \in Seq(LaneIntent(l))
      /\ Len(Append(q, e)) = Len(q) + 1
      /\ \A i \in 1 .. Len(q) : Append(q, e)[i] = q[i]
      /\ Append(q, e)[Len(q) + 1] = e
  BY <1>1
<1>3. \A i \in 1 .. Len(q) + 1 : i \in 1 .. Len(q) \/ i = Len(q) + 1
  BY <1>1
<1>4. \A i \in 1 .. Len(q) + 1 : Append(q, e)[i].emitted_at <= t
  BY <1>1, <1>2, <1>3 DEF LaneOK
<1>5. \A i, j \in 1 .. Len(q) + 1 :
          i <= j => Append(q, e)[i].emitted_at <= Append(q, e)[j].emitted_at
  BY <1>1, <1>2, <1>3, <1>4 DEF LaneOK
<1> QED BY <1>2, <1>4, <1>5 DEF LaneOK
-----------------------------------------------------------------------------
(* Of at most three lanes with a time each, one is first by time and rank. *)
LEMMA FirstOfThree ==
    ASSUME NEW W, W \subseteq {"fast", "standard", "relaxed"}, W # {},
           NEW T \in [W -> Int]
    PROVE  \E l \in W : \A k \in W :
               T[l] < T[k] \/ (T[l] = T[k] /\ Rank(l) <= Rank(k))
<1> DEFINE Before(l, k) == T[l] < T[k] \/ (T[l] = T[k] /\ Rank(l) <= Rank(k))
<1>1. Rank("fast") = 1 /\ Rank("standard") = 2 /\ Rank("relaxed") = 3
  BY DEF Rank
<1>2. \A l, k \in W : Before(l, k) \/ Before(k, l)
  BY <1>1
<1>3. \A l, k, m \in W : Before(l, k) /\ Before(k, m) => Before(l, m)
  BY <1>1
<1> HIDE DEF Before
<1>4. \E l \in W : \A k \in W : Before(l, k)
  <2> SUFFICES ASSUME \A l \in W : \E k \in W : ~Before(l, k) PROVE FALSE
    OBVIOUS
  <2>1. PICK x \in W : TRUE
    OBVIOUS
  <2>2. PICK y \in W : ~Before(x, y)
    BY <2>1
  <2>3. PICK z \in W : ~Before(y, z)
    BY <2>2
  <2>4. Before(y, x) /\ Before(z, y) /\ Before(z, x)
    BY <2>2, <2>3, <1>2, <1>3
  <2>5. x # y /\ y # z /\ x # z
    BY <2>2, <2>3, <2>4, <1>2
  <2>6. W \subseteq {x, y, z}
    BY <2>5
  <2> QED BY <2>4, <2>6, <1>2
<1> QED BY <1>4 DEF Before

(* The comparison of pop_oldest_non_cancel selects one of the heads, and   *)
(* no head is older.                                                       *)
LEMMA OldestLaneWaits ==
    ASSUME LanesOK, CountersOK, non_cancel_len > 0
    PROVE  /\ oldest_lane \in PriorityTier
           /\ queues[oldest_lane] # <<>>
           /\ \A k \in PriorityTier : queues[k] # <<>> =>
                  Head(queues[oldest_lane]).emitted_at <= Head(queues[k]).emitted_at
<1> DEFINE W == Waiting(PriorityTier)
           at(l) == Head(queues[l]).emitted_at
           First(l) == \A k \in W : at(l) < at(k) \/ (at(l) = at(k) /\ Rank(l) <= Rank(k))
<1>2. W # {}
  <2> SUFFICES ASSUME W = {} PROVE FALSE
    OBVIOUS
  <2>1. queues["fast"] = <<>> /\ queues["standard"] = <<>> /\ queues["relaxed"] = <<>>
    BY DEF Waiting, PriorityTier
  <2>2. Len(<<>>) = 0
    OBVIOUS
  <2> QED BY <2>1, <2>2 DEF non_cancel_len
<1>3. \A l \in W : at(l) \in Int
  BY HeadOfLane DEF LanesOK, CountersOK, Waiting, Lanes
<1>4. W \subseteq {"fast", "standard", "relaxed"}
  BY DEF Waiting, PriorityTier
<1>5. \E l \in W : First(l)
  <2> DEFINE T == [l \in W |-> at(l)]
  <2> HIDE DEF W, at
  <2>1. T \in [W -> Int]
    BY <1>3
  <2>2. \E l \in W : \A k \in W :
            T[l] < T[k] \/ (T[l] = T[k] /\ Rank(l) <= Rank(k))
    <3> HIDE DEF T
    <3> QED BY <1>2, <1>4, <2>1, FirstOfThree
  <2> QED BY <2>2
<1>6. oldest_lane \in W /\ First(oldest_lane)
  BY <1>5 DEF oldest_lane
<1>7. \A k \in W : at(oldest_lane) <= at(k)
  BY <1>6, <1>3
<1> QED BY <1>6, <1>7 DEF Waiting

(* pop_next visits the four lanes and pops the first that has a head. *)
LEMMA NextLaneWaits ==
    ASSUME Waiting(Lanes) # {}
    PROVE  next_lane \in Lanes /\ queues[next_lane] # <<>>
<1> DEFINE W == Waiting(Lanes)
<1>1. W \subseteq {"cancel", "fast", "standard", "relaxed"}
  BY DEF Waiting, Lanes, PriorityTier
<1>2. /\ Rank("cancel") = 0 /\ Rank("fast") = 1
      /\ Rank("standard") = 2 /\ Rank("relaxed") = 3
  BY DEF Rank
<1>3. \E l \in W : \A k \in W : Rank(l) <= Rank(k)
  <2> HIDE DEF W
  <2>1. \/ "cancel" \in W
        \/ "fast" \in W /\ W \subseteq {"fast", "standard", "relaxed"}
        \/ "standard" \in W /\ W \subseteq {"standard", "relaxed"}
        \/ W = {"relaxed"}
    <3>1. W # {}
      BY DEF W
    <3> QED BY <1>1, <3>1
  <2> QED BY <2>1, <1>1, <1>2
<1>4. next_lane \in W
  BY <1>3 DEF next_lane
<1> QED BY <1>4 DEF Waiting
-----------------------------------------------------------------------------
Total(q) == Len(q["fast"]) + Len(q["standard"]) + Len(q["relaxed"])

(* One lane grows or shrinks: so does      the backlog, unless the lane is *)
(* the cancel lane.                                                        *)
LEMMA TotalAfter ==
    ASSUME NEW l \in Lanes, NEW p \in [Lanes -> Seq(Intent)],
           NEW s \in Seq(Intent), NEW q, q = [p EXCEPT ![l] = s]
    PROVE  Total(q) = IF l = "cancel" THEN Total(p) ELSE Total(p) + (Len(s) - Len(p[l]))
<1>0. PICK d \in Int : d = Len(s) - Len(p[l]) /\ Len(s) = Len(p[l]) + d
  <2>1. PICK m \in Int, n \in Int : m = Len(s) /\ n = Len(p[l])
    OBVIOUS
  <2>2. m - n \in Int /\ m = n + (m - n)
    OBVIOUS
  <2> QED BY <2>1, <2>2
<1>1. \A k \in Lanes : q[k] = IF k = l THEN s ELSE p[k]
  OBVIOUS
<1>2. \A k \in Lanes : Len(p[k]) \in Nat
  OBVIOUS
<1>3. "fast" \in Lanes /\ "standard" \in Lanes /\ "relaxed" \in Lanes
  BY DEF Lanes, PriorityTier
<1>4. PICK a \in Int, b \in Int, c \in Int :
          a = Len(p["fast"]) /\ b = Len(p["standard"]) /\ c = Len(p["relaxed"])
  BY <1>2, <1>3
<1>5. Total(p) = a + b + c
  BY <1>4 DEF Total
<1>6. CASE l = "fast"
  <2>1. q["fast"] = s /\ q["standard"] = p["standard"] /\ q["relaxed"] = p["relaxed"]
    BY <1>6, <1>1, <1>3
  <2>2. Total(q) = (a + d) + b + c
    BY <1>0, <1>6, <1>4, <2>1 DEF Total
  <2>3. Total(q) = Total(p) + d
    BY <1>5, <2>2
  <2> QED BY <1>0, <1>6, <2>3
<1>7. CASE l = "standard"
  <2>1. q["fast"] = p["fast"] /\ q["standard"] = s /\ q["relaxed"] = p["relaxed"]
    BY <1>7, <1>1, <1>3
  <2>2. Total(q) = a + (b + d) + c
    BY <1>0, <1>7, <1>4, <2>1 DEF Total
  <2>3. Total(q) = Total(p) + d
    BY <1>5, <2>2
  <2> QED BY <1>0, <1>7, <2>3
<1>8. CASE l = "relaxed"
  <2>1. q["fast"] = p["fast"] /\ q["standard"] = p["standard"] /\ q["relaxed"] = s
    BY <1>8, <1>1, <1>3
  <2>2. Total(q) = a + b + (c + d)
    BY <1>0, <1>8, <1>4, <2>1 DEF Total
  <2>3. Total(q) = Total(p) + d
    BY <1>5, <2>2
  <2> QED BY <1>0, <1>8, <2>3
<1>9. CASE l = "cancel"
  <2>1. q["fast"] = p["fast"] /\ q["standard"] = p["standard"] /\ q["relaxed"] = p["relaxed"]
    BY <1>9, <1>1, <1>3
  <2>2. Total(q) = a + b + c
    BY <1>9, <1>4, <2>1 DEF Total
  <2> QED BY <1>9, <1>5, <2>2
<1> QED BY <1>6, <1>7, <1>8, <1>9 DEF Lanes, PriorityTier

(* The backlog when a lane is pushed, popped, or one is popped for another. *)
LEMMA LanesPushed ==
    ASSUME LanesOK, CountersOK, NEW l \in Lanes, emitted < MaxIntents,
           queues' = [queues EXCEPT ![l] = Append(@, Emit(l))], now' = now
    PROVE  /\ LanesOK'
           /\ non_cancel_len' = IF l = "cancel" THEN non_cancel_len ELSE non_cancel_len + 1
<1>1. Emit(l) \in LaneIntent(l) /\ Emit(l).emitted_at = now
  BY BoundsAssumption DEF Emit, LaneIntent, Intent, CountersOK
<1>2. /\ LaneOK(Append(queues[l], Emit(l)), l, now)
      /\ Len(Append(queues[l], Emit(l))) = Len(queues[l]) + 1
  BY <1>1, PushKeepsLane DEF LanesOK, CountersOK
<1>3. Append(queues[l], Emit(l)) \in Seq(Intent)
  BY <1>1 DEF LanesOK, LaneIntent
<1>4. LanesOK'
  BY <1>2, <1>3 DEF LanesOK
<1>5. Total(queues') = IF l = "cancel" THEN Total(queues) ELSE Total(queues) + 1
  <2>1. Total(queues') = IF l = "cancel" THEN Total(queues)
                         ELSE Total(queues) + (Len(Append(queues[l], Emit(l))) - Len(queues[l]))
    BY <1>3, TotalAfter DEF LanesOK
  <2>2. Len(Append(queues[l], Emit(l))) - Len(queues[l]) = 1
    BY <1>2 DEF LanesOK
  <2> QED BY <2>1, <2>2
<1> QED BY <1>4, <1>5 DEF non_cancel_len, Total

(* Taking the head of one lane keeps the lanes and takes one off the       *)
(* backlog, if it was not a cancel.                                        *)
LEMMA LanesPopped ==
    ASSUME LanesOK, CountersOK, NEW l \in Lanes, queues[l] # <<>>,
           NEW q, q = [queues EXCEPT ![l] = Tail(@)]
    PROVE  /\ q \in [Lanes -> Seq(Intent)]
           /\ \A k \in Lanes : LaneOK(q[k], k, now)
           /\ Total(q) = IF l = "cancel" THEN non_cancel_len ELSE non_cancel_len - 1
<1>1. LaneOK(Tail(queues[l]), l, now) /\ Len(Tail(queues[l])) = Len(queues[l]) - 1
  BY PopKeepsLane DEF LanesOK, CountersOK
<1>2. Tail(queues[l]) \in Seq(Intent)
  BY HeadTailProperties DEF LanesOK
<1>3. Len(queues[l]) \in Nat
  BY DEF LanesOK
<1>4. q \in [Lanes -> Seq(Intent)] /\ \A k \in Lanes : LaneOK(q[k], k, now)
  BY <1>1, <1>2 DEF LanesOK
<1>5. Total(q) = IF l = "cancel" THEN Total(queues)
                 ELSE Total(queues) + (Len(Tail(queues[l])) - Len(queues[l]))
  BY <1>2, TotalAfter DEF LanesOK
<1>6. Len(Tail(queues[l])) - Len(queues[l]) = -1
  BY <1>1, <1>3
<1>7. Total(queues) = non_cancel_len /\ non_cancel_len \in Int
  BY DEF Total, non_cancel_len, LanesOK, Lanes, PriorityTier
<1>8. non_cancel_len + (-1) = non_cancel_len - 1
  BY <1>7
<1> QED BY <1>4, <1>5, <1>6, <1>7, <1>8

(* Shedding the head of one tier for an arrival in another keeps lanes and *)
(* backlog.                                                                *)
LEMMA LanesShed ==
    ASSUME LanesOK, CountersOK, NEW l \in PriorityTier, queues[l] # <<>>,
           NEW m \in PriorityTier, emitted < MaxIntents, now' = now,
           queues' = [[queues EXCEPT ![l] = Tail(@)] EXCEPT ![m] = Append(@, Emit(m))]
    PROVE  LanesOK' /\ non_cancel_len' = non_cancel_len
<1> DEFINE q == [queues EXCEPT ![l] = Tail(@)]
<1>1. /\ q \in [Lanes -> Seq(Intent)]
      /\ \A k \in Lanes : LaneOK(q[k], k, now)
      /\ Total(q) = non_cancel_len - 1
  BY LanesPopped DEF Lanes, PriorityTier
<1>2. queues' = [q EXCEPT ![m] = Append(@, Emit(m))]
  OBVIOUS
<1> HIDE DEF q
<1>3. Emit(m) \in LaneIntent(m) /\ Emit(m).emitted_at = now
  BY BoundsAssumption DEF Emit, LaneIntent, Intent, CountersOK, Lanes
<1>4. /\ LaneOK(Append(q[m], Emit(m)), m, now)
      /\ Len(Append(q[m], Emit(m))) = Len(q[m]) + 1
  BY <1>1, <1>3, PushKeepsLane DEF CountersOK, Lanes
<1>5. Append(q[m], Emit(m)) \in Seq(Intent)
  BY <1>1, <1>3 DEF LaneIntent, Lanes
<1>6. LanesOK'
  BY <1>1, <1>2, <1>4, <1>5 DEF LanesOK, Lanes
<1>7. m \in Lanes /\ m # "cancel"
  BY DEF Lanes, PriorityTier
<1>8. Total(queues') = Total(q) + 1
  <2>1. Total(queues') = Total(q) + (Len(Append(q[m], Emit(m))) - Len(q[m]))
    BY <1>1, <1>2, <1>5, <1>7, TotalAfter
  <2>2. Len(Append(q[m], Emit(m))) - Len(q[m]) = 1
    BY <1>1, <1>4, <1>7
  <2> QED BY <2>1, <2>2
<1>9. non_cancel_len \in Int
  BY DEF non_cancel_len, LanesOK, Lanes, PriorityTier
<1>10. Total(queues') = non_cancel_len
  BY <1>1, <1>8, <1>9
<1>11. Total(queues') = non_cancel_len'
  BY DEF non_cancel_len, Total
<1> QED BY <1>6, <1>10, <1>11
-----------------------------------------------------------------------------
(* The empty scheduler satisfies the invariant.                            *)
LEMMA SchedulerInitial == Init => SchedulerInv
<1> SUFFICES ASSUME Init PROVE SchedulerInv
  OBVIOUS
<1>1. \A l \in Lanes : LaneOK(<<>>, l, now)
  BY EmptySeq DEF LaneOK
<1>2. LanesOK
  BY <1>1, EmptySeq DEF Init, LanesOK
<1>3. non_cancel_len = 0
  BY DEF Init, non_cancel_len, Lanes, PriorityTier
<1>4. CountersOK
  BY CapacitiesAssumption, BoundsAssumption DEF Init, CountersOK
<1> QED BY <1>2, <1>3, <1>4 DEF Init, SchedulerInv, NonCancelBounded, CancelsNeverShed, CountersOK

(* The intent that is shed is a waiting one of a tier. *)
LEMMA ShedIsWaiting ==
    ASSUME SchedulerInv, max_non_cancel_len # 0, non_cancel_len >= max_non_cancel_len
    PROVE  /\ oldest_lane \in PriorityTier
           /\ queues[oldest_lane] # <<>>
           /\ Head(queues[oldest_lane]) \in LaneIntent(oldest_lane)
           /\ \A k \in PriorityTier : queues[k] # <<>> =>
                  Head(queues[oldest_lane]).emitted_at <= Head(queues[k]).emitted_at
<1>1. non_cancel_len \in Int
  BY DEF SchedulerInv, LanesOK, non_cancel_len, Lanes, PriorityTier
<1>2. non_cancel_len > 0
  BY <1>1 DEF SchedulerInv, CountersOK
<1>3. /\ oldest_lane \in PriorityTier
      /\ queues[oldest_lane] # <<>>
      /\ \A k \in PriorityTier : queues[k] # <<>> =>
             Head(queues[oldest_lane]).emitted_at <= Head(queues[k]).emitted_at
  BY <1>2, OldestLaneWaits DEF SchedulerInv
<1>4. Head(queues[oldest_lane]) \in LaneIntent(oldest_lane)
  BY <1>3, HeadOfLane DEF SchedulerInv, LanesOK, CountersOK, Lanes
<1> QED BY <1>3, <1>4

(* Every call of the scheduler keeps the invariant.                        *)
LEMMA SchedulerStep == SchedulerInv /\ [Next]_schedulerVars => SchedulerInv'
<1> SUFFICES ASSUME SchedulerInv, [Next]_schedulerVars PROVE SchedulerInv'
  OBVIOUS
<1>0. /\ LanesOK /\ CountersOK /\ NonCancelBounded /\ CancelsNeverShed
      /\ drained \in Seq(Intent) /\ shed \subseteq Intent
      /\ non_cancel_len \in Int
  BY DEF SchedulerInv, LanesOK, non_cancel_len, Lanes, PriorityTier
<1>1. CASE emitted < MaxIntents /\ enqueue_cancel
  <2>1. LanesOK' /\ non_cancel_len' = non_cancel_len
    BY <1>0, <1>1, LanesPushed DEF enqueue_cancel, Lanes
  <2>2. CountersOK'
    BY <1>0, <1>1, BoundsAssumption DEF CountersOK, enqueue_cancel
  <2> QED BY <1>0, <1>1, <2>1, <2>2 DEF enqueue_cancel, SchedulerInv, NonCancelBounded, CancelsNeverShed
<1>2. ASSUME NEW tier \in PriorityTier, emitted < MaxIntents, enqueue_admitted(tier)
      PROVE  SchedulerInv'
  <2>1. tier \in Lanes /\ tier # "cancel"
    BY DEF Lanes, PriorityTier
  <2>2. LanesOK' /\ non_cancel_len' = non_cancel_len + 1
    BY <1>0, <1>2, <2>1, LanesPushed DEF enqueue_admitted
  <2>3. NonCancelBounded'
    BY <1>0, <1>2, <2>2 DEF enqueue_admitted, NonCancelBounded, CountersOK
  <2>4. CountersOK'
    BY <1>0, <1>2, BoundsAssumption DEF CountersOK, enqueue_admitted
  <2> QED BY <1>0, <1>2, <2>2, <2>3, <2>4 DEF enqueue_admitted, SchedulerInv, CancelsNeverShed
<1>3. ASSUME NEW tier \in PriorityTier, emitted < MaxIntents, enqueue_shedding(tier)
      PROVE  SchedulerInv'
  <2>1. /\ oldest_lane \in PriorityTier
        /\ queues[oldest_lane] # <<>>
        /\ Head(queues[oldest_lane]) \in LaneIntent(oldest_lane)
    BY <1>3, ShedIsWaiting DEF enqueue_shedding
  <2>2. LanesOK' /\ non_cancel_len' = non_cancel_len
    BY <1>0, <1>3, <2>1, LanesShed DEF enqueue_shedding
  <2>3. NonCancelBounded'
    BY <1>0, <1>3, <2>2 DEF enqueue_shedding, NonCancelBounded
  <2>4. shed' \subseteq Intent /\ CancelsNeverShed'
    BY <1>0, <1>3, <2>1 DEF enqueue_shedding, CancelsNeverShed, LaneIntent, PriorityTier
  <2>5. CountersOK'
    BY <1>0, <1>3, BoundsAssumption DEF CountersOK, enqueue_shedding
  <2> QED BY <1>0, <1>3, <2>2, <2>3, <2>4, <2>5 DEF enqueue_shedding, SchedulerInv
<1>4. ASSUME NEW tier \in PriorityTier, emitted < MaxIntents, enqueue_refused(tier)
      PROVE  SchedulerInv'
  <2>1. Emit(tier) \in Intent /\ Emit(tier).lane # "cancel"
    BY <1>0, <1>4, BoundsAssumption DEF Emit, Intent, CountersOK, Lanes, PriorityTier
  <2>2. shed' \subseteq Intent /\ CancelsNeverShed'
    BY <1>0, <1>4, <2>1 DEF enqueue_refused, CancelsNeverShed
  <2>3. CountersOK'
    BY <1>0, <1>4, BoundsAssumption DEF CountersOK, enqueue_refused
  <2>4. LanesOK' /\ NonCancelBounded'
    BY <1>0, <1>4 DEF enqueue_refused, LanesOK, NonCancelBounded, non_cancel_len
  <2> QED BY <1>0, <1>4, <2>2, <2>3, <2>4 DEF enqueue_refused, SchedulerInv
<1>5. CASE pop_next
  <2>1. next_lane \in Lanes /\ queues[next_lane] # <<>>
    BY <1>5, NextLaneWaits DEF pop_next
  <2>2. /\ queues' \in [Lanes -> Seq(Intent)]
        /\ \A k \in Lanes : LaneOK(queues'[k], k, now)
        /\ Total(queues') = IF next_lane = "cancel" THEN non_cancel_len ELSE non_cancel_len - 1
    BY <1>0, <1>5, <2>1, LanesPopped DEF pop_next
  <2>3. LanesOK'
    BY <1>5, <2>2 DEF pop_next, LanesOK
  <2>4. Total(queues') = non_cancel_len'
    BY DEF Total, non_cancel_len
  <2>5. non_cancel_len' <= non_cancel_len
    BY <1>0, <2>2, <2>4
  <2>6. CountersOK'
    BY <1>0, <1>5 DEF CountersOK, pop_next
  <2>7. NonCancelBounded'
    <3>1. non_cancel_len' \in Int
      BY <2>3 DEF LanesOK, non_cancel_len, Lanes, PriorityTier
    <3> QED BY <1>0, <1>5, <2>5, <3>1 DEF NonCancelBounded, pop_next, CountersOK
  <2>8. drained' \in Seq(Intent)
    <3>1. Head(queues[next_lane]) \in Intent
      BY <1>0, <2>1, HeadTailProperties DEF LanesOK
    <3> QED BY <1>0, <1>5, <3>1 DEF pop_next
  <2> QED BY <1>0, <1>5, <2>3, <2>6, <2>7, <2>8 DEF pop_next, SchedulerInv, CancelsNeverShed
<1>6. CASE ClockTick
  <2>1. CountersOK' /\ now \in Int /\ now' = now + 1
    BY <1>0, <1>6, BoundsAssumption DEF CountersOK, ClockTick
  <2>2. \A l \in Lanes : LaneOK(queues[l], l, now')
    <3> SUFFICES ASSUME NEW l \in Lanes PROVE LaneOK(queues[l], l, now')
      OBVIOUS
    <3>1. LaneOK(queues[l], l, now)
      BY <1>0 DEF LanesOK
    <3>2. \A i \in 1 .. Len(queues[l]) : queues[l][i].emitted_at \in Int
      <4> SUFFICES ASSUME NEW i \in 1 .. Len(queues[l]) PROVE queues[l][i].emitted_at \in Int
        OBVIOUS
      <4>1. queues[l][i] \in LaneIntent(l)
        BY <3>1, ElementOfSeq DEF LaneOK
      <4> QED BY <4>1, BoundsAssumption DEF LaneIntent, Intent
    <3> QED BY <2>1, <3>1, <3>2 DEF LaneOK
  <2>3. LanesOK'
    BY <1>0, <1>6, <2>2 DEF ClockTick, LanesOK
  <2> QED BY <1>0, <1>6, <2>1, <2>3 DEF ClockTick, SchedulerInv, NonCancelBounded,
                                       CancelsNeverShed, non_cancel_len
<1>7. CASE enqueue_unknown_tier
  <2>1. /\ oldest_lane \in PriorityTier /\ oldest_lane \in Lanes
        /\ queues[oldest_lane] # <<>>
        /\ Head(queues[oldest_lane]) \in LaneIntent(oldest_lane)
    BY <1>7, ShedIsWaiting DEF enqueue_unknown_tier, Lanes
  <2>2. /\ queues' \in [Lanes -> Seq(Intent)]
        /\ \A k \in Lanes : LaneOK(queues'[k], k, now)
        /\ Total(queues') = non_cancel_len - 1
    BY <1>0, <1>7, <2>1, LanesPopped DEF enqueue_unknown_tier, PriorityTier
  <2>3. LanesOK'
    BY <1>7, <2>2 DEF enqueue_unknown_tier, LanesOK
  <2>4. non_cancel_len' = non_cancel_len - 1
    BY <2>2 DEF Total, non_cancel_len
  <2>5. NonCancelBounded' /\ CountersOK'
    BY <1>0, <1>7, <2>4 DEF enqueue_unknown_tier, NonCancelBounded, CountersOK
  <2>6. shed' \subseteq Intent /\ CancelsNeverShed'
    BY <1>0, <1>7, <2>1 DEF enqueue_unknown_tier, CancelsNeverShed, LaneIntent, PriorityTier
  <2> QED BY <1>0, <1>7, <2>3, <2>5, <2>6 DEF enqueue_unknown_tier, SchedulerInv
<1>8. CASE UNCHANGED schedulerVars
  BY <1>0, <1>8 DEF schedulerVars, SchedulerInv, LanesOK, CountersOK, NonCancelBounded,
                    CancelsNeverShed, non_cancel_len
<1> QED BY <1>1, <1>2, <1>3, <1>4, <1>5, <1>6, <1>7, <1>8 DEF Next, enqueue
-----------------------------------------------------------------------------
(* SchedulerInv holds in every state of every scheduler. *)
THEOREM SchedulerInvariant == Spec => []SchedulerInv
<1>1. Init => SchedulerInv
  BY SchedulerInitial
<1>2. SchedulerInv /\ [Next]_schedulerVars => SchedulerInv'
  BY SchedulerStep
<1> QED BY <1>1, <1>2, PTL DEF Spec

(* Whatever the capacity, zero included, enqueue and pop_next keep the     *)
(* backlog of the three tiers within it.                                   *)
THEOREM BacklogBounded == Spec => []NonCancelBounded
<1>1. SchedulerInv => NonCancelBounded
  BY DEF SchedulerInv
<1> QED BY <1>1, SchedulerInvariant, PTL

(* pop_oldest_non_cancel never takes a cancel. *)
THEOREM CancelsAreKept == Spec => []CancelsNeverShed
<1>1. SchedulerInv => CancelsNeverShed
  BY DEF SchedulerInv
<1> QED BY <1>1, SchedulerInvariant, PTL

(* The head-only scan of pop_oldest_non_cancel sheds an intent no other    *)
(* waiting one is older than.                                              *)
THEOREM ShedsOldest == Spec => ShedsTheOldest
<1> DEFINE Older == \A d \in shed' \ shed :
               d \in Queued => \A q \in Queued : q.lane # "cancel"
                                    => d.emitted_at <= q.emitted_at
<1>1. ASSUME SchedulerInv, [Next]_schedulerVars PROVE [Older]_schedulerVars
  <2>1. CASE UNCHANGED schedulerVars
    BY <2>1
  <2>2. ASSUME enqueue_unknown_tier \/ \E tier \in PriorityTier : enqueue_shedding(tier)
        PROVE  Older
    <3> DEFINE h == Head(queues[oldest_lane])
    <3>1. shed' \ shed \subseteq {h}
      BY <2>2 DEF enqueue_shedding, enqueue_unknown_tier
    <3>2. SUFFICES ASSUME NEW q \in Queued, q.lane # "cancel"
                   PROVE  h.emitted_at <= q.emitted_at
      BY <3>1
    <3>a. PICK l \in Lanes : q \in {queues[l][i] : i \in DOMAIN queues[l]}
      BY DEF Queued
    <3>b. queues[l] \in Seq(Intent)
      BY <1>1 DEF SchedulerInv, LanesOK
    <3>3. PICK i \in 1 .. Len(queues[l]) : q = queues[l][i]
      BY <3>a, <3>b, LenProperties
    <3>4. LaneOK(queues[l], l, now) /\ now \in Int
      BY <1>1 DEF SchedulerInv, LanesOK, CountersOK
    <3>5. q \in LaneIntent(l)
      BY <3>3, <3>4, ElementOfSeq DEF LaneOK
    <3>6. l \in PriorityTier
      BY <3>2, <3>5 DEF LaneIntent, Lanes
    <3>7. queues[l] # <<>>
      BY <3>3
    <3>8. Head(queues[l]).emitted_at <= q.emitted_at /\ Head(queues[l]).emitted_at \in Int
      BY <3>3, <3>4, <3>7, HeadOfLane
    <3>9. h \in LaneIntent(oldest_lane) /\ h.emitted_at <= Head(queues[l]).emitted_at
      BY <1>1, <2>2, <3>6, <3>7, ShedIsWaiting DEF enqueue_shedding, enqueue_unknown_tier
    <3>10. h.emitted_at \in Int /\ q.emitted_at \in Int
      BY <3>5, <3>9, BoundsAssumption DEF LaneIntent, Intent
    <3> HIDE DEF h
    <3> QED BY <3>8, <3>9, <3>10
  <2>3. ASSUME NEW tier \in PriorityTier, emitted < MaxIntents, enqueue_refused(tier) PROVE Older
    <3>1. queues["fast"] = <<>> /\ queues["standard"] = <<>> /\ queues["relaxed"] = <<>>
      <4>1. PICK a \in Nat, b \in Nat, c \in Nat :
              /\ a = Len(queues["fast"]) /\ b = Len(queues["standard"])
              /\ c = Len(queues["relaxed"])
        BY <1>1 DEF SchedulerInv, LanesOK, Lanes, PriorityTier
      <4>2. a + b + c <= 0
        BY <1>1, <2>3, <4>1 DEF SchedulerInv, NonCancelBounded, non_cancel_len, enqueue_refused
      <4>3. a = 0 /\ b = 0 /\ c = 0
        BY <4>2
      <4> QED BY <1>1, <4>1, <4>3, EmptySeq DEF SchedulerInv, LanesOK, Lanes, PriorityTier
    <3>2. \A q \in Queued : q.lane = "cancel"
      <4> SUFFICES ASSUME NEW q \in Queued PROVE q.lane = "cancel"
        OBVIOUS
      <4>1. PICK l \in Lanes : q \in {queues[l][i] : i \in DOMAIN queues[l]}
        BY DEF Queued
      <4>2. l = "cancel"
        <5> SUFFICES ASSUME l \in PriorityTier PROVE FALSE
          BY DEF Lanes
        <5>1. queues[l] = <<>>
          BY <3>1 DEF PriorityTier
        <5>2. DOMAIN <<>> = {}
          OBVIOUS
        <5> QED BY <4>1, <5>1, <5>2
      <4>3. queues[l] \in Seq(LaneIntent("cancel"))
        BY <1>1, <4>2 DEF SchedulerInv, LanesOK, LaneOK
      <4> QED BY <4>1, <4>3, LenProperties, ElementOfSeq DEF LaneIntent
    <3> QED BY <3>2
  <2>4. CASE shed' = shed
    BY <2>4
  <2> QED BY <1>1, <2>1, <2>2, <2>3, <2>4 DEF Next, enqueue, enqueue_cancel, enqueue_admitted,
                                          pop_next, ClockTick
<1>2. SchedulerInv /\ [Next]_schedulerVars => [Older]_schedulerVars
  BY <1>1
<1> QED BY <1>2, SchedulerInvariant, PTL DEF Spec, ShedsTheOldest

-----------------------------------------------------------------------------
(* Where intents end up.                                                   *)

(* The intents of one lane, and of all of them. *)
InLane(q) == {q[i] : i \in 1 .. Len(q)}
InLanes(p) == UNION {InLane(p[l]) : l \in Lanes}

(* A lane's serial numbers increase from its head on. *)
Numbered(q) == \A i, j \in 1 .. Len(q) : i < j => q[i].id < q[j].id

LanesNumbered(p) ==
    /\ p \in [Lanes -> Seq(Intent)]
    /\ \A l \in Lanes : p[l] \in Seq(LaneIntent(l)) /\ Numbered(p[l])

(* Of n intents emitted each is waiting, popped or shed. *)
Placed(waiting, popped, dropped, n) ==
    LET everyone == waiting \union popped \union dropped
    IN  /\ waiting \intersect popped = {}
        /\ waiting \intersect dropped = {}
        /\ popped \intersect dropped = {}
        /\ \A x \in everyone : x.id \in 1 .. n
        /\ \A x, y \in everyone : x.id = y.id => x = y
        /\ \A k \in 1 .. n : \E x \in everyone : x.id = k

(* What was popped from a lane was emitted before what waits in it. *)
PoppedBefore(popped, waiting) ==
    \A d \in popped, x \in waiting : d.lane = x.lane => d.id < x.id

ShedCounted == IsFiniteSet(shed) /\ shed_non_cancel_intents = Cardinality(shed)

OrderInv ==
    /\ SchedulerInv
    /\ LanesNumbered(queues)
    /\ Placed(InLanes(queues), Drained, shed, emitted)
    /\ PoppedBefore(Drained, InLanes(queues))
    /\ LanesAreFifo
    /\ ShedCounted
-----------------------------------------------------------------------------
(* Sets of intents. *)

(* An intent arrives with the next serial number, and is queued or shed. *)
LEMMA ArrivesWaiting ==
    ASSUME NEW W, NEW P, NEW D, NEW n \in Nat, Placed(W, P, D, n), NEW e, e.id = n + 1
    PROVE  Placed(W \union {e}, P, D, n + 1) /\ e \notin W \union P \union D
<1>1. 1 .. n + 1 = (1 .. n) \union {n + 1} /\ n + 1 \notin 1 .. n
  OBVIOUS
<1>2. e \notin W \union P \union D
  BY <1>1 DEF Placed
<1> QED
  BY <1>1, <1>2 DEF Placed

(* An intent shed on arrival takes the next number and the third place.    *)
LEMMA ArrivesShed ==
    ASSUME NEW W, NEW P, NEW D, NEW n \in Nat, Placed(W, P, D, n), NEW e, e.id = n + 1
    PROVE  Placed(W, P, D \union {e}, n + 1) /\ e \notin W \union P \union D
<1>1. 1 .. n + 1 = (1 .. n) \union {n + 1} /\ n + 1 \notin 1 .. n
  OBVIOUS
<1>2. e \notin W \union P \union D
  BY <1>1 DEF Placed
<1> QED
  BY <1>1, <1>2 DEF Placed

(* A waiting intent is popped or shed. *)
LEMMA LeavesWaiting ==
    ASSUME NEW W, NEW P, NEW D, NEW n, Placed(W, P, D, n), NEW h \in W
    PROVE  /\ Placed(W \ {h}, P \union {h}, D, n)
           /\ Placed(W \ {h}, P, D \union {h}, n)
           /\ h \notin D
BY DEF Placed

(* Counting, place by place, the intents with one serial number gives one. *)
LEMMA OnePlace ==
    ASSUME NEW W, NEW P, NEW D, NEW n, Placed(W, P, D, n), NEW k \in 1 .. n
    PROVE  Cardinality({i \in W : i.id = k}) + Cardinality({i \in P : i.id = k})
               + Cardinality({i \in D : i.id = k}) = 1
<1> DEFINE With(S) == {i \in S : i.id = k}
<1>1. PICK x \in W \union P \union D : x.id = k
  BY DEF Placed
<1>2. \A S : S \subseteq W \union P \union D
               => With(S) = IF x \in S THEN {x} ELSE {}
  BY <1>1 DEF Placed
<1>3. Cardinality({x}) = 1 /\ Cardinality({}) = 0
  BY FS_Singleton, FS_EmptySet
<1>4. \A S : S \subseteq W \union P \union D
               => Cardinality(With(S)) = IF x \in S THEN 1 ELSE 0
  BY <1>2, <1>3
<1> HIDE DEF With
<1>5. /\ Cardinality(With(W)) = IF x \in W THEN 1 ELSE 0
      /\ Cardinality(With(P)) = IF x \in P THEN 1 ELSE 0
      /\ Cardinality(With(D)) = IF x \in D THEN 1 ELSE 0
  BY <1>4
<1>6. \/ x \in W /\ x \notin P /\ x \notin D
      \/ x \notin W /\ x \in P /\ x \notin D
      \/ x \notin W /\ x \notin P /\ x \in D
  BY <1>1 DEF Placed
<1>7. Cardinality(With(W)) + Cardinality(With(P)) + Cardinality(With(D)) = 1
  BY <1>5, <1>6
<1> QED
  BY <1>7 DEF With
-----------------------------------------------------------------------------
(* Lanes. *)

(* The intents of the lanes are those Queued names. *)
LEMMA QueuedIsInLanes ==
    ASSUME LanesNumbered(queues)
    PROVE  Queued = InLanes(queues)
<1>1. \A l \in Lanes : DOMAIN queues[l] = 1 .. Len(queues[l])
  BY LenProperties DEF LanesNumbered
<1> QED
  BY <1>1 DEF Queued, InLanes, InLane

(* A lane holds its own intents. *)
LEMMA LaneOfIntent ==
    ASSUME NEW p, LanesNumbered(p), NEW l \in Lanes, NEW x \in InLane(p[l])
    PROVE  x \in Intent /\ x.lane = l
<1>1. PICK k \in 1 .. Len(p[l]) : x = p[l][k]
  BY DEF InLane
<1>2. p[l] \in Seq(LaneIntent(l))
  BY DEF LanesNumbered
<1>3. x \in LaneIntent(l)
  BY <1>1, <1>2, ElementOfSeq
<1> QED
  BY <1>3 DEF LaneIntent

(* A new intent goes behind its lane. *)
LEMMA InLanesPushed ==
    ASSUME NEW p, LanesNumbered(p), NEW l \in Lanes, NEW e \in LaneIntent(l),
           \A x \in InLanes(p) : x.id < e.id,
           NEW q, q = [p EXCEPT ![l] = Append(@, e)]
    PROVE  LanesNumbered(q) /\ InLanes(q) = InLanes(p) \union {e}
<1>1. /\ p[l] \in Seq(LaneIntent(l)) /\ p[l] \in Seq(Intent) /\ Len(p[l]) \in Nat
      /\ Numbered(p[l]) /\ e \in Intent
  BY DEF LanesNumbered, LaneIntent
<1>2. /\ Append(p[l], e) \in Seq(LaneIntent(l)) /\ Append(p[l], e) \in Seq(Intent)
      /\ Len(Append(p[l], e)) = Len(p[l]) + 1
      /\ \A k \in 1 .. Len(p[l]) : Append(p[l], e)[k] = p[l][k]
      /\ Append(p[l], e)[Len(p[l]) + 1] = e
  BY <1>1
<1>3. 1 .. Len(p[l]) + 1 = (1 .. Len(p[l])) \union {Len(p[l]) + 1}
  BY <1>1
<1>4. InLane(Append(p[l], e)) = InLane(p[l]) \union {e}
  BY <1>2, <1>3 DEF InLane
<1>5. Numbered(Append(p[l], e))
  <2> SUFFICES ASSUME NEW i \in 1 .. Len(p[l]) + 1, NEW j \in 1 .. Len(p[l]) + 1, i < j
               PROVE  Append(p[l], e)[i].id < Append(p[l], e)[j].id
    BY <1>2 DEF Numbered
  <2>1. i \in 1 .. Len(p[l])
    BY <1>1
  <2>2. CASE j \in 1 .. Len(p[l])
    BY <1>1, <1>2, <2>1, <2>2 DEF Numbered
  <2>3. CASE j = Len(p[l]) + 1
    <3>1. p[l][i] \in InLanes(p)
      BY <2>1 DEF InLanes, InLane
    <3> QED
      BY <1>2, <2>1, <2>3, <3>1
  <2> QED
    BY <1>3, <2>2, <2>3
<1>6. q[l] = Append(p[l], e) /\ \A k \in Lanes \ {l} : q[k] = p[k]
  BY DEF LanesNumbered
<1>7. LanesNumbered(q)
  BY <1>2, <1>5, <1>6 DEF LanesNumbered
<1>8. InLanes(q) = InLanes(p) \union {e}
  BY <1>4, <1>6 DEF InLanes
<1> QED
  BY <1>7, <1>8

(* The head leaves its lane, and is the first of the lane's intents. *)
LEMMA InLanesPopped ==
    ASSUME NEW p, LanesNumbered(p), NEW l \in Lanes, p[l] # <<>>,
           NEW q, q = [p EXCEPT ![l] = Tail(@)]
    PROVE  /\ LanesNumbered(q)
           /\ Head(p[l]) \in LaneIntent(l) /\ Head(p[l]) \in InLanes(p)
           /\ InLanes(q) = InLanes(p) \ {Head(p[l])}
           /\ \A x \in InLanes(q) : x.lane = l => Head(p[l]).id < x.id
<1> DEFINE h == Head(p[l])
<1>1. /\ p[l] \in Seq(LaneIntent(l)) /\ p[l] \in Seq(Intent)
      /\ Numbered(p[l]) /\ Len(p[l]) \in Nat \ {0}
  BY EmptySeq DEF LanesNumbered
<1>2. /\ h = p[l][1] /\ h \in LaneIntent(l)
      /\ Tail(p[l]) \in Seq(LaneIntent(l)) /\ Tail(p[l]) \in Seq(Intent)
      /\ Len(Tail(p[l])) = Len(p[l]) - 1
      /\ \A k \in 1 .. Len(Tail(p[l])) : Tail(p[l])[k] = p[l][k + 1]
  BY <1>1, HeadTailProperties
<1>3. /\ 1 .. Len(p[l]) = {1} \union {k + 1 : k \in 1 .. Len(p[l]) - 1}
      /\ \A k \in 1 .. Len(p[l]) - 1 : k + 1 \in 1 .. Len(p[l]) /\ 1 < k + 1
  <2>1. \A k \in 1 .. Len(p[l]) : k # 1 => k - 1 \in 1 .. Len(p[l]) - 1 /\ k = (k - 1) + 1
    BY <1>1
  <2> QED
    BY <1>1, <2>1
<1> HIDE DEF h
<1>4. InLane(p[l]) = InLane(Tail(p[l])) \union {h}
  BY <1>2, <1>3 DEF InLane
<1>5. \A x \in InLane(Tail(p[l])) : h.id < x.id
  BY <1>1, <1>2, <1>3 DEF InLane, Numbered
<1>6. h \notin InLane(Tail(p[l]))
  <2>1. h.id \in Int
    BY <1>2, BoundsAssumption DEF LaneIntent, Intent
  <2> QED
    BY <1>5, <2>1
<1>7. Numbered(Tail(p[l]))
  BY SMTT(20), <1>1, <1>2, <1>3 DEF Numbered
<1>8. q[l] = Tail(p[l]) /\ \A k \in Lanes \ {l} : q[k] = p[k]
  BY DEF LanesNumbered
<1>9. \A k \in Lanes : \A x \in InLane(p[k]) : x.lane = k
  BY LaneOfIntent
<1>10. LanesNumbered(q)
  BY <1>2, <1>7, <1>8 DEF LanesNumbered
<1>11. \A k \in Lanes : \A x \in InLane(q[k]) : x.lane = k
  BY <1>10, LaneOfIntent
<1>12. h.lane = l
  BY <1>2 DEF LaneIntent
<1>13. InLanes(q) = InLanes(p) \ {h}
  BY <1>4, <1>6, <1>8, <1>9, <1>12 DEF InLanes
<1>14. \A x \in InLanes(q) : x.lane = l => h.id < x.id
  BY <1>5, <1>8, <1>11 DEF InLanes
<1>15. h \in InLanes(p)
  BY <1>4 DEF InLanes
<1> QED
  BY <1>2, <1>10, <1>13, <1>14, <1>15 DEF h
-----------------------------------------------------------------------------
(* The steps.  Each says what became of the set of waiting intents. *)

(* Popped intents stay before the waiting ones when a new one arrives, and *)
(* when some are shed.                                                     *)
LEMMA StillBefore ==
    ASSUME NEW P, NEW W, PoppedBefore(P, W), NEW V, V \subseteq W
    PROVE  PoppedBefore(P, V)
BY DEF PoppedBefore

(* What arrives has a greater number than all that wait.                   *)
LEMMA NewestIsLast ==
    ASSUME NEW W, NEW P, NEW D, NEW n \in Nat, Placed(W, P, D, n), PoppedBefore(P, W),
           NEW e, e.id = n + 1
    PROVE  /\ PoppedBefore(P, W \union {e})
           /\ \A x \in W : x.id < e.id
BY DEF Placed, PoppedBefore

(* The types that the proofs below use.                                    *)
LEMMA OrderFacts ==
    ASSUME OrderInv
    PROVE  /\ emitted \in Nat /\ shed_non_cancel_intents \in Nat
           /\ drained \in Seq(Intent) /\ IsFiniteSet(shed)
BY BoundsAssumption DEF OrderInv, SchedulerInv, CountersOK, ShedCounted

(* What is kept while nothing is popped or shed. *)
LEMMA NothingLeft ==
    ASSUME OrderInv, UNCHANGED <<drained, shed, shed_non_cancel_intents>>
    PROVE  Drained' = Drained /\ LanesAreFifo' /\ ShedCounted'
BY DEF OrderInv, Drained, LanesAreFifo, ShedCounted

(* enqueue pushes onto a lane. *)
LEMMA PushKeepsOrder ==
    ASSUME OrderInv, emitted < MaxIntents, NEW l \in Lanes, emitted' = emitted + 1,
           queues' = [queues EXCEPT ![l] = Append(@, Emit(l))],
           UNCHANGED <<drained, shed, shed_non_cancel_intents>>
    PROVE  /\ LanesNumbered(queues')
           /\ Placed(InLanes(queues'), Drained', shed', emitted')
           /\ PoppedBefore(Drained', InLanes(queues'))
           /\ LanesAreFifo' /\ ShedCounted'
<1>1. emitted \in Nat
  BY OrderFacts
<1>2. Emit(l) \in LaneIntent(l) /\ Emit(l).id = emitted + 1
  BY BoundsAssumption DEF Emit, LaneIntent, Intent, OrderInv, SchedulerInv, CountersOK
<1>3. /\ PoppedBefore(Drained, InLanes(queues) \union {Emit(l)})
      /\ \A x \in InLanes(queues) : x.id < Emit(l).id
  BY <1>1, <1>2, NewestIsLast DEF OrderInv
<1>4. LanesNumbered(queues') /\ InLanes(queues') = InLanes(queues) \union {Emit(l)}
  <2>1. LanesNumbered(queues)
    BY DEF OrderInv
  <2>2. PICK e \in LaneIntent(l) : e = Emit(l)
    BY <1>2
  <2>3. queues' = [queues EXCEPT ![l] = Append(@, e)]
    BY <2>2
  <2>4. \A x \in InLanes(queues) : x.id < e.id
    BY <1>3, <2>2
  <2>5. LanesNumbered(queues') /\ InLanes(queues') = InLanes(queues) \union {e}
    BY <2>1, <2>3, <2>4, InLanesPushed
  <2> QED
    BY <2>2, <2>5
<1>5. Placed(InLanes(queues'), Drained, shed, emitted + 1)
  <2>1. Placed(InLanes(queues), Drained, shed, emitted)
    BY DEF OrderInv
  <2>2. Placed(InLanes(queues) \union {Emit(l)}, Drained, shed, emitted + 1)
    BY <1>1, <1>2, <2>1, ArrivesWaiting
  <2> QED
    BY <1>4, <2>2
<1> QED
  BY <1>3, <1>4, <1>5, NothingLeft

(* One more intent shed, one more counted. *)
LEMMA OneMoreShed ==
    ASSUME ShedCounted, NEW h, h \notin shed, shed' = shed \union {h},
           shed_non_cancel_intents' = shed_non_cancel_intents + 1
    PROVE  ShedCounted'
BY FS_AddElement DEF ShedCounted

(* enqueue at the capacity. *)
LEMMA SheddingKeepsOrder ==
    ASSUME OrderInv, emitted < MaxIntents, NEW tier \in PriorityTier, enqueue_shedding(tier)
    PROVE  /\ LanesNumbered(queues')
           /\ Placed(InLanes(queues'), Drained', shed', emitted')
           /\ PoppedBefore(Drained', InLanes(queues'))
           /\ LanesAreFifo' /\ ShedCounted'
<1> DEFINE l == oldest_lane
           h == Head(queues[l])
           q == [queues EXCEPT ![l] = Tail(@)]
<1>1. l \in Lanes /\ queues[l] # <<>> /\ tier \in Lanes
  BY ShedIsWaiting DEF enqueue_shedding, OrderInv, Lanes
<1>2. /\ queues' = [q EXCEPT ![tier] = Append(@, Emit(tier))]
      /\ shed' = shed \union {h} /\ emitted' = emitted + 1
      /\ shed_non_cancel_intents' = shed_non_cancel_intents + 1
      /\ UNCHANGED drained
  BY DEF enqueue_shedding
<1> HIDE DEF l
<1>3. /\ LanesNumbered(q) /\ h \in InLanes(queues)
      /\ InLanes(q) = InLanes(queues) \ {h}
  BY <1>1, InLanesPopped DEF OrderInv
<1> HIDE DEF h, q
<1>4. emitted \in Nat /\ Emit(tier) \in LaneIntent(tier) /\ Emit(tier).id = emitted + 1
  BY <1>1, BoundsAssumption, OrderFacts
     DEF Emit, LaneIntent, Intent, OrderInv, SchedulerInv, CountersOK
<1>5. Placed(InLanes(q), Drained, shed', emitted) /\ h \notin shed
  <2>1. Placed(InLanes(queues), Drained, shed, emitted)
    BY DEF OrderInv
  <2>2. /\ Placed(InLanes(queues) \ {h}, Drained, shed \union {h}, emitted)
        /\ h \notin shed
    BY <1>3, <2>1, LeavesWaiting
  <2> QED
    BY <1>2, <1>3, <2>2
<1>6. PoppedBefore(Drained, InLanes(q))
  BY <1>3, StillBefore DEF OrderInv
<1>7. /\ PoppedBefore(Drained, InLanes(q) \union {Emit(tier)})
      /\ \A x \in InLanes(q) : x.id < Emit(tier).id
  BY <1>4, <1>5, <1>6, NewestIsLast
<1>8. LanesNumbered(queues') /\ InLanes(queues') = InLanes(q) \union {Emit(tier)}
  BY <1>1, <1>2, <1>3, <1>4, <1>7, InLanesPushed
<1>9. Placed(InLanes(queues'), Drained, shed', emitted')
  <2>1. Placed(InLanes(q) \union {Emit(tier)}, Drained, shed', emitted + 1)
    BY <1>4, <1>5, ArrivesWaiting
  <2> QED
    BY <1>2, <1>8, <2>1
<1>10. Drained' = Drained /\ LanesAreFifo'
  BY <1>2 DEF OrderInv, Drained, LanesAreFifo
<1>11. ShedCounted'
  BY <1>2, <1>5, OneMoreShed DEF OrderInv
<1> QED
  BY <1>7, <1>8, <1>9, <1>10, <1>11

(* enqueue at the capacity that then fails on the tier. *)
LEMMA ShedForNothingKeepsOrder ==
    ASSUME OrderInv, enqueue_unknown_tier
    PROVE  /\ LanesNumbered(queues')
           /\ Placed(InLanes(queues'), Drained', shed', emitted')
           /\ PoppedBefore(Drained', InLanes(queues'))
           /\ LanesAreFifo' /\ ShedCounted'
<1> DEFINE l == oldest_lane
           h == Head(queues[l])
<1>1. l \in Lanes /\ queues[l] # <<>>
  BY ShedIsWaiting DEF enqueue_unknown_tier, OrderInv, Lanes
<1>2. /\ queues' = [queues EXCEPT ![l] = Tail(@)]
      /\ shed' = shed \union {h}
      /\ shed_non_cancel_intents' = shed_non_cancel_intents + 1
      /\ UNCHANGED <<drained, emitted>>
  BY DEF enqueue_unknown_tier
<1> HIDE DEF l
<1>3. /\ LanesNumbered(queues') /\ h \in InLanes(queues)
      /\ InLanes(queues') = InLanes(queues) \ {h}
  BY <1>1, <1>2, InLanesPopped DEF OrderInv
<1> HIDE DEF h
<1>4. Placed(InLanes(queues'), Drained, shed', emitted') /\ h \notin shed
  <2>1. Placed(InLanes(queues), Drained, shed, emitted)
    BY DEF OrderInv
  <2>2. /\ Placed(InLanes(queues) \ {h}, Drained, shed \union {h}, emitted)
        /\ h \notin shed
    BY <1>3, <2>1, LeavesWaiting
  <2> QED
    BY <1>2, <1>3, <2>2
<1>5. PoppedBefore(Drained, InLanes(queues'))
  BY <1>3, StillBefore DEF OrderInv
<1>6. Drained' = Drained /\ LanesAreFifo'
  BY <1>2 DEF OrderInv, Drained, LanesAreFifo
<1>7. ShedCounted'
  BY <1>2, <1>4, OneMoreShed DEF OrderInv
<1> QED
  BY <1>3, <1>4, <1>5, <1>6, <1>7

(* enqueue without a capacity. *)
LEMMA RefusalKeepsOrder ==
    ASSUME OrderInv, NEW tier \in PriorityTier, enqueue_refused(tier)
    PROVE  /\ LanesNumbered(queues')
           /\ Placed(InLanes(queues'), Drained', shed', emitted')
           /\ PoppedBefore(Drained', InLanes(queues'))
           /\ LanesAreFifo' /\ ShedCounted'
<1>1. /\ shed' = shed \union {Emit(tier)} /\ emitted' = emitted + 1
      /\ shed_non_cancel_intents' = shed_non_cancel_intents + 1
      /\ UNCHANGED <<queues, drained>>
  BY DEF enqueue_refused
<1>2. emitted \in Nat /\ Emit(tier).id = emitted + 1
  BY OrderFacts DEF Emit
<1>3. Placed(InLanes(queues), Drained, shed', emitted') /\ Emit(tier) \notin shed
  BY <1>1, <1>2, ArrivesShed DEF OrderInv
<1>4. ShedCounted'
  BY <1>1, <1>3, OneMoreShed DEF OrderInv
<1> QED
  BY <1>1, <1>3, <1>4 DEF OrderInv, Drained, LanesAreFifo

(* pop_next takes the head of a lane behind what was popped from it. *)
LEMMA PopKeepsOrder ==
    ASSUME OrderInv, pop_next
    PROVE  /\ LanesNumbered(queues')
           /\ Placed(InLanes(queues'), Drained', shed', emitted')
           /\ PoppedBefore(Drained', InLanes(queues'))
           /\ LanesAreFifo' /\ ShedCounted'
<1> DEFINE l == next_lane
           h == Head(queues[l])
<1>1. l \in Lanes /\ queues[l] # <<>>
  BY NextLaneWaits DEF pop_next
<1>2. /\ queues' = [queues EXCEPT ![l] = Tail(@)]
      /\ drained' = Append(drained, h)
      /\ UNCHANGED <<shed, shed_non_cancel_intents, emitted>>
  BY DEF pop_next
<1> HIDE DEF l
<1>3. /\ LanesNumbered(queues') /\ h \in LaneIntent(l) /\ h \in InLanes(queues)
      /\ InLanes(queues') = InLanes(queues) \ {h}
      /\ \A x \in InLanes(queues') : x.lane = l => h.id < x.id
  BY <1>1, <1>2, InLanesPopped DEF OrderInv
<1> HIDE DEF h
<1>4. drained \in Seq(Intent) /\ h \in Intent /\ h.lane = l /\ Len(drained) \in Nat
  BY <1>3, OrderFacts DEF LaneIntent
<1>5. /\ DOMAIN drained = 1 .. Len(drained)
      /\ DOMAIN drained' = (1 .. Len(drained)) \union {Len(drained) + 1}
      /\ \A k \in 1 .. Len(drained) : drained'[k] = drained[k]
      /\ drained'[Len(drained) + 1] = h
  BY <1>2, <1>4
<1>6. Drained' = Drained \union {h}
  BY <1>5 DEF Drained
<1>7. Placed(InLanes(queues'), Drained', shed', emitted')
  <2>1. Placed(InLanes(queues), Drained, shed, emitted)
    BY DEF OrderInv
  <2>2. Placed(InLanes(queues) \ {h}, Drained \union {h}, shed, emitted)
    BY <1>3, <2>1, LeavesWaiting
  <2> QED
    BY <1>2, <1>3, <1>6, <2>2
<1>8. PoppedBefore(Drained', InLanes(queues'))
  BY <1>3, <1>4, <1>6 DEF OrderInv, PoppedBefore
<1>9. LanesAreFifo'
  <2> SUFFICES ASSUME NEW i \in DOMAIN drained', NEW j \in DOMAIN drained', i < j,
                      drained'[i].lane = drained'[j].lane
               PROVE  drained'[i].id < drained'[j].id
    BY DEF LanesAreFifo
  <2>1. i \in 1 .. Len(drained)
    BY <1>4, <1>5
  <2>2. CASE j \in 1 .. Len(drained)
    BY <1>5, <2>1, <2>2 DEF OrderInv, LanesAreFifo
  <2>3. CASE j = Len(drained) + 1
    <3>1. drained[i] \in Drained
      BY <1>5, <2>1 DEF Drained
    <3> QED
      BY <1>3, <1>5, <2>1, <2>3, <3>1 DEF OrderInv, PoppedBefore
  <2> QED
    BY <1>5, <2>2, <2>3
<1>10. ShedCounted'
  BY <1>2 DEF OrderInv, ShedCounted
<1> QED
  BY <1>3, <1>7, <1>8, <1>9, <1>10

(* Every call of the scheduler keeps the order of the intents.             *)
LEMMA OrderStep ==
    ASSUME OrderInv, [Next]_schedulerVars
    PROVE  OrderInv'
<1>0. SchedulerInv'
  BY SchedulerStep DEF OrderInv
<1>1. CASE emitted < MaxIntents /\ enqueue_cancel
  BY <1>0, <1>1, PushKeepsOrder DEF enqueue_cancel, Lanes, OrderInv
<1>2. ASSUME NEW tier \in PriorityTier, emitted < MaxIntents, enqueue_admitted(tier)
      PROVE  OrderInv'
  BY <1>0, <1>2, PushKeepsOrder DEF enqueue_admitted, Lanes, OrderInv
<1>3. ASSUME NEW tier \in PriorityTier, emitted < MaxIntents, enqueue_shedding(tier)
      PROVE  OrderInv'
  BY <1>0, <1>3, SheddingKeepsOrder DEF OrderInv
<1>4. ASSUME NEW tier \in PriorityTier, enqueue_refused(tier)
      PROVE  OrderInv'
  BY <1>0, <1>4, RefusalKeepsOrder DEF OrderInv
<1>5. CASE pop_next
  BY <1>0, <1>5, PopKeepsOrder DEF OrderInv
<1>6. CASE UNCHANGED <<queues, shed_non_cancel_intents, emitted, drained, shed>>
  BY <1>0, <1>6 DEF OrderInv, Drained, LanesAreFifo, ShedCounted
<1>7. CASE enqueue_unknown_tier
  BY <1>0, <1>7, ShedForNothingKeepsOrder DEF OrderInv
<1> QED
  BY <1>1, <1>2, <1>3, <1>4, <1>5, <1>6, <1>7 DEF Next, enqueue, ClockTick, schedulerVars

(* The empty scheduler satisfies the invariant.                            *)
LEMMA OrderInitial == ASSUME Init PROVE OrderInv
<1>1. SchedulerInv
  BY SchedulerInitial
<1>2. InLane(<<>>) = {} /\ Numbered(<<>>)
  BY DEF InLane, Numbered
<1>3. LanesNumbered(queues) /\ InLanes(queues) = {}
  BY <1>2 DEF Init, LanesNumbered, InLanes
<1>4. Drained = {} /\ LanesAreFifo
  BY DEF Init, Drained, LanesAreFifo
<1>5. Placed({}, {}, {}, 0) /\ PoppedBefore({}, {})
  BY DEF Placed, PoppedBefore
<1>6. ShedCounted
  BY FS_EmptySet DEF Init, ShedCounted
<1> QED
  BY <1>1, <1>3, <1>4, <1>5, <1>6 DEF Init, OrderInv

(* Places and orders of the intents are as OrderInv says in every state. *)
THEOREM OrderInvariant == Spec => []OrderInv
<1>1. Init => OrderInv
  BY OrderInitial
<1>2. OrderInv /\ [Next]_schedulerVars => OrderInv'
  BY OrderStep
<1> QED
  BY <1>1, <1>2, PTL DEF Spec

(* The lanes, the history and the counters are well-formed. *)
THEOREM SchedulerTypeCorrect == Spec => []TypeOK
<1>1. SchedulerInv => TypeOK
  BY DEF SchedulerInv, LanesOK, CountersOK, TypeOK
<1> QED
  BY <1>1, SchedulerInvariant, PTL

(* enqueue and pop_next lose no intent and duplicate none: each waits, was *)
(* popped, or was shed and counted in shed_non_cancel_intents.             *)
THEOREM IntentsAccountedFor == Spec => []EveryIntentAccountedFor
<1>1. OrderInv => EveryIntentAccountedFor
  <2> SUFFICES ASSUME OrderInv PROVE EveryIntentAccountedFor
    OBVIOUS
  <2>1. Placed(Queued, Drained, shed, emitted)
    BY QueuedIsInLanes DEF OrderInv
  <2> QED
    BY <2>1, OnePlace DEF OrderInv, ShedCounted, EveryIntentAccountedFor
<1> QED
  BY <1>1, OrderInvariant, PTL

(* pop_next empties each lane in the order enqueue filled it, whatever is  *)
(* shed from its head in between.                                          *)
THEOREM LanesFifo == Spec => []LanesAreFifo
<1>1. OrderInv => LanesAreFifo
  BY DEF OrderInv
<1> QED
  BY <1>1, OrderInvariant, PTL

(* pop_next serves a waiting cancel before every order. *)
THEOREM CancelsFirst == Spec => CancelsDrainFirst
<1> DEFINE First == drained' # drained /\ queues["cancel"] # <<>>
                        => drained'[Len(drained')].lane = "cancel"
<1>1. SchedulerInv /\ [Next]_schedulerVars => [First]_schedulerVars
  <2> SUFFICES ASSUME SchedulerInv, [Next]_schedulerVars,
                      drained' # drained, queues["cancel"] # <<>>
               PROVE  drained'[Len(drained')].lane = "cancel"
    OBVIOUS
  <2>1. pop_next
    BY DEF Next, enqueue, enqueue_cancel, enqueue_admitted, enqueue_shedding,
           enqueue_refused, enqueue_unknown_tier, ClockTick, schedulerVars
  <2>2. /\ "cancel" \in Waiting(Lanes)
        /\ Waiting(Lanes) \subseteq {"cancel", "fast", "standard", "relaxed"}
    BY DEF Waiting, Lanes, PriorityTier
  <2>3. /\ Rank("cancel") = 0 /\ Rank("fast") = 1
        /\ Rank("standard") = 2 /\ Rank("relaxed") = 3
    BY DEF Rank
  <2>4. next_lane = "cancel"
    <3>1. \A k \in Waiting(Lanes) : Rank("cancel") <= Rank(k)
      BY <2>2, <2>3
    <3>2. next_lane \in Waiting(Lanes) /\ Rank(next_lane) <= Rank("cancel")
      BY <2>2, <3>1 DEF next_lane
    <3> QED
      BY <2>2, <2>3, <3>2
  <2>5. LaneOK(queues["cancel"], "cancel", now) /\ now \in Int
    BY DEF SchedulerInv, LanesOK, CountersOK, Lanes
  <2>6. Head(queues["cancel"]) \in LaneIntent("cancel")
    BY <2>5, HeadOfLane DEF Lanes
  <2>7. drained' = Append(drained, Head(queues["cancel"])) /\ drained \in Seq(Intent)
    BY <2>1, <2>4 DEF pop_next, SchedulerInv
  <2>8. drained'[Len(drained')] = Head(queues["cancel"])
    BY <2>6, <2>7 DEF LaneIntent
  <2> QED
    BY <2>6, <2>8 DEF LaneIntent
<1>2. Spec => [][First]_schedulerVars
  BY <1>1, SchedulerInvariant, PTL DEF Spec
<1> QED
  BY <1>2 DEF CancelsDrainFirst
=============================================================================
