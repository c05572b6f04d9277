-------------------- MODULE ReservationSearchCacheProofs --------------------
(***************************************************************************)
(* The memoized search answers as the unmemoized one, for every plan,      *)
(* request, duration and cache size: ReservationSearchCache implements     *)
(* ReservationPlan.  BoundsSound is inductive only together with two       *)
(* facts: a remembered answer is not before its origin, and m_last_fit     *)
(* describes an interval that fits the plan as it is now.                  *)
(***************************************************************************)
EXTENDS ReservationSearchCache, SumProofs

USE CacheAssumption

Time == Plan!Time
Fits(n, d, t) == Plan!Fits(plan, n, d, t)

(* A remembered answer is not before the origin of its search. *)
BoundsOrdered ==
  \A k \in DOMAIN bounds :
    bounds[k].earliest # NoFit => bounds[k].origin <= bounds[k].earliest

(* m_last_fit is an interval that fits the current plan. *)
LastFitSound ==
  lastFit # NoLast => Fits(lastFit.nodes, lastFit.duration, lastFit.start)

CacheInv == TypeOK /\ BoundsSound /\ BoundsOrdered /\ LastFitSound

(* What earliest_fit() of the plan returns: the first instant that fits,   *)
(* or NoFit when there is none.                                            *)
LEMMA EarliestFitIs ==
  ASSUME NEW p, NEW n, NEW d, NEW s \in Time,
         NEW f, f = Plan!EarliestFit(p, n, d, s)
  PROVE  \/ /\ f = NoFit
            /\ \A t \in Time : s <= t => ~Plan!Fits(p, n, d, t)
         \/ /\ f \in Time /\ f # NoFit /\ s <= f /\ Plan!Fits(p, n, d, f)
            /\ \A t \in Time : s <= t /\ t < f => ~Plan!Fits(p, n, d, t)
<1> DEFINE All == {t \in Time : s <= t /\ Plan!Fits(p, n, d, t)}
<1> DEFINE First == Plan!FirstFits(p, n, d, s)
<1>0. Time \subseteq Nat
  BY DEF Time, Plan!Time, Plan!PlanAssumption
<1>1. First = {t \in Time : /\ s <= t /\ Plan!Fits(p, n, d, t)
                            /\ \A u \in Time : s <= u /\ u < t => ~Plan!Fits(p, n, d, u)}
  BY DEF Plan!FirstFits, Time
<1>2. CASE First = {}
  <2>1. f = NoFit
    BY <1>2 DEF Plan!EarliestFit, NoFit
  <2>2. ASSUME All # {} PROVE FALSE
    <3>1. PICK x \in All : \A y \in All : x <= y
      BY <2>2, <1>0, LeastExists
    <3>2. \A u \in Time : s <= u /\ u < x => ~Plan!Fits(p, n, d, u)
      <4> SUFFICES ASSUME NEW u \in Time, s <= u, u < x, Plan!Fits(p, n, d, u)
                   PROVE FALSE
        OBVIOUS
      <4>1. u \in All
        OBVIOUS
      <4>2. x <= u
        BY <4>1, <3>1
      <4> HIDE DEF All
      <4>3. x \in Nat /\ u \in Nat
        BY <1>0 DEF All
      <4> QED BY <4>2, <4>3
    <3>3. x \in First
      BY <3>2, <1>1
    <3> QED BY <3>3, <1>2
  <2> QED BY <2>1, <2>2
<1>3. CASE First # {}
  <2>1. f \in First
    BY <1>3 DEF Plan!EarliestFit
  <2>2. f # NoFit
    BY <2>1, <1>1, <1>0 DEF NoFit, Plan!NoFit
  <2> QED BY <2>1, <2>2, <1>1
<1> QED BY <1>2, <1>3

LEMMA TimeFacts == Time \subseteq Nat /\ NoFit \notin Time /\ NoFit = -1
BY DEF Time, Plan!Time, Plan!PlanAssumption, NoFit, Plan!NoFit

(* All capacity queries of a node count share a shape: they need the same  *)
(* instants.                                                               *)
LEMMA ShapeFits ==
  ASSUME NEW n, NEW d \in Durations, NEW t \in Time
  PROVE  /\ Shape(n, d)[1] = n
         /\ Fits(n, d, t) <=> Fits(n, Shape(n, d)[2], t)
<1> DEFINE e == IF d > 0 THEN d ELSE 0
<1>1. d \in Int /\ t \in Nat /\ Time \subseteq Nat
  BY TimeFacts DEF Plan!PlanAssumption
<1>2. Plan!Needs(t, d) = Plan!Needs(t, e)
  <2>1. ASSUME NEW u \in Plan!Time
        PROVE  (t <= u /\ (u = t \/ u < t + d)) <=> (t <= u /\ (u = t \/ u < t + e))
    BY <1>1 DEF Time
  <2> HIDE DEF e
  <2> QED BY <2>1 DEF Plan!Needs
<1>3. Shape(n, d)[1] = n /\ Shape(n, d)[2] = e
  BY DEF Shape
<1> HIDE DEF e
<1> QED BY <1>2, <1>3 DEF Fits, Plan!Fits

(* A search: the answer is that of a search of the plan from s. *)
LEMMA SearchStep ==
  ASSUME CacheInv, NEW n \in Requests, NEW d \in Durations, NEW s \in Origins,
         earliest_fit(n, d, s)
  PROVE  Plan!Search(n, d, s)
<1> DEFINE known == Cached(n, d, s)
<1> DEFINE bound == bounds[Shape(n, d)].earliest
<1> DEFINE from == IF known THEN bound ELSE s
<1>0. s \in Time
  BY DEF Plan!PlanAssumption, Time
<1>1. known => /\ Shape(n, d) \in DOMAIN bounds /\ bounds[Shape(n, d)].origin = s
               /\ bound \in Time \cup {NoFit}
  BY DEF Cached, CacheInv, TypeOK, Bound, Time
<1>2. known => \A t \in Time : s <= t /\ (bound = NoFit \/ t < bound) => ~Fits(n, d, t)
  BY <1>1, ShapeFits DEF CacheInv, BoundsSound, Fits, Time
<1>3. known /\ bound # NoFit => s <= bound
  BY <1>1 DEF CacheInv, BoundsOrdered
<1> HIDE DEF bound, known
<1>4. CASE known /\ bound = NoFit
  <2>1. \A t \in Time : s <= t => ~Plan!Fits(plan, n, d, t)
    BY <1>4, <1>2 DEF Fits
  <2>2. Plan!EarliestFit(plan, n, d, s) = NoFit
    BY <2>1, <1>0, EarliestFitIs
  <2>3. call' = Plan!Searched(n, d, s, NoFit) /\ UNCHANGED plan
    BY <1>4 DEF earliest_fit, known, bound
  <2> QED BY <2>2, <2>3 DEF Plan!Search
<1>5. CASE known => bound # NoFit
  <2>1. call' = Plan!Searched(n, d, s, Plan!EarliestFit(plan, n, d, from)) /\ UNCHANGED plan
    BY <1>5 DEF earliest_fit, known, bound
  <2>2. from \in Time /\ s <= from
    BY <1>0, <1>1, <1>3, <1>5, TimeFacts
  <2>3. \A t \in Time : s <= t /\ t < from => ~Plan!Fits(plan, n, d, t)
    BY <1>0, <1>2, <1>5, TimeFacts DEF Fits
  <2> HIDE DEF from
  <2>4. Plan!FirstFits(plan, n, d, from) = Plan!FirstFits(plan, n, d, s)
    <3>1. ASSUME NEW t \in Time
          PROVE  t \in Plan!FirstFits(plan, n, d, from) <=> t \in Plan!FirstFits(plan, n, d, s)
      BY <1>0, <2>2, <2>3, TimeFacts DEF Plan!FirstFits, Time
    <3> QED BY <3>1 DEF Plan!FirstFits, Time
  <2>5. Plan!EarliestFit(plan, n, d, from) = Plan!EarliestFit(plan, n, d, s)
    BY <2>4 DEF Plan!EarliestFit
  <2> QED BY <2>1, <2>5 DEF Plan!Search
<1> QED BY <1>4, <1>5

(* A search keeps the bounds sound: the new one ends where the first fit   *)
(* is.                                                                     *)
LEMMA SearchKeepsInv ==
  ASSUME CacheInv, NEW n \in Requests, NEW d \in Durations, NEW s \in Origins,
         earliest_fit(n, d, s)
  PROVE  CacheInv'
<1> DEFINE fit == Plan!EarliestFit(plan, n, d, s)
<1>0. s \in Time
  BY DEF Plan!PlanAssumption, Time
<1>1. call' = Plan!Searched(n, d, s, fit) /\ call'.fit = fit /\ plan' = plan
  BY SearchStep DEF Plan!Search, Plan!Searched
<1>2. \/ /\ fit = NoFit
         /\ \A t \in Time : s <= t => ~Plan!Fits(plan, n, d, t)
      \/ /\ fit \in Time /\ fit # NoFit /\ s <= fit /\ Plan!Fits(plan, n, d, fit)
         /\ \A t \in Time : s <= t /\ t < fit => ~Plan!Fits(plan, n, d, t)
  BY <1>0, EarliestFitIs
<1>3. \/ bounds' = bounds
      \/ /\ DOMAIN bounds' = DOMAIN bounds \cup {Shape(n, d)}
         /\ bounds' = [k \in DOMAIN bounds' |->
                IF k = Shape(n, d) THEN [origin |-> s, earliest |-> fit] ELSE bounds[k]]
  BY <1>1 DEF earliest_fit, Remember, Plan!Searched
<1>4. \/ lastFit' = NoLast
      \/ fit # NoFit /\ lastFit' = [nodes |-> n, duration |-> d, start |-> fit]
  BY <1>1 DEF earliest_fit, Plan!Searched
<1> HIDE DEF fit
<1>5. Shape(n, d) \in Requests \X Nat
  BY DEF Shape, Plan!PlanAssumption
<1>6. TypeOK'
  <2>1. fit \in Plan!Time \cup {NoFit}
    BY <1>2 DEF Time
  <2>2. /\ DOMAIN bounds' \subseteq Requests \X Nat
        /\ bounds' \in [DOMAIN bounds' -> Bound]
    <3>1. CASE bounds' = bounds
      BY <3>1 DEF CacheInv, TypeOK
    <3>2. CASE bounds' # bounds
      <4>1. [origin |-> s, earliest |-> fit] \in Bound
        BY <2>1 DEF Bound, Time
      <4>2. \A k \in DOMAIN bounds : bounds[k] \in Bound /\ k \in Requests \X Nat
        BY DEF CacheInv, TypeOK
      <4> QED BY <1>3, <3>2, <4>1, <4>2, <1>5
    <3> QED BY <3>1, <3>2
  <2>3. lastFit' # NoLast => /\ lastFit'.nodes \in Requests
                             /\ lastFit'.duration \in Durations
                             /\ lastFit'.start \in Plan!Time
    BY <1>4, <2>1
  <2> QED BY <1>1, <2>1, <2>2, <2>3 DEF CacheInv, TypeOK
<1>7. ASSUME NEW k \in DOMAIN bounds'
      PROVE  /\ bounds'[k].earliest # NoFit => bounds'[k].origin <= bounds'[k].earliest
             /\ \A t \in Time :
                  /\ bounds'[k].origin <= t
                  /\ bounds'[k].earliest = NoFit \/ t < bounds'[k].earliest
                  => ~Plan!Fits(plan, k[1], k[2], t)
  <2>1. CASE k \in DOMAIN bounds /\ bounds'[k] = bounds[k]
    BY <2>1 DEF CacheInv, BoundsSound, BoundsOrdered, Time
  <2>2. CASE k = Shape(n, d) /\ bounds'[k] = [origin |-> s, earliest |-> fit]
    <3>1. bounds'[k].origin = s /\ bounds'[k].earliest = fit
      BY <2>2
    <3>2. \A t \in Time : Plan!Fits(plan, n, d, t) <=> Plan!Fits(plan, k[1], k[2], t)
      BY <2>2, ShapeFits DEF Fits
    <3> QED BY <3>1, <3>2, <1>2
  <2> QED BY <2>1, <2>2, <1>3
<1>8. BoundsSound' /\ BoundsOrdered'
  BY <1>7, <1>1 DEF BoundsSound, BoundsOrdered, Time
<1>9. LastFitSound'
  <2>1. CASE lastFit' = NoLast
    BY <2>1 DEF LastFitSound, NoLast, NoFit, Plan!NoFit
  <2>2. CASE fit # NoFit /\ lastFit' = [nodes |-> n, duration |-> d, start |-> fit]
    <3>1. Plan!Fits(plan, n, d, fit)
      BY <2>2, <1>2
    <3> QED BY <2>2, <3>1, <1>1 DEF LastFitSound, Fits, Plan!Fits, Plan!Needs, Plan!Time
  <2> QED BY <2>1, <2>2, <1>4
<1> QED BY <1>6, <1>8, <1>9 DEF CacheInv

(* Unsigned subtraction stays in num_nodes_t, and lowers what is at least  *)
(* as large as the nodes taken.                                            *)
LEMMA MinusFacts ==
  ASSUME NEW a \in Plan!Nodes, NEW n \in Plan!Nodes
  PROVE  Plan!Minus(a, n) \in Plan!Nodes /\ (n <= a => Plan!Minus(a, n) <= a)
BY DEF Plan!Minus, Plan!Nodes, Plan!PlanAssumption

(* A reservation: bounds that are kept stay sound, because the last search *)
(* found the whole interval free and so no instant wraps around.           *)
LEMMA ReserveKeepsInv ==
  ASSUME CacheInv, NEW n \in Requests, NEW d \in Durations, NEW s \in Time,
         reserve(n, d, s)
  PROVE  Plan!Reserve(n, d, s) /\ CacheInv'
<1>0. /\ n \in Plan!Nodes /\ d \in Int /\ s \in Nat /\ Time \subseteq Nat
      /\ plan \in [Time -> Plan!Nodes]
  BY TimeFacts DEF Plan!PlanAssumption, CacheInv, TypeOK, Time
<1>1. /\ plan' = Plan!Reserved(plan, s, n, d)
      /\ call' = Plan!Reserving(n, d, s) /\ s + d <= Horizon /\ call'.fit = NoFit
  <2>1. CASE d > 0
    BY <2>1, <1>0 DEF reserve, Plan!Reserving, NoFit
  <2>2. CASE ~(d > 0)
    <3>1. \A u \in Time : ~(s <= u /\ u < s + d)
      BY <2>2, <1>0
    <3>2. Plan!Reserved(plan, s, n, d) = [u \in Time |-> plan[u]]
      BY <3>1 DEF Plan!Reserved, Time
    <3>3. plan' = plan
      BY <2>2, <1>0 DEF reserve
    <3> QED BY <3>2, <3>3, <1>0 DEF reserve, Plan!Reserving, NoFit
  <2> QED BY <2>1, <2>2
<1>2. plan' \in [Time -> Plan!Nodes]
  BY <1>0, <1>1, MinusFacts DEF Plan!Reserved, Time
<1>3. CASE d <= 0
  <2>1. UNCHANGED <<plan, bounds, lastFit>>
    BY <1>3, <1>0 DEF reserve
  <2>2. CacheInv'
    BY <1>1, <2>1 DEF CacheInv, TypeOK, BoundsSound, BoundsOrdered, LastFitSound, Fits,
                Plan!Fits, Plan!Needs, Plan!Time, Plan!Nodes, Bound, NoLast,
                NoFit, Plan!NoFit
  <2> QED BY <2>2, <1>1 DEF Plan!Reserve
<1>4. CASE d > 0
  <2>1. /\ bounds' = IF Covered(s, n, d) THEN bounds ELSE [k \in {} |-> bounds[k]]
        /\ lastFit' = NoLast
    BY <1>4, <1>0 DEF reserve
  <2>2. LastFitSound'
    BY <2>1 DEF LastFitSound, NoLast, NoFit, Plan!NoFit
  <2>3. CASE Covered(s, n, d)
    <3>1. /\ Fits(n, lastFit.duration, s)
          /\ lastFit.duration \in Int /\ d <= lastFit.duration
      BY <2>3 DEF Covered, CacheInv, LastFitSound, TypeOK, Plan!PlanAssumption
    <3>2. ASSUME NEW u \in Time PROVE plan'[u] <= plan[u]
      <4>1. CASE s <= u /\ u < s + d
        <5>1. u \in Plan!Needs(s, lastFit.duration)
          BY <4>1, <3>1, <1>0 DEF Plan!Needs, Time
        <5>2. n <= plan[u]
          BY <5>1, <3>1, <1>0 DEF Fits, Plan!Fits, Plan!Nodes
        <5>3. plan'[u] = Plan!Minus(plan[u], n)
          BY <4>1, <1>1 DEF Plan!Reserved, Time
        <5>4. plan[u] \in Plan!Nodes
          BY <1>0
        <5> QED BY <5>2, <5>3, <5>4, <1>0, MinusFacts
      <4>2. CASE ~(s <= u /\ u < s + d)
        <5>1. plan'[u] = plan[u] /\ plan[u] \in Plan!Nodes
          BY <4>2, <1>0, <1>1 DEF Plan!Reserved, Time
        <5> QED BY <5>1 DEF Plan!Nodes
      <4> QED BY <4>1, <4>2
    <3>3. ASSUME NEW k \in DOMAIN bounds, NEW t \in Time,
                 Plan!Fits(plan', k[1], k[2], t)
          PROVE  Plan!Fits(plan, k[1], k[2], t)
      <4> SUFFICES ASSUME NEW u \in Plan!Needs(t, k[2]) PROVE plan[u] >= k[1]
        BY DEF Plan!Fits
      <4>1. u \in Time /\ plan'[u] >= k[1]
        BY <3>3 DEF Plan!Fits, Plan!Needs, Time
      <4>2. plan'[u] <= plan[u] /\ plan[u] \in Int /\ plan'[u] \in Int
        BY <4>1, <3>2, <1>0, <1>2 DEF Plan!Nodes
      <4>3. k[1] \in Int
        BY DEF CacheInv, TypeOK, Plan!PlanAssumption, Plan!Nodes
      <4> QED BY <4>1, <4>2, <4>3
    <3>4. bounds' = bounds
      BY <2>1, <2>3
    <3>5. BoundsSound' /\ BoundsOrdered'
      BY <3>3, <3>4 DEF CacheInv, BoundsSound, BoundsOrdered, Time
    <3>6. TypeOK'
      BY <1>1, <1>2, <2>1, <3>4 DEF CacheInv, TypeOK, Time
    <3> QED BY <3>5, <3>6, <2>2, <1>1 DEF CacheInv, Plan!Reserve
  <2>4. CASE ~Covered(s, n, d)
    <3>1. bounds' = [k \in {} |-> bounds[k]] /\ DOMAIN bounds' = {}
      BY <2>1, <2>4
    <3>2. BoundsSound' /\ BoundsOrdered'
      BY <3>1 DEF BoundsSound, BoundsOrdered
    <3>3. TypeOK'
      BY <1>1, <1>2, <2>1, <3>1 DEF CacheInv, TypeOK, Time
    <3> QED BY <3>2, <3>3, <2>2, <1>1 DEF CacheInv, Plan!Reserve
  <2> QED BY <2>3, <2>4
<1> QED BY <1>3, <1>4, <1>0

(* CacheInv holds initially and every step keeps it. *)
LEMMA CacheInvInductive == Spec => []CacheInv
<1>1. Init => CacheInv
  BY DEF Init, CacheInv, TypeOK, BoundsSound, BoundsOrdered, LastFitSound, NoLast, NoFit,
         Plan!NoFit, Plan!NoCall, Plan!Reserving
<1>2. CacheInv /\ [Next]_vars => CacheInv'
  <2> SUFFICES ASSUME CacheInv, [Next]_vars PROVE CacheInv'
    OBVIOUS
  <2>1. CASE UNCHANGED vars
    BY <2>1 DEF vars, CacheInv, TypeOK, BoundsSound, BoundsOrdered, LastFitSound, Fits,
                Plan!Fits, Plan!Needs, Plan!Time, Plan!Nodes, Bound, NoLast, NoFit,
                Plan!NoFit
  <2>2. CASE Next
    <3>1. PICK n \in Requests, d \in Durations :
            (\E s \in Origins : earliest_fit(n, d, s)) \/ (\E s \in Time : reserve(n, d, s))
      BY <2>2 DEF Next, Time
    <3> QED BY <3>1, SearchKeepsInv, ReserveKeepsInv
  <2> QED BY <2>1, <2>2
<1> QED BY <1>1, <1>2, PTL DEF Spec

(* BoundsSound holds in every reachable state: no remembered shape fits    *)
(* before the answer that the next search of it resumes from.              *)
THEOREM RememberedBoundsHold == Spec => []BoundsSound
<1>1. CacheInv => BoundsSound
  BY DEF CacheInv
<1> QED BY <1>1, CacheInvInductive, PTL

(* The cache answers every search and applies every reservation as the     *)
(* plan itself would.                                                      *)
THEOREM CacheIsTransparent == Spec => CacheImplementsPlan
<1>1. Init => Plan!Init
  BY DEF Init, Plan!Init, NoFit
<1>2. CacheInv /\ [Next]_vars => [Plan!Next]_<<plan, call>>
  <2> SUFFICES ASSUME CacheInv, Next PROVE Plan!Next
    BY DEF vars
  <2>1. PICK n \in Requests, d \in Durations :
          (\E s \in Origins : earliest_fit(n, d, s)) \/ (\E s \in Time : reserve(n, d, s))
    BY DEF Next, Time
  <2>2. CASE \E s \in Origins : earliest_fit(n, d, s)
    BY <2>2, SearchStep DEF Plan!Next
  <2>3. CASE \E s \in Time : reserve(n, d, s)
    BY <2>3, ReserveKeepsInv DEF Plan!Next, Time
  <2> QED BY <2>1, <2>2, <2>3
<1> QED BY <1>1, <1>2, CacheInvInductive, PTL DEF Spec, Plan!Spec, CacheImplementsPlan
=============================================================================
