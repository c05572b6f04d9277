----------------------- MODULE ReservationSearchCache -----------------------
(***************************************************************************)
(* Reservation_Search_Cache (src/src/sim/reservation_search_cache.hpp):    *)
(* the fixed-interval dispatcher repeats searches for the same request     *)
(* shapes while it reserves nodes, and resumes each one from its previous  *)
(* answer.  The wrapped timeline is taken at its word (ReservationPlan).   *)
(***************************************************************************)
EXTENDS Integers, FiniteSets

CONSTANTS Horizon, Word, Requests, Origins, Durations,
          MaxShapes     \* max_cached_shapes

VARIABLES
  plan,     \* m_plan
  call,     \* the last call, with the result of an earliest_fit()
  bounds,   \* m_bounds
  lastFit   \* m_last_fit

vars == <<plan, call, bounds, lastFit>>

Plan == INSTANCE ReservationPlan

ASSUME CacheAssumption == Plan!PlanAssumption /\ MaxShapes \in Nat

NoFit == Plan!NoFit
NoLast == [nodes |-> 0, duration |-> 0, start |-> NoFit]

(* The key of a request shape: every capacity query has duration 0. *)
Shape(n, d) == <<n, IF d > 0 THEN d ELSE 0>>

Init ==
  /\ plan \in [Plan!Time -> Plan!Nodes]
  /\ call = Plan!NoCall
  /\ bounds = [k \in {} |-> [origin |-> 0, earliest |-> NoFit]]
  /\ lastFit = NoLast

(* Mutant: an answer for another origin is used as a bound. *)
CachedForAnyOrigin(n, d, s) == Shape(n, d) \in DOMAIN bounds

(* An earlier answer for the same shape and origin. *)
Cached(n, d, s) ==
  Shape(n, d) \in DOMAIN bounds /\ bounds[Shape(n, d)].origin = s

(* m_bounds after a search: an existing shape is replaced, a new one needs *)
(* room.                                                                   *)
Remember(n, d, s, fit) ==
  IF Shape(n, d) \in DOMAIN bounds \/ Cardinality(DOMAIN bounds) < MaxShapes
  THEN [k \in DOMAIN bounds \cup {Shape(n, d)} |->
          IF k = Shape(n, d) THEN [origin |-> s, earliest |-> fit] ELSE bounds[k]]
  ELSE bounds

(* earliest_fit(): a cached failure is final; a cached success is where    *)
(* the search resumes.                                                     *)
earliest_fit(n, d, s) ==
  LET known == Cached(n, d, s)
      bound == bounds[Shape(n, d)].earliest
      fit   == Plan!EarliestFit(plan, n, d, IF known THEN bound ELSE s)
  IN  /\ UNCHANGED plan
      /\ \/ /\ known /\ bound = NoFit
            /\ call' = Plan!Searched(n, d, s, NoFit)
            /\ lastFit' = NoLast
            /\ UNCHANGED bounds
         \/ /\ known => bound # NoFit
            /\ call' = Plan!Searched(n, d, s, fit)
            /\ bounds' = Remember(n, d, s, fit)
            /\ lastFit' = IF fit = NoFit THEN NoLast
                          ELSE [nodes |-> n, duration |-> d, start |-> fit]

(* Mutant: the last search covers any interval at its start. *)
CoveredWhateverDuration(s, n, d) ==
  lastFit # NoLast /\ lastFit.nodes = n /\ lastFit.start = s

(* The last search verified the interval that is about to be reserved. *)
Covered(s, n, d) ==
  /\ lastFit # NoLast
  /\ lastFit.nodes = n /\ lastFit.start = s
  /\ d <= lastFit.duration

(* reserve(): keeps the bounds only when nodes are known to be subtracted  *)
(* without wrapping.                                                       *)
reserve(n, d, s) ==
  /\ s + d <= Horizon
  /\ call' = Plan!Reserving(n, d, s)
  /\ \/ d <= 0 /\ UNCHANGED <<plan, bounds, lastFit>>
     \/ /\ d > 0
        /\ plan' = Plan!Reserved(plan, s, n, d)
        /\ bounds' = IF Covered(s, n, d) THEN bounds ELSE [k \in {} |-> bounds[k]]
        /\ lastFit' = NoLast

Next ==
  \E n \in Requests, d \in Durations :
    \/ \E s \in Origins : earliest_fit(n, d, s)
    \/ \E s \in Plan!Time : reserve(n, d, s)

Spec == Init /\ [][Next]_vars

-----------------------------------------------------------------------------
Bound == [origin : Origins, earliest : Plan!Time \cup {NoFit}]

(* The plan stays a plan of num_nodes_t values, and m_bounds and           *)
(* m_last_fit hold shapes and starts that searches asked for.              *)
TypeOK ==
  /\ plan \in [Plan!Time -> Plan!Nodes]
  /\ call.fit \in Plan!Time \cup {NoFit}
  /\ DOMAIN bounds \subseteq Requests \X Nat
  /\ bounds \in [DOMAIN bounds -> Bound]
  /\ lastFit # NoLast => lastFit.nodes \in Requests /\ lastFit.duration \in Durations
                           /\ lastFit.start \in Plan!Time

(* "Capacity subtraction cannot move an identical request earlier": no     *)
(* remembered shape fits, in the plan as it is now, between the origin of  *)
(* its search and its remembered answer.                                   *)
BoundsSound ==
  \A k \in DOMAIN bounds : \A t \in Plan!Time :
    /\ bounds[k].origin <= t
    /\ bounds[k].earliest = NoFit \/ t < bounds[k].earliest
    => ~Plan!Fits(plan, k[1], k[2], t)

(* Every answer is the one a search of the plan from the start would give, *)
(* whatever was remembered, evicted or cleared before.                     *)
CacheImplementsPlan == Plan!Spec
=============================================================================
