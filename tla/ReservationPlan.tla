--------------------------- MODULE ReservationPlan ---------------------------
(***************************************************************************)
(* What Reservation_Timeline (src/src/sim/scheduler_base.hpp) promises the *)
(* schedulers, instant by instant: free nodes over time, the earliest      *)
(* start of a request, and reservations that subtract nodes over a whole   *)
(* interval.  ReservationTimeline shows that the vector of segments keeps  *)
(* this promise, ReservationSearchCache that the memoized search does.     *)
(***************************************************************************)
EXTENDS Reservations

CONSTANTS
  Requests,     \* node counts of requests
  Origins,      \* earliest starts that searches ask for
  Durations     \* durations of requests; nonpositive = the capacity at a point

PlanAssumption ==
  /\ Horizon \in Nat
  /\ Word \in Nat \ {0}
  /\ Requests \subseteq Nodes
  /\ Durations \subseteq Int
  /\ Origins \subseteq Time

VARIABLES
  plan,     \* free nodes at each instant
  call      \* the last call, with its result when it was a search

Searched(n, d, s, fit) ==
  [op |-> "search", nodes |-> n, duration |-> d, start |-> s, fit |-> fit]
Reserving(n, d, s) ==
  [op |-> "reserve", nodes |-> n, duration |-> d, start |-> s, fit |-> NoFit]
NoCall == Reserving(0, 0, 0)

Init == plan \in [Time -> Nodes] /\ call = NoCall

Search(n, d, s) ==
  /\ call' = Searched(n, d, s, EarliestFit(plan, n, d, s))
  /\ UNCHANGED plan

Reserve(n, d, s) ==
  /\ s + d <= Horizon
  /\ plan' = Reserved(plan, s, n, d)
  /\ call' = Reserving(n, d, s)

Next ==
  \E n \in Requests, d \in Durations :
    \/ \E s \in Origins : Search(n, d, s)
    \/ \E s \in Time : Reserve(n, d, s)

Spec == Init /\ [][Next]_<<plan, call>>
=============================================================================
