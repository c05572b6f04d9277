---------------------------- MODULE Reservations ----------------------------
(***************************************************************************)
(* Free nodes over time, instant by instant, and what a reservation plan   *)
(* is asked: does a request fit, where does it fit first, and what is left *)
(* when it is reserved (Reservation_Timeline, src/src/sim/                 *)
(* scheduler_base.hpp).  A plan p is a function from instants to nodes.    *)
(***************************************************************************)
EXTENDS Integers

CONSTANTS
  Horizon,      \* bound: the last segment boundary; free nodes are constant after it
  Word          \* number of values of num_nodes_t (unsigned)

Time  == 0 .. Horizon
Nodes == 0 .. Word - 1

(* std::nullopt *)
NoFit == -1

(* The instants a request that starts at t needs; the first one always. *)
Needs(t, d) == {u \in Time : t <= u /\ (u = t \/ u < t + d)}

Fits(p, n, d, t) == \A u \in Needs(t, d) : p[u] >= n

(* The first instant from s on at which the request fits, if any. *)
FirstFits(p, n, d, s) ==
  {t \in Time : /\ s <= t /\ Fits(p, n, d, t)
                /\ \A u \in Time : s <= u /\ u < t => ~Fits(p, n, d, u)}

EarliestFit(p, n, d, s) ==
  IF FirstFits(p, n, d, s) = {} THEN NoFit
  ELSE CHOOSE t \in FirstFits(p, n, d, s) : TRUE

(* Unsigned subtraction: an infeasible reservation wraps around. *)
Minus(a, n) == IF n <= a THEN a - n ELSE a - n + Word

Reserved(p, s, n, d) ==
  [u \in Time |-> IF s <= u /\ u < s + d THEN Minus(p[u], n) ELSE p[u]]
=============================================================================
