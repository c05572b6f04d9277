--------------------------- MODULE SchedulerPlan ---------------------------
(***************************************************************************)
(* What the schedulers plan with (src/src/sim/scheduler_base.cpp): the     *)
(* free nodes now and the releases of the running jobs as a plan of module *)
(* Reservations.  A running job is [end, nodes] with its planned end; the  *)
(* capacity is constant and the planning grid exact (module Simulation     *)
(* varies both).                                                           *)
(***************************************************************************)
EXTENDS Reservations, Sequences, FiniteSets, FiniteSetsExt, TLC

CONSTANT PlanningHorizon   \* --planning_horizon

(* The function itself, tabulated. *)
Table(f) == f @@ << >>

(* run maps the running jobs to their planned releases. *)
reservation_timeline(free, run, t) ==
  Table([u \in Time |->
    free + MapThenSumSet(LAMBDA j : run[j].nodes,
                         {j \in DOMAIN run : t < run[j].end /\ run[j].end <= u})])

(* The running jobs once the jobs of the entries in S have started at t. *)
With(run, S, t) ==
  Table([j \in DOMAIN run \cup {e.job : e \in S} |->
    IF j \in DOMAIN run THEN run[j]
    ELSE LET e == CHOOSE x \in S : x.job = j IN [end |-> t + e.limit, nodes |-> e.nodes]])

reservation_within_horizon(r, t) == r # NoFit /\ r - t <= PlanningHorizon

(* Where an entry fits first from t on, and the plan with it reserved. *)
FitOf(plan, e, t) == EarliestFit(plan, e.nodes, e.limit, t)
ReserveFor(plan, e, r) == Table(Reserved(plan, r, e.nodes, e.limit))

(* calculate_fcfs_reservation(): when the nodes are free, for any time. *)
calculate_fcfs_reservation(plan, e, t) == EarliestFit(plan, e.nodes, 0, t)
=============================================================================
