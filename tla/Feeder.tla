------------------------------- MODULE Feeder -------------------------------
(***************************************************************************)
(* The MPI job feeder (src/src/mpi/mpi_job_feeder.cpp).  Every rank loads  *)
(* the same trace into a simulation of its own and feeds it every size-th  *)
(* job.  Rounds keep the ranks together: the next submit time is agreed    *)
(* on, the ranks that have jobs for it submit them, and all advance their  *)
(* clocks to it.  The collective operations are MPI's: each of them        *)
(* completes when every rank has called it.                                *)
(***************************************************************************)
EXTENDS OnlineSimulation

CONSTANTS
  FedNodes,   \* --total_nodes
  FedJobs,    \* the records a trace may hold
  FedCount,   \* bound: jobs of the trace
  Sizes       \* MPI_Comm_size

ASSUME FeederAssumption ==
  /\ FedNodes \in Nodes \ {0} /\ FedCount \in Nat /\ Sizes \subseteq Nat \ {0}
  \* RunTimeMode::LIMIT
  /\ \A r \in FedJobs : r.limit > 0 /\ r.run = r.limit

VARIABLES
  fed,      \* the loaded and sorted trace, the same on every rank
  feeder    \* the locals of main() on each rank, counted from 0

feeding == <<fed, feeder>>

Ranks == DOMAIN feeder

(* Mutant: the ranks count from one. *)
get_rank_jobs_from_one(total, rank, size) ==
  SelectSeq([i \in 1 .. total |-> i], LAMBDA i : i > rank + 1 /\ (i - rank) % size = 0)

(* Round robin over the permanent numbers, from one here. *)
get_rank_jobs(total, rank, size) ==
  SelectSeq([i \in 1 .. total |-> i], LAMBDA i : (i - 1) % size = rank)

(* stable_sort() of the loaded records by submit time. *)
Sorted(trace) == \A i, k \in DOMAIN trace : i < k => trace[i].submit <= trace[k].submit

NewFeeder(trace, rank, size) ==
  [step |-> "reduce",
   sim |-> [NewSimulation(Params(FedNodes, 0, "grow", 0)) EXCEPT !.jobs = trace],
   mine |-> get_rank_jobs(Len(trace), rank, size),
   next |-> 0,         \* next_job_idx
   time |-> 0,         \* global_next_submit
   submitted |-> 0,    \* jobs_submitted
   total |-> 0]        \* total_submitted, on rank 0

FeederInit ==
  \E trace \in {t \in [1 .. FedCount -> FedJobs] : Sorted(t)}, size \in Sizes :
    /\ fed = trace
    /\ feeder = [k \in 0 .. size - 1 |-> NewFeeder(trace, k, size)]

Exhausted(f) == f.next = Len(f.mine)
NextJobOf(f) == f.mine[f.next + 1]
my_next_submit(f) == IF Exhausted(f) THEN Infinity ELSE fed[NextJobOf(f)].submit

-----------------------------------------------------------------------------
(* MPI_Allreduce with MPI_MIN.  The same minimum on every rank sends all   *)
(* of them into the round, or all of them out of the loop.                 *)
Allreduce ==
  LET least == Min({my_next_submit(feeder[k]) : k \in Ranks})
  IN  /\ \A k \in Ranks : feeder[k].step = "reduce"
      /\ feeder' = [k \in Ranks |->
           [feeder[k] EXCEPT !.time = least,
                             !.step = IF least = Infinity THEN "drain" ELSE "feed"]]

(* The next own job of the agreed time; an exception aborts every rank. *)
Feed(k) ==
  /\ feeder[k].step = "feed" /\ my_next_submit(feeder[k]) = feeder[k].time
  /\ LET call == submit_job(feeder[k].sim, NextJobOf(feeder[k]))
     IN  feeder' = [feeder EXCEPT
           ![k].sim = call.sim,
           ![k].step = IF call.result = Thrown THEN "aborted" ELSE @,
           ![k].next = @ + 1, ![k].submitted = @ + 1]

(* Then the clock, when the agreed time is ahead of it, and the barrier. *)
Advance(k) ==
  /\ feeder[k].step = "feed" /\ my_next_submit(feeder[k]) # feeder[k].time
  /\ \E call \in {IF feeder[k].time > feeder[k].sim.now
                  THEN advance_to(feeder[k].sim, feeder[k].time)
                  ELSE [sim |-> feeder[k].sim, result |-> "ok"]} :
       feeder' = [feeder EXCEPT
         ![k].sim = call.sim,
         ![k].step = IF call.result = Thrown THEN "aborted" ELSE "barrier"]

Barrier ==
  /\ \A k \in Ranks : feeder[k].step = "barrier"
  /\ feeder' = [k \in Ranks |-> [feeder[k] EXCEPT !.step = "reduce"]]

(* After the loop: the drain, and the count of submissions at rank 0. *)
DrainRank(k) ==
  /\ feeder[k].step = "drain"
  /\ feeder' = [feeder EXCEPT ![k].sim = drain(@).sim, ![k].step = "gather"]

Reduce ==
  /\ \A k \in Ranks : feeder[k].step = "gather"
  /\ feeder' = [k \in Ranks |->
       [feeder[k] EXCEPT
          !.total = IF k = 0 THEN MapThenSumSet(LAMBDA i : feeder[i].submitted, Ranks) ELSE @,
          !.sim = IF k = 0 THEN write_simulated_trace(@) ELSE @,
          !.step = "done"]]

Aborted == \E k \in Ranks : feeder[k].step = "aborted"
FeederOver == Aborted \/ \A k \in Ranks : feeder[k].step = "done"

FeederNext ==
  /\ ~Aborted
  /\ \/ Allreduce \/ Barrier \/ Reduce
     \/ \E k \in Ranks : Feed(k) \/ Advance(k) \/ DrainRank(k)
  /\ UNCHANGED fed

-----------------------------------------------------------------------------
(* What rank k's simulation does with its jobs when they are all submitted *)
(* before its clock moves, as a batch run does.                            *)
Alone(k) ==
  LET mine == get_rank_jobs(Len(fed), k, Cardinality(Ranks))
      turn[i \in 0 .. Len(mine)] ==
        IF i = 0
        THEN [NewSimulation(Params(FedNodes, 0, "grow", 0)) EXCEPT !.jobs = fed]
        ELSE submit_job(turn[i - 1], mine[i]).sim
  IN  drain(turn[Len(mine)]).sim

(* The rounds respect the precondition of the streaming API                *)
(* (mpi_job_feeder.cpp, "no job submitted with submit_time <               *)
(* current_time") and cost nothing: no call throws, every job of the trace *)
(* is submitted on one rank and counted once, and feeding a rank online,   *)
(* with the clock stopped at the submissions of the other ranks too, gives *)
(* the schedule of a batch run of its jobs.                                *)
FedExactly ==
  /\ ~Aborted
  /\ Ranks # {} /\ (\A k \in Ranks : feeder[k].step = "done") =>
       /\ feeder[0].total = FedCount
       /\ \A j \in 1 .. FedCount :
            Cardinality({k \in Ranks : j \in feeder[k].sim.submitted
                                              \cup feeder[k].sim.rejected}) = 1
       /\ \A k \in Ranks : feeder[k].sim.begin = Alone(k).begin
=============================================================================
