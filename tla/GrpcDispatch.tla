---------------------------- MODULE GrpcDispatch ----------------------------
(***************************************************************************)
(* The same dispatch over gRPC sessions                                    *)
(* (src/experimental/multi-cluster/grpc_performance_dispatch.py): one      *)
(* ServerSession (src/python/grpc_multi_server.py) per system, one request *)
(* outstanding on each.  The jobs and samples are those of the MPI run     *)
(* that module Dispatch has completed.                                     *)
(***************************************************************************)
EXTENDS Dispatch, Sessions

VARIABLES
  call,      \* the step of run_experiment() and the sessions it waits for
  next,      \* jobs taken
  windows,   \* the last backfill windows
  horizons,  \* the last prediction horizons
  chosen     \* the decisions

grpc == <<call, next, windows, horizons, chosen>>

GrpcInit ==
  /\ call = [step |-> "idle", of |-> {}] /\ next = 0
  /\ windows = << >> /\ horizons = << >> /\ chosen = << >>

-----------------------------------------------------------------------------
(* Python counterparts, named after their functions.                       *)
eligible(mode, duration, require_prediction) ==
  /\ Known(mode) /\ duration \div mode.truth <= MaxLimit
  /\ require_prediction => Predicted(mode)

(* Mutant: a tie between two modes goes to the GPU. *)
execution_performance_gpu_first(w, k, duration, prefer_gpu, require_prediction) ==
  LET cpu == w.performance[k].cpu
      gpu == w.performance[k].gpu
      modes == {m \in {[name |-> "CPU"] @@ cpu, [name |-> "GPU"] @@ gpu} :
                  /\ eligible(m, duration, require_prediction)
                  /\ m.name = "CPU" => w.requirement # "gpu_only"
                  /\ m.name = "GPU" => w.requirement # "cpu_only" /\ k \in GpuEnabled}
      preferred == {m \in modes : m.name = "GPU"}
  IN  IF prefer_gpu THEN IF preferred # {} THEN preferred ELSE modes
      ELSE {m \in modes : \A o \in modes \ {m} :
              \/ m.predicted > o.predicted
              \/ m.predicted = o.predicted /\ m.name = "GPU"}

(* execution_performance(): the last of CPU, GPU when GPUs are preferred,  *)
(* and otherwise the first with the highest prediction.                    *)
execution_performance(w, k, duration, prefer_gpu, require_prediction) ==
  LET cpu == w.performance[k].cpu
      gpu == w.performance[k].gpu
      modes == {m \in {[name |-> "CPU"] @@ cpu, [name |-> "GPU"] @@ gpu} :
                  /\ eligible(m, duration, require_prediction)
                  /\ m.name = "CPU" => w.requirement # "gpu_only"
                  /\ m.name = "GPU" => w.requirement # "cpu_only" /\ k \in GpuEnabled}
      preferred == {m \in modes : m.name = "GPU"}
  IN  IF prefer_gpu THEN IF preferred # {} THEN preferred ELSE modes
      ELSE {m \in modes : \A o \in modes \ {m} :
              \/ m.predicted > o.predicted
              \/ m.predicted = o.predicted /\ m.name = "CPU"}

fallback_used(job, w) ==
  /\ policy[1] # "WaitTimeOnly"
  /\ \A k \in Systems : job.nodes <= Capacity[k] =>
       execution_performance(w, k, job.duration, FALSE, TRUE) = {}

(* A candidate of choose_system(); the snapshot is in two parts here. *)
candidates(job, w, rule) ==
  LET waits == rule = "WaitTimeOnly"
      build(k, mode) ==
        LET speedup == IF waits THEN 1 ELSE mode.predicted
            actual  == job.duration \div mode.truth
            limit   == IF policy[2] = "actual" THEN [limit |-> actual, doublings |-> 0]
                       ELSE adjust_time_limit(job.limit \div speedup, actual)
        IN  [index |-> k, mode |-> mode.name, speedup |-> speedup,
             wait |-> estimate_wait(windows[k], job.nodes, Ceil(limit.limit), horizons[k]),
             predicted |-> job.duration \div speedup, actual |-> actual,
             limit |-> Ceil(limit.limit), doublings |-> limit.doublings,
             fallback |-> fallback_used(job, w), now |-> windows[k].available >= job.nodes,
             head |-> has_waiting_head(windows[k])]
      built == UNION {{build(k, mode) :
                         mode \in execution_performance(w, k, job.duration, waits, ~waits)} :
                      k \in {i \in Systems : job.nodes <= Capacity[i]}}
  IN  {c \in built : /\ ~waits => c.predicted <= MaxLimit
                     /\ c.actual <= MaxLimit /\ c.limit <= MaxLimit
                     /\ c.wait < Infinite \/ rule = "RelPerfOnly"}

(* choose_system(): the pools and keys of the three policies. *)
choose_candidate(job, w) ==
  LET available(S) == {c \in S : c.now}
      pool(S)     == IF available(S) # {} THEN available(S) ELSE S
      least(S)    == {c \in S : \A b \in S : c.index <= b.index}
      fastest(S)  == {c \in S : \A b \in S : c.speedup >= b.speedup}
      shortest(S) == {c \in S : \A b \in S : c.wait <= b.wait}
      soonest(S)  == {c \in S : \A b \in S : turnaround(c) <= turnaround(b)}
      best(rule, S) == CASE rule = "RelPerfOnly"  -> fastest(pool(S))
                         [] rule = "WaitTimeOnly" -> shortest(S)
                         [] rule = "turnaround"   -> shortest(soonest(S))
      among(rule) == least(best(rule, candidates(job, w, rule)))
  IN  among(IF fallback_used(job, w) THEN "WaitTimeOnly" ELSE policy[1])

-----------------------------------------------------------------------------
(* ServerSession.call() on the sessions of S, concurrently; the step ends  *)
(* when all have answered.                                                 *)
CallOn(S, step, request) ==
  /\ inbox' = [k \in Streams |-> IF k \in S THEN Append(inbox[k], request[k]) ELSE inbox[k]]
  /\ call' = [step |-> step, of |-> S]

Req(type) == [type |-> type, request_id |-> next]
ToAll(request) == [k \in Systems |-> request]
Now == trace[next].submit

(* run_experiment() opens the sessions. *)
Connect ==
  /\ stage = "done" /\ call.step = "idle"
  /\ CallOn(Systems, "init",
            [k \in Systems |-> Req("init") @@
               [safe_name |-> TRUE, total_nodes |-> Capacity[k], job_flush_interval |-> 0,
                redis |-> FALSE, wait_queue_capacity |-> 0, wait_queue_overflow |-> ""]])
  /\ UNCHANGED <<next, windows, horizons, chosen, outbox, session, sequence, redis, reports>>

(* The responses of the current step; an error ends run_experiment(). *)
Answered ==
  /\ call.of # {} /\ \A k \in call.of : outbox[k] # << >>
  /\ outbox' = [k \in Streams |-> IF k \in call.of THEN Tail(outbox[k]) ELSE outbox[k]]
Results == [k \in call.of |-> Head(outbox[k]).result]
Failed == \E k \in call.of : ~Head(outbox[k]).ok
Continue == Answered /\ ~Failed

Raise ==
  /\ Answered /\ Failed /\ call' = [step |-> "raised", of |-> {}]
  /\ UNCHANGED <<next, windows, horizons, chosen, inbox, session, sequence, redis, reports>>

(* The next job advances every session, or the simulations are finished. *)
Take ==
  LET t == next + 1
  IN  IF next < Len(trace)
      THEN /\ next' = t
           /\ CallOn(Systems, "advance",
                     ToAll([type |-> "advance_to", target |-> trace[t].submit,
                            request_id |-> t]))
      ELSE /\ CallOn(Systems, "finish", ToAll(Req("finish_simulation"))) /\ UNCHANGED next

NextArrivalOf ==
  /\ Continue /\ call.step \in {"init", "settle"} /\ Take
  /\ UNCHANGED <<windows, horizons, chosen, session, sequence, redis, reports>>

AskWindows ==
  /\ Continue /\ call.step = "advance"
  /\ CallOn(Systems, "windows", ToAll(Req("get_backfill_window")))
  /\ UNCHANGED <<next, windows, horizons, chosen, session, sequence, redis, reports>>

AskHorizons ==
  /\ Continue /\ call.step = "windows" /\ windows' = Results
  /\ CallOn(Systems, "horizons", ToAll(Req("get_prediction_horizon")))
  /\ UNCHANGED <<next, horizons, chosen, session, sequence, redis, reports>>

TakeHorizons ==
  /\ Continue /\ call.step = "horizons" /\ horizons' = Results
  /\ call' = [step |-> "choose", of |-> {}]
  /\ UNCHANGED <<next, windows, chosen, inbox, session, sequence, redis, reports>>

(* The job is appended where choose_system() says, or dropped. *)
ChooseServer ==
  /\ call.step = "choose"
  /\ \E choices \in {choose_candidate(trace[next], trace[next].workload)} :
       IF choices = {} THEN Take /\ UNCHANGED chosen
       ELSE \E c \in choices :
            /\ chosen' = Append(chosen, c)
            /\ CallOn({c.index}, "append",
                      [k \in {c.index} |-> Req("append_jobs") @@
                         [jobs |-> <<[submit |-> Now, nodes |-> trace[next].nodes,
                                      limit |-> c.limit, run |-> c.actual]>>]])
            /\ UNCHANGED next
  /\ UNCHANGED <<windows, horizons, outbox, session, sequence, redis, reports>>

(* Its identifier is recorded and the session advanced to the same time. *)
SettleServer ==
  LET k == chosen[Len(chosen)].index
  IN  /\ Continue /\ call.step = "append"
      /\ chosen' = [chosen EXCEPT ![Len(chosen)] =
           [submit |-> Now, job_idx |-> CHOOSE j \in Results[k] : TRUE] @@ @]
      /\ CallOn({k}, "settle",
                [i \in {k} |-> Req("advance_to") @@ [target |-> Now]])
      /\ UNCHANGED <<next, windows, horizons, session, sequence, redis, reports>>

CloseAll ==
  /\ Continue /\ call.step = "finish" /\ call' = [step |-> "closed", of |-> {}]
  /\ UNCHANGED <<next, windows, horizons, chosen, inbox, session, sequence, redis, reports>>

Experiment ==
  \/ Connect \/ Raise \/ NextArrivalOf \/ AskWindows \/ AskHorizons \/ TakeHorizons
  \/ ChooseServer \/ SettleServer \/ CloseAll

(* Both dispatchers make the same decisions on the same arrivals: the same *)
(* system, mode, limit and estimates for every job, under every policy,    *)
(* although one sends a snapshot request and appends single jobs to a      *)
(* simulation of its own, and the other queries windows and horizons of a  *)
(* server session in separate requests and appends batches.  No request of *)
(* the second one fails before the last job: only FinishSimulation may, on *)
(* a file that cannot be written.                                          *)
DispatchersAgree ==
  call.step \in {"finish", "closed", "raised"} => next = Len(trace) /\ chosen = decisions
=============================================================================
