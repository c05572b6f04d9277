------------------------------ MODULE Dispatch ------------------------------
(***************************************************************************)
(* Online dispatch over several systems                                    *)
(* (src/experimental/multi-cluster/mpi_performance_dispatch.cpp): the      *)
(* controller, rank 0, takes the jobs in submit order, asks every worker   *)
(* for a snapshot at the submit time, chooses a system from what the       *)
(* workers answer, and appends the job there.  Worker k owns the           *)
(* simulation of system k.  A message is in transit until its receiver     *)
(* takes it; the controller receives in rank order.                        *)
(***************************************************************************)
EXTENDS OnlineSimulation

CONSTANTS
  NumJobs,      \* bound: jobs of the arrival trace
  Arrivals,     \* time between two submissions
  Shapes,       \* <<nodes, duration, limit>> on the reference system
  Workloads,    \* samples of the workload catalogue
  Capacity,     \* physical_nodes of each system
  GpuEnabled,   \* the systems with GPUs
  MaxLimit,     \* --max-time-limit
  Policies      \* <<dispatch policy, wall-time policy>> pairs

Systems == 1 .. Len(Capacity)

(* No such mode on that system, and a mode without a prediction. *)
NoMode == [truth |-> 0, predicted |-> 0]
Known(mode) == mode.truth # 0
Predicted(mode) == mode.predicted # 0

(* What read_jobs(), read_systems() and read_workloads() let through.      *)
read_jobs(shape) == shape[1] \in Nodes \ {0} /\ shape[2] \in 1 .. shape[3]
read_systems(k) == Capacity[k] \in Nodes \ {0}
(* A sample has a known mode on some system. *)
read_workloads(w) ==
  /\ w.requirement \in {"cpu_only", "gpu_only", "portable"}
  /\ \E k \in Systems :
       \/ w.requirement # "gpu_only" /\ Known(w.performance[k].cpu)
       \/ w.requirement # "cpu_only" /\ k \in GpuEnabled /\ Known(w.performance[k].gpu)

(* What parse_options() lets through. *)
parse_options ==
  /\ MaxLimit > 0
  /\ \A p \in Policies :
       /\ p[1] \in {"turnaround", "RelPerfOnly", "WaitTimeOnly"}
       /\ p[2] \in {"adapted", "actual"}

ASSUME InputsAssumption ==
  /\ parse_options
  /\ \A shape \in Shapes : read_jobs(shape)
  /\ \A k \in Systems : read_systems(k)
  /\ \A w \in Workloads : read_workloads(w)
  /\ GpuEnabled \subseteq Systems
(* Divisions are exact: durations by performances, fractions by nodes. *)
ASSUME DivisionsAssumption ==
  /\ \A k \in Systems : Fine % Capacity[k] = 0
  /\ \A w \in Workloads, k \in Systems :
       \A mode \in {w.performance[k].cpu, w.performance[k].gpu} :
         Known(mode) => \A shape \in Shapes : shape[2] % mode.truth = 0

VARIABLES
  policy,     \* options.dispatch_policy, options.wall_time_policy
  trace,      \* the jobs taken so far, each with its sampled workload
  stage,      \* what the controller waits for
  got,        \* ranks it has received from in this call
  answers,    \* the responses it has received
  toWorker,   \* the request in transit to each worker
  toRoot,     \* the response in transit from each worker
  worker,     \* the simulation of each worker
  stopped,    \* workers that have left their loop
  decisions,  \* the rows of the decision file
  dropped     \* jobs without a feasible system

dispatch == <<policy, trace, stage, got, answers, toWorker, toRoot, worker, stopped,
              decisions, dropped>>

Nothing == [operation |-> "none"]

DispatchInit ==
  /\ policy \in Policies /\ trace = << >> /\ stage = "next" /\ got = 0
  /\ answers = [k \in Systems |-> Nothing]
  /\ toWorker = [k \in Systems |-> Nothing] /\ toRoot = [k \in Systems |-> Nothing]
  /\ worker = [k \in Systems |-> NewSimulation(Params(Capacity[k], 0, "grow", 0))]
  /\ stopped = {} /\ decisions = << >> /\ dropped = {}

-----------------------------------------------------------------------------
(* estimate_release_wait(), in fractions: the releases in time order until *)
(* they suffice.                                                           *)
Infinite == Fine * Infinity * Infinity
estimate_release_wait(window, nodes) ==
  LET freed(t) == window.available +
        MapThenSumSet(LAMBDA r : r.nodes, {r \in window.releases : r.time <= t})
      enough == {r.time : r \in {x \in window.releases : freed(x.time) >= nodes}}
  IN  IF window.available >= nodes THEN 0
      ELSE IF enough = {} THEN Infinite
      ELSE Fine * Max({0, Min(enough) - window.now})

has_waiting_head(window) == window.shadow > window.now

(* Mutant: the waiting head is not looked at. *)
estimate_wait_headless(window, nodes, runtime, horizon) ==
  IF window.available >= nodes THEN 0 ELSE estimate_release_wait(window, nodes)

estimate_wait(window, nodes, runtime, horizon) ==
  IF /\ window.available >= nodes
     /\ has_waiting_head(window) => window.now + runtime < window.shadow
  THEN 0
  ELSE IF ~has_waiting_head(window) THEN estimate_release_wait(window, nodes)
  ELSE Fine * (window.shadow - window.now) + horizon

(* Mutant: the limit is not raised to the known run time. *)
adjust_time_limit_once(limit, run) == [limit |-> Min({limit, MaxLimit}), doublings |-> 0]

(* adjust_time_limit(): doubled until the run time fits or the cap is met. *)
adjust_time_limit(limit, run) ==
  LET first   == Min({limit, MaxLimit})
      capped(n) == Min({first * 2 ^ n, MaxLimit})
      n       == Min({m \in 0 .. MaxLimit : capped(m) >= run \/ capped(m) >= MaxLimit})
  IN  [limit |-> capped(n), doublings |-> n]

Ceil(t) == Second * ((t + Second - 1) \div Second)

-----------------------------------------------------------------------------
(* Whether some system has a prediction for a run within the maximum. *)
prediction_available(job, w) ==
  \E k \in Systems :
    LET available(mode) ==
          Known(mode) /\ Predicted(mode) /\ job.duration \div mode.truth <= MaxLimit
    IN  /\ job.nodes <= Capacity[k]
        /\ CASE w.requirement = "cpu_only" -> available(w.performance[k].cpu)
             [] w.requirement = "gpu_only" ->
                  k \in GpuEnabled /\ available(w.performance[k].gpu)
             [] OTHER -> \/ available(w.performance[k].cpu)
                         \/ k \in GpuEnabled /\ available(w.performance[k].gpu)

fallback(job, w) == policy[1] # "WaitTimeOnly" /\ ~prediction_available(job, w)
effective_policy(job, w) == IF fallback(job, w) THEN "WaitTimeOnly" ELSE policy[1]

(* The execution mode on system k; only the choice between two modes looks *)
(* at the maximum here.                                                    *)
execution_mode(job, w, k, rule) ==
  LET cpu == w.performance[k].cpu
      gpu == w.performance[k].gpu
      allowed(mode) == Known(mode) /\ (rule = "WaitTimeOnly" \/ Predicted(mode))
      within(mode) == allowed(mode) /\ job.duration \div mode.truth <= MaxLimit
      one(name, mode) == IF allowed(mode) THEN {[name |-> name] @@ mode} ELSE {}
  IN  CASE w.requirement = "cpu_only" -> one("CPU", cpu)
        [] w.requirement = "gpu_only" /\ k \notin GpuEnabled -> {}
        [] w.requirement = "gpu_only" /\ k \in GpuEnabled -> one("GPU", gpu)
        [] w.requirement = "portable" /\ k \notin GpuEnabled -> one("CPU", cpu)
        [] OTHER -> IF within(gpu) /\ (\/ ~within(cpu) \/ rule = "WaitTimeOnly"
                                       \/ gpu.predicted > cpu.predicted)
                    THEN one("GPU", gpu)
                    ELSE IF within(cpu) THEN one("CPU", cpu) ELSE {}

(* The Choice of system k, if it is feasible. *)
ChoiceOf(job, w, k, rule, snapshot) ==
  LET build(mode) ==
        LET speedup == IF rule = "WaitTimeOnly" THEN 1 ELSE mode.predicted
            actual  == job.duration \div mode.truth
            limit   == IF policy[2] = "actual"
                       THEN [limit |-> actual, doublings |-> 0]
                       ELSE adjust_time_limit(job.limit \div speedup, actual)
            wait    == estimate_wait(snapshot.window, job.nodes, Ceil(limit.limit),
                                     snapshot.horizon)
        IN  [index |-> k, mode |-> mode.name, speedup |-> speedup, wait |-> wait,
             predicted |-> job.duration \div speedup, actual |-> actual,
             limit |-> Ceil(limit.limit), doublings |-> limit.doublings,
             fallback |-> fallback(job, w),
             now |-> snapshot.window.available >= job.nodes,
             head |-> has_waiting_head(snapshot.window)]
  IN  {c \in {build(mode) : mode \in execution_mode(job, w, k, rule)} :
         /\ rule # "WaitTimeOnly" => c.predicted <= MaxLimit
         /\ c.actual <= MaxLimit /\ c.limit <= MaxLimit
         /\ rule # "RelPerfOnly" => c.wait < Infinite}

turnaround(c) == c.wait + Fine * c.predicted

(* The order of the effective policy; the lower index wins a tie. *)
Better(c, b, rule) ==
  LET before(p, q) == \E i \in DOMAIN p : /\ p[i] < q[i]
                                          /\ \A h \in 1 .. i - 1 : p[h] = q[h]
      nowFirst(x) == IF x.now THEN 0 ELSE 1
  IN  CASE rule = "RelPerfOnly" ->
             before(<<nowFirst(c), -c.speedup, c.index>>, <<nowFirst(b), -b.speedup, b.index>>)
        [] rule = "turnaround" ->
             before(<<turnaround(c), c.wait, c.index>>, <<turnaround(b), b.wait, b.index>>)
        [] rule = "WaitTimeOnly" -> before(<<c.wait, c.index>>, <<b.wait, b.index>>)

(* choose_system(): at most one choice. *)
choose_system(job, w, snapshots) ==
  LET rule    == effective_policy(job, w)
      fitting == {k \in Systems : job.nodes <= Capacity[k]}
      choices == UNION {ChoiceOf(job, w, k, rule, snapshots[k]) : k \in fitting}
  IN  {c \in choices : \A b \in choices \ {c} : Better(c, b, rule)}

-----------------------------------------------------------------------------
(* handle_request(): an exception is an answer that is not ok. *)
handle_request(sim, request) ==
  LET response(call, body) ==
        [sim |-> call.sim,
         message |-> [operation |-> "response", ok |-> call.result # Thrown] @@ body]
      advanced(call) == response(call, [window  |-> get_backfill_window(call.sim),
                                        horizon |-> prediction_horizon(call.sim)])
      appended(call) ==
        IF call.result = Thrown THEN response(call, << >>)
        ELSE response(advance_to(call.sim, request.time), [job_idx |-> Len(call.sim.jobs)])
      drained(call) == response(call, [statistics |-> get_statistics(call.sim)])
  IN  CASE request.operation = "snapshot" -> advanced(advance_to(sim, request.time))
        [] request.operation = "append" -> appended(append_job(sim, request.job))
        [] request.operation = "finish" -> drained(drain(sim))

(* One turn of the loop of worker(). *)
Worker(k) ==
  /\ toWorker[k] # Nothing /\ k \notin stopped
  /\ \E reply \in {handle_request(worker[k], toWorker[k])} :
       /\ worker' = [worker EXCEPT ![k] = reply.sim]
       /\ toRoot' = [toRoot EXCEPT ![k] = reply.message]
  /\ stopped' = IF toWorker[k].operation = "finish" THEN stopped \cup {k} ELSE stopped
  /\ toWorker' = [toWorker EXCEPT ![k] = Nothing]
  /\ UNCHANGED <<policy, trace, stage, got, answers, decisions, dropped>>

-----------------------------------------------------------------------------
(* call_all(): the request goes to every worker, then one response after   *)
(* the other is received.                                                  *)
SendAll(request) ==
  /\ toWorker' = [k \in Systems |-> request] /\ got' = 0

LastJob == trace[Len(trace)]
LastSubmit == IF trace = << >> THEN 0 ELSE LastJob.submit
largest_system == Max({Capacity[k] : k \in Systems})

(* The next job of the trace, cut to the largest system, and the snapshots *)
(* it is dispatched on; its workload is sampled.                           *)
NextJob ==
  /\ stage = "next" /\ Len(trace) < NumJobs
  /\ \E gap \in Arrivals, shape \in Shapes, w \in Workloads :
       trace' = Append(trace, [submit |-> LastSubmit + gap, duration |-> shape[2],
                               nodes |-> Min({shape[1], largest_system}),
                               limit |-> shape[3], workload |-> w])
  /\ SendAll([operation |-> "snapshot", time |-> trace'[Len(trace')].submit])
  /\ stage' = "snapshot"
  /\ UNCHANGED <<policy, answers, toRoot, worker, stopped, decisions, dropped>>

(* The response of the next rank; one that is not ok ends the program. *)
Receive ==
  /\ stage \in {"snapshot", "finish"} /\ toRoot[got + 1] # Nothing
  /\ answers' = [answers EXCEPT ![got + 1] = toRoot[got + 1]]
  /\ toRoot' = [toRoot EXCEPT ![got + 1] = Nothing]
  /\ got' = got + 1
  /\ stage' = IF ~toRoot[got + 1].ok THEN "aborted"
              ELSE IF got' < Len(Capacity) THEN stage
              ELSE IF stage = "snapshot" THEN "choose" ELSE "check"
  /\ UNCHANGED <<policy, trace, toWorker, worker, stopped, decisions, dropped>>

JobOf(c) == [submit |-> LastJob.submit, nodes |-> LastJob.nodes, limit |-> c.limit,
             run |-> c.actual]

(* The job goes to the chosen system, or is dropped. *)
Choose ==
  /\ stage = "choose"
  /\ \E choices \in {choose_system(LastJob, LastJob.workload, answers)} :
       IF choices = {}
       THEN /\ dropped' = dropped \cup {Len(trace)} /\ stage' = "next"
            /\ UNCHANGED <<toWorker, decisions>>
       ELSE \E c \in choices :
            /\ toWorker' = [toWorker EXCEPT ![c.index] =
                 [operation |-> "append", time |-> LastJob.submit, job |-> JobOf(c)]]
            /\ decisions' = Append(decisions, c) /\ stage' = "append"
            /\ UNCHANGED dropped
  /\ UNCHANGED <<policy, trace, got, answers, toRoot, worker, stopped>>

(* The chosen worker has answered; its job identifier completes the row. *)
Accept ==
  LET k == decisions[Len(decisions)].index
  IN  /\ stage = "append" /\ toRoot[k] # Nothing
      /\ toRoot' = [toRoot EXCEPT ![k] = Nothing]
      /\ stage' = IF toRoot[k].ok THEN "next" ELSE "aborted"
      /\ decisions' = IF ~toRoot[k].ok THEN decisions
                      ELSE [decisions EXCEPT ![Len(decisions)] =
                              [submit |-> LastJob.submit, job_idx |-> toRoot[k].job_idx] @@ @]
      /\ UNCHANGED <<policy, trace, got, answers, toWorker, worker, stopped, dropped>>

Finish ==
  /\ stage = "next" /\ Len(trace) = NumJobs
  /\ SendAll([operation |-> "finish", time |-> Infinity])
  /\ stage' = "finish"
  /\ UNCHANGED <<policy, trace, answers, toRoot, worker, stopped, decisions, dropped>>

(* The completed jobs of all workers must be the dispatched ones. *)
Check ==
  /\ stage = "check"
  /\ stage' = IF MapThenSumSet(LAMBDA k : answers[k].statistics.completed, Systems)
                   = Len(decisions) THEN "done" ELSE "aborted"
  /\ UNCHANGED <<policy, trace, got, answers, toWorker, toRoot, worker, stopped,
                 decisions, dropped>>

Dispatch ==
  \/ NextJob \/ Receive \/ Choose \/ Accept \/ Finish \/ Check
  \/ \E k \in Systems : Worker(k)

-----------------------------------------------------------------------------
(* The controller never throws: no worker turns a request down (a job is   *)
(* never appended in a worker's past, nor with a limit below its run time  *)
(* or not in whole seconds), and every dispatched job completes            *)
(* (mpi_performance_dispatch.cpp, "completed job count does not match      *)
(* dispatched job count").                                                 *)
ControllerSucceeds == stage # "aborted"

(* Where no job waits, the estimated wait is a bound on the real one, and  *)
(* an estimate of zero means a start at once, head or no head; whatever is *)
(* dispatched later.                                                       *)
EstimateKept ==
  \A i \in DOMAIN decisions :
    LET d == decisions[i]
        s == worker[d.index]
    IN  "job_idx" \in DOMAIN d /\ (~d.head \/ d.wait = 0) =>
          IF d.job_idx \in DOMAIN s.begin
          THEN Fine * (s.begin[d.job_idx] - d.submit) <= d.wait
          ELSE Fine * (s.now - d.submit) < d.wait
=============================================================================
