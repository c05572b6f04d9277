-------------------------- MODULE OnlineSimulation --------------------------
(***************************************************************************)
(* A Simulation that a server or a worker process owns and drives through  *)
(* the streaming API (src/src/sim/sim.cpp): FCFS/EASY on a circular queue, *)
(* constant capacity, a job store with room for every job (module JobStore *)
(* has the small one).  A call is a function from the simulation to the    *)
(* simulation after it, with a result; a call that throws has the result   *)
(* Thrown.  Module Simulation takes advance_to() apart; here it is one     *)
(* step, which settles one instant after the other.                        *)
(***************************************************************************)
EXTENDS SchedulerPlan, SequencesExt

CONSTANTS
  Second,   \* instants in a second
  Fine      \* fractions of an instant that estimates are counted in

ASSUME UnitsAssumption == Second \in Nat \ {0} /\ Fine \in Nat \ {0}

Infinity == Horizon + 1
Thrown == "thrown"

Q == INSTANCE CircularQueue WITH Backfill <- TRUE, BackfillDepth <- 0

(* What an Init request or a worker sets of Sim_Params. *)
Params(nodes, capacity, overflow, flush) ==
  [nodes |-> nodes, capacity |-> capacity, overflow |-> overflow, flush |-> flush,
   redis |-> FALSE]

(* The sink of the schedule, a file or a Redis namespace: the times of the *)
(* jobs written to it, and its index of them (the key job_ids).            *)
NoRows == [times |-> << >>, ids |-> {}]

NewSimulation(params) ==
  [params |-> params, now |-> 0, latest |-> 0,
   jobs |-> << >>,          \* every record stored, in store order
   submitted |-> {},        \* those accepted by the wait queue
   rejected |-> {},         \* those too large for the machine
   begin |-> << >>,         \* start time of the jobs that have one
   queue |-> Q!new(params.capacity),
   shadow |-> 0,            \* m_fcfs_reservation_time
   front |-> 0,             \* m_num_reclaimed
   departures |-> 0,        \* m_departures_since_job_flush
   cursor |-> 0,            \* m_next_job_to_write
   open |-> FALSE,          \* the schedule's sink is open
   rows |-> NoRows]         \* what is in it

EndOf(s, j) == s.begin[j] + s.jobs[j].run
Running(s) == {j \in DOMAIN s.begin : s.now < EndOf(s, j)}
Completed(s) == {j \in DOMAIN s.begin : EndOf(s, j) <= s.now}
NodesIn(s, J) == MapThenSumSet(LAMBDA j : s.jobs[j].nodes, J)
get_available_nodes(s) == s.params.nodes - NodesIn(s, Running(s))

(* m_running_jobs: the planned release of each running job. *)
RunningJobs(s) ==
  Table([j \in Running(s) |-> [end   |-> s.begin[j] + s.jobs[j].limit,
                               nodes |-> s.jobs[j].nodes]])

-----------------------------------------------------------------------------
(* The entries that step 1 of schedule() starts, and those it leaves       *)
(* blocked.                                                                *)
Popped(tidy, p) ==
  LET live(q) == SelectSeq(SubSeq(q.entries, 1, q.eligible), LAMBDA e : ~e.removed)
  IN  [heads   |-> ToSet(live(tidy)) \ ToSet(live(p.queue)),
       blocked |-> live(p.queue), left |-> p.left]

EntriesBlocked(s) ==
  LET tidy == Q!compact(Q!sync_to(s.queue, s.now))
  IN  Popped(tidy, Q!pop_heads(tidy, get_available_nodes(s)))

PlanOf(s, b) ==
  reservation_timeline(b.left, With(RunningJobs(s), b.heads, s.now), s.now)

(* The candidates behind the head that leave its reservation, and each     *)
(* other, as they are.                                                     *)
AcceptedBehind(s, b, r, plan) ==
  LET planned == reservation_within_horizon(r, s.now)
      scan[i \in 1 .. Len(b.blocked)] ==
        IF i = 1 THEN [left |-> b.left, jobs |-> {},
                       plan |-> IF planned THEN ReserveFor(plan, b.blocked[1], r) ELSE plan]
        ELSE LET a == scan[i - 1]
                 e == b.blocked[i]
             IN  IF /\ e.nodes <= a.left
                    /\ planned => Fits(a.plan, e.nodes, e.limit, s.now)
                 THEN [left |-> a.left - e.nodes, jobs |-> a.jobs \cup {e.job},
                       plan |-> IF planned THEN ReserveFor(a.plan, e, s.now) ELSE a.plan]
                 ELSE a
  IN  IF r = NoFit \/ b.left = 0 THEN {} ELSE scan[Len(b.blocked)].jobs

(* The START events of the heads and of the candidates accepted behind a   *)
(* head that is blocked until r.                                           *)
Started(s, b, r, accepts) ==
  [s EXCEPT !.queue = Q!schedule(@, s.now, get_available_nodes(s), accepts, FALSE).queue,
            !.shadow = IF b.blocked = << >> THEN @
                       ELSE IF r = NoFit THEN Infinity ELSE r,
            !.begin = @ @@ [j \in {e.job : e \in b.heads} \cup accepts |-> s.now]]

(* One pass of schedule(). *)
schedule(s) ==
  LET behind(b, plan, r) ==
        Started(s, b, r, IF b.blocked = << >> THEN {} ELSE AcceptedBehind(s, b, r, plan))
      planned(b, plan) ==
        behind(b, plan, calculate_fcfs_reservation(plan, b.blocked[1], s.now))
      popped(b) == planned(b, PlanOf(s, b))
  IN  popped(EntriesBlocked(s))

(* Passes until one starts nothing. *)
Scheduled(s) ==
  LET after(last, next) == [sim |-> next, more |-> next.begin # last.begin]
      pass[k \in 0 .. Len(s.queue.entries) + 1] ==
        IF k = 0 THEN [sim |-> s, more |-> TRUE]
        ELSE LET last == pass[k - 1]
             IN  IF last.more THEN after(last.sim, schedule(last.sim)) ELSE last
  IN  pass[Len(s.queue.entries) + 1].sim

(* One transaction of flush_job_range(), or as many lines of the file. *)
WithRows(s, J) ==
  [times |-> Table([j \in J |-> <<s.begin[j], EndOf(s, j)>>]) @@ s.rows.times,
   ids   |-> s.rows.ids \cup J]

(* process_single_event() for the ENDs of s.now: after the configured      *)
(* number of departures the completed front of the store is written and    *)
(* reclaimed.                                                              *)
Departed(s) ==
  LET count == s.departures +
                 Cardinality({j \in DOMAIN s.begin : EndOf(s, j) = s.now})
      gone  == s.rejected \cup Completed(s)
      front == Max({k \in s.front .. Len(s.jobs) : s.front + 1 .. k \subseteq gone})
      due   == s.params.flush > 0 /\ count >= s.params.flush
      fresh == {j \in s.cursor + 1 .. front : j \in Completed(s)}
  IN  IF ~s.open THEN s
      ELSE IF ~due THEN [s EXCEPT !.departures = count]
      ELSE [s EXCEPT !.departures = 0, !.front = front,
                     !.cursor = Max({@, front}), !.rows = WithRows(s, fresh)]

(* The instants in (s.now, t] at which anything happens, one at a time. *)
NextInstant(s, t) ==
  Min({t} \cup {EndOf(s, j) : j \in Running(s)}
          \cup {s.jobs[j].submit : j \in {i \in s.submitted : s.now < s.jobs[i].submit}})

advance_to(s, t) ==
  LET step[k \in 0 .. 2 * Len(s.jobs) + 1] ==
        LET last == step[k - 1]
        IN  IF k > 0 /\ NextInstant(last, t) \in {last.now, Infinity} THEN last
            ELSE Scheduled(IF k = 0 THEN s
                           ELSE Departed([last EXCEPT !.now = NextInstant(last, t)]))
  IN  IF t < s.now THEN [sim |-> s, result |-> Thrown]
      ELSE [sim |-> step[2 * Len(s.jobs) + 1], result |-> "ok"]

(* To the drain sentinel: the clock stays at the last event. *)
drain(s) == advance_to(s, Infinity)

-----------------------------------------------------------------------------
(* Mutant: only the index of the previous run under the prefix is cleared. *)
ClearedIndex(rows) == [rows EXCEPT !.ids = {}]

(* RedisOutput(): the hashes of the indexed jobs go, then the index. *)
Cleared(rows) ==
  [times |-> Table([j \in DOMAIN rows.times \ rows.ids |-> rows.times[j]]), ids |-> {}]

(* start_simulated_trace(): a sink that is not open is created anew. *)
Opened(s) ==
  IF s.open THEN s
  ELSE [s EXCEPT !.open = TRUE, !.rows = IF s.params.redis THEN Cleared(@) ELSE NoRows]

(* What append_job() and append_jobs() refuse; a limit is whole seconds. *)
Refused(s, r) ==
  \/ r.submit < s.now \/ r.submit < s.latest
  \/ r.limit <= 0 \/ r.limit % Second # 0
  \/ r.run <= 0 \/ r.run > r.limit

Overflows(s) == s.params.overflow = "abort" /\ Q!full(s.queue)

(* Mutant: a job that finds the buffer full is dropped without an error. *)
submit_job_dropping(s, j) ==
  LET r == s.jobs[j]
      e == [job |-> j, submit |-> r.submit, nodes |-> r.nodes, limit |-> r.limit]
  IN  IF r.nodes > s.params.nodes
      THEN [sim |-> [s EXCEPT !.rejected = @ \cup {j}], result |-> "ok"]
      ELSE IF Overflows(s) THEN [sim |-> s, result |-> "ok"]
      ELSE [sim |-> [s EXCEPT !.queue = Q!insert_job(@, e), !.submitted = @ \cup {j},
                              !.latest = Max({@, r.submit})],
            result |-> "ok"]

(* submit_job() of a stored record: a submission in the past throws; a job *)
(* too large for the machine is marked; a full buffer that may not grow    *)
(* throws.                                                                 *)
submit_job(s, j) ==
  LET r == s.jobs[j]
      e == [job |-> j, submit |-> r.submit, nodes |-> r.nodes, limit |-> r.limit]
  IN  IF r.submit < s.now THEN [sim |-> s, result |-> Thrown]
      ELSE IF r.nodes > s.params.nodes
      THEN [sim |-> [s EXCEPT !.rejected = @ \cup {j}], result |-> "ok"]
      ELSE IF Overflows(s) THEN [sim |-> s, result |-> Thrown]
      ELSE [sim |-> [s EXCEPT !.queue = Q!insert_job(@, e), !.submitted = @ \cup {j},
                              !.latest = Max({@, r.submit})],
            result |-> "ok"]

append_job(s, r) ==
  IF Refused(s, r) THEN [sim |-> s, result |-> Thrown]
  ELSE submit_job([Opened(s) EXCEPT !.jobs = Append(@, r)], Len(s.jobs) + 1)

(* The whole batch is checked, then stored, then submitted job by job: an  *)
(* exception leaves the jobs before it submitted.                          *)
append_jobs(s, batch) ==
  LET stored == [Opened(s) EXCEPT !.jobs = @ \o batch]
      turn[i \in 0 .. Len(batch)] ==
        IF i = 0 THEN [sim |-> stored, result |-> "ok"]
        ELSE LET last == turn[i - 1]
             IN  IF last.result = Thrown THEN last
                 ELSE submit_job(last.sim, Len(s.jobs) + i)
  IN  IF \E i \in DOMAIN batch : Refused(s, batch[i])
      THEN [sim |-> Opened(s), result |-> Thrown]
      ELSE turn[Len(batch)]

-----------------------------------------------------------------------------
get_fcfs_head_shadow_time(s) ==
  IF Q!active_job_count(s.queue) = 0 \/ s.shadow = Infinity THEN -1 ELSE s.shadow

get_backfill_window(s) ==
  [now |-> s.now, available |-> get_available_nodes(s),
   shadow |-> get_fcfs_head_shadow_time(s),
   releases |-> {[time |-> RunningJobs(s)[j].end, nodes |-> RunningJobs(s)[j].nodes,
                  job |-> j] : j \in Running(s)}]

waiting_resource_area(s) ==
  MapThenSumSet(LAMBDA i : s.queue.entries[i].nodes * s.queue.entries[i].limit,
                Q!Live(s.queue.entries, 1, s.queue.eligible))

(* How long after the shadow time the capacity left by the running jobs    *)
(* takes to work off the queue; full utilization, in fractions.            *)
prediction_horizon(s) ==
  LET area    == waiting_resource_area(s)
      from    == Max({s.now, s.shadow})
      ends    == {e.end : e \in {RunningJobs(s)[j] : j \in Running(s)}}
      later   == {t \in ends : t > from}
      busy(u) == NodesIn(s, {j \in Running(s) : RunningJobs(s)[j].end > u})
      usable(t) == MapThenSumSet(LAMBDA u : s.params.nodes - busy(u), from .. t - 1)
      enough  == {t \in later : usable(t) >= area}
      last    == Max({from} \cup later)
  IN  IF area = 0 THEN 0
      ELSE IF enough # {} THEN Fine * (Min(enough) - from)
      ELSE Fine * (last - from) + (Fine * (area - usable(last))) \div s.params.nodes

(* get_statistics(): counters, and sums over the records still stored. *)
Turnaround(s, J) == MapThenSumSet(LAMBDA j : EndOf(s, j) - s.jobs[j].submit, J)
get_statistics(s) ==
  LET kept == {j \in Completed(s) : j > s.front}
  IN  [submitted |-> Cardinality(s.submitted), completed |-> Cardinality(Completed(s)),
       averaged |-> Cardinality(kept), turnaround |-> Turnaround(s, kept)]

(* The query records of append_job() and append_jobs(). *)
Tracked(s) == s.submitted \cup s.rejected

StatusOf(s, j) ==
  IF j \in s.rejected THEN [job |-> j, state |-> "rejected", times |-> << >>]
  ELSE IF j \in DOMAIN s.begin
  THEN [job |-> j, state |-> IF EndOf(s, j) <= s.now THEN "completed" ELSE "running",
        times |-> <<s.begin[j], EndOf(s, j)>>]
  ELSE [job |-> j, state |-> "pending", times |-> << >>]

(* get_job_statuses() of the jobs asked for, or of those that wait; a job  *)
(* without a query record throws.  What it estimates for the pending ones  *)
(* is in module Streaming.                                                *)
OutOfRange(s, ids) == ~(ToSet(ids) \subseteq Tracked(s))

get_job_statuses(s, ids) ==
  LET pending == SelectSeq(s.queue.entries, LAMBDA e : ~e.removed)
  IN  IF ids = << >> THEN [i \in DOMAIN pending |-> StatusOf(s, pending[i].job)]
      ELSE [i \in DOMAIN ids |-> StatusOf(s, ids[i])]

(* write_simulated_trace(): what has no row yet is written; a file is      *)
(* closed.                                                                 *)
write_simulated_trace(s) ==
  LET o == Opened(s)
  IN  [o EXCEPT !.rows = WithRows(o, {j \in Completed(o) : j > o.cursor}),
                !.cursor = Len(s.jobs), !.open = s.params.redis]
=============================================================================
