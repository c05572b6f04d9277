---------------------------- MODULE MultiSystem ----------------------------
(***************************************************************************)
(* One FCFS queue over several systems with spatial backfilling            *)
(* (src/experimental/multi-cluster-bf): MultiSystemBackfillScheduler in    *)
(* the simulation's event loop, as multi_system_backfill_sim runs it: all  *)
(* jobs are submitted, then the clock is advanced from event to event.  A  *)
(* job is bound to a system when it starts.                                *)
(***************************************************************************)
EXTENDS Reservations, Sequences, FiniteSets, SequencesExt, FiniteSetsExt

CONSTANTS
  NumJobs,      \* bound: jobs of the trace
  Submits,      \* submit times
  Requests,     \* node counts
  Shapes,       \* <<limit, run time>> pairs; a job may end early
  Capacity,     \* the systems table: nodes of each system
  Policies      \* [spatial, placement] pairs; spatial "none" = no backfill

Jobs == 1 .. NumJobs
Systems == 1 .. Len(Capacity)
NoSystem == Len(Capacity) + 1
Infinity == Horizon + 1

(* System names are their indices here. *)
validate_systems ==
  Len(Capacity) > 0 /\ \A k \in Systems : Capacity[k] \in Nodes \ {0}

ASSUME SystemsAssumption ==
  /\ validate_systems
  /\ Requests \subseteq Nodes \ {0} /\ Submits \subseteq Time
  /\ \A shape \in Shapes : shape[1] \in Nat \ {0} /\ shape[2] \in 1 .. shape[1]
  /\ Policies \subseteq
       [spatial : {"target_only", "every_system", "global_shadow", "none"},
        placement : {"best_fit", "first_fit", "worst_fit"}]

VARIABLES
  job,         \* the trace, in submission order
  policy,      \* m_spatial_policy and m_placement_policy
  now,         \* m_current_time of the simulation
  phase,       \* "load", "open", "run", then "done"
  queue,       \* m_wait_queue: entries [job, removed]
  eligible,    \* m_eligible_end_idx
  tracked,     \* m_current_tracked_time
  removed,     \* m_removed_count
  placement,   \* m_placements: the system of each job started
  running,     \* jobs of the simulation's running map
  start,       \* begin time of each job, Infinity before it starts
  shadow,      \* m_shadow_times
  projection   \* the first m_shadow_times computed for each job as blocked head

scheduler == <<queue, eligible, tracked, removed, placement, shadow>>
vars == <<job, policy, now, phase, scheduler, running, start, projection>>

-----------------------------------------------------------------------------
(* CountResourceModel.  used is the usage that a pass rebuilds from the    *)
(* running jobs and their placements, then charges with its own starts.    *)
NodesOf(J) == MapThenSumSet(LAMBDA j : job[j].nodes, J)
max_capacity == Max({Capacity[k] : k \in Systems})
admissible(k, n) == n <= Capacity[k]
free(used, k) == Capacity[k] - used[k]
fits_now(used, k, n) == n <= free(used, k)
leftover(used, k, n) == free(used, k) - n

can_ever_run(n) == n <= max_capacity

(* A pass works on a record of the scheduler's fields, with its time, the  *)
(* running jobs and their begins, and the jobs it has started so far.      *)
Used(s) ==
  [k \in Systems |-> NodesOf({j \in s.run : s.placement[j] = k})] @@ << >>

(* Free nodes of k over time: what the running jobs on it, and the jobs    *)
(* started in this pass, are projected to release after s.t.               *)
Ends(s, j) == s.begin[j] + job[j].limit
Profile(s, k) ==
  LET ending == {j \in s.run : s.placement[j] = k /\ s.t < Ends(s, j)}
      idle   == free(Used(s), k)
  IN  [u \in Time |-> idle + NodesOf({j \in ending : Ends(s, j) <= u})] @@ << >>

(* Infinity when the system never has that many nodes. *)
earliest_fit(s, k, n) ==
  LET fit == EarliestFit(Profile(s, k), n, 0, s.t)
  IN  IF ~admissible(k, n) \/ fit = NoFit THEN Infinity ELSE fit

-----------------------------------------------------------------------------
(* sync_to(): the eligible prefix grows to the jobs submitted by t. *)
sync_to(s) ==
  LET due == {i \in s.eligible + 1 .. Len(s.queue) :
                \A h \in s.eligible + 1 .. i : job[s.queue[h].job].submit <= s.t}
  IN  IF s.t <= s.tracked THEN s
      ELSE [s EXCEPT !.eligible = @ + Cardinality(due), !.tracked = s.t]

(* compact_if_needed(): removed entries are dropped once they dominate. *)
compact_if_needed(s) ==
  IF s.removed = 0 \/ s.removed * 2 <= Len(s.queue) THEN s
  ELSE [s EXCEPT !.queue = SelectSeq(@, LAMBDA e : ~e.removed),
                 !.eligible = @ - Cardinality({i \in 1 .. Min({@, Len(s.queue)}) :
                                                 s.queue[i].removed}),
                 !.removed = 0]

(* Mutant: a tie goes to the highest index. *)
choose_system_last(s, n, candidates) ==
  LET left(k) == leftover(Used(s), k, n)
      best == CASE policy.placement = "first_fit" -> candidates
                [] policy.placement = "best_fit"  ->
                     {k \in candidates : \A i \in candidates : left(k) <= left(i)}
                [] policy.placement = "worst_fit" ->
                     {k \in candidates : \A i \in candidates : left(k) >= left(i)}
  IN  Max(best)

(* choose_system(): the lowest index among the best. *)
choose_system(s, n, candidates) ==
  LET left(k) == leftover(Used(s), k, n)
      best == CASE policy.placement = "first_fit" -> candidates
                [] policy.placement = "best_fit"  ->
                     {k \in candidates : \A i \in candidates : left(k) <= left(i)}
                [] policy.placement = "worst_fit" ->
                     {k \in candidates : \A i \in candidates : left(k) >= left(i)}
  IN  Min(best)

(* place(): the job is charged to system k. *)
place(s, j, k) ==
  [s EXCEPT !.run = @ \cup {j}, !.placement[j] = k, !.begin[j] = s.t,
            !.starts = Append(@, j)]

(* One turn of step 1: a stale entry is dropped, a head that fits          *)
(* somewhere is started; blocked once the head fits nowhere.               *)
HeadTurn(s) ==
  LET head == s.queue[1]
      n    == job[head.job].nodes
      candidates == {k \in Systems : fits_now(Used(s), k, n)}
      rest == [s EXCEPT !.queue = Tail(@), !.eligible = @ - 1]
  IN  IF s.eligible = 0 \/ s.queue = << >> \/ s.blocked THEN s
      ELSE IF head.removed THEN [rest EXCEPT !.removed = @ - 1]
      ELSE IF candidates = {} THEN [s EXCEPT !.blocked = TRUE]
      ELSE place(rest, head.job, choose_system(s, n, candidates))

HeadsStarted(s) ==
  LET turn[i \in 0 .. Len(s.queue)] ==
        IF i = 0 THEN s ELSE LET last == turn[i - 1] IN HeadTurn(last)
  IN  turn[Len(s.queue)]

(* Step 2: where the head could start on each system. *)
Shadows(s) ==
  [k \in Systems |-> earliest_fit(s, k, job[s.queue[1].job].nodes)] @@ << >>
Target(shadows) == Min({shadows[k] : k \in Systems})
TargetSystem(shadows) ==
  IF Target(shadows) = Infinity THEN NoSystem
  ELSE Min({k \in Systems : shadows[k] = Target(shadows)})

(* Mutant: every system is protected at the target's time. *)
WindowsOfTarget(shadows) == [k \in Systems |-> Target(shadows)]

Windows(shadows) ==
  [k \in Systems |->
     CASE policy.spatial = "target_only" ->
            IF k = TargetSystem(shadows) THEN Target(shadows) ELSE Infinity
       [] policy.spatial = "every_system" -> shadows[k]
       [] policy.spatial = "global_shadow" ->
            IF shadows[k] = Infinity THEN Infinity ELSE Target(shadows)]

(* Mutant: the head's interval is not taken out of the plan. *)
HeadUnreserved(s, k, window) == Profile(s, k)

(* The plan of k, with the head reserved at its window if it fits there. *)
HeadReserved(s, k, window) ==
  LET plan == Profile(s, k)
      head == job[s.queue[1].job]
  IN  IF window # Infinity /\ Fits(plan, head.nodes, head.limit, window)
      THEN Reserved(plan, window, head.nodes, head.limit) @@ << >> ELSE plan

(* The systems a candidate may start on. *)
admits(s, plan, windows, j) ==
  {k \in Systems : /\ fits_now(Used(s), k, job[j].nodes)
                   /\ windows[k] # Infinity =>
                        Fits(plan[k], job[j].nodes, job[j].limit, s.t)}

(* The scan behind the blocked head.  a.plan holds the plans, a.s the      *)
(* pass.                                                                   *)
Backfilled(s, windows) ==
  LET started(a, i, j, k) ==
        [s    |-> [place(a.s, j, k) EXCEPT !.queue[i].removed = TRUE, !.removed = @ + 1],
         plan |-> [a.plan EXCEPT ![k] =
                     Reserved(@, s.t, job[j].nodes, job[j].limit) @@ << >>]]
      scan[i \in 1 .. s.eligible] ==
        IF i = 1 THEN [s |-> s, plan |-> [k \in Systems |-> HeadReserved(s, k, windows[k])]]
        ELSE LET a == scan[i - 1]
                 j == s.queue[i].job
                 candidates == admits(a.s, a.plan, windows, j)
             IN  IF s.queue[i].removed \/ candidates = {} THEN a
                 ELSE started(a, i, j, choose_system(a.s, job[j].nodes, candidates))
  IN  scan[s.eligible].s

active_job_count(s) == s.eligible - s.removed

(* schedule(): one pass over s. *)
schedule(s) ==
  LET ready   == compact_if_needed(sync_to(s))
      heads   == HeadsStarted([ready EXCEPT !.blocked = FALSE, !.starts = << >>])
      shadows == Shadows(heads)
      blocked == [heads EXCEPT !.shadow = shadows,
                               !.projection = @ @@ (heads.queue[1].job :> shadows)]
  IN  IF ready.eligible = 0 THEN [ready EXCEPT !.starts = << >>]
      ELSE IF active_job_count(heads) = 0
      THEN [heads EXCEPT !.shadow = [k \in Systems |-> Infinity]]
      ELSE IF policy.spatial = "none" THEN blocked
      ELSE Backfilled(blocked, Windows(shadows))

-----------------------------------------------------------------------------
JobSpecs ==
  {[submit |-> t, nodes |-> n, limit |-> shape[1], run |-> shape[2]] :
     t \in Submits, n \in Requests, shape \in Shapes}
Workloads ==
  {w \in [Jobs -> JobSpecs] : \A j \in Jobs : j > 1 => w[j - 1].submit <= w[j].submit}

Init ==
  /\ job \in Workloads /\ policy \in Policies
  /\ now = 0 /\ phase = "load"
  /\ queue = << >> /\ eligible = 0 /\ tracked = 0 /\ removed = 0
  /\ placement = [j \in Jobs |-> NoSystem]
  /\ running = {} /\ start = [j \in Jobs |-> Infinity]
  /\ shadow = [k \in Systems |-> Infinity]
  /\ projection = << >>

(* run(): every job is submitted; one that no system can hold is turned    *)
(* away.  insert_job() extends the eligible prefix over jobs that are due. *)
submit_jobs ==
  LET accepted == SelectSeq([j \in Jobs |-> j], LAMBDA j : can_ever_run(job[j].nodes))
  IN  /\ phase = "load" /\ phase' = "open"
      /\ queue' = [i \in DOMAIN accepted |-> [job |-> accepted[i], removed |-> FALSE]]
      /\ eligible' = Cardinality({i \in DOMAIN accepted : job[accepted[i]].submit <= tracked})
      /\ UNCHANGED <<job, policy, now, tracked, removed, placement, running, start,
                     shadow, projection>>

(* The scheduling loop at t: the simulation starts what a pass returns and *)
(* calls schedule() again until it returns nothing.                        *)
Passes(s) ==
  LET pass[i \in 0 .. NumJobs] ==
        IF i = 0 THEN schedule(s)
        ELSE LET last == pass[i - 1]
             IN  IF last.starts = << >> THEN last ELSE schedule(last)
  IN  pass[NumJobs]

Schedule(t, run) ==
  \E s \in {Passes([t |-> t, queue |-> queue, eligible |-> eligible, tracked |-> tracked,
                    removed |-> removed, placement |-> placement, run |-> run,
                    begin |-> start, shadow |-> shadow, projection |-> projection,
                    starts |-> << >>, blocked |-> FALSE])} :
    /\ queue' = s.queue /\ eligible' = s.eligible /\ tracked' = s.tracked
    /\ removed' = s.removed /\ placement' = s.placement /\ shadow' = s.shadow
    /\ running' = s.run /\ start' = s.begin
    /\ projection' = s.projection

NextArrival ==
  LET ahead == {job[queue[i].job].submit : i \in {h \in eligible + 1 .. Len(queue) :
                                                    ~queue[h].removed}}
  IN  IF ahead = {} THEN Infinity ELSE Min(ahead)
NextEnd == IF running = {} THEN Infinity ELSE Min({start[j] + job[j].run : j \in running})

(* The opening pass of advance_to(). *)
advance_to ==
  /\ phase = "open" /\ phase' = "run"
  /\ Schedule(now, running)
  /\ UNCHANGED <<job, policy, now>>

(* One instant of the loop: every END at it, then the passes. *)
Instant ==
  LET t == Min({NextArrival, NextEnd})
  IN  /\ phase = "run" /\ t < Infinity
      /\ now' = t
      /\ Schedule(t, {j \in running : start[j] + job[j].run > t})
      /\ UNCHANGED <<job, policy, phase>>

Finish ==
  /\ phase = "run" /\ Min({NextArrival, NextEnd}) = Infinity
  /\ phase' = "done"
  /\ UNCHANGED <<job, policy, now, scheduler, running, start, projection>>

Next == submit_jobs \/ advance_to \/ Instant \/ Finish

-----------------------------------------------------------------------------
(* The job that holds the head of the queue, as {} or {job}. *)
BlockedHead ==
  {queue[i].job : i \in {h \in 1 .. eligible :
     ~queue[h].removed /\ \A g \in 1 .. h - 1 : queue[g].removed}}

(* The blocked head starts no later than the earliest of its first         *)
(* projections, on whichever system, whatever is backfilled anywhere,      *)
(* under every window rule.                                                *)
TargetKept ==
  \A j \in DOMAIN projection : Target(projection[j]) < Infinity =>
    IF start[j] < Infinity THEN start[j] <= Target(projection[j])
    ELSE now <= Target(projection[j])

(* The spatial conservative rule (README: "no `S_k` on any system is moved *)
(* later by backfilling"): as long as a head is blocked, its projection on *)
(* no system is later than it was first computed.                          *)
ProjectionsKept ==
  policy.spatial = "every_system" /\ phase = "run" =>
    \A j \in BlockedHead \cap DOMAIN projection :
      \A k \in Systems : shadow[k] <= projection[j][k]
=============================================================================
