---------------------------- MODULE HybridQueue ----------------------------
(***************************************************************************)
(* The conservative and hybrid schedulers on a circular buffer (src/src/   *)
(* sim/scheduler_fcfs_hybrid_circular.tpp) and their periodic subclasses.  *)
(* The record of CircularQueue with the depth accounting of one timestamp: *)
(*   depthTime    m_backfill_depth_time                                    *)
(*   examined     m_backfill_depth_examined                                *)
(*   headCounted  m_backfill_depth_head_accounted                          *)
(* An entry is [job, submit, nodes, limit].                                *)
(***************************************************************************)
EXTENDS SchedulerPlan, SequencesExt

CONSTANTS
  Backfill,           \* the backfill policy is not NONE
  BackfillDepth,      \* --backfill_queue_depth; 0 = unlimited
  ReservationDepth,   \* --reservation_depth; 0 = conservative, every job
  DispatchDepth,      \* --dispatch_queue_depth; 0 = unlimited
  UsesSlot,           \* horizon_skipped_job_uses_depth_slot()
  Infinity

Circular == INSTANCE CircularQueue

new(capacity) ==
  Circular!new(capacity) @@ [depthTime |-> NoFit, examined |-> 0, headCounted |-> FALSE]

insert_job(q, e) == Circular!insert_job(q, e)
sync_to(q, t) == Circular!sync_to(q, t)
active_job_count(q) == Circular!active_job_count(q)
get_next_arrival_time(q) == Circular!get_next_arrival_time(q)
pending_job_ids(q) == Circular!pending_job_ids(q)

compact(q) == Circular!compact(q)

(* The eligible jobs at the front that fit, with removed entries dropped.  *)
pop_heads(q, free) ==
  LET count(p) == Len(q.entries) - Len(p.queue.entries)
      popped(p) == [p EXCEPT !.started =
                      {q.entries[i] : i \in Circular!Live(q.entries, 1, count(p))}]
  IN  popped(Circular!pop_heads(q, free))

(* One depth budget for all the passes of a timestamp.  The blocked head   *)
(* takes a slot once, when its reservation r is planned.                   *)
account_head(q, r, t) ==
  LET fresh   == q.depthTime # t
      counted == ~fresh /\ q.headCounted
      counts  == (UsesSlot \/ reservation_within_horizon(r, t)) /\ ~counted
  IN  [q EXCEPT !.depthTime = t,
                !.examined = (IF fresh THEN 0 ELSE @) + (IF counts THEN 1 ELSE 0),
                !.headCounted = counted \/ counts]

(* A scan in progress: what a pass has chosen, the plan of what is free    *)
(* (availability), the plan with reservations in it (protected).           *)
protect_job(a, e, t) ==
  LET r == FitOf(a.protected, e, t)
  IN  IF \/ ReservationDepth # 0 /\ a.count >= ReservationDepth
         \/ ~reservation_within_horizon(r, t)
      THEN a
      ELSE [a EXCEPT !.protected = ReserveFor(@, e, r), !.count = @ + 1,
                     !.planned = @ @@ (e.job :> r)]

(* Mutant: a backfilled job is not put into the protected plan. *)
start_job_unplanned(a, i, e, t) ==
  [a EXCEPT !.queue.entries[i].removed = TRUE, !.queue.removed = @ + 1,
            !.started = @ \cup {e}, !.left = @ - e.nodes,
            !.availability = ReserveFor(@, e, t),
            !.done = (a.left = e.nodes)]

(* A backfilled job: marked, and in both plans from now on. *)
start_job(a, i, e, t) ==
  [a EXCEPT !.queue.entries[i].removed = TRUE, !.queue.removed = @ + 1,
            !.started = @ \cup {e}, !.left = @ - e.nodes,
            !.availability = ReserveFor(@, e, t), !.protected = ReserveFor(@, e, t),
            !.done = (a.left = e.nodes)]

(* One candidate of the scan. *)
examine(a, i, t) ==
  LET e       == a.queue.entries[i]
      inside  == reservation_within_horizon(calculate_fcfs_reservation(a.availability, e, t), t)
      spent   == BackfillDepth # 0 /\ a.queue.examined >= BackfillDepth
      counted == [a EXCEPT !.queue.examined = @ + 1]
  IN  CASE a.done \/ e.removed \/ (~inside /\ ~UsesSlot) -> a
        [] OTHER ->
           CASE spent -> [a EXCEPT !.done = TRUE]
             [] ~spent /\ ~inside -> counted
             [] ~spent /\ inside ->
                IF e.nodes <= a.left /\ FitOf(a.protected, e, t) = t
                THEN start_job(counted, i, e, t)
                ELSE protect_job(counted, e, t)

(* The scan behind the blocked head. *)
backfill(p, run, t) ==
  LET baseline == reservation_timeline(p.left, With(run, p.started, t), t)
      head     == p.queue.entries[1]
      r        == calculate_fcfs_reservation(baseline, head, t)
      first    == [queue |-> account_head(p.queue, r, t), left |-> p.left,
                   started |-> p.started, done |-> FALSE, count |-> 0,
                   planned |-> << >>, availability |-> baseline, protected |-> baseline]
      scan[i \in 1 .. p.queue.eligible] ==
        IF i = 1 THEN protect_job(first, head, t) ELSE examine(scan[i - 1], i, t)
  IN  scan[p.queue.eligible]

(* What a call returns: the queue, the entries it starts, and the starts   *)
(* it plans for the jobs it protects.                                      *)
Result(p) == [queue |-> p.queue, started |-> p.started,
              planned |-> IF "planned" \in DOMAIN p THEN p.planned ELSE << >>]

schedule_with_protection(q, t, free, run) ==
  LET tidy == compact(sync_to(q, t))
      behind(p) == IF active_job_count(p.queue) = 0 \/ ~Backfill \/ p.left = 0
                   THEN p ELSE backfill(p, run, t)
  IN  Result(IF tidy.eligible = 0 THEN [queue |-> tidy, started |-> {}]
             ELSE behind(pop_heads(tidy, free)))

schedule(q, t, free, run) == schedule_with_protection(q, t, free, run)

(* The event pass of periodic mode: heads only. *)
schedule_event(q, t, free) ==
  LET tidy == compact(sync_to(q, t))
  IN  Result(pop_heads(tidy, free))

-----------------------------------------------------------------------------
(* Fixed periodic dispatch looks at the first DispatchDepth live jobs: the *)
(* eligible entries behind them are withheld from the pass and restored.   *)

(* Mutant: only the removed entries are restored. *)
restore_removed_only(q, withheld, withheldRemoved) ==
  [q EXCEPT !.removed = @ + withheldRemoved]

restore(q, withheld, withheldRemoved) ==
  [q EXCEPT !.eligible = @ + withheld, !.removed = @ + withheldRemoved]

(* Compaction before the prefix is bounded: every removed entry is taken   *)
(* to be eligible.                                                         *)
compact_eligible(q) ==
  IF q.removed > 0 /\ q.removed * 2 > Len(q.entries)
  THEN [q EXCEPT !.entries = SelectSeq(@, LAMBDA e : ~e.removed),
                 !.eligible = @ - q.removed, !.removed = 0]
  ELSE q

(* The shortest prefix of the eligible entries with DispatchDepth live     *)
(* ones; there are more than that.                                         *)
prefix_end(q) ==
  Min({k \in 0 .. q.eligible :
         Cardinality(Circular!Live(q.entries, 1, k)) = DispatchDepth})

dispatch(q, t, free, run) ==
  LET synced == sync_to(q, t)
      tidy   == compact_eligible(synced)
      end    == prefix_end(tidy)
      prefix == Cardinality({i \in 1 .. end : tidy.entries[i].removed})
      whole  == DispatchDepth = 0 \/ active_job_count(synced) <= DispatchDepth
      bound  == IF whole THEN synced ELSE [tidy EXCEPT !.eligible = end, !.removed = prefix]
  IN  [schedule_with_protection(bound, t, free, run) EXCEPT
         !.queue = IF whole THEN @
                   ELSE restore(@, tidy.eligible - end, tidy.removed - prefix)]
=============================================================================
