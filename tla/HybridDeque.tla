---------------------------- MODULE HybridDeque ----------------------------
(***************************************************************************)
(* The conservative and hybrid schedulers on a deque (src/src/sim/         *)
(* scheduler_fcfs_hybrid_deque.cpp): the decisions of HybridQueue in event *)
(* mode, on a queue that never fills.                                      *)
(***************************************************************************)
EXTENDS SchedulerPlan, SequencesExt

CONSTANTS Backfill, BackfillDepth, ReservationDepth, Infinity

LOCAL Deque == INSTANCE DequeQueue
LOCAL Hybrid == INSTANCE HybridQueue WITH UsesSlot <- FALSE, DispatchDepth <- 0

new == Deque!new @@ [depthTime |-> NoFit, examined |-> 0, headCounted |-> FALSE]

insert_job(q, e) == Deque!insert_job(q, e)
sync_to(q, t) == Deque!sync_to(q, t)
active_job_count(q) == Deque!active_job_count(q)
get_next_arrival_time(q) == Deque!get_next_arrival_time(q)
pending_job_ids(q) == Deque!pending_job_ids(q)
compact(q) == Deque!compact(q)

(* The depth budget of a timestamp, where a job beyond the horizon takes   *)
(* no slot.                                                                *)
account_head(q, r, t) == Hybrid!account_head(q, r, t)
protect_job(a, e, t) == Hybrid!protect_job(a, e, t)

(* Mutant: jobs that cannot start are not protected. *)
examine_unprotected(a, i, t) ==
  IF a.queue.entries[i].nodes > a.left THEN a ELSE Hybrid!examine(a, i, t)

examine(a, i, t) == Hybrid!examine(a, i, t)

backfill(p, run, t) ==
  LET baseline == reservation_timeline(p.left, With(run, p.started, t), t)
      head     == p.queue.entries[1]
      r        == calculate_fcfs_reservation(baseline, head, t)
      first    == [queue |-> account_head(p.queue, r, t), left |-> p.left,
                   started |-> p.started, done |-> FALSE, count |-> 0,
                   planned |-> << >>, availability |-> baseline, protected |-> baseline]
      scan[i \in 1 .. p.queue.eligible] ==
        IF i = 1 THEN protect_job(first, head, t) ELSE examine(scan[i - 1], i, t)
  IN  scan[p.queue.eligible]

schedule(q, t, free, run) ==
  LET tidy == compact(sync_to(q, t))
      p    == Hybrid!pop_heads(tidy, free)
  IN  CASE tidy.eligible = 0 -> Hybrid!Result([queue |-> tidy, started |-> {}])
        [] tidy.eligible # 0 /\ (active_job_count(p.queue) = 0 \/ ~Backfill \/ p.left = 0) ->
             Hybrid!Result(p)
        [] OTHER -> Hybrid!Result(backfill(p, run, t))
=============================================================================
