----------------------------- MODULE DequeQueue -----------------------------
(***************************************************************************)
(* The FCFS/EASY wait queue on a deque (src/src/sim/                       *)
(* scheduler_fcfs_easy_deque.cpp): the record of CircularQueue without a   *)
(* capacity.  Its counters follow the same rules.                          *)
(***************************************************************************)
EXTENDS Integers, FiniteSets, SequencesExt

CONSTANTS
  Backfill,       \* the backfill policy is not NONE
  BackfillDepth   \* --backfill_queue_depth; 0 = unlimited

(* numeric_limits<sim_time_t>::max() *)
CONSTANT Infinity

LOCAL Circular == INSTANCE CircularQueue

new == [entries |-> << >>, eligible |-> 0, tracked |-> 0, removed |-> 0]

insert_job(q, e) ==
  [q EXCEPT !.entries = Append(@, e @@ [removed |-> FALSE]),
            !.eligible = IF e.submit <= q.tracked THEN Len(q.entries) + 1 ELSE @]

sync_to(q, t) == Circular!sync_to(q, t)
active_job_count(q) == Circular!active_job_count(q)
get_next_arrival_time(q) == Circular!get_next_arrival_time(q)
pending_job_ids(q) == Circular!pending_job_ids(q)

(* Garbage collection; the eligible index loses the removed entries before *)
(* it and no other.                                                        *)
compact(q) == Circular!compact(q)

(* The heads that fit are popped, then the scan only marks what it starts. *)
pop_heads(q, free) == Circular!pop_heads(q, free)
backfill(p, accepted, planned) == Circular!backfill(p, accepted, planned)

schedule(q, t, free, accepted, planned) ==
  LET tidy == compact(sync_to(q, t))
      p    == pop_heads(tidy, free)
  IN  IF tidy.eligible = 0 THEN [queue |-> tidy, left |-> free, started |-> FALSE]
      ELSE IF active_job_count(p.queue) = 0 \/ ~Backfill \/ p.left = 0 THEN p
      ELSE backfill(p, accepted, planned)
=============================================================================
