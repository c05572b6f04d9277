--------------------------- MODULE CircularQueue ---------------------------
(***************************************************************************)
(* The circular-buffer wait queue (src/src/sim/                            *)
(* scheduler_fcfs_easy_circular.cpp) as a record:                          *)
(*   entries    m_wait_queue, jobs with a removed flag                     *)
(*   capacity   of the buffer; removed entries occupy it too               *)
(*   eligible   m_eligible_end_idx                                         *)
(*   tracked    m_current_tracked_time                                     *)
(*   removed    m_removed_count                                            *)
(* What the index-based FCFS schedulers share comes first (src/src/sim/    *)
(* scheduler_base.hpp); indices count from one.                            *)
(* Which candidates the reservation plan accepts is a parameter; see       *)
(* module Simulation for the plan itself.                                  *)
(***************************************************************************)
EXTENDS Integers, FiniteSets, SequencesExt

CONSTANTS
  Backfill,       \* the backfill policy is not NONE
  BackfillDepth   \* --backfill_queue_depth; 0 = unlimited

(* numeric_limits<sim_time_t>::max() *)
CONSTANT Infinity

(* The entries of queue at positions from .. to that are not removed. *)
Live(queue, from, to) == {i \in from .. to : ~queue[i].removed}

(* Mutant: removed entries consume the depth too. *)
queue_depth_scan_end_counting_removed(queue, begin, end, planned) ==
  LET slots == IF planned THEN BackfillDepth - 1 ELSE BackfillDepth
  IN  IF BackfillDepth = 0 THEN end ELSE Min({begin - 1 + slots, end})

(* The last position a scan from begin visits: every job that is not       *)
(* removed takes a slot, and so does the head when it is planned.          *)
queue_depth_scan_end(queue, begin, end, planned) ==
  LET slots == IF planned THEN BackfillDepth - 1 ELSE BackfillDepth
  IN  IF BackfillDepth = 0 THEN end
      ELSE Max({begin - 1} \cup
               {k \in begin .. end : Cardinality(Live(queue, begin, k - 1)) < slots})

-----------------------------------------------------------------------------
new(capacity) ==
  [entries |-> << >>, capacity |-> capacity, eligible |-> 0, tracked |-> 0, removed |-> 0]

full(q) == Len(q.entries) = q.capacity

(* An insertion into a full buffer that may grow doubles it.  A job        *)
(* submitted by now makes everything before it eligible.                   *)
insert_job(q, e) ==
  [q EXCEPT !.capacity = IF full(q) THEN Max({2 * @, 1}) ELSE @,
            !.entries = Append(@, e @@ [removed |-> FALSE]),
            !.eligible = IF e.submit <= q.tracked THEN Len(q.entries) + 1 ELSE @]

sync_to(q, t) ==
  IF t <= q.tracked THEN q
  ELSE [q EXCEPT !.tracked = t,
                 !.eligible = Max({k \in @ .. Len(q.entries) :
                                     \A i \in @ + 1 .. k : q.entries[i].submit <= t})]

(* Garbage collection once more than half of the entries are removed. *)
compact(q) ==
  IF q.removed > 0 /\ q.removed * 2 > Len(q.entries)
  THEN [q EXCEPT !.entries = SelectSeq(@, LAMBDA e : ~e.removed),
                 !.eligible = Cardinality(Live(q.entries, 1, @)),
                 !.removed = 0]
  ELSE q

active_job_count(q) == q.eligible - q.removed

get_next_arrival_time(q) ==
  LET later == Live(q.entries, q.eligible + 1, Len(q.entries))
  IN  IF later = {} THEN Infinity ELSE q.entries[Min(later)].submit

pending_job_ids(q) ==
  LET pending == SelectSeq(q.entries, LAMBDA e : ~e.removed)
  IN  [i \in DOMAIN pending |-> pending[i].job]

(* Step 1: the front of the eligible entries is popped while it is removed *)
(* or fits.                                                                *)
pop_heads(q, free) ==
  LET nodes(k) == MapThenSumSet(LAMBDA i : q.entries[i].nodes, Live(q.entries, 1, k))
      count    == Max({k \in 0 .. q.eligible : nodes(k) <= free})
      live     == Live(q.entries, 1, count)
  IN  [queue |-> [q EXCEPT !.entries = SubSeq(@, count + 1, Len(@)),
                           !.eligible = @ - count,
                           !.removed = @ - (count - Cardinality(live))],
       left  |-> free - nodes(count),
       started |-> live # {}]

(* The scan behind the blocked head: what starts is only marked. *)
backfill(p, accepted, planned) ==
  LET end == queue_depth_scan_end(p.queue.entries, 2, p.queue.eligible, planned)
      scan[i \in 1 .. end] ==
        IF i = 1 THEN p
        ELSE LET last == scan[i - 1]
                 e    == last.queue.entries[i]
             IN  IF ~e.removed /\ e.nodes <= last.left /\ e.job \in accepted
                 THEN [queue |-> [last.queue EXCEPT !.entries[i].removed = TRUE,
                                                    !.removed = @ + 1],
                       left  |-> last.left - e.nodes,
                       started |-> TRUE]
                 ELSE last
  IN  scan[end]

(* One call of schedule(): the queue after it, the nodes left, and whether *)
(* anything started.                                                       *)
schedule(q, t, free, accepted, planned) ==
  LET tidy == compact(sync_to(q, t))
      p    == pop_heads(tidy, free)
  IN  IF tidy.eligible = 0 THEN [queue |-> tidy, left |-> free, started |-> FALSE]
      ELSE IF active_job_count(p.queue) = 0 \/ ~Backfill \/ p.left = 0 THEN p
      ELSE backfill(p, accepted, planned)
=============================================================================
