----------------------------- MODULE BlockQueue -----------------------------
(***************************************************************************)
(* The block wait queue (src/src/sim/scheduler_fcfs_easy_block.cpp,        *)
(* scheduler_fcfs_easy_block_depth.cpp, block_wait_queue.hpp) as a record: *)
(*   order      m_job_order, arrivals with a removed flag, never compacted *)
(*   eligible   m_eligible_end_idx                                         *)
(*   tracked    m_current_tracked_time                                     *)
(*   removed    m_removed_count                                            *)
(*   blocks     m_blocks: the waiting jobs, by offset of their number from *)
(*              the first one                                              *)
(*   first, last, total   the bookkeeping of BlockWaitQueue                *)
(*   thrown     an insertion or a lookup threw                             *)
(***************************************************************************)
EXTENDS Integers, FiniteSets, SequencesExt

CONSTANTS
  Backfill,       \* the backfill policy is not NONE
  BackfillDepth   \* --backfill_queue_depth; 0 = unlimited

(* numeric_limits<sim_time_t>::max() *)
CONSTANT Infinity

CONSTANT BlockSize   \* --block_size, a power of two

LOCAL Circular == INSTANCE CircularQueue

new ==
  [order |-> << >>, eligible |-> 0, tracked |-> 0, removed |-> 0, blocks |-> << >>,
   first |-> 0, last |-> 0, total |-> 0, thrown |-> FALSE]

block_idx(first, id) == ((id - first) \div BlockSize) + 1

(* BlockWaitQueue::get_job_info(): the waiting job with that number. *)
get_job_info(q, id) ==
  IF id < q.first \/ block_idx(q.first, id) > Len(q.blocks) THEN {}
  ELSE {e \in ToSet(q.blocks[block_idx(q.first, id)]) : e.job = id}

(* BlockWaitQueue::remove() *)
remove(q, id) ==
  IF id < q.first \/ block_idx(q.first, id) > Len(q.blocks) THEN q
  ELSE [q EXCEPT !.blocks[block_idx(q.first, id)] = SelectSeq(@, LAMBDA e : e.job # id)]

(* Mutant: jobs are packed, whatever their numbers. *)
insert_into_last_block(q, e) ==
  LET full == q.blocks = << >> \/ Len(Last(q.blocks)) >= BlockSize
      blocks == IF full THEN Append(q.blocks, << >>) ELSE q.blocks
  IN  [q EXCEPT !.first = IF q.total = 0 THEN e.job ELSE q.first,
                !.last = e.job, !.total = @ + 1,
                !.blocks = [blocks EXCEPT ![Len(blocks)] = Append(@, e)]]

(* BlockWaitQueue::insert_job(): numbers must increase; gaps between them  *)
(* leave empty places, and may leave empty blocks.                         *)
insert_into_block(q, e) ==
  LET first  == IF q.total = 0 THEN e.job ELSE q.first
      at     == block_idx(first, e.job)
      blocks == [i \in 1 .. Max({at, Len(q.blocks)}) |->
                   IF i <= Len(q.blocks) THEN q.blocks[i] ELSE << >>]
  IN  IF (q.total > 0 /\ e.job <= q.last) \/ Len(blocks[at]) >= BlockSize
      THEN [q EXCEPT !.thrown = TRUE]
      ELSE [q EXCEPT !.first = first, !.last = e.job, !.total = @ + 1,
                     !.blocks = [blocks EXCEPT ![at] = Append(@, e)]]

(* The arrival order is kept beside the blocks. *)
insert_job(q, e) ==
  LET inserted == insert_into_block(q, e)
  IN  IF inserted.thrown THEN inserted
      ELSE [inserted EXCEPT
              !.order = Append(@, [job |-> e.job, submit |-> e.submit, removed |-> FALSE]),
              !.eligible = IF e.submit <= q.tracked THEN Len(q.order) + 1 ELSE @]

sync_to(q, t) ==
  IF t <= q.tracked THEN q
  ELSE [q EXCEPT !.tracked = t,
                 !.eligible = Max({k \in @ .. Len(q.order) :
                                     \A i \in @ + 1 .. k : q.order[i].submit <= t})]

active_job_count(q) == q.eligible - q.removed

get_next_arrival_time(q) ==
  LET later == Circular!Live(q.order, q.eligible + 1, Len(q.order))
  IN  IF later = {} THEN Infinity ELSE q.order[Min(later)].submit

pending_job_ids(q) ==
  LET pending == SelectSeq(q.order, LAMBDA e : ~e.removed)
  IN  [i \in DOMAIN pending |-> pending[i].job]

(* The position of the head; zero when no eligible job is left. *)
head(q) ==
  LET live == Circular!Live(q.order, 1, q.eligible) IN IF live = {} THEN 0 ELSE Min(live)

(* Starts the job at position i of the order. *)
start(p, i) ==
  LET e == CHOOSE x \in get_job_info(p.queue, p.queue.order[i].job) : TRUE
  IN  [queue |-> [remove(p.queue, e.job) EXCEPT !.order[i].removed = TRUE, !.removed = @ + 1],
       left |-> p.left - e.nodes, started |-> TRUE]

(* The active job at position i of the order is not in its block. *)
missing(p, i) == get_job_info(p.queue, p.queue.order[i].job) = {}
throw(p) == [p EXCEPT !.queue.thrown = TRUE]

(* Step 1: heads start one after the other while they fit. *)
start_heads(q, free) ==
  LET after[k \in 0 .. q.eligible] ==
        IF k = 0 THEN [queue |-> q, left |-> free, started |-> FALSE]
        ELSE LET p == after[k - 1]
                 h == head(p.queue)
             IN  IF h = 0 \/ p.queue.thrown THEN p
                 ELSE IF missing(p, h) THEN throw(p)
                 ELSE IF \A e \in get_job_info(p.queue, p.queue.order[h].job) : e.nodes <= p.left
                 THEN start(p, h)
                 ELSE p
  IN  after[q.eligible]

(* Step 3, and backfill_with_queue_depth(): both visit the order.  Only    *)
(* the latter throws for a job that is not in its block.                   *)
backfill(p, accepted, planned) ==
  LET h   == head(p.queue)
      end == Circular!queue_depth_scan_end(p.queue.order, h + 1, p.queue.eligible, planned)
      scan[i \in h .. end] ==
        IF i = h THEN p
        ELSE LET last == scan[i - 1]
                 id   == last.queue.order[i].job
                 info == get_job_info(last.queue, id)
             IN  IF last.queue.order[i].removed \/ last.left = 0 \/ last.queue.thrown THEN last
                 ELSE IF missing(last, i)
                 THEN IF BackfillDepth = 0 THEN last ELSE throw(last)
                 ELSE IF id \in accepted /\ \A e \in info : e.nodes <= last.left
                 THEN start(last, i)
                 ELSE last
  IN  scan[end]

(* One call of schedule(). *)
schedule(q, t, free, accepted, planned) ==
  LET synced == sync_to(q, t)
      p      == start_heads(synced, free)
  IN  IF active_job_count(synced) = 0
      THEN [queue |-> synced, left |-> free, started |-> FALSE]
      ELSE IF active_job_count(p.queue) = 0 \/ ~Backfill \/ p.queue.thrown THEN p
      ELSE IF missing(p, head(p.queue)) THEN throw(p)
      ELSE backfill(p, accepted, planned)
=============================================================================
