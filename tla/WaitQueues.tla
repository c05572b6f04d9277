----------------------------- MODULE WaitQueues -----------------------------
(***************************************************************************)
(* What every FCFS wait queue promises, a list, and the four kinds of      *)
(* queue beside the list they stand for.  Every call of the simulation     *)
(* goes to all of them: insertions, clock updates, the scheduling loop of  *)
(* an instant, and a restart that rebuilds the queue from the pending jobs *)
(* of a checkpoint.                                                        *)
(***************************************************************************)
EXTENDS Integers, Sequences, FiniteSets, SequencesExt, FiniteSetsExt

CONSTANTS
  Backfill,        \* the backfill policy is not NONE
  BackfillDepth,   \* --backfill_queue_depth; 0 = unlimited
  NumIds,          \* bound: job numbers
  Times,           \* submit times and instants
  Requests,        \* node counts
  MaxFree,         \* bound: free nodes at an instant
  Capacities,      \* --wait_queue_capacity; 0 = the number of known jobs
  BlockSize        \* --block_size

Infinity == NumIds + Max(Times) + 1

ASSUME WaitQueuesAssumption ==
  /\ NumIds \in Nat /\ MaxFree \in Nat /\ BackfillDepth \in Nat
  /\ Backfill \in BOOLEAN
  /\ Times \subseteq Nat /\ Requests \subseteq Nat \ {0}
  /\ Capacities \subseteq Nat
  /\ BlockSize \in {1, 2, 4, 8, 16, 32, 64, 128, 256}

-----------------------------------------------------------------------------
(* The list: the waiting jobs in submission order, of which the jobs       *)
(* submitted by now are eligible.  At an instant the first eligible job    *)
(* that may start is started until none may.  A job is                     *)
(* [job, submit, nodes].                                                   *)
Ids(queue) == [i \in DOMAIN queue |-> queue[i].job]
Eligible(queue, now) == SelectSeq(queue, LAMBDA e : e.submit <= now)
Future(queue, now) == SelectSeq(queue, LAMBDA e : e.submit > now)

(* How many jobs behind the blocked head may be looked at.  The head takes *)
(* a slot of the depth when its reservation is planned.                    *)
Slots(planned, all) ==
  IF BackfillDepth = 0 THEN all
  ELSE IF planned THEN BackfillDepth - 1 ELSE BackfillDepth

(* The positions that may start on left nodes: the head when it fits, and  *)
(* otherwise the jobs behind it that fit and that the plan accepts.        *)
MayStart(queue, left, accepted, planned) ==
  {i \in DOMAIN queue :
     /\ queue[i].nodes <= left
     /\ \/ i = 1
        \/ /\ Backfill /\ queue[1].nodes > left
           /\ i <= 1 + Slots(planned, Len(queue))
           /\ queue[i].job \in accepted}

(* The jobs left waiting after all starts of an instant. *)
Settled(queue, free, accepted, planned) ==
  LET after[k \in 0 .. Len(queue)] ==
        IF k = 0 THEN [queue |-> queue, left |-> free]
        ELSE LET last == after[k - 1]
                 may  == MayStart(last.queue, last.left, accepted, planned)
             IN  IF may = {} THEN last
                 ELSE [queue |-> RemoveAt(last.queue, Min(may)),
                       left  |-> last.left - last.queue[Min(may)].nodes]
  IN  after[Len(queue)].queue

(* The list after the scheduling loop at now. *)
Scheduled(queue, now, free, accepted, planned) ==
  Settled(Eligible(queue, now), free, accepted, planned) \o Future(queue, now)

-----------------------------------------------------------------------------
Circular == INSTANCE CircularQueue
Deque == INSTANCE DequeQueue
Block == INSTANCE BlockQueue
Multimap == INSTANCE MultimapQueue

VARIABLES
  waiting,     \* the list: jobs not started, in submission order
  now,         \* the latest instant the queues were told of
  inserted,    \* the last job inserted; a number may be skipped (a rejected job)
  circular,
  deque,
  block,
  multimap,
  configured,  \* the capacity and the overflow policy of the circular queue
  stopped,     \* an insertion found the circular queue full and threw
  lost         \* a restart could not rebuild the queue

queues == <<circular, deque, block, multimap>>
vars == <<waiting, now, inserted, queues, configured, stopped, lost>>

Entry == [job : 1 .. NumIds, submit : Times, nodes : Requests]

(* The buffer a scheduler is created with when n jobs are known. *)
InitialCapacity(n) == IF configured.capacity # 0 THEN configured.capacity ELSE n

(* The scheduler is created by the constructor of the simulation, when no  *)
(* job is known yet.                                                       *)
Init ==
  /\ waiting = << >> /\ now = 0
  /\ inserted = [job |-> 0, submit |-> 0]
  /\ configured \in [capacity : Capacities, overflow : {"abort", "grow"}]
  /\ circular = Circular!new(InitialCapacity(0))
  /\ deque = Deque!new
  /\ block = Block!new
  /\ multimap = Multimap!new
  /\ stopped = FALSE /\ lost = FALSE

Overflows(q) == Circular!full(q) /\ configured.overflow = "abort"

(* A job of the trace, in order of number and of submit time. *)
insert_job(e) ==
  /\ ~stopped
  /\ inserted.job < e.job /\ inserted.submit <= e.submit /\ now <= e.submit
  /\ IF Overflows(circular)
     THEN stopped' = TRUE /\ UNCHANGED <<waiting, inserted, queues>>
     ELSE /\ waiting' = Append(waiting, e)
          /\ inserted' = [job |-> e.job, submit |-> e.submit]
          /\ circular' = Circular!insert_job(circular, e)
          /\ deque' = Deque!insert_job(deque, e)
          /\ block' = Block!insert_job(block, e)
          /\ multimap' = Multimap!insert_job(multimap, e)
          /\ UNCHANGED stopped
  /\ UNCHANGED <<now, configured, lost>>

(* The simulation tells the queue of every instant, also of one at which   *)
(* it schedules nothing.                                                   *)
sync_to(t) ==
  /\ ~stopped /\ now < t
  /\ now' = t
  /\ circular' = Circular!sync_to(circular, t)
  /\ deque' = Deque!sync_to(deque, t)
  /\ block' = Block!sync_to(block, t)
  /\ multimap' = Multimap!update_eligible_jobs(multimap, t)
  /\ UNCHANGED <<waiting, inserted, configured, stopped, lost>>

(* The scheduling loop: calls until one starts nothing. *)
Loop(sched(_, _), q, free) ==
  LET call[k \in 0 .. NumIds + 1] ==
        IF k = 0 THEN [queue |-> q, left |-> free, started |-> TRUE]
        ELSE LET last == call[k - 1]
             IN  IF last.started THEN sched(last.queue, last.left) ELSE last
  IN  call[NumIds + 1].queue

(* At t the loop finds free nodes; the plan accepts the candidates in      *)
(* accepted, and planned says that it holds a reservation for the head.    *)
schedule(t, free, accepted, planned) ==
  /\ ~stopped /\ now <= t
  /\ now' = t
  /\ waiting' = Scheduled(waiting, t, free, accepted, planned)
  /\ circular' = Loop(LAMBDA q, f : Circular!schedule(q, t, f, accepted, planned),
                      circular, free)
  /\ deque' = Loop(LAMBDA q, f : Deque!schedule(q, t, f, accepted, planned), deque, free)
  /\ block' = Loop(LAMBDA q, f : Block!schedule(q, t, f, accepted, planned), block, free)
  /\ multimap' = Loop(LAMBDA q, f : Multimap!schedule(q, t, f, accepted, planned),
                      multimap, free)
  /\ UNCHANGED <<inserted, configured, stopped, lost>>

(* A new queue, filled with the pending jobs and told the time. *)
Rebuilt(insert(_, _), sync(_, _), q, pending) ==
  sync(FoldLeft(insert, q, pending), now)

(* The records named by the pending jobs of a checkpoint. *)
Records(ids) == [i \in DOMAIN ids |-> CHOOSE e \in ToSet(waiting) : e.job = ids[i]]

(* load_checkpoint() with resident records in the job store.  The pending  *)
(* jobs are written in order of their numbers.                             *)
restart(resident) ==
  LET sorted(ids) == Records(SortSeq(ids, <))
      full == InitialCapacity(resident) < Len(Circular!pending_job_ids(circular))
  IN  /\ ~stopped
      /\ circular' = Rebuilt(Circular!insert_job, Circular!sync_to,
                             Circular!new(InitialCapacity(resident)),
                             sorted(Circular!pending_job_ids(circular)))
      /\ deque' = Rebuilt(Deque!insert_job, Deque!sync_to, Deque!new,
                          sorted(Deque!pending_job_ids(deque)))
      /\ block' = Rebuilt(Block!insert_job, Block!sync_to, Block!new,
                          sorted(Block!pending_job_ids(block)))
      /\ multimap' = Rebuilt(Multimap!insert_job, Multimap!update_eligible_jobs,
                             Multimap!new, sorted(Multimap!pending_job_ids(multimap)))
      /\ lost' = (lost \/ (full /\ configured.overflow = "abort"))
      /\ UNCHANGED <<waiting, now, inserted, configured, stopped>>

Next ==
  \/ \E e \in Entry : insert_job(e)
  \/ \E t \in Times : sync_to(t)
  \/ \E t \in Times, free \in 0 .. MaxFree, planned \in BOOLEAN :
       \E accepted \in SUBSET ToSet(Ids(waiting)) : schedule(t, free, accepted, planned)
  \/ \E resident \in {Len(waiting), inserted.job} : restart(resident)

Spec == Init /\ [][Next]_vars

-----------------------------------------------------------------------------
(* What the simulation sees of a queue: the pending jobs in order, how     *)
(* many of them are eligible, and when the next one arrives.               *)
Observed(ids, active, next) ==
  /\ ids = Ids(waiting)
  /\ active = Len(Eligible(waiting, now))
  /\ next = IF Future(waiting, now) = << >> THEN Infinity ELSE Future(waiting, now)[1].submit

(* However jobs were inserted, marked, compacted, popped and restored,     *)
(* every queue stands for the list: it starts the same jobs in every       *)
(* scheduling loop and reports the same counts and arrivals.  The block    *)
(* queue keeps two copies of the list, with gaps after rejected jobs; the  *)
(* map starts one head in a call and counts the depth without removed      *)
(* entries.  "Every removed entry lives within [0, m_eligible_end_idx)"    *)
(* (scheduler_fcfs_easy_deque.hpp): the counters that active_job_count()   *)
(* subtracts are exact, so the difference never wraps.                     *)
QueuesAgree ==
  /\ Observed(Circular!pending_job_ids(circular), Circular!active_job_count(circular),
              Circular!get_next_arrival_time(circular))
  /\ Observed(Deque!pending_job_ids(deque), Deque!active_job_count(deque),
              Deque!get_next_arrival_time(deque))
  /\ Observed(Block!pending_job_ids(block), Block!active_job_count(block),
              Block!get_next_arrival_time(block))
  /\ Observed(Multimap!pending_job_ids(multimap), Multimap!active_job_count(multimap),
              Multimap!get_next_arrival_time(multimap))
  /\ \A q \in {circular, deque} :
       /\ {i \in DOMAIN q.entries : q.entries[i].removed} \subseteq 1 .. q.eligible
       /\ q.removed = Cardinality({i \in DOMAIN q.entries : q.entries[i].removed})
  /\ block.removed = Cardinality({i \in 1 .. block.eligible : block.order[i].removed})

(* No insertion or lookup of the block queue throws, also for numbers with *)
(* gaps and after a restart moved its first number, and a queue that held  *)
(* its jobs before a checkpoint holds them after the restart.              *)
NeverLost == ~block.thrown /\ ~lost

=============================================================================
