----------------------------- MODULE Schedulers -----------------------------
(***************************************************************************)
(* The schedulers other than FCFS/EASY, each as the simulation drives it:  *)
(* jobs are inserted in submit order, the clock moves to the next event,   *)
(* jobs that end there give their nodes back, and the scheduler is called  *)
(* until a call starts nothing (sim.cpp, advance_to_impl()).  A job ends   *)
(* at its limit or, with EarlyEnds, earlier.  The hybrid scheduler runs    *)
(* beside its deque variant.                                               *)
(*                                                                         *)
(* Capacity changes, release delays and the choice of the next instant are *)
(* module Simulation.                                                      *)
(***************************************************************************)
EXTENDS SchedulerPlan, SequencesExt

CONSTANTS
  NumJobs,            \* bound: jobs
  Submits,            \* submit times
  LastTime,           \* bound: the last instant
  Shapes,             \* <<nodes, limit>> pairs of requests
  TotalNodes,         \* --total_nodes
  Options,            \* the options that runs are started with
  EarlyEnds,          \* a job may end before its limit
  BackfillDepth,      \* --backfill_queue_depth
  ReservationDepth,   \* --reservation_depth; 0 = conservative
  DispatchDepth,      \* --dispatch_queue_depth
  MaxCandidates       \* --num_max_candidates

Infinity == Horizon + 1
Requests == {shape[1] : shape \in Shapes}
Limits == {shape[2] : shape \in Shapes}
Backfill == TRUE

-----------------------------------------------------------------------------
(* From options to a scheduler: the checks of create_scheduler()           *)
(* (src/src/sim/scheduler_base.cpp) and the class it constructs.  Options  *)
(* are a record with the fields                                            *)
(*   backfill, priority, queue         policies and --queue_impl           *)
(*   block_size                        --block_size                        *)
(*   reservation_depth                 --reservation_depth                 *)
(*   backfill_interval, backfill_depth                                     *)
(*   dispatch_interval, dispatch_depth, on_events                          *)
(*   selector                          a custom selector is given          *)
FcfsOrders == {"fcfs", "fcfs_conservative"}
BlockSizes == {2 ^ k : k \in 2 .. 8}

(* hybrid backfilling requires reservation_depth > 0 *)
lacks_depth(o) == o.backfill = "hybrid" /\ o.reservation_depth = 0

refuses_dispatch(o) ==
  \/ o.backfill_interval # 0 \/ o.backfill_depth # 0
  \/ o.priority \notin FcfsOrders \/ o.queue # "circular"
  \/ lacks_depth(o)

refuses_periodic(o) ==
  \/ o.backfill = "none"
  \/ o.priority \notin FcfsOrders \/ o.queue # "circular"
  \/ lacks_depth(o)

refused(o) ==
  \/ o.on_events /\ o.dispatch_interval = 0
  \/ o.dispatch_interval > 0 /\ refuses_dispatch(o)
  \/ o.dispatch_interval = 0 /\ o.dispatch_depth # 0
  \/ o.dispatch_interval = 0 /\ o.backfill_interval > 0 /\ refuses_periodic(o)
  \/ o.backfill = "hybrid" /\ (lacks_depth(o) \/ o.priority \notin FcfsOrders)

(* Only the deque has a hybrid scheduler of its own. *)
create_hybrid_scheduler(o) == IF o.queue = "deque" THEN "hybrid_deque" ELSE "hybrid"

(* The FCFS/EASY scheduler of each queue; a block size it has no class for *)
(* ends the process.                                                       *)
create_fcfs_scheduler(o) ==
  IF o.queue = "block" /\ o.block_size \notin BlockSizes THEN "exit" ELSE o.queue

(* SJF, LJF and FCFS_ALT look at no queue_impl; the hybrid classes do not  *)
(* implement EASY, so that FCFS serves it.                                 *)
create_scheduler(o) ==
  CASE o.selector -> "custom"
    [] ~o.selector /\ refused(o) -> "refused"
    [] ~o.selector /\ ~refused(o) ->
         CASE o.dispatch_interval > 0 -> "fixed"
           [] o.dispatch_interval = 0 /\ o.backfill_interval > 0 ->
                IF o.backfill = "easy" THEN "periodic_easy" ELSE "periodic"
           [] o.dispatch_interval = 0 /\ o.backfill_interval = 0 ->
                CASE o.backfill = "hybrid" -> create_hybrid_scheduler(o)
                  [] o.backfill # "hybrid" /\ o.priority \in {"sjf", "ljf"} -> o.priority
                  [] o.backfill # "hybrid" /\ o.priority = "fcfs_alt" -> "multimap"
                  [] o.backfill \notin {"hybrid", "easy"}
                       /\ o.priority = "fcfs_conservative" -> create_hybrid_scheduler(o)
                  [] OTHER -> create_fcfs_scheduler(o)

(* The classes that the options construct, apart from the FCFS/EASY ones.  *)
(* The deque variant runs beside the circular one.                         *)
Policies ==
  {create_scheduler(o) : o \in Options}
    \cap {"hybrid", "periodic", "fixed", "sjf", "ljf", "custom"}

ASSUME SchedulersAssumption ==
  /\ NumJobs \in Nat /\ LastTime \in Nat /\ Submits \subseteq 0 .. LastTime /\ TotalNodes \in Nat \ {0}
  /\ Requests \subseteq 1 .. TotalNodes /\ Limits \subseteq Nat \ {0}
  /\ \A o \in Options : o.backfill # "none" /\ o.reservation_depth = ReservationDepth
  /\ EarlyEnds \in BOOLEAN
  /\ LastTime + NumJobs * Max(Limits) <= Horizon
  /\ TotalNodes < Word /\ MaxCandidates \in Nat \ {0}

Hybrid == INSTANCE HybridQueue WITH UsesSlot <- FALSE
Periodic == INSTANCE HybridQueue WITH UsesSlot <- TRUE
Fixed == INSTANCE HybridQueue WITH UsesSlot <- TRUE, BackfillDepth <- 0
Deque == INSTANCE HybridDeque
Sjf == INSTANCE PriorityQueue WITH LongestFirst <- FALSE
Ljf == INSTANCE PriorityQueue WITH LongestFirst <- TRUE
Custom == INSTANCE CustomQueue

VARIABLES
  policy,     \* the scheduler of this run
  queue,      \* its queue
  deque,      \* the deque of the hybrid scheduler
  now,        \* m_current_time
  settled,    \* advance_to() was called since the last insertion
  ticked,     \* the last tick
  waiting,    \* the entries not started, in order of submission
  inserted,   \* the last entry inserted
  running,    \* m_running_jobs: planned end and nodes
  promise,    \* the last start that a call planned for each protected job
  late,       \* a protected job was started or planned after its promise
  told,       \* the jobs announced to the custom scheduler, in order
  declined,   \* the jobs that the selector declined
  busy        \* allocated node-time up to now

vars == <<policy, queue, deque, now, settled, ticked, waiting, inserted, running, promise, late,
          told, declined, busy>>

Entry ==
  {[job |-> j, submit |-> s, nodes |-> shape[1], limit |-> shape[2]] :
     j \in 1 .. NumJobs, s \in Submits, shape \in Shapes}

NodesOf(run) == MapThenSumSet(LAMBDA j : run[j].nodes, DOMAIN run)

NewQueue(p) ==
  CASE p = "hybrid" -> Hybrid!new(1)
    [] p = "periodic" -> Periodic!new(1)
    [] p = "fixed" -> Fixed!new(1)
    [] p = "sjf" -> Sjf!new
    [] p = "ljf" -> Ljf!new
    [] p = "custom" -> Custom!new(1)

Init ==
  /\ policy \in Policies
  /\ queue = NewQueue(policy) /\ deque = Deque!new
  /\ now = 0 /\ settled = FALSE /\ ticked = NoFit /\ waiting = << >> /\ inserted = [job |-> 0, submit |-> 0]
  /\ running = << >> /\ promise = << >> /\ late = FALSE
  /\ told = << >> /\ declined = {} /\ busy = 0

(* Among equal submit times the head is the first of the map: a promise    *)
(* does not hold against a new job with the submit time of the promised    *)
(* one.                                                                    *)
Unrivalled(e) ==
  [j \in DOMAIN promise \ {x.job : x \in {y \in ToSet(waiting) : y.submit = e.submit}} |->
     promise[j]]

(* submit_job(): the entry goes to the scheduler. *)
insert_job(e) ==
  /\ e.job = inserted.job + 1 /\ inserted.submit <= e.submit /\ now <= e.submit
  /\ inserted' = [job |-> e.job, submit |-> e.submit]
  /\ waiting' = Append(waiting, e)
  /\ queue' = CASE policy = "hybrid" -> Hybrid!insert_job(queue, e)
                [] policy = "periodic" -> Periodic!insert_job(queue, e)
                [] policy = "fixed" -> Fixed!insert_job(queue, e)
                [] policy = "sjf" -> Sjf!insert_job(queue, e)
                [] policy = "ljf" -> Ljf!insert_job(queue, e)
                [] policy = "custom" -> Custom!insert_job_with_cost(queue, e)
  /\ deque' = IF policy = "hybrid" THEN Deque!insert_job(deque, e) ELSE deque
  /\ settled' = FALSE
  /\ promise' = IF policy \in {"sjf", "ljf"} THEN Unrivalled(e) ELSE promise
  /\ UNCHANGED <<policy, now, ticked, running, late, told, declined, busy>>

(* One call of the scheduler; at a tick the periodic ones evaluate, and    *)
(* the custom one may decline.                                             *)
Call(q, t, free, run, tick, declines) ==
  CASE policy = "hybrid" -> Hybrid!schedule(q, t, free, run)
    [] policy = "periodic" /\ tick -> Periodic!schedule(q, t, free, run)
    [] policy = "periodic" /\ ~tick -> Periodic!schedule_event(q, t, free)
    [] policy = "fixed" /\ tick -> Fixed!dispatch(q, t, free, run)
    [] policy = "fixed" /\ ~tick -> [queue |-> Fixed!sync_to(q, t), started |-> {}, planned |-> << >>]
    [] policy = "sjf" -> Sjf!schedule(q, t, free, run)
    [] policy = "ljf" -> Ljf!schedule(q, t, free, run)
    [] policy = "custom" -> Custom!schedule(q, t, free, run, declines)

(* The scheduling loop; fixed dispatch makes one call. *)
Calls == IF policy = "fixed" THEN 1 ELSE NumJobs + 1

(* The loop after the call c. *)
CallMade(last, c, t) ==
  [queue |-> c.queue, run |-> With(last.run, c.started, t),
   more |-> c.started # {}, planned |-> c.planned,
   told |-> IF policy # "custom" THEN << >> ELSE last.told \o SetToSortSeq(c.told, <),
   declined |-> IF policy # "custom" THEN {} ELSE last.declined \cup c.declined]

Loop(q, t, run, tick, declines) ==
  LET call[k \in 0 .. Calls] ==
        IF k = 0 THEN [queue |-> q, run |-> run, more |-> TRUE, planned |-> << >>,
                       told |-> << >>, declined |-> {}]
        ELSE LET last == call[k - 1]
             IN  IF ~last.more THEN last
                 ELSE CallMade(last, Call(last.queue, t, TotalNodes - NodesOf(last.run),
                                          last.run, tick, declines), t)
  IN  call[Calls]

DequeLoop(q, t, run) ==
  LET call[k \in 0 .. Calls] ==
        IF k = 0 THEN [queue |-> q, run |-> run, more |-> TRUE]
        ELSE LET last == call[k - 1]
                 c    == Deque!schedule(last.queue, t, TotalNodes - NodesOf(last.run), last.run)
             IN  IF ~last.more THEN last
                 ELSE [queue |-> c.queue, run |-> With(last.run, c.started, t),
                       more |-> c.started # {}]
  IN  call[Calls].queue

Arrivals == {e.submit : e \in {x \in ToSet(waiting) : x.submit > now}}
Ends == {running[j].end : j \in DOMAIN running}

(* The queue as the loop finds it at t: the custom scheduler has closed    *)
(* its accounting interval, and knows of the completions.                  *)
AtInstant(t, ends) ==
  IF policy # "custom" THEN queue
  ELSE LET q == Custom!sync_to(Custom!advance_resource_accounting_to(queue, t), t)
       IN  IF ends = {} THEN q ELSE Custom!notify_resource_change(q)

Committed(q, run) ==
  IF policy # "custom" THEN q
  ELSE Custom!commit_available_nodes(q, TotalNodes - NodesOf(run))

(* The plans that are promises.  Between ticks periodic backfill starts    *)
(* only heads, and fixed dispatch nothing.                                 *)
Promises(planned, unstarted) ==
  CASE policy = "fixed" -> << >>
    [] policy = "periodic" ->
         [j \in DOMAIN planned \cap {e.job : e \in {x \in ToSet(unstarted) : x = unstarted[1]}} |->
            planned[j]]
    [] OTHER -> planned

(* The next instant: the jobs in ends end, and the scheduler is called.    *)
(* advance_to() begins at the present time; without an end, an arrival or  *)
(* a tick there is nothing to do at a later one.                           *)
instant(t, ends, tick, declines) ==
  /\ now <= t /\ (settled \/ t = now)
  /\ \A u \in Arrivals \cup Ends : t <= u
  /\ {j \in DOMAIN running : running[j].end = t} \subseteq ends
  /\ ~EarlyEnds => \A j \in ends : running[j].end = t
  /\ ~settled \/ ends # {} \/ t \in Arrivals \/ tick
  /\ tick => policy \in {"periodic", "fixed"} /\ ticked < t
  /\ declines => policy = "custom"
  /\ LET left == [j \in DOMAIN running \ ends |-> running[j]]
     IN  \E r \in {Loop(AtInstant(t, ends), t, left, tick, declines)} :
           LET started   == DOMAIN r.run \ DOMAIN left
               unstarted == SelectSeq(waiting, LAMBDA e : e.job \notin started)
               promised  == Promises(r.planned, unstarted)
           IN  /\ queue' = Committed(r.queue, r.run)
               /\ running' = r.run
               /\ waiting' = unstarted
               /\ promise' = promised @@ [j \in DOMAIN promise \ started |-> promise[j]]
               /\ late' = \/ \E j \in started \cap DOMAIN promise : t > promise[j]
                          \/ \E j \in DOMAIN promised \cap DOMAIN promise : promised[j] > promise[j]
               /\ told' = told \o r.told
               /\ declined' = declined \cup r.declined
         /\ deque' = IF policy = "hybrid" THEN DequeLoop(deque, t, left) ELSE deque
  /\ busy' = IF policy = "custom" THEN busy + NodesOf(running) * (t - now) ELSE busy
  /\ now' = t /\ settled' = TRUE
  /\ ticked' = IF tick THEN t ELSE ticked
  /\ UNCHANGED <<policy, inserted>>

(* What the simulation is told about the queue. *)
Observed ==
  CASE policy \in {"hybrid", "periodic", "fixed"} ->
         [ids |-> Hybrid!pending_job_ids(queue), active |-> Hybrid!active_job_count(queue),
          next |-> Hybrid!get_next_arrival_time(queue)]
    [] policy = "sjf" ->
         [ids |-> Sjf!pending_job_ids(queue), active |-> Sjf!active_job_count(queue),
          next |-> Sjf!get_next_arrival_time(queue)]
    [] policy = "ljf" ->
         [ids |-> Ljf!pending_job_ids(queue), active |-> Ljf!active_job_count(queue),
          next |-> Ljf!get_next_arrival_time(queue)]
    [] policy = "custom" ->
         [ids |-> Custom!pending_job_ids(queue), active |-> Custom!active_job_count(queue),
          next |-> Custom!get_next_arrival_time(queue)]

(* load_checkpoint(): the pending jobs are inserted into a new scheduler in *)
(* order of their numbers; their records come from the job store.  The     *)
(* custom scheduler is saved as it is.  The deque runs on, uninterrupted.  *)
Rebuilt(ids) ==
  LET record(j) == CHOOSE e \in ToSet(waiting) : e.job = j
      sorted    == SortSeq(ids, <)
      again[i \in 0 .. Len(ids)] ==
        IF i = 0 THEN NewQueue(policy)
        ELSE LET e == record(sorted[i])
             IN  CASE policy \in {"hybrid", "periodic", "fixed"} -> Hybrid!insert_job(again[i - 1], e)
                   [] policy = "sjf" -> Sjf!insert_job(again[i - 1], e)
                   [] policy = "ljf" -> Ljf!insert_job(again[i - 1], e)
      q == again[Len(ids)]
  IN  CASE policy \in {"hybrid", "periodic", "fixed"} -> Hybrid!sync_to(q, now)
        [] policy = "sjf" -> Sjf!update_eligible_jobs(q, now)
        [] policy = "ljf" -> Ljf!update_eligible_jobs(q, now)

restart ==
  /\ policy # "custom"
  /\ queue' = Rebuilt(Observed.ids)
  /\ UNCHANGED <<policy, deque, now, settled, ticked, waiting, inserted, running, promise, late,
                 told, declined, busy>>

Next ==
  \/ \E e \in Entry : insert_job(e)
  \/ \E t \in now .. LastTime, ends \in SUBSET DOMAIN running, tick, declines \in BOOLEAN :
       instant(t, ends, tick, declines)
  \/ restart

Spec == Init /\ [][Next]_vars

-----------------------------------------------------------------------------
Ids(s) == [i \in DOMAIN s |-> s[i].job]
Arrived == {e \in ToSet(waiting) : e.submit <= now}

(* However its entries were marked, popped, compacted and withheld, the    *)
(* queue reports exactly the jobs not started, the number of them that     *)
(* have arrived, and the next arrival; and the custom scheduler accounts   *)
(* the node-time that jobs held.                                           *)
QueueExact ==
  /\ ToSet(Observed.ids) = {e.job : e \in ToSet(waiting)}
  /\ Len(Observed.ids) = Len(waiting)
  /\ Observed.active = Cardinality(Arrived)
  /\ Observed.next = Min({Infinity} \cup Arrivals)
  /\ policy = "custom" => Custom!resource_area_through(queue, now) = busy

(* While every job uses its whole limit (~EarlyEnds), a job whose start a  *)
(* scheduler has planned is not started, or planned, later than that by a  *)
(* later call.  With early ends it is not so, although                     *)
(* docs/dev/SCHEDULING_PREDICTIONS.md calls a planned start protected:     *)
(* every call plans anew in queue order, and a job that moves forward onto *)
(* the nodes of an early end takes the slot of one planned behind it.      *)
PromisesKept == ~late

(* The hybrid scheduler, restarted at any point, starts the same jobs on   *)
(* the circular buffer as an uninterrupted one does on the deque.          *)
DequeAgrees ==
  policy = "hybrid" => /\ Deque!pending_job_ids(deque) = Observed.ids
                       /\ Deque!active_job_count(deque) = Observed.active

(* Every job that arrived is announced to the custom scheduler once, in    *)
(* order, and looking at new arrivals only, unless resources changed, it   *)
(* misses no job that a scan of the whole queue would offer.               *)
NoCandidateMissed ==
  policy = "custom" =>
    /\ \A i, k \in DOMAIN told : i < k => told[i] < told[k]
    /\ ~queue.arrived =>
         ToSet(told) = (1 .. inserted.job) \ {e.job : e \in ToSet(waiting) \ Arrived}
    /\ Custom!active_job_count(queue) > 0 /\ queue.tracked = now /\ ~queue.arrived =>
         LET free == TotalNodes - NodesOf(running)
             r    == calculate_fcfs_reservation(reservation_timeline(free, running, now),
                                                queue.entries[1], now)
         IN  ~queue.entries[1].removed /\ queue.entries[1].nodes > free =>
               \A i \in Custom!find_backfill_candidates_from(queue, 2, free, running, r, now) :
                 queue.entries[i].job \in declined

-----------------------------------------------------------------------------
(* The instance that TLC checks: four jobs on four nodes, a long narrow    *)
(* one, a short one, and two that block behind them.                       *)
(* Conservative backfill where the class has it. *)
MCOptions ==
  {o \in [backfill : {"conservative", "easy"}, queue : {"circular", "deque", "block"},
          priority : {"fcfs", "fcfs_conservative", "fcfs_alt", "sjf", "ljf"},
          block_size : {3, 8}, reservation_depth : {0}, backfill_depth : {0},
          backfill_interval : 0 .. 1, dispatch_interval : 0 .. 1, dispatch_depth : {0, 2},
          on_events : BOOLEAN, selector : BOOLEAN] :
     (o.backfill = "conservative") <=> (o.priority \in FcfsOrders)}

MCShapes == {<<1, 3>>, <<2, 1>>, <<3, 1>>, <<4, 1>>}
=============================================================================
