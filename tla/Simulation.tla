----------------------------- MODULE Simulation -----------------------------
(***************************************************************************)
(* The event loop of BasicSimulation::advance_to_impl() with the FCFS/EASY *)
(* scheduler on a circular queue (src/src/sim/sim.cpp,                     *)
(* scheduler_fcfs_easy_circular.cpp) and its periodic-backfill variant     *)
(* (scheduler_fcfs_periodic_easy_circular.cpp).  A caller appends jobs and *)
(* advances the clock, either once to the drain sentinel (batch) or in     *)
(* steps (streaming).  One action is one iteration of the loop: it picks   *)
(* the next instant, consumes everything that happens at it, and lets the  *)
(* scheduler start jobs until a pass starts none.                          *)
(*                                                                         *)
(* A START event is processed as soon as it is inserted, so only ENDs and  *)
(* RELEASEs are ever pending here.  The job store and its output are       *)
(* module JobStore.                                                        *)
(***************************************************************************)
EXTENDS Reservations, Sequences, FiniteSets, SequencesExt, FiniteSetsExt

CONSTANTS
  NumJobs,             \* bound: jobs of the workload
  Submits,             \* submit times
  Requests,            \* node counts
  Shapes,              \* <<limit, run time>> pairs; a job may end early
  TotalNodes,          \* --total_nodes
  Schedules,           \* capacity schedules: changes in time order
  Backfill,            \* the backfill policy is not NONE
  BackfillInterval,    \* --backfill_interval; 0 = backfill at every event
  BackfillDepth,       \* --backfill_queue_depth; 0 = unlimited
  PlanningHorizon,     \* --planning_horizon
  PlanningResolution,  \* --planning_time_resolution; 1 = exact
  ReleaseDelays,       \* sampled node release delays; {} = none configured
  Targets              \* finite times that advance_to() is called with

Jobs == 1 .. NumJobs

(* numeric_limits<sim_time_t>::max(): no such event, and the drain target. *)
Infinity == Horizon + 1
Drain == Infinity

ASSUME WorkloadAssumption ==
  /\ Horizon \in Nat /\ NumJobs \in Nat
  /\ Submits \subseteq Time /\ Targets \subseteq Time
  /\ Requests \subseteq Nodes \ {0} /\ TotalNodes \in Nodes
  /\ \A shape \in Shapes : shape[1] \in Nat \ {0} /\ shape[2] \in Nat \ {0}
ASSUME SchedulingAssumption ==
  /\ Backfill \in BOOLEAN
  /\ BackfillInterval \in Nat /\ (BackfillInterval > 0 => Backfill)
  /\ BackfillDepth \in Nat /\ PlanningHorizon \in Nat
  /\ PlanningResolution \in Nat \ {0}
  /\ ReleaseDelays \subseteq Nat
  /\ \A s \in Schedules :
       /\ s \in Seq([time : Time, total : 0 .. TotalNodes])
       /\ \A i, k \in 1 .. Len(s) : i < k => s[i].time < s[k].time

VARIABLES
  job,         \* the workload, in submission order
  changes,     \* m_capacity_changes
  appended,    \* jobs appended so far
  rejected,    \* jobs that submit_job() turned away
  now,         \* m_current_time
  target,      \* target_time of the current or last advance_to()
  looping,     \* advance_to() has not returned
  capacity,    \* m_current_capacity
  nextChange,  \* m_next_capacity_change
  waiting,     \* the wait queue
  running,     \* m_running_jobs: planned release time of each job in it
  evtq,        \* pending END and RELEASE events
  inUse,       \* m_n_nodes_in_use
  releasing,   \* m_n_nodes_releasing
  arrivals,    \* m_pending_queue_arrivals
  nextTick,    \* m_next_backfill_evaluation
  dirty,       \* m_periodic_backfill_dirty
  start,       \* begin time of each job, Infinity before it starts
  promise,     \* the first reservation each job got as the blocked head
  evaluated,   \* time of the last backfill pass of a tick
  fault        \* an internal consistency check threw

caller == <<job, changes, appended, rejected>>
vars == <<caller, now, target, looping, capacity, nextChange, waiting, running,
          evtq, inUse, releasing, arrivals, nextTick, dirty, start,
          promise, evaluated, fault>>

-----------------------------------------------------------------------------
NodesOf(J) == SumFunctionOnSet([j \in Jobs |-> job[j].nodes], J)
Least(S) == IF S = {} THEN Infinity ELSE Min(S)

(* The function f itself, which TLC tabulates once instead of evaluating it *)
(* at every application.                                                   *)
Table(f) == CHOOSE g \in {f} : g = f

(* The release that a start at t with estimate e is planned with: the end  *)
(* of the estimate on the planning grid.                                   *)
PlannedRelease(t, e) ==
  ((t + e + PlanningResolution - 1) \div PlanningResolution) * PlanningResolution

release_estimate(t, e) == PlannedRelease(t, e) - t

(* What a scheduling pass works on: the time, the capacity, the index of   *)
(* the first change still ahead, the nodes occupied, the queue and the     *)
(* running map; settled once a pass has started nothing.                   *)
State(t, cap, next, occupied, queue, run) ==
  [t |-> t, cap |-> cap, next |-> next, occupied |-> occupied, queue |-> queue,
   run |-> run, settled |-> FALSE]

(* Mutant: capacity changes do not count against free nodes. *)
get_available_nodes_of_maximum(s) ==
  IF s.occupied < TotalNodes THEN TotalNodes - s.occupied ELSE 0

get_available_nodes(s) == IF s.occupied < s.cap THEN s.cap - s.occupied ELSE 0

(* sync_to(): the queue is in submit order, so the eligible jobs are a     *)
(* prefix.                                                                 *)
EligibleEnd(s) ==
  Max({k \in 0 .. Len(s.queue) : \A i \in 1 .. k : job[s.queue[i]].submit <= s.t})

(* Step 1 of a pass: the longest prefix of the eligible jobs that fits is  *)
(* started.                                                                *)
HeadsFirst(s) ==
  LET eligible == SubSeq(s.queue, 1, EligibleEnd(s))
      first(k) == NodesOf({eligible[i] : i \in 1 .. k})
      count    == Max({k \in 0 .. Len(eligible) : first(k) <= get_available_nodes(s)})
  IN  [heads   |-> SubSeq(eligible, 1, count),
       blocked |-> SubSeq(eligible, count + 1, Len(eligible)),
       left    |-> get_available_nodes(s) - first(count)]

(* reservation_timeline() after step 1, f: the nodes left, what the        *)
(* running jobs and the heads just chosen are planned to release, and the  *)
(* capacity changes ahead.  A job past its planned release does not give   *)
(* its nodes back.                                                         *)
CapacityAt(s, u) ==
  LET due == {i \in s.next .. Len(changes) : changes[i].time <= u}
  IN  IF due = {} THEN s.cap ELSE changes[Max(due)].total

StartBalance(s, f) ==
  IF f.left = 0 /\ s.occupied > s.cap THEN s.cap - s.occupied ELSE f.left

reservation_timeline(s, f) ==
  LET planned(u) == {j \in DOMAIN s.run : s.t < s.run[j] /\ s.run[j] <= u}
      chosen(u)  == {j \in ToSet(f.heads) : PlannedRelease(s.t, job[j].limit) <= u}
      balance(u) == StartBalance(s, f) + NodesOf(planned(u)) + NodesOf(chosen(u))
                      + CapacityAt(s, u) - s.cap
  IN  Table([u \in Time |-> IF balance(u) > 0 THEN balance(u) ELSE 0])

(* m_fcfs_reservation_time of the blocked head on a timeline: the earliest *)
(* fit of no duration.                                                     *)
HeadReservation(s, f, plan) ==
  LET fits == {u \in s.t .. Horizon : plan[u] >= job[f.blocked[1]].nodes}
  IN  IF fits = {} THEN NoFit ELSE Min(fits)

reservation_within_horizon(r, t) == r # NoFit /\ r - t <= PlanningHorizon

(* How many of the blocked jobs, head included, a pass may look at. *)
ScanEnd(s, f, r) ==
  LET slots == IF reservation_within_horizon(r, s.t)
               THEN BackfillDepth ELSE BackfillDepth + 1
  IN  IF BackfillDepth = 0 THEN Len(f.blocked) ELSE Min({slots, Len(f.blocked)})

(* Mutant: a candidate only has to fit the free nodes. *)
preserves_reservations_never_checked(s, plan, r, j) == r # NoFit

(* The candidate leaves the head's reservation, and the candidates chosen  *)
(* before it, as they are.                                                 *)
preserves_reservations(s, plan, r, j) ==
  /\ r # NoFit
  /\ reservation_within_horizon(r, s.t) =>
       Fits(plan, job[j].nodes, release_estimate(s.t, job[j].limit), s.t)

(* The plan with j reserved at t, when the head's reservation r is planned *)
(* at all: when it is within the horizon.                                  *)
reserve(s, r, plan, t, j) ==
  IF reservation_within_horizon(r, s.t)
  THEN Table(Reserved(plan, t, job[j].nodes, release_estimate(t, job[j].limit)))
  ELSE plan

(* One candidate of the scan: a has the nodes left, the jobs chosen and    *)
(* the plan.                                                               *)
Examined(s, r, a, j) ==
  IF job[j].nodes <= a.left /\ preserves_reservations(s, a.plan, r, j)
  THEN [left |-> a.left - job[j].nodes, chosen |-> Append(a.chosen, j),
        plan |-> reserve(s, r, a.plan, s.t, j)]
  ELSE a

(* The backfill scan behind the blocked head. *)
BackfillScan(s, f, timeline, r) ==
  LET scan[i \in 1 .. Len(f.blocked)] ==
        IF i = 1 THEN [left |-> f.left, chosen |-> << >>,
                       plan |-> reserve(s, r, timeline, r, f.blocked[1])]
        ELSE Examined(s, r, scan[i - 1], f.blocked[i])
  IN  IF f.left = 0 THEN << >> ELSE scan[ScanEnd(s, f, r)].chosen

Backfilled(s, f) ==
  LET planned(timeline) == BackfillScan(s, f, timeline, HeadReservation(s, f, timeline))
  IN  planned(reservation_timeline(s, f))

(* The jobs that one pass starts; withBackfill is FALSE for                *)
(* schedule_event(), the FCFS pass of periodic mode.                       *)
schedule(s, withBackfill) ==
  LET after(f) == IF f.blocked = << >> \/ ~withBackfill \/ ~Backfill THEN f.heads
                  ELSE f.heads \o Backfilled(s, f)
  IN  after(HeadsFirst(s))

(* The queue without the jobs of S. *)
Erased(q, S) ==
  LET kept[i \in 0 .. Len(q)] ==
        IF i = 0 THEN << >>
        ELSE IF q[i] \in S THEN kept[i - 1] ELSE Append(kept[i - 1], q[i])
  IN  kept[Len(q)]

(* The state after the jobs of S are started. *)
Started(s, S) ==
  [t |-> s.t, cap |-> s.cap, next |-> s.next, occupied |-> s.occupied + NodesOf(S),
   queue |-> Erased(s.queue, S),
   run |-> Table([j \in DOMAIN s.run \cup S |->
                    IF j \in S THEN PlannedRelease(s.t, job[j].limit) ELSE s.run[j]]),
   settled |-> S = {}]

(* One pass, unless the last one started nothing.  In periodic mode only   *)
(* the first pass of a tick backfills.                                     *)
PassAfter(s, tick, k) ==
  IF s.settled THEN s
  ELSE Started(s, ToSet(schedule(s, BackfillInterval = 0 \/ (tick /\ k = 1))))

(* The scheduling loop: passes until one starts nothing. *)
Scheduled(s, tick) ==
  LET pass[k \in 0 .. NumJobs] ==
        IF k = 0 THEN s ELSE PassAfter(pass[k - 1], tick, k)
  IN  pass[NumJobs]

(* The reservation that the last pass, at s, leaves its blocked head with. *)
Promised(s) ==
  LET first(h, r) == IF promise[h] = NoFit /\ reservation_within_horizon(r, s.t)
                     THEN [promise EXCEPT ![h] = r] ELSE promise
      after(f) == IF f.blocked # << >> /\ Backfill
                  THEN first(f.blocked[1],
                             HeadReservation(s, f, reservation_timeline(s, f)))
                  ELSE promise
  IN  after(HeadsFirst(s))

(* Starts the jobs that the passes from s to then chose: insert_job(), the *)
(* running map, and the START events, processed at once.  events and used  *)
(* are the pending events and the nodes in use before.                     *)
Dispatch(s, then, events, used) ==
  LET S == DOMAIN then.run \ DOMAIN s.run
  IN  /\ waiting' = then.queue
      /\ running' = then.run
      /\ evtq' = events \cup {[t |-> s.t + job[j].run, kind |-> "end", job |-> j] : j \in S}
      /\ inUse' = used + NodesOf(S)
      /\ start' = [j \in Jobs |-> IF j \in S THEN s.t ELSE start[j]]
      /\ promise' = Promised(then)

-----------------------------------------------------------------------------
(* active_job_count() and get_next_arrival_time() once synced to t. *)
ActiveCount(t) == Cardinality({j \in ToSet(waiting) : job[j].submit <= t})
NextArrival == Least({job[j].submit : j \in {k \in ToSet(waiting) : job[k].submit > now}})
NextCapacity == IF nextChange <= Len(changes) THEN changes[nextChange].time ELSE Infinity
NextEvent == Least({e.t : e \in evtq})

(* A tick orders events only while a job waits for a backfill decision. *)
EffectiveTick ==
  IF BackfillInterval > 0 /\ ActiveCount(now) > 0 THEN nextTick ELSE Infinity

(* record_queue_arrivals() at t: throws when the queue has fewer jobs than *)
(* arrived.                                                                *)
RecordArrivals(t) ==
  /\ arrivals' = [u \in DOMAIN arrivals \ {t} |-> arrivals[u]]
  /\ fault' = (fault \/ (t \in DOMAIN arrivals /\ ActiveCount(t) < arrivals[t]))

(* apply_capacity_changes() at t. *)
ChangeAfter(t) ==
  nextChange + Cardinality({i \in nextChange .. Len(changes) : changes[i].time <= t})

(* Mutant: the cursor is not moved. *)
ApplyCapacityInPlace(t) ==
  /\ nextChange' = nextChange
  /\ capacity' = IF ChangeAfter(t) = nextChange THEN capacity
                 ELSE changes[ChangeAfter(t) - 1].total

ApplyCapacity(t) ==
  /\ nextChange' = ChangeAfter(t)
  /\ capacity' = IF ChangeAfter(t) = nextChange THEN capacity
                 ELSE changes[ChangeAfter(t) - 1].total

(* The first tick after t on the cadence of tick. *)
CatchUp(tick, t) ==
  IF BackfillInterval > 0 /\ tick <= t
  THEN tick + ((t - tick) \div BackfillInterval + 1) * BackfillInterval ELSE tick

(* align_backfill_tick(): the first tick is one interval away; a tick in   *)
(* the past moves to the first grid point at or after t.                   *)
AlignTick(tick, t) ==
  IF BackfillInterval = 0 THEN tick
  ELSE IF tick = Infinity THEN t + BackfillInterval
  ELSE IF tick < t
  THEN tick + ((t - tick + BackfillInterval - 1) \div BackfillInterval) * BackfillInterval
  ELSE tick

(* The end of an iteration at t, in which events freed what used and run   *)
(* say.  An event at the exact time of a tick takes the tick with it; the  *)
(* passes run when should is set.                                          *)
Settle(t, events, used, run, should, isTick) ==
  LET exact  == BackfillInterval > 0 /\ ~isTick /\ nextTick = t
      tick   == (isTick /\ dirty) \/ exact
      passes == IF isTick THEN dirty ELSE should
      ticked == IF isTick \/ exact THEN nextTick + BackfillInterval ELSE nextTick
  IN  /\ \E s \in {State(t, capacity', nextChange', used + releasing', waiting, run)} :
         \E then \in {IF passes THEN Scheduled(s, tick) ELSE s} :
           Dispatch(s, then, events, used)
      /\ nextTick' = CatchUp(ticked, t)
      /\ dirty' = IF tick THEN FALSE ELSE dirty \/ (BackfillInterval > 0 /\ passes)
      /\ evaluated' = IF tick /\ passes THEN t ELSE evaluated

(* Mutant: the loop leaves the capacity changes of an idle machine. *)
LoopRunsWithJobs ==
  \/ ActiveCount(now) > 0
  \/ evtq # {}
  \/ NextArrival < Infinity

LoopRuns ==
  \/ ActiveCount(now) > 0
  \/ evtq # {}
  \/ NextArrival < Infinity
  \/ target < Drain /\ NextCapacity <= target

-----------------------------------------------------------------------------
JobSpecs ==
  {[submit |-> s, nodes |-> n, limit |-> shape[1], run |-> shape[2], delay |-> d] :
     s \in Submits, n \in Requests, shape \in Shapes,
     d \in IF ReleaseDelays = {} THEN {0} ELSE ReleaseDelays}

Workloads ==
  {w \in [Jobs -> JobSpecs] :
     \A j \in Jobs : j > 1 => w[j - 1].submit <= w[j].submit}

(* A new simulation, with the workload the caller is going to append. *)
Init ==
  /\ job \in Workloads /\ changes \in Schedules
  /\ appended = 0 /\ rejected = {}
  /\ now = 0 /\ target = 0 /\ looping = FALSE
  /\ capacity = TotalNodes /\ nextChange = 1
  /\ waiting = << >> /\ running = << >> /\ evtq = {}
  /\ inUse = 0 /\ releasing = 0
  /\ arrivals = << >>
  /\ nextTick = Infinity /\ dirty = TRUE
  /\ start = [j \in Jobs |-> Infinity]
  /\ promise = [j \in Jobs |-> NoFit]
  /\ evaluated = NoFit
  /\ fault = FALSE

clock == <<now, target, looping, capacity, nextChange>>
resources == <<running, evtq, inUse, releasing, start, promise>>

(* submit_job(): the job enters the queue, or is turned away when the      *)
(* machine never has enough nodes for it.                                  *)
submit_job(j) ==
  IF job[j].nodes > TotalNodes
  THEN /\ rejected' = rejected \cup {j}
       /\ UNCHANGED <<waiting, arrivals, dirty>>
  ELSE /\ waiting' = Append(waiting, j)
       /\ arrivals' = [u \in DOMAIN arrivals \cup {job[j].submit} |->
                         (IF u \in DOMAIN arrivals THEN arrivals[u] ELSE 0)
                           + (IF u = job[j].submit THEN 1 ELSE 0)]
       /\ dirty' = (dirty \/ BackfillInterval > 0)
       /\ UNCHANGED rejected

(* append_job(): the next job of the workload. *)
append_job ==
  LET j == appended + 1
  IN  /\ ~looping /\ appended < NumJobs
      /\ job[j].submit >= now
      /\ appended' = j
      /\ submit_job(j)
      /\ UNCHANGED <<job, changes, clock, resources, nextTick, evaluated, fault>>

(* advance_to(to) up to its loop.  The caller appends jobs before it       *)
(* passes their submit time, and drains once it has appended them all.     *)
(* Periodic mode dispatches here without backfill.                         *)
advance_to(to) ==
  /\ ~looping /\ now <= to
  /\ \A j \in Jobs : j > appended => to <= job[j].submit
  /\ looping' = TRUE /\ target' = to
  /\ RecordArrivals(now)
  /\ ApplyCapacity(now)
  /\ \E s \in {State(now, capacity', nextChange', inUse + releasing, waiting, running)} :
     \E then \in {Scheduled(s, FALSE)} : Dispatch(s, then, evtq, inUse)
  /\ nextTick' = AlignTick(nextTick, now)
  /\ UNCHANGED <<caller, now, releasing, dirty, evaluated>>

-----------------------------------------------------------------------------
(* One iteration of the loop; the branches in the order the code tries     *)
(* them.  A pending event has a time before the sentinel.                  *)
EventNext ==
  /\ NextEvent < Infinity
  /\ NextEvent <= Min({NextArrival, NextCapacity, EffectiveTick, target})

ArrivalNext ==
  /\ NextArrival < Infinity
  /\ NextArrival <= Min({NextCapacity, EffectiveTick, target})

CapacityNext ==
  /\ NextCapacity < Infinity
  /\ NextCapacity <= Min({EffectiveTick, target})

(* Mutant: a waiting job is enough. *)
TickNextWhileWaiting == EffectiveTick < Infinity /\ EffectiveTick <= target

(* A drain must not tick forever for a job that nothing will ever start. *)
TickNext ==
  /\ EffectiveTick < Infinity /\ EffectiveTick <= target
  /\ \/ evtq # {}
     \/ NextArrival < Infinity
     \/ NextCapacity < Infinity /\ NextCapacity <= target

(* Moves the clock to t, where events is what stays pending, and used and  *)
(* run what stays in use and in the running map.                           *)
Iterate(t, events, used, run, should, isTick) ==
  /\ now' = t
  /\ RecordArrivals(t)
  /\ Settle(t, events, used, run, should, isTick)
  /\ UNCHANGED <<caller, target, looping>>

(* All ENDs and RELEASEs of one instant.  With a release delay an ended    *)
(* job holds its nodes, and its place in the running map, until RELEASE.   *)
ProcessEvents ==
  LET t        == NextEvent
      ends     == {e.job : e \in {f \in evtq : f.t = t /\ f.kind = "end"}}
      held     == IF ReleaseDelays = {} THEN {} ELSE ends
      queue    == evtq \cup {[t |-> t + job[j].delay, kind |-> "release", job |-> j] : j \in held}
      released == {e.job : e \in {f \in queue : f.t = t /\ f.kind = "release"}}
      freed    == (ends \ held) \cup released
      run      == [j \in DOMAIN running \ freed |-> running[j]]
  IN  /\ LoopRuns /\ EventNext
      /\ ApplyCapacity(t)
      /\ releasing' = releasing + NodesOf(held) - NodesOf(released)
      /\ Iterate(t, {e \in queue : e.t # t}, inUse - NodesOf(ends), run,
                 freed # {} \/ nextChange' # nextChange \/ NextArrival = t, FALSE)

(* Mutant: arrivals are left for the next event. *)
ProcessArrivalsUnscheduled ==
  /\ LoopRuns /\ ~EventNext /\ ArrivalNext
  /\ ApplyCapacity(NextArrival)
  /\ UNCHANGED releasing
  /\ Iterate(NextArrival, evtq, inUse, running, FALSE, FALSE)

ProcessArrivals ==
  /\ LoopRuns /\ ~EventNext /\ ArrivalNext
  /\ ApplyCapacity(NextArrival)
  /\ UNCHANGED releasing
  /\ Iterate(NextArrival, evtq, inUse, running, TRUE, FALSE)

ProcessCapacity ==
  /\ LoopRuns /\ ~EventNext /\ ~ArrivalNext /\ CapacityNext
  /\ ApplyCapacity(NextCapacity)
  /\ UNCHANGED releasing
  /\ Iterate(NextCapacity, evtq, inUse, running, TRUE, FALSE)

ProcessTick ==
  /\ LoopRuns /\ ~EventNext /\ ~ArrivalNext /\ ~CapacityNext /\ TickNext
  /\ UNCHANGED <<capacity, nextChange, releasing>>
  /\ Iterate(EffectiveTick, evtq, inUse, running, FALSE, TRUE)

(* advance_to() returns: the clock reaches the target, unless that is the  *)
(* drain sentinel.                                                         *)
Return ==
  /\ ~(LoopRuns /\ (EventNext \/ ArrivalNext \/ CapacityNext \/ TickNext))
  /\ looping' = FALSE
  /\ now' = IF target = Drain THEN now ELSE target
  /\ UNCHANGED <<caller, target, capacity, nextChange, waiting, resources,
                 arrivals, nextTick, dirty, evaluated, fault>>

Step ==
  /\ looping
  /\ \/ ProcessEvents
     \/ ProcessArrivals
     \/ ProcessCapacity
     \/ ProcessTick
     \/ Return

Next == append_job \/ (\E to \in Targets \cup {Drain} : advance_to(to)) \/ Step

Spec == Init /\ [][Next]_vars

-----------------------------------------------------------------------------
(* A pass never starts a job on nodes that running jobs hold, that are     *)
(* still being released, or that a capacity change has withdrawn.  Read    *)
(* off the schedule and not off the counters: at a start the jobs whose    *)
(* run or release is not over fit the capacity of that time, although a    *)
(* change may leave the machine overcommitted before and after.            *)
StartsFit ==
  [][start' # start =>
       NodesOf({j \in Jobs : /\ start'[j] <= now'
                             /\ now' < start'[j] + job[j].run + job[j].delay})
         <= capacity']_vars

(* The workload's nodes return when a job ends. *)
Undelayed == \A j \in Jobs : job[j].delay = 0

(* Backfilling never delays the blocked head: a job starts no later than   *)
(* the first reservation it got as the head, whatever arrives, ends early  *)
(* or is backfilled in between.  For jobs whose nodes return by their      *)
(* limit: a release delay is not planned for.                              *)
HeadNotDelayed ==
  Undelayed => \A j \in Jobs : promise[j] # NoFit =>
    IF start[j] < Infinity THEN start[j] <= promise[j] ELSE now <= promise[j]

(* advance_to() to a finite target returns with the clock at the target    *)
(* and everything up to it consumed: events, arrivals and capacity         *)
(* changes; no tick holds any of them back.                                *)
AdvanceConsumesAll ==
  [][looping /\ ~looping' /\ target < Drain =>
       /\ now' = target
       /\ \A e \in evtq' : e.t > target
       /\ NextCapacity' > target
       /\ \A u \in DOMAIN arrivals' : u > target]_vars

(* A drain leaves nothing pending: every job that was appended has been    *)
(* rejected or started, once, or waits behind a head that needs more nodes *)
(* than the capacity schedule ever gives again.  Its clock stops at the    *)
(* time of something that happened: ticks neither keep a finished          *)
(* simulation alive nor carry its clock on.                                *)
DrainCompletes ==
  ~looping /\ target = Drain =>
    LET started == {j \in Jobs : start[j] < Infinity}
    IN  /\ evtq = {} /\ arrivals = << >> /\ ~fault
        /\ inUse = 0 /\ releasing = 0 /\ running = << >>
        /\ 1 .. appended = rejected \cup ToSet(waiting) \cup started
        /\ appended = Cardinality(rejected) + Len(waiting) + Cardinality(started)
        /\ waiting # << >> =>
             NextCapacity = Infinity /\ job[waiting[1]].nodes > capacity
        /\ now \in {0} \cup Targets
                    \cup {job[j].submit : j \in Jobs}
                    \cup {start[j] + job[j].run : j \in started}
                    \cup {start[j] + job[j].run + job[j].delay : j \in started}
                    \cup {changes[i].time : i \in 1 .. Len(changes)}

(* A tick that is due for a backfill evaluation gets one: a tick taken     *)
(* while a change was marked leaves no job waiting that a pass with        *)
(* backfill would start.                                                   *)
TickStartsAll ==
  [][dirty /\ ~dirty' /\ evaluated' # now' =>
       schedule(State(now', capacity', nextChange', inUse' + releasing', waiting',
                      running'), TRUE) = << >>]_vars

=============================================================================
