# DR_EVT in TLA+

DR_EVT (`src/src/`) simulates the scheduling of jobs on an HPC machine. This
directory specifies it in TLA+: the event loop, every scheduler and wait queue,
the reservation plan behind them, the job store and its output, checkpoints, the
ways to run a workload again (streamed, replayed, warm-started, from files), and
the processes that drive simulations from outside (gRPC sessions, MPI feeder,
multi-cluster dispatchers). TLC checks the specifications on small instances;
TLAPS proves part of them for all values of the constants.

## The system

| Part | State | Operations | Hard because | Correct when |
|---|---|---|---|---|
| Simulation event loop (`sim/sim.cpp`) | clock, capacity cursor, running map, pending arrivals, next tick and its dirty flag | `append_job(s)`, `advance_to`, `run` | events, arrivals, capacity changes and ticks compete for one instant; a caller may stop and resume anywhere | nothing starts on nodes that are taken, the head is not delayed, a call consumes everything up to its target and returns |
| Schedulers and wait queues (`sim/scheduler_*`, `sim/block_wait_queue.hpp`) | queue with an eligible prefix and lazily removed entries; protected reservations; candidate marks | `insert_job`, `sync_to`, `schedule`, `schedule_event`, restart | lazy deletion, hidden suffixes, incremental scans | a queue stands for its list of jobs; planned starts are kept; no candidate is missed |
| Reservation planning (`sim/scheduler_base.*`) | vector of (time, free nodes) | `earliest_fit`, `can_fit`, `reserve` | index juggling while splitting and coalescing, unsigned subtraction | it stands for free nodes at each instant |
| Search cache (`sim/reservation_search_cache.hpp`) | bound per request shape, last fit | `earliest_fit`, `reserve` | a bound is stale after a reservation that wrapped | every answer is that of an uncached search |
| Trace and job store (`trace/trace.cpp`) | circular buffer of records, event queue by permanent job number, output cursor, sinks | append, start, event processing, reclaim, write | records leave while events still name them; several paths pass the output cursor | no dangling event, one row per job, the buffer within its capacity |
| Checkpoint and restart (`sim/sim.cpp`, `utils/redis_output.*`, `scripts/stitch_checkpoint_output.py`) | checkpoint file, output segments with boundaries | save, load, archive, stitch | a crash between any two steps | stitched output is exact; a restart is possible; little is lost |
| Warm start, replay, progressive files, queries, Python reference | historical jobs, recorded starts, file cursor, projections | load, stage, replay, query | departures at the boundary, zero-length jobs, files that meet at one time | the same schedule as the batch run |
| gRPC server and example client (`proto/`) | one simulation per stream, sticky parameters, Redis namespace | Init, append, advance, queries, finish | pipelined requests, failing requests, reused streams and prefixes | what was acknowledged is run and reported; sessions are independent |
| MPI feeder (`mpi/mpi_job_feeder.cpp`) | ranks with a share of the trace each | rounds of reduce, submit, advance | ranks must not pass their own next job | no call throws, every job once, the batch schedule |
| Multi-cluster dispatch (`experimental/multi-cluster/`) | controller, workers, servers | snapshot, choose, append, finish | decisions on snapshots; two implementations | estimates are kept, both decide alike |
| Multi-system backfill (`experimental/multi-cluster-bf/`) | one queue, several systems | `schedule`, the simulation loop | a backfill on one system moves the head's projection there | placements of the reference, target and projections kept |
| Parsing, parameters, statistics of traces, utilities | none that outlives a call | | formatting and numerics | |

The loop drives everything: it syncs the scheduler's queue to the clock,
publishes the capacity outlook and the running map to it, starts what it returns
through `Trace::insert_job`, and processes START, END and RELEASE events through
`Trace::process_single_event`, which may write and reclaim records. Inside a
simulation everything runs on the caller's thread; the concurrency there is
between the caller's calls, the event kinds that share an instant, and the
reclaim paths. Around it there are streams, ranks, workers and crashes.

## Modules

| Module | Models | State and actions |
|---|---|---|
| `JobStore` | `BasicTrace`'s store, event queue and scheduled-job output | one variable per field; `AppendJobs` (with reclaim, growth, refusal), `InsertJob`, `ProcessSingleEvent`, `RunUntilInclusive`, `FlushCompletedJobs`, `WriteSimulatedTrace`, `AdvanceClock` for the loop that drives it |
| `JobStoreProofs` | theorems about `JobStore` | |
| `Reservations` | what a plan is asked, instant by instant | operators only |
| `ReservationPlan` | the promise of `Reservation_Timeline` | `Search`, `Reserve` |
| `ReservationTimeline`, `ReservationSearchCache` | the segment vector; the memoized search | `earliest_fit`, `reserve`; each refines `ReservationPlan` |
| `ReservationTimelineProofs`, `ReservationSearchCacheProofs` | theorems about the vector and the cache | |
| `Simulation` | `advance_to_impl` with the FCFS/EASY circular scheduler, in event mode and with periodic backfill | `append_job`, `advance_to` (up to the loop), one action per branch of the loop, `Return` |
| `MCSimulation` | capacity schedules, release delays and run times that files and draws can give | operators; the instances |
| `SimulationProofs` | theorems about `Simulation` | |
| `SimulationReturns` | `Simulation` with fairness of the loop | |
| `Streaming` | a workload as one batch, then streamed; a streaming caller that queries; the same jobs read from files | variables and actions of its own, on `Simulation` |
| `Oracle`, `WarmStart`, `Replay` | further second runs: the Python reference; a warm start from the batch's recording; a replay of it | variables and actions of their own, on `Streaming` |
| `Reruns` | all of them | |
| `WarmStartProofs` | theorems about `WarmStart` in `Reruns` | |
| `CircularQueue`, `DequeQueue`, `BlockQueue`, `MultimapQueue` | the wait queues of the FCFS/EASY schedulers | a queue is a record; `insert_job`, `sync_to`, `schedule` and the queries are operators on it; what `Scheduler_Base` does for all of them is in `CircularQueue` |
| `WaitQueues` | what an FCFS wait queue promises, one list; the four queues and the list, given the same calls | `insert_job`, `sync_to`, `schedule` (the scheduling loop of an instant), `restart` |
| `SchedulerPlan` | the plan of one scheduling call | operators only |
| `HybridQueue`, `HybridDeque`, `PriorityQueue`, `CustomQueue` | hybrid and conservative (also periodic and with fixed dispatch), shortest and longest job first (`Schedulers` instantiates `PriorityQueue` for both), custom selector | operators on a queue record |
| `Schedulers` | the checks and the choice of `create_scheduler`; any of the schedulers in the loop | `insert_job`, `instant`, `restart` |
| `Checkpoint` | a progressive run with checkpoints | run, save in two steps, crash, load, archive, boundary, reopen, roll back; in Redis the renames of documents, indexes and records, one key at a time, the boundary, and the new namespace of each output |
| `CheckpointProofs` | theorems about `Checkpoint` | |
| `MultiSystem`, `MultiSystemReference` | the multi-system scheduler with its simulation; the Python reference | `submit_jobs`, `advance_to`, `Instant`, `Finish`; `simulate`, `EventLoop` |
| `OnlineSimulation` | a simulation as a value, for the modules that hold several | operators: `append_job(s)`, `advance_to`, `get_backfill_window`, `get_statistics`, `get_job_statuses`, `write_simulated_trace` |
| `Sessions` | the gRPC server | `Session(k)`: one request of stream k, with every failure it can meet |
| `SessionsProofs` | theorems about the sessions of `Remote` | |
| `SumProofs` | lemmas the proofs share: least counterexamples, sums over finite sets | |
| `ExampleClient` | the example client and the Redis namespace it reads | `StartClient`, `CallServer`, `TakeAnswer`, `Lookup`, `PrintFinalized` |
| `Feeder` | the MPI feeder | `Allreduce`, `Feed`, `Advance`, `Barrier`, `DrainRank`, `Reduce` |
| `Dispatch`, `GrpcDispatch` | the MPI dispatcher with its workers; the gRPC experiment | messages in queues; `NextJob`, `Worker`, `Receive`, `Choose`, `Accept`, `Finish`, `Check`; `AskWindows`, `AskHorizons`, `ChooseServer`, ... |
| `Remote` | the processes above, and a client that writes any requests | one scenario per behaviour; the instance for TLC |

A module that a run names ends with the instance that TLC checks (`MC...`), but for
`Simulation`, whose instances serve several modules.

`Simulation` uses the operators of `Reservations` for its plan, which is what
`ReservationTimeline` shows the segment vector to stand for, and keeps the wait
queue as a list, which `WaitQueues` shows the containers to
stand for. `WaitQueues` leaves open which candidates the plan accepts and whether
the head's reservation is planned: any set and either answer, the same for all
queues and fixed during one scheduling loop. `JobStore` and `Simulation` meet at
`insert_job` and at event processing: `Simulation` leaves the records to
`JobStore`, whose `AdvanceClock` and `InsertJob` allow every order in which the
loop can call it. `OnlineSimulation` is the event mode of `Simulation`, with
constant capacity and the circular queue of `CircularQueue`, written as operators
so that a server, a worker or a rank can hold one as part of its state; one
`advance_to` is one step there, because nothing outside sees its middle.

Abstractions. Times are small integers; a request is a node count, a limit and a
run time. One step of `Simulation` is one iteration of the loop, including the
scheduling passes at its end. A START is processed at once, so only ENDs and
RELEASEs are pending between iterations. `m_data` is a function from permanent
job numbers to records, and a record is the two facts the store looks at, whether
it was rejected and its end. `to_epoch` rounds to a grid coarser than the clock
(`FloatGrid`); 1 is the case of times that a record represents exactly. Node
counts in a plan are unsigned and wrap (`Word`). In `Checkpoint` a row is its
number in the output and a job's departure is given, since the schedule does not
depend on when its jobs are read (`FilesAgree`); of the rows handed to a stream
any prefix may have arrived when the process dies. A Redis output is a document (its CSV), an
index and a record per row: the set of job numbers and the indexes by time and size, which
are renamed one after the other and written together, are one index. gRPC and MPI deliver in order
and lose nothing: a channel is a sequence. Redis is a table and an index; a
transaction is atomic. `promise`, `evaluated`, `written`, `ended`, `batch`,
`late`, `used`, `torn`, `cut`, `reports` and their like are history variables for the
properties; no guard reads them.

Sampled delays belong to the job (chosen in `Init`), so that two runs of a
workload see the same draws.

## Runs

| Run | Shows | States, time |
|---|---|---|
| `JobStore` | four jobs, batches of up to two, a store of one record that grows or is refused, release delays: no event without a record, each job accounted once, the cursor ahead of what is reclaimed, the store within its capacity | 125,518, 6 s |
| `ReservationSearchCache` | all plans over three instants, all searches and reservations: bounds are sound, answers are those of the plain plan | 30,566, 27 s |
| `ReservationTimeline` | all timelines from two running jobs and any capacity changes over four instants: the profile is right, the vector implements the plan | 11,888, 43 s |
| `SimulationTicks` | three jobs on two nodes with periodic backfill, release delays, shrinking capacity, a coarse planning grid and a queue depth: `StartsFit`, `HeadNotDelayed`, `AdvanceConsumesAll`, `DrainCompletes`, and `AdvanceReturns` under fairness | 263,983, 67 s |
| `SimulationSkippedTick` (violation) | a delayed END at the time of a tick consumes the tick without a pass | |
| `Reruns` | four jobs on three nodes, with and without an outage, and then again in six ways: the streamed schedule (`SameSchedule`), the Python reference (`OracleAgrees`) and the file-by-file run (`FilesAgree`) equal the batch; reserved times told by queries are kept (`ReportedKept`); a warm start keeps history apart and continues the recording (`HistorySeparate`, `HistoryContinues`); a replay reproduces it although records are reclaimed (`ReplayExact`) | 659,673, 106 s |
| `WaitQueues` | all sequences of insertions, syncs, scheduling loops and restarts: the four queues start, count and report the same jobs as the list; no lookup and no restart fails | 6,331, 39 s |
| `Schedulers` | every scheduler that the options select, on four jobs, with restarts: the queue is exact, planned starts are kept when jobs use their limits, both hybrid containers agree, the custom scheduler misses no candidate | 118,396, 140 s |
| `Checkpoint` | eight jobs in four files, files or Redis, three crashes anywhere, in Redis between any two renames: the stitched output is exact, a restart is possible, the loss is bounded | 14,841, 2 s |
| `MultiSystem` | four jobs on three systems, every window rule: the reference's placements, the head's target, its projections | 267,436, 26 s |
| `Remote` | dispatchers, arbitrary client, example clients, feeder | 323,425, 110 s |
| `SessionStatistics` (violation) | statistics of a session whose records were reclaimed | |

Properties that a reader might take for more than they say: `HeadNotDelayed` is
for workloads without release delays, since a delay is not planned for, and the
workloads of the runs end by their limits.
`OracleAgrees` is for a constant capacity, the only one the reference knows.
`SameSchedule` is for event mode without release delays. `HistoryContinues` is for
jobs that use their whole limits, `ProjectionsKept` for the `every_system` rule.
`PromisesKept` is checked with `EarlyEnds = FALSE`, jobs that use their whole limits, and
fails otherwise (see the observations). `ReplayExact` admits samples in the middle of an
instant that wrap below zero when records end where they begin; the code writes them,
against its documentation (see the observations).
`OutputExact` and `RestartPossible` are for checkpoints used for one restart each;
`RestartPossible` also excuses a restart that was itself interrupted, and that the
records in Redis can be stitched (`Rebuilds`, a part of `OutputExact`) excuses a crash
amid the renames, after which the records cannot be (see the observations).
`AcknowledgedReported` asks for rows only from a finish that succeeds at the first
attempt.

Bounds. Three or four jobs are enough for a running job, a blocked head, a
backfill candidate and a later arrival. Capacity schedules shrink the machine
below what runs, recover, and end too small for the widest job; requests include
one that exceeds the machine. Targets fall before, on and between events and
ticks. Shapes include a job that ends before its limit,
but in `Schedulers`, where `EarlyEnds` says whether jobs may, and in `Checkpoint`,
whose departures are given. `Horizon` exceeds the
latest reachable time. In `JobStore` two batches overflow the store at least
twice; `abort` takes the branch that the memory check takes. In `WaitQueues` four
numbers with gaps give a head, removed entries before and between candidates, a
compaction, and two blocks of two. `Checkpoint` has two departures at one instant,
a later job that leaves before an earlier one, an empty file and a store that must
reclaim before it can hold the last file. In `Remote` two pipelined requests allow
an append behind a finish; five requests allow two simulations on one stream; two
example clients reuse job numbers; a file of the first has a job that outlives the
query. Three ranks share four jobs, so that ranks run out at different rounds. The run time
of the longer job is above `MaxLimit` as a GPU workload, so that it is dropped, and below
it as a portable one.

Deadlock is checked where the system never stops by itself (the cache, the
timeline, `Simulation`, whose drained state can be drained again) and in `Remote`,
where only a scenario that is over may stay as it is. A finished store, an
overflowed queue, a completed or finally crashed run and a drained machine stop,
and the other runs say so.

Fairness. Only `SimulationReturns` assumes any, `WF_turn(Iterates)`: the loop runs
on its caller's thread and blocks on nothing, so while `advance_to()` has not
returned another iteration follows. An iteration that changes nothing still flips
`turn`, so a spinning loop is seen. The caller owes nothing.

## Findings

1. `SimulationSkippedTick`: `sim.cpp:3296` takes the tick at an exact match
   although a delayed END runs no pass; the comment above it says the pass is needed.
2. `SessionStatistics`: `get_statistics()` (`sim.cpp:3530`) averages over the records
   still stored, and counts all completions; `docs/dev/JOB_LIFECYCLE.md:276` says that
   reclamation does not change statistics. The example client asks for a flush after
   every job when it uses Redis.

## Observations

Met while modelling; no run is kept for them. The first five contradict a document or a
comment of the repository.

Against the documentation.
- In a replay a job recorded with the same begin and end has its END before its START;
  `finish_job_nodes()` (`trace.cpp:199`) takes the unsigned counter of nodes in use below
  zero, and `record_resource_sample()` (`trace.cpp:285`) writes the wrapped value.
  `docs/dev/JOB_LIFECYCLE.md:46` says "reject underflow or over-allocation". The START
  makes the counter right again. `ReplayExact` bounds the wrap by the nodes of such jobs
  and fails when it is not admitted.
- Under conservative backfill every call plans its protected jobs anew, in queue order
  (`scheduler_fcfs_hybrid_circular.tpp:108`). When a job ends before its limit, a job in
  front moves forward onto the slot of one behind it, which is then planned for later,
  although `docs/dev/SCHEDULING_PREDICTIONS.md:18,23` calls such a start protected and
  authoritative. On five nodes, J1 holds 3 until 5 and J2 1 until 2; A (5 nodes, 2 long)
  is planned at 5 and B (2 nodes, 2 long) at 2. J1 ends at 1; at 2 A starts, and B is
  planned at 4. `PromisesKept` fails on this with `EarlyEnds = TRUE`.
- `append_jobs()` stores a batch and then submits it job by job (`sim.cpp:2210`). When the
  wait queue overflows under `abort` the call throws: the jobs before are submitted, the
  rest is stored, never queued and has no status. `sim.hpp:304` says "this call is fully
  all-or-nothing: nothing is appended unless the whole batch can be".
- `archive_checkpoint_namespace()` renames the indexes before the records they list
  (`redis_output.cpp:224-246`). After a crash in between, the next load goes on with the
  same generation, but the indexes it reads are gone: it records the boundary and leaves
  the records in the active namespace. The stitch tool ends with "missing Redis key"
  (`stitch_checkpoint_output.py:132`), although `docs/api/STREAMING_API.md:251` says that
  it rebuilds the namespaces. `OutputExact` fails on this without its `torn`.
- A second restart from one checkpoint finds the new segment too short, or cuts it at a
  boundary of the output before it (`sim.cpp:306`), although
  `docs/user-guide/redis-output.md:281` says that the boundary excludes the rows after
  it.

Store and output.
- `is_job_reclaimable()` compares the float-fraction end of a record with the double
  clock (`trace.cpp:968`), so a record can leave before its END
  (`JOB_LIFECYCLE.md:244`): `EventsHaveRecords` fails with `FloatGrid = 3`.
- `write_simulated_trace()` in the middle of a run closes the file, and the next append
  truncates it (`trace.cpp:1211`). The run and `EveryRowOnce` are for one final write
  (`MidRunWrites = FALSE`). A FinishSimulation that failed and is sent again truncates the
  schedule in the same way; Redis is not affected.

Scheduling.
- With release delays, and with periodic backfill before a capacity change, streaming
  and batch schedules differ (`sim.cpp:2983`, `3246`; `JOB_LIFECYCLE.md:269`); the
  Python reference plans differently there too.
- The default wait-queue capacity is resolved before any job is loaded
  (`sim.cpp:370`): it is zero, and `abort` then throws at the first insertion
  (`docs/user-guide/command-line.md:482`).
- The block scheduler tests candidates against the plan in every case
  (`scheduler_fcfs_easy_block.cpp:167`); the others start none when the head has no
  reservation and any that fits when it is beyond the horizon
  (`JOB_LIFECYCLE.md:272`). The custom scheduler offers every fitting job when the head
  has no projection.
- SJF, LJF and the plain FCFS schedulers accept the conservative policy but protect
  only the head. Under the periodic hybrid, plans for jobs behind the head are not
  promises, and its depth budget is not in the checkpoint.
- Draws of uniform run times are not clamped; `create_scheduler()` ends the process for
  an unknown block size, which the server does not check.

Second runs.
- Warm start: nodes whose release spans the boundary are free at it; a run with
  `--max_time` can return with historical jobs still running (`sim.cpp:892`).
- Progressive: a file that begins at `--max_time` is not read when its predecessor
  reaches that time; a resume in the middle of an advance reads the next file early.
- Queries: `get_job_statuses()` passes over a job that fits nowhere
  (`sim.cpp:2373`), the drain query does not, so the two can disagree; the drain
  query's `RESERVED` ignores jobs that can start now.

Checkpoints. A crash after the boundary in Redis and before the new namespace is opened
leaves the next restart a generation without documents or records. The checkpoint file is
truncated before it is written, so a crash in between leaves none. A failure while the
second output is archived does not put the first one back.

Remote. `append_jobs()` compares a batch only with the latest submission before it
(`sim.cpp:2163`). A failed Init leaves the parameters it had set
(`Independent` asks for none on the stream). Two clients that run at the same time
under one Redis prefix overwrite each other. The MPI controller multiplies means by
completion counts, which is wrong once records are reclaimed. Each feeder rank has a
simulation of its own, and only the schedule of rank 0 is written.

Multi-system. `global_shadow` is not dominated by `every_system`
(`multi_system_backfill_scheduler.cpp:500`, `experimental/multi-cluster-bf/README.md:80`).

## Proofs

`SimulationProofs`, for every workload, capacity schedule, tick interval, backfill
depth, planning grid and set of release delays (`WorkloadAssumption`,
`SchedulingAssumption`, and what follows):

- `StartsAlwaysFit`: `Spec => StartsFit`, no iteration starts a job on nodes that are
  taken, reserved by a delayed release or gone with a capacity change.
- `AdvanceAlwaysConsumes`: `Spec => AdvanceConsumesAll`, when a call returns, every
  arrival, event and capacity change up to its target is behind it.
- `CountersExact`: the counters of nodes in use and being released are the nodes of
  the jobs whose END and RELEASE is pending, and these events stand where start, run
  time and delay put them. `JobsStartOnce`: a started job keeps its start.
- `DrainAlwaysCompletes`: `Spec /\ []Representable => []DrainCompletes`, a drain ends
  with nothing pending, every job accounted for, a job left waiting only behind a head
  that fits neither the capacity nor any to come, and the clock at something that
  happened.
- `HeadNeverIdle`: between iterations the first job of the queue, when it has arrived,
  needs more nodes than are free. `EveryJobOnce`: an appended job is rejected, queued or
  started, exactly one of these, and the arrivals that wait to be recorded are jobs of
  the queue.
- `HeadNeverDelayed`: `Spec => [](WithinLimits => HeadNotDelayed)`, a job starts no later
  than the first reservation it got as the blocked head, whatever arrives, ends early,
  is backfilled or changes the capacity in between.

Only `DrainAlwaysCompletes` assumes `Representable`: every pending END and RELEASE has a
time up to `Horizon`. The code's sentinel is the largest time of its clock type and the
model's is `Horizon + 1`; an event at or beyond it would be taken for none. All states of
`SimulationTicks` satisfy it. `WithinLimits` says that no job runs longer than its limit.
`append_job()` refuses a longer streamed run time (`sim.hpp:314`), but recorded and drawn
run times are not clamped, and a job that outlives its estimate does delay the head.

The argument has two halves. The scheduling passes (`Heads`, `Scan`, the erasure of the
started jobs, the repeated passes of an instant) are recursive functions over the
queue; each is shown to have a solution and then characterized by what it guarantees
(`Passed`): the jobs begun are due jobs of the queue, each once, and their nodes
together fit what was free before. The accounts do not depend on which of them begin.
The second half is the invariant
`LoopInv`: no queued job has started, every arrival still listed belongs to a queued
job, and inside the loop arrivals and capacity changes lie ahead of the clock; `Books`
ties the event queue, the running map, the two counters and the start times together.
`StartsFit` speaks only of nodes and is not inductive: an END that is taken off must
give back exactly what its START took, which needs `Books`.
`AdvanceConsumesAll` follows because the loop returns only when the next instant, the
minimum of four sources, lies beyond the target (`NothingLeft`); that a return keeps
`LoopInv` when the clock moves to the target rests on the same fact.

For a drain `LoopInv` says too little, since it allows a pass that starts nothing.
`ScheduledSettles` adds what a pass leaves: the passes of an instant are repeated until
one starts nothing, so the first job of the queue is then in the future or blocked
(`HeadInv`). `WorkInv` holds of every behaviour; what needs `Representable` is
`DrainInv`. The induction needs the iterations that run no pass as well: none of them
frees a node or adds capacity (`Undisturbed`). `NowInv` keeps the clock honest: a tick
is taken only while something follows it (`Ahead`), so that the last instant of a drain
is never an empty tick. `AccountInv`, `OrderInv` and `ArrivedInv` are the partition of
the jobs, the order of the queue and the bound on the arrivals to be recorded.
`IterateDrains`, `AdvanceDrains`, `AppendDrains` and `ReturnDrains` take an action each.

`HeadNotDelayed` does depend on which jobs begin. It is not inductive: that the clock has
not passed the promise says nothing of whether the promise can still be kept. `PromiseInv`
says it: a promised job has started by its promise, or it is the first of the queue and
there is an instant between the clock and the promise at which its nodes are free when
no further job starts (`FreeOn`: capacity by then, less the running jobs planned beyond
it). It is an instant, not the promise itself, since an early end moves the reservation
forward and the next candidates are tested against the new one only.

- `TimelineIs`, `ReservationIs`: with the head blocked the plan of a pass is `FreeOn`
  from the clock on, and the reservation is its first instant with room for the head.
- `ScanKeeping`: through the scan, free nodes of that instant, the head's nodes and those
  of the chosen jobs planned beyond it stay within what was free. Elsewhere an unsigned
  subtraction may wrap around; at the reservation it cannot.
- `PassReserves`, `ScheduledHolds`: so no pass of an instant, with or without backfill,
  takes the head's reservation away when it is within the planning horizon.
- `TimePasses`: the instant is never behind the clock. Before the next END and the next
  capacity change the free nodes are those of now, and the head needs more (`HeadInv`).
  This is where ENDs must come by the planned release (`ReleasesAhead`), hence the limits
  and the missing release delays.

`JobStoreProofs`, from the assumptions on the constants alone:

- `TypeCorrect`: `Spec => []TypeOK`.
- `NeverWrittenTwice`, `CursorNeverBehind`, `StoreNeverOverruns`: from the
  inductive invariant `CursorInv`. Rows are added only at or beyond the output
  cursor, every write moves the cursor to the end of the range it covers, and a
  record is dropped only after the cursor passed it. `AtMostOnce` alone is not
  inductive: it needs that a job not yet passed has not been written.
- `NoDanglingEvent`, for `FloatGrid = 1`: from the invariant that a pending END
  has a record with that very end, that a START is pending only together with
  its END, and that no event is behind the clock. Reclaiming waits for events at
  the current instant, so a record whose END is pending ends later than now.
- `EveryRowOnce`, for `FloatGrid = 1` and a single final write: adds that every
  record that ended is either accounted or still ahead of the cursor.

`ReservationSearchCacheProofs`:

- `RememberedBoundsHold`: a reservation keeps the bounds only when the last
  search verified the interval; then subtraction does not wrap, free nodes only
  shrink, and an answer stays a lower bound.
- `CacheIsTransparent`: refinement of `ReservationPlan`, from the above: searching
  from a sound bound finds the first fit from the origin.

`ReservationTimelineProofs`, for every horizon, word size, set of running jobs and
capacity outlook:

- `BoundariesIncrease`: the boundaries of the vector are strictly increasing, the
  first is at or before the clock, through every split and coalesce.
- `ProfileAlwaysExact`: the vector as `reservation_timeline()` builds it says at each
  instant what the balance of nodes, planned releases and capacity changes is. The
  code adds up deltas from one boundary to the next; the proof shows that the sum up
  to a boundary is the balance there (the sums telescope) and that nothing changes
  between boundaries.
- `TimelineIsThePlan`: the vector refines `ReservationPlan`: `reserve()` leaves the
  free nodes of `Reserved`, unsigned wrapping included, and `earliest_fit()` returns the first
  fit. The walk over the vector is a recursive function; the proof exhibits the
  plan's answers as a solution of its equation, and shows that a walk skips only
  instants at which the request does not fit. With `CacheIsTransparent` this puts
  the cache over the plan and the plan over the vector.

The inductive invariant is that the vector is well formed and that it stands for the
plan it was built from; exactness of the profile alone does not say that a
boundary search lands in the right segment.

`CheckpointProofs`, for any files, stores, intervals, history sizes and any number of
crashes:

- `OutputAlwaysExact`, `RestartAlwaysPossible`, `LostWorkAlwaysBounded`, from one
  invariant (`InvInit`, `InvInductive`). The properties speak of a process that runs;
  the invariant has to say, in every state a crash can leave, what is on disk: that
  the archives up to their boundaries and the active segment are consecutive rows;
  that rows handed over but not yet arrived are lost or arrive in order; that the
  checkpoint, as long as it may still be loaded, describes a prefix of the output;
  and, for each step of a restart, which output is already archived, bounded or
  reopened. The concatenation of the archives is a fold over a sequence;
  what appending, truncating and dropping an archive do to it is proved by least
  counterexample. That the records of the archives can be stitched rests on a second
  invariant (`KeysInductive`): a record left in the active namespace is one of an output
  whose index is still there, or one the process has read and still renames, or a crash
  came in between (`KeysInv`); and an archive is at least as long as its boundary
  (`SegmentsInv`).

`WarmStartProofs`, for every workload, capacity schedule, boundary, end of the run, tick
interval and set of release delays, over the composition in `Reruns`:

- `HistoryNeverCounted`: `RerunsSpec => []HistorySeparate`. The counter that ends the
  warm stage is the number of historical jobs still running, so it never underflows (the
  `std::logic_error` of `sim.cpp:3138` is unreachable), no historical job is completed
  and no simulated one suppressed.

`LoopInv` holds up to the boundary and not after it: a historical job that is still being
cleaned up there holds nodes without a place in the running map, and one cleaned up across
it holds none. The invariant of a warm start is therefore its weaker half. `Clocked` is
what the loop's next instant depends on, `Tally` is `Books` without the running map, and
`WarmLoop` puts both together; the lemmas about the loop (`ClockedBranches`,
`DispatchTally`, `EventsTally`) are stated over them and serve both proofs. `Moved` is all
that the accounts need of an iteration: jobs of the queue start now, and the jobs of the
ENDs taken leave. `StageInv` says why the count may stop with the warm stage: past it, a
historical job still running ends beyond the end of the run (`OutOfReach`). The stage ends
either because the count is zero (`WarmReturn`) or because the loop has nothing left in
reach (`NothingInReach`).

`SessionsProofs`, for any streams, clients and request sets:

- `SimulationsIndependent`: `RemoteSpec => []Independent`. `Independent` is about live
  simulations; the invariant adds that a stream without one has default parameters
  unless an Init failed on it, since that is what the next Init starts from. The
  simulation itself is opaque to the proof: whatever a call does to it, it does not
  reach the parameters.

Recursive functions and folds are handled by least counterexample over `Nat`: the
library's induction theorems take an operator as a parameter. `InOrder` in
`ReservationTimeline` is a `CHOOSE` of the ascending enumeration for the same reason.

Left to TLC: liveness under fairness (`AdvanceReturns`); the queues and schedulers, whose
counts need induction over sequences; what is built on them; and the properties that
compare two runs of a workload (`SameSchedule`, `HistoryContinues`, `OracleAgrees`), which
would need a relation between the states of two loops.

## Plan

Done: all parts of the table above but parsing, parameters and statistics; theorems
about the store, the plan, the vector and the cache under it, the event loop, the warm
start, checkpoints and sessions.

Next:

1. Theorems about `WaitQueues` and `MultiSystem`: no job is lost, the target is kept.
2. The acceptance rule of the block scheduler in `Schedulers`.

## Not modelled

Trace parsing and formatting (but for the rounding of times in a replay), option
parsing, random generators, statistics of recorded traces, schedule windows, stream
buffers, multi-platform runs, Python bindings and plotting scripts: they keep no state
the properties depend on. Of the modelled parts: the legacy barrier build of the block
scheduler, exclusive jobs of production traces in a replay, capacity-area sums of the
loop and the drain estimates, the branches that record windows, the server requests
that forward to `run()`, `run_until_exclusive()`, `initialize_trace()` and checkpoints,
and the binary layout of a checkpoint.
