------------------------------ MODULE JobStore ------------------------------
(***************************************************************************)
(* The job store of BasicTrace (src/src/trace/trace.cpp): the circular     *)
(* buffer m_data of job records, the start/end/release event queue that    *)
(* refers to them by permanent job number, and the scheduled-job output    *)
(* cursor.  Records leave the buffer from the front: when room is needed   *)
(* (reclaim_front_jobs), every so many departures, or on request           *)
(* (flush_completed_jobs).  A record is written before it is dropped.      *)
(*                                                                         *)
(* m_data is a function from the permanent numbers of the jobs it holds to *)
(* their records, so "j \in DOMAIN data" is "job_at(j) does not throw".    *)
(* The caller is the simulation loop: it starts jobs that wait in the      *)
(* store once the events of the current instant are consumed, and never    *)
(* moves the clock past a pending event.                                   *)
(***************************************************************************)
EXTENDS Integers, FiniteSets

CONSTANTS
  MaxJobs,          \* bound: jobs ever appended
  MaxTime,          \* bound: last clock value at which a job may end
  MaxBatch,         \* bound: requests of one append_jobs()
  Durations,        \* run times a started job may have
  ReleaseDelays,    \* delays finish_job_nodes() may sample; {} = no delay model
  InitialCapacity,  \* --job_store_capacity
  Overflow,         \* --job_store_overflow
  MemoryChecked,    \* --check_memory_pressure is on
  FlushInterval,    \* --job_flush_interval; 0 = the buffer capacity
  Sink,             \* where scheduled-job rows go
  MidRunWrites,     \* write_simulated_trace() is also called before the drain
  FloatGrid         \* event-clock units per unit of a record's float fraction

ASSUME SizesAssumption ==
  /\ MaxJobs \in Nat /\ MaxTime \in Nat /\ MaxBatch \in Nat
  /\ InitialCapacity \in Nat \ {0}
  /\ FlushInterval \in Nat
  /\ FloatGrid \in Nat \ {0}
ASSUME TimesAssumption ==
  /\ Durations \subseteq Nat \ {0}
  /\ ReleaseDelays \subseteq Nat
ASSUME OptionsAssumption ==
  /\ Overflow \in {"abort", "grow"}
  /\ Sink \in {"none", "file", "redis"}
  /\ MemoryChecked \in BOOLEAN
  /\ MidRunWrites \in BOOLEAN

JobIds == 0 .. MaxJobs - 1

(* Job_Record::unscheduled_sentinel(): later than every time. *)
Never == -1

(* numeric_limits<sim_time_t>::max(): no record ends later. *)
Forever == MaxTime + FloatGrid

(* Job_Record: rejected when its submit time is the sentinel; end is the   *)
(* sentinel until the job starts.                                          *)
Waiting  == [rejected |-> FALSE, end |-> Never]
Rejected == [rejected |-> TRUE, end |-> Never]
Record   == [rejected : BOOLEAN, end : Nat \cup {Never}]

(* DR_Event; its kinds in the order of events that share a time. *)
Kind  == {"departure", "release", "arrival"}
Rank(kind) == CASE kind = "departure" -> 0
                [] kind = "release"   -> 1
                [] kind = "arrival"   -> 2
Event == [job : JobIds, t : Nat, kind : Kind]

VARIABLES
  now,          \* the clock of the simulation that drives the trace
  data,         \* m_data
  numReclaimed, \* m_num_reclaimed
  numAppended,  \* m_num_reclaimed + m_data.size()
  capacity,     \* m_data.capacity()
  evtq,         \* m_ctx.m_evtq
  sinceFlush,   \* m_departures_since_job_flush
  nextToWrite,  \* m_next_job_to_write
  written,      \* times write_job_line() accounted each job
  rows,         \* jobs with a row in the output file or in Redis
  open,         \* simulated_trace_output_active()
  ended,        \* jobs whose departure has been processed
  finished      \* the final write_simulated_trace() is done

output == <<sinceFlush, nextToWrite, written, rows>>
vars == <<now, data, numReclaimed, numAppended, capacity, evtq, output, open,
          ended, finished>>

-----------------------------------------------------------------------------
(* to_epoch(): a record keeps its times with a float fraction, the nearest *)
(* point of a grid coarser than the double clock that the events use.      *)
to_epoch(t) == ((t + (FloatGrid \div 2)) \div FloatGrid) * FloatGrid

(* Job_Record::compute_end_time() adds the rounded parts. *)
compute_end_time(start, duration) == to_epoch(start) + to_epoch(duration)

is_scheduled(rec) == rec.end # Never

(* Mutant: forgets the events that share the current instant. *)
is_job_reclaimable_ignoring_events(rec, t, queue) ==
  rec.rejected \/ (is_scheduled(rec) /\ rec.end <= t)

(* is_job_reclaimable(): rejected, or ended with every event through t     *)
(* consumed.                                                               *)
is_job_reclaimable(rec, t, queue) ==
  \/ rec.rejected
  \/ /\ \A e \in queue : e.t > t
     /\ is_scheduled(rec)
     /\ rec.end <= t

(* DR_Event's operator<. *)
Before(e, f) ==
  \/ e.t < f.t
  \/ e.t = f.t /\ Rank(e.kind) < Rank(f.kind)
  \/ e.t = f.t /\ e.kind = f.kind /\ e.job < f.job

IsFirst(e) == e \in evtq /\ \A f \in evtq \ {e} : Before(e, f)

HasRecord(e) == e.kind = "release" \/ e.job \in DOMAIN data

effective_job_flush_interval == IF FlushInterval # 0 THEN FlushInterval ELSE capacity

(* Where the reclaim loop stops: at a record that must stay, at the end of *)
(* the buffer, or as soon as all records below limit are gone.             *)
ReclaimsTo(front, t, limit, queue) ==
  /\ front \in numReclaimed .. numAppended
  /\ \A j \in numReclaimed .. front - 1 :
       j < limit /\ is_job_reclaimable(data[j], t, queue)
  /\ front < limit /\ front < numAppended =>
       ~is_job_reclaimable(data[front], t, queue)

(* Mutant: a job that ends at this very instant is not written. *)
RowsForStrictly(last, through) ==
  {j \in DOMAIN data : /\ nextToWrite <= j /\ j < last
                       /\ is_scheduled(data[j]) /\ data[j].end < through}

(* write_job_range(): accounts the jobs between the cursor and last that   *)
(* ran to an end by through, and adds their rows to what an open sink has. *)
RowsFor(last, through) ==
  {j \in DOMAIN data : /\ nextToWrite <= j /\ j < last
                       /\ is_scheduled(data[j]) /\ data[j].end <= through}

(* Mutant: the output cursor stays where it was. *)
write_job_range_keeping_cursor(last, through, sinkOpen, sinkRows) ==
  /\ written' = [j \in JobIds |-> IF j \in RowsFor(last, through)
                                  THEN written[j] + 1 ELSE written[j]]
  /\ rows' = IF sinkOpen THEN sinkRows \cup RowsFor(last, through) ELSE sinkRows
  /\ UNCHANGED nextToWrite

write_job_range(last, through, sinkOpen, sinkRows) ==
  /\ written' = [j \in JobIds |-> IF j \in RowsFor(last, through)
                                  THEN written[j] + 1 ELSE written[j]]
  /\ rows' = IF sinkOpen THEN sinkRows \cup RowsFor(last, through) ELSE sinkRows
  /\ nextToWrite' = IF last > nextToWrite THEN last ELSE nextToWrite

(* Mutant: the records leave and m_num_reclaimed is not advanced. *)
DropToUncounted(front) ==
  /\ UNCHANGED numReclaimed
  /\ data' = [j \in front .. numAppended - 1 |-> data[j]]

(* The records below front leave the buffer. *)
DropTo(front) ==
  /\ numReclaimed' = front
  /\ data' = [j \in front .. numAppended - 1 |-> data[j]]

-----------------------------------------------------------------------------
Init ==
  /\ now = 0
  /\ data = [j \in {} |-> Waiting]
  /\ numReclaimed = 0 /\ numAppended = 0
  /\ capacity = InitialCapacity
  /\ evtq = {}
  /\ sinceFlush = 0 /\ nextToWrite = 0
  /\ written = [j \in JobIds |-> 0]
  /\ rows = {}
  /\ open = FALSE
  /\ ended = {}
  /\ finished = FALSE

Running == ~finished \/ MidRunWrites

(* start_simulated_trace(): opening the output file truncates it.  The     *)
(* Redis sink stays active once it is started.                             *)
SinkOpen == Sink # "none"
SinkRows == IF open \/ Sink # "file" THEN rows ELSE {}

(* Mutant: room for one record too many. *)
FitsOneMore(needed) == needed <= capacity + 1

(* m_data.size() + count <= m_data.capacity(). *)
Fits(needed) == needed <= capacity

(* The capacity that --job_store_overflow=grow doubles to for n records. *)
GrowsTo(c, n) == c \in n .. 2 * n - 1 /\ \E i \in 0 .. c : c = capacity * 2^i

(* append_job() (n = 1) and append_jobs() of n requests, with the          *)
(* submit_job() that marks the records of bad as rejected.  Capacity is    *)
(* settled for all of them before any record is pushed: the oldest records *)
(* are reclaimed as far as needed, then the batch fits, grows the buffer,  *)
(* or is refused by the overflow policy or by the memory check.            *)
AppendJobs(n, bad, pressure) ==
  /\ Running
  /\ numAppended + n <= MaxJobs
  /\ open' = SinkOpen
  /\ \E front \in numReclaimed .. numAppended :
       LET needed  == numAppended - front + n
           fits    == Fits(needed)
           refused == pressure \/ (~fits /\ Overflow = "abort")
       IN  /\ ReclaimsTo(front, now, numAppended + n - capacity, evtq)
           /\ write_job_range(front, now, SinkOpen, SinkRows)
           /\ sinceFlush' = IF front > numReclaimed THEN 0 ELSE sinceFlush
           /\ \/ /\ refused
                 /\ DropTo(front)
                 /\ UNCHANGED <<capacity, numAppended>>
              \/ /\ ~refused
                 /\ \/ fits /\ UNCHANGED capacity
                    \/ ~fits /\ \E c \in needed .. 2 * needed - 1 :
                                  GrowsTo(c, needed) /\ capacity' = c
                 /\ numReclaimed' = front
                 /\ numAppended' = numAppended + n
                 /\ data' = [j \in front .. numAppended + n - 1 |->
                               IF j < numAppended THEN data[j]
                               ELSE IF j \in bad THEN Rejected ELSE Waiting]
  /\ UNCHANGED <<now, evtq, ended, finished>>

(* insert_job(): the scheduler starts job j now, once the events of this   *)
(* instant are consumed.  The events carry the exact clock; the record     *)
(* keeps its end in epoch form.                                            *)
InsertJob(j, duration) ==
  /\ Running
  /\ j \in DOMAIN data
  /\ ~data[j].rejected /\ ~is_scheduled(data[j])
  /\ \A e \in evtq : e.t > now
  /\ now + duration <= MaxTime
  /\ evtq' = evtq \cup {[job |-> j, t |-> now, kind |-> "arrival"],
                        [job |-> j, t |-> now + duration, kind |-> "departure"]}
  /\ data' = [data EXCEPT ![j].end = compute_end_time(now, duration)]
  /\ UNCHANGED <<now, numReclaimed, numAppended, capacity, output, open, ended,
                 finished>>

(* finish_job_nodes(): with a delay model, a departure leaves a release    *)
(* event that carries its own node count.                                  *)
Releases(e, delay) == [job |-> e.job, t |-> e.t + delay, kind |-> "release"]

QueueAfter(e, queue) ==
  IF e.kind = "departure" /\ ReleaseDelays # {}
  THEN \E delay \in ReleaseDelays : queue = (evtq \ {e}) \cup {Releases(e, delay)}
  ELSE queue = evtq \ {e}

(* flush_completed_jobs_impl(): writes and drops the completed front       *)
(* prefix, with queue the events then pending.                             *)
Flush(t, queue) ==
  \E front \in numReclaimed .. numAppended :
    /\ ReclaimsTo(front, t, numAppended, queue)
    /\ write_job_range(front, t, open, rows)
    /\ DropTo(front)
    /\ sinceFlush' = 0

(* The departures counted toward the flush, this event included. *)
Counted(e) ==
  IF e.kind = "departure" /\ open /\ sinceFlush < effective_job_flush_interval
  THEN sinceFlush + 1 ELSE sinceFlush

(* The flush waits until no peer event of instant t is left in queue. *)
MaybeFlush(counted, t, queue) ==
  IF open /\ (\A f \in queue : t < f.t) /\ counted >= effective_job_flush_interval
  THEN Flush(t, queue)
  ELSE /\ sinceFlush' = counted
       /\ UNCHANGED <<data, numReclaimed, nextToWrite, written, rows>>

(* process_single_event(): takes the first event.  job_at() throws when    *)
(* the record is gone, after the event has left the queue.                 *)
ProcessSingleEvent(e) ==
  /\ Running
  /\ IsFirst(e) /\ e.t <= now
  /\ \/ /\ ~HasRecord(e)
        /\ evtq' = evtq \ {e}
        /\ UNCHANGED <<data, numReclaimed, output, ended>>
     \/ /\ HasRecord(e)
        /\ QueueAfter(e, evtq')
        /\ ended' = IF e.kind = "departure" THEN ended \cup {e.job} ELSE ended
        /\ MaybeFlush(Counted(e), e.t, evtq')
  /\ UNCHANGED <<now, numAppended, capacity, open, finished>>

(* run_until_inclusive(now) right after insert_job(): the only due events  *)
(* are STARTs, the loop having consumed the rest of the instant before.  A *)
(* START counts no departure, so this path never flushes.                  *)
RunUntilInclusive ==
  LET due == {e \in evtq : e.t <= now}
  IN  /\ Running
      /\ due # {} /\ \A e \in due : e.kind = "arrival" /\ HasRecord(e)
      /\ evtq' = evtq \ due
      /\ UNCHANGED <<now, data, numReclaimed, numAppended, capacity, output,
                     open, ended, finished>>

(* flush_completed_jobs(), the explicit streaming flush. *)
FlushCompletedJobs ==
  /\ Running
  /\ Flush(now, evtq)
  /\ UNCHANGED <<now, numAppended, capacity, evtq, open, ended, finished>>

Drained == evtq = {} /\ \A j \in DOMAIN data :
                          data[j].rejected \/ is_scheduled(data[j])

(* Simulation::write_simulated_trace(): opens the sink if necessary,       *)
(* writes what is left in the store, whatever its end time, and closes the *)
(* file.  The callers in the repository write once, after a drain.         *)
WriteSimulatedTrace ==
  /\ Running
  /\ MidRunWrites \/ Drained
  /\ SinkOpen
  /\ write_job_range(numAppended, Forever, TRUE, SinkRows)
  /\ open' = (Sink = "redis")
  /\ finished' = TRUE
  /\ UNCHANGED <<now, data, numReclaimed, numAppended, capacity, evtq,
                 sinceFlush, ended>>

(* The simulation loop moves the clock to its next instant. *)
AdvanceClock(t) ==
  /\ Running
  /\ now < t
  /\ \A e \in evtq : e.t >= t
  /\ now' = t
  /\ UNCHANGED <<data, numReclaimed, numAppended, capacity, evtq, output, open,
                 ended, finished>>

Append ==
  \E n \in 1 .. MaxBatch :
    \E bad \in SUBSET (numAppended .. numAppended + n - 1) :
      \E pressure \in IF MemoryChecked THEN BOOLEAN ELSE {FALSE} :
        AppendJobs(n, bad, pressure)

Next ==
  \/ Append
  \/ \E j \in JobIds, d \in Durations : InsertJob(j, d)
  \/ \E e \in evtq : ProcessSingleEvent(e)
  \/ RunUntilInclusive
  \/ FlushCompletedJobs
  \/ WriteSimulatedTrace
  \/ \E t \in 1 .. MaxTime : AdvanceClock(t)

Spec == Init /\ [][Next]_vars

-----------------------------------------------------------------------------
(* The buffer holds exactly the records between m_num_reclaimed and the    *)
(* last one appended, each under its permanent number (job_at()).          *)
TypeOK ==
  /\ now \in Nat
  /\ numReclaimed \in Nat /\ numAppended \in Nat
  /\ numReclaimed <= numAppended /\ numAppended <= MaxJobs
  /\ data \in [numReclaimed .. numAppended - 1 -> Record]
  /\ capacity \in Nat \ {0}
  /\ evtq \subseteq Event
  /\ sinceFlush \in Nat /\ nextToWrite \in Nat
  /\ written \in [JobIds -> Nat]
  /\ rows \subseteq JobIds /\ ended \subseteq JobIds
  /\ open \in BOOLEAN /\ finished \in BOOLEAN

(* No start or end event outlives the record it refers to, so job_at()     *)
(* never throws while events are processed: front reclamation, whoever     *)
(* triggers it, waits for the departure (is_job_reclaimable).              *)
EventsHaveRecords == \A e \in evtq : HasRecord(e)

(* No job is accounted or written twice, although its record can pass the  *)
(* output cursor in reclaim_front_jobs(), in a periodic or explicit flush, *)
(* or in the final write.                                                  *)
AtMostOnce == \A j \in JobIds : written[j] <= 1

(* "Write each eligible job exactly once, even when its in-memory record   *)
(* is later reclaimed": a job that ran and left the store was accounted,   *)
(* and before the final write only jobs that ended are.                    *)
ExactlyOnce ==
  /\ \A j \in ended : j < numReclaimed => written[j] = 1
  /\ ~finished => \A j \in JobIds : written[j] # 0 => j \in ended /\ written[j] = 1

(* The output cursor never falls behind the store: write_job_range() would *)
(* throw "scheduled-job output cursor has a missing record".               *)
CursorCoversReclaimed == numReclaimed <= nextToWrite

(* The buffer never holds more records than its capacity, whatever mixture *)
(* of reclaiming, growing and refusing made the room.                      *)
StoreFits == numAppended - numReclaimed <= capacity

=============================================================================
