--------------------------- MODULE JobStoreProofs ---------------------------
(***************************************************************************)
(* What holds of the job store for every capacity, overflow policy, flush  *)
(* interval, sink, delay model, batch size and number of jobs.             *)
(*                                                                         *)
(* TypeOK and the output cursor facts need no further assumption.  That    *)
(* no event outlives its record needs the exact clock (FloatGrid = 1): the *)
(* run JobStoreSubsecond shows what happens without it.  That every ended  *)
(* job is accounted needs the callers' discipline of writing once, after   *)
(* the drain (MidRunWrites = FALSE).                                       *)
(***************************************************************************)
EXTENDS JobStore, TLAPS

(* The cursor splits the jobs: nothing at or after it was accounted, and   *)
(* the records the store has dropped are all behind it.                    *)
CursorInv ==
  /\ \A j \in JobIds : written[j] <= 1 /\ (j >= nextToWrite => written[j] = 0)
  /\ numReclaimed <= nextToWrite /\ nextToWrite <= numAppended
  /\ numAppended - numReclaimed <= capacity

-----------------------------------------------------------------------------
(* The type invariant. *)

LEMMA DropToTyped ==
  ASSUME TypeOK, NEW front \in numReclaimed .. numAppended, DropTo(front)
  PROVE  /\ numReclaimed' \in Nat /\ numReclaimed' <= numAppended
         /\ data' \in [numReclaimed' .. numAppended - 1 -> Record]
BY DEF TypeOK, DropTo

LEMMA RowsForTyped ==
  ASSUME TypeOK, NEW last, NEW through
  PROVE  RowsFor(last, through) \subseteq JobIds
BY SizesAssumption DEF TypeOK, RowsFor, JobIds

LEMMA WriteTyped ==
  ASSUME TypeOK, NEW last \in Nat, NEW through, NEW sinkOpen, NEW sinkRows,
         sinkRows \subseteq JobIds,
         write_job_range(last, through, sinkOpen, sinkRows)
  PROVE  nextToWrite' \in Nat /\ written' \in [JobIds -> Nat] /\ rows' \subseteq JobIds
BY RowsForTyped DEF TypeOK, write_job_range

LEMMA FlushTyped ==
  ASSUME TypeOK, NEW t, NEW queue, Flush(t, queue)
  PROVE  /\ numReclaimed' \in Nat /\ numReclaimed' <= numAppended
         /\ data' \in [numReclaimed' .. numAppended - 1 -> Record]
         /\ nextToWrite' \in Nat /\ written' \in [JobIds -> Nat]
         /\ rows' \subseteq JobIds /\ sinceFlush' \in Nat
<1>1. PICK front \in numReclaimed .. numAppended :
        /\ write_job_range(front, t, open, rows)
        /\ DropTo(front)
        /\ sinceFlush' = 0
  BY DEF Flush
<1>2. front \in Nat /\ rows \subseteq JobIds
  BY DEF TypeOK
<1>. QED
  BY <1>1, <1>2, DropToTyped, WriteTyped

LEMMA ComputeEndTyped ==
  ASSUME NEW start \in Nat, NEW duration \in Nat
  PROVE  compute_end_time(start, duration) \in Nat
BY SizesAssumption DEF compute_end_time, to_epoch

LEMMA EventTyped ==
  ASSUME NEW j \in JobIds, NEW t \in Nat, NEW k \in Kind
  PROVE  [job |-> j, t |-> t, kind |-> k] \in Event
BY DEF Event

LEMMA MaybeFlushTyped ==
  ASSUME TypeOK, NEW counted \in Nat, NEW t, NEW queue,
         MaybeFlush(counted, t, queue)
  PROVE  /\ numReclaimed' \in Nat /\ numReclaimed' <= numAppended
         /\ data' \in [numReclaimed' .. numAppended - 1 -> Record]
         /\ nextToWrite' \in Nat /\ written' \in [JobIds -> Nat]
         /\ rows' \subseteq JobIds /\ sinceFlush' \in Nat
BY FlushTyped DEF MaybeFlush, TypeOK

LEMMA AppendTyped ==
  ASSUME TypeOK, NEW n \in Nat, NEW bad, NEW pressure, AppendJobs(n, bad, pressure)
  PROVE  TypeOK'
<1>1. PICK front \in numReclaimed .. numAppended :
        LET needed  == numAppended - front + n
            fits    == needed <= capacity
            refused == pressure \/ (~fits /\ Overflow = "abort")
        IN  /\ write_job_range(front, now, SinkOpen, SinkRows)
            /\ sinceFlush' = IF front > numReclaimed THEN 0 ELSE sinceFlush
            /\ \/ /\ refused
                  /\ DropTo(front)
                  /\ UNCHANGED <<capacity, numAppended>>
               \/ /\ ~refused
                  /\ \/ fits /\ UNCHANGED capacity
                     \/ ~fits /\ \E c \in needed .. 2 * needed - 1 :
                                   GrowsTo(c, needed) /\ capacity' = c
                  /\ numReclaimed' = front
                  /\ numAppended' = numAppended + n
                  /\ data' = [j \in front .. numAppended + n - 1 |->
                                IF j < numAppended THEN data[j]
                                ELSE IF j \in bad THEN Rejected ELSE Waiting]
  BY DEF AppendJobs, Fits
<1>2. front \in Nat /\ SinkRows \subseteq JobIds
  BY DEF TypeOK, SinkRows
<1>3. nextToWrite' \in Nat /\ written' \in [JobIds -> Nat] /\ rows' \subseteq JobIds
  BY <1>1, <1>2, WriteTyped
<1>4. /\ now' \in Nat /\ evtq' \subseteq Event /\ ended' \subseteq JobIds
      /\ open' \in BOOLEAN /\ finished' \in BOOLEAN /\ sinceFlush' \in Nat
      /\ numAppended + n <= MaxJobs
  BY <1>1 DEF AppendJobs, Fits, TypeOK, SinkOpen
<1>5. Waiting \in Record /\ Rejected \in Record
  BY DEF Waiting, Rejected, Record, Never
<1>6. CASE DropTo(front) /\ UNCHANGED <<capacity, numAppended>>
  BY <1>3, <1>4, <1>6, DropToTyped, SizesAssumption DEF TypeOK
<1>7. CASE /\ numReclaimed' = front
           /\ numAppended' = numAppended + n
           /\ data' = [j \in front .. numAppended + n - 1 |->
                         IF j < numAppended THEN data[j]
                         ELSE IF j \in bad THEN Rejected ELSE Waiting]
           /\ \/ UNCHANGED capacity
              \/ /\ ~(numAppended - front + n <= capacity)
                 /\ capacity' \in (numAppended - front + n) .. 2 * (numAppended - front + n) - 1
  <2>1. \A j \in front .. numAppended - 1 : data[j] \in Record
    BY DEF TypeOK
  <2>2. data' \in [numReclaimed' .. numAppended' - 1 -> Record]
    BY <1>5, <1>7, <2>1, <1>2 DEF TypeOK
  <2>3. capacity' \in Nat \ {0}
    BY <1>7, <1>2 DEF TypeOK
  <2>. QED
    BY <1>3, <1>4, <1>7, <1>2, <2>2, <2>3, SizesAssumption DEF TypeOK
<1>. QED
  BY <1>1, <1>6, <1>7

LEMMA QueueTyped ==
  ASSUME TypeOK, NEW e \in evtq, QueueAfter(e, evtq')
  PROVE  evtq' \subseteq Event
<1>1. e.job \in JobIds /\ e.t \in Nat
  BY DEF TypeOK, Event
<1>2. ASSUME NEW delay \in ReleaseDelays PROVE Releases(e, delay) \in Event
  BY <1>1, TimesAssumption DEF Releases, Event, Kind
<1>. QED
  BY <1>2 DEF QueueAfter, TypeOK

(* Every step keeps the types, whatever the caller does. *)
LEMMA TypeStep == TypeOK /\ [Next]_vars => TypeOK'
<1>. SUFFICES ASSUME TypeOK, [Next]_vars PROVE TypeOK'
  OBVIOUS
<1>1. CASE Append
  BY <1>1, AppendTyped, SizesAssumption DEF Append
<1>2. ASSUME NEW j \in JobIds, NEW d \in Durations, InsertJob(j, d) PROVE TypeOK'
  <2>1. d \in Nat /\ now + d \in Nat
    BY TimesAssumption DEF TypeOK
  <2>2. compute_end_time(now, d) \in Nat
    BY <2>1, ComputeEndTyped DEF TypeOK
  <2>3. data' \in [numReclaimed .. numAppended - 1 -> Record]
    BY <1>2, <2>2 DEF InsertJob, TypeOK, Record
  <2>4. evtq' \subseteq Event
    BY <1>2, <2>1, EventTyped DEF InsertJob, TypeOK, Kind
  <2>. QED
    BY <1>2, <2>3, <2>4 DEF InsertJob, TypeOK, output
<1>3. ASSUME NEW e \in evtq, ProcessSingleEvent(e) PROVE TypeOK'
  <2>1. e.job \in JobIds
    BY DEF TypeOK, Event
  <2>2. CASE ~HasRecord(e)
    BY <1>3, <2>2 DEF ProcessSingleEvent, TypeOK, output
  <2>3. CASE HasRecord(e)
    <3>1. evtq' \subseteq Event
      BY <1>3, <2>3, QueueTyped DEF ProcessSingleEvent
    <3>2. ended' \subseteq JobIds
      BY <1>3, <2>1, <2>3 DEF ProcessSingleEvent, TypeOK
    <3>3. MaybeFlush(Counted(e), e.t, evtq') /\ Counted(e) \in Nat
      BY <1>3, <2>3 DEF ProcessSingleEvent, TypeOK, Counted
    <3>. QED
      BY <1>3, <3>1, <3>2, <3>3, MaybeFlushTyped DEF ProcessSingleEvent, TypeOK
  <2>. QED
    BY <2>2, <2>3
<1>4. CASE RunUntilInclusive
  BY <1>4 DEF RunUntilInclusive, TypeOK, output
<1>5. CASE FlushCompletedJobs
  <2>1. Flush(now, evtq)
    BY <1>5 DEF FlushCompletedJobs
  <2>. QED
    BY <1>5, <2>1, FlushTyped DEF FlushCompletedJobs, TypeOK
<1>6. CASE WriteSimulatedTrace
  <2>1. /\ write_job_range(numAppended, Forever, TRUE, SinkRows)
        /\ numAppended \in Nat /\ SinkRows \subseteq JobIds
    BY <1>6 DEF WriteSimulatedTrace, TypeOK, SinkRows
  <2>. QED
    BY <1>6, <2>1, WriteTyped DEF WriteSimulatedTrace, TypeOK
<1>7. ASSUME NEW t \in 1 .. MaxTime, AdvanceClock(t) PROVE TypeOK'
  BY <1>7, SizesAssumption DEF AdvanceClock, TypeOK, output
<1>8. CASE UNCHANGED vars
  BY <1>8 DEF vars, output, TypeOK
<1>. QED
  BY <1>1, <1>2, <1>3, <1>4, <1>5, <1>6, <1>7, <1>8 DEF Next

LEMMA TypeInit == Init => TypeOK
<1>. SUFFICES ASSUME Init PROVE TypeOK
  OBVIOUS
<1>1. numReclaimed .. numAppended - 1 = {}
  BY DEF Init
<1>2. data \in [{} -> Record]
  BY DEF Init
<1>3. data \in [numReclaimed .. numAppended - 1 -> Record]
  BY <1>1, <1>2
<1>4. written \in [JobIds -> Nat] /\ capacity \in Nat \ {0}
  BY SizesAssumption DEF Init
<1>5. /\ now \in Nat /\ numReclaimed \in Nat /\ numAppended \in Nat
      /\ numReclaimed <= numAppended /\ numAppended <= MaxJobs
      /\ sinceFlush \in Nat /\ nextToWrite \in Nat
  BY SizesAssumption DEF Init
<1>6. /\ evtq \subseteq Event /\ rows \subseteq JobIds /\ ended \subseteq JobIds
      /\ open \in BOOLEAN /\ finished \in BOOLEAN
  BY DEF Init
<1>. QED
  BY <1>3, <1>4, <1>5, <1>6 DEF TypeOK

(* Type correctness of the job store for every choice of its constants. *)
THEOREM TypeCorrect == Spec => []TypeOK
BY TypeInit, TypeStep, PTL DEF Spec

-----------------------------------------------------------------------------
(* The output cursor.  Rows are added only at or beyond the cursor, which  *)
(* moves past them in the same step, and no step drops a record that the   *)
(* cursor has not passed.                                                  *)

LEMMA WriteKeepsCursor ==
  ASSUME TypeOK, CursorInv, NEW last \in Nat, last <= numAppended,
         NEW through, NEW sinkOpen, NEW sinkRows,
         write_job_range(last, through, sinkOpen, sinkRows)
  PROVE  /\ \A j \in JobIds : /\ written'[j] <= 1
                              /\ j >= nextToWrite' => written'[j] = 0
         /\ last <= nextToWrite' /\ nextToWrite <= nextToWrite'
         /\ nextToWrite' <= numAppended
<1>1. ASSUME NEW j \in JobIds
      PROVE  /\ written'[j] <= 1
             /\ j >= nextToWrite' => written'[j] = 0
  <2>1. j \in Int
    BY SizesAssumption DEF JobIds
  <2>2. written[j] \in Nat /\ nextToWrite \in Nat
    BY DEF TypeOK
  <2>3. CASE j \in RowsFor(last, through)
    <3>1. nextToWrite <= j /\ j < last
      BY <2>3 DEF RowsFor
    <3>2. written[j] = 0 /\ written'[j] = written[j] + 1
      BY <2>1, <2>2, <2>3, <3>1 DEF CursorInv, write_job_range
    <3>. QED
      BY <2>1, <2>2, <3>1, <3>2 DEF write_job_range
  <2>4. CASE j \notin RowsFor(last, through)
    BY <2>1, <2>2, <2>4 DEF CursorInv, write_job_range
  <2>. QED
    BY <2>3, <2>4
<1>. QED
  BY <1>1 DEF write_job_range, TypeOK, CursorInv

LEMMA FlushKeepsCursor ==
  ASSUME TypeOK, CursorInv, NEW t, NEW queue, Flush(t, queue),
         UNCHANGED <<numAppended, capacity>>
  PROVE  CursorInv'
<1>1. PICK front \in numReclaimed .. numAppended :
        write_job_range(front, t, open, rows) /\ DropTo(front)
  BY DEF Flush
<1>2. front \in Nat /\ front <= numAppended
  BY DEF TypeOK
<1>3. /\ \A j \in JobIds : written'[j] <= 1 /\ (j >= nextToWrite' => written'[j] = 0)
      /\ front <= nextToWrite' /\ nextToWrite' <= numAppended
  BY <1>1, <1>2, WriteKeepsCursor
<1>4. numReclaimed' = front /\ numAppended - front <= capacity
  BY <1>1 DEF DropTo, TypeOK, CursorInv
<1>. QED
  BY <1>3, <1>4 DEF CursorInv

LEMMA AppendKeepsCursor ==
  ASSUME TypeOK, CursorInv, NEW n \in Nat, NEW bad, NEW pressure,
         AppendJobs(n, bad, pressure)
  PROVE  CursorInv'
<1>1. PICK front \in numReclaimed .. numAppended :
        /\ write_job_range(front, now, SinkOpen, SinkRows)
        /\ numReclaimed' = front
        /\ \/ UNCHANGED <<capacity, numAppended>>
           \/ /\ numAppended' = numAppended + n
              /\ \/ numAppended - front + n <= capacity /\ UNCHANGED capacity
                 \/ capacity' \in (numAppended - front + n)
                                    .. 2 * (numAppended - front + n) - 1
  BY DEF AppendJobs, Fits, DropTo
<1>2. front \in Nat /\ front <= numAppended
  BY DEF TypeOK
<1>3. /\ \A j \in JobIds : written'[j] <= 1 /\ (j >= nextToWrite' => written'[j] = 0)
      /\ front <= nextToWrite' /\ nextToWrite' <= numAppended
  BY <1>1, <1>2, WriteKeepsCursor
<1>4. nextToWrite' \in Int
  BY DEF AppendJobs, Fits, write_job_range, TypeOK
<1>5. nextToWrite' <= numAppended' /\ numAppended' - numReclaimed' <= capacity'
  BY <1>1, <1>2, <1>3, <1>4 DEF TypeOK, CursorInv
<1>. QED
  BY <1>1, <1>3, <1>5 DEF CursorInv

LEMMA CursorStep == TypeOK /\ CursorInv /\ [Next]_vars => CursorInv'
<1>. SUFFICES ASSUME TypeOK, CursorInv, [Next]_vars PROVE CursorInv'
  OBVIOUS
<1>1. CASE Append
  BY <1>1, AppendKeepsCursor, SizesAssumption DEF Append
<1>2. ASSUME NEW j \in JobIds, NEW d \in Durations, InsertJob(j, d) PROVE CursorInv'
  BY <1>2 DEF InsertJob, CursorInv, output
<1>3. ASSUME NEW e \in evtq, ProcessSingleEvent(e) PROVE CursorInv'
  <2>1. CASE ~HasRecord(e)
    BY <1>3, <2>1 DEF ProcessSingleEvent, CursorInv, output
  <2>2. CASE HasRecord(e)
    <3>1. MaybeFlush(Counted(e), e.t, evtq') /\ UNCHANGED <<numAppended, capacity>>
      BY <1>3, <2>2 DEF ProcessSingleEvent
    <3>2. CASE Flush(e.t, evtq')
      BY <3>1, <3>2, FlushKeepsCursor
    <3>3. CASE UNCHANGED <<data, numReclaimed, nextToWrite, written, rows>>
      BY <3>1, <3>3 DEF CursorInv
    <3>. QED
      BY <3>1, <3>2, <3>3 DEF MaybeFlush
  <2>. QED
    BY <2>1, <2>2
<1>4. CASE RunUntilInclusive
  BY <1>4 DEF RunUntilInclusive, CursorInv, output
<1>5. CASE FlushCompletedJobs
  BY <1>5, FlushKeepsCursor DEF FlushCompletedJobs
<1>6. CASE WriteSimulatedTrace
  <2>1. /\ write_job_range(numAppended, Forever, TRUE, SinkRows)
        /\ UNCHANGED <<numReclaimed, numAppended, capacity>>
    BY <1>6 DEF WriteSimulatedTrace
  <2>2. /\ \A j \in JobIds : written'[j] <= 1 /\ (j >= nextToWrite' => written'[j] = 0)
        /\ numAppended <= nextToWrite' /\ nextToWrite' <= numAppended
    <3>1. numAppended \in Nat /\ numAppended <= numAppended
      BY DEF TypeOK
    <3>. QED
      BY <2>1, <3>1, WriteKeepsCursor
  <2>3. numReclaimed <= nextToWrite'
    BY <2>1, <2>2 DEF TypeOK, write_job_range
  <2>. QED
    BY <2>1, <2>2, <2>3 DEF CursorInv
<1>7. ASSUME NEW t \in 1 .. MaxTime, AdvanceClock(t) PROVE CursorInv'
  BY <1>7 DEF AdvanceClock, CursorInv, output
<1>8. CASE UNCHANGED vars
  BY <1>8 DEF vars, output, CursorInv
<1>. QED
  BY <1>1, <1>2, <1>3, <1>4, <1>5, <1>6, <1>7, <1>8 DEF Next

LEMMA CursorInit == Init => CursorInv
BY SizesAssumption DEF Init, CursorInv, JobIds

LEMMA CursorInvariant == Spec => [](TypeOK /\ CursorInv)
BY TypeInit, TypeStep, CursorInit, CursorStep, PTL DEF Spec

(* No job is written twice, on any path that passes its record. *)
THEOREM NeverWrittenTwice == Spec => []AtMostOnce
<1>1. CursorInv => AtMostOnce
  BY DEF CursorInv, AtMostOnce
<1>. QED
  BY <1>1, CursorInvariant, PTL

(* write_job_range() never meets a gap between the cursor and the store. *)
THEOREM CursorNeverBehind == Spec => []CursorCoversReclaimed
<1>1. CursorInv => CursorCoversReclaimed
  BY DEF CursorInv, CursorCoversReclaimed
<1>. QED
  BY <1>1, CursorInvariant, PTL

(* No append overruns the circular buffer, which would drop its front. *)
THEOREM StoreNeverOverruns == Spec => []StoreFits
<1>1. CursorInv => StoreFits
  BY DEF CursorInv, StoreFits
<1>. QED
  BY <1>1, CursorInvariant, PTL

-----------------------------------------------------------------------------
(* Events and records, on a clock the records keep exactly.  A departure   *)
(* carries the end time of its own record, so a record whose end has       *)
(* passed and whose departure is pending implies an event that is due, and *)
(* is_job_reclaimable() refuses to reclaim anything then.                  *)

IsDepartureOf(d, j) == d.kind = "departure" /\ d.job = j

(* A departure's record, and the end time both agree on. *)
DepartureHasRecord(d) ==
  /\ d.job \in DOMAIN data
  /\ ~data[d.job].rejected
  /\ data[d.job].end = d.t

EventInv ==
  /\ \A d \in evtq : d.kind = "departure" => DepartureHasRecord(d)
  /\ \A a \in evtq : a.kind = "arrival" =>
       \E d \in evtq : IsDepartureOf(d, a.job) /\ a.t < d.t

(* A record that is not rejected waits, has its departure pending, or has  *)
(* ended.                                                                  *)
RecordInv ==
  /\ \A j \in ended : j < numAppended
  /\ \A j \in DOMAIN data :
       /\ data[j].rejected => data[j].end = Never /\ j \notin ended
       /\ j \in ended => data[j].end # Never
       /\ data[j].end # Never => j \in ended \/ \E d \in evtq : IsDepartureOf(d, j)

LEMMA ExactEnd ==
  ASSUME FloatGrid = 1, NEW start \in Nat, NEW duration \in Nat
  PROVE  compute_end_time(start, duration) = start + duration
BY DEF compute_end_time, to_epoch

(* What reclaiming through front at time t leaves behind. *)
LEMMA ReclaimSparesPending ==
  ASSUME TypeOK, NEW front \in Int, NEW t \in Nat, NEW limit, NEW queue,
         queue \subseteq Event, ReclaimsTo(front, t, limit, queue),
         NEW d \in queue, d.kind = "departure", DepartureHasRecord(d)
  PROVE  d.job \in front .. numAppended - 1
<1>1. d.job \in numReclaimed .. numAppended - 1 /\ d.t \in Nat
  BY DEF DepartureHasRecord, TypeOK, Event
<1>2. SUFFICES ASSUME d.job < front PROVE FALSE
  BY <1>1 DEF TypeOK
<1>3. is_job_reclaimable(data[d.job], t, queue)
  BY <1>1, <1>2 DEF ReclaimsTo, TypeOK
<1>4. d.t > t /\ d.t <= t
  BY <1>3 DEF is_job_reclaimable, DepartureHasRecord
<1>. QED
  BY <1>1, <1>4

(* A reclaimed record that had run had also ended. *)
LEMMA ReclaimTakesEnded ==
  ASSUME TypeOK, NEW front \in Int, NEW t \in Nat, NEW limit, NEW queue,
         queue \subseteq Event, ReclaimsTo(front, t, limit, queue),
         \A d \in queue : d.kind = "departure" => DepartureHasRecord(d),
         NEW j \in numReclaimed .. front - 1, data[j].end # Never,
         ~data[j].rejected
  PROVE  /\ data[j].end <= t
         /\ ~\E d \in queue : IsDepartureOf(d, j)
<1>1. is_job_reclaimable(data[j], t, queue)
  BY DEF ReclaimsTo
<1>2. data[j].end <= t /\ \A d \in queue : d.t > t
  BY <1>1 DEF is_job_reclaimable
<1>3. ASSUME NEW d \in queue, IsDepartureOf(d, j) PROVE FALSE
  <2>1. d.t = data[j].end /\ d.t \in Nat
    BY <1>3 DEF IsDepartureOf, DepartureHasRecord, Event
  <2>. QED
    BY <1>2, <2>1
<1>. QED
  BY <1>2, <1>3

(* The records kept by a reclaim of the queue's front keep the invariant. *)
LEMMA DropKeepsEvents ==
  ASSUME TypeOK, NEW front \in numReclaimed .. numAppended, NEW t \in Nat,
         NEW limit, evtq' \subseteq Event,
         ReclaimsTo(front, t, limit, evtq'),
         \A d \in evtq' : d.kind = "departure" => DepartureHasRecord(d),
         \A j \in front .. numAppended - 1 : j \in DOMAIN data' /\ data'[j] = data[j]
  PROVE  \A d \in evtq' : d.kind = "departure" => DepartureHasRecord(d)'
<1>. SUFFICES ASSUME NEW d \in evtq', d.kind = "departure"
              PROVE  DepartureHasRecord(d)'
  OBVIOUS
<1>1. d.job \in front .. numAppended - 1
  BY ReclaimSparesPending DEF TypeOK
<1>. QED
  BY <1>1 DEF DepartureHasRecord

(* Taking the first event leaves every start before its own end. *)
LEMMA FirstKeepsPairs ==
  ASSUME TypeOK, EventInv, NEW e \in evtq, IsFirst(e), NEW a \in evtq \ {e},
         a.kind = "arrival"
  PROVE  \E d \in evtq \ {e} : IsDepartureOf(d, a.job) /\ a.t < d.t
<1>1. PICK d \in evtq : IsDepartureOf(d, a.job) /\ a.t < d.t
  BY DEF EventInv
<1>2. Before(e, a) /\ a.t \in Nat /\ d.t \in Nat
  BY <1>1 DEF IsFirst, TypeOK, Event
<1>3. d # e
  BY <1>1, <1>2 DEF Before
<1>. QED
  BY <1>1, <1>3

LEMMA FlushKeepsEvents ==
  ASSUME TypeOK, NEW t \in Nat, Flush(t, evtq'), evtq' \subseteq Event,
         \A d \in evtq' : d.kind = "departure" => DepartureHasRecord(d)
  PROVE  \A d \in evtq' : d.kind = "departure" => DepartureHasRecord(d)'
<1>1. PICK front \in numReclaimed .. numAppended :
        ReclaimsTo(front, t, numAppended, evtq') /\ DropTo(front)
  BY DEF Flush
<1>2. \A j \in front .. numAppended - 1 : j \in DOMAIN data' /\ data'[j] = data[j]
  BY <1>1 DEF DropTo
<1>. QED
  BY <1>1, <1>2, DropKeepsEvents

LEMMA AppendKeepsEvents ==
  ASSUME TypeOK, EventInv, NEW n \in Nat, NEW bad, NEW pressure,
         AppendJobs(n, bad, pressure)
  PROVE  EventInv'
<1>1. PICK front \in numReclaimed .. numAppended :
        /\ ReclaimsTo(front, now, numAppended + n - capacity, evtq)
        /\ \/ DropTo(front)
           \/ data' = [j \in front .. numAppended + n - 1 |->
                         IF j < numAppended THEN data[j]
                         ELSE IF j \in bad THEN Rejected ELSE Waiting]
  BY DEF AppendJobs, Fits
<1>2. evtq' = evtq /\ evtq' \subseteq Event /\ now \in Nat
  BY DEF AppendJobs, Fits, TypeOK
<1>3. \A j \in front .. numAppended - 1 : j \in DOMAIN data' /\ data'[j] = data[j]
  BY <1>1 DEF DropTo, TypeOK
<1>4. \A d \in evtq' : d.kind = "departure" => DepartureHasRecord(d)
  BY <1>2 DEF EventInv
<1>5. ReclaimsTo(front, now, numAppended + n - capacity, evtq')
  BY <1>1, <1>2
<1>6. \A d \in evtq' : d.kind = "departure" => DepartureHasRecord(d)'
  BY <1>2, <1>3, <1>4, <1>5, DropKeepsEvents
<1>. QED
  BY <1>2, <1>6 DEF EventInv, IsDepartureOf

LEMMA InsertKeepsEvents ==
  ASSUME FloatGrid = 1, TypeOK, EventInv, NEW j \in JobIds, NEW d \in Durations,
         InsertJob(j, d)
  PROVE  EventInv'
<1>1. now \in Nat /\ d \in Nat /\ now < now + d
  BY TimesAssumption DEF TypeOK
<1>2. data' = [data EXCEPT ![j].end = now + d] /\ j \in DOMAIN data
  BY <1>1, ExactEnd DEF InsertJob
<1>3. data[j].end = Never /\ ~data[j].rejected /\ data[j] \in Record
  BY <1>2 DEF InsertJob, is_scheduled, TypeOK
<1>4. PICK start, stop :
        /\ start = [job |-> j, t |-> now, kind |-> "arrival"]
        /\ stop  = [job |-> j, t |-> now + d, kind |-> "departure"]
        /\ evtq' = evtq \cup {start, stop}
  BY DEF InsertJob
<1>5. ASSUME NEW x \in evtq, x.kind = "departure" PROVE DepartureHasRecord(x)'
  <2>1. DepartureHasRecord(x) /\ x.t \in Nat
    BY <1>5 DEF EventInv, TypeOK, Event
  <2>2. x.job # j
    BY <2>1, <1>3 DEF DepartureHasRecord, Never
  <2>. QED
    BY <2>1, <2>2, <1>2 DEF DepartureHasRecord
<1>6. DepartureHasRecord(stop)'
  BY <1>2, <1>3, <1>4 DEF DepartureHasRecord, Record
<1>7. \A x \in evtq' : x.kind = "departure" => DepartureHasRecord(x)'
  BY <1>4, <1>5, <1>6
<1>8. ASSUME NEW a \in evtq', a.kind = "arrival"
      PROVE  \E x \in evtq' : IsDepartureOf(x, a.job) /\ a.t < x.t
  <2>1. CASE a \in evtq
    BY <1>4, <1>8, <2>1 DEF EventInv
  <2>2. CASE a = start
    BY <1>1, <1>4, <2>2 DEF IsDepartureOf
  <2>. QED
    BY <1>4, <1>8, <2>1, <2>2
<1>. QED
  BY <1>7, <1>8 DEF EventInv, IsDepartureOf

LEMMA ProcessKeepsEvents ==
  ASSUME TypeOK, EventInv, NEW e \in evtq, ProcessSingleEvent(e)
  PROVE  EventInv'
<1>1. IsFirst(e) /\ e.t \in Nat
  BY DEF ProcessSingleEvent, TypeOK, Event
<1>2. /\ evtq \ {e} \subseteq evtq'
      /\ \A x \in evtq' : x \in evtq \ {e} \/ x.kind = "release"
  BY DEF ProcessSingleEvent, QueueAfter, Releases
<1>3. evtq' \subseteq Event
  BY QueueTyped DEF ProcessSingleEvent, TypeOK
<1>4. \A x \in evtq' : x.kind = "departure" => DepartureHasRecord(x)
  BY <1>2 DEF EventInv
<1>5. \A x \in evtq' : x.kind = "departure" => DepartureHasRecord(x)'
  <2>1. CASE UNCHANGED data
    BY <1>4, <2>1 DEF DepartureHasRecord
  <2>2. CASE Flush(e.t, evtq')
    BY <1>1, <1>3, <1>4, <2>2, FlushKeepsEvents
  <2>. QED
    BY <2>1, <2>2 DEF ProcessSingleEvent, MaybeFlush
<1>6. ASSUME NEW a \in evtq', a.kind = "arrival"
      PROVE  \E x \in evtq' : IsDepartureOf(x, a.job) /\ a.t < x.t
  BY <1>1, <1>2, <1>6, FirstKeepsPairs
<1>. QED
  BY <1>5, <1>6 DEF EventInv, IsDepartureOf

LEMMA EventStep ==
  ASSUME FloatGrid = 1, TypeOK, EventInv, [Next]_vars
  PROVE  EventInv'
<1>1. CASE Append
  BY <1>1, AppendKeepsEvents, SizesAssumption DEF Append
<1>2. ASSUME NEW j \in JobIds, NEW d \in Durations, InsertJob(j, d) PROVE EventInv'
  BY <1>2, InsertKeepsEvents
<1>3. ASSUME NEW e \in evtq, ProcessSingleEvent(e) PROVE EventInv'
  BY <1>3, ProcessKeepsEvents
<1>4. CASE RunUntilInclusive
  <2>1. /\ evtq' \subseteq evtq /\ UNCHANGED data
        /\ \A d \in evtq : d.kind = "departure" => d \in evtq'
    BY <1>4 DEF RunUntilInclusive
  <2>2. ASSUME NEW a \in evtq', a.kind = "arrival"
        PROVE  \E d \in evtq' : IsDepartureOf(d, a.job) /\ a.t < d.t
    BY <2>1, <2>2 DEF EventInv, IsDepartureOf
  <2>. QED
    BY <2>1, <2>2 DEF EventInv, DepartureHasRecord, IsDepartureOf
<1>5. CASE FlushCompletedJobs
  <2>1. evtq' = evtq /\ Flush(now, evtq') /\ now \in Nat /\ evtq' \subseteq Event
    BY <1>5 DEF FlushCompletedJobs, TypeOK
  <2>2. \A d \in evtq' : d.kind = "departure" => DepartureHasRecord(d)'
    BY <2>1, FlushKeepsEvents DEF EventInv
  <2>. QED
    BY <2>1, <2>2 DEF EventInv, IsDepartureOf
<1>6. CASE UNCHANGED <<evtq, data>>
  BY <1>6 DEF EventInv, DepartureHasRecord, IsDepartureOf
<1>. QED
  BY <1>1, <1>2, <1>3, <1>4, <1>5, <1>6
  DEF Next, WriteSimulatedTrace, AdvanceClock, vars

LEMMA EventInit == Init => EventInv
BY DEF Init, EventInv

(* With records that keep their end times exactly, the store never drops a *)
(* record that a pending start or end event still refers to: job_at() does *)
(* not throw in process_single_event(), for any sequence of appends,       *)
(* starts, flushes and clock steps.                                        *)
THEOREM NoDanglingEvent ==
  ASSUME FloatGrid = 1
  PROVE  Spec => []EventsHaveRecords
<1>1. TypeOK /\ EventInv => EventsHaveRecords
  BY DEF TypeOK, EventInv, EventsHaveRecords, HasRecord, DepartureHasRecord,
         IsDepartureOf, Event, Kind
<1>2. TypeOK /\ EventInv /\ [Next]_vars => TypeOK' /\ EventInv'
  BY TypeStep, EventStep
<1>. QED
  BY <1>1, <1>2, TypeInit, EventInit, PTL DEF Spec

-----------------------------------------------------------------------------
(* Exactly one row per job that ran.  Until the final write the cursor is  *)
(* the front of the store, so what a reclaim passes is what it writes, and *)
(* a record it passes is either rejected or has its departure behind it.   *)

OutputInv == ExactlyOnce /\ (~finished => nextToWrite = numReclaimed)

LEMMA EventsSound == TypeOK /\ EventInv => EventsHaveRecords
BY DEF TypeOK, EventInv, EventsHaveRecords, HasRecord, DepartureHasRecord,
       IsDepartureOf, Event, Kind

(* done stands for the jobs that have ended by the time of the reclaim. *)
LEMMA ReclaimWritesEnded ==
  ASSUME TypeOK, nextToWrite = numReclaimed, CursorInv,
         NEW front \in numReclaimed .. numAppended, NEW t \in Nat, NEW limit,
         NEW queue, queue \subseteq Event, ReclaimsTo(front, t, limit, queue),
         \A d \in queue : d.kind = "departure" => DepartureHasRecord(d),
         NEW sinkOpen, NEW sinkRows, write_job_range(front, t, sinkOpen, sinkRows),
         NEW done, done \subseteq JobIds,
         \A j \in DOMAIN data :
           /\ data[j].rejected => data[j].end = Never /\ j \notin done
           /\ j \in done => data[j].end # Never
           /\ data[j].end # Never => j \in done \/ \E d \in queue : IsDepartureOf(d, j),
         \A j \in done : j < numReclaimed => written[j] = 1,
         \A j \in JobIds : written[j] # 0 => j \in done /\ written[j] = 1
  PROVE  /\ nextToWrite' = front
         /\ \A j \in done : j < front => written'[j] = 1
         /\ \A j \in JobIds : written'[j] # 0 => j \in done /\ written'[j] = 1
<1>1. nextToWrite' = front
  BY DEF write_job_range, TypeOK
<1>2. \A j \in JobIds : j \in Nat /\ written[j] \in Nat
  BY SizesAssumption DEF JobIds, TypeOK
<1>3. ASSUME NEW j \in done, j < front PROVE written'[j] = 1
  <2>0. j \in JobIds /\ j \in Nat
    BY <1>2
  <2>1. CASE j < numReclaimed
    <3>1. j \notin RowsFor(front, t)
      BY <2>0, <2>1 DEF RowsFor, TypeOK
    <3>. QED
      BY <2>0, <2>1, <3>1 DEF write_job_range
  <2>2. CASE ~(j < numReclaimed)
    <3>1. j \in numReclaimed .. front - 1 /\ j \in DOMAIN data
      BY <1>3, <2>0, <2>2 DEF TypeOK
    <3>2. data[j].end # Never /\ ~data[j].rejected
      BY <3>1
    <3>3. data[j].end <= t
      BY <3>1, <3>2, ReclaimTakesEnded DEF TypeOK
    <3>4. j \in RowsFor(front, t)
      BY <1>3, <3>1, <3>2, <3>3 DEF RowsFor, is_scheduled, TypeOK
    <3>5. written[j] = 0
      BY <2>0, <3>1 DEF CursorInv, TypeOK
    <3>. QED
      BY <2>0, <3>4, <3>5 DEF write_job_range
  <2>. QED
    BY <2>1, <2>2
<1>4. ASSUME NEW j \in JobIds, written'[j] # 0
      PROVE  j \in done /\ written'[j] = 1
  <2>1. CASE j \notin RowsFor(front, t)
    BY <1>4, <2>1 DEF write_job_range
  <2>2. CASE j \in RowsFor(front, t)
    <3>1. /\ j \in DOMAIN data /\ j \in numReclaimed .. front - 1
          /\ data[j].end # Never
      BY <1>2, <2>2 DEF RowsFor, is_scheduled, TypeOK
    <3>2. ~data[j].rejected
      BY <3>1
    <3>3. ~\E d \in queue : IsDepartureOf(d, j)
      BY <3>1, <3>2, ReclaimTakesEnded DEF TypeOK
    <3>4. j \in done
      BY <3>1, <3>3
    <3>5. written[j] = 0
      BY <1>2, <3>1 DEF CursorInv, TypeOK
    <3>. QED
      BY <2>2, <3>4, <3>5 DEF write_job_range
  <2>. QED
    BY <2>1, <2>2
<1>. QED
  BY <1>1, <1>3, <1>4

StoreInv == TypeOK /\ CursorInv /\ EventInv /\ RecordInv /\ OutputInv

(* The flush of a step that also consumes an event, ended' and evtq' being *)
(* the state the flush sees.                                               *)
LEMMA FlushKeepsOutput ==
  ASSUME StoreInv, ~finished, NEW t \in Nat, Flush(t, evtq'), evtq' \subseteq Event,
         ended' \subseteq JobIds, UNCHANGED <<numAppended, finished>>,
         \A d \in evtq' : d.kind = "departure" => DepartureHasRecord(d),
         \A j \in ended' : j < numAppended,
         \A j \in DOMAIN data :
           /\ data[j].rejected => data[j].end = Never /\ j \notin ended'
           /\ j \in ended' => data[j].end # Never
           /\ data[j].end # Never => j \in ended' \/ \E d \in evtq' : IsDepartureOf(d, j),
         \A j \in ended' : j < numReclaimed => written[j] = 1,
         \A j \in JobIds : written[j] # 0 => j \in ended' /\ written[j] = 1
  PROVE  RecordInv' /\ OutputInv'
<1>1. PICK front \in numReclaimed .. numAppended :
        /\ ReclaimsTo(front, t, numAppended, evtq')
        /\ write_job_range(front, t, open, rows)
        /\ DropTo(front)
  BY DEF Flush
<1>2. TypeOK /\ CursorInv /\ nextToWrite = numReclaimed
  BY DEF StoreInv, OutputInv
<1>3. /\ nextToWrite' = front
      /\ \A j \in ended' : j < front => written'[j] = 1
      /\ \A j \in JobIds : written'[j] # 0 => j \in ended' /\ written'[j] = 1
  BY <1>1, <1>2, ReclaimWritesEnded
<1>4. OutputInv'
  BY <1>1, <1>3 DEF OutputInv, ExactlyOnce, DropTo
<1>5. \A j \in DOMAIN data' : j \in DOMAIN data /\ data'[j] = data[j]
  BY <1>1, <1>2 DEF DropTo, TypeOK
<1>6. RecordInv'
  BY <1>5 DEF RecordInv, IsDepartureOf
<1>. QED
  BY <1>4, <1>6

LEMMA AppendKeepsOutput ==
  ASSUME StoreInv, ~finished, NEW n \in Nat, NEW bad, NEW pressure,
         AppendJobs(n, bad, pressure)
  PROVE  RecordInv' /\ OutputInv'
<1>0. TypeOK /\ CursorInv /\ EventInv /\ RecordInv /\ OutputInv
  BY DEF StoreInv
<1>1. PICK front \in numReclaimed .. numAppended :
        /\ ReclaimsTo(front, now, numAppended + n - capacity, evtq)
        /\ write_job_range(front, now, SinkOpen, SinkRows)
        /\ numReclaimed' = front
        /\ \/ DropTo(front) /\ numAppended' = numAppended
           \/ /\ numAppended' = numAppended + n
              /\ data' = [j \in front .. numAppended + n - 1 |->
                            IF j < numAppended THEN data[j]
                            ELSE IF j \in bad THEN Rejected ELSE Waiting]
  BY DEF AppendJobs, Fits, DropTo
<1>2. /\ nextToWrite = numReclaimed /\ now \in Nat /\ evtq \subseteq Event
      /\ ended \subseteq JobIds
      /\ \A d \in evtq : d.kind = "departure" => DepartureHasRecord(d)
      /\ \A j \in ended : j < numReclaimed => written[j] = 1
      /\ \A j \in JobIds : written[j] # 0 => j \in ended /\ written[j] = 1
  BY <1>0 DEF OutputInv, ExactlyOnce, TypeOK, EventInv
<1>3. \A j \in DOMAIN data :
        /\ data[j].rejected => data[j].end = Never /\ j \notin ended
        /\ j \in ended => data[j].end # Never
        /\ data[j].end # Never => j \in ended \/ \E d \in evtq : IsDepartureOf(d, j)
  BY <1>0 DEF RecordInv
<1>4. /\ nextToWrite' = front
      /\ \A j \in ended : j < front => written'[j] = 1
      /\ \A j \in JobIds : written'[j] # 0 => j \in ended /\ written'[j] = 1
  BY <1>0, <1>1, <1>2, <1>3, ReclaimWritesEnded
<1>5. UNCHANGED <<evtq, ended, finished>>
  BY DEF AppendJobs, Fits
<1>6. OutputInv'
  BY <1>1, <1>4, <1>5 DEF OutputInv, ExactlyOnce
<1>7. ASSUME NEW j \in DOMAIN data'
      PROVE  /\ data'[j].rejected => data'[j].end = Never /\ j \notin ended
             /\ j \in ended => data'[j].end # Never
             /\ data'[j].end # Never => j \in ended \/ \E d \in evtq : IsDepartureOf(d, j)
  <2>1. CASE j \in DOMAIN data /\ data'[j] = data[j]
    BY <1>3, <2>1
  <2>2. CASE j >= numAppended /\ data'[j] \in {Rejected, Waiting}
    <3>0. \A k \in ended : k \in Int /\ k < numAppended
      BY <1>0, <1>2, SizesAssumption DEF RecordInv, JobIds
    <3>1. j \notin ended
      BY <1>0, <2>2, <3>0 DEF TypeOK
    <3>. QED
      BY <2>2, <3>1 DEF Rejected, Waiting
  <2>. QED
    BY <1>0, <1>1, <1>7, <2>1, <2>2 DEF DropTo, TypeOK
<1>8. \A j \in ended : j < numAppended'
  <2>1. \A j \in ended : j \in Int /\ j < numAppended
    BY <1>0, <1>2, SizesAssumption DEF RecordInv, JobIds
  <2>. QED
    BY <1>0, <1>1, <2>1 DEF TypeOK
<1>. QED
  BY <1>5, <1>6, <1>7, <1>8 DEF RecordInv, IsDepartureOf

LEMMA InsertKeepsOutput ==
  ASSUME StoreInv, NEW j \in JobIds, NEW d \in Durations, InsertJob(j, d)
  PROVE  RecordInv' /\ OutputInv'
<1>1. TypeOK /\ RecordInv /\ OutputInv
  BY DEF StoreInv
<1>2. /\ j \in DOMAIN data /\ ~data[j].rejected /\ data[j] \in Record
      /\ data' = [data EXCEPT ![j].end = compute_end_time(now, d)]
  BY <1>1 DEF InsertJob, TypeOK
<1>3. compute_end_time(now, d) # Never
  BY <1>1, ComputeEndTyped, TimesAssumption DEF TypeOK, Never
<1>4. PICK stop \in evtq' : stop = [job |-> j, t |-> now + d, kind |-> "departure"]
  BY DEF InsertJob
<1>5. evtq \subseteq evtq' /\ UNCHANGED <<ended, numAppended>>
  BY DEF InsertJob
<1>6. ASSUME NEW k \in DOMAIN data'
      PROVE  /\ data'[k].rejected => data'[k].end = Never /\ k \notin ended
             /\ k \in ended => data'[k].end # Never
             /\ data'[k].end # Never => k \in ended \/ \E x \in evtq' : IsDepartureOf(x, k)
  <2>1. CASE k = j
    <3>1. data'[k].end = compute_end_time(now, d) /\ ~data'[k].rejected
      BY <1>2, <2>1 DEF Record
    <3>. QED
      BY <1>3, <1>4, <2>1, <3>1 DEF IsDepartureOf
  <2>2. CASE k # j
    <3>1. k \in DOMAIN data /\ data'[k] = data[k]
      BY <1>2, <1>6, <2>2
    <3>. QED
      BY <1>1, <1>5, <3>1 DEF RecordInv
  <2>. QED
    BY <2>1, <2>2
<1>7. RecordInv'
  BY <1>1, <1>5, <1>6 DEF RecordInv, IsDepartureOf
<1>8. OutputInv'
  BY <1>1 DEF InsertJob, OutputInv, ExactlyOnce, output
<1>. QED
  BY <1>7, <1>8

LEMMA ProcessKeepsOutput ==
  ASSUME StoreInv, ~finished, NEW e \in evtq, ProcessSingleEvent(e)
  PROVE  RecordInv' /\ OutputInv'
<1>0. TypeOK /\ CursorInv /\ EventInv /\ RecordInv /\ OutputInv
  BY DEF StoreInv
<1>1. HasRecord(e)
  BY <1>0, EventsSound DEF EventsHaveRecords
<1>2. /\ QueueAfter(e, evtq') /\ MaybeFlush(Counted(e), e.t, evtq')
      /\ ended' = IF e.kind = "departure" THEN ended \cup {e.job} ELSE ended
      /\ UNCHANGED <<numAppended, finished>>
  BY <1>1 DEF ProcessSingleEvent
<1>3. /\ e.t \in Nat /\ e.job \in JobIds /\ evtq' \subseteq Event
      /\ ended' \subseteq JobIds
  BY <1>0, <1>2, QueueTyped DEF TypeOK, Event
<1>4. /\ evtq \ {e} \subseteq evtq'
      /\ \A x \in evtq' : x \in evtq \ {e} \/ x.kind = "release"
  BY <1>2 DEF QueueAfter, Releases
<1>5. \A d \in evtq' : d.kind = "departure" => DepartureHasRecord(d)
  BY <1>0, <1>4 DEF EventInv
<1>6. e.kind = "departure" =>
        /\ e.job \in DOMAIN data /\ ~data[e.job].rejected
        /\ data[e.job].end # Never /\ e.job \in Int
        /\ numReclaimed <= e.job /\ e.job < numAppended
  BY <1>0, <1>3 DEF EventInv, DepartureHasRecord, Never, TypeOK
<1>7. \A j \in ended' : j < numAppended
  BY <1>0, <1>2, <1>6 DEF RecordInv
<1>8. ASSUME NEW j \in DOMAIN data
      PROVE  /\ data[j].rejected => data[j].end = Never /\ j \notin ended'
             /\ j \in ended' => data[j].end # Never
             /\ data[j].end # Never => j \in ended' \/ \E d \in evtq' : IsDepartureOf(d, j)
  <2>1. ASSUME NEW d \in evtq, IsDepartureOf(d, j)
        PROVE  j \in ended' \/ d \in evtq'
    BY <1>2, <1>4, <2>1 DEF IsDepartureOf
  <2>. QED
    BY <1>0, <1>2, <1>6, <2>1 DEF RecordInv
<1>9. /\ \A j \in ended' : j < numReclaimed => written[j] = 1
      /\ \A j \in JobIds : written[j] # 0 => j \in ended' /\ written[j] = 1
  BY <1>0, <1>2, <1>6 DEF OutputInv, ExactlyOnce, TypeOK
<1>10. CASE Flush(e.t, evtq')
  BY <1>2, <1>3, <1>5, <1>7, <1>8, <1>9, <1>10, FlushKeepsOutput
<1>11. CASE UNCHANGED <<data, numReclaimed, nextToWrite, written, rows>>
  <2>1. RecordInv'
    BY <1>2, <1>7, <1>8, <1>11 DEF RecordInv, IsDepartureOf
  <2>. QED
    BY <1>0, <1>2, <1>9, <1>11, <2>1 DEF OutputInv, ExactlyOnce
<1>. QED
  BY <1>2, <1>10, <1>11 DEF MaybeFlush

LEMMA OutputStep ==
  ASSUME FloatGrid = 1, MidRunWrites = FALSE, StoreInv, [Next]_vars
  PROVE  RecordInv' /\ OutputInv'
<1>0. TypeOK /\ CursorInv /\ EventInv /\ RecordInv /\ OutputInv
  BY DEF StoreInv
<1>1. CASE UNCHANGED vars
  BY <1>0, <1>1 DEF vars, output, RecordInv, OutputInv, ExactlyOnce, IsDepartureOf
<1>2. CASE finished
  <2>1. ~Running
    BY <1>2 DEF Running
  <2>2. UNCHANGED vars
    BY <2>1 DEF Next, Append, AppendJobs, Fits, InsertJob, ProcessSingleEvent,
              RunUntilInclusive, FlushCompletedJobs, WriteSimulatedTrace, AdvanceClock
  <2>. QED
    BY <1>1, <2>2
<1>3. CASE Next /\ ~finished
  <2>1. CASE Append
    BY <1>3, <2>1, AppendKeepsOutput, SizesAssumption DEF Append
  <2>2. ASSUME NEW j \in JobIds, NEW d \in Durations, InsertJob(j, d)
        PROVE  RecordInv' /\ OutputInv'
    BY <2>2, InsertKeepsOutput
  <2>3. ASSUME NEW e \in evtq, ProcessSingleEvent(e)
        PROVE  RecordInv' /\ OutputInv'
    BY <1>3, <2>3, ProcessKeepsOutput
  <2>4. CASE RunUntilInclusive
    <3>1. /\ \A d \in evtq : d.kind = "departure" => d \in evtq'
          /\ UNCHANGED <<data, numReclaimed, numAppended, written, nextToWrite,
                         ended, finished>>
      BY <2>4 DEF RunUntilInclusive, output
    <3>. QED
      BY <1>0, <3>1 DEF RecordInv, OutputInv, ExactlyOnce, IsDepartureOf
  <2>5. CASE FlushCompletedJobs
    <3>1. /\ Flush(now, evtq') /\ UNCHANGED <<evtq, ended, numAppended, finished>>
      BY <2>5 DEF FlushCompletedJobs
    <3>2. /\ now \in Nat /\ evtq' \subseteq Event /\ ended' \subseteq JobIds
          /\ \A d \in evtq' : d.kind = "departure" => DepartureHasRecord(d)
          /\ \A j \in ended' : j < numAppended
          /\ \A j \in ended' : j < numReclaimed => written[j] = 1
          /\ \A j \in JobIds : written[j] # 0 => j \in ended' /\ written[j] = 1
      BY <1>0, <1>3, <3>1 DEF TypeOK, EventInv, RecordInv, OutputInv, ExactlyOnce
    <3>3. \A j \in DOMAIN data :
            /\ data[j].rejected => data[j].end = Never /\ j \notin ended'
            /\ j \in ended' => data[j].end # Never
            /\ data[j].end # Never =>
                 j \in ended' \/ \E d \in evtq' : IsDepartureOf(d, j)
      BY <1>0, <3>1 DEF RecordInv
    <3>. QED
      BY <1>3, <3>1, <3>2, <3>3, FlushKeepsOutput
  <2>6. CASE WriteSimulatedTrace
    <3>1. /\ write_job_range(numAppended, Forever, TRUE, SinkRows)
          /\ finished' = TRUE
          /\ UNCHANGED <<data, numReclaimed, numAppended, evtq, ended>>
      BY <2>6 DEF WriteSimulatedTrace
    <3>2. nextToWrite = numReclaimed
      BY <1>0, <1>3 DEF OutputInv
    <3>3. ASSUME NEW j \in ended, j < numReclaimed PROVE written'[j] = 1
      <4>1. j \in JobIds /\ j \in Int
        BY <1>0, SizesAssumption DEF TypeOK, JobIds
      <4>2. j \notin RowsFor(numAppended, Forever)
        BY <1>0, <3>2, <3>3, <4>1 DEF RowsFor, TypeOK
      <4>. QED
        BY <1>0, <3>1, <3>3, <4>1, <4>2 DEF write_job_range, OutputInv, ExactlyOnce
    <3>4. OutputInv'
      BY <3>1, <3>3 DEF OutputInv, ExactlyOnce
    <3>5. RecordInv'
      BY <1>0, <3>1 DEF RecordInv, IsDepartureOf
    <3>. QED
      BY <3>4, <3>5
  <2>7. ASSUME NEW t \in 1 .. MaxTime, AdvanceClock(t)
        PROVE  RecordInv' /\ OutputInv'
    BY <1>0, <2>7 DEF AdvanceClock, output, RecordInv, OutputInv, ExactlyOnce,
                      IsDepartureOf
  <2>. QED
    BY <1>3, <2>1, <2>2, <2>3, <2>4, <2>5, <2>6, <2>7 DEF Next
<1>. QED
  BY <1>1, <1>2, <1>3

LEMMA OutputInit == Init => RecordInv /\ OutputInv
<1>. SUFFICES ASSUME Init PROVE RecordInv /\ OutputInv
  OBVIOUS
<1>1. DOMAIN data = {} /\ ended = {}
  BY DEF Init
<1>2. \A j \in JobIds : written[j] = 0
  BY DEF Init
<1>. QED
  BY <1>1, <1>2 DEF Init, RecordInv, OutputInv, ExactlyOnce

(* When the output is written once, after the drain, every job that ran    *)
(* and left the store was accounted exactly once, and before that write no *)
(* job is accounted that has not ended.                                    *)
THEOREM EveryRowOnce ==
  ASSUME FloatGrid = 1, MidRunWrites = FALSE
  PROVE  Spec => []ExactlyOnce
<1>1. Init => StoreInv
  BY TypeInit, CursorInit, EventInit, OutputInit DEF StoreInv
<1>2. StoreInv /\ [Next]_vars => StoreInv'
  BY TypeStep, CursorStep, EventStep, OutputStep DEF StoreInv
<1>3. StoreInv => ExactlyOnce
  BY DEF StoreInv, OutputInv
<1>. QED
  BY <1>1, <1>2, <1>3, PTL DEF Spec
=============================================================================
