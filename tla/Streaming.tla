----------------------------- MODULE Streaming -----------------------------
(***************************************************************************)
(* Batch against streaming: every workload is run twice.  First as one     *)
(* batch (all jobs appended, one drain), then again as a stream, with      *)
(* appends and advance_to() in any order the caller may choose, or read    *)
(* from a list of files.  A streaming caller also queries.                 *)
(***************************************************************************)
EXTENDS MCSimulation

VARIABLES
  batch,   \* the start times of the batch run, << >> while it runs
  rerun    \* what runs now: "batch", then "stream" or a rerun of module Reruns

Drained == ~looping /\ target = Drain

StreamingInit == Init /\ batch = << >> /\ rerun = "batch"

(* The batch run: run() with the whole workload loaded. *)
Batch ==
  /\ rerun = "batch" /\ ~Drained
  /\ append_job \/ advance_to(Drain) \/ Step
  /\ UNCHANGED <<batch, rerun>>

(* The batch run is over: its schedule is kept for comparison. *)
BatchDone(next) ==
  /\ rerun = "batch" /\ Drained
  /\ batch' = start /\ rerun' = next

(* A new simulation of the same workload. *)
Again ==
  /\ BatchDone("stream")
  /\ appended' = 0 /\ rejected' = {}
  /\ now' = 0 /\ target' = 0 /\ looping' = FALSE
  /\ capacity' = TotalNodes /\ nextChange' = 1
  /\ waiting' = << >> /\ running' = << >> /\ evtq' = {}
  /\ inUse' = 0 /\ releasing' = 0 /\ arrivals' = << >>
  /\ nextTick' = Infinity /\ dirty' = TRUE
  /\ start' = [j \in Jobs |-> Infinity]
  /\ promise' = [j \in Jobs |-> NoFit]
  /\ evaluated' = NoFit /\ fault' = FALSE
  /\ UNCHANGED <<job, changes>>

Stream ==
  /\ rerun = "stream"
  /\ Next
  /\ UNCHANGED <<batch, rerun>>

StreamingNext == Batch \/ Again \/ Stream

StreamingSpec == StreamingInit /\ [][StreamingNext]_<<vars, batch, rerun>>

(* However the caller divides the time into calls of advance_to(), every   *)
(* job starts when it starts in the batch run                              *)
(* (docs/dev/JOB_LIFECYCLE.md, "batch and streaming execution of the same  *)
(* ordered jobs produce the same schedule").                               *)
SameSchedule ==
  rerun = "stream" /\ Drained => start = batch

-----------------------------------------------------------------------------
(* What a streaming caller is told about jobs that wait: get_job_statuses()*)
(* and get_queue_drain_start_times() between two calls.  Both build a      *)
(* projection of their own, beside the scheduler's, with whole limits and  *)
(* without the planning grid.                                              *)
VARIABLE reported   \* the earliest time each job was reported RESERVED for

(* The free-node profile of both queries at s: releases of the running     *)
(* jobs and the capacity changes ahead, clamped after each instant.        *)
ProjectedFree(s) ==
  LET ending(u)  == {j \in DOMAIN s.run : s.t < s.run[j] /\ s.run[j] <= u}
      balance(u) == CapacityAt(s, u) - s.occupied + NodesOf(ending(u))
  IN  Table([u \in Time |-> IF balance(u) > 0 THEN balance(u) ELSE 0])

FitOf(s, plan, j) ==
  LET fits == {u \in Max({s.t, job[j].submit}) .. Horizon :
                 Fits(plan, job[j].nodes, job[j].limit, u)}
  IN  IF fits = {} THEN NoFit ELSE Min(fits)

(* Mutant: a placement is not taken out of the projection. *)
TakenNever(plan, j, t) == plan

Taken(plan, j, t) == Table(Reserved(plan, t, job[j].nodes, job[j].limit))

WithinHorizon(s, t) == Backfill /\ t - s.t <= PlanningHorizon

(* get_job_statuses() under EASY: every pending job is placed in queue     *)
(* order; the first that cannot start now is RESERVED when it is within    *)
(* the horizon, as {<<job, time>>}.  A job with no fit is passed over.     *)
get_job_statuses(s) ==
  LET place[i \in 0 .. Len(s.queue)] ==
        IF i = 0 THEN [plan |-> ProjectedFree(s), headSeen |-> FALSE, reserved |-> {}]
        ELSE LET a == place[i - 1]
                 j == s.queue[i]
                 t == FitOf(s, a.plan, j)
                 head == ~a.headSeen /\ t > s.t
             IN  IF t = NoFit THEN a
                 ELSE [plan     |-> Taken(a.plan, j, t),
                       headSeen |-> a.headSeen \/ head,
                       reserved |-> IF head /\ WithinHorizon(s, t)
                                    THEN {<<j, t>>} ELSE a.reserved]
  IN  place[Len(s.queue)].reserved

(* The protected part of get_queue_drain_start_times(): the first job that *)
(* cannot start now, one with no fit included; jobs that can start now     *)
(* take nothing.  The estimates of the others are areas, not starts.       *)
get_queue_drain_start_times(s) ==
  LET plan    == ProjectedFree(s)
      blocked == {i \in DOMAIN s.queue : FitOf(s, plan, s.queue[i]) # s.t}
      head    == s.queue[Min(blocked)]
      t       == FitOf(s, plan, head)
  IN  IF blocked = {} THEN {}
      ELSE IF t # NoFit /\ WithinHorizon(s, t) THEN {<<head, t>>} ELSE {}

QueriesInit == reported = [j \in Jobs |-> Infinity]

(* The caller asks between its calls: for the statuses always, and for the *)
(* drain estimates once the jobs of this instant have been scheduled.      *)
Reported(answers) ==
  [j \in Jobs |-> Min({reported[j]} \cup {a[2] : a \in {b \in answers : b[1] = j}})]

QueriedStream ==
  /\ Stream
  /\ IF looping' \/ target' = Drain THEN UNCHANGED reported
     ELSE \E s \in {State(now', capacity', nextChange', inUse' + releasing', waiting', running')} :
            reported' = Reported(get_job_statuses(s) \cup
                                 IF s.t \in DOMAIN arrivals' THEN {}
                                 ELSE get_queue_drain_start_times(s))

(* A RESERVED time is kept: whatever the caller appends and whatever is    *)
(* backfilled later, the job starts no later than any query has told       *)
(* (docs/api/STREAMING_API.md: "`reserved` identifies a protected EASY,    *)
(* hybrid, or conservative reservation").                                  *)
ReportedKept ==
  \A j \in Jobs : reported[j] < Infinity =>
    IF start[j] < Infinity THEN start[j] <= reported[j] ELSE now <= reported[j]

-----------------------------------------------------------------------------
(* A progressive run (--infile_list): the same jobs, in files of a few     *)
(* jobs each, loaded one file at a time with the clock advanced to the     *)
(* last submission of a file before the next is read (run_progressive()).  *)
(* A file may begin at the time the one before it ends.                    *)
CONSTANT FileSizes   \* jobs in a file; the last file may have fewer

ASSUME FilesAssumption == FileSizes \subseteq Nat \ {0}

VARIABLES
  fileSize,  \* jobs in a file of this run
  maxTime,   \* --max_time, or Drain when it is not set
  phase      \* "load", "advance", "rest" or "ran"; "none" in other runs

files == <<fileSize, maxTime, phase>>

FilesInit == fileSize = 0 /\ maxTime = Drain /\ phase = "none"

run_progressive(size, to) ==
  /\ rerun = "stream" /\ appended = 0 /\ now = 0 /\ ~looping /\ target = 0
  /\ rerun' = "progressive"
  /\ fileSize' = size /\ maxTime' = to /\ phase' = "load"
  /\ UNCHANGED <<vars, batch>>

(* Mutant: the jobs of a file are queued last first. *)
load_next_file_reversed ==
  LET last == Min({appended + fileSize, NumJobs})
      file == appended + 1 .. last
      fit  == {j \in file : job[j].nodes <= TotalNodes}
      due  == {job[j].submit : j \in fit}
  IN  /\ phase = "load" /\ appended < NumJobs
      /\ appended' = last
      /\ rejected' = rejected \cup (file \ fit)
      /\ waiting' = waiting \o SetToSortSeq(fit, >)
      /\ arrivals' = [u \in DOMAIN arrivals \cup due |->
                        (IF u \in DOMAIN arrivals THEN arrivals[u] ELSE 0)
                          + Cardinality({j \in fit : job[j].submit = u})]
      /\ dirty' = (dirty \/ (BackfillInterval > 0 /\ fit # {}))
      /\ phase' = "advance"
      /\ UNCHANGED <<job, changes, clock, resources, nextTick, evaluated, fault,
                     fileSize, maxTime>>

(* load_next_file(), and submit_job() for each of its jobs. *)
load_next_file ==
  LET last == Min({appended + fileSize, NumJobs})
      file == appended + 1 .. last
      fit  == {j \in file : job[j].nodes <= TotalNodes}
      due  == {job[j].submit : j \in fit}
  IN  /\ phase = "load" /\ appended < NumJobs
      /\ appended' = last
      /\ rejected' = rejected \cup (file \ fit)
      /\ waiting' = waiting \o SetToSortSeq(fit, <)
      /\ arrivals' = [u \in DOMAIN arrivals \cup due |->
                        (IF u \in DOMAIN arrivals THEN arrivals[u] ELSE 0)
                          + Cardinality({j \in fit : job[j].submit = u})]
      /\ dirty' = (dirty \/ (BackfillInterval > 0 /\ fit # {}))
      /\ phase' = "advance"
      /\ UNCHANGED <<job, changes, clock, resources, nextTick, evaluated, fault,
                     fileSize, maxTime>>

FileTarget == Min({job[appended].submit, maxTime})

(* The clock goes to the last submission of the file.  A file that reaches *)
(* --max_time is the last one.                                             *)
advance_to_file ==
  /\ phase = "advance"
  /\ advance_to(FileTarget)
  /\ phase' = IF maxTime < Drain /\ job[appended].submit >= maxTime THEN "rest" ELSE "load"
  /\ UNCHANGED <<fileSize, maxTime>>

(* What is left: the drain, or the time up to --max_time. *)
advance_to_rest ==
  /\ phase = "rest" \/ (phase = "load" /\ appended = NumJobs)
  /\ ~looping
  /\ IF now < maxTime THEN advance_to(maxTime) ELSE UNCHANGED vars
  /\ phase' = "ran"
  /\ UNCHANGED <<fileSize, maxTime>>

Files ==
  \/ \E size \in FileSizes, to \in Targets \cup {Drain} : run_progressive(size, to)
  \/ /\ rerun = "progressive"
     /\ \/ ~looping /\ load_next_file
        \/ advance_to_file
        \/ advance_to_rest
        \/ Step /\ UNCHANGED files
     /\ UNCHANGED <<batch, rerun>>

-----------------------------------------------------------------------------
(* Where the files are cut does not change the schedule                    *)
(* (JOB_LIFECYCLE.md, "progressive file boundaries do not change           *)
(* results"), also when a file begins at the submit time that the one      *)
(* before it ends with: every job loaded starts when it starts in the      *)
(* batch run, or is still waiting at --max_time.  A file that begins at    *)
(* --max_time is not read when the one before it reaches that time.        *)
FilesAgree ==
  phase = "ran" /\ ~looping =>
    /\ \A j \in 1 .. appended :
         start[j] = IF batch[j] <= maxTime THEN batch[j] ELSE Infinity
    /\ \A j \in Jobs : j > appended => job[j].submit >= maxTime
=============================================================================
