----------------------------- MODULE WarmStart -----------------------------
(***************************************************************************)
(* A warm start (--sim_start_time): the schedule of the batch run, as a    *)
(* recorded trace, is replayed up to a boundary, and the simulation goes   *)
(* on from there (run_warm_start()).  Jobs that began before the boundary  *)
(* are history: they hold nodes until their recorded end and are neither   *)
(* written nor counted.  The loop runs a warm stage until the last of them *)
(* has left, then an ordinary one.                                         *)
(***************************************************************************)
EXTENDS Streaming

CONSTANT Boundaries   \* nonzero values of --sim_start_time

ASSUME BoundariesAssumption == Boundaries \subseteq Time \ {0}

VARIABLES
  boundary,    \* m_sim_start_time
  inherit,     \* the waiting jobs of the boundary are kept, not dropped
  limit,       \* run_limit: --max_time, or the drain
  stage,       \* "warm", then "ordinary", then "ran"; "none" in other runs
  preStart,    \* m_pre_start_jobs
  suppressed,  \* jobs with suppress_output()
  completed    \* m_jobs_completed

warm == <<boundary, inherit, limit, stage, preStart, suppressed, completed>>

WarmInit ==
  /\ boundary = 0 /\ inherit = FALSE /\ limit = Drain /\ stage = "none"
  /\ preStart = 0 /\ suppressed = {} /\ completed = {}

EndOf(j) == batch[j] + job[j].run

(* Recorded jobs at boundary b: begun before it; of these, ended by it;    *)
(* ended at it and still cleaning up; waiting at it; submitted after it.   *)
Historical(b) == {j \in Jobs : batch[j] < b}
Departed(b) == {j \in Historical(b) : EndOf(j) <= b}
Cleaning(b) ==
  {j \in Departed(b) : ReleaseDelays # {} /\ EndOf(j) = b /\ job[j].delay > 0}
Waiters(b) == {j \in Jobs \ Historical(b) : job[j].submit < b}
Later(b) == {j \in Jobs \ Historical(b) : job[j].submit >= b}

(* Mutant: the jobs that run across the boundary are not planned for. *)
RunningAtUnseeded(b) == << >>

(* Their recorded departure, not their limit, is what is planned. *)
RunningAt(b) ==
  [j \in Historical(b) \ Departed(b) |-> PlannedRelease(batch[j], job[j].run)]

(* Mutant: departures up to the boundary stay counted. *)
PreStartAtUndiminished(b) == Cardinality(Historical(b))

PreStartAt(b) == Cardinality(Historical(b) \ Departed(b))

(* Inherited waiters arrive at the boundary, the others when submitted. *)
ArrivalsAt(b, waiters) ==
  LET when(j) == Max({b, job[j].submit})
      J       == waiters \cup Later(b)
  IN  [u \in {when(j) : j \in J} |-> Cardinality({j \in J : when(j) = u})]

(* The trace of the batch run is loaded; every job in it has a begin. *)
initialize_trace ==
  /\ BatchDone("warm") /\ \A j \in Jobs : start[j] < Infinity
  /\ UNCHANGED <<vars, warm>>

(* run_warm_start() up to its first loop. *)
run_warm_start(b, keep, to) ==
  LET live    == Historical(b) \ Departed(b)
      waiters == IF keep THEN Waiters(b) ELSE {}
      due     == {i \in 1 .. Len(changes) : changes[i].time <= b}
  IN  /\ rerun = "warm" /\ stage = "none" /\ b <= to
      /\ boundary' = b /\ inherit' = keep /\ limit' = to
      /\ preStart' = PreStartAt(b)
      /\ stage' = IF preStart' = 0 THEN "ordinary" ELSE "warm"
      /\ suppressed' = Departed(b) \cup (Waiters(b) \ waiters)
      /\ completed' = 0
      /\ now' = b /\ target' = b /\ looping' = FALSE
      /\ capacity' = IF due = {} THEN TotalNodes ELSE changes[Max(due)].total
      /\ nextChange' = 1 + Cardinality(due)
      /\ waiting' = Erased([j \in Jobs |-> j], Jobs \ (waiters \cup Later(b)))
      /\ arrivals' = ArrivalsAt(b, waiters)
      /\ running' = RunningAt(b)
      /\ evtq' = {[t |-> EndOf(j), kind |-> "end", job |-> j] : j \in live} \cup
                 {[t |-> b + job[j].delay, kind |-> "release", job |-> j] : j \in Cleaning(b)}
      /\ inUse' = NodesOf(live) /\ releasing' = NodesOf(Cleaning(b))
      /\ start' = [j \in Jobs |-> IF j \in Historical(b) THEN batch[j] ELSE Infinity]
      /\ promise' = [j \in Jobs |-> NoFit]
      /\ nextTick' = Infinity /\ dirty' = TRUE /\ evaluated' = NoFit
      /\ UNCHANGED <<job, changes, appended, rejected, fault, batch, rerun>>

(* advance_to_impl<WarmStage>() and advance_to(): the call that opens a    *)
(* stage.                                                                  *)
OpenStage ==
  /\ rerun = "warm" /\ stage \in {"warm", "ordinary"} /\ ~looping
  /\ advance_to(limit)
  /\ UNCHANGED <<warm, batch, rerun>>

(* An iteration of the loop.  In the warm stage a departure of a job that  *)
(* began before the boundary is suppressed and counted down, any other is  *)
(* completed.                                                              *)
StageStep ==
  LET ended      == {e.job : e \in {f \in evtq \ evtq' : f.kind = "end"}}
      historical == {j \in ended : stage = "warm" /\ start[j] < boundary}
  IN  /\ rerun = "warm" /\ looping
      /\ ~(stage = "warm" /\ preStart = 0)
      /\ Step
      /\ suppressed' = suppressed \cup historical
      /\ preStart' = preStart - Cardinality(historical)
      /\ completed' = completed + Cardinality(ended \ historical)
      /\ stage' = IF looping' THEN stage ELSE IF stage = "warm" THEN "ordinary" ELSE "ran"
      /\ UNCHANGED <<boundary, inherit, limit, batch, rerun>>

(* The last historical job has left, and its instant is settled: the warm  *)
(* stage returns where the clock is.                                       *)
WarmReturn ==
  /\ rerun = "warm" /\ stage = "warm" /\ looping /\ preStart = 0
  /\ looping' = FALSE /\ stage' = "ordinary"
  /\ UNCHANGED <<caller, now, target, capacity, nextChange, waiting, resources, arrivals,
                 nextTick, dirty, evaluated, fault, batch, rerun>>
  /\ UNCHANGED <<boundary, inherit, limit, preStart, suppressed, completed>>

Warm ==
  \/ initialize_trace
  \/ \E b \in Boundaries, keep \in BOOLEAN, to \in Targets \cup {Drain} :
       run_warm_start(b, keep, to)
  \/ OpenStage \/ StageStep \/ WarmReturn

-----------------------------------------------------------------------------
(* History stays out of the results whatever departs together: the counter *)
(* that ends the warm stage is the number of historical jobs still running *)
(* (so it never underflows, and the stage ends with the last of them), no  *)
(* historical job is completed and no simulated one is suppressed.         *)
HistorySeparate ==
  stage # "none" =>
    LET gone == {j \in Jobs : start[j] < Infinity} \
                {e.job : e \in {f \in evtq : f.kind = "end"}}
        historical == {j \in Jobs : start[j] < boundary}
    IN  /\ preStart = Cardinality(historical \ gone)
        /\ completed = Cardinality(gone \ historical)
        /\ suppressed = (gone \cap historical) \cup
                        (IF inherit THEN {} ELSE Waiters(boundary))

(* A warm start continues the recorded run: when the jobs in progress use  *)
(* their whole limits, so that the boundary reveals nothing the scheduler  *)
(* did not plan with, every job starts when the recording says.            *)
HistoryContinues ==
  stage = "ran" /\ inherit =>
    LET live == Historical(boundary) \ Departed(boundary)
    IN  (\A j \in live : job[j].run = job[j].limit) =>
          \A j \in Jobs : IF batch[j] <= limit THEN start[j] = batch[j]
                         ELSE start[j] = Infinity
=============================================================================
