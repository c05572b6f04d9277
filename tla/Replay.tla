------------------------------- MODULE Replay -------------------------------
(***************************************************************************)
(* A replay: the schedule of the batch run, written and read back as a     *)
(* recorded trace, is played again without a scheduler (the replay branch  *)
(* of run() and run_job_trace() in trace.cpp).  Written without            *)
(* milliseconds, a time loses its fraction (format_sim_time()): the batch  *)
(* run's times are multiples of 1/grain seconds, and its records may end   *)
(* where they begin.                                                       *)
(***************************************************************************)
EXTENDS Streaming

CONSTANTS
  Grains,         \* fractions of a second that the batch run's times keep
  FlushIntervals  \* values of --job_flush_interval; 0 = the trace's length

ASSUME ReplayAssumption == Grains \subseteq Nat \ {0} /\ FlushIntervals \subseteq Nat

VARIABLE replay   \* the state of run_job_trace(), << >> before it

ReplayInit == replay = << >>

(* The recorded trace, as the times that were written. *)
Written(r, t) == (t \div r.grain) * r.grain
SubmitOf(r, j) == Written(r, job[j].submit)
BeginOf(r, j) == Written(r, batch[j])
DepartureOf(r, j) == Written(r, batch[j] + job[j].run)

(* The event order: at one time ENDs precede STARTs, then the job decides. *)
Earlier(e, f) ==
  \/ e.t < f.t
  \/ e.t = f.t /\ e.kind = "end" /\ f.kind = "start"
  \/ e.t = f.t /\ e.kind = f.kind /\ e.job < f.job

(* Mutant: a record that has not been enqueued may go. *)
Reclaimable_unqueued(r, j, t) ==
  /\ \A e \in r.events : e.t > t
  /\ DepartureOf(r, j) <= t

(* is_job_reclaimable() in replay mode. *)
Reclaimable(r, j, t) ==
  /\ j < r.next
  /\ \A e \in r.events : e.t > t
  /\ DepartureOf(r, j) <= t

(* maybe_flush_completed_jobs() after some departures: at the interval the *)
(* completed prefix of the records is written and reclaimed.               *)
MaybeFlushed(r, t, departures) ==
  LET interval == IF r.every = 0 THEN NumJobs ELSE r.every
      prefix   == {k \in r.reclaimed .. NumJobs :
                     \A j \in r.reclaimed + 1 .. k : Reclaimable(r, j, t)}
  IN  IF r.departures + departures < interval
      THEN [r EXCEPT !.departures = @ + departures]
      ELSE [r EXCEPT !.departures = 0, !.reclaimed = Max(prefix)]

(* process_events_until(t): the node counter is unsigned, and every event  *)
(* adds a resource sample.                                                 *)
Processed(r, t) ==
  LET due   == {e \in r.events : e.t <= t}
      order == [k \in 1 .. Cardinality(due) |->
                  CHOOSE e \in due : Cardinality({f \in due : Earlier(f, e)}) = k - 1]
      used[k \in 0 .. Cardinality(due)] ==
        IF k = 0 THEN r.nodes
        ELSE LET n == job[order[k].job].nodes
             IN  (used[k - 1] + (IF order[k].kind = "start" THEN n ELSE Word - n)) % Word
      ends  == Cardinality({e \in due : e.kind = "end"})
      after == [r EXCEPT !.events = @ \ due,
                         !.nodes = used[Cardinality(due)],
                         !.samples = @ \o [k \in 1 .. Cardinality(due) |->
                                             [t |-> order[k].t, nodes |-> used[k]]],
                         !.fault = @ \/ \E e \in due : e.job <= r.reclaimed]
  IN  IF ends = 0 THEN after ELSE MaybeFlushed(after, t, ends)

-----------------------------------------------------------------------------
(* run() up to run_job_trace(): what will have completed, and what will be *)
(* running, is counted from the records alone.                             *)
run_replay(grain, every, to) ==
  LET r    == [grain |-> grain]
      seen == {j \in Jobs : SubmitOf(r, j) <= to}
  IN  /\ BatchDone("replay") /\ \A j \in Jobs : start[j] < Infinity
      /\ replay' =
           [grain |-> grain, every |-> every, to |-> to, next |-> 1,
            events |-> {}, nodes |-> 0, samples |-> << [t |-> 0, nodes |-> 0] >>,
            busy |-> << >>, departures |-> 0, reclaimed |-> 0, fault |-> FALSE,
            completed |-> Cardinality({j \in seen : Written(r, start[j] + job[j].run) <= to}),
            running |-> {j \in seen : /\ Written(r, start[j]) <= to
                                      /\ Written(r, start[j] + job[j].run) > to},
            done |-> FALSE]
      /\ UNCHANGED vars

(* The next record: the events through its submission, then the nodes it   *)
(* finds busy, and its START and END.                                      *)
replay_job ==
  LET j     == replay.next
      after == Processed(replay, SubmitOf(replay, j))
  IN  /\ ~replay.done /\ j <= NumJobs /\ SubmitOf(replay, j) <= replay.to
      /\ replay' =
           [after EXCEPT
              !.busy = Append(@, after.nodes),
              !.events = @ \cup {[t |-> BeginOf(replay, j), kind |-> "start", job |-> j],
                                 [t |-> DepartureOf(replay, j), kind |-> "end", job |-> j]},
              !.next = j + 1,
              !.fault = @ \/ j <= after.reclaimed]

(* After the last record: all events at once, or, up to --max_time, one    *)
(* instant after another (run_until_inclusive()).                          *)
replay_rest ==
  LET due  == {e.t : e \in {f \in replay.events : f.t <= replay.to}}
      upto == IF replay.to = Drain THEN Drain ELSE Least(due)
  IN  /\ ~replay.done
      /\ replay.next <= NumJobs => SubmitOf(replay, replay.next) > replay.to
      /\ replay' = [IF due = {} THEN replay ELSE Processed(replay, upto)
                      EXCEPT !.done = (due = {} \/ replay.to = Drain)]

Replayed ==
  \/ \E grain \in Grains, every \in FlushIntervals, to \in Targets \cup {Drain} :
       run_replay(grain, every, to)
  \/ /\ rerun = "replay"
     /\ replay_job \/ replay_rest
     /\ UNCHANGED <<vars, batch, rerun>>

-----------------------------------------------------------------------------
(* A replay reproduces the recorded run (JOB_LIFECYCLE.md, "reproduces     *)
(* resource transitions from recorded start and end times"), whatever is   *)
(* reclaimed on the way: once an instant is over, the last sample of it is *)
(* the nodes of the jobs recorded as running; each job found the nodes     *)
(* busy that jobs before it held; no event meets a reclaimed record; and   *)
(* the counters computed in advance are what the events gave.  A sample in *)
(* the middle of an instant is a number of nodes that the machine has, but *)
(* for records that end where they begin: their END comes before their own *)
(* START, and the unsigned counter wraps by at most their nodes.  There    *)
(* the code does not "reject underflow", as JOB_LIFECYCLE.md asks for.     *)
ReplayExact ==
  replay # << >> /\ replay.done =>
    LET r       == replay
        seen    == 1 .. r.next - 1
        held(J, t) == NodesOf({j \in J : BeginOf(r, j) <= t /\ t < DepartureOf(r, j)})
        empty(t) == NodesOf({j \in seen : BeginOf(r, j) = t /\ DepartureOf(r, j) = t})
        last(k) == k = Len(r.samples) \/ r.samples[k + 1].t # r.samples[k].t
        open    == {e.job : e \in {f \in r.events : f.kind = "end"}}
        ahead   == {e.job : e \in {f \in r.events : f.kind = "start"}}
    IN  /\ ~r.fault
        /\ \A k \in 1 .. Len(r.samples) :
             /\ r.samples[k].nodes > TotalNodes =>
                  Word - r.samples[k].nodes <= empty(r.samples[k].t)
             /\ last(k) => r.samples[k].nodes = held(seen, r.samples[k].t)
        /\ Len(r.samples) + Cardinality(r.events) = 1 + 2 * Cardinality(seen)
        /\ \A j \in seen : r.busy[j] = held(1 .. j - 1, SubmitOf(r, j))
        /\ r.completed = Cardinality(seen \ open)
        /\ r.running = open \ ahead
=============================================================================
