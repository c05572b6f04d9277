------------------------------ MODULE Sessions ------------------------------
(***************************************************************************)
(* The gRPC server (src/src/proto/dr_evt_server.cpp).  Every Session RPC   *)
(* is a stream of its own with a simulation of its own; its requests are   *)
(* handled one after the other, in the order they were written, and an     *)
(* exception is an error response.  A client may write requests before it  *)
(* has read the responses to earlier ones.                                 *)
(***************************************************************************)
EXTENDS OnlineSimulation

CONSTANT Streams   \* the open Session RPCs

VARIABLES
  session,   \* the locals of Session() on each stream
  inbox,     \* requests written and not yet read by the server
  outbox,    \* responses written and not yet read by the client
  sequence,  \* next_session_sequence
  redis,     \* the Redis namespace of the clients' key prefix
  reports    \* what each successful FinishSimulation left behind

sessions == <<session, inbox, outbox, sequence, redis, reports>>

(* Sim_Params(), of which an Init may leave parts as they are. *)
DefaultParams == Params(0, 0, "grow", 0)

NoSimulation == NewSimulation(DefaultParams)
(* clean: no failed Init since the stream was opened or reset.  acked: the *)
(* jobs whose append was answered.  failed: FinishSimulation calls that    *)
(* threw after they had written.                                           *)
NewSession ==
  [live |-> FALSE, sim |-> NoSimulation, params |-> DefaultParams, id |-> 0,
   request |-> << >>, clean |-> TRUE, acked |-> {}, failed |-> 0]

SessionsInit ==
  /\ session = [k \in Streams |-> NewSession]
  /\ inbox = [k \in Streams |-> << >>] /\ outbox = [k \in Streams |-> << >>]
  /\ sequence = 0 /\ redis = NoRows /\ reports = {}

(* left: the simulation as the request leaves it, even if the session      *)
(* gives it up.                                                            *)
Answer(s, result) == [session |-> s, ok |-> TRUE, result |-> result, left |-> s.sim]
Error(s) == [session |-> s, ok |-> FALSE, result |-> "error", left |-> s.sim]

-----------------------------------------------------------------------------
(* The fields of an InitRequest that reach Sim_Params, in the order they   *)
(* are read: 0 leaves the wait-queue capacity as it is, and an overflow    *)
(* policy that is not known throws after the fields before it are set.     *)
Assigned(p, r) ==
  [p EXCEPT !.nodes = r.total_nodes, !.flush = r.job_flush_interval, !.redis = r.redis,
            !.capacity = IF r.wait_queue_capacity # 0 THEN r.wait_queue_capacity ELSE @,
            !.overflow = CASE r.wait_queue_overflow = "" -> "grow"
                           [] r.wait_queue_overflow \in {"abort", "grow"} ->
                                r.wait_queue_overflow
                           [] OTHER -> @]

InitSession(s, r) ==
  LET p == Assigned(s.params, r)
  IN  IF s.live \/ ~r.safe_name THEN Error(s)
      ELSE IF r.wait_queue_overflow \notin {"", "abort", "grow"}
      THEN Error([s EXCEPT !.params = p, !.id = sequence, !.clean = FALSE])
      ELSE Answer([s EXCEPT !.live = TRUE,
                            !.sim = [NewSimulation(p) EXCEPT !.rows = IF r.redis THEN redis
                                                                      ELSE @],
                            !.params = p, !.id = sequence, !.request = r],
                  "ok")

(* A call of the simulation; what it did before it threw stays done. *)
Called(s, call) ==
  LET t == [s EXCEPT !.sim = call.sim]
  IN  IF call.result = Thrown THEN Error(t) ELSE Answer(t, "ok")

(* An append; the identifiers of its jobs are in the answer. *)
Appended(s, call) ==
  LET ids == DOMAIN call.sim.jobs \ DOMAIN s.sim.jobs
  IN  IF call.result = Thrown THEN Called(s, call)
      ELSE Answer([s EXCEPT !.sim = call.sim, !.acked = @ \cup ids], ids)

(* Mutant: the parameters of the finished simulation stay. *)
ResetKeepingParams(s) == [NewSession EXCEPT !.params = s.params]

Reset(s) == NewSession

(* FinishSimulation: drain, write the schedule, then the statistics file,  *)
(* which may not be writable; only then is the session reset.              *)
FinishSimulation(s, writable) ==
  LET finish(done) ==
        IF ~writable THEN Error([s EXCEPT !.sim = done, !.failed = @ + 1])
        ELSE [Answer(Reset(s), get_statistics(done)) EXCEPT !.left = done]
  IN  finish(write_simulated_trace(drain(s.sim).sim))

Report(s, done) ==
  [id |-> s.id, acked |-> s.acked, rejected |-> done.rejected,
   completed |-> Completed(done), rows |-> done.rows.ids, failed |-> s.failed,
   statistics |-> get_statistics(done), turnaround |-> Turnaround(done, Completed(done))]

(* The requests that only read the simulation. *)
Query(s, type) ==
  Answer(s, CASE type = "get_backfill_window" -> get_backfill_window(s.sim)
              [] type = "get_prediction_horizon" -> prediction_horizon(s.sim)
              [] type = "get_statistics" -> get_statistics(s.sim))

Statuses(s, ids) ==
  IF OutOfRange(s.sim, ids) THEN Error(s) ELSE Answer(s, get_job_statuses(s.sim, ids))

require_init(s, r) == r.type = "init" \/ s.live

(* The switch over the request. *)
Handled(s, r, writable) ==
  CASE r.type = "init" -> InitSession(s, r)
    [] ~require_init(s, r) -> Error(s)
    [] r.type = "append_job" /\ s.live -> Appended(s, append_job(s.sim, r.jobs[1]))
    [] r.type = "append_jobs" /\ s.live -> Appended(s, append_jobs(s.sim, r.jobs))
    [] r.type = "advance_to" /\ s.live -> Called(s, advance_to(s.sim, r.target))
    [] r.type \in {"get_backfill_window", "get_prediction_horizon", "get_statistics"}
         /\ s.live -> Query(s, r.type)
    [] r.type = "get_job_statuses" /\ s.live -> Statuses(s, r.jobs)
    [] r.type = "finish_simulation" /\ s.live -> FinishSimulation(s, writable)
    [] OTHER -> Error(s)   \* REQUEST_NOT_SET

-----------------------------------------------------------------------------
(* One turn of the loop of Session(): Read, handle, Write. *)
Session(k) ==
  /\ inbox[k] # << >>
  /\ \E writable \in IF Head(inbox[k]).type = "finish_simulation"
                     THEN BOOLEAN ELSE {TRUE} :
     \E answer \in {Handled(session[k], Head(inbox[k]), writable)} :
       /\ session' = [session EXCEPT ![k] = answer.session]
       /\ outbox' = [outbox EXCEPT ![k] =
            Append(@, [request_id |-> Head(inbox[k]).request_id,
                       ok |-> answer.ok, result |-> answer.result])]
       /\ reports' =
            IF /\ Head(inbox[k]).type = "finish_simulation"
               /\ session[k].live /\ answer.ok
            THEN reports \cup {Report(session[k], answer.left)} ELSE reports
       /\ redis' = IF session[k].live /\ session[k].sim.params.redis
                   THEN answer.left.rows ELSE redis
  /\ sequence' = IF Head(inbox[k]).type = "init" /\ ~session[k].live
                    /\ Head(inbox[k]).safe_name THEN sequence + 1 ELSE sequence
  /\ inbox' = [inbox EXCEPT ![k] = Tail(@)]

Written(k, r) == inbox' = [inbox EXCEPT ![k] = Append(@, r)]

(* A FinishSimulation that answers has run every job whose append was      *)
(* answered, unless the job asked for more nodes than the machine has, and *)
(* at its first attempt it leaves a row for every job that ran             *)
(* (docs/user-guide/grpc-setup.md, "The server drains all submitted work,  *)
(* writes the session's simulated trace").                                 *)
AcknowledgedReported ==
  \A r \in reports :
    /\ r.acked \subseteq r.completed \cup r.rejected
    /\ r.failed = 0 => r.rows = r.completed

(* A simulation that starts on a stream after a finished one has the       *)
(* parameters that its own Init asks for, and the defaults for the rest    *)
(* (docs/user-guide/grpc-setup.md, "Each InitRequest after a successful    *)
(* finish creates a new independent server-side Simulation").              *)
Independent ==
  \A k \in Streams :
    session[k].live /\ session[k].clean =>
      session[k].params = Assigned(DefaultParams, session[k].request)

(* Job reclamation does not change the statistics                          *)
(* (docs/dev/JOB_LIFECYCLE.md): the means of a report are over all the     *)
(* jobs it counts as completed.                                            *)
StatisticsUnchanged ==
  \A r \in reports :
    /\ r.statistics.averaged = r.statistics.completed
    /\ r.statistics.turnaround = r.turnaround
=============================================================================
