--------------------------- MODULE ExampleClient ---------------------------
(***************************************************************************)
(* The example client (src/src/proto/dr_evt_client.cpp): it appends a file *)
(* of jobs to a session of its own, advances, and reports the status of    *)
(* every job, looking first in Redis and then asking the server for the    *)
(* jobs that are not there.  Clients run one after the other and may share *)
(* a Redis key prefix.                                                     *)
(***************************************************************************)
EXTENDS Sessions

CONSTANTS
  JobFiles,     \* the job data files
  ClientRuns,   \* bound: clients run
  ClientNodes   \* init->set_total_nodes()

VARIABLE client   \* the locals of main()

(* What parse_options() lets through: Redis needs a query. *)
ClientOptions ==
  {o \in [redis : BOOLEAN, query : BOOLEAN] : o.redis => o.query}

NoClient == [step |-> "exited", waiting |-> FALSE, runs |-> 0]
ClientInit == client = NoClient

(* main() starts: the file is read, the stream opened. *)
StartClient(targets) ==
  /\ client.step = "exited" /\ client.runs < ClientRuns
  /\ \E o \in ClientOptions, jobs \in JobFiles, t \in targets :
       /\ o.query \/ t = Min(targets)
       /\ client' = [step |-> "init", waiting |-> FALSE, runs |-> client.runs + 1,
                     options |-> o, jobs |-> jobs, target |-> t, request_id |-> 1,
                     ids |-> << >>, finalized |-> << >>, printed |-> << >>]
  /\ session' = [session EXCEPT ![1] = NewSession]
  /\ UNCHANGED <<inbox, outbox, sequence, redis, reports>>

Missing == SelectSeq(client.ids, LAMBDA j : j \notin DOMAIN client.finalized)

Request ==
  CASE client.step = "init" ->
         [type |-> "init", safe_name |-> TRUE, total_nodes |-> ClientNodes,
          redis |-> client.options.redis,
          job_flush_interval |-> IF client.options.redis THEN 1 ELSE 0,
          wait_queue_capacity |-> 0, wait_queue_overflow |-> ""]
    [] client.step = "append" -> [type |-> "append_jobs", jobs |-> client.jobs]
    [] client.step = "advance" -> [type |-> "advance_to", target |-> client.target]
    [] client.step = "status" -> [type |-> "get_job_statuses", jobs |-> Missing]
    [] client.step = "finish" -> [type |-> "finish_simulation"]

(* SimulationClient::call(): write one request, wait for its answer. *)
CallServer ==
  /\ client.step \in {"init", "append", "advance", "status", "finish"} /\ ~client.waiting
  /\ Written(1, Request @@ [request_id |-> client.request_id])
  /\ client' = [client EXCEPT !.waiting = TRUE, !.request_id = @ + 1]
  /\ UNCHANGED <<session, outbox, sequence, redis, reports>>

(* get_finalized_jobs(): the hashes of the appended jobs, in one pipeline; *)
(* the server is asked only about the others, if there are any.            *)
Lookup ==
  /\ client.step = "lookup"
  /\ LET found == IF client.options.redis
                  THEN Table([j \in ToSet(client.ids) \cap DOMAIN redis.times |->
                                redis.times[j]])
                  ELSE << >>
     IN  client' = [client EXCEPT
           !.finalized = found,
           !.step = IF ToSet(client.ids) \subseteq DOMAIN found THEN "print" ELSE "status"]
  /\ UNCHANGED sessions

(* The records found and the server's answers, merged in the order of the  *)
(* identifiers: live_index counts the jobs that were not found.            *)
Printed(live) ==
  LET live_index(i) ==
        Cardinality({k \in 1 .. i : client.ids[k] \notin DOMAIN client.finalized})
  IN  [i \in DOMAIN client.ids |->
         IF client.ids[i] \in DOMAIN client.finalized
         THEN [job |-> client.ids[i], state |-> "completed",
               times |-> client.finalized[client.ids[i]]]
         ELSE live[live_index(i)]]

PrintFinalized ==
  /\ client.step = "print"
  /\ client' = [client EXCEPT !.printed = Printed(<< >>), !.step = "finish"]
  /\ UNCHANGED sessions

(* The answer; an error ends main(). *)
TakeAnswer ==
  /\ client.waiting /\ outbox[1] # << >>
  /\ outbox' = [outbox EXCEPT ![1] = Tail(@)]
  /\ client' =
       IF ~Head(outbox[1]).ok \/ Head(outbox[1]).request_id # client.request_id - 1
       THEN [client EXCEPT !.step = "exited", !.waiting = FALSE]
       ELSE LET result == Head(outbox[1]).result
                answered == [client EXCEPT !.waiting = FALSE]
            IN  CASE client.step = "init" -> [answered EXCEPT !.step = "append"]
                  [] client.step = "append" ->
                       [answered EXCEPT !.ids = SetToSortSeq(result, <),
                                        !.step = IF client.options.query THEN "advance"
                                                 ELSE "finish"]
                  [] client.step = "advance" -> [answered EXCEPT !.step = "lookup"]
                  [] client.step = "status" ->
                       [answered EXCEPT !.printed = Printed(result), !.step = "finish"]
                  [] client.step = "finish" -> [answered EXCEPT !.step = "exited"]
  /\ UNCHANGED <<session, inbox, sequence, redis, reports>>

ClientNext(targets) ==
  StartClient(targets) \/ CallServer \/ Lookup \/ PrintFinalized \/ TakeAnswer

ClientOver == client.step = "exited" /\ client.runs = ClientRuns

-----------------------------------------------------------------------------
(* What is true of a job of the session, from its schedule. *)
StatusIn(s, j) ==
  IF s.jobs[j].nodes > s.params.nodes
  THEN [job |-> j, state |-> "rejected", times |-> << >>]
  ELSE IF j \in Completed(s)
  THEN [job |-> j, state |-> "completed", times |-> <<s.begin[j], EndOf(s, j)>>]
  ELSE IF j \in Running(s)
  THEN [job |-> j, state |-> "running", times |-> <<s.begin[j], EndOf(s, j)>>]
  ELSE [job |-> j, state |-> "pending", times |-> << >>]

(* Each appended job is reported once, in order, with the state and times  *)
(* it has in this client's simulation, although the report is put together *)
(* from two stores, one of which holds what an earlier client left there   *)
(* and receives jobs only in the order of their numbers                    *)
(* (docs/user-guide/redis-output.md, "A hash found in Redis is the         *)
(* authoritative finalized record").                                       *)
StatusesTrue ==
  client.step = "finish" /\ ~client.waiting /\ client.options.query =>
    client.printed = [i \in DOMAIN client.jobs |-> StatusIn(session[1].sim, i)]
=============================================================================
