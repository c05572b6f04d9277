------------------------------- MODULE Remote -------------------------------
(***************************************************************************)
(* Simulations that other processes drive: the MPI dispatcher and then the *)
(* gRPC dispatcher on the same arrivals, a client that writes any requests *)
(* to one session, the example client, or the MPI job feeder.              *)
(***************************************************************************)
EXTENDS GrpcDispatch, ExampleClient, Feeder

CONSTANTS
  NumRequests,   \* bound: requests the client writes
  Pipelined,     \* bound: requests written and not answered
  Inits,         \* the InitRequests it may send
  Batches,       \* the job batches it may append
  Targets        \* the times it may advance to

VARIABLES
  scenario,   \* "dispatch", "client", "example" or "feed"
  sent        \* requests the client has written

drivers == <<dispatch, grpc, client, feeding>>
vars == <<drivers, sessions, scenario, sent>>

RemoteInit ==
  /\ DispatchInit /\ SessionsInit /\ GrpcInit /\ ClientInit
  /\ scenario \in {"dispatch", "client", "example", "feed"} /\ sent = 0
  /\ scenario # "dispatch" => policy = CHOOSE p \in Policies : TRUE
  /\ IF scenario = "feed" THEN FeederInit ELSE fed = << >> /\ feeder = << >>

(* The requests that change or finish the session's simulation. *)
ClientRequests ==
  {[type |-> "init"] @@ r : r \in Inits}
    \cup {[type |-> "append_jobs", jobs |-> b] : b \in Batches}
    \cup {[type |-> "append_job", jobs |-> <<b[1]>>] : b \in Batches}
    \cup {[type |-> "advance_to", target |-> t] : t \in Targets}
    \cup {[type |-> "get_statistics"], [type |-> "finish_simulation"]}

ClientWrites ==
  /\ scenario = "client" /\ sent < NumRequests /\ Len(inbox[1]) + Len(outbox[1]) < Pipelined
  /\ \E r \in ClientRequests : Written(1, r @@ [request_id |-> sent + 1])
  /\ sent' = sent + 1
  /\ UNCHANGED <<drivers, scenario, session, outbox, sequence, redis, reports>>

ClientReads ==
  /\ scenario = "client" /\ outbox[1] # << >>
  /\ outbox' = [outbox EXCEPT ![1] = Tail(@)]
  /\ UNCHANGED <<drivers, scenario, sent, session, inbox, sequence, redis, reports>>

Over ==
  /\ CASE scenario = "client" -> sent = NumRequests /\ inbox[1] = << >> /\ outbox[1] = << >>
       [] scenario = "dispatch" -> call.step \in {"closed", "raised"} \/ stage = "aborted"
       [] scenario = "example" -> ClientOver
       [] scenario = "feed" -> FeederOver
  /\ UNCHANGED vars

RemoteNext ==
  \/ scenario = "dispatch" /\ Dispatch
     /\ UNCHANGED <<sessions, grpc, client, feeding, scenario, sent>>
  \/ scenario = "dispatch" /\ Experiment
     /\ UNCHANGED <<dispatch, client, feeding, scenario, sent>>
  \/ \E k \in Streams : Session(k) /\ UNCHANGED <<drivers, scenario, sent>>
  \/ scenario = "example" /\ ClientNext(Targets)
     /\ UNCHANGED <<dispatch, grpc, feeding, scenario, sent>>
  \/ scenario = "feed" /\ FeederNext
     /\ UNCHANGED <<dispatch, sessions, grpc, client, scenario, sent>>
  \/ ClientWrites \/ ClientReads \/ Over

RemoteSpec == RemoteInit /\ [][RemoteNext]_vars

-----------------------------------------------------------------------------
(* The instance that TLC checks: two systems, of two nodes and, with GPUs, *)
(* of three; an instant is half a second.                                  *)
MCCapacity == <<2, 3>>
MCShapes == {<<1, 4, 4>>, <<4, 6, 6>>}

(* truth and predicted performance of a mode. *)
Mode(truth, predicted) == [truth |-> truth, predicted |-> predicted]
Sample(requirement, cpu, gpu) ==
  [requirement |-> requirement,
   performance |-> [k \in 1 .. 2 |-> [cpu |-> cpu[k], gpu |-> gpu[k]]]]

(* A portable workload with a tie on the second system, where the CPU      *)
(* prediction is too high; a GPU workload without a prediction.            *)
MCWorkloads ==
  {Sample("portable", <<Mode(2, 1), Mode(1, 2)>>, <<Mode(2, 2), Mode(2, 2)>>),
   Sample("gpu_only", <<NoMode, NoMode>>, <<NoMode, Mode(1, 0)>>)}

MCPolicies ==
  {<<"turnaround", "adapted">>, <<"RelPerfOnly", "actual">>, <<"WaitTimeOnly", "adapted">>}

(* The requests of the client. *)
MCInit(capacity, overflow, flush) ==
  [safe_name |-> TRUE, total_nodes |-> 2, job_flush_interval |-> flush,
   redis |-> FALSE, wait_queue_capacity |-> capacity, wait_queue_overflow |-> overflow]
MCInits == {MCInit(1, "abort", 0), MCInit(0, "", 0), MCInit(0, "bad", 1)}
MCFlushing == {MCInit(0, "", 1)}

Job(submit, nodes) == [submit |-> submit, nodes |-> nodes, limit |-> 2, run |-> 1]
MCBatches == {<<Job(0, 2), Job(1, 1)>>, <<Job(1, 3)>>}

(* The files of the example client. *)
MCFiles ==
  {<<[Job(0, 1) EXCEPT !.limit = 4, !.run = 4], Job(0, 1), Job(0, 2)>>,
   <<Job(0, 1), Job(0, 3), [Job(1, 1) EXCEPT !.limit = 4, !.run = 3]>>}

(* The records of the feeder's trace; three nodes are too many. *)
Record(submit, nodes, limit) ==
  [submit |-> submit, nodes |-> nodes, limit |-> limit, run |-> limit]
MCFedJobs ==
  {Record(t, 1, 4) : t \in {0, 1}} \cup {Record(t, 2, 2) : t \in {0, 1, 2}}
    \cup {Record(1, 1, 1), Record(1, 3, 1)}
=============================================================================
