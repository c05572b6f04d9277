------------------------------- MODULE Oracle -------------------------------
(***************************************************************************)
(* The reference scheduler that the tests compare the simulator with       *)
(* (src/scripts/python_reference_scheduler.py), run on the workload of the *)
(* batch run: one heap of SUBMIT, END and RELEASE events, a list as wait   *)
(* queue, a plan of whole limits without a planning grid.  It knows no     *)
(* capacity schedule and turns no job away.                                *)
(***************************************************************************)
EXTENDS Streaming

VARIABLES
  events,      \* self.events
  wait_queue,  \* self.wait_queue
  held,        \* self.running: the pessimistic end of each job
  cleaning,    \* self.releasing: jobs that ended and hold their nodes
  rstart       \* job.start_time, for the jobs that have one

oracle == <<events, wait_queue, held, cleaning, rstart>>

OracleInit ==
  /\ events = {} /\ wait_queue = << >> /\ held = << >> /\ cleaning = {}
  /\ rstart = << >>

(* A pass works on a record of these fields, with the current time. *)
get_free_nodes(p) == TotalNodes - NodesOf(DOMAIN p.held) - NodesOf(p.cleaning)

(* reservation_timeline(): jobs past their pessimistic end are left out. *)
PlannedNodes(p) ==
  LET live == {j \in DOMAIN p.held : p.t < p.held[j]}
  IN  Table([u \in Time |-> get_free_nodes(p) + NodesOf({j \in live : p.held[j] <= u})])

(* calculate_reservation_time() of the blocked head.  A job past its       *)
(* pessimistic end counts here, with that end.                             *)
calculate_reservation_time(p) ==
  LET freed(u) == get_free_nodes(p) + NodesOf({j \in DOMAIN p.held : p.held[j] <= u})
      when     == {p.held[j] : j \in DOMAIN p.held}
      enough   == {u \in when : freed(u) >= job[p.queue[1]].nodes}
  IN  IF enough = {} THEN NoFit ELSE Min(enough)

start_job(p, j) ==
  [p EXCEPT !.held = @ @@ (j :> p.t + job[j].limit), !.started = @ \cup {j}]

(* Step 1 of try_start_jobs(): heads while they fit. *)
HeadsStarted(p) ==
  LET turn[i \in 0 .. Len(p.queue)] ==
        IF i = 0 THEN p
        ELSE LET a == turn[i - 1]
             IN  IF a.queue = << >> \/ job[a.queue[1]].nodes > get_free_nodes(a) THEN a
                 ELSE [start_job(a, a.queue[1]) EXCEPT !.queue = Tail(@)]
  IN  turn[Len(p.queue)]

(* Steps 2 and 3: the reservation and the scan behind the head. *)
Behind(p, r) ==
  LET planned == r # NoFit /\ r - p.t <= PlanningHorizon
      taken(plan, t, j) ==
        IF planned THEN Table(Reserved(plan, t, job[j].nodes, job[j].limit)) ELSE plan
      visits  == IF BackfillDepth = 0 THEN Len(p.queue) - 1
                 ELSE BackfillDepth - (IF planned THEN 1 ELSE 0)
      accepts(a, i, j) ==
        /\ i <= 1 + visits
        /\ job[j].nodes <= get_free_nodes(a.p)
        /\ r # NoFit
        /\ planned => Fits(a.plan, job[j].nodes, job[j].limit, p.t)
      scan[i \in 1 .. Len(p.queue)] ==
        IF i = 1 THEN [p |-> p, plan |-> taken(PlannedNodes(p), r, p.queue[1]),
                       left |-> <<p.queue[1]>>]
        ELSE LET a == scan[i - 1]
                 j == p.queue[i]
             IN  IF accepts(a, i, j)
                 THEN [p |-> start_job(a.p, j), plan |-> taken(a.plan, p.t, j), left |-> a.left]
                 ELSE [a EXCEPT !.left = Append(@, j)]
      after(last) == [last.p EXCEPT !.queue = last.left]
  IN  after(scan[Len(p.queue)])

HeadBlocked(p) == Behind(p, calculate_reservation_time(p))

(* try_start_jobs() until a call starts nothing. *)
try_start_jobs(p) ==
  LET after(heads) == IF heads.queue = << >> THEN heads ELSE HeadBlocked(heads)
      call[i \in 0 .. NumJobs] ==
        LET a == IF i = 0 THEN p ELSE call[i - 1]
        IN  IF i > 0 /\ a.started = {} THEN a
            ELSE after(HeadsStarted([a EXCEPT !.started = {}]))
  IN  call[NumJobs]

-----------------------------------------------------------------------------
(* simulate() up to its loop, once the batch run is over. *)
simulate ==
  /\ BatchDone("oracle") /\ changes = << >>
  /\ events' = {[time |-> job[j].submit, type |-> "SUBMIT", job |-> j] : j \in Jobs}
  /\ UNCHANGED <<vars, wait_queue, held, cleaning, rstart>>

(* One turn of the loop: every event of the earliest time, in the order    *)
(* END, RELEASE, SUBMIT, then the passes.  With a release delay an END     *)
(* alone is no decision point.                                             *)
EventLoop ==
  LET t       == Min({e.time : e \in events})
      of(type, from) == {e.job : e \in {f \in from : f.time = t /\ f.type = type}}
      delayed == ReleaseDelays # {}
      ended   == of("END", events)
      queued  == events \cup {[time |-> t + job[j].delay, type |-> "RELEASE", job |-> j] :
                                j \in {i \in ended : delayed}}
      arrived == SetToSortSeq(of("SUBMIT", events), <)
      after   == [t |-> t, queue |-> wait_queue \o arrived, started |-> {},
                  held |-> [j \in DOMAIN held \ ended |-> held[j]],
                  cleaning |-> (IF delayed THEN cleaning \cup ended ELSE {})
                                 \ of("RELEASE", queued)]
      needed  == \/ arrived # << >> \/ of("RELEASE", queued) # {}
                 \/ ended # {} /\ ~delayed
  IN  /\ rerun = "oracle" /\ events # {}
      /\ \E p \in {IF needed THEN try_start_jobs(after) ELSE after} :
           LET S == DOMAIN p.held \ DOMAIN after.held
           IN  /\ wait_queue' = p.queue /\ held' = p.held /\ cleaning' = p.cleaning
               /\ events' = {e \in queued : e.time # t} \cup
                            {[time |-> t + job[j].run, type |-> "END", job |-> j] : j \in S}
               /\ rstart' = rstart @@ [j \in S |-> t]
      /\ UNCHANGED <<vars, batch, rerun>>

(* The simulator and the reference give every job the same start           *)
(* (scripts/python_reference_scheduler.py, "This is the REFERENCE          *)
(* implementation for verifying DR_EVT"), on a machine of constant size.   *)
OracleAgrees ==
  rerun = "oracle" /\ events = {} =>
    \A j \in Jobs : batch[j] = IF j \in DOMAIN rstart THEN rstart[j] ELSE Infinity
=============================================================================
