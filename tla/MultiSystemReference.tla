------------------------ MODULE MultiSystemReference ------------------------
(***************************************************************************)
(* The independent reference of the multi-system scheduler                 *)
(* (src/experimental/multi-cluster-bf/python_multi_system_reference.py),   *)
(* run on the same trace once the simulation is done: a heap of SUBMIT and *)
(* END events, one scheduling pass per instant, a plain list as queue.     *)
(***************************************************************************)
EXTENDS MultiSystem

VARIABLES
  heap,       \* self.events: [time, type, job]
  waiting,    \* self.wait_queue
  held,       \* self.running: the system and the pessimistic end of each job
  rstart      \* job.start_time and job.system, << >> before the start

reference == <<heap, waiting, held, rstart>>

(* A pass works on the waiting list, held and the starts it makes at t. *)
InUse(p, k) == NodesOf({j \in DOMAIN p.held : p.held[j].system = k})
FreeOn(p, k) == Capacity[k] - InUse(p, k)
FitsOn(p, n) == {k \in Systems : n <= FreeOn(p, k)}

(* choose_system() takes the first of the best. *)
chosen(p, n, candidates) ==
  LET left(k) == FreeOn(p, k) - n
      better(i, k) == CASE policy.placement = "first_fit" -> FALSE
                        [] policy.placement = "best_fit"  -> left(i) < left(k)
                        [] policy.placement = "worst_fit" -> left(i) > left(k)
  IN  CHOOSE k \in candidates :
        \A i \in candidates : ~better(i, k) /\ (i < k => better(k, i))

start_job(p, j, k) ==
  [p EXCEPT !.held = @ @@ (j :> [system |-> k, end |-> p.t + job[j].limit]),
            !.started = Append(@, <<j, k>>)]

(* reservation_plan() over releases_by_system(). *)
reservation_plan(p, k) ==
  LET ending == {j \in DOMAIN p.held : p.held[j].system = k /\ p.t < p.held[j].end}
      idle   == FreeOn(p, k)
  IN  [u \in Time |-> idle + NodesOf({j \in ending : p.held[j].end <= u})] @@ << >>

(* Step 1. *)
HeadsOf(p) ==
  LET turn[i \in 0 .. Len(p.waiting)] ==
        IF i = 0 THEN p
        ELSE LET a == turn[i - 1]
             IN  IF a.waiting = << >> \/ FitsOn(a, job[a.waiting[1]].nodes) = {} THEN a
                 ELSE LET j == a.waiting[1]
                      IN  [start_job(a, j, chosen(a, job[j].nodes, FitsOn(a, job[j].nodes)))
                             EXCEPT !.waiting = Tail(@)]
  IN  turn[Len(p.waiting)]

(* Step 2, with the head's projections. *)
ScanOf(p) ==
  LET head   == job[p.waiting[1]]
      when   == [k \in Systems |-> EarliestFit(reservation_plan(p, k), head.nodes, 0, p.t)]
      shadows == [k \in Systems |-> IF ~admissible(k, head.nodes) \/ when[k] = NoFit
                                    THEN Infinity ELSE when[k]] @@ << >>
      tStar  == Min({shadows[k] : k \in Systems})
      kStar  == Min({k \in Systems : shadows[k] = tStar})
      window(k) ==
        CASE policy.spatial = "target_only"   -> IF k = kStar THEN tStar ELSE Infinity
          [] policy.spatial = "every_system"  -> shadows[k]
          [] policy.spatial = "global_shadow" ->
               IF shadows[k] < Infinity THEN tStar ELSE Infinity
      planned(k) ==
        LET plan == reservation_plan(p, k)
        IN  IF window(k) < Infinity /\ Fits(plan, head.nodes, head.limit, window(k))
            THEN Reserved(plan, window(k), head.nodes, head.limit) @@ << >> ELSE plan
      candidates(a, j) ==
        {k \in FitsOn(a.p, job[j].nodes) :
           window(k) = Infinity \/ Fits(a.plan[k], job[j].nodes, job[j].limit, p.t)}
      with(a, j, k) ==
        [p    |-> start_job(a.p, j, k),
         plan |-> [a.plan EXCEPT ![k] = Reserved(@, p.t, job[j].nodes, job[j].limit) @@ << >>],
         left |-> a.left]
      scan[i \in 1 .. Len(p.waiting)] ==
        IF i = 1 THEN [p |-> p, plan |-> [k \in Systems |-> planned(k)], left |-> <<p.waiting[1]>>]
        ELSE LET a == scan[i - 1]
                 j == p.waiting[i]
             IN  IF candidates(a, j) = {} THEN [a EXCEPT !.left = Append(@, j)]
                 ELSE with(a, j, chosen(a.p, job[j].nodes, candidates(a, j)))
      last == scan[Len(p.waiting)]
  IN  [last.p EXCEPT !.waiting = last.left]

try_start_jobs(p) ==
  LET heads == HeadsOf(p)
  IN  IF heads.waiting = << >> \/ policy.spatial = "none" THEN heads ELSE ScanOf(heads)

-----------------------------------------------------------------------------
ReferenceInit == heap = {} /\ waiting = << >> /\ held = << >> /\ rstart = << >>

(* simulate() up to its loop. *)
simulate ==
  /\ phase = "done" /\ phase' = "reference"
  /\ heap' = {[time |-> job[j].submit, type |-> "SUBMIT", job |-> j] :
                j \in {i \in Jobs : job[i].nodes <= max_capacity}}
  /\ UNCHANGED <<job, policy, now, scheduler, running, start, projection,
                 waiting, held, rstart>>

(* One turn of the loop: all events of the earliest time, then one pass.   *)
EventLoop ==
  LET t       == Min({e.time : e \in heap})
      at      == {e \in heap : e.time = t}
      ended   == {e.job : e \in {f \in at : f.type = "END"}}
      arrived == SetToSortSeq({e.job : e \in {f \in at : f.type = "SUBMIT"}}, <)
  IN  /\ phase = "reference" /\ heap # {}
      /\ \E p \in {try_start_jobs(
                     [t |-> t, waiting |-> waiting \o arrived, started |-> << >>,
                      held |-> [j \in DOMAIN held \ ended |-> held[j]]])} :
           /\ waiting' = p.waiting /\ held' = p.held
           /\ heap' = (heap \ at) \cup {[time |-> t + job[s[1]].run, type |-> "END",
                                         job |-> s[1]] : s \in ToSet(p.started)}
           /\ rstart' = rstart @@ [j \in {s[1] : s \in ToSet(p.started)} |->
                 <<t, (CHOOSE s \in ToSet(p.started) : s[1] = j)[2]>>]
      /\ UNCHANGED vars

(* The simulation first, then its reference. *)
BothInit == Init /\ ReferenceInit
BothNext == (Next /\ UNCHANGED reference) \/ simulate \/ EventLoop
BothSpec == BothInit /\ [][BothNext]_<<vars, reference>>

(* When both are through, every job has the start and the system that the  *)
(* reference gives it, or is turned away by both ("the test requires       *)
(* identical placements from the two implementations").                    *)
ReferenceAgrees ==
  phase = "reference" /\ heap = {} =>
    \A j \in Jobs :
      IF j \in DOMAIN rstart THEN rstart[j] = <<start[j], placement[j]>>
      ELSE start[j] = Infinity

-----------------------------------------------------------------------------
(* The instance that TLC checks: two systems and one too small for most    *)
(* jobs, jobs that fit none, and every window rule.                        *)
MCCapacity == <<2, 2, 1>>
MCShapes == {<<2, 2>>, <<4, 1>>}
Rule(spatial, where) == [spatial |-> spatial, placement |-> where]
MCPolicies ==
  {Rule("target_only", "best_fit"), Rule("every_system", "worst_fit"),
   Rule("global_shadow", "first_fit"), Rule("none", "best_fit")}
=============================================================================
