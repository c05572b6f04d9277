--------------------------- MODULE PriorityQueue ---------------------------
(***************************************************************************)
(* The shortest-job-first scheduler (src/src/sim/scheduler_sjf_easy.cpp)   *)
(* and the longest-job-first one (scheduler_ljf_easy.cpp), whose code      *)
(* differs in nothing but the order of the map:                            *)
(* the job submitted first is the head and holds the reservation; jobs are *)
(* backfilled in order of their limits.  As a record:                      *)
(*   entries   m_wait_queue, a multimap from limits to jobs, in its order  *)
(*   eligible  m_eligible_jobs                                             *)
(*   tracked   m_current_tracked_time                                      *)
(* LongestFirst reverses the order of the map.                             *)
(***************************************************************************)
EXTENDS SchedulerPlan, SequencesExt

CONSTANTS Backfill, BackfillDepth, LongestFirst, Infinity

new == [entries |-> << >>, eligible |-> {}, tracked |-> 0]

(* The map orders limits; equal ones stay in order of insertion. *)
NotAfter(a, b) == IF LongestFirst THEN a.limit >= b.limit ELSE a.limit <= b.limit

insert_job(q, e) ==
  LET before == Cardinality({i \in DOMAIN q.entries : NotAfter(q.entries[i], e)})
  IN  [q EXCEPT !.entries = InsertAt(@, before + 1, e),
                !.eligible = IF e.submit <= q.tracked THEN @ \cup {e.job} ELSE @]

update_eligible_jobs(q, t) ==
  IF t <= q.tracked THEN q
  ELSE [q EXCEPT !.tracked = t,
                 !.eligible = @ \cup {e.job : e \in {x \in ToSet(q.entries) :
                                        q.tracked < x.submit /\ x.submit <= t}}]

active_job_count(q) == Cardinality(q.eligible)

get_next_arrival_time(q) ==
  Min({Infinity} \cup {e.submit : e \in {x \in ToSet(q.entries) : x.submit > q.tracked}})

pending_job_ids(q) == [i \in DOMAIN q.entries |-> q.entries[i].job]

Eligible(q) == {i \in DOMAIN q.entries : q.entries[i].job \in q.eligible}

(* The first entry of the map with the earliest submit time. *)
find_fcfs_head(q) ==
  LET earliest == Min({q.entries[i].submit : i \in Eligible(q)})
  IN  Min({i \in Eligible(q) : q.entries[i].submit = earliest})

(* The queue without the entries in S. *)
Erase(q, S) ==
  [q EXCEPT !.entries = SelectSeq(@, LAMBDA e : e \notin S),
            !.eligible = @ \ {e.job : e \in S}]

(* The scan in the order of the map, past the head at h whose reservation  *)
(* is r.                                                                   *)
backfill(q, h, r, plan, free, t) ==
  LET planned == reservation_within_horizon(r, t)
      reserve(p, e, u) == IF planned THEN ReserveFor(p, e, u) ELSE p
      scan[i \in 0 .. Len(q.entries)] ==
        IF i = 0
        THEN [left |-> free, started |-> {}, examined |-> IF planned THEN 1 ELSE 0,
              plan |-> reserve(plan, q.entries[h], r)]
        ELSE LET a == scan[i - 1]
                 e == q.entries[i]
                 b == [a EXCEPT !.examined = @ + 1]
             IN  IF \/ i = h \/ i \notin Eligible(q) \/ a.left = 0
                    \/ BackfillDepth # 0 /\ a.examined >= BackfillDepth
                 THEN a
                 ELSE IF /\ Backfill /\ e.nodes <= a.left
                         /\ planned => Fits(a.plan, e.nodes, e.limit, t)
                 THEN [b EXCEPT !.left = @ - e.nodes, !.started = @ \cup {e},
                                !.plan = reserve(@, e, t)]
                 ELSE b
  IN  scan[Len(q.entries)].started

schedule(q0, t, free, run) ==
  LET q    == update_eligible_jobs(q0, t)
      h    == find_fcfs_head(q)
      plan == reservation_timeline(free, run, t)
      r    == calculate_fcfs_reservation(plan, q.entries[h], t)
      starts(S, planned) == [queue |-> Erase(q, S), started |-> S, planned |-> planned]
  IN  CASE q.eligible = {} -> starts({}, << >>)
        [] q.eligible # {} /\ q.entries[h].nodes <= free -> starts({q.entries[h]}, << >>)
        [] OTHER ->
           IF r = NoFit THEN starts({}, << >>)
           ELSE starts(backfill(q, h, r, plan, free, t),
                       IF reservation_within_horizon(r, t)
                       THEN q.entries[h].job :> r ELSE << >>)
=============================================================================
