--------------------------- MODULE MultimapQueue ---------------------------
(***************************************************************************)
(* The ordered-map wait queue (src/src/sim/                                *)
(* scheduler_fcfs_easy_multimap.cpp) as a record:                          *)
(*   jobs       m_wait_queue, in the order of the map                      *)
(*   eligible   m_eligible_jobs, a set of job numbers                      *)
(*   tracked    m_current_tracked_time                                     *)
(* A call starts one head, or backfills behind a blocked one.              *)
(***************************************************************************)
EXTENDS Integers, Sequences, FiniteSets, SequencesExt, FiniteSetsExt

CONSTANTS Backfill, BackfillDepth, Infinity

new == [jobs |-> << >>, eligible |-> {}, tracked |-> 0]

(* A job follows the jobs with the same submit time. *)
insert_job(q, e) ==
  [q EXCEPT !.jobs = SelectSeq(@, LAMBDA x : x.submit <= e.submit) \o <<e>>
                       \o SelectSeq(@, LAMBDA x : x.submit > e.submit),
            !.eligible = IF e.submit <= q.tracked THEN @ \cup {e.job} ELSE @]

update_eligible_jobs(q, t) ==
  IF t <= q.tracked THEN q
  ELSE [q EXCEPT !.tracked = t,
                 !.eligible = @ \cup {e.job : e \in {x \in ToSet(q.jobs) :
                                        x.submit <= t /\ x.submit > q.tracked}}]

active_job_count(q) == Cardinality(q.eligible)

get_next_arrival_time(q) ==
  LET later == {e.submit : e \in {x \in ToSet(q.jobs) : x.submit > q.tracked}}
  IN  IF later = {} THEN Infinity ELSE Min(later)

pending_job_ids(q) == [i \in DOMAIN q.jobs |-> q.jobs[i].job]

(* The first eligible job; the end of the map when there is none. *)
find_fcfs_head(q) ==
  Min({Len(q.jobs) + 1} \cup {i \in DOMAIN q.jobs : q.jobs[i].job \in q.eligible})

erase(q, id) ==
  [q EXCEPT !.jobs = SelectSeq(@, LAMBDA e : e.job # id), !.eligible = @ \ {id}]

(* The scan over the map, skipping the head; every eligible job visited    *)
(* counts against the depth.                                               *)
backfill(q, free, accepted, planned) ==
  LET h == find_fcfs_head(q)
      scan[i \in 0 .. Len(q.jobs)] ==
        IF i = 0
        THEN [queue |-> q, left |-> free, started |-> FALSE,
              examined |-> IF planned THEN 1 ELSE 0]
        ELSE LET last == scan[i - 1]
                 e    == q.jobs[i]
                 look == [last EXCEPT !.examined = @ + 1]
             IN  IF i = h \/ e.job \notin q.eligible \/ last.left = 0 THEN last
                 ELSE IF BackfillDepth # 0 /\ last.examined >= BackfillDepth THEN last
                 ELSE IF Backfill /\ e.nodes <= last.left /\ e.job \in accepted
                 THEN [look EXCEPT !.queue = erase(@, e.job), !.left = @ - e.nodes,
                                   !.started = TRUE]
                 ELSE look
  IN  scan[Len(q.jobs)]

(* One call of schedule(). *)
schedule(q, t, free, accepted, planned) ==
  LET u == update_eligible_jobs(q, t)
      h == find_fcfs_head(u)
  IN  IF h > Len(u.jobs) THEN [queue |-> u, left |-> free, started |-> FALSE]
      ELSE IF u.jobs[h].nodes <= free
      THEN [queue |-> erase(u, u.jobs[h].job), left |-> free - u.jobs[h].nodes,
            started |-> TRUE]
      ELSE backfill(u, free, accepted, planned)
=============================================================================
