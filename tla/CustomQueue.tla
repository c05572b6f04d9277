---------------------------- MODULE CustomQueue ----------------------------
(***************************************************************************)
(* The scheduler whose backfill choice is the caller's (src/src/sim/       *)
(* scheduler_fcfs_easy_custom.cpp): the circular queue, and               *)
(*   newly       m_newly_eligible_begin_idx, here the eligible entries     *)
(*               before the new ones                                       *)
(*   reevaluate  m_reevaluate_all_candidates                               *)
(*   arrived     m_arrival_update_pending                                  *)
(*   prepare     m_candidate_preparation_pending                           *)
(*   area, areaTime, available   allocated node-time, the time it reaches, *)
(*               and m_accounted_available_nodes                           *)
(* A pass offers at most MaxCandidates jobs to the selector and starts at  *)
(* most the one it selects.                                                *)
(***************************************************************************)
EXTENDS SchedulerPlan, SequencesExt

CONSTANTS Backfill, BackfillDepth, MaxCandidates, TotalNodes, Infinity

LOCAL Circular == INSTANCE CircularQueue

new(capacity) ==
  Circular!new(capacity) @@
    [newly |-> 0, reevaluate |-> FALSE, arrived |-> FALSE, prepare |-> TRUE,
     area |-> 0, areaTime |-> 0, available |-> TotalNodes]

advance_resource_accounting_to(q, t) ==
  [q EXCEPT !.area = @ + (TotalNodes - q.available) * (t - q.areaTime), !.areaTime = t]

commit_available_nodes(q, available) == [q EXCEPT !.available = available]

resource_area_through(q, t) ==
  q.area + IF t > q.areaTime THEN (TotalNodes - q.available) * (t - q.areaTime) ELSE 0

(* Mutant: a completion does not ask for a full scan. *)
notify_resource_change_prepares(q) == [q EXCEPT !.prepare = TRUE]

notify_resource_change(q) == [q EXCEPT !.reevaluate = TRUE, !.prepare = TRUE]

insert_job_with_cost(q, e) ==
  LET r == Circular!insert_job(q, e)
  IN  IF e.submit <= q.tracked
      THEN [r EXCEPT !.newly = Min({@, q.eligible}), !.arrived = TRUE, !.prepare = TRUE]
      ELSE r

sync_to(q, t) ==
  LET r == Circular!sync_to(q, t)
      more == r.eligible # q.eligible
  IN  IF t <= q.tracked THEN q
      ELSE [r EXCEPT !.newly = q.eligible, !.arrived = @ \/ more, !.prepare = @ \/ more]

active_job_count(q) == Circular!active_job_count(q)
get_next_arrival_time(q) == Circular!get_next_arrival_time(q)
pending_job_ids(q) == Circular!pending_job_ids(q)

(* Compaction moves both indices. *)
compact_if_needed(q) ==
  IF q.removed = 0 \/ q.removed * 2 <= Len(q.entries) THEN q
  ELSE [Circular!compact(q) EXCEPT
          !.newly = Cardinality(Circular!Live(q.entries, 1, @))]

complete_candidate_scan(q) ==
  [q EXCEPT !.newly = q.eligible, !.reevaluate = FALSE, !.prepare = FALSE]

pop_heads(q, free) ==
  LET p     == Circular!pop_heads(q, free)
      count == Len(q.entries) - Len(p.queue.entries)
  IN  [queue |-> [p.queue EXCEPT !.newly = Max({0, @ - count})], left |-> p.left,
       started |-> {q.entries[i] : i \in Circular!Live(q.entries, 1, count)}]

(* The plan with the head's reservation r in it. *)
HeadPlan(q, left, run, r, t) ==
  LET plan == reservation_timeline(left, run, t)
  IN  IF reservation_within_horizon(r, t) THEN ReserveFor(plan, q.entries[1], r) ELSE plan

(* The positions from begin on that fit and leave the head's reservation   *)
(* as it is, the first MaxCandidates of them.                              *)
find_backfill_candidates_from(q, begin, left, run, r, t) ==
  LET planned  == reservation_within_horizon(r, t)
      plan     == HeadPlan(q, left, run, r, t)
      end      == Circular!queue_depth_scan_end(q.entries, 2, q.eligible, planned)
      feasible == {i \in Circular!Live(q.entries, Max({2, begin}), end) :
                     /\ q.entries[i].nodes <= left
                     /\ planned => Fits(plan, q.entries[i].nodes, q.entries[i].limit, t)}
  IN  {i \in feasible : Cardinality({k \in feasible : k < i}) < MaxCandidates}

(* What the first pass after an arrival tells on_jobs_became_eligible(). *)
Announced(q) ==
  IF q.arrived THEN {q.entries[i].job : i \in q.newly + 1 .. q.eligible} ELSE {}

(* The caller's selector: the cheapest entry offered, where the cost that  *)
(* was computed at insertion is the limit.                                 *)
select_backfill_candidate(offered) ==
  LET cheapest == {e \in offered : \A x \in offered : e.limit <= x.limit}
  IN  {CHOOSE e \in cheapest : \A x \in cheapest : e.job <= x.job}

(* One call, in which the selector may decline.  A pass that selects       *)
(* nothing completes the scan.                                             *)
schedule(q0, t, free, run, declines) ==
  LET synced == compact_if_needed(sync_to(q0, t))
      ends(q, S, plan, seen) ==
        [queue |-> q, started |-> S, planned |-> plan, told |-> Announced(synced),
         declined |-> IF declines THEN {e.job : e \in seen} ELSE {}]
      promised(q, r) == IF reservation_within_horizon(r, t)
                        THEN q.entries[1].job :> r ELSE << >>
      select(p, plan, found) ==
        LET offered == {p.queue.entries[i] : i \in found}
            pick    == select_backfill_candidate(offered)
            at      == CHOOSE i \in found : p.queue.entries[i] \in pick
        IN  IF found = {} \/ declines
            THEN ends(complete_candidate_scan(p.queue), p.started, plan, offered)
            ELSE ends([p.queue EXCEPT !.prepare = FALSE, !.removed = @ + 1,
                                      !.entries[at].removed = TRUE],
                      p.started \cup pick, plan, {})
      begin(q) == IF q.reevaluate \/ BackfillDepth # 0 THEN 2 ELSE q.newly + 1
      offer(p, after, r) ==
        select(p, promised(p.queue, r),
               find_backfill_candidates_from(p.queue, begin(p.queue), p.left, after, r, t))
      plan(p, after) ==
        offer(p, after, calculate_fcfs_reservation(reservation_timeline(p.left, after, t),
                                                   p.queue.entries[1], t))
      behind(p) ==
        IF active_job_count(p.queue) = 0 \/ ~Backfill
        THEN ends(complete_candidate_scan(p.queue), p.started, << >>, {})
        ELSE plan(p, With(run, p.started, t))
      tidy == [synced EXCEPT !.arrived = FALSE]
  IN  IF tidy.eligible = 0 THEN ends(complete_candidate_scan(tidy), {}, << >>, {})
      ELSE behind(pop_heads(tidy, free))
=============================================================================
