------------------------- MODULE ReservationTimeline -------------------------
(***************************************************************************)
(* Reservation_Timeline (src/src/sim/scheduler_base.hpp): the free nodes   *)
(* over time as a vector of segments, each a start time and the nodes free *)
(* from it on; earliest_fit() walks the segments, reserve() splits two of  *)
(* them, subtracts and coalesces.  The initial vector is the one that      *)
(* SchedulerBase::reservation_timeline() (scheduler_base.cpp) builds from  *)
(* the running jobs and the published capacity outlook at time 0.          *)
(***************************************************************************)
EXTENDS Integers, Sequences, FiniteSets, SequencesExt, FiniteSetsExt

CONSTANTS
  Horizon, Word, Requests, Origins, Durations,   \* as in ReservationPlan
  RunningJobs,      \* identities of the running jobs
  JobNodes,         \* node counts a running job may have
  Capacities        \* total nodes now and after each scheduled change

NoFit == -1

VARIABLES
  segs,      \* m_free_nodes
  call,      \* the last call, with the result of an earliest_fit()
  source     \* {what segs was built from}, {} once the pass used it

vars == <<segs, call, source>>

(* What a timeline is built from: the planned end and the nodes of the     *)
(* running jobs, m_outlook_capacity, and the changes of total nodes that   *)
(* are scheduled from later times on (m_outlook_changes).                  *)
Change == [time : 1 .. Horizon, total : Capacities]
Sources ==
  [running  : [RunningJobs -> [end : 0 .. Horizon, nodes : JobNodes]],
   capacity : Capacities,
   changes  : {cs \in SUBSET Change : \A c, d \in cs : c # d => c.time # d.time}]

ASSUME TimelineAssumption ==
  /\ Horizon \in Nat /\ Word \in Nat \ {0}
  /\ Requests \subseteq 0 .. Word - 1 /\ Durations \subseteq Int
  /\ Origins \subseteq 0 .. Horizon
  /\ JobNodes \subseteq 1 .. Word - 1 /\ Capacities \subseteq 0 .. Word - 1
  /\ IsFiniteSet(RunningJobs)

-----------------------------------------------------------------------------
clamp(balance) == IF balance > 0 THEN balance ELSE 0

(* Nodes of the running jobs whose planned end is in T. *)
NodesEnding(src, T) ==
  SumFunctionOnSet([j \in RunningJobs |-> src.running[j].nodes],
                   {j \in RunningJobs : src.running[j].end \in T})

(* m_outlook_occupied, and get_available_nodes(): none while overcommitted. *)
Occupied(src)  == NodesEnding(src, 0 .. Horizon)
Available(src) == clamp(src.capacity - Occupied(src))

(* The capacity that a change at t is relative to. *)
ReferenceCapacity(src, t) ==
  LET earlier == {c \in src.changes : c.time < t}
  IN  IF earlier = {} THEN src.capacity
      ELSE (CHOOSE c \in earlier : \A d \in earlier : d.time <= c.time).total

(* The balance of free nodes changes at the planned end of every job that  *)
(* has not passed it, and by the difference between successive capacities. *)
Delta(src, t) ==
  NodesEnding(src, {t}) +
  SumFunctionOnSet([c \in src.changes |-> c.total - ReferenceCapacity(src, t)],
                   {c \in src.changes : c.time = t})

DeltaTimes(src) ==
  {src.running[j].end : j \in RunningJobs} \cup {c.time : c \in src.changes}

(* Mutant: an overcommitted system starts from zero free nodes. *)
StartBalanceClamped(src) == Available(src)

(* A deficit after a capacity reduction is paid back by releases first. *)
StartBalance(src) ==
  IF Available(src) = 0 /\ Occupied(src) > src.capacity
  THEN src.capacity - Occupied(src) ELSE Available(src)

(* std::sort(): the times of the deltas in increasing order. *)
InOrder(T) ==
  CHOOSE s \in [1 .. Cardinality(T) -> T] :
    \A i, j \in 1 .. Cardinality(T) : i < j => s[i] < s[j]

(* The planning time is 0; jobs past their planned end never release. *)
reservation_timeline(src) ==
  LET later == InOrder({t \in DeltaTimes(src) : t > 0})
      upTo(i) == StartBalance(src) +
                 SumFunctionOnSet([t \in DeltaTimes(src) |-> Delta(src, t)],
                                  {later[k] : k \in 1 .. i})
  IN  <<[time |-> 0, free |-> clamp(StartBalance(src))]>> \o
        [i \in 1 .. Len(later) |-> [time |-> later[i], free |-> clamp(upTo(i))]]

(* The segment in effect at time t. *)
SegmentAt(s, t) == CHOOSE i \in 1 .. Len(s) :
  /\ s[i].time <= t
  /\ i = Len(s) \/ t < s[i + 1].time

(* split_at(): makes t a boundary. *)
split_at(s, t) ==
  LET i == SegmentAt(s, t)
  IN  IF s[i].time = t THEN s
      ELSE InsertAt(s, i + 1, [time |-> t, free |-> s[i].free])

(* Index of the boundary at t. *)
Boundary(s, t) == CHOOSE i \in 1 .. Len(s) : s[i].time = t

(* coalesce(): a boundary that changes nothing is erased. *)
coalesce(s, i) == IF i > 1 /\ s[i - 1].free = s[i].free THEN RemoveAt(s, i) ELSE s

(* Mutant: the end is split first, and its index used after the start is. *)
ReservedSegmentsSwapped(start, n, d) ==
  LET ends  == split_at(segs, start + d)
      last  == Boundary(ends, start + d)
      split == split_at(ends, start)
      first == Boundary(split, start)
  IN  [i \in 1 .. Len(split) |->
        IF first <= i /\ i < last
        THEN [split[i] EXCEPT !.free = (@ - n) % Word] ELSE split[i]]

(* reserve(): both boundaries, unsigned subtraction between them, and both *)
(* boundaries erased again when they separate equal segments.              *)
ReservedSegments(start, n, d) ==
  LET split == split_at(split_at(segs, start), start + d)
      first == Boundary(split, start)
      last  == Boundary(split, start + d)
      taken == [i \in 1 .. Len(split) |->
                 IF first <= i /\ i < last
                 THEN [split[i] EXCEPT !.free = (@ - n) % Word] ELSE split[i]]
  IN  coalesce(coalesce(taken, first),
               IF coalesce(taken, first) = taken THEN last ELSE last - 1)

(* The end of the walk from segment i with a start in it: the first        *)
(* segment past the interval, too small, or past the vector.               *)
ScanEnd(i, n, until) ==
  CHOOSE k \in i .. Len(segs) + 1 :
    /\ k > Len(segs) \/ segs[k].free < n \/ (k > i /\ segs[k].time >= until)
    /\ \A m \in i .. k - 1 : segs[m].free >= n /\ (m > i => segs[m].time < until)

FitsFrom(i, start, n, d) ==
  LET k == ScanEnd(i, n, start + d)
  IN  k > Len(segs) \/ (k # i /\ segs[k].time >= start + d)

(* The first segment after k that is large enough, Len + 1 if none is. *)
NextLarge(k, n) ==
  CHOOSE m \in k + 1 .. Len(segs) + 1 :
    /\ m > Len(segs) \/ segs[m].free >= n
    /\ \A i \in k + 1 .. m - 1 : segs[i].free < n

(* earliest_fit() for an interval: where it does not fit, the search       *)
(* resumes at the next segment large enough after the one that is not.     *)
IntervalFit(n, d, start) ==
  LET blocker(i, from) == ScanEnd(i, n, from + d)
      resume[i \in 1 .. Len(segs) + 1] ==
        IF i > Len(segs) THEN NoFit
        ELSE IF FitsFrom(i, segs[i].time, n, d) THEN segs[i].time
        ELSE resume[NextLarge(blocker(i, segs[i].time), n)]
      i == SegmentAt(segs, start)
  IN  IF FitsFrom(i, start, n, d) THEN start
      ELSE resume[NextLarge(blocker(i, start), n)]

(* earliest_fit() for a nonpositive duration: the capacity at a point. *)
PointFit(n, start) ==
  LET i == SegmentAt(segs, start)
      m == NextLarge(i - 1, n)
  IN  IF m > Len(segs) THEN NoFit
      ELSE IF segs[m].time <= start THEN start ELSE segs[m].time

-----------------------------------------------------------------------------
(* Free nodes at an instant: what the vector stands for. *)
FreeAt(t) == segs[SegmentAt(segs, t)].free

Plan == INSTANCE ReservationPlan WITH plan <- [t \in 0 .. Horizon |-> FreeAt(t)]

(* Any running jobs, overdue ones and an overcommitted system included. *)
Init ==
  /\ \E src \in Sources : source = {src} /\ segs = reservation_timeline(src)
  /\ call = Plan!NoCall

earliest_fit(n, d, start) ==
  /\ call' = Plan!Searched(n, d, start,
               IF d <= 0 THEN PointFit(n, start) ELSE IntervalFit(n, d, start))
  /\ source' = {}
  /\ UNCHANGED segs

reserve(n, d, start) ==
  /\ start + d <= Horizon
  /\ segs' = IF d <= 0 THEN segs ELSE ReservedSegments(start, n, d)
  /\ call' = Plan!Reserving(n, d, start)
  /\ source' = {}

Next ==
  \E n \in Requests, d \in Durations :
    \/ \E start \in Origins : earliest_fit(n, d, start)
    \/ \E start \in 0 .. Horizon : reserve(n, d, start)

Spec == Init /\ [][Next]_vars

-----------------------------------------------------------------------------
(* The vector built for a pass is what it stands for: at each instant the  *)
(* capacity then in effect less the nodes of the jobs then planned to run, *)
(* where a job past its planned end keeps its nodes.                       *)
ProfileIsFreeCapacity ==
  \A src \in source, t \in 0 .. Horizon :
    LET held == NodesEnding(src, 0 .. Horizon \ 1 .. t)
    IN  FreeAt(t) = clamp(ReferenceCapacity(src, t + 1) - held)

(* The segment vector keeps the instant-by-instant promise: searches give  *)
(* the true earliest fit, and a reservation changes the free nodes of its  *)
(* own instants and of no other.                                           *)
TimelineImplementsPlan == Plan!Spec
=============================================================================
