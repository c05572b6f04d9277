-------------------------- MODULE WarmStartProofs --------------------------
(***************************************************************************)
(* The history of a warm start stays out of its results: the proof of      *)
(* WarmStart!HistorySeparate over the composition of module Reruns, for    *)
(* every workload, capacity schedule, boundary, tick interval and set of   *)
(* release delays.                                                         *)
(*                                                                         *)
(* The batch run keeps the invariant of the loop.  The warm start does     *)
(* not: a historical job that is still being cleaned up at the boundary    *)
(* holds nodes without a place in the running map, and one that was        *)
(* cleaned up across it holds none.  What remains of the books is their    *)
(* tally, and it is enough: every END pending belongs to the one start it  *)
(* follows from.                                                           *)
(***************************************************************************)
EXTENDS Reruns, SimulationProofs

-----------------------------------------------------------------------------
(* What the loop keeps in a warm start. *)
WarmLoop ==
  /\ job \in Workloads /\ ClockInv /\ CapacityInv /\ TickInv
  /\ waiting \in Seq(Jobs) /\ \A j \in ToSet(waiting) : start[j] = Infinity
  /\ DOMAIN running \in SUBSET Jobs /\ \A j \in DOMAIN running : start[j] # Infinity
  /\ Tally(now, start, evtq, inUse, releasing)

(* What a pending END is to the stages: past the warm stage a historical   *)
(* job that still runs is one that the loop does not come to.              *)
OutOfReach(e) == e.t > limit \/ e.t >= Infinity
StageInv ==
  /\ boundary \in 0 .. Horizon /\ boundary <= now /\ limit \in Targets \cup {Drain}
  /\ looping => target = limit
  /\ stage \in {"warm", "ordinary", "ran"}
  /\ stage # "warm" =>
       \A e \in evtq : e.kind = "end" /\ start[e.job] < boundary => OutOfReach(e)

(* The inductive invariant, over the phases of the run. *)
WarmInv ==
  /\ rerun = "batch" => LoopInv
  /\ rerun = "warm" /\ stage = "none" =>
       /\ job \in Workloads /\ changes \in Schedules /\ batch \in [Jobs -> 0 .. Horizon]
       /\ ~looping
  /\ stage # "none" => rerun = "warm" /\ WarmLoop /\ StageInv /\ HistorySeparate

(* The loop's instants are those of its clock, queue and cursors here too. *)
LEMMA WarmClocked == WarmLoop => Clocked
<1> SUFFICES ASSUME WarmLoop, NEW e \in evtq PROVE e.t \in Nat /\ e.t > now
  BY DEF WarmLoop, Clocked
<1>1. /\ Owed(start, e) /\ e.t > now /\ start \in [Jobs -> 0 .. Infinity]
      /\ job \in Workloads
  BY DEF WarmLoop, Tally
<1>2. e.job \in Jobs
  BY <1>1 DEF Owed
<1>3. start[e.job] \in Nat /\ job[e.job].run \in Nat /\ job[e.job].delay \in Nat
  BY <1>1, <1>2, JobFacts, Constants
<1>4. \/ e.t = start[e.job] + job[e.job].run
      \/ e.t = start[e.job] + job[e.job].run + job[e.job].delay
  BY <1>1 DEF Owed, Over
<1> QED BY <1>1, <1>3, <1>4

LEMMA TallyNext ==
  ASSUME job' = job, Tally(now', start', evtq', inUse', releasing')
  PROVE  Tally(now, start, evtq, inUse, releasing)'
  BY DEF Tally, Owed, Over, Ending, Held, NodesOf

(* Time passes over the tally while no event is due. *)
LEMMA TallyLater ==
  ASSUME NEW n, NEW t, NEW st, NEW evs, NEW used, NEW rel,
         Tally(n, st, evs, used, rel), \A e \in evs : e.t > t
  PROVE  Tally(t, st, evs, used, rel)
  BY DEF Tally

(* What a step of the loop does to the accounts of the stages: jobs that   *)
(* waited start at t, and the ENDs of some jobs are taken.                 *)
Moved(t, S, ended) ==
  /\ now' = t /\ S \in SUBSET ToSet(waiting)
  /\ start' = [j \in Jobs |-> IF j \in S THEN t ELSE start[j]]
  /\ ended \in SUBSET Ending(evtq)
  /\ ended = {e.job : e \in {f \in evtq \ evtq' : f.kind = "end"}}
  /\ \A e \in evtq' : e.kind = "end" => e \in evtq \/ e.job \in S
  /\ Ending(evtq') = (Ending(evtq) \ ended) \cup S

(* The passes of an instant keep what the loop keeps; ended are the jobs   *)
(* whose ENDs were taken before them.                                      *)
LEMMA DispatchMoves ==
  ASSUME WarmLoop, NEW t \in 0 .. Horizon, now' = t, UNCHANGED job, capacity' \in Nat,
         NEW evs, NEW used, NEW run, Tally(t, start, evs, used, releasing'),
         DOMAIN run \in SUBSET Jobs, \A j \in DOMAIN run : start[j] # Infinity,
         NEW ended \in SUBSET Ending(evtq), Ending(evs) = Ending(evtq) \ ended,
         \A e \in evs : e.kind = "end" => e \in evtq,
         \A e \in evtq : e.kind = "end" => (e \in evs <=> e.job \notin ended),
         NEW s, NEW then, s = State(t, capacity', nextChange', used + releasing', waiting, run),
         then = s \/ \E tick : then = Scheduled(s, tick),
         Dispatch(s, then, evs, used)
  PROVE  /\ \E S : Moved(t, S, ended)
         /\ waiting' \in Seq(Jobs) /\ \A j \in ToSet(waiting') : start'[j] = Infinity
         /\ DOMAIN running' \in SUBSET Jobs /\ \A j \in DOMAIN running' : start'[j] # Infinity
         /\ Tally(now, start, evtq, inUse, releasing)'
<1>1. /\ job \in Workloads /\ waiting \in Seq(Jobs)
      /\ \A j \in ToSet(waiting) : start[j] = Infinity
      /\ \A e \in evtq : Owed(start, e)
      /\ start \in [Jobs -> 0 .. Infinity]
  BY DEF WarmLoop, Tally
<1>2. PICK S \in SUBSET ToSet(waiting) :
        /\ Tally(t, start', evtq', inUse', releasing')
        /\ evtq' = evs \cup {[t |-> t + job[j].run, kind |-> "end", job |-> j] : j \in S}
        /\ Ending(evtq') = Ending(evs) \cup S /\ Held(evtq') = Held(evs)
        /\ DOMAIN running' = DOMAIN run \cup S
        /\ waiting' \in Seq(Jobs) /\ ToSet(waiting') = ToSet(waiting) \ S
        /\ \A j \in S : job[j].submit <= t
        /\ start' = [j \in Jobs |-> IF j \in S THEN t ELSE start[j]]
        /\ S # {} => inUse' + releasing' <= capacity'
  <2>1. /\ t \in 0 .. Horizon /\ capacity' \in Nat /\ Tally(t, start, evs, used, releasing')
        /\ \A j \in DOMAIN run : start[j] # Infinity
        /\ s = State(t, capacity', nextChange', used + releasing', waiting, run)
        /\ then = s \/ \E tick : then = Scheduled(s, tick)
        /\ Dispatch(s, then, evs, used)
    OBVIOUS
  <2> QED BY ONLY <1>1, <2>1, DispatchTally
<1>3. S \in SUBSET Jobs /\ ToSet(waiting) \in SUBSET Jobs
  BY <1>1, InToSet
<1>4. t # Infinity
  BY Constants
<1>5. /\ \A j \in S : start'[j] # Infinity
      /\ \A j \in Jobs : j \notin S => start'[j] = start[j]
  BY <1>2, <1>3, <1>4
<1>6. \A j \in ToSet(waiting') : start'[j] = Infinity
  BY <1>1, <1>2, <1>3, <1>5
<1>7. DOMAIN running' \in SUBSET Jobs /\ \A j \in DOMAIN running' : start'[j] # Infinity
  <2>1. ASSUME NEW j \in DOMAIN run, j \notin S PROVE start'[j] # Infinity
    BY <2>1, <1>5
  <2> QED BY <2>1, <1>2, <1>3, <1>5
<1>8. ASSUME NEW e \in evtq', e.kind = "end", e \notin evs PROVE e.job \in S
  <2>1. PICK j \in S : e = [t |-> t + job[j].run, kind |-> "end", job |-> j]
    BY <1>2, <1>8
  <2> QED BY <2>1
<1>9. ended = {e.job : e \in {f \in evtq \ evtq' : f.kind = "end"}}
  <2>1. ASSUME NEW j \in ended PROVE \E e \in evtq \ evtq' : e.kind = "end" /\ e.job = j
    <3>1. PICK e \in evtq : e.kind = "end" /\ e.job = j
      BY DEF Ending
    <3>2. e \notin evs
      BY <3>1
    <3>3. e.job \notin S
      <4>1. start[e.job] # Infinity
        BY <1>1 DEF Owed
      <4> QED BY <4>1, <1>1
    <3>4. e \notin evtq'
      BY <3>1, <3>2, <3>3, <1>8
    <3> QED BY <3>1, <3>4
  <2>2. ASSUME NEW e \in evtq \ evtq', e.kind = "end" PROVE e.job \in ended
    BY <2>2, <1>2
  <2> QED BY <2>1, <2>2
<1>10. Moved(t, S, ended)
  <2>1. \A e \in evtq' : e.kind = "end" => e \in evtq \/ e.job \in S
    BY <1>8
  <2> QED BY <2>1, <1>2, <1>9 DEF Moved
<1>11. Tally(now, start, evtq, inUse, releasing)'
  BY <1>2, TallyNext
<1> QED BY <1>2, <1>6, <1>7, <1>10, <1>11

-----------------------------------------------------------------------------
(* An iteration of the loop, as the stages account for it. *)
Remaining(evs, ended) ==
  /\ ended \in SUBSET Ending(evtq) /\ Ending(evs) = Ending(evtq) \ ended
  /\ \A e \in evs : e.kind = "end" => e \in evtq
  /\ \A e \in evtq : e.kind = "end" => (e \in evs <=> e.job \notin ended)
WarmMove(t, S, ended) ==
  /\ Moved(t, S, ended) /\ t \in 0 .. Horizon /\ now <= t /\ t <= target
  /\ \A j \in ended : \E e \in evtq : e.kind = "end" /\ e.job = j /\ e.t = t
  /\ UNCHANGED <<job, target, looping>>

LEMMA IterateMoves ==
  ASSUME WarmLoop, looping, NEW t \in 0 .. Horizon, now <= t, t <= target,
         NEW evs, NEW used, NEW run, NEW should, NEW isTick,
         Tally(t, start, evs, used, releasing'),
         DOMAIN run \in SUBSET DOMAIN running,
         nextChange' \in 1 .. Len(changes) + 1, capacity' \in Nat, NextCapacity' > t,
         NEW ended, Remaining(evs, ended),
         \A j \in ended : \E e \in evtq : e.kind = "end" /\ e.job = j /\ e.t = t,
         Iterate(t, evs, used, run, should, isTick)
  PROVE  WarmLoop' /\ \E S : WarmMove(t, S, ended)
<1>1. /\ now' = t /\ UNCHANGED caller /\ target' = target /\ looping' = looping
      /\ Settle(t, evs, used, run, should, isTick)
  BY DEF Iterate
<1>2. job' = job /\ changes' = changes
  BY <1>1 DEF caller
<1> DEFINE s == State(t, capacity', nextChange', used + releasing', waiting, run)
<1>3. PICK then : /\ then = s \/ \E tick : then = Scheduled(s, tick)
                  /\ Dispatch(s, then, evs, used)
  BY <1>1 DEF Settle
<1>4. \E tick \in Nat : nextTick' = CatchUp(tick, t)
  <2>1. nextTick \in Nat /\ nextTick + BackfillInterval \in Nat
    BY Constants DEF WarmLoop, TickInv
  <2> QED BY <1>1, <2>1 DEF Settle
<1> HIDE DEF s
<1>5. s = State(t, capacity', nextChange', used + releasing', waiting, run)
  BY DEF s
<1>6. DOMAIN run \in SUBSET Jobs /\ \A j \in DOMAIN run : start[j] # Infinity
  BY DEF WarmLoop
<1>7. /\ \E S : Moved(t, S, ended)
      /\ waiting' \in Seq(Jobs) /\ \A j \in ToSet(waiting') : start'[j] = Infinity
      /\ DOMAIN running' \in SUBSET Jobs /\ \A j \in DOMAIN running' : start'[j] # Infinity
      /\ Tally(now, start, evtq, inUse, releasing)'
  <2>1. /\ WarmLoop /\ t \in 0 .. Horizon /\ now' = t /\ capacity' \in Nat
        /\ Tally(t, start, evs, used, releasing')
        /\ ended \in SUBSET Ending(evtq) /\ Ending(evs) = Ending(evtq) \ ended
        /\ \A e \in evs : e.kind = "end" => e \in evtq
        /\ \A e \in evtq : e.kind = "end" => (e \in evs <=> e.job \notin ended)
    BY <1>1 DEF Remaining
  <2> QED BY ONLY <1>2, <1>3, <1>5, <1>6, <2>1, DispatchMoves
<1>8. ClockInv' /\ CapacityInv'
  BY <1>1, <1>2 DEF WarmLoop, ClockInv, CapacityInv
<1>9. TickInv'
  <2>1. t \in Nat
    BY Constants
  <2>2. nextTick' \in Nat /\ (BackfillInterval > 0 => nextTick' > t)
    BY <1>4, <2>1, CatchUpFacts
  <2> QED BY <1>1, <2>1, <2>2 DEF TickInv
<1>10. WarmLoop'
  BY <1>2, <1>7, <1>8, <1>9 DEF WarmLoop
<1>11. \A S : Moved(t, S, ended) => WarmMove(t, S, ended)
  BY <1>1, <1>2 DEF WarmMove
<1> QED BY <1>7, <1>10, <1>11

LEMMA EventsMove ==
  ASSUME WarmLoop, looping, ProcessEvents
  PROVE  WarmLoop' /\ \E t, S, ended : WarmMove(t, S, ended)
<1> DEFINE t        == NextEvent
           ends     == {e.job : e \in {f \in evtq : f.t = t /\ f.kind = "end"}}
           kept     == IF ReleaseDelays = {} THEN {} ELSE ends
           queue    == evtq \cup {[t |-> t + job[j].delay, kind |-> "release", job |-> j] : j \in kept}
           released == {e.job : e \in {f \in queue : f.t = t /\ f.kind = "release"}}
           freed    == (ends \ kept) \cup released
           run      == [j \in DOMAIN running \ freed |-> running[j]]
           should   == freed # {} \/ nextChange' # nextChange \/ NextArrival = t
           evs      == {e \in queue : e.t # t}
           used     == inUse - NodesOf(ends)
<1>1. /\ EventNext /\ ApplyCapacity(t)
      /\ releasing' = releasing + NodesOf(kept) - NodesOf(released)
      /\ Iterate(t, evs, used, run, should, FALSE)
  BY DEF ProcessEvents
<1> HIDE DEF t
<1>2. /\ t \in 0 .. Horizon /\ t <= target /\ now <= t /\ now \in Nat
      /\ \A e \in evtq : t <= e.t
  <2>1. t \in 0 .. Horizon /\ t <= target
    BY <1>1, WarmClocked, ClockedBranches DEF t
  <2>2. now \in Nat /\ (t = Infinity \/ t > now) /\ \A e \in evtq : t <= e.t
    BY WarmClocked, ClockedInstants DEF t
  <2> QED BY <2>1, <2>2, Constants
<1>3. InstantTaken(t, evtq, ends, kept, queue, released, evs)
  BY DEF InstantTaken
<1>4. DOMAIN run \in SUBSET DOMAIN running
  OBVIOUS
<1>5. /\ Tally(t, start, evs, inUse - NodesOf(ends), releasing + NodesOf(kept) - NodesOf(released))
      /\ Ending(evs) = Ending(evtq) \ ends /\ ends \in SUBSET Ending(evtq)
      /\ \A j \in ends : start[j] + job[j].run = t
  <2>1. /\ job \in Workloads /\ now \in Nat /\ Tally(now, start, evtq, inUse, releasing)
        /\ t \in Nat /\ now <= t /\ \A e \in evtq : t <= e.t
    BY <1>2, Constants DEF WarmLoop
  <2> HIDE DEF ends, kept, queue, released, evs
  <2> QED BY ONLY <1>3, <2>1, EventsTally
<1>6. Tally(t, start, evs, used, releasing')
  BY <1>1, <1>5
<1>7. \A j \in ends : \E e \in evtq : e.kind = "end" /\ e.job = j /\ e.t = t
  OBVIOUS
<1>8. Remaining(evs, ends)
  <2>1. \A e \in evs : e.kind = "end" => e \in evtq
    OBVIOUS
  <2>2. ASSUME NEW e \in evtq, e.kind = "end" PROVE e \in evs <=> e.t # t
    BY <2>2
  <2>3. ASSUME NEW e \in evtq, e.kind = "end" PROVE e.t = t <=> e.job \in ends
    <3>1. Owed(start, e)
      BY DEF WarmLoop, Tally
    <3>2. e.t = start[e.job] + job[e.job].run
      BY <3>1, <2>3 DEF Owed
    <3>3. e.job \in ends => e.t = t
      BY <3>2, <1>5
    <3> QED BY <3>3, <2>3
  <2> HIDE DEF evs, ends
  <2> QED BY <1>5, <2>1, <2>2, <2>3 DEF Remaining
<1>9. nextChange' \in 1 .. Len(changes) + 1 /\ capacity' \in Nat /\ NextCapacity' > t
  <2>1. changes' = changes
    BY <1>1 DEF Iterate, caller
  <2> QED BY <2>1, <1>1, <1>2, CapacityStep DEF WarmLoop, CapacityInv
<1>10. Iterate(t, evs, used, run, should, FALSE)
  BY <1>1
<1> HIDE DEF ends, kept, queue, released, freed, run, should, evs, used
<1>11. WarmLoop' /\ \E S : WarmMove(t, S, ends)
  BY <1>2, <1>4, <1>6, <1>7, <1>8, <1>9, <1>10, IterateMoves
<1> QED BY <1>11

(* The branches that pass over no event take none. *)
LEMMA QuietMoves ==
  ASSUME WarmLoop, looping, NEW t \in 0 .. Horizon, now <= t, t <= target, t < NextEvent,
         nextChange' \in 1 .. Len(changes) + 1, capacity' \in Nat, NextCapacity' > t,
         UNCHANGED releasing, NEW should, NEW isTick,
         Iterate(t, evtq, inUse, running, should, isTick)
  PROVE  WarmLoop' /\ \E S, ended : WarmMove(t, S, ended)
<1>1. \A e \in evtq : e.t > t
  <2>1. NextEvent \in Nat /\ \A e \in evtq : e.t \in Nat /\ NextEvent <= e.t
    BY WarmClocked, ClockedInstants
  <2> QED BY <2>1, Constants
<1>2. Tally(t, start, evtq, inUse, releasing')
  BY <1>1, TallyLater DEF WarmLoop
<1>3. Remaining(evtq, {})
  BY DEF Remaining
<1>4. WarmLoop' /\ \E S : WarmMove(t, S, {})
  BY <1>2, <1>3, IterateMoves
<1> QED BY <1>4

LEMMA LoopMoves ==
  ASSUME WarmLoop, looping,
         ProcessEvents \/ ProcessArrivals \/ ProcessCapacity \/ ProcessTick
  PROVE  WarmLoop' /\ \E t, S, ended : WarmMove(t, S, ended)
<1>1. CASE ProcessEvents
  BY <1>1, EventsMove
<1>2. ASSUME NEW t \in 0 .. Horizon, now <= t, ApplyCapacity(t), UNCHANGED changes
      PROVE  nextChange' \in 1 .. Len(changes) + 1 /\ capacity' \in Nat /\ NextCapacity' > t
  BY <1>2, CapacityStep DEF WarmLoop, CapacityInv
<1>3. CASE ProcessArrivals
  <2> DEFINE t == NextArrival
  <2>1. /\ ~EventNext /\ ArrivalNext /\ ApplyCapacity(t) /\ UNCHANGED releasing
        /\ Iterate(t, evtq, inUse, running, TRUE, FALSE) /\ UNCHANGED changes
    BY <1>3 DEF ProcessArrivals, Iterate, caller
  <2>2. t \in 0 .. Horizon /\ t <= target /\ t < NextEvent /\ now <= t
    BY <2>1, WarmClocked, ClockedBranches, ClockedInstants, Constants
  <2> HIDE DEF t
  <2>3. nextChange' \in 1 .. Len(changes) + 1 /\ capacity' \in Nat /\ NextCapacity' > t
    BY <2>1, <2>2, <1>2
  <2>4. WarmLoop' /\ \E S, ended : WarmMove(t, S, ended)
    BY <2>1, <2>2, <2>3, QuietMoves
  <2> QED BY <2>4
<1>4. CASE ProcessCapacity
  <2> DEFINE t == NextCapacity
  <2>1. /\ ~EventNext /\ ~ArrivalNext /\ CapacityNext /\ ApplyCapacity(t) /\ UNCHANGED releasing
        /\ Iterate(t, evtq, inUse, running, TRUE, FALSE) /\ UNCHANGED changes
    BY <1>4 DEF ProcessCapacity, Iterate, caller
  <2>2. t \in 0 .. Horizon /\ t <= target /\ t < NextEvent /\ now <= t
    <3>1. t > now
      BY DEF WarmLoop, CapacityInv
    <3> QED BY <3>1, <2>1, WarmClocked, ClockedBranches, ClockedInstants, Constants
  <2> HIDE DEF t
  <2>3. nextChange' \in 1 .. Len(changes) + 1 /\ capacity' \in Nat /\ NextCapacity' > t
    BY <2>1, <2>2, <1>2
  <2>4. WarmLoop' /\ \E S, ended : WarmMove(t, S, ended)
    BY <2>1, <2>2, <2>3, QuietMoves
  <2> QED BY <2>4
<1>5. CASE ProcessTick
  <2> DEFINE t == EffectiveTick
  <2>1. /\ ~EventNext /\ ~ArrivalNext /\ ~CapacityNext /\ TickNext
        /\ UNCHANGED <<capacity, nextChange, releasing>>
        /\ Iterate(t, evtq, inUse, running, FALSE, TRUE) /\ UNCHANGED changes
    BY <1>5 DEF ProcessTick, Iterate, caller
  <2>2. t < Infinity /\ t <= target
    BY <2>1 DEF TickNext
  <2>3. t >= now
    BY <2>2, Constants DEF EffectiveTick, WarmLoop, TickInv
  <2>4. /\ t \in 0 .. Horizon /\ t < NextEvent /\ now <= t /\ t < NextCapacity
    BY <2>1, <2>2, <2>3, WarmClocked, ClockedBranches, ClockedInstants, Constants
  <2>5. NextCapacity' = NextCapacity
    BY <2>1, Zenon DEF NextCapacity
  <2>6. nextChange' \in 1 .. Len(changes) + 1 /\ capacity' \in Nat /\ NextCapacity' > t
    <3>1. NextCapacity \in Nat /\ t \in Nat
      BY <2>4, WarmClocked, ClockedInstants, Constants
    <3> HIDE DEF t
    <3> QED BY <2>1, <2>4, <2>5, <3>1 DEF WarmLoop, CapacityInv
  <2> HIDE DEF t
  <2>7. WarmLoop' /\ \E S, ended : WarmMove(t, S, ended)
    BY <2>1, <2>2, <2>4, <2>6, QuietMoves
  <2> QED BY <2>7
<1> QED BY <1>1, <1>3, <1>4, <1>5

-----------------------------------------------------------------------------
(* When no branch of the loop is left, no event is within its reach. *)
LEMMA NothingInReach ==
  ASSUME WarmLoop, NEW e \in evtq,
         ~(LoopRuns /\ (EventNext \/ ArrivalNext \/ CapacityNext \/ TickNext))
  PROVE  e.t > target \/ e.t >= Infinity
<1>1. /\ NextEvent \in Nat /\ NextArrival \in Nat /\ NextCapacity \in Nat
      /\ EffectiveTick \in Nat /\ target \in Nat /\ Infinity \in Nat
      /\ e.t \in Nat /\ NextEvent <= e.t
  BY WarmClocked, ClockedInstants, Constants
<1>2. LoopRuns /\ evtq # {}
  BY DEF LoopRuns
<1>3. ~EventNext /\ ~ArrivalNext /\ ~CapacityNext /\ ~TickNext
  BY <1>2
<1> QED BY <1>1, <1>2, <1>3, WarmClocked, ClockedGuards DEF TickNext

LEMMA ReturnRests ==
  ASSUME WarmLoop, looping, Return
  PROVE  /\ WarmLoop' /\ now' >= now /\ ~looping'
         /\ UNCHANGED <<job, target, start, evtq>>
         /\ \A e \in evtq : e.t > target \/ e.t >= Infinity
<1>1. /\ ~(LoopRuns /\ (EventNext \/ ArrivalNext \/ CapacityNext \/ TickNext))
      /\ looping' = FALSE
      /\ now' = IF target = Drain THEN now ELSE target
      /\ UNCHANGED <<caller, target, capacity, nextChange, waiting, resources,
                     arrivals, nextTick, dirty, evaluated, fault>>
  BY DEF Return
<1>2. UNCHANGED <<job, changes, target, capacity, nextChange, waiting, running, evtq,
                  inUse, releasing, start, nextTick>>
  BY <1>1 DEF caller, resources
<1>3. \A e \in evtq : e.t > target \/ e.t >= Infinity
  BY <1>1, NothingInReach
<1>4. now \in 0 .. Horizon /\ target \in 0 .. Infinity /\ now <= target
  BY DEF WarmLoop, ClockInv
<1>5. target = Drain \/ (target \in 0 .. Horizon /\ target < Infinity)
  BY <1>4, Constants
<1>6. now' \in 0 .. Horizon /\ now' >= now
  BY <1>1, <1>4, <1>5, Constants
<1>7. Tally(now', start, evtq, inUse, releasing)
  <2>1. CASE target = Drain
    BY <2>1, <1>1 DEF WarmLoop
  <2>2. CASE target \in 0 .. Horizon /\ target < Infinity
    <3>1. now' = target
      BY <2>2, <1>1, Constants
    <3>2. \A e \in evtq : e.t > target
      <4>1. \A e \in evtq : e.t \in Nat
        BY WarmClocked, ClockedInstants
      <4> QED BY <4>1, <2>2, <1>3, Constants
    <3> QED BY <3>1, <3>2, TallyLater DEF WarmLoop
  <2> QED BY <2>1, <2>2, <1>5
<1>8. Tally(now, start, evtq, inUse, releasing)'
  <2>1. Tally(now', start', evtq', inUse', releasing')
    BY <1>2, <1>7
  <2> QED BY <1>2, <2>1, TallyNext
<1>9. ClockInv' /\ TickInv' /\ CapacityInv'
  BY <1>1, <1>2, <1>4, <1>6 DEF WarmLoop, ClockInv, TickInv, CapacityInv
<1>10. WarmLoop'
  BY <1>2, <1>8, <1>9 DEF WarmLoop
<1> QED BY <1>1, <1>2, <1>3, <1>6, <1>10

(* The call that opens a stage starts jobs and takes no event. *)
LEMMA OpenMoves ==
  ASSUME WarmLoop, NEW to \in Targets \cup {Drain}, advance_to(to)
  PROVE  /\ WarmLoop' /\ looping' /\ target' = to /\ job' = job
         /\ \E S : Moved(now, S, {})
<1>1. /\ ~looping /\ now <= to /\ looping' = TRUE /\ target' = to /\ ApplyCapacity(now)
      /\ nextTick' = AlignTick(nextTick, now)
      /\ UNCHANGED <<caller, now, releasing, dirty, evaluated>>
  BY DEF advance_to
<1> DEFINE s == State(now, capacity', nextChange', inUse + releasing, waiting, running)
           then == Scheduled(s, FALSE)
<1>2. Dispatch(s, then, evtq, inUse)
  BY DEF advance_to
<1>3. /\ now \in 0 .. Horizon /\ changes \in Schedules /\ nextTick \in Nat
      /\ nextChange \in 1 .. Len(changes) + 1 /\ capacity \in Nat
  BY DEF WarmLoop, ClockInv, CapacityInv, TickInv
<1>4. job' = job /\ changes' = changes /\ now' = now /\ releasing' = releasing
  BY <1>1 DEF caller
<1>5. nextChange' \in 1 .. Len(changes) + 1 /\ capacity' \in Nat /\ NextCapacity' > now
  BY <1>1, <1>3, <1>4, CapacityStep
<1>6. s = State(now, capacity', nextChange', inUse + releasing', waiting, running)
  BY <1>4
<1>7. then = s \/ \E tick : then = Scheduled(s, tick)
  OBVIOUS
<1> HIDE DEF s, then
<1>8. /\ \E S : Moved(now, S, {})
      /\ waiting' \in Seq(Jobs) /\ \A j \in ToSet(waiting') : start'[j] = Infinity
      /\ DOMAIN running' \in SUBSET Jobs /\ \A j \in DOMAIN running' : start'[j] # Infinity
      /\ Tally(now, start, evtq, inUse, releasing)'
  <2>1. /\ WarmLoop /\ now \in 0 .. Horizon /\ now' = now /\ capacity' \in Nat
        /\ Tally(now, start, evtq, inUse, releasing')
        /\ {} \in SUBSET Ending(evtq) /\ Ending(evtq) = Ending(evtq) \ {}
        /\ \A e \in evtq : e.kind = "end" => e \in evtq
        /\ \A e \in evtq : e.kind = "end" => (e \in evtq <=> e.job \notin {})
        /\ DOMAIN running \in SUBSET Jobs /\ \A j \in DOMAIN running : start[j] # Infinity
    BY <1>3, <1>4, <1>5 DEF WarmLoop
  <2> QED BY ONLY <1>2, <1>4, <1>6, <1>7, <2>1, DispatchMoves
<1>9. ClockInv'
  <2>1. to \in 0 .. Infinity
    BY Constants
  <2> QED BY <2>1, <1>1, <1>3, <1>4 DEF ClockInv
<1>10. CapacityInv'
  BY <1>3, <1>4, <1>5 DEF CapacityInv
<1>11. TickInv'
  <2>1. now \in Nat
    BY <1>3, Constants
  <2>2. nextTick' \in Nat /\ (BackfillInterval > 0 => nextTick' >= now)
    BY <2>1, <1>1, <1>3, AlignFacts
  <2> QED BY <2>2, <1>4 DEF TickInv
<1> QED BY <1>1, <1>4, <1>8, <1>9, <1>10, <1>11 DEF WarmLoop

-----------------------------------------------------------------------------
(* The accounts of the stages, read off the schedule and the events. *)
Gone(st, evs) == {j \in Jobs : st[j] # Infinity /\ j \notin Ending(evs)}
History(st) == {j \in Jobs : st[j] < boundary}
Accounts(st, evs) ==
  /\ preStart = Cardinality(History(st) \ Gone(st, evs))
  /\ completed = Cardinality(Gone(st, evs) \ History(st))
  /\ suppressed = (Gone(st, evs) \cap History(st)) \cup
                  (IF inherit THEN {} ELSE Waiters(boundary))

LEMMA GoneIs ==
  ASSUME NEW st \in [Jobs -> 0 .. Infinity], NEW evs
  PROVE  {j \in Jobs : st[j] < Infinity} \ {e.job : e \in {f \in evs : f.kind = "end"}}
           = Gone(st, evs)
<1>1. \A j \in Jobs : st[j] < Infinity <=> st[j] # Infinity
  BY Constants
<1>2. \A j \in Jobs : j \in {e.job : e \in {f \in evs : f.kind = "end"}} <=> j \in Ending(evs)
  BY DEF Ending
<1> QED BY <1>1, <1>2 DEF Gone

LEMMA SeparateIs ==
  ASSUME start \in [Jobs -> 0 .. Infinity], stage # "none"
  PROVE  HistorySeparate <=> Accounts(start, evtq)
  BY GoneIs DEF HistorySeparate, Accounts, History

LEMMA SeparateNext ==
  ASSUME start' \in [Jobs -> 0 .. Infinity],
         preStart' = Cardinality(History(start)' \ Gone(start', evtq')),
         completed' = Cardinality(Gone(start', evtq') \ History(start)'),
         suppressed' = (Gone(start', evtq') \cap History(start)') \cup
                       (IF inherit' THEN {} ELSE Waiters(boundary)')
  PROVE  HistorySeparate'
  BY GoneIs DEF HistorySeparate, History

(* The jobs that have left are those that had and those whose END was      *)
(* taken; none that starts now is historical.                              *)
LEMMA MovedAccounts ==
  ASSUME WarmLoop, boundary \in 0 .. Horizon, boundary <= now, now \in Nat,
         NEW t \in 0 .. Horizon, now <= t, NEW S, NEW ended, Moved(t, S, ended)
  PROVE  /\ Gone(start', evtq') = Gone(start, evtq) \cup ended
         /\ ended \cap Gone(start, evtq) = {} /\ ended \in SUBSET Jobs
         /\ History(start') = History(start)
<1>1. /\ start \in [Jobs -> 0 .. Infinity] /\ \A e \in evtq : Owed(start, e)
      /\ \A j \in ToSet(waiting) : start[j] = Infinity
      /\ ToSet(waiting) \in SUBSET Jobs
  <2>1. waiting \in Seq(Jobs)
    BY DEF WarmLoop
  <2> QED BY <2>1, InToSet DEF WarmLoop, Tally
<1>2. /\ S \in SUBSET ToSet(waiting) /\ ended \in SUBSET Ending(evtq)
      /\ start' = [j \in Jobs |-> IF j \in S THEN t ELSE start[j]]
      /\ Ending(evtq') = (Ending(evtq) \ ended) \cup S
  BY DEF Moved
<1>3. \A j \in Ending(evtq) : j \in Jobs /\ start[j] # Infinity
  BY <1>1 DEF Ending, Owed
<1>4. \A j \in S : j \in Jobs /\ start[j] = Infinity /\ start'[j] = t
  BY <1>1, <1>2
<1>5. \A j \in Jobs : j \notin S => start'[j] = start[j]
  BY <1>2
<1>6. t \in Nat /\ t # Infinity /\ Infinity \in Nat /\ boundary <= t /\ boundary < Infinity
      /\ boundary \in Nat
  BY Constants
<1>7. Gone(start', evtq') = Gone(start, evtq) \cup ended
  BY <1>2, <1>3, <1>4, <1>5, <1>6 DEF Gone
<1>8. History(start') = History(start)
  <2>1. \A j \in S : ~(start'[j] < boundary) /\ ~(start[j] < boundary)
    BY <1>4, <1>6
  <2> QED BY <2>1, <1>5 DEF History
<1> QED BY <1>2, <1>3, <1>7, <1>8 DEF Gone

LEMMA AccountsStep ==
  ASSUME NEW H \in SUBSET Jobs, NEW G \in SUBSET Jobs, NEW E \in SUBSET Jobs, E \cap G = {}
  PROVE  /\ Cardinality(H \ (G \cup E)) = Cardinality(H \ G) - Cardinality(E \cap H)
         /\ Cardinality((G \cup E) \ H) = Cardinality(G \ H) + Cardinality(E \ (E \cap H))
<1>1. \A X \in SUBSET Jobs : IsFiniteSet(X) /\ Cardinality(X) \in Nat
  BY JobsFinite, FS_CardinalityType
<1>2. Cardinality(H \ (G \cup E)) = Cardinality(H \ G) - Cardinality(E \cap H)
  <2> DEFINE A == H \ (G \cup E)
             B == E \cap H
  <2>1. A \in SUBSET Jobs /\ B \in SUBSET Jobs /\ A \cap B = {} /\ A \cup B = H \ G
    OBVIOUS
  <2> HIDE DEF A, B
  <2>2. Cardinality(A \cup B) = Cardinality(A) + Cardinality(B) - Cardinality(A \cap B)
    BY <1>1, <2>1, FS_Union
  <2>3. Cardinality(A \cap B) = 0 /\ Cardinality(A) \in Nat /\ Cardinality(B) \in Nat
    BY <1>1, <2>1, FS_EmptySet
  <2>4. Cardinality(A \cup B) = Cardinality(H \ G)
    BY <2>1, Zenon
  <2>5. Cardinality(A) = Cardinality(H \ G) - Cardinality(B)
    BY <2>2, <2>3, <2>4
  <2> QED BY <2>5 DEF A, B
<1>3. Cardinality((G \cup E) \ H) = Cardinality(G \ H) + Cardinality(E \ (E \cap H))
  <2> DEFINE A == G \ H
             B == E \ (E \cap H)
  <2>1. A \in SUBSET Jobs /\ B \in SUBSET Jobs /\ A \cap B = {} /\ A \cup B = (G \cup E) \ H
    OBVIOUS
  <2> HIDE DEF A, B
  <2>2. Cardinality(A \cup B) = Cardinality(A) + Cardinality(B) - Cardinality(A \cap B)
    BY <1>1, <2>1, FS_Union
  <2>3. Cardinality(A \cap B) = 0 /\ Cardinality(A) \in Nat /\ Cardinality(B) \in Nat
    BY <1>1, <2>1, FS_EmptySet
  <2>4. Cardinality(A \cup B) = Cardinality((G \cup E) \ H)
    BY <2>1, Zenon
  <2>5. Cardinality((G \cup E) \ H) = Cardinality(A) + Cardinality(B)
    BY <2>2, <2>3, <2>4
  <2> QED BY <2>5 DEF A, B
<1> QED BY <1>2, <1>3

(* A stage keeps its accounts when it counts what ended as it does. *)
LEMMA SeparateMoves ==
  ASSUME WarmLoop, WarmLoop', stage # "none", HistorySeparate,
         boundary \in 0 .. Horizon, boundary <= now,
         NEW t \in 0 .. Horizon, now <= t, NEW S, NEW ended, Moved(t, S, ended),
         UNCHANGED <<job, boundary, inherit, batch>>,
         NEW historical, historical = ended \cap History(start),
         suppressed' = suppressed \cup historical,
         preStart' = preStart - Cardinality(historical),
         completed' = completed + Cardinality(ended \ historical)
  PROVE  HistorySeparate'
<1> DEFINE G == Gone(start, evtq)
           H == History(start)
<1>1. now \in Nat
  BY Constants DEF WarmLoop, ClockInv
<1>2. /\ Gone(start', evtq') = G \cup ended
      /\ ended \cap G = {} /\ ended \in SUBSET Jobs
      /\ History(start') = H
  BY <1>1, MovedAccounts
<1>3. /\ preStart = Cardinality(H \ G) /\ completed = Cardinality(G \ H)
      /\ suppressed = (G \cap H) \cup (IF inherit THEN {} ELSE Waiters(boundary))
  <2>1. start \in [Jobs -> 0 .. Infinity]
    BY DEF WarmLoop, Tally
  <2> QED BY <2>1, SeparateIs DEF Accounts
<1>4. G \in SUBSET Jobs /\ H \in SUBSET Jobs
  BY DEF Gone, History
<1>5. History(start)' = H /\ Waiters(boundary)' = Waiters(boundary)
  <2>1. History(start)' = History(start')
    BY DEF History
  <2>2. Waiters(boundary)' = Waiters(boundary)
    BY DEF Waiters, Historical
  <2> QED BY <2>1, <2>2, <1>2
<1> HIDE DEF G, H
<1>6. /\ Cardinality(H \ (G \cup ended)) = Cardinality(H \ G) - Cardinality(ended \cap H)
      /\ Cardinality((G \cup ended) \ H)
           = Cardinality(G \ H) + Cardinality(ended \ (ended \cap H))
  <2>1. ended \in SUBSET Jobs /\ ended \cap G = {}
    BY <1>2
  <2> QED BY ONLY <1>4, <2>1, AccountsStep
<1>7. historical = ended \cap H
  BY DEF H
<1>8. start' \in [Jobs -> 0 .. Infinity]
  BY DEF WarmLoop, Tally
<1>9. suppressed' = ((G \cup ended) \cap H) \cup (IF inherit THEN {} ELSE Waiters(boundary))
  BY <1>3, <1>7
<1> QED BY <1>2, <1>3, <1>5, <1>6, <1>7, <1>8, <1>9, SeparateNext

-----------------------------------------------------------------------------
(* What the invariant says of the stages. *)
Staged == stage # "none" /\ WarmLoop /\ StageInv /\ HistorySeparate

LEMMA StageBounds ==
  ASSUME Staged
  PROVE  boundary \in 0 .. Horizon /\ boundary <= now /\ now \in Nat
  BY Constants DEF Staged, StageInv, WarmLoop, ClockInv

(* Past the warm stage a departure is never that of a historical job. *)
LEMMA EndedHistory ==
  ASSUME Staged, looping, NEW t, NEW S, NEW ended, WarmMove(t, S, ended)
  PROVE  {j \in ended : stage = "warm" /\ start[j] < boundary} = ended \cap History(start)
<1>1. ended \in SUBSET Jobs
  BY DEF WarmMove, Moved, Ending
<1>2. CASE stage = "warm"
  BY <1>1, <1>2 DEF History
<1>3. CASE stage # "warm"
  <2>1. ASSUME NEW j \in ended, start[j] < boundary PROVE FALSE
    <3>1. PICK e \in evtq : e.kind = "end" /\ e.job = j /\ e.t = t
      BY DEF WarmMove
    <3>2. e.t > limit \/ e.t >= Infinity
      BY <1>3, <2>1, <3>1 DEF Staged, StageInv, OutOfReach
    <3>3. t \in 0 .. Horizon /\ t <= target /\ target = limit /\ target \in 0 .. Infinity
      BY DEF WarmMove, Staged, StageInv, WarmLoop, ClockInv
    <3> QED BY <3>1, <3>2, <3>3, Constants
  <2> QED BY <1>3, <2>1 DEF History
<1> QED BY <1>2, <1>3

(* The ENDs of historical jobs that are pending were pending before. *)
LEMMA MovedReach ==
  ASSUME Staged, stage # "warm", NEW t \in 0 .. Horizon, now <= t,
         NEW S, NEW ended, Moved(t, S, ended)
  PROVE  \A e \in evtq' : e.kind = "end" /\ start'[e.job] < boundary => OutOfReach(e)
<1> SUFFICES ASSUME NEW e \in evtq', e.kind = "end", start'[e.job] < boundary
             PROVE  OutOfReach(e)
  OBVIOUS
<1>1. /\ S \in SUBSET ToSet(waiting) /\ (e \in evtq \/ e.job \in S)
      /\ start' = [j \in Jobs |-> IF j \in S THEN t ELSE start[j]]
  BY DEF Moved
<1>2. ToSet(waiting) \in SUBSET Jobs
  <2>1. waiting \in Seq(Jobs)
    BY DEF Staged, WarmLoop
  <2> QED BY <2>1, InToSet
<1>3. e.job \notin S
  <2>1. t \in Nat /\ boundary \in Nat /\ boundary <= t
    BY StageBounds, Constants
  <2> QED BY <2>1, <1>1, <1>2
<1>4. e \in evtq /\ Owed(start, e)
  BY <1>1, <1>3 DEF Staged, WarmLoop, Tally
<1>5. start[e.job] < boundary
  BY <1>1, <1>3, <1>4 DEF Owed
<1> QED BY <1>4, <1>5 DEF Staged, StageInv

LEMMA StageStepKeeps ==
  ASSUME Staged, StageStep
  PROVE  Staged'
<1> DEFINE ended      == {e.job : e \in {f \in evtq \ evtq' : f.kind = "end"}}
           historical == {j \in ended : stage = "warm" /\ start[j] < boundary}
<1>1. /\ looping /\ Step
      /\ suppressed' = suppressed \cup historical
      /\ preStart' = preStart - Cardinality(historical)
      /\ completed' = completed + Cardinality(ended \ historical)
      /\ stage' = IF looping' THEN stage ELSE IF stage = "warm" THEN "ordinary" ELSE "ran"
      /\ UNCHANGED <<boundary, inherit, limit, batch, rerun>>
  BY DEF StageStep
<1>2. stage \in {"warm", "ordinary", "ran"} /\ target = limit
      /\ boundary \in 0 .. Horizon /\ boundary <= now /\ now \in Nat
      /\ limit \in Targets \cup {Drain}
  BY <1>1, StageBounds DEF Staged, StageInv
<1>3. CASE ProcessEvents \/ ProcessArrivals \/ ProcessCapacity \/ ProcessTick
  <2>1. WarmLoop' /\ \E t, S, gone : WarmMove(t, S, gone)
    BY <1>1, <1>3, LoopMoves DEF Staged
  <2>2. PICK t, S, gone : WarmMove(t, S, gone)
    BY <2>1
  <2>3. gone = ended
    BY <2>2 DEF WarmMove, Moved
  <2> HIDE DEF ended
  <2>4. WarmMove(t, S, ended)
    BY <2>2, <2>3
  <2>5. /\ t \in 0 .. Horizon /\ now <= t /\ Moved(t, S, ended) /\ now' = t
        /\ UNCHANGED <<job, target, looping>>
    BY <2>4 DEF WarmMove, Moved
  <2>6. historical = ended \cap History(start)
    BY <1>1, <2>4, EndedHistory
  <2> HIDE DEF historical
  <2>7. HistorySeparate'
    BY <1>1, <1>2, <2>1, <2>5, <2>6, SeparateMoves DEF Staged
  <2>8. stage' = stage
    BY <1>1, <2>5
  <2>9. stage # "warm" =>
          \A e \in evtq' : e.kind = "end" /\ start'[e.job] < boundary => OutOfReach(e)
    BY <2>5, MovedReach
  <2>10. boundary <= now'
    BY <1>2, <2>5, Constants
  <2>11. StageInv'
    BY <1>1, <1>2, <2>5, <2>8, <2>9, <2>10 DEF StageInv, OutOfReach
  <2> QED BY <1>2, <2>1, <2>7, <2>8, <2>11 DEF Staged
<1>4. CASE Return
  <2>1. /\ WarmLoop' /\ now' >= now /\ ~looping'
        /\ UNCHANGED <<job, target, start, evtq>>
        /\ \A e \in evtq : e.t > target \/ e.t >= Infinity
    BY <1>1, <1>4, ReturnRests DEF Staged
  <2>2. ended = {} /\ historical = {}
    BY <2>1
  <2> HIDE DEF ended, historical
  <2>3. suppressed' = suppressed /\ preStart' = preStart /\ completed' = completed
    <3>1. preStart \in Nat /\ completed \in Nat
      <4>1. /\ preStart = Cardinality(History(start) \ Gone(start, evtq))
            /\ completed = Cardinality(Gone(start, evtq) \ History(start))
        BY SeparateIs DEF Accounts, Staged, WarmLoop, Tally
      <4>2. /\ History(start) \ Gone(start, evtq) \in SUBSET Jobs
            /\ Gone(start, evtq) \ History(start) \in SUBSET Jobs
        BY DEF History, Gone
      <4> QED BY <4>1, <4>2, JobsFinite, FS_CardinalityType
    <3> QED BY <1>1, <2>2, <3>1, FS_EmptySet
  <2>4. stage' \in {"ordinary", "ran"}
    BY <1>1, <2>1
  <2>5. HistorySeparate'
    BY <1>1, <2>1, <2>3, <2>4 DEF Staged, HistorySeparate, Waiters, Historical
  <2>6. boundary <= now'
    <3>1. now' \in Nat
      BY <2>1, Constants DEF WarmLoop, ClockInv
    <3> QED BY <1>2, <2>1, <3>1, Constants
  <2>7. StageInv'
    BY <1>1, <1>2, <2>1, <2>4, <2>6 DEF StageInv, OutOfReach
  <2> QED BY <2>1, <2>4, <2>5, <2>7 DEF Staged
<1> QED BY <1>1, <1>3, <1>4 DEF Step

LEMMA StagedNext ==
  ASSUME Staged, UNCHANGED <<job, changes, now, target, capacity, nextChange, waiting, running,
                             evtq, inUse, releasing, nextTick, start, batch>>,
         UNCHANGED <<boundary, inherit, limit, preStart, suppressed, completed>>,
         looping' \in {looping, FALSE}, stage' # "none",
         StageInv'
  PROVE  Staged'
<1>1. ClockInv' /\ CapacityInv' /\ TickInv'
  <2>1. NextCapacity' = NextCapacity
    BY Zenon DEF NextCapacity
  <2>2. looping' => looping
    OBVIOUS
  <2>3. ClockInv'
    BY <2>2 DEF Staged, WarmLoop, ClockInv
  <2>4. CapacityInv'
    BY <2>1, <2>2 DEF Staged, WarmLoop, CapacityInv
  <2>5. TickInv'
    BY <2>2 DEF Staged, WarmLoop, TickInv
  <2> QED BY <2>3, <2>4, <2>5
<1>2. Tally(now, start, evtq, inUse, releasing)'
  <2>1. Tally(now', start', evtq', inUse', releasing')
    BY DEF Staged, WarmLoop
  <2> QED BY <2>1, TallyNext
<1>3. WarmLoop'
  BY <1>1, <1>2 DEF Staged, WarmLoop
<1>4. HistorySeparate'
  BY DEF Staged, HistorySeparate, Waiters, Historical
<1> QED BY <1>3, <1>4 DEF Staged

(* The warm stage ends with its last historical job. *)
LEMMA WarmReturnKeeps ==
  ASSUME Staged, WarmReturn
  PROVE  Staged'
<1>1. /\ stage = "warm" /\ preStart = 0 /\ looping' = FALSE /\ stage' = "ordinary"
      /\ UNCHANGED <<job, changes, now, target, capacity, nextChange, waiting, running, evtq,
                     inUse, releasing, nextTick, start, batch>>
      /\ UNCHANGED <<boundary, inherit, limit, preStart, suppressed, completed>>
  BY DEF WarmReturn, caller, resources
<1>2. History(start) \ Gone(start, evtq) = {}
  <2> DEFINE X == History(start) \ Gone(start, evtq)
  <2>1. X \in SUBSET Jobs
    BY DEF History
  <2>2. Cardinality(X) = 0
    BY <1>1, SeparateIs DEF Accounts, Staged, WarmLoop, Tally
  <2> HIDE DEF X
  <2>3. X = {}
    BY <2>1, <2>2, JobsFinite, FS_EmptySet
  <2> QED BY <2>3 DEF X
<1>3. ASSUME NEW e \in evtq, e.kind = "end", start[e.job] < boundary PROVE FALSE
  <2>1. e.job \in Jobs
    BY DEF Staged, WarmLoop, Tally, Owed
  <2>2. e.job \in History(start) /\ e.job \in Ending(evtq)
    BY <1>3, <2>1 DEF History, Ending
  <2> QED BY <1>2, <2>2 DEF Gone
<1>4. StageInv'
  BY <1>1, <1>3 DEF Staged, StageInv, OutOfReach
<1> QED BY <1>1, <1>4, StagedNext

LEMMA OpenStageKeeps ==
  ASSUME Staged, OpenStage
  PROVE  Staged'
<1>1. /\ stage \in {"warm", "ordinary"} /\ advance_to(limit)
      /\ UNCHANGED <<boundary, inherit, limit, stage, preStart, suppressed, completed,
                     batch, rerun>>
  BY DEF OpenStage, warm
<1>2. limit \in Targets \cup {Drain} /\ boundary \in 0 .. Horizon /\ boundary <= now
      /\ now \in 0 .. Horizon /\ now \in Nat
  BY StageBounds DEF Staged, StageInv, WarmLoop, ClockInv
<1>3. /\ WarmLoop' /\ looping' /\ target' = limit /\ job' = job
      /\ \E S : Moved(now, S, {})
  BY <1>1, <1>2, OpenMoves DEF Staged
<1>4. PICK S : Moved(now, S, {})
  BY <1>3
<1>5. now' = now
  BY <1>4 DEF Moved
<1>6. HistorySeparate'
  <2>1. /\ preStart \in Nat /\ completed \in Nat
    <3>1. /\ preStart = Cardinality(History(start) \ Gone(start, evtq))
          /\ completed = Cardinality(Gone(start, evtq) \ History(start))
      BY SeparateIs DEF Accounts, Staged, WarmLoop, Tally
    <3>2. /\ History(start) \ Gone(start, evtq) \in SUBSET Jobs
          /\ Gone(start, evtq) \ History(start) \in SUBSET Jobs
      BY DEF History, Gone
    <3> QED BY <3>1, <3>2, JobsFinite, FS_CardinalityType
  <2>2. /\ {} = {} \cap History(start) /\ suppressed' = suppressed \cup {}
        /\ preStart' = preStart - Cardinality({})
        /\ completed' = completed + Cardinality({} \ {})
    <3>1. Cardinality({}) = 0 /\ {} \ {} = {}
      BY FS_EmptySet
    <3> QED BY <1>1, <2>1, <3>1
  <2>3. /\ WarmLoop /\ WarmLoop' /\ stage # "none" /\ HistorySeparate
        /\ UNCHANGED <<job, boundary, inherit, batch>> /\ now <= now
    BY <1>1, <1>2, <1>3 DEF Staged
  <2> QED BY <1>2, <1>4, <2>2, <2>3, SeparateMoves
<1>7. StageInv'
  <2>1. stage # "warm" =>
          \A e \in evtq' : e.kind = "end" /\ start'[e.job] < boundary => OutOfReach(e)
    BY <1>2, <1>4, MovedReach
  <2> QED BY <1>1, <1>2, <1>3, <1>5, <2>1 DEF StageInv, OutOfReach
<1> QED BY <1>1, <1>3, <1>6, <1>7 DEF Staged

-----------------------------------------------------------------------------
(* The state that the recorded trace is turned into at the boundary. *)
LEMMA BoundaryTally ==
  ASSUME job \in Workloads, batch \in [Jobs -> 0 .. Horizon], NEW b \in 0 .. Horizon,
         NEW st, st = [j \in Jobs |-> IF j \in Historical(b) THEN batch[j] ELSE Infinity],
         NEW live, live = Historical(b) \ Departed(b),
         NEW evs,
         evs = {[t |-> EndOf(j), kind |-> "end", job |-> j] : j \in live} \cup
               {[t |-> b + job[j].delay, kind |-> "release", job |-> j] : j \in Cleaning(b)}
  PROVE  /\ Tally(b, st, evs, NodesOf(live), NodesOf(Cleaning(b)))
         /\ Ending(evs) = live
<1>1. /\ Historical(b) \in SUBSET Jobs /\ Departed(b) \in SUBSET Historical(b)
      /\ Cleaning(b) \in SUBSET Departed(b) /\ live \in SUBSET Jobs
  BY DEF Historical, Departed, Cleaning
<1>2. \A j \in Jobs : /\ batch[j] \in Nat /\ batch[j] # Infinity /\ batch[j] \in 0 .. Infinity
                      /\ job[j].run \in Nat /\ job[j].delay \in Nat
  BY JobFacts, Constants
<1>3. st \in [Jobs -> 0 .. Infinity] /\ \A j \in Historical(b) : st[j] = batch[j]
  <2>1. Infinity \in 0 .. Infinity
    BY Constants
  <2>2. \A j \in Jobs : (IF j \in Historical(b) THEN batch[j] ELSE Infinity) \in 0 .. Infinity
    BY <1>2, <2>1
  <2> QED BY <1>1, <2>2
<1>4. Ending(evs) = live
  <2>1. \A e \in evs : e.kind = "end" => e.job \in live
    OBVIOUS
  <2>2. \A j \in live : \E e \in evs : e.kind = "end" /\ e.job = j
    <3> SUFFICES ASSUME NEW j \in live PROVE \E e \in evs : e.kind = "end" /\ e.job = j
      OBVIOUS
    <3> DEFINE d == [t |-> EndOf(j), kind |-> "end", job |-> j]
    <3>1. d \in evs
      OBVIOUS
    <3>2. d.kind = "end" /\ d.job = j
      OBVIOUS
    <3> HIDE DEF d
    <3> QED BY <3>1, <3>2
  <2> QED BY <1>1, <2>1, <2>2 DEF Ending
<1>5. Held(evs) = Cleaning(b)
  <2>1. \A e \in evs : e.kind = "release" => e.job \in Cleaning(b)
    OBVIOUS
  <2>2. \A j \in Cleaning(b) : \E e \in evs : e.kind = "release" /\ e.job = j
    <3> SUFFICES ASSUME NEW j \in Cleaning(b)
                 PROVE  \E e \in evs : e.kind = "release" /\ e.job = j
      OBVIOUS
    <3> DEFINE d == [t |-> b + job[j].delay, kind |-> "release", job |-> j]
    <3>1. d \in evs
      OBVIOUS
    <3>2. d.kind = "release" /\ d.job = j
      OBVIOUS
    <3> HIDE DEF d
    <3> QED BY <3>1, <3>2
  <2> QED BY <1>1, <2>1, <2>2 DEF Held
<1>6. ASSUME NEW e \in evs PROVE Owed(st, e) /\ e.t > b
  <2>0. b \in Nat
    BY Constants
  <2>1. CASE \E j \in live : e = [t |-> EndOf(j), kind |-> "end", job |-> j]
    <3>1. PICK j \in live : e = [t |-> EndOf(j), kind |-> "end", job |-> j]
      BY <2>1
    <3>2. e.t = EndOf(j) /\ e.kind = "end" /\ e.job = j
      BY <3>1
    <3>3. /\ j \in Historical(b) /\ j \in Jobs /\ ~(EndOf(j) <= b)
          /\ EndOf(j) = batch[j] + job[j].run
      BY <1>1 DEF Departed, EndOf
    <3> QED BY <2>0, <3>2, <3>3, <1>2, <1>3 DEF Owed
  <2>2. CASE \E j \in Cleaning(b) :
               e = [t |-> b + job[j].delay, kind |-> "release", job |-> j]
    <3>1. PICK j \in Cleaning(b) : e = [t |-> b + job[j].delay, kind |-> "release", job |-> j]
      BY <2>2
    <3>2. e.t = b + job[j].delay /\ e.kind = "release" /\ e.job = j
      BY <3>1
    <3>3. /\ j \in Historical(b) /\ j \in Jobs /\ batch[j] + job[j].run = b
          /\ job[j].delay > 0
      BY <1>1 DEF Cleaning, EndOf
    <3> QED BY <2>0, <3>2, <3>3, <1>2, <1>3 DEF Owed, Over
  <2> QED BY <2>1, <2>2
<1>7. live \cap Cleaning(b) = {}
  BY <1>1
<1> QED BY <1>3, <1>4, <1>5, <1>6, <1>7 DEF Tally

LEMMA BoundaryCursor ==
  ASSUME changes \in Schedules, NEW b, NEW due,
         due = {i \in 1 .. Len(changes) : changes[i].time <= b},
         capacity' = IF due = {} THEN TotalNodes ELSE changes[Max(due)].total,
         nextChange' = 1 + Cardinality(due)
  PROVE  nextChange' \in 1 .. Len(changes) + 1 /\ capacity' \in Nat
<1>1. Len(changes) \in Nat /\ \A i \in 1 .. Len(changes) : changes[i].total \in Nat
  BY ScheduleShape
<1>2. due \in SUBSET (1 .. Len(changes))
  OBVIOUS
<1>3. Cardinality(due) \in 0 .. Len(changes)
  <2> DEFINE n == Len(changes)
  <2>0. n \in Nat /\ due \in SUBSET (1 .. n)
    BY <1>1, <1>2
  <2> HIDE DEF n
  <2>1. IsFiniteSet(1 .. n) /\ Cardinality(1 .. n) = n
    BY <2>0, FS_Interval
  <2>2. Cardinality(due) \in Nat /\ Cardinality(due) <= Cardinality(1 .. n)
    BY <2>0, <2>1, FS_Subset, FS_CardinalityType
  <2>3. Cardinality(due) \in 0 .. n
    BY <2>0, <2>1, <2>2
  <2> QED BY <2>3 DEF n
<1>4. TotalNodes \in Nat
  BY WorkloadAssumption DEF Nodes
<1>5. due # {} => Max(due) \in due
  <2>1. due \subseteq 0 .. Len(changes)
    BY <1>1, <1>2
  <2> QED BY <1>1, <2>1, MaxIs
<1> QED BY <1>1, <1>2, <1>3, <1>4, <1>5

LEMMA WarmStartStages ==
  ASSUME job \in Workloads, changes \in Schedules, batch \in [Jobs -> 0 .. Horizon],
         NEW b \in Boundaries, NEW keep \in BOOLEAN, NEW to \in Targets \cup {Drain},
         run_warm_start(b, keep, to)
  PROVE  Staged'
<1> DEFINE live    == Historical(b) \ Departed(b)
           waiters == IF keep THEN Waiters(b) ELSE {}
           due     == {i \in 1 .. Len(changes) : changes[i].time <= b}
           arrived == waiters \cup Later(b)
           all     == [j \in Jobs |-> j]
<1>1. /\ boundary' = b /\ inherit' = keep /\ limit' = to
      /\ preStart' = PreStartAt(b)
      /\ stage' = IF preStart' = 0 THEN "ordinary" ELSE "warm"
      /\ suppressed' = Departed(b) \cup (Waiters(b) \ waiters)
      /\ completed' = 0 /\ now' = b /\ target' = b /\ looping' = FALSE
      /\ capacity' = IF due = {} THEN TotalNodes ELSE changes[Max(due)].total
      /\ nextChange' = 1 + Cardinality(due)
      /\ waiting' = Erased(all, Jobs \ arrived)
      /\ running' = RunningAt(b)
      /\ evtq' = {[t |-> EndOf(j), kind |-> "end", job |-> j] : j \in live} \cup
                 {[t |-> b + job[j].delay, kind |-> "release", job |-> j] : j \in Cleaning(b)}
      /\ inUse' = NodesOf(live) /\ releasing' = NodesOf(Cleaning(b))
      /\ start' = [j \in Jobs |-> IF j \in Historical(b) THEN batch[j] ELSE Infinity]
      /\ nextTick' = Infinity
      /\ UNCHANGED <<job, changes, batch>>
  BY DEF run_warm_start
<1>2. b \in 0 .. Horizon /\ b \in Nat /\ b < Infinity
  BY BoundariesAssumption, Constants DEF Time
<1>3. /\ Historical(b) \in SUBSET Jobs /\ Departed(b) \in SUBSET Historical(b)
      /\ waiters \in SUBSET (Jobs \ Historical(b)) /\ arrived \in SUBSET (Jobs \ Historical(b))
      /\ live \in SUBSET Jobs
  BY DEF Historical, Departed, Waiters, Later
<1>4. \A j \in Jobs : batch[j] # Infinity /\ batch[j] \in Nat
  BY Constants
<1>5. Tally(b, start', evtq', inUse', releasing') /\ Ending(evtq') = live
  <2>1. /\ live = Historical(b) \ Departed(b)
        /\ job \in Workloads /\ batch \in [Jobs -> 0 .. Horizon]
    OBVIOUS
  <2> HIDE DEF live
  <2>2. /\ Tally(b, start', evtq', NodesOf(live), NodesOf(Cleaning(b)))
        /\ Ending(evtq') = live
    BY ONLY <1>1, <1>2, <2>1, BoundaryTally
  <2> QED BY <2>2, <1>1
<1>6. Tally(now, start, evtq, inUse, releasing)'
  <2>1. Tally(now', start', evtq', inUse', releasing')
    BY <1>1, <1>5
  <2> QED BY <1>1, <2>1, TallyNext
<1>7. waiting' \in Seq(Jobs) /\ \A j \in ToSet(waiting') : start'[j] = Infinity
  <2>1. all \in Seq(Jobs) /\ ToSet(all) = Jobs
    <3>1. NumJobs \in Nat /\ Jobs = 1 .. NumJobs
      BY Constants DEF Jobs
    <3>2. all \in Seq(Jobs)
      BY <3>1
    <3> HIDE DEF all
    <3>3. DOMAIN all = Jobs /\ \A j \in Jobs : all[j] = j
      BY DEF all
    <3>4. Len(all) = NumJobs
      BY <3>1, <3>2, <3>3
    <3>5. \A x : x \in ToSet(all) <=> \E k \in 1 .. Len(all) : all[k] = x
      BY <3>2, InToSet
    <3>6. ASSUME NEW x PROVE x \in ToSet(all) <=> x \in Jobs
      BY <3>1, <3>3, <3>4, <3>5
    <3>7. ToSet(all) = Jobs
      BY <3>6, Zenon
    <3> QED BY <3>2, <3>7
  <2> HIDE DEF all, arrived
  <2>2. /\ waiting' \in Seq(Jobs) /\ ToSet(waiting') = Jobs \ (Jobs \ arrived)
    BY <1>1, <2>1, ErasedFacts
  <2>3. \A j \in ToSet(waiting') : j \in Jobs /\ j \notin Historical(b)
    BY <2>2, <1>3
  <2> QED BY <1>1, <2>2, <2>3
<1>8. DOMAIN running' \in SUBSET Jobs /\ \A j \in DOMAIN running' : start'[j] # Infinity
  <2>1. DOMAIN running' = live
    BY <1>1 DEF RunningAt
  <2> QED BY <1>1, <1>3, <1>4, <2>1
<1>9. ClockInv' /\ TickInv'
  BY <1>1, <1>2, Constants DEF ClockInv, TickInv
<1>10. CapacityInv'
  <2> HIDE DEF due
  <2>1. nextChange' \in 1 .. Len(changes) + 1 /\ capacity' \in Nat
    BY <1>1, BoundaryCursor DEF due
  <2> QED BY <1>1, <2>1 DEF CapacityInv
<1>11. WarmLoop'
  BY <1>1, <1>6, <1>7, <1>8, <1>9, <1>10 DEF WarmLoop
<1>12. start' \in [Jobs -> 0 .. Infinity]
  BY <1>5 DEF Tally
<1>13. History(start)' = Historical(b) /\ Gone(start', evtq') = Departed(b)
  <2>1. History(start)' = {j \in Jobs : start'[j] < b}
    BY <1>1 DEF History
  <2>2. \A j \in Jobs : start'[j] < b <=> j \in Historical(b)
    BY <1>1, <1>2, Constants DEF Historical
  <2>3. \A j \in Jobs : start'[j] # Infinity <=> j \in Historical(b)
    BY <1>1, <1>4
  <2>4. \A j \in Jobs : j \in Departed(b) <=> j \in Historical(b) /\ j \notin live
    BY <1>3
  <2> QED BY <1>3, <1>5, <2>1, <2>2, <2>3, <2>4 DEF Gone
<1>14. Waiters(boundary)' = Waiters(b)
  BY <1>1 DEF Waiters, Historical
<1>15. HistorySeparate'
  <2>1. preStart' = Cardinality(Historical(b) \ Departed(b))
    BY <1>1 DEF PreStartAt
  <2>2. completed' = Cardinality(Departed(b) \ Historical(b))
    <3>1. Departed(b) \ Historical(b) = {}
      BY <1>3
    <3> QED BY <1>1, <3>1, FS_EmptySet
  <2>3. suppressed' = (Departed(b) \cap Historical(b)) \cup
                      (IF inherit' THEN {} ELSE Waiters(b))
    BY <1>1, <1>3
  <2> QED BY <1>12, <1>13, <1>14, <2>1, <2>2, <2>3, SeparateNext
<1>16. StageInv'
  <2>1. ASSUME stage' # "warm" PROVE evtq' \cap {e \in evtq' : e.kind = "end"} = {}
    <3>1. Cardinality(live) = 0
      BY <1>1, <2>1 DEF PreStartAt
    <3> HIDE DEF live
    <3>2. live = {}
      BY <3>1, <1>3, JobsFinite, FS_EmptySet
    <3>3. \A e \in evtq' : e.job \in Jobs
      BY <1>5 DEF Tally, Owed
    <3> QED BY <1>5, <3>2, <3>3 DEF Ending
  <2> QED BY <1>1, <1>2, <2>1 DEF StageInv, OutOfReach
<1>17. stage' # "none"
  BY <1>1
<1> QED BY <1>11, <1>15, <1>16, <1>17 DEF Staged

-----------------------------------------------------------------------------
LEMMA StagedUnchanged ==
  ASSUME Staged, UNCHANGED <<vars, batch, warm>>
  PROVE  Staged'
<1>1. /\ UNCHANGED <<job, changes, now, target, looping, capacity, nextChange, waiting, running,
                     evtq, inUse, releasing, nextTick, start, batch>>
      /\ UNCHANGED <<boundary, inherit, limit, stage, preStart, suppressed, completed>>
  BY DEF vars, caller, warm
<1>2. StageInv'
  BY <1>1 DEF Staged, StageInv, OutOfReach
<1>3. stage' # "none"
  BY <1>1 DEF Staged
<1> QED BY <1>1, <1>2, <1>3, StagedNext

(* No other rerun touches the warm start. *)
LEMMA WarmElsewhere ==
  ASSUME WarmInv, rerun # "warm", UNCHANGED warm, rerun' \notin {"batch", "warm"}
  PROVE  WarmInv'
<1>1. stage = "none" /\ stage' = "none"
  BY DEF WarmInv, warm
<1> QED BY <1>1 DEF WarmInv

LEMMA InitWarm == RerunsInit => WarmInv
  BY InitInv DEF RerunsInit, StreamingInit, WarmInit, WarmInv

LEMMA WarmSteps ==
  ASSUME WarmInv, Warm
  PROVE  WarmInv'
<1>1. CASE initialize_trace
  <2>1. /\ rerun = "batch" /\ Drained /\ batch' = start /\ rerun' = "warm"
        /\ \A j \in Jobs : start[j] < Infinity
        /\ UNCHANGED <<job, changes, looping, stage>>
    BY <1>1 DEF initialize_trace, BatchDone, vars, caller, warm
  <2>2. /\ job \in Workloads /\ changes \in Schedules /\ start \in [Jobs -> 0 .. Infinity]
        /\ stage = "none" /\ ~looping
    BY <2>1 DEF WarmInv, LoopInv, CapacityInv, Books, Drained
  <2>3. start \in [Jobs -> 0 .. Horizon]
    <3>1. \A j \in Jobs : start[j] \in 0 .. Horizon
      BY <2>1, <2>2, Constants
    <3> QED BY <2>2, <3>1
  <2> QED BY <2>1, <2>2, <2>3 DEF WarmInv
<1>2. ASSUME NEW b \in Boundaries, NEW keep \in BOOLEAN, NEW to \in Targets \cup {Drain},
             run_warm_start(b, keep, to)
      PROVE  WarmInv'
  <2>1. rerun = "warm" /\ stage = "none" /\ rerun' = rerun
    BY <1>2 DEF run_warm_start
  <2>2. job \in Workloads /\ changes \in Schedules /\ batch \in [Jobs -> 0 .. Horizon]
    BY <2>1 DEF WarmInv
  <2>3. Staged'
    BY <1>2, <2>2, WarmStartStages
  <2> QED BY <2>1, <2>3 DEF Staged, WarmInv
<1>3. CASE OpenStage \/ StageStep \/ WarmReturn
  <2>1. rerun = "warm" /\ rerun' = rerun /\ (looping \/ stage # "none")
    BY <1>3 DEF OpenStage, StageStep, WarmReturn
  <2>2. stage # "none"
    BY <2>1 DEF WarmInv
  <2>3. Staged
    BY <2>2 DEF WarmInv, Staged
  <2>4. Staged'
    BY <1>3, <2>3, OpenStageKeeps, StageStepKeeps, WarmReturnKeeps
  <2> QED BY <2>1, <2>4 DEF Staged, WarmInv
<1> QED BY <1>1, <1>2, <1>3 DEF Warm

LEMMA WarmKept ==
  ASSUME WarmInv,
         [RerunsNext]_<<vars, batch, rerun, oracle, warm, reported, replay, files>>
  PROVE  WarmInv'
<1>1. CASE (Batch \/ Again) /\ UNCHANGED <<oracle, warm, replay, files>>
  <2>1. CASE Batch
    <3>1. /\ rerun = "batch" /\ rerun' = "batch" /\ UNCHANGED warm
          /\ append_job \/ advance_to(Drain) \/ Step
      BY <1>1, <2>1 DEF Batch
    <3>2. Next
      BY <3>1 DEF Next
    <3>3. LoopInv'
      BY <3>1, <3>2, LoopStep DEF WarmInv
    <3>4. stage' = "none"
      BY <3>1 DEF WarmInv, warm
    <3> QED BY <3>1, <3>3, <3>4 DEF WarmInv
  <2>2. CASE Again
    <3>1. rerun = "batch" /\ rerun' = "stream"
      BY <2>2 DEF Again, BatchDone
    <3> QED BY <1>1, <3>1, WarmElsewhere
  <2> QED BY <1>1, <2>1, <2>2
<1>2. CASE QueriedStream /\ UNCHANGED <<oracle, warm, replay, files>>
  <2>1. rerun = "stream" /\ rerun' = rerun
    BY <1>2 DEF QueriedStream, Stream
  <2> QED BY <1>2, <2>1, WarmElsewhere
<1>3. CASE (simulate \/ EventLoop) /\ UNCHANGED <<warm, reported, replay, files>>
  <2>1. rerun # "warm" /\ rerun' = "oracle"
    BY <1>3 DEF simulate, BatchDone, EventLoop
  <2> QED BY <1>3, <2>1, WarmElsewhere
<1>4. CASE Warm
  BY <1>4, WarmSteps
<1>5. CASE Replayed /\ UNCHANGED <<oracle, warm, reported, files>>
  <2>1. rerun # "warm" /\ rerun' = "replay"
    BY <1>5 DEF Replayed, run_replay, BatchDone
  <2> QED BY <1>5, <2>1, WarmElsewhere
<1>6. CASE Files /\ UNCHANGED <<oracle, warm, reported, replay>>
  <2>1. rerun # "warm" /\ rerun' = "progressive"
    BY <1>6 DEF Files, run_progressive
  <2> QED BY <1>6, <2>1, WarmElsewhere
<1>7. CASE UNCHANGED <<vars, batch, rerun, oracle, warm, reported, replay, files>>
  <2>1. UNCHANGED vars /\ UNCHANGED <<batch, rerun, warm>>
    BY <1>7
  <2>2. stage' = stage /\ looping' = looping /\ job' = job /\ changes' = changes
    BY <2>1 DEF warm, vars, caller
  <2>3. rerun = "batch" => LoopInv'
    BY <2>1, LoopStep DEF WarmInv
  <2>4. stage # "none" => Staged'
    BY <2>1, StagedUnchanged DEF WarmInv, Staged
  <2> QED BY <2>1, <2>2, <2>3, <2>4 DEF WarmInv, Staged
<1> QED BY <1>1, <1>2, <1>3, <1>4, <1>5, <1>6, <1>7 DEF RerunsNext

(* HistorySeparate for every workload, capacity schedule, boundary, target *)
(* and set of release delays: however many jobs cross the boundary, end on *)
(* it or are cleaned up across it, the count that ends the warm stage is   *)
(* that of the historical jobs still running, and none of them is          *)
(* completed.  advance_to_impl() cannot throw its historical-job count     *)
(* underflow.                                                              *)
THEOREM HistoryNeverCounted == RerunsSpec => []HistorySeparate
<1>1. WarmInv => HistorySeparate
  BY DEF WarmInv, HistorySeparate
<1> QED BY <1>1, InitWarm, WarmKept, PTL DEF RerunsSpec
=============================================================================
