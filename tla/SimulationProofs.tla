-------------------------- MODULE SimulationProofs --------------------------
(***************************************************************************)
(* The event loop never starts a job on nodes that are taken, and a call   *)
(* of advance_to() consumes everything up to its target: for every         *)
(* workload, capacity schedule, tick interval, planning grid and set of    *)
(* release delays.                                                         *)
(*                                                                         *)
(* What a scheduling pass may do is characterized first: it starts only    *)
(* jobs of the queue that are due, and no more than fit the nodes that are *)
(* free.  The accounts do not depend on which of them.                     *)
(*                                                                         *)
(* A second invariant follows the loop to the end of a drain: the passes   *)
(* of an instant settle with the first job blocked, every job stays        *)
(* accounted for, and the clock never rests on a tick that nothing follows.*)
(*                                                                         *)
(* A third one is about the jobs a pass picks behind the blocked head: its *)
(* reservation stays possible.                                             *)
(***************************************************************************)
EXTENDS Simulation, SumProofs, SequenceTheorems

-----------------------------------------------------------------------------
(* The workload. *)
LEMMA Constants ==
  /\ Horizon \in Nat /\ NumJobs \in Nat /\ Infinity = Horizon + 1 /\ Drain = Infinity
  /\ BackfillInterval \in Nat /\ BackfillDepth \in Nat
  /\ Targets \subseteq 0 .. Horizon
  BY WorkloadAssumption, SchedulingAssumption DEF Time, Infinity, Drain

LEMMA JobFacts ==
  ASSUME job \in Workloads, NEW j \in Jobs
  PROVE  /\ job[j].submit \in 0 .. Horizon
         /\ job[j].nodes \in Nat \ {0} /\ job[j].run \in Nat \ {0} /\ job[j].delay \in Nat
         /\ ReleaseDelays = {} => job[j].delay = 0
<1>1. job[j] \in JobSpecs
  BY DEF Workloads
<1>2. PICK s \in Submits, n \in Requests, shape \in Shapes,
           d \in IF ReleaseDelays = {} THEN {0} ELSE ReleaseDelays :
        job[j] = [submit |-> s, nodes |-> n, limit |-> shape[1], run |-> shape[2], delay |-> d]
  BY <1>1 DEF JobSpecs
<1>3. s \in 0 .. Horizon
  BY WorkloadAssumption DEF Time
<1>4. n \in Nat \ {0}
  BY WorkloadAssumption DEF Nodes
<1>5. shape[2] \in Nat \ {0}
  BY WorkloadAssumption
<1>6. d \in Nat /\ (ReleaseDelays = {} => d = 0)
  BY SchedulingAssumption
<1> QED BY <1>2, <1>3, <1>4, <1>5, <1>6

LEMMA JobsFinite ==
  ASSUME NEW J \in SUBSET Jobs
  PROVE  IsFiniteSet(J) /\ IsFiniteSet(Jobs)
<1>1. IsFiniteSet(Jobs)
  BY Constants, FS_Interval DEF Jobs
<1> QED BY <1>1, FS_Subset

(* Nodes of sets of jobs. *)
LEMMA NodesEmpty == NodesOf({}) = 0
  BY SumEmpty DEF NodesOf

LEMMA NodesUnion ==
  ASSUME job \in Workloads, NEW A \in SUBSET Jobs, NEW B \in SUBSET Jobs, A \cap B = {}
  PROVE  NodesOf(A \cup B) = NodesOf(A) + NodesOf(B)
<1> DEFINE F == [j \in Jobs |-> job[j].nodes]
<1>1. \A j \in Jobs : F[j] \in Int
  BY JobFacts
<1>2. IsFiniteSet(Jobs)
  BY JobsFinite
<1> HIDE DEF F
<1>3. SumFunctionOnSet(F, A \cup B) = SumFunctionOnSet(F, A) + SumFunctionOnSet(F, B)
  BY <1>1, <1>2, SumUnion
<1> QED BY <1>3 DEF NodesOf, F

LEMMA NodesType ==
  ASSUME job \in Workloads, NEW A \in SUBSET Jobs
  PROVE  NodesOf(A) \in Nat
<1> DEFINE F == [j \in Jobs |-> job[j].nodes]
<1>1. \A j \in A : F[j] \in Nat
  BY JobFacts
<1>2. IsFiniteSet(A)
  BY JobsFinite
<1>3. 0 \in Nat /\ \A a, b \in Nat : a + b \in Nat
  OBVIOUS
<1> HIDE DEF F
<1>4. SumFunctionOnSet(F, A) \in Nat
  BY <1>1, <1>2, <1>3, SumType
<1> QED BY <1>4 DEF NodesOf, F

LEMMA NodesSingle ==
  ASSUME job \in Workloads, NEW j \in Jobs
  PROVE  NodesOf({j}) = job[j].nodes
<1> DEFINE F == [i \in Jobs |-> job[i].nodes]
<1>1. F[j] = job[j].nodes /\ F[j] \in Int
  BY JobFacts
<1> HIDE DEF F
<1>2. SumFunctionOnSet(F, {j}) = F[j]
  BY <1>1, SumSingle
<1> QED BY <1>1, <1>2 DEF NodesOf, F

LEMMA NodesMinus ==
  ASSUME job \in Workloads, NEW A \in SUBSET Jobs, NEW B \in SUBSET A
  PROVE  NodesOf(A) = NodesOf(A \ B) + NodesOf(B) /\ NodesOf(B) <= NodesOf(A)
<1> DEFINE C == A \ B
<1>1. C \in SUBSET Jobs /\ B \in SUBSET Jobs /\ C \cap B = {} /\ A = C \cup B
  OBVIOUS
<1> HIDE DEF C
<1>2. NodesOf(A) = NodesOf(C) + NodesOf(B)
  BY <1>1, NodesUnion
<1>3. NodesOf(C) \in Nat /\ NodesOf(B) \in Nat
  BY <1>1, NodesType
<1> QED BY <1>2, <1>3 DEF C

LEMMA NodesCover ==
  ASSUME job \in Workloads, NEW A \in SUBSET Jobs, NEW B \in SUBSET Jobs
  PROVE  NodesOf(A \cup B) <= NodesOf(A) + NodesOf(B)
<1> DEFINE C == B \ A
<1>1. C \in SUBSET B /\ C \in SUBSET Jobs /\ A \cap C = {} /\ A \cup B = A \cup C
  OBVIOUS
<1> HIDE DEF C
<1>2. NodesOf(A \cup C) = NodesOf(A) + NodesOf(C)
  BY <1>1, NodesUnion
<1>3. NodesOf(C) <= NodesOf(B)
  BY <1>1, NodesMinus
<1>4. NodesOf(A) \in Nat /\ NodesOf(B) \in Nat /\ NodesOf(C) \in Nat
  BY <1>1, NodesType
<1>5. NodesOf(A \cup B) = NodesOf(A) + NodesOf(C)
  BY <1>1, <1>2
<1> DEFINE a == NodesOf(A)
           b == NodesOf(B)
           c == NodesOf(C)
<1> HIDE DEF a, b, c
<1>6. a + c <= a + b
  BY <1>3, <1>4 DEF a, b, c
<1> QED BY <1>5, <1>6 DEF a, b, c

LEMMA NodesPositive ==
  ASSUME job \in Workloads, NEW A \in SUBSET Jobs, A # {}
  PROVE  NodesOf(A) > 0
<1>1. PICK j \in A : TRUE
  OBVIOUS
<1>2. {j} \in SUBSET A /\ j \in Jobs
  BY <1>1
<1>3. NodesOf({j}) <= NodesOf(A) /\ NodesOf({j}) = job[j].nodes
  BY <1>2, NodesMinus, NodesSingle
<1>4. job[j].nodes \in Nat \ {0} /\ NodesOf(A) \in Nat
  BY <1>2, JobFacts, NodesType
<1> QED BY <1>3, <1>4

-----------------------------------------------------------------------------
(* Sequences as sets. *)
LEMMA InToSet ==
  ASSUME NEW T, NEW q \in Seq(T)
  PROVE  /\ \A x : x \in ToSet(q) <=> \E i \in 1 .. Len(q) : q[i] = x
         /\ ToSet(q) \in SUBSET T
<1>1. DOMAIN q = 1 .. Len(q) /\ \A i \in 1 .. Len(q) : q[i] \in T
  OBVIOUS
<1> QED BY <1>1 DEF ToSet

LEMMA SubSeqFacts ==
  ASSUME NEW T, NEW q \in Seq(T), NEW a \in 1 .. Len(q) + 1, NEW b \in 0 .. Len(q), a <= b + 1
  PROVE  /\ SubSeq(q, a, b) \in Seq(T) /\ Len(SubSeq(q, a, b)) = b - a + 1
         /\ \A x : x \in ToSet(SubSeq(q, a, b)) <=> \E i \in a .. b : q[i] = x
<1> DEFINE r == SubSeq(q, a, b)
<1>0. a \in Int /\ b \in Int /\ Len(q) \in Nat /\ a >= 1 /\ b <= Len(q) /\ \A i \in 1 .. Len(q) : q[i] \in T
  OBVIOUS
<1>1. r \in Seq(T) /\ Len(r) = b - a + 1 /\ \A k \in 1 .. b - a + 1 : r[k] = q[a + k - 1]
  <2>1. \A i \in a .. b : q[i] \in T
    BY <1>0
  <2>2. /\ r \in Seq(T) /\ Len(r) = IF a <= b THEN b - a + 1 ELSE 0
        /\ \A k \in 1 .. b - a + 1 : r[k] = q[a + k - 1]
    BY <2>1, <1>0, SubSeqProperties
  <2> QED BY <2>2, <1>0
<1> HIDE DEF r
<1>2. ASSUME NEW x PROVE x \in ToSet(r) <=> \E i \in a .. b : q[i] = x
  <2>1. ASSUME NEW k \in 1 .. Len(r), r[k] = x PROVE \E i \in a .. b : q[i] = x
    <3>1. a + k - 1 \in a .. b /\ q[a + k - 1] = x
      BY <2>1, <1>0, <1>1
    <3> QED BY <3>1
  <2>2. ASSUME NEW i \in a .. b, q[i] = x PROVE \E k \in 1 .. Len(r) : r[k] = x
    <3> DEFINE k == i - a + 1
    <3>1. k \in 1 .. b - a + 1 /\ a + k - 1 = i
      BY <1>0
    <3> HIDE DEF k
    <3>2. r[k] = q[i]
      BY <3>1, <1>1
    <3> QED BY <3>1, <3>2, <2>2, <1>1
  <2> QED BY <2>1, <2>2, <1>1, InToSet
<1> QED BY <1>1, <1>2 DEF r

(* Max of a bounded set of naturals. *)
LEMMA MaxIs ==
  ASSUME NEW b \in Nat, NEW T, T \subseteq 0 .. b, T # {}
  PROVE  Max(T) \in T /\ \A x \in T : x <= Max(T)
<1>1. \E x \in T : \A y \in T : y <= x
  BY GreatestExists
<1>2. \E x \in T : \A y \in T : x >= y
  <2>1. PICK x \in T : \A y \in T : y <= x
    BY <1>1
  <2>2. \A y \in T : y \in Int /\ x \in Int
    OBVIOUS
  <2> QED BY <2>1, <2>2
<1> DEFINE P(x) == \A y \in T : x >= y
<1>3. Max(T) = CHOOSE x \in T : P(x)
  BY DEF Max
<1>4. \E x \in T : P(x)
  BY <1>2
<1> HIDE DEF P
<1>5. Max(T) \in T /\ P(Max(T))
  BY <1>3, <1>4
<1>6. \A y \in T : y \in Int
  OBVIOUS
<1> QED BY <1>5, <1>6 DEF P

(* Tabulating a function does not change it. *)
LEMMA TableIs == ASSUME NEW f PROVE Table(f) = f
  BY DEF Table

-----------------------------------------------------------------------------
(* What a pass works on, and the jobs it may start: those that are due. *)
Ready(s) ==
  /\ s.queue \in Seq(Jobs) /\ s.t \in Nat /\ s.cap \in Nat /\ s.occupied \in Nat
DueIn(s) == {j \in ToSet(s.queue) : job[j].submit <= s.t}

LEMMA EligibleFacts ==
  ASSUME NEW s, Ready(s)
  PROVE  /\ EligibleEnd(s) \in 0 .. Len(s.queue)
         /\ \A i \in 1 .. EligibleEnd(s) : job[s.queue[i]].submit <= s.t
<1> DEFINE n == Len(s.queue)
           T == {k \in 0 .. n : \A i \in 1 .. k : job[s.queue[i]].submit <= s.t}
<1>1. n \in Nat
  BY DEF Ready
<1>2. EligibleEnd(s) = Max(T)
  BY DEF EligibleEnd
<1>3. T \subseteq 0 .. n /\ 0 \in T
  BY <1>1
<1>4. Max(T) \in T
  <2> HIDE DEF T, n
  <2> QED BY <1>1, <1>3, MaxIs
<1> QED BY <1>2, <1>4

LEMMA AvailableType ==
  ASSUME NEW s, Ready(s)
  PROVE  get_available_nodes(s) \in Nat
  BY DEF Ready, get_available_nodes

(* Step 1: the heads fit, and what it leaves is left. *)
LEMMA HeadsFacts ==
  ASSUME job \in Workloads, NEW s, Ready(s), NEW f, f = HeadsFirst(s)
  PROVE  /\ f.heads \in Seq(Jobs) /\ ToSet(f.heads) \in SUBSET DueIn(s)
         /\ f.blocked \in Seq(Jobs) /\ ToSet(f.blocked) \in SUBSET DueIn(s)
         /\ f.left \in Nat
         /\ NodesOf(ToSet(f.heads)) + f.left = get_available_nodes(s)
<1> DEFINE e == EligibleEnd(s)
           q == SubSeq(s.queue, 1, e)
           n == Len(q)
           first(k) == NodesOf({q[i] : i \in 1 .. k})
           free == get_available_nodes(s)
           T == {k \in 0 .. n : first(k) <= free}
           c == Max(T)
<1>1. f = [heads |-> SubSeq(q, 1, c), blocked |-> SubSeq(q, c + 1, n), left |-> free - first(c)]
  BY DEF HeadsFirst
<1>2. s.queue \in Seq(Jobs) /\ e \in 0 .. Len(s.queue)
      /\ \A i \in 1 .. e : job[s.queue[i]].submit <= s.t
  BY EligibleFacts DEF Ready
<1>3. /\ q \in Seq(Jobs) /\ n = e /\ n \in Nat
      /\ \A x : x \in ToSet(q) <=> \E i \in 1 .. e : s.queue[i] = x
  <2> HIDE DEF e
  <2>1. 1 \in 1 .. Len(s.queue) + 1 /\ 1 <= e + 1 /\ e - 1 + 1 = e /\ e \in Nat
    BY <1>2
  <2> QED BY <2>1, <1>2, SubSeqFacts
<1>4. ToSet(q) \in SUBSET DueIn(s)
  <2> HIDE DEF e, q
  <2> SUFFICES ASSUME NEW x \in ToSet(q) PROVE x \in DueIn(s)
    OBVIOUS
  <2>1. PICK i \in 1 .. e : s.queue[i] = x
    BY <1>3
  <2>2. i \in 1 .. Len(s.queue) /\ job[x].submit <= s.t
    BY <1>2, <2>1
  <2> QED BY <2>1, <2>2, <1>2, InToSet DEF DueIn
<1>5. free \in Nat
  BY AvailableType
<1> HIDE DEF e, q, free
<1>6. \A k \in 0 .. n : {q[i] : i \in 1 .. k} \in SUBSET Jobs
  BY <1>3
<1>7. c \in 0 .. n /\ first(c) <= free
  <2>1. {q[i] : i \in 1 .. 0} = {}
    OBVIOUS
  <2>2. first(0) = 0
    BY <2>1, NodesEmpty
  <2>3. T \subseteq 0 .. n /\ 0 \in T
    BY <2>2, <1>3, <1>5
  <2>4. c \in T
    <3> HIDE DEF T, n
    <3> QED BY <1>3, <2>3, MaxIs
  <2> QED BY <2>4
<1> HIDE DEF c
<1>8. /\ SubSeq(q, 1, c) \in Seq(Jobs)
      /\ \A x : x \in ToSet(SubSeq(q, 1, c)) <=> \E i \in 1 .. c : q[i] = x
  <2>1. 1 \in 1 .. Len(q) + 1 /\ c \in 0 .. Len(q) /\ 1 <= c + 1
    BY <1>3, <1>7
  <2> QED BY <2>1, <1>3, SubSeqFacts
<1>9. /\ SubSeq(q, c + 1, n) \in Seq(Jobs)
      /\ \A x : x \in ToSet(SubSeq(q, c + 1, n)) <=> \E i \in c + 1 .. n : q[i] = x
  <2> DEFINE a == c + 1
  <2>1. a \in 1 .. Len(q) + 1 /\ n \in 0 .. Len(q) /\ a <= n + 1
    BY <1>3, <1>7
  <2> HIDE DEF a, n
  <2>2. /\ SubSeq(q, a, n) \in Seq(Jobs)
        /\ \A x : x \in ToSet(SubSeq(q, a, n)) <=> \E i \in a .. n : q[i] = x
    BY <2>1, <1>3, SubSeqFacts
  <2> QED BY <2>2 DEF a
<1>10. ToSet(SubSeq(q, 1, c)) = {q[i] : i \in 1 .. c}
  BY <1>8
<1>11. \A i \in 1 .. n : q[i] \in ToSet(q)
  BY <1>3, InToSet
<1>12. /\ ToSet(SubSeq(q, 1, c)) \in SUBSET DueIn(s)
       /\ ToSet(SubSeq(q, c + 1, n)) \in SUBSET DueIn(s)
  <2>1. \A i \in 1 .. c : i \in 1 .. n
    BY <1>3, <1>7
  <2>2. \A i \in c + 1 .. n : i \in 1 .. n
    BY <1>3, <1>7
  <2> QED BY <2>1, <2>2, <1>4, <1>8, <1>9, <1>11
<1>13. first(c) \in Nat
  BY <1>6, <1>7, NodesType
<1> HIDE DEF first
<1>14. f.heads = SubSeq(q, 1, c) /\ f.blocked = SubSeq(q, c + 1, n) /\ f.left = free - first(c)
  <2> HIDE DEF n
  <2> QED BY ONLY <1>1
<1>15. NodesOf(ToSet(f.heads)) = first(c)
  BY <1>10, <1>14 DEF first
<1>16. free - first(c) \in Nat /\ first(c) + (free - first(c)) = free
  BY <1>5, <1>7, <1>13
<1> QED BY <1>8, <1>9, <1>12, <1>14, <1>15, <1>16 DEF free

(* The scan of a pass as a sequence of accumulators. *)
ScanStep(s, f, timeline, r, g, i) ==
  IF i = 1 THEN [left |-> f.left, chosen |-> << >>,
                 plan |-> reserve(s, r, timeline, r, f.blocked[1])]
  ELSE Examined(s, r, g[i - 1], f.blocked[i])
IsScan(s, f, timeline, r, g) ==
  g = [i \in 1 .. Len(f.blocked) |-> ScanStep(s, f, timeline, r, g, i)]

LEMMA ScanExists ==
  ASSUME NEW s, NEW f, f.blocked \in Seq(Jobs), NEW timeline, NEW r
  PROVE  \E g : IsScan(s, f, timeline, r, g)
<1> DEFINE n == Len(f.blocked)
           Step_(g, i) == ScanStep(s, f, timeline, r, g, i)
           Upto(m, g) == /\ g = [i \in 1 .. n |-> g[i]]
                         /\ \A i \in 1 .. n : i <= m => g[i] = Step_(g, i)
           T == {m \in Nat : ~\E g : Upto(m, g)}
<1>0. n \in Nat
  OBVIOUS
<1> HIDE DEF n
<1>a. ASSUME NEW g, NEW h, NEW i \in 1 .. n, i = 1 \/ g[i - 1] = h[i - 1]
      PROVE  Step_(g, i) = Step_(h, i)
  BY <1>a DEF ScanStep
<1>1. ASSUME T # {} PROVE FALSE
  <2>1. PICK m \in T : \A k \in T : m <= k
    <3>1. T \subseteq Nat
      OBVIOUS
    <3> HIDE DEF T
    <3> QED BY <3>1, <1>1, LeastExists
  <2>2. m \in Nat /\ ~\E g : Upto(m, g)
    BY <2>1
  <2>3. CASE m = 0
    <3> DEFINE g == [i \in 1 .. n |-> 0]
    <3>1. g = [i \in 1 .. n |-> g[i]]
      OBVIOUS
    <3> HIDE DEF g
    <3>2. Upto(0, g)
      BY <3>1
    <3> HIDE DEF Upto
    <3> QED BY <3>2, <2>2, <2>3
  <2>4. CASE m # 0
    <3>1. m - 1 \in Nat /\ m - 1 \notin T
      <4> HIDE DEF T, Upto
      <4> QED BY <2>1, <2>2, <2>4
    <3>2. PICK h : Upto(m - 1, h)
      BY <3>1
    <3> HIDE DEF Step_
    <3> DEFINE g == [i \in 1 .. n |-> Step_(h, i)]
    <3>3. /\ \A i \in 1 .. n : g[i] = Step_(h, i)
          /\ g = [i \in 1 .. n |-> g[i]]
      OBVIOUS
    <3> HIDE DEF g
    <3>4. ASSUME NEW i \in 1 .. n, i <= m PROVE g[i] = Step_(g, i)
      <4>1. i = 1 \/ g[i - 1] = h[i - 1]
        <5>1. CASE i # 1
          <6>1. i - 1 \in 1 .. n /\ i - 1 <= m - 1
            BY <5>1, <3>4, <1>0, <2>2
          <6> QED BY <6>1, <3>2, <3>3
        <5> QED BY <5>1
      <4>2. Step_(g, i) = Step_(h, i)
        BY <4>1, <1>a
      <4> QED BY <4>2, <3>3
    <3>5. Upto(m, g)
      BY <3>3, <3>4
    <3> HIDE DEF Upto
    <3> QED BY <3>5, <2>2
  <2> QED BY <2>3, <2>4
<1>2. PICK g : Upto(n, g)
  BY <1>0, <1>1
<1>3. \A i \in 1 .. n : g[i] = Step_(g, i)
  BY <1>0, <1>2
<1>4. g = [i \in 1 .. n |-> Step_(g, i)]
  <2> HIDE DEF Step_
  <2> QED BY <1>2, <1>3
<1> QED BY <1>4 DEF IsScan, n

LEMMA ScanIs ==
  ASSUME NEW s, NEW f, f.blocked \in Seq(Jobs), NEW timeline, NEW r
  PROVE  \E g : /\ IsScan(s, f, timeline, r, g)
                /\ BackfillScan(s, f, timeline, r) =
                     IF f.left = 0 THEN << >> ELSE g[ScanEnd(s, f, r)].chosen
<1> DEFINE G == CHOOSE g : g = [i \in 1 .. Len(f.blocked) |->
                  IF i = 1 THEN [left |-> f.left, chosen |-> << >>,
                                 plan |-> reserve(s, r, timeline, r, f.blocked[1])]
                  ELSE Examined(s, r, g[i - 1], f.blocked[i])]
<1>1. BackfillScan(s, f, timeline, r) = IF f.left = 0 THEN << >> ELSE G[ScanEnd(s, f, r)].chosen
  BY Zenon DEF BackfillScan
<1>2. \E g : g = [i \in 1 .. Len(f.blocked) |->
                  IF i = 1 THEN [left |-> f.left, chosen |-> << >>,
                                 plan |-> reserve(s, r, timeline, r, f.blocked[1])]
                  ELSE Examined(s, r, g[i - 1], f.blocked[i])]
  <2>1. PICK g : IsScan(s, f, timeline, r, g)
    BY ScanExists
  <2>2. g = [i \in 1 .. Len(f.blocked) |->
               IF i = 1 THEN [left |-> f.left, chosen |-> << >>,
                              plan |-> reserve(s, r, timeline, r, f.blocked[1])]
               ELSE Examined(s, r, g[i - 1], f.blocked[i])]
    BY <2>1, Zenon DEF IsScan, ScanStep
  <2> QED BY <2>2, Zenon
<1>3. IsScan(s, f, timeline, r, G)
  BY <1>2, Zenon DEF IsScan, ScanStep
<1> QED BY <1>1, <1>3

LEMMA MinOfTwo ==
  ASSUME NEW a \in Int, NEW b \in Int
  PROVE  Min({a, b}) = IF a <= b THEN a ELSE b
  BY DEF Min

LEMMA EmptyFacts == << >> \in Seq(Jobs) /\ ToSet(<< >>) = {}
<1> DEFINE q == << >>
<1>1. q \in Seq(Jobs) /\ Len(q) = 0
  OBVIOUS
<1> HIDE DEF q
<1>2. \A x : x \in ToSet(q) <=> \E i \in 1 .. Len(q) : q[i] = x
  BY <1>1, InToSet
<1>3. \A x : x \notin ToSet(q)
  BY <1>1, <1>2
<1> QED BY <1>1, <1>3 DEF q

LEMMA AppendFacts ==
  ASSUME NEW T, NEW q \in Seq(T), NEW x \in T
  PROVE  Append(q, x) \in Seq(T) /\ ToSet(Append(q, x)) = ToSet(q) \cup {x}
<1> DEFINE r == Append(q, x)
<1>1. /\ r \in Seq(T) /\ Len(r) = Len(q) + 1 /\ Len(q) \in Nat
      /\ \A i \in 1 .. Len(q) : r[i] = q[i]
      /\ r[Len(q) + 1] = x
  OBVIOUS
<1> HIDE DEF r
<1>2. \A y : y \in ToSet(r) <=> \E i \in 1 .. Len(q) + 1 : r[i] = y
  BY <1>1, InToSet
<1>3. \A y : y \in ToSet(q) <=> \E i \in 1 .. Len(q) : q[i] = y
  BY InToSet
<1>4. \A i \in 1 .. Len(q) + 1 : i \in 1 .. Len(q) \/ i = Len(q) + 1
  BY <1>1
<1>5. \A i \in 1 .. Len(q) : i \in 1 .. Len(q) + 1
  BY <1>1
<1>6. Len(q) + 1 \in 1 .. Len(q) + 1
  BY <1>1
<1>7. \A y : y \in ToSet(r) <=> y \in ToSet(q) \/ y = x
  BY <1>1, <1>2, <1>3, <1>4, <1>5, <1>6
<1> QED BY <1>1, <1>7 DEF r

(* The accumulator of the scan: chosen jobs of the blocked ones, which use *)
(* no more than the nodes the heads left.                                  *)
Chosen(f, a) ==
  /\ a.chosen \in Seq(Jobs) /\ ToSet(a.chosen) \in SUBSET ToSet(f.blocked)
  /\ a.left \in Nat
  /\ NodesOf(ToSet(a.chosen)) + a.left <= f.left

LEMMA ExaminedChosen ==
  ASSUME job \in Workloads, NEW s, NEW r, NEW f, f.blocked \in Seq(Jobs), f.left \in Nat,
         NEW a, Chosen(f, a), NEW j \in ToSet(f.blocked)
  PROVE  Chosen(f, Examined(s, r, a, j))
<1> DEFINE b == Examined(s, r, a, j)
<1>1. CASE b = a
  BY <1>1
<1>2. CASE b # a
  <2>1. job[j].nodes <= a.left /\ b = [left |-> a.left - job[j].nodes, chosen |-> Append(a.chosen, j),
                                       plan |-> reserve(s, r, a.plan, s.t, j)]
    BY <1>2 DEF Examined
  <2> HIDE DEF b
  <2>2. b.left = a.left - job[j].nodes /\ b.chosen = Append(a.chosen, j)
    BY ONLY <2>1
  <2>3. j \in Jobs
    BY InToSet
  <2>4. job[j].nodes \in Nat /\ NodesOf({j}) = job[j].nodes
    BY <2>3, JobFacts, NodesSingle
  <2>5. /\ a.chosen \in Seq(Jobs) /\ ToSet(a.chosen) \in SUBSET ToSet(f.blocked)
        /\ a.left \in Nat /\ NodesOf(ToSet(a.chosen)) + a.left <= f.left
    BY DEF Chosen
  <2>6. b.chosen \in Seq(Jobs) /\ ToSet(b.chosen) = ToSet(a.chosen) \cup {j}
    BY <2>2, <2>3, <2>5, AppendFacts
  <2> DEFINE A == ToSet(a.chosen)
  <2>7. A \in SUBSET Jobs /\ {j} \in SUBSET Jobs
    BY <2>3, <2>5, InToSet
  <2> HIDE DEF A
  <2>8. NodesOf(A \cup {j}) <= NodesOf(A) + NodesOf({j})
    BY <2>7, NodesCover
  <2>9. NodesOf(A) \in Nat /\ NodesOf(A \cup {j}) \in Nat
    BY <2>7, NodesType
  <2>10. NodesOf(A \cup {j}) + (a.left - job[j].nodes) <= f.left /\ a.left - job[j].nodes \in Nat
    BY <2>1, <2>4, <2>5, <2>8, <2>9, SMTT(60) DEF A
  <2> QED BY <2>2, <2>5, <2>6, <2>10 DEF Chosen, A, b
<1> QED BY <1>1, <1>2

LEMMA ScanEndFacts ==
  ASSUME NEW s, NEW f, f.blocked \in Seq(Jobs), f.blocked # << >>, NEW r
  PROVE  ScanEnd(s, f, r) \in 1 .. Len(f.blocked)
<1> DEFINE n == Len(f.blocked)
           k == IF reservation_within_horizon(r, s.t) THEN BackfillDepth ELSE BackfillDepth + 1
<1>1. n \in Nat /\ n >= 1
  OBVIOUS
<1>2. ScanEnd(s, f, r) = IF BackfillDepth = 0 THEN n ELSE Min({k, n})
  BY DEF ScanEnd
<1>3. BackfillDepth # 0 => k \in Nat /\ k >= 1
  BY Constants
<1> HIDE DEF k, n
<1>4. CASE BackfillDepth # 0
  <2>1. Min({k, n}) = IF k <= n THEN k ELSE n
    BY <1>1, <1>3, <1>4, MinOfTwo
  <2> QED BY <2>1, <1>1, <1>2, <1>3, <1>4 DEF n
<1> QED BY <1>1, <1>2, <1>4 DEF n

(* The scan chooses blocked jobs that fit the nodes the heads left. *)
LEMMA ScanFacts ==
  ASSUME job \in Workloads, NEW s, NEW f, f.blocked \in Seq(Jobs), f.blocked # << >>, f.left \in Nat,
         NEW timeline, NEW r
  PROVE  /\ BackfillScan(s, f, timeline, r) \in Seq(Jobs)
         /\ ToSet(BackfillScan(s, f, timeline, r)) \in SUBSET ToSet(f.blocked)
         /\ NodesOf(ToSet(BackfillScan(s, f, timeline, r))) <= f.left
<1> DEFINE B == BackfillScan(s, f, timeline, r)
           e == ScanEnd(s, f, r)
           n == Len(f.blocked)
<1>1. PICK g : /\ IsScan(s, f, timeline, r, g)
               /\ B = IF f.left = 0 THEN << >> ELSE g[e].chosen
  BY ScanIs
<1>2. e \in 1 .. n /\ n \in Nat
  BY ScanEndFacts
<1>3. \A i \in 1 .. n : g[i] = ScanStep(s, f, timeline, r, g, i)
  <2> DEFINE h == [i \in 1 .. n |-> ScanStep(s, f, timeline, r, g, i)]
  <2>1. \A i \in 1 .. n : h[i] = ScanStep(s, f, timeline, r, g, i)
    OBVIOUS
  <2>2. g = h
    BY <1>1 DEF IsScan
  <2> HIDE DEF h
  <2> QED BY <2>1, <2>2
<1>e. << >> \in Seq(Jobs) /\ ToSet(<< >>) = {}
  BY EmptyFacts
<1>b. \A i \in 1 .. n : f.blocked[i] \in ToSet(f.blocked)
  BY InToSet
<1> HIDE DEF B, e, n
<1>4. ASSUME NEW i \in 1 .. n, ~Chosen(f, g[i]) PROVE FALSE
  <2> DEFINE T == {k \in 1 .. n : ~Chosen(f, g[k])}
  <2>1. PICK m \in T : \A k \in T : m <= k
    <3>1. T \subseteq Nat /\ i \in T
      BY <1>4, <1>2
    <3> HIDE DEF T
    <3> QED BY <3>1, LeastExists
  <2>2. m \in 1 .. n /\ ~Chosen(f, g[m])
    BY <2>1
  <2>3. CASE m = 1
    <3>1. g[m] = [left |-> f.left, chosen |-> << >>,
                  plan |-> reserve(s, r, timeline, r, f.blocked[1])]
      BY <1>3, <2>2, <2>3 DEF ScanStep
    <3>2. g[m].left = f.left /\ g[m].chosen = << >>
      BY ONLY <3>1
    <3>3. NodesOf(ToSet(<< >>)) = 0
      BY <1>e, NodesEmpty
    <3> QED BY <2>2, <3>2, <3>3, <1>e DEF Chosen
  <2>4. CASE m # 1
    <3>1. m - 1 \in 1 .. n /\ m - 1 \notin T
      <4>1. m - 1 \in 1 .. n /\ m - 1 < m
        BY <2>2, <2>4, <1>2
      <4>2. m - 1 \in T => m <= m - 1
        <5> HIDE DEF T
        <5> QED BY <2>1
      <4> QED BY <4>1, <4>2
    <3>2. Chosen(f, g[m - 1])
      BY <3>1
    <3>3. g[m] = Examined(s, r, g[m - 1], f.blocked[m])
      BY <1>3, <2>2, <2>4 DEF ScanStep
    <3>4. f.blocked[m] \in ToSet(f.blocked)
      BY <1>b, <2>2
    <3> HIDE DEF T
    <3> QED BY <2>2, <3>2, <3>3, <3>4, ExaminedChosen
  <2> QED BY <2>3, <2>4
<1>5. CASE f.left = 0
  <2>1. B = << >>
    BY <1>1, <1>5
  <2>2. NodesOf(ToSet(<< >>)) = 0
    BY <1>e, NodesEmpty
  <2> QED BY <2>1, <2>2, <1>e, <1>5 DEF B
<1>6. CASE f.left # 0
  <2>1. B = g[e].chosen /\ Chosen(f, g[e])
    BY <1>1, <1>2, <1>4, <1>6
  <2>2. B \in Seq(Jobs) /\ ToSet(B) \in SUBSET ToSet(f.blocked)
    BY <2>1 DEF Chosen
  <2>3. NodesOf(ToSet(B)) \in Nat
    BY <2>2, NodesType, InToSet
  <2>4. NodesOf(ToSet(B)) + g[e].left <= f.left /\ g[e].left \in Nat
    BY <2>1 DEF Chosen
  <2>5. NodesOf(ToSet(B)) <= f.left
    BY <2>3, <2>4
  <2> QED BY <2>2, <2>5 DEF B
<1> QED BY <1>5, <1>6

LEMMA ConcatFacts ==
  ASSUME NEW T, NEW q \in Seq(T), NEW r \in Seq(T)
  PROVE  ToSet(q \o r) = ToSet(q) \cup ToSet(r)
<1> DEFINE c == q \o r
           m == Len(q)
           n == Len(r)
<1>1. /\ c \in Seq(T) /\ m \in Nat /\ n \in Nat /\ Len(c) = m + n
      /\ \A i \in 1 .. m : c[i] = q[i]
      /\ \A i \in m + 1 .. m + n : c[i] = r[i - m]
  OBVIOUS
<1>2. /\ \A x : x \in ToSet(q) <=> \E i \in 1 .. m : q[i] = x
      /\ \A x : x \in ToSet(r) <=> \E i \in 1 .. n : r[i] = x
  BY InToSet
<1> HIDE DEF c, m, n
<1>3. \A x : x \in ToSet(c) <=> \E i \in 1 .. m + n : c[i] = x
  <2>1. \A x : x \in ToSet(c) <=> \E i \in 1 .. Len(c) : c[i] = x
    BY <1>1, InToSet
  <2> QED BY <2>1, <1>1
<1>4. ASSUME NEW x \in ToSet(c) PROVE x \in ToSet(q) \cup ToSet(r)
  <2>1. PICK i \in 1 .. m + n : c[i] = x
    BY <1>3
  <2>2. CASE i \in 1 .. m
    BY <2>1, <2>2, <1>1, <1>2
  <2>3. CASE i \notin 1 .. m
    <3>1. i \in m + 1 .. m + n /\ i - m \in 1 .. n
      BY <2>3, <1>1
    <3> QED BY <3>1, <2>1, <1>1, <1>2
  <2> QED BY <2>2, <2>3
<1>5. ASSUME NEW x \in ToSet(q) PROVE x \in ToSet(c)
  <2>1. PICK i \in 1 .. m : q[i] = x
    BY <1>2
  <2>2. i \in 1 .. m + n
    BY <1>1
  <2> QED BY <2>1, <2>2, <1>1, <1>3
<1>6. ASSUME NEW x \in ToSet(r) PROVE x \in ToSet(c)
  <2>1. PICK i \in 1 .. n : r[i] = x
    BY <1>2
  <2>2. i + m \in m + 1 .. m + n /\ i + m \in 1 .. m + n /\ (i + m) - m = i
    BY <1>1
  <2> QED BY <2>1, <2>2, <1>1, <1>3
<1> QED BY <1>4, <1>5, <1>6 DEF c

(* A pass starts jobs that are due, and no more than fit what is free. *)
LEMMA ScheduleFacts ==
  ASSUME job \in Workloads, NEW s, Ready(s), NEW withBackfill
  PROVE  /\ ToSet(schedule(s, withBackfill)) \in SUBSET DueIn(s)
         /\ NodesOf(ToSet(schedule(s, withBackfill))) <= get_available_nodes(s)
         /\ ToSet(HeadsFirst(s).heads) \in SUBSET ToSet(schedule(s, withBackfill))
<1> DEFINE f == HeadsFirst(s)
           r == schedule(s, withBackfill)
           free == get_available_nodes(s)
<1>1. /\ f.heads \in Seq(Jobs) /\ ToSet(f.heads) \in SUBSET DueIn(s)
      /\ f.blocked \in Seq(Jobs) /\ ToSet(f.blocked) \in SUBSET DueIn(s)
      /\ f.left \in Nat
      /\ NodesOf(ToSet(f.heads)) + f.left = free
  BY HeadsFacts
<1>2. free \in Nat
  BY AvailableType
<1>3. r = IF f.blocked = << >> \/ ~withBackfill \/ ~Backfill THEN f.heads
          ELSE f.heads \o Backfilled(s, f)
  BY DEF schedule
<1> HIDE DEF f, r, free
<1>4. ToSet(f.heads) \in SUBSET Jobs
  BY <1>1, InToSet
<1>5. NodesOf(ToSet(f.heads)) \in Nat
  BY <1>4, NodesType
<1>6. CASE f.blocked = << >> \/ ~withBackfill \/ ~Backfill
  <2>1. r = f.heads
    BY <1>3, <1>6
  <2>2. NodesOf(ToSet(f.heads)) <= free
    BY <1>1, <1>2, <1>5
  <2> QED BY <2>1, <2>2, <1>1 DEF r, free, f
<1>7. CASE ~(f.blocked = << >> \/ ~withBackfill \/ ~Backfill)
  <2> DEFINE B == Backfilled(s, f)
             H == f.heads
  <2>1. B \in Seq(Jobs) /\ ToSet(B) \in SUBSET ToSet(f.blocked) /\ NodesOf(ToSet(B)) <= f.left
    BY <1>1, <1>7, ScanFacts DEF Backfilled
  <2>2. r = H \o B
    BY <1>3, <1>7
  <2>3. H \in Seq(Jobs)
    BY <1>1
  <2> HIDE DEF B, H
  <2>4. ToSet(H \o B) = ToSet(H) \cup ToSet(B)
    BY <2>1, <2>3, ConcatFacts
  <2>5. ToSet(B) \in SUBSET Jobs /\ ToSet(H) \in SUBSET Jobs
    BY <2>1, <2>3, InToSet
  <2>6. /\ NodesOf(ToSet(B)) \in Nat /\ NodesOf(ToSet(H) \cup ToSet(B)) \in Nat
        /\ NodesOf(ToSet(H) \cup ToSet(B)) <= NodesOf(ToSet(H)) + NodesOf(ToSet(B))
    BY <2>5, NodesType, NodesCover
  <2>7. NodesOf(ToSet(H) \cup ToSet(B)) <= free
    BY <2>1, <2>6, <1>1, <1>2, <1>5 DEF H
  <2> QED BY <2>1, <2>2, <2>4, <2>7, <1>1 DEF r, free, f, H
<1> QED BY <1>6, <1>7

(* The queue without the jobs that a pass started. *)
ErasedStep(q, S, g, i) ==
  IF i = 0 THEN << >>
  ELSE IF q[i] \in S THEN g[i - 1] ELSE Append(g[i - 1], q[i])
IsErased(q, S, g) == g = [i \in 0 .. Len(q) |-> ErasedStep(q, S, g, i)]

LEMMA ErasedExists ==
  ASSUME NEW q, Len(q) \in Nat, NEW S
  PROVE  \E g : IsErased(q, S, g)
<1> DEFINE n == Len(q)
           Step_(g, i) == ErasedStep(q, S, g, i)
           Upto(m, g) == /\ g = [i \in 0 .. n |-> g[i]]
                         /\ \A i \in 0 .. n : i <= m => g[i] = Step_(g, i)
           T == {m \in Nat : ~\E g : Upto(m, g)}
<1>0. n \in Nat
  OBVIOUS
<1> HIDE DEF n
<1>a. ASSUME NEW g, NEW h, NEW i \in 0 .. n, i = 0 \/ g[i - 1] = h[i - 1]
      PROVE  Step_(g, i) = Step_(h, i)
  BY <1>a DEF ErasedStep
<1>1. ASSUME T # {} PROVE FALSE
  <2>1. PICK m \in T : \A k \in T : m <= k
    <3>1. T \subseteq Nat
      OBVIOUS
    <3> HIDE DEF T
    <3> QED BY <3>1, <1>1, LeastExists
  <2>2. m \in Nat /\ ~\E g : Upto(m, g)
    BY <2>1
  <2>3. CASE m = 0
    <3> DEFINE g == [i \in 0 .. n |-> << >>]
    <3>1. g = [i \in 0 .. n |-> g[i]] /\ \A i \in 0 .. n : g[i] = << >>
      OBVIOUS
    <3> HIDE DEF g
    <3>2. Step_(g, 0) = << >>
      BY DEF ErasedStep
    <3> HIDE DEF Step_
    <3>3. Upto(0, g)
      BY <3>1, <3>2, <1>0
    <3> HIDE DEF Upto
    <3> QED BY <3>3, <2>2, <2>3
  <2>4. CASE m # 0
    <3>1. m - 1 \in Nat /\ m - 1 \notin T
      <4> HIDE DEF T, Upto
      <4> QED BY <2>1, <2>2, <2>4
    <3>2. PICK h : Upto(m - 1, h)
      BY <3>1
    <3> HIDE DEF Step_
    <3> DEFINE g == [i \in 0 .. n |-> Step_(h, i)]
    <3>3. /\ \A i \in 0 .. n : g[i] = Step_(h, i)
          /\ g = [i \in 0 .. n |-> g[i]]
      OBVIOUS
    <3> HIDE DEF g
    <3>4. ASSUME NEW i \in 0 .. n, i <= m PROVE g[i] = Step_(g, i)
      <4>1. i = 0 \/ g[i - 1] = h[i - 1]
        <5>1. CASE i # 0
          <6>1. i - 1 \in 0 .. n /\ i - 1 <= m - 1
            BY <5>1, <3>4, <1>0, <2>2
          <6> QED BY <6>1, <3>2, <3>3
        <5> QED BY <5>1
      <4>2. Step_(g, i) = Step_(h, i)
        BY <4>1, <1>a
      <4> QED BY <4>2, <3>3
    <3>5. Upto(m, g)
      BY <3>3, <3>4
    <3> HIDE DEF Upto
    <3> QED BY <3>5, <2>2
  <2> QED BY <2>3, <2>4
<1>2. PICK g : Upto(n, g)
  BY <1>0, <1>1
<1>3. \A i \in 0 .. n : g[i] = Step_(g, i)
  BY <1>0, <1>2
<1>4. g = [i \in 0 .. n |-> Step_(g, i)]
  <2> HIDE DEF Step_
  <2> QED BY <1>2, <1>3
<1> QED BY <1>4 DEF IsErased, n

LEMMA ErasedIs ==
  ASSUME NEW q, Len(q) \in Nat, NEW S
  PROVE  \E g : IsErased(q, S, g) /\ Erased(q, S) = g[Len(q)]
<1> DEFINE G == CHOOSE g : g = [i \in 0 .. Len(q) |->
                  IF i = 0 THEN << >>
                  ELSE IF q[i] \in S THEN g[i - 1] ELSE Append(g[i - 1], q[i])]
<1>1. Erased(q, S) = G[Len(q)]
  BY Zenon DEF Erased
<1>2. \E g : g = [i \in 0 .. Len(q) |->
                  IF i = 0 THEN << >>
                  ELSE IF q[i] \in S THEN g[i - 1] ELSE Append(g[i - 1], q[i])]
  <2>1. PICK g : IsErased(q, S, g)
    BY ErasedExists
  <2>2. g = [i \in 0 .. Len(q) |->
               IF i = 0 THEN << >>
               ELSE IF q[i] \in S THEN g[i - 1] ELSE Append(g[i - 1], q[i])]
    BY <2>1, Zenon DEF IsErased, ErasedStep
  <2> QED BY <2>2, Zenon
<1>3. IsErased(q, S, G)
  BY <1>2, Zenon DEF IsErased, ErasedStep
<1> QED BY <1>1, <1>3

(* The queue is in submission order, which is the order of the job numbers. *)
Sorted(q) == \A i, k \in 1 .. Len(q) : i < k => q[i] < q[k]

(* What is left of the queue after the first i jobs of it. *)
Kept(q, S, i, r) ==
  /\ r \in Seq(Jobs) /\ \A x : x \in ToSet(r) <=> x \notin S /\ \E k \in 1 .. i : q[k] = x
  /\ Sorted(q) => Sorted(r)

LEMMA SortedAppend ==
  ASSUME NEW q \in Seq(Jobs), Sorted(q), NEW j \in Jobs, \A i \in ToSet(q) : i < j
  PROVE  Sorted(Append(q, j))
<1> DEFINE a == Append(q, j)
           n == Len(q)
<1>1. /\ n \in Nat /\ Len(a) = n + 1 /\ a[n + 1] = j
      /\ \A i \in 1 .. n : a[i] = q[i]
  OBVIOUS
<1>2. \A i \in 1 .. n : q[i] < j
  BY InToSet
<1>3. \A i, k \in 1 .. n : i < k => q[i] < q[k]
  BY DEF Sorted
<1> HIDE DEF a, n
<1>4. ASSUME NEW i \in 1 .. n + 1, NEW k \in 1 .. n + 1, i < k PROVE a[i] < a[k]
  <2>1. i \in 1 .. n /\ (k \in 1 .. n \/ k = n + 1)
    BY <1>1, <1>4
  <2>2. CASE k \in 1 .. n
    BY <2>1, <2>2, <1>1, <1>3, <1>4
  <2>3. CASE k = n + 1
    BY <2>1, <2>3, <1>1, <1>2
  <2> QED BY <2>1, <2>2, <2>3
<1>5. Sorted(a)
  BY <1>1, <1>4 DEF Sorted
<1> QED BY <1>5 DEF a

LEMMA ErasedFacts ==
  ASSUME NEW q \in Seq(Jobs), NEW S
  PROVE  /\ Erased(q, S) \in Seq(Jobs) /\ ToSet(Erased(q, S)) = ToSet(q) \ S
         /\ Sorted(q) => Sorted(Erased(q, S))
<1> DEFINE n == Len(q)
<1>0. n \in Nat /\ \A i \in 1 .. n : q[i] \in Jobs
  OBVIOUS
<1>1. PICK g : IsErased(q, S, g) /\ Erased(q, S) = g[n]
  BY <1>0, ErasedIs
<1>2. \A x : x \in ToSet(q) <=> \E k \in 1 .. n : q[k] = x
  BY InToSet
<1>3. \A i \in 0 .. n : g[i] = ErasedStep(q, S, g, i)
  <2> DEFINE h == [i \in 0 .. n |-> ErasedStep(q, S, g, i)]
  <2>1. \A i \in 0 .. n : h[i] = ErasedStep(q, S, g, i)
    OBVIOUS
  <2>2. g = h
    BY <1>1 DEF IsErased
  <2> HIDE DEF h
  <2> QED BY <2>1, <2>2
<1> HIDE DEF n
<1>4. ASSUME NEW i \in 0 .. n, ~Kept(q, S, i, g[i]) PROVE FALSE
  <2> DEFINE T == {k \in 0 .. n : ~Kept(q, S, k, g[k])}
  <2>1. PICK m \in T : \A k \in T : m <= k
    <3>1. T \subseteq Nat /\ i \in T
      BY <1>4, <1>0
    <3> HIDE DEF T
    <3> QED BY <3>1, LeastExists
  <2>2. m \in 0 .. n /\ ~Kept(q, S, m, g[m])
    BY <2>1
  <2>3. CASE m = 0
    <3>1. g[m] = << >>
      BY <1>3, <2>2, <2>3 DEF ErasedStep
    <3>2. g[m] \in Seq(Jobs) /\ ToSet(g[m]) = {}
      BY <3>1, EmptyFacts
    <3>3. ~\E k \in 1 .. m : TRUE
      BY <2>3
    <3>4. Sorted(g[m])
      BY <3>1 DEF Sorted
    <3> QED BY <2>2, <3>2, <3>3, <3>4 DEF Kept
  <2>4. CASE m # 0
    <3>1. m - 1 \in 0 .. n /\ m - 1 \notin T
      <4>1. m - 1 \in 0 .. n /\ m - 1 < m
        BY <2>2, <2>4, <1>0
      <4>2. m - 1 \in T => m <= m - 1
        <5> HIDE DEF T
        <5> QED BY <2>1
      <4> QED BY <4>1, <4>2
    <3> DEFINE h == g[m - 1]
    <3>2. Kept(q, S, m - 1, h)
      BY <3>1
    <3>3. g[m] = IF q[m] \in S THEN h ELSE Append(h, q[m])
      BY <1>3, <2>2, <2>4 DEF ErasedStep
    <3> HIDE DEF T, h
    <3>4. m \in 1 .. n /\ \A k : k \in 1 .. m <=> k \in 1 .. m - 1 \/ k = m
      BY <2>2, <2>4, <1>0
    <3>5. q[m] \in Jobs /\ h \in Seq(Jobs)
      BY <3>2, <3>4, <1>0 DEF Kept
    <3>6. \A x : x \in ToSet(h) <=> x \notin S /\ \E k \in 1 .. m - 1 : q[k] = x
      BY <3>2 DEF Kept
    <3>7. CASE q[m] \in S
      <4>1. g[m] = h
        BY <3>3, <3>7
      <4>2. Sorted(q) => Sorted(h)
        BY <3>2 DEF Kept
      <4> QED BY <4>1, <4>2, <2>2, <3>4, <3>5, <3>6, <3>7 DEF Kept
    <3>8. CASE q[m] \notin S
      <4>1. g[m] \in Seq(Jobs) /\ ToSet(g[m]) = ToSet(h) \cup {q[m]}
        BY <3>3, <3>5, <3>8, AppendFacts
      <4>2. ASSUME Sorted(q) PROVE Sorted(g[m])
        <5>1. Sorted(h)
          BY <3>2, <4>2 DEF Kept
        <5>2. \A k \in 1 .. m - 1 : k \in 1 .. n /\ k < m
          BY <3>4, <1>0
        <5>3. \A k \in 1 .. m - 1 : q[k] < q[m]
          BY <5>2, <3>4, <4>2 DEF Sorted, n
        <5>4. \A x \in ToSet(h) : x < q[m]
          BY <5>3, <3>6
        <5> QED BY <5>1, <5>4, <3>3, <3>5, <3>8, SortedAppend
      <4> QED BY <4>1, <4>2, <2>2, <3>4, <3>6, <3>8 DEF Kept
    <3> QED BY <3>7, <3>8
  <2> QED BY <2>3, <2>4
<1>5. Kept(q, S, n, g[n])
  BY <1>0, <1>4
<1> QED BY <1>1, <1>2, <1>5 DEF Kept

(* The passes of one instant, as a sequence of states. *)
PassStep(s, tick, g, k) == IF k = 0 THEN s ELSE PassAfter(g[k - 1], tick, k)
IsPass(s, tick, g) == g = [k \in 0 .. NumJobs |-> PassStep(s, tick, g, k)]

LEMMA PassExists ==
  ASSUME NEW s, NEW tick
  PROVE  \E g : IsPass(s, tick, g)
<1> DEFINE n == NumJobs
           Step_(g, i) == PassStep(s, tick, g, i)
           Upto(m, g) == /\ g = [i \in 0 .. n |-> g[i]]
                         /\ \A i \in 0 .. n : i <= m => g[i] = Step_(g, i)
           T == {m \in Nat : ~\E g : Upto(m, g)}
<1>0. n \in Nat
  BY Constants
<1> HIDE DEF n
<1>a. ASSUME NEW g, NEW h, NEW i \in 0 .. n, i = 0 \/ g[i - 1] = h[i - 1]
      PROVE  Step_(g, i) = Step_(h, i)
  BY <1>a DEF PassStep
<1>1. ASSUME T # {} PROVE FALSE
  <2>1. PICK m \in T : \A k \in T : m <= k
    <3>1. T \subseteq Nat
      OBVIOUS
    <3> HIDE DEF T
    <3> QED BY <3>1, <1>1, LeastExists
  <2>2. m \in Nat /\ ~\E g : Upto(m, g)
    BY <2>1
  <2>3. CASE m = 0
    <3> DEFINE g == [i \in 0 .. n |-> s]
    <3>1. g = [i \in 0 .. n |-> g[i]] /\ \A i \in 0 .. n : g[i] = s
      OBVIOUS
    <3> HIDE DEF g
    <3>2. Step_(g, 0) = s
      BY DEF PassStep
    <3> HIDE DEF Step_
    <3>3. Upto(0, g)
      BY <3>1, <3>2, <1>0
    <3> HIDE DEF Upto
    <3> QED BY <3>3, <2>2, <2>3
  <2>4. CASE m # 0
    <3>1. m - 1 \in Nat /\ m - 1 \notin T
      <4> HIDE DEF T, Upto
      <4> QED BY <2>1, <2>2, <2>4
    <3>2. PICK h : Upto(m - 1, h)
      BY <3>1
    <3> HIDE DEF Step_
    <3> DEFINE g == [i \in 0 .. n |-> Step_(h, i)]
    <3>3. /\ \A i \in 0 .. n : g[i] = Step_(h, i)
          /\ g = [i \in 0 .. n |-> g[i]]
      OBVIOUS
    <3> HIDE DEF g
    <3>4. ASSUME NEW i \in 0 .. n, i <= m PROVE g[i] = Step_(g, i)
      <4>1. i = 0 \/ g[i - 1] = h[i - 1]
        <5>1. CASE i # 0
          <6>1. i - 1 \in 0 .. n /\ i - 1 <= m - 1
            BY <5>1, <3>4, <1>0, <2>2
          <6> QED BY <6>1, <3>2, <3>3
        <5> QED BY <5>1
      <4>2. Step_(g, i) = Step_(h, i)
        BY <4>1, <1>a
      <4> QED BY <4>2, <3>3
    <3>5. Upto(m, g)
      BY <3>3, <3>4
    <3> HIDE DEF Upto
    <3> QED BY <3>5, <2>2
  <2> QED BY <2>3, <2>4
<1>2. PICK g : Upto(n, g)
  BY <1>0, <1>1
<1>3. \A i \in 0 .. n : g[i] = Step_(g, i)
  BY <1>0, <1>2
<1>4. g = [i \in 0 .. n |-> Step_(g, i)]
  <2> HIDE DEF Step_
  <2> QED BY <1>2, <1>3
<1> QED BY <1>4 DEF IsPass, n

LEMMA PassIs ==
  ASSUME NEW s, NEW tick
  PROVE  \E g : IsPass(s, tick, g) /\ Scheduled(s, tick) = g[NumJobs]
<1> DEFINE G == CHOOSE g : g = [k \in 0 .. NumJobs |->
                  IF k = 0 THEN s ELSE PassAfter(g[k - 1], tick, k)]
<1>1. Scheduled(s, tick) = G[NumJobs]
  BY Zenon DEF Scheduled
<1>2. \E g : g = [k \in 0 .. NumJobs |-> IF k = 0 THEN s ELSE PassAfter(g[k - 1], tick, k)]
  <2>1. PICK g : IsPass(s, tick, g)
    BY PassExists
  <2>2. g = [k \in 0 .. NumJobs |-> IF k = 0 THEN s ELSE PassAfter(g[k - 1], tick, k)]
    BY <2>1, Zenon DEF IsPass, PassStep
  <2> QED BY <2>2, Zenon
<1>3. IsPass(s, tick, G)
  BY <1>2, Zenon DEF IsPass, PassStep
<1> QED BY <1>1, <1>3

(* What passes from s may have come to: they started jobs that are due and *)
(* waiting, and the nodes of what they started were free.                  *)
Begun(s, p) == DOMAIN p.run \ DOMAIN s.run
Passed(s, p) ==
  /\ p.t = s.t /\ p.cap = s.cap
  /\ p.queue \in Seq(Jobs) /\ ToSet(p.queue) = ToSet(s.queue) \ Begun(s, p)
  /\ DOMAIN s.run \in SUBSET DOMAIN p.run
  /\ Begun(s, p) \in SUBSET DueIn(s)
  /\ p.occupied = s.occupied + NodesOf(Begun(s, p))
  /\ Begun(s, p) # {} => p.occupied <= s.cap

(* The states that passes start from. *)
Fresh(s) == Ready(s) /\ ToSet(s.queue) \cap DOMAIN s.run = {}

LEMMA PassedSelf ==
  ASSUME NEW s, Fresh(s)
  PROVE  Passed(s, s)
<1>1. Begun(s, s) = {}
  BY DEF Begun
<1> QED BY <1>1, NodesEmpty DEF Passed, Fresh, Ready

LEMMA PassKeeps ==
  ASSUME job \in Workloads, NEW s, Fresh(s), NEW p, Passed(s, p), NEW tick, NEW k
  PROVE  Passed(s, PassAfter(p, tick, k))
<1> DEFINE w == BackfillInterval = 0 \/ (tick /\ k = 1)
           S == ToSet(schedule(p, w))
           B == Begun(s, p)
           q == Started(p, S)
<1>1. CASE PassAfter(p, tick, k) = p
  BY <1>1
<1>2. CASE PassAfter(p, tick, k) # p
  <2>1. PassAfter(p, tick, k) = q
    BY <1>2 DEF PassAfter
  <2>2. /\ p.t = s.t /\ p.cap = s.cap
        /\ p.queue \in Seq(Jobs) /\ ToSet(p.queue) = ToSet(s.queue) \ B
        /\ DOMAIN s.run \in SUBSET DOMAIN p.run
        /\ B \in SUBSET DueIn(s)
        /\ p.occupied = s.occupied + NodesOf(B)
        /\ B # {} => p.occupied <= s.cap
    BY DEF Passed
  <2>3. /\ s.queue \in Seq(Jobs) /\ s.t \in Nat /\ s.cap \in Nat /\ s.occupied \in Nat
        /\ ToSet(s.queue) \cap DOMAIN s.run = {}
    BY DEF Fresh, Ready
  <2>4. ToSet(s.queue) \in SUBSET Jobs /\ DueIn(s) \in SUBSET ToSet(s.queue)
    BY <2>3, InToSet DEF DueIn
  <2>5. NodesOf(B) \in Nat
    <3> HIDE DEF B
    <3> QED BY <2>2, <2>4, NodesType
  <2>6. p.occupied \in Nat
    BY <2>2, <2>3, <2>5
  <2>7. Ready(p)
    BY <2>2, <2>3, <2>6 DEF Ready
  <2>8. S \in SUBSET DueIn(p) /\ NodesOf(S) <= get_available_nodes(p)
    <3> HIDE DEF w
    <3> QED BY <2>7, ScheduleFacts
  <2>9. /\ q.t = p.t /\ q.cap = p.cap /\ q.occupied = p.occupied + NodesOf(S)
        /\ q.queue = Erased(p.queue, S)
        /\ DOMAIN q.run = DOMAIN p.run \cup S
    <3> HIDE DEF S
    <3>1. q.run = [j \in DOMAIN p.run \cup S |->
                     IF j \in S THEN PlannedRelease(p.t, job[j].limit) ELSE p.run[j]]
      BY TableIs DEF Started
    <3>2. DOMAIN q.run = DOMAIN p.run \cup S
      BY <3>1
    <3>3. /\ q.t = p.t /\ q.cap = p.cap /\ q.occupied = p.occupied + NodesOf(S)
          /\ q.queue = Erased(p.queue, S)
      BY DEF Started
    <3> QED BY <3>2, <3>3
  <2> HIDE DEF S, q
  <2>10. q.queue \in Seq(Jobs) /\ ToSet(q.queue) = ToSet(p.queue) \ S
    BY <2>2, <2>9, ErasedFacts
  <2>11. /\ S \in SUBSET ToSet(p.queue) /\ S \in SUBSET DueIn(s) /\ S \cap B = {}
         /\ S \cap DOMAIN s.run = {}
    BY <2>2, <2>3, <2>4, <2>8 DEF DueIn
  <2>12. Begun(s, q) = B \cup S
    BY <2>2, <2>3, <2>9, <2>11 DEF Begun
  <2> HIDE DEF B
  <2>13. B \in SUBSET Jobs /\ S \in SUBSET Jobs
    BY <2>2, <2>4, <2>11
  <2>14. NodesOf(B \cup S) = NodesOf(B) + NodesOf(S) /\ NodesOf(S) \in Nat
    BY <2>11, <2>13, NodesUnion, NodesType
  <2>15. q.occupied = s.occupied + NodesOf(B \cup S)
    BY <2>2, <2>3, <2>5, <2>9, <2>14
  <2>16. B \cup S # {} => q.occupied <= s.cap
    <3>1. CASE S = {}
      <4>1. NodesOf(S) = 0
        BY <3>1, NodesEmpty
      <4>2. q.occupied = p.occupied
        BY <4>1, <2>9, <2>6
      <4> QED BY <4>2, <3>1, <2>2
    <3>2. CASE S # {}
      <4>1. NodesOf(S) > 0
        BY <3>2, <2>13, NodesPositive
      <4>2. p.cap \in Nat /\ p.cap = s.cap
        BY <2>2, <2>3
      <4> QED BY <4>1, <4>2, <2>6, <2>8, <2>9, <2>14 DEF get_available_nodes
    <3> QED BY <3>1, <3>2
  <2>17. ToSet(q.queue) = ToSet(s.queue) \ (B \cup S)
    BY <2>2, <2>10
  <2>18. DOMAIN s.run \in SUBSET DOMAIN q.run
    BY <2>2, <2>9
  <2>19. Passed(s, q)
    BY <2>2, <2>9, <2>10, <2>11, <2>12, <2>15, <2>16, <2>17, <2>18 DEF Passed
  <2> QED BY <2>1, <2>19
<1> QED BY <1>1, <1>2

LEMMA ScheduledFacts ==
  ASSUME job \in Workloads, NEW s, Fresh(s), NEW tick
  PROVE  Passed(s, Scheduled(s, tick))
<1>1. PICK g : IsPass(s, tick, g) /\ Scheduled(s, tick) = g[NumJobs]
  BY PassIs
<1>2. \A k \in 0 .. NumJobs : g[k] = PassStep(s, tick, g, k)
  <2> DEFINE h == [k \in 0 .. NumJobs |-> PassStep(s, tick, g, k)]
  <2>1. \A k \in 0 .. NumJobs : h[k] = PassStep(s, tick, g, k)
    OBVIOUS
  <2>2. g = h
    BY <1>1 DEF IsPass
  <2> HIDE DEF h
  <2> QED BY <2>1, <2>2
<1>3. NumJobs \in Nat
  BY Constants
<1>4. ASSUME NEW i \in 0 .. NumJobs, ~Passed(s, g[i]) PROVE FALSE
  <2> DEFINE T == {k \in 0 .. NumJobs : ~Passed(s, g[k])}
  <2>1. PICK m \in T : \A k \in T : m <= k
    <3>1. T \subseteq Nat /\ i \in T
      BY <1>4, <1>3
    <3> HIDE DEF T
    <3> QED BY <3>1, LeastExists
  <2>2. m \in 0 .. NumJobs /\ ~Passed(s, g[m])
    BY <2>1
  <2>3. CASE m = 0
    <3>1. g[m] = s
      BY <1>2, <2>2, <2>3 DEF PassStep
    <3> QED BY <3>1, <2>2, PassedSelf
  <2>4. CASE m # 0
    <3>1. m - 1 \in 0 .. NumJobs /\ m - 1 \notin T
      <4>1. m - 1 \in 0 .. NumJobs /\ m - 1 < m
        BY <2>2, <2>4, <1>3
      <4>2. m - 1 \in T => m <= m - 1
        <5> HIDE DEF T
        <5> QED BY <2>1
      <4> QED BY <4>1, <4>2
    <3>2. Passed(s, g[m - 1])
      BY <3>1
    <3>3. g[m] = PassAfter(g[m - 1], tick, m)
      BY <1>2, <2>2, <2>4 DEF PassStep
    <3> HIDE DEF T
    <3> QED BY <2>2, <3>2, <3>3, PassKeeps
  <2> QED BY <2>3, <2>4
<1>5. Passed(s, g[NumJobs])
  BY <1>3, <1>4
<1> QED BY <1>1, <1>5

(* The first job of the queue Q, when it is due at t, does not fit. *)
Blocked(Q, t, occupied, cap) ==
  \A j \in Q : job[j].submit <= t /\ (\A i \in Q : j <= i) => job[j].nodes + occupied > cap

(* A pass that starts no head leaves the first job blocked. *)
LEMMA HeadsBlocked ==
  ASSUME job \in Workloads, NEW s, Ready(s), Sorted(s.queue), ToSet(HeadsFirst(s).heads) = {}
  PROVE  Blocked(ToSet(s.queue), s.t, s.occupied, s.cap)
<1> SUFFICES ASSUME NEW j \in ToSet(s.queue), job[j].submit <= s.t,
                    \A i \in ToSet(s.queue) : j <= i
             PROVE  job[j].nodes + s.occupied > s.cap
  BY DEF Blocked
<1> DEFINE f == HeadsFirst(s)
           n0 == Len(s.queue)
           e == EligibleEnd(s)
           q == SubSeq(s.queue, 1, e)
           n == Len(q)
           first(k) == NodesOf({q[i] : i \in 1 .. k})
           free == get_available_nodes(s)
           T == {k \in 0 .. n : first(k) <= free}
           c == Max(T)
<1>1. f.heads = SubSeq(q, 1, c)
  BY DEF HeadsFirst
<1>2. s.queue \in Seq(Jobs) /\ n0 \in Nat /\ s.cap \in Nat /\ s.occupied \in Nat
  BY DEF Ready
<1>3. n0 >= 1 /\ s.queue[1] = j
  <2>1. PICK i \in 1 .. n0 : s.queue[i] = j
    BY <1>2, InToSet
  <2>2. 1 \in 1 .. n0 /\ s.queue[1] \in ToSet(s.queue)
    BY <1>2, <2>1, InToSet
  <2>3. s.queue[1] \in Int /\ j \in Int /\ j <= s.queue[1]
    <3>1. ToSet(s.queue) \in SUBSET Jobs
      BY <1>2, InToSet
    <3>2. \A k \in Jobs : k \in Int
      BY DEF Jobs
    <3> QED BY <3>1, <3>2, <2>2
  <2>4. 1 < i => s.queue[1] < j
    BY <2>1, <2>2 DEF Sorted
  <2> QED BY <1>2, <2>1, <2>2, <2>3, <2>4
<1>4. e \in 1 .. n0
  <2> DEFINE U == {k \in 0 .. n0 : \A i \in 1 .. k : job[s.queue[i]].submit <= s.t}
  <2>1. e = Max(U)
    BY DEF EligibleEnd
  <2>2. U \subseteq 0 .. n0 /\ 1 \in U
    BY <1>2, <1>3
  <2> HIDE DEF U, e, n0
  <2>3. Max(U) \in U /\ 1 <= Max(U)
    BY <1>2, <2>2, MaxIs
  <2>4. Max(U) \in 0 .. n0
    BY <2>2, <2>3
  <2> QED BY <2>1, <2>3, <2>4, <1>2
<1> HIDE DEF e, n0
<1>5. /\ q \in Seq(Jobs) /\ n = e /\ n \in Nat /\ n >= 1 /\ q[1] = j
  <2>1. 1 \in 1 .. Len(s.queue) + 1 /\ 1 <= e + 1 /\ e - 1 + 1 = e /\ e \in Nat /\ e \in 0 .. Len(s.queue)
    BY <1>2, <1>4 DEF n0
  <2>2. q \in Seq(Jobs) /\ n = e
    BY <2>1, <1>2, SubSeqFacts
  <2>3. q[1] = s.queue[1]
    BY <1>2, <1>4 DEF n0
  <2> HIDE DEF q
  <2> QED BY <2>1, <2>2, <2>3, <1>3, <1>4, <1>2
<1>6. free \in Nat
  BY AvailableType
<1> HIDE DEF q, free
<1>7. 1 \notin T
  <2>1. {q[i] : i \in 1 .. 0} = {}
    OBVIOUS
  <2>2. first(0) = 0
    BY <2>1, NodesEmpty
  <2>3. T \subseteq 0 .. n /\ 0 \in T
    BY <2>2, <1>5, <1>6
  <2>4. c \in T /\ \A x \in T : x <= c
    <3> HIDE DEF T, n
    <3> QED BY <1>5, <2>3, MaxIs
  <2>5. c \in 0 .. n
    BY <2>3, <2>4
  <2> HIDE DEF c, T
  <2>6. /\ SubSeq(q, 1, c) \in Seq(Jobs)
        /\ \A x : x \in ToSet(SubSeq(q, 1, c)) <=> \E i \in 1 .. c : q[i] = x
    <3>1. 1 \in 1 .. Len(q) + 1 /\ c \in 0 .. Len(q) /\ 1 <= c + 1 /\ q \in Seq(Jobs)
      BY <1>5, <2>5
    <3> QED BY ONLY <3>1, SubSeqFacts
  <2>7. ~(1 \in 1 .. c)
    BY <2>6, <1>1
  <2>8. c = 0
    BY <2>5, <2>7, <1>5
  <2> QED BY <2>4, <2>8
<1>8. first(1) = job[j].nodes
  <2>1. {q[i] : i \in 1 .. 1} = {j}
    BY <1>5
  <2>2. j \in Jobs
    BY <1>2, InToSet
  <2> QED BY <2>1, <2>2, NodesSingle
<1>9. job[j].nodes \in Nat
  <2>1. j \in Jobs
    BY <1>2, InToSet
  <2> QED BY <2>1, JobFacts
<1>10. job[j].nodes > free
  <2>1. 1 \in 0 .. n
    BY <1>5
  <2>2. ~(first(1) <= free)
    BY <1>7, <2>1
  <2> HIDE DEF first
  <2> QED BY <2>2, <1>6, <1>8, <1>9
<1> QED BY <1>2, <1>9, <1>10 DEF free, get_available_nodes

(* How far passes from s have come after k of them: either the last one    *)
(* started nothing, and the first job is blocked, or each started a job.   *)
IsFcn(f) == f = [x \in DOMAIN f |-> f[x]]
Settling(s, p, k) ==
  /\ Sorted(p.queue) /\ IsFcn(p.run) /\ p.settled \in BOOLEAN
  /\ p.settled => Blocked(ToSet(p.queue), p.t, p.occupied, p.cap)
  /\ ~p.settled => Cardinality(ToSet(p.queue)) + k <= NumJobs

LEMMA SettlingStep ==
  ASSUME job \in Workloads, NEW s, Fresh(s), NEW p, Passed(s, p), NEW tick, NEW k \in Nat,
         Settling(s, p, k)
  PROVE  Settling(s, PassAfter(p, tick, k + 1), k + 1)
<1> DEFINE w == BackfillInterval = 0 \/ (tick /\ k + 1 = 1)
           S == ToSet(schedule(p, w))
           q == Started(p, S)
<1>1. CASE p.settled
  <2>1. PassAfter(p, tick, k + 1) = p
    BY <1>1 DEF PassAfter
  <2> QED BY <1>1, <2>1 DEF Settling
<1>2. CASE ~p.settled
  <2>1. PassAfter(p, tick, k + 1) = q
    BY <1>2 DEF PassAfter
  <2>2. /\ p.t = s.t /\ p.cap = s.cap /\ p.queue \in Seq(Jobs)
        /\ p.occupied = s.occupied + NodesOf(Begun(s, p)) /\ Begun(s, p) \in SUBSET DueIn(s)
    BY DEF Passed
  <2>3. s.queue \in Seq(Jobs) /\ s.t \in Nat /\ s.cap \in Nat /\ s.occupied \in Nat
    BY DEF Fresh, Ready
  <2>4. DueIn(s) \in SUBSET Jobs
    BY <2>3, InToSet DEF DueIn
  <2>5. NodesOf(Begun(s, p)) \in Nat
    BY <2>2, <2>4, NodesType
  <2>6. Ready(p)
    BY <2>2, <2>3, <2>5 DEF Ready
  <2>7. S \in SUBSET DueIn(p) /\ ToSet(HeadsFirst(p).heads) \in SUBSET S
    <3> HIDE DEF w
    <3> QED BY <2>6, ScheduleFacts
  <2>8. Sorted(p.queue) /\ IsFcn(p.run) /\ Cardinality(ToSet(p.queue)) + k <= NumJobs
    BY <1>2 DEF Settling
  <2>9. /\ q.t = p.t /\ q.cap = p.cap /\ q.occupied = p.occupied + NodesOf(S)
        /\ q.queue = Erased(p.queue, S) /\ q.settled = (S = {})
    <3> HIDE DEF S
    <3> QED BY DEF Started
  <2>10. IsFcn(q.run)
    <3> HIDE DEF S
    <3> DEFINE D == DOMAIN p.run \cup S
               F(j) == IF j \in S THEN PlannedRelease(p.t, job[j].limit) ELSE p.run[j]
    <3>1. q.run = [j \in D |-> F(j)]
      BY TableIs DEF Started
    <3> HIDE DEF D, F, q
    <3> QED BY <3>1 DEF IsFcn
  <2> HIDE DEF S, q
  <2>11. Sorted(q.queue) /\ ToSet(q.queue) = ToSet(p.queue) \ S
    BY <2>2, <2>8, <2>9, ErasedFacts
  <2>12. CASE S = {}
    <3>1. Blocked(ToSet(p.queue), p.t, p.occupied, p.cap)
      BY <2>6, <2>7, <2>8, <2>12, HeadsBlocked
    <3>2. q.occupied = p.occupied /\ ToSet(q.queue) = ToSet(p.queue)
      BY <2>2, <2>3, <2>5, <2>9, <2>11, <2>12, NodesEmpty
    <3> QED BY <3>1, <3>2, <2>1, <2>9, <2>10, <2>11, <2>12 DEF Settling
  <2>13. CASE S # {}
    <3> DEFINE Q == ToSet(p.queue)
    <3>1. Q \in SUBSET Jobs /\ S \in SUBSET Q
      BY <2>2, <2>7, InToSet DEF DueIn
    <3> HIDE DEF Q
    <3>2. IsFiniteSet(Q) /\ IsFiniteSet(Q \ S)
      BY <3>1, JobsFinite, FS_Subset
    <3>3. Q \ S \in SUBSET Q /\ Q \ S # Q
      BY <3>1, <2>13
    <3>4. Cardinality(Q \ S) < Cardinality(Q) /\ Cardinality(Q) \in Nat /\ Cardinality(Q \ S) \in Nat
      BY <3>2, <3>3, FS_Subset, FS_CardinalityType
    <3>5. Cardinality(ToSet(q.queue)) + (k + 1) <= NumJobs
      BY <3>4, <2>8, <2>11, Constants DEF Q
    <3> QED BY <3>5, <2>1, <2>9, <2>10, <2>11, <2>13 DEF Settling
  <2> QED BY <2>12, <2>13
<1> QED BY <1>1, <1>2

LEMMA ScheduledSettles ==
  ASSUME job \in Workloads, NEW s, Fresh(s), Sorted(s.queue), IsFcn(s.run), s.settled = FALSE, NEW tick,
         NEW p, p = Scheduled(s, tick)
  PROVE  /\ Sorted(p.queue) /\ IsFcn(p.run)
         /\ Blocked(ToSet(p.queue), p.t, p.occupied, p.cap)
<1>1. PICK g : IsPass(s, tick, g) /\ Scheduled(s, tick) = g[NumJobs]
  BY PassIs
<1>2. \A k \in 0 .. NumJobs : g[k] = PassStep(s, tick, g, k)
  <2> DEFINE h == [k \in 0 .. NumJobs |-> PassStep(s, tick, g, k)]
  <2>1. \A k \in 0 .. NumJobs : h[k] = PassStep(s, tick, g, k)
    OBVIOUS
  <2>2. g = h
    BY <1>1 DEF IsPass
  <2> HIDE DEF h
  <2> QED BY <2>1, <2>2
<1>3. NumJobs \in Nat
  BY Constants
<1> DEFINE Good(k) == Passed(s, g[k]) /\ Settling(s, g[k], k)
<1>4. ASSUME NEW i \in 0 .. NumJobs, ~Good(i) PROVE FALSE
  <2> DEFINE T == {k \in 0 .. NumJobs : ~Good(k)}
  <2>1. PICK m \in T : \A k \in T : m <= k
    <3>1. T \subseteq Nat /\ i \in T
      BY <1>4, <1>3
    <3> HIDE DEF T
    <3> QED BY <3>1, LeastExists
  <2>2. m \in 0 .. NumJobs /\ ~Good(m)
    BY <2>1
  <2>3. CASE m = 0
    <3>1. g[m] = s
      BY <1>2, <2>2, <2>3 DEF PassStep
    <3>2. ToSet(s.queue) \in SUBSET Jobs
      BY InToSet DEF Fresh, Ready
    <3>3. Cardinality(ToSet(s.queue)) \in Nat /\ Cardinality(ToSet(s.queue)) <= NumJobs
      <4>1. IsFiniteSet(Jobs) /\ Cardinality(Jobs) = NumJobs
        BY <1>3, FS_Interval DEF Jobs
      <4> QED BY <3>2, <4>1, FS_Subset, FS_CardinalityType
    <3>4. Cardinality(ToSet(s.queue)) + 0 <= NumJobs
      BY <3>3, <1>3
    <3>5. Settling(s, s, 0)
      BY <3>4, Zenon DEF Settling
    <3> QED BY <3>1, <3>5, <2>2, <2>3, PassedSelf
  <2>4. CASE m # 0
    <3> DEFINE k == m - 1
    <3>1. k \in 0 .. NumJobs /\ k \notin T
      <4>1. k \in 0 .. NumJobs /\ k < m
        BY <2>2, <2>4, <1>3
      <4>2. k \in T => m <= k
        <5> HIDE DEF T, k
        <5> QED BY <2>1
      <4> QED BY <4>1, <4>2
    <3>2. Good(k)
      BY <3>1
    <3>3. g[m] = PassAfter(g[k], tick, m)
      BY <1>2, <2>2, <2>4 DEF PassStep
    <3>4. k + 1 = m /\ k \in Nat
      BY <2>2, <2>4, <1>3
    <3> HIDE DEF T, k
    <3>5. Passed(s, g[m])
      BY <3>2, <3>3, PassKeeps
    <3>6. Settling(s, g[m], m)
      BY <3>2, <3>3, <3>4, SettlingStep
    <3> QED BY <2>2, <3>5, <3>6
  <2> QED BY <2>3, <2>4
<1>5. Passed(s, p) /\ Settling(s, p, NumJobs)
  BY <1>1, <1>3, <1>4
<1>6. ToSet(p.queue) \in SUBSET Jobs
  BY <1>5, InToSet DEF Passed
<1>7. ASSUME ~p.settled PROVE ToSet(p.queue) = {}
  <2>1. IsFiniteSet(ToSet(p.queue)) /\ Cardinality(ToSet(p.queue)) \in Nat
    BY <1>6, JobsFinite, FS_CardinalityType
  <2>2. Cardinality(ToSet(p.queue)) = 0
    BY <1>3, <1>5, <1>7, <2>1 DEF Settling
  <2> QED BY <2>1, <2>2, FS_EmptySet
<1> QED BY <1>5, <1>7 DEF Settling, Blocked

-----------------------------------------------------------------------------
(* The books: the jobs with an END pending and the jobs with a RELEASE     *)
(* pending are the running ones, the counters are their nodes, every event *)
(* is where the start it follows from puts it, and a job that started and  *)
(* is no longer in the running map is over.                                *)
Ending(evs) == {j \in Jobs : \E e \in evs : e.kind = "end" /\ e.job = j}
Held(evs) == {j \in Jobs : \E e \in evs : e.kind = "release" /\ e.job = j}
Over(st, j) == st[j] + job[j].run + job[j].delay
Owed(st, e) ==
  /\ e.job \in Jobs /\ st[e.job] # Infinity
  /\ \/ e.kind = "end" /\ e.t = st[e.job] + job[e.job].run
     \/ e.kind = "release" /\ e.t = Over(st, e.job)

(* The part of the books that no running map is in. *)
Tally(t, st, evs, used, rel) ==
  /\ st \in [Jobs -> 0 .. Infinity]
  /\ \A e \in evs : Owed(st, e) /\ e.t > t
  /\ Ending(evs) \cap Held(evs) = {}
  /\ used = NodesOf(Ending(evs)) /\ rel = NodesOf(Held(evs))

Books(t, st, evs, run, used, rel) ==
  /\ st \in [Jobs -> 0 .. Infinity]
  /\ \A j \in Jobs : st[j] # Infinity => st[j] <= t
  /\ \A e \in evs : Owed(st, e) /\ e.t > t
  /\ DOMAIN run = Ending(evs) \cup Held(evs) /\ Ending(evs) \cap Held(evs) = {}
  /\ used = NodesOf(Ending(evs)) /\ rel = NodesOf(Held(evs))
  /\ \A j \in Jobs : st[j] # Infinity /\ j \notin DOMAIN run => Over(st, j) <= t

ClockInv == now \in 0 .. Horizon /\ target \in 0 .. Infinity /\ (looping => now <= target)
QueueInv ==
  /\ waiting \in Seq(Jobs) /\ appended \in 0 .. NumJobs
  /\ \A j \in ToSet(waiting) : start[j] = Infinity /\ j <= appended
  /\ \A j \in Jobs : j > appended => start[j] = Infinity
ArrivalsInv ==
  \A u \in DOMAIN arrivals :
    u \in Nat /\ u >= now /\ (looping => u > now) /\ \E j \in ToSet(waiting) : job[j].submit = u
CapacityInv ==
  /\ changes \in Schedules /\ nextChange \in 1 .. Len(changes) + 1 /\ capacity \in Nat
  /\ looping => NextCapacity > now
TickInv == nextTick \in Nat /\ (looping /\ BackfillInterval > 0 => nextTick >= now)

(* The inductive invariant. *)
LoopInv ==
  /\ job \in Workloads
  /\ ClockInv /\ QueueInv /\ ArrivalsInv /\ CapacityInv /\ TickInv
  /\ Books(now, start, evtq, running, inUse, releasing)

-----------------------------------------------------------------------------
(* Ticks. *)
LEMMA Multiple ==
  ASSUME NEW a \in Nat, NEW b \in Nat \ {0}
  PROVE  /\ a \div b \in Nat
         /\ (a \div b + 1) * b > a /\ (a \div b + 1) * b \in Nat
<1>1. a \div b \in Int /\ a % b \in 0 .. b - 1 /\ a = b * (a \div b) + (a % b)
  BY Z3
<1> DEFINE d == a \div b
<1> HIDE DEF d
<1>2. d \in Nat
  BY <1>1, Z3 DEF d
<1>3. (d + 1) * b = b * d + b /\ b * d \in Nat
  BY <1>2, Z3
<1> QED BY <1>1, <1>2, <1>3 DEF d

LEMMA CatchUpFacts ==
  ASSUME NEW tick \in Nat, NEW t \in Nat
  PROVE  CatchUp(tick, t) \in Nat /\ (BackfillInterval > 0 => CatchUp(tick, t) > t)
<1>1. CASE BackfillInterval > 0 /\ tick <= t
  <2> DEFINE b == BackfillInterval
             a == t - tick
             c == (a \div b + 1) * b
  <2>1. a \in Nat /\ b \in Nat \ {0}
    BY <1>1, Constants
  <2>2. CatchUp(tick, t) = tick + c
    BY <1>1 DEF CatchUp
  <2> HIDE DEF a, b
  <2>3. c > a /\ c \in Nat
    BY <2>1, Multiple
  <2> HIDE DEF c
  <2> QED BY <2>2, <2>3 DEF a
<1>2. CASE ~(BackfillInterval > 0 /\ tick <= t)
  BY <1>2, Constants DEF CatchUp
<1> QED BY <1>1, <1>2

LEMMA AlignFacts ==
  ASSUME NEW tick \in Nat, NEW t \in Nat
  PROVE  AlignTick(tick, t) \in Nat /\ (BackfillInterval > 0 => AlignTick(tick, t) >= t)
<1> DEFINE b == BackfillInterval
           a == t - tick - 1
           c == (a \div b + 1) * b
<1>1. CASE b > 0 /\ tick # Infinity /\ tick < t
  <2>1. a \in Nat /\ b \in Nat \ {0}
    BY <1>1, Constants
  <2>2. AlignTick(tick, t) = tick + ((a + b) \div b) * b
    <3>1. t - tick + b - 1 = a + b
      BY <2>1
    <3> QED BY <1>1, <3>1 DEF AlignTick
  <2> HIDE DEF a, b
  <2>3. (a + b) \div b = a \div b + 1
    BY <2>1, Z3
  <2>4. c > a /\ c \in Nat
    BY <2>1, Multiple
  <2>5. AlignTick(tick, t) = tick + c
    BY <2>2, <2>3
  <2> HIDE DEF c
  <2> QED BY <2>4, <2>5 DEF a
<1>2. CASE ~(b > 0 /\ tick # Infinity /\ tick < t)
  BY <1>2, Constants DEF AlignTick
<1> QED BY <1>1, <1>2

(* The next instants. *)
LEMMA LeastIs ==
  ASSUME NEW T, T \subseteq Nat
  PROVE  /\ Least(T) \in Nat
         /\ T = {} => Least(T) = Infinity
         /\ T # {} => Least(T) \in T
         /\ \A x \in T : Least(T) <= x
<1>1. CASE T = {}
  BY <1>1, Constants DEF Least
<1>2. CASE T # {}
  <2>1. \E x \in T : \A y \in T : x <= y
    BY <1>2, LeastExists
  <2>2. Least(T) = CHOOSE x \in T : \A y \in T : x <= y
    BY <1>2 DEF Least, Min
  <2>3. Least(T) \in T /\ \A y \in T : Least(T) <= y
    BY <2>1, <2>2
  <2> QED BY <2>3, <1>2
<1> QED BY <1>1, <1>2

LEMMA MinOfFour ==
  ASSUME NEW a \in Int, NEW b \in Int, NEW c \in Int, NEW d \in Int, NEW x \in Int
  PROVE  x <= Min({a, b, c, d}) <=> x <= a /\ x <= b /\ x <= c /\ x <= d
<1> DEFINE T == {a, b, c, d}
<1>1. \E z \in T : \A y \in T : z <= y
  OBVIOUS
<1>2. Min(T) \in T /\ \A y \in T : Min(T) <= y
  <2> HIDE DEF T
  <2> QED BY <1>1 DEF Min
<1> DEFINE m == Min(T)
<1> HIDE DEF m
<1> QED BY <1>2 DEF m

LEMMA MinOfThree ==
  ASSUME NEW a \in Int, NEW b \in Int, NEW c \in Int, NEW x \in Int
  PROVE  x <= Min({a, b, c}) <=> x <= a /\ x <= b /\ x <= c
<1>1. {a, b, c} = {a, b, c, c}
  OBVIOUS
<1> QED BY <1>1, MinOfFour

LEMMA MinOfTwoAtLeast ==
  ASSUME NEW a \in Int, NEW b \in Int, NEW x \in Int
  PROVE  x <= Min({a, b}) <=> x <= a /\ x <= b
<1>1. {a, b} = {a, b, b, b}
  OBVIOUS
<1> QED BY <1>1, MinOfFour

LEMMA ScheduleShape ==
  ASSUME NEW c \in Schedules
  PROVE  /\ Len(c) \in Nat
         /\ \A i \in 1 .. Len(c) : c[i].time \in 0 .. Horizon /\ c[i].total \in Nat
         /\ \A i, k \in 1 .. Len(c) : i < k => c[i].time < c[k].time
<1> DEFINE R == [time : Time, total : 0 .. TotalNodes]
<1>1. c \in Seq(R) /\ \A i, k \in 1 .. Len(c) : i < k => c[i].time < c[k].time
  BY SchedulingAssumption
<1>2. \A x \in R : x.time \in 0 .. Horizon /\ x.total \in Nat
  <2>1. \A x \in 0 .. TotalNodes : x \in Nat
    BY WorkloadAssumption DEF Nodes
  <2> QED BY <2>1 DEF Time
<1> HIDE DEF R
<1>3. Len(c) \in Nat /\ \A i \in 1 .. Len(c) : c[i] \in R
  BY <1>1
<1> QED BY <1>1, <1>2, <1>3

(* The instants that a state gives the loop to choose from.  They depend   *)
(* on the clock, the queue and the cursors, and on the events being ahead. *)
Clocked ==
  /\ job \in Workloads /\ ClockInv /\ waiting \in Seq(Jobs) /\ CapacityInv /\ TickInv
  /\ \A e \in evtq : e.t \in Nat /\ e.t > now

LEMMA ClockedInstants ==
  ASSUME Clocked
  PROVE  /\ NextEvent \in Nat /\ NextArrival \in Nat /\ NextCapacity \in Nat
         /\ EffectiveTick \in Nat /\ target \in Nat /\ now \in Nat
         /\ \A e \in evtq : e.t \in Nat /\ NextEvent <= e.t
         /\ evtq # {} => \E e \in evtq : e.t = NextEvent
         /\ evtq = {} => NextEvent = Infinity
         /\ \A j \in ToSet(waiting) : job[j].submit > now => NextArrival <= job[j].submit
         /\ NextArrival = Infinity \/ NextArrival > now
         /\ NextEvent = Infinity \/ NextEvent > now
         /\ NextCapacity = Infinity \/ NextCapacity <= Horizon
<1> USE Constants
<1>0. job \in Workloads /\ now \in 0 .. Horizon /\ target \in 0 .. Infinity
  BY DEF Clocked, ClockInv
<1>1. now \in Nat /\ target \in Nat
  BY <1>0
<1>2. \A e \in evtq : e.t \in Nat /\ e.t > now
  BY DEF Clocked
<1>3. /\ NextEvent \in Nat /\ (evtq # {} => \E e \in evtq : e.t = NextEvent)
      /\ (evtq = {} => NextEvent = Infinity)
      /\ \A e \in evtq : NextEvent <= e.t
  <2> DEFINE T == {e.t : e \in evtq}
  <2>1. /\ T \subseteq Nat /\ (evtq = {} => T = {}) /\ (evtq # {} => T # {})
        /\ \A e \in evtq : e.t \in T
    BY <1>2
  <2>2. \A x \in T : \E e \in evtq : e.t = x
    OBVIOUS
  <2>3. NextEvent = Least(T)
    BY DEF NextEvent
  <2> HIDE DEF T
  <2>4. Least(T) \in Nat /\ (T = {} => Least(T) = Infinity) /\ (T # {} => Least(T) \in T)
        /\ \A x \in T : Least(T) <= x
    BY <2>1, LeastIs
  <2> QED BY <2>1, <2>2, <2>3, <2>4
<1>4. NextEvent = Infinity \/ NextEvent > now
  BY <1>2, <1>3
<1>5. /\ waiting \in Seq(Jobs) /\ ToSet(waiting) \in SUBSET Jobs
      /\ \A j \in ToSet(waiting) : job[j].submit \in 0 .. Horizon
  <2>1. waiting \in Seq(Jobs)
    BY DEF Clocked
  <2>2. ToSet(waiting) \in SUBSET Jobs
    BY <2>1, InToSet
  <2> QED BY <2>1, <2>2, <1>0, JobFacts
<1>6. /\ NextArrival \in Nat /\ (NextArrival = Infinity \/ NextArrival > now)
      /\ \A j \in ToSet(waiting) : job[j].submit > now => NextArrival <= job[j].submit
  <2> DEFINE W == {k \in ToSet(waiting) : job[k].submit > now}
             T == {job[j].submit : j \in W}
  <2>1. T \subseteq Nat /\ \A x \in T : x > now
    BY <1>5
  <2>2. \A j \in ToSet(waiting) : job[j].submit > now => job[j].submit \in T
    OBVIOUS
  <2>3. NextArrival = Least(T)
    BY DEF NextArrival
  <2> HIDE DEF T
  <2>4. Least(T) \in Nat /\ (T = {} => Least(T) = Infinity) /\ (T # {} => Least(T) \in T)
        /\ \A x \in T : Least(T) <= x
    BY <2>1, LeastIs
  <2> QED BY <2>1, <2>2, <2>3, <2>4
<1>7. NextCapacity \in Nat /\ (NextCapacity = Infinity \/ NextCapacity <= Horizon)
  <2>1. changes \in Schedules /\ nextChange \in 1 .. Len(changes) + 1
    BY DEF Clocked, CapacityInv
  <2>2. Len(changes) \in Nat /\ \A i \in 1 .. Len(changes) : changes[i].time \in 0 .. Horizon
    BY <2>1, ScheduleShape
  <2>3. ASSUME nextChange <= Len(changes) PROVE changes[nextChange].time \in 0 .. Horizon
    <3>1. nextChange \in 1 .. Len(changes)
      BY <2>1, <2>2, <2>3
    <3> QED BY <3>1, <2>2
  <2> QED BY <2>3 DEF NextCapacity
<1>8. EffectiveTick \in Nat
  BY DEF EffectiveTick, Clocked, TickInv
<1> QED BY <1>1, <1>2, <1>3, <1>4, <1>6, <1>7, <1>8

LEMMA ClockedGuards ==
  ASSUME Clocked
  PROVE  /\ EventNext <=> /\ NextEvent < Infinity /\ NextEvent <= NextArrival
                          /\ NextEvent <= NextCapacity /\ NextEvent <= EffectiveTick
                          /\ NextEvent <= target
         /\ ArrivalNext <=> /\ NextArrival < Infinity /\ NextArrival <= NextCapacity
                            /\ NextArrival <= EffectiveTick /\ NextArrival <= target
         /\ CapacityNext <=> /\ NextCapacity < Infinity /\ NextCapacity <= EffectiveTick
                             /\ NextCapacity <= target
<1>1. /\ NextEvent \in Int /\ NextArrival \in Int /\ NextCapacity \in Int
      /\ EffectiveTick \in Int /\ target \in Int
  BY ClockedInstants
<1>2. NextEvent <= Min({NextArrival, NextCapacity, EffectiveTick, target}) <=>
        /\ NextEvent <= NextArrival /\ NextEvent <= NextCapacity
        /\ NextEvent <= EffectiveTick /\ NextEvent <= target
  BY ONLY <1>1, MinOfFour
<1>3. NextArrival <= Min({NextCapacity, EffectiveTick, target}) <=>
        NextArrival <= NextCapacity /\ NextArrival <= EffectiveTick /\ NextArrival <= target
  BY ONLY <1>1, MinOfThree
<1>4. NextCapacity <= Min({EffectiveTick, target}) <=>
        NextCapacity <= EffectiveTick /\ NextCapacity <= target
  BY ONLY <1>1, MinOfTwoAtLeast
<1> QED BY <1>2, <1>3, <1>4, Zenon DEF EventNext, ArrivalNext, CapacityNext

(* What a branch of the loop may rely on: it is tried only when no earlier *)
(* branch has an instant that is due before its own.                       *)
LEMMA ClockedBranches ==
  ASSUME Clocked
  PROVE  /\ EventNext => /\ NextEvent <= NextArrival /\ NextEvent \in 0 .. Horizon
                         /\ NextEvent <= target
         /\ ~EventNext /\ ArrivalNext =>
              /\ NextArrival < NextEvent /\ NextArrival \in 0 .. Horizon /\ NextArrival <= target
         /\ ~EventNext /\ ~ArrivalNext /\ CapacityNext =>
              /\ NextCapacity < NextEvent /\ NextCapacity < NextArrival
              /\ NextCapacity \in 0 .. Horizon /\ NextCapacity <= target
         /\ ~EventNext /\ ~ArrivalNext /\ ~CapacityNext
              /\ EffectiveTick < Infinity /\ EffectiveTick <= target =>
              /\ EffectiveTick < NextEvent /\ EffectiveTick < NextArrival
              /\ EffectiveTick < NextCapacity /\ EffectiveTick \in 0 .. Horizon
  BY ClockedInstants, ClockedGuards, Constants

(* The invariant of the loop clocks its states. *)
LEMMA LoopClocked == LoopInv => Clocked
<1> SUFFICES ASSUME LoopInv, NEW e \in evtq PROVE e.t \in Nat /\ e.t > now
  BY DEF LoopInv, QueueInv, Clocked
<1>1. Owed(start, e) /\ e.t > now /\ start \in [Jobs -> 0 .. Infinity] /\ job \in Workloads
  BY DEF LoopInv, Books
<1>2. e.job \in Jobs
  BY <1>1 DEF Owed
<1>3. start[e.job] \in Nat /\ job[e.job].run \in Nat /\ job[e.job].delay \in Nat
  BY <1>1, <1>2, JobFacts, Constants
<1>4. \/ e.t = start[e.job] + job[e.job].run
      \/ e.t = start[e.job] + job[e.job].run + job[e.job].delay
  BY <1>1 DEF Owed, Over
<1> QED BY <1>1, <1>3, <1>4

LEMMA InstantFacts ==
  ASSUME LoopInv
  PROVE  /\ NextEvent \in Nat /\ NextArrival \in Nat /\ NextCapacity \in Nat
         /\ EffectiveTick \in Nat /\ target \in Nat /\ now \in Nat
         /\ \A e \in evtq : e.t \in Nat /\ NextEvent <= e.t
         /\ evtq # {} => \E e \in evtq : e.t = NextEvent
         /\ evtq = {} => NextEvent = Infinity
         /\ \A j \in ToSet(waiting) : job[j].submit > now => NextArrival <= job[j].submit
         /\ NextArrival = Infinity \/ NextArrival > now
         /\ NextEvent = Infinity \/ NextEvent > now
         /\ NextCapacity = Infinity \/ NextCapacity <= Horizon
         /\ \A u \in DOMAIN arrivals : u > now => NextArrival <= u /\ u <= Horizon
<1> SUFFICES ASSUME NEW u \in DOMAIN arrivals, u > now PROVE NextArrival <= u /\ u <= Horizon
  BY LoopClocked, ClockedInstants
<1>1. PICK j \in ToSet(waiting) : job[j].submit = u
  BY DEF LoopInv, ArrivalsInv
<1>2. waiting \in Seq(Jobs) /\ job \in Workloads
  BY DEF LoopInv, QueueInv
<1>3. job[j].submit \in 0 .. Horizon
  BY <1>1, <1>2, InToSet, JobFacts
<1>4. job[j].submit > now => NextArrival <= job[j].submit
  BY <1>1, LoopClocked, ClockedInstants
<1> QED BY <1>1, <1>3, <1>4, Constants

LEMMA GuardFacts ==
  ASSUME LoopInv
  PROVE  /\ EventNext <=> /\ NextEvent < Infinity /\ NextEvent <= NextArrival
                          /\ NextEvent <= NextCapacity /\ NextEvent <= EffectiveTick
                          /\ NextEvent <= target
         /\ ArrivalNext <=> /\ NextArrival < Infinity /\ NextArrival <= NextCapacity
                            /\ NextArrival <= EffectiveTick /\ NextArrival <= target
         /\ CapacityNext <=> /\ NextCapacity < Infinity /\ NextCapacity <= EffectiveTick
                             /\ NextCapacity <= target
  BY LoopClocked, ClockedGuards

LEMMA BranchFacts ==
  ASSUME LoopInv
  PROVE  /\ EventNext => /\ NextEvent <= NextArrival /\ NextEvent \in 0 .. Horizon
                         /\ NextEvent <= target
         /\ ~EventNext /\ ArrivalNext =>
              /\ NextArrival < NextEvent /\ NextArrival \in 0 .. Horizon /\ NextArrival <= target
         /\ ~EventNext /\ ~ArrivalNext /\ CapacityNext =>
              /\ NextCapacity < NextEvent /\ NextCapacity < NextArrival
              /\ NextCapacity \in 0 .. Horizon /\ NextCapacity <= target
         /\ ~EventNext /\ ~ArrivalNext /\ ~CapacityNext
              /\ EffectiveTick < Infinity /\ EffectiveTick <= target =>
              /\ EffectiveTick < NextEvent /\ EffectiveTick < NextArrival
              /\ EffectiveTick < NextCapacity /\ EffectiveTick \in 0 .. Horizon
  BY LoopClocked, ClockedBranches

(* When the loop has no branch left before a finite target, nothing up to  *)
(* the target is pending.                                                  *)
LEMMA NothingLeft ==
  ASSUME LoopInv, looping, target < Drain,
         ~(LoopRuns /\ (EventNext \/ ArrivalNext \/ CapacityNext \/ TickNext))
  PROVE  /\ \A e \in evtq : e.t > target
         /\ NextCapacity > target
         /\ \A u \in DOMAIN arrivals : u > target
<1>1. /\ NextEvent \in Nat /\ NextArrival \in Nat /\ NextCapacity \in Nat
      /\ EffectiveTick \in Nat /\ target \in Nat /\ now \in Nat
      /\ Infinity \in Nat /\ target < Infinity
  BY InstantFacts, Constants
<1>2. LoopRuns => /\ ~EventNext /\ ~ArrivalNext /\ ~CapacityNext /\ ~TickNext
  OBVIOUS
<1>3. ASSUME NEW e \in evtq PROVE e.t > target
  <2>1. LoopRuns /\ evtq # {}
    BY DEF LoopRuns
  <2>2. NextEvent <= e.t /\ e.t \in Nat
    BY InstantFacts
  <2> QED BY <1>1, <1>2, <2>1, <2>2, GuardFacts DEF TickNext
<1>4. NextCapacity > target
  <2>1. CASE NextCapacity <= target
    <3>1. LoopRuns
      BY <2>1 DEF LoopRuns
    <3> QED BY <1>1, <1>2, <2>1, <3>1, GuardFacts DEF TickNext
  <2> QED BY <2>1, <1>1
<1>5. ASSUME NEW u \in DOMAIN arrivals PROVE u > target
  <2>1. u \in Nat /\ u > now
    BY DEF LoopInv, ArrivalsInv
  <2>2. NextArrival <= u /\ u <= Horizon
    BY <2>1, InstantFacts
  <2>3. NextArrival < Infinity
    BY <1>1, <2>1, <2>2, Constants
  <2>4. LoopRuns
    BY <2>3 DEF LoopRuns
  <2> QED BY <1>1, <1>2, <2>1, <2>2, <2>3, <2>4, GuardFacts DEF TickNext
<1> QED BY <1>3, <1>4, <1>5

(* The capacity cursor after t; what it says of the times from t on is     *)
(* what it said before.                                                    *)
CapacityOn(cap, next, u) ==
  LET due == {i \in next .. Len(changes) : changes[i].time <= u}
  IN  IF due = {} THEN cap ELSE changes[Max(due)].total

LEMMA CapacityStep ==
  ASSUME changes \in Schedules, nextChange \in 1 .. Len(changes) + 1, capacity \in Nat,
         NEW t \in 0 .. Horizon, ApplyCapacity(t), UNCHANGED changes
  PROVE  /\ nextChange' \in 1 .. Len(changes) + 1 /\ capacity' \in Nat /\ NextCapacity' > t
         /\ \A u \in t .. Horizon :
              CapacityOn(capacity', nextChange', u) = CapacityOn(capacity, nextChange, u)
<1> DEFINE n == nextChange
           L == Len(changes)
           D == {i \in n .. L : changes[i].time <= t}
<1>1. /\ Len(changes) \in Nat
      /\ \A i \in 1 .. Len(changes) : changes[i].time \in 0 .. Horizon /\ changes[i].total \in Nat
      /\ \A i, k \in 1 .. Len(changes) : i < k => changes[i].time < changes[k].time
  BY ScheduleShape
<1>2. L \in Nat /\ n \in 1 .. L + 1
  BY <1>1
<1>3. \A i \in 1 .. L : changes[i].time \in Nat /\ changes[i].total \in Nat
  BY <1>1, Constants
<1>4. /\ nextChange' = n + Cardinality(D)
      /\ capacity' = IF nextChange' = n THEN capacity ELSE changes[nextChange' - 1].total
      /\ NextCapacity' = IF nextChange' <= L THEN changes[nextChange'].time ELSE Infinity
  <2>1. ChangeAfter(t) = n + Cardinality(D)
    BY DEF ChangeAfter
  <2>2. /\ nextChange' = ChangeAfter(t)
        /\ capacity' = IF ChangeAfter(t) = nextChange THEN capacity
                       ELSE changes[ChangeAfter(t) - 1].total
    BY DEF ApplyCapacity
  <2>3. NextCapacity' = IF nextChange' <= Len(changes) THEN changes[nextChange'].time ELSE Infinity
    BY Zenon DEF NextCapacity
  <2> HIDE DEF D
  <2> QED BY <2>1, <2>2, <2>3
<1>5. t \in Nat /\ t < Infinity
  BY Constants
<1>6. \A i, k \in 1 .. L : i < k => changes[i].time < changes[k].time
  BY <1>1
<1>7. \A i : i \in D <=> i \in n .. L /\ changes[i].time <= t
  OBVIOUS
<1> HIDE DEF n, L, D
<1>8. CASE D = {}
  <2>1. Cardinality(D) = 0
    BY <1>8, FS_EmptySet
  <2>2. nextChange' = n /\ capacity' = capacity
    BY <2>1, <1>2, <1>4
  <2>3. ASSUME n <= L PROVE changes[n].time > t
    <3>1. n \in n .. L /\ n \in 1 .. L
      BY <2>3, <1>2
    <3> QED BY <3>1, <1>3, <1>5, <1>7, <1>8
  <2>4. \A u \in t .. Horizon :
          CapacityOn(capacity', nextChange', u) = CapacityOn(capacity, nextChange, u)
    BY <2>2 DEF n
  <2> QED BY <2>2, <2>3, <2>4, <1>2, <1>4, <1>5 DEF n, L
<1>9. CASE D # {}
  <2>1. D \subseteq 0 .. L
    BY <1>2, <1>7
  <2> DEFINE m == Max(D)
  <2>2. m \in D /\ \A x \in D : x <= m
    BY <1>2, <1>9, <2>1, MaxIs
  <2> HIDE DEF m
  <2>3. m \in n .. L /\ changes[m].time <= t /\ m \in 1 .. L
    BY <2>2, <1>2, <1>7
  <2>4. D = n .. m
    <3>1. ASSUME NEW i \in D PROVE i \in n .. m
      BY <1>2, <1>7, <2>2, <2>3
    <3>2. ASSUME NEW i \in n .. m PROVE i \in D
      <4>1. i \in n .. L /\ i \in 1 .. L /\ (i = m \/ i < m)
        BY <1>2, <2>3
      <4>2. changes[i].time <= changes[m].time
        BY <4>1, <2>3, <1>3, <1>6
      <4>3. changes[i].time <= t
        BY <4>1, <4>2, <2>3, <1>3, <1>5
      <4> QED BY <4>1, <4>3, <1>7
    <3> QED BY <3>1, <3>2
  <2>5. Cardinality(D) = m - n + 1
    <3>1. n \in Int /\ m \in Int /\ ~(n > m)
      BY <1>2, <2>3
    <3> QED BY <3>1, <2>4, FS_Interval
  <2>6. nextChange' = m + 1 /\ capacity' = changes[m].total
    <3>1. n + (m - n + 1) = m + 1 /\ m + 1 # n /\ m + 1 - 1 = m
      BY <1>2, <2>3
    <3>2. nextChange' = m + 1
      BY <3>1, <2>5, <1>4
    <3>3. nextChange' - 1 = m /\ nextChange' # n
      BY <3>1, <3>2, <2>3
    <3>4. capacity' = changes[nextChange' - 1].total
      BY <3>3, <1>4
    <3> QED BY <3>2, <3>3, <3>4
  <2>7. ASSUME m + 1 <= L PROVE changes[m + 1].time > t
    <3>1. m + 1 \in n .. L /\ m + 1 \in 1 .. L /\ m + 1 \notin D
      BY <2>7, <2>2, <2>3, <1>2
    <3> QED BY <3>1, <1>3, <1>5, <1>7
  <2>8. ASSUME NEW u \in t .. Horizon
        PROVE  CapacityOn(capacity', nextChange', u) = CapacityOn(capacity, nextChange, u)
    <3> DEFINE old == {i \in n .. L : changes[i].time <= u}
               new == {i \in m + 1 .. L : changes[i].time <= u}
    <3>1. /\ CapacityOn(capacity, nextChange, u) = IF old = {} THEN capacity ELSE changes[Max(old)].total
          /\ CapacityOn(capacity', nextChange', u)
               = IF new = {} THEN capacity' ELSE changes[Max(new)].total
      BY <2>6 DEF CapacityOn, n, L
    <3>2. old \subseteq 0 .. L /\ new \subseteq 0 .. L /\ new \subseteq old /\ m \in old
      BY <2>3, <1>2, <1>3, <1>5
    <3>3. \A i \in old : i \in new \/ i <= m
      BY <2>3, <1>2
    <3>4. \A i \in new : i > m
      BY <2>3, <1>2
    <3> HIDE DEF old, new
    <3> DEFINE a == Max(old)
               b == Max(new)
    <3>5. a \in old /\ \A i \in old : i <= a
      BY <3>2, <1>2, MaxIs
    <3>6. CASE new = {}
      <4> HIDE DEF a
      <4>1. a \in 0 .. L /\ a <= m /\ m <= a
        BY <3>2, <3>3, <3>5, <3>6
      <4>2. a = m
        BY <4>1, <2>3, <1>2
      <4> QED BY <4>2, <3>1, <3>2, <3>6, <2>6 DEF a
    <3>7. CASE new # {}
      <4>1. b \in new /\ \A i \in new : i <= b
        BY <3>2, <3>7, <1>2, MaxIs
      <4> HIDE DEF a, b
      <4>2. a \in 0 .. L /\ b \in 0 .. L /\ b <= a /\ b > m
        BY <4>1, <3>2, <3>4, <3>5
      <4>3. a \in new
        <5>1. ~(a <= m)
          BY <4>2, <2>3, <1>2
        <5> QED BY <5>1, <3>3, <3>5
      <4>4. a <= b
        BY <4>1, <4>3
      <4>5. a = b
        BY <4>2, <4>4, <1>2
      <4> QED BY <4>5, <3>1, <3>2, <3>7 DEF a, b
    <3> QED BY <3>6, <3>7
  <2> QED BY <2>3, <2>6, <2>7, <2>8, <1>2, <1>3, <1>4, <1>5 DEF n, L
<1> QED BY <1>8, <1>9

(* The state that the passes of an instant start from. *)
LEMMA FreshState ==
  ASSUME job \in Workloads, NEW t \in 0 .. Horizon, NEW evs, NEW used, NEW run, NEW rel,
         Books(t, start, evs, run, used, rel), waiting \in Seq(Jobs),
         \A j \in ToSet(waiting) : start[j] = Infinity,
         NEW s, NEW cap \in Nat, NEW next,
         s = State(t, cap, next, used + rel, waiting, run)
  PROVE  Fresh(s) /\ used \in Nat /\ rel \in Nat /\ \A j \in DOMAIN run : start[j] # Infinity
<1>1. /\ s.t = t /\ s.cap = cap /\ s.occupied = used + rel /\ s.queue = waiting /\ s.run = run
  BY DEF State
<1> DEFINE E == Ending(evs)
           H == Held(evs)
<1>2. /\ \A e \in evs : Owed(start, e)
      /\ DOMAIN run = E \cup H
      /\ used = NodesOf(E) /\ rel = NodesOf(H)
  BY DEF Books
<1>3. E \in SUBSET Jobs /\ H \in SUBSET Jobs
  BY DEF Ending, Held
<1>4. \A j \in DOMAIN run : start[j] # Infinity
  <2>1. \A j \in E : \E e \in evs : e.job = j
    BY DEF Ending
  <2>2. \A j \in H : \E e \in evs : e.job = j
    BY DEF Held
  <2>3. \A e \in evs : start[e.job] # Infinity
    BY <1>2 DEF Owed
  <2> HIDE DEF E, H
  <2> QED BY <2>1, <2>2, <2>3, <1>2
<1> HIDE DEF E, H
<1>5. used \in Nat /\ rel \in Nat
  BY <1>2, <1>3, NodesType
<1>6. Fresh(s)
  BY <1>1, <1>4, <1>5, Constants DEF Fresh, Ready
<1> QED BY <1>4, <1>5, <1>6

(* Starting the jobs that passes chose keeps the tally, and what runs      *)
(* after a start fits the capacity.                                        *)
LEMMA DispatchTally ==
  ASSUME job \in Workloads, NEW t \in 0 .. Horizon, NEW evs, NEW used, NEW run, NEW rel,
         Tally(t, start, evs, used, rel), waiting \in Seq(Jobs),
         \A j \in ToSet(waiting) : start[j] = Infinity,
         \A j \in DOMAIN run : start[j] # Infinity,
         NEW s, NEW then, NEW cap \in Nat, NEW next,
         s = State(t, cap, next, used + rel, waiting, run),
         then = s \/ \E tick : then = Scheduled(s, tick),
         Dispatch(s, then, evs, used)
  PROVE  \E S \in SUBSET ToSet(waiting) :
           /\ Tally(t, start', evtq', inUse', rel)
           /\ evtq' = evs \cup {[t |-> t + job[j].run, kind |-> "end", job |-> j] : j \in S}
           /\ Ending(evtq') = Ending(evs) \cup S /\ Held(evtq') = Held(evs)
           /\ DOMAIN running' = DOMAIN run \cup S
           /\ waiting' \in Seq(Jobs) /\ ToSet(waiting') = ToSet(waiting) \ S
           /\ \A j \in S : job[j].submit <= t
           /\ start' = [j \in Jobs |-> IF j \in S THEN t ELSE start[j]]
           /\ S # {} => inUse' + rel <= cap
<1>1. /\ s.t = t /\ s.cap = cap /\ s.occupied = used + rel /\ s.queue = waiting /\ s.run = run
  BY DEF State
<1> DEFINE E == Ending(evs)
           H == Held(evs)
<1>2. /\ start \in [Jobs -> 0 .. Infinity]
      /\ \A e \in evs : Owed(start, e) /\ e.t > t
      /\ E \cap H = {} /\ used = NodesOf(E) /\ rel = NodesOf(H)
  BY DEF Tally
<1>3. E \in SUBSET Jobs /\ H \in SUBSET Jobs
  BY DEF Ending, Held
<1> HIDE DEF E, H
<1>5. used \in Nat /\ rel \in Nat
  BY <1>2, <1>3, NodesType
<1>6. Fresh(s)
  BY <1>1, <1>5, Constants DEF Fresh, Ready
<1>7. Passed(s, then)
  BY <1>6, PassedSelf, ScheduledFacts
<1> DEFINE S == DOMAIN then.run \ DOMAIN s.run
<1>8. /\ then.queue \in Seq(Jobs) /\ ToSet(then.queue) = ToSet(waiting) \ S
      /\ DOMAIN run \in SUBSET DOMAIN then.run
      /\ S \in SUBSET DueIn(s)
      /\ then.occupied = used + rel + NodesOf(S)
      /\ S # {} => then.occupied <= cap
  BY <1>1, <1>7 DEF Passed, Begun
<1>9. /\ waiting' = then.queue /\ running' = then.run
      /\ evtq' = evs \cup {[t |-> t + job[j].run, kind |-> "end", job |-> j] : j \in S}
      /\ inUse' = used + NodesOf(S)
      /\ start' = [j \in Jobs |-> IF j \in S THEN t ELSE start[j]]
  BY <1>1 DEF Dispatch
<1>10. DOMAIN running' = DOMAIN run \cup S
  BY <1>1, <1>8, <1>9
<1> HIDE DEF S
<1>11. S \in SUBSET ToSet(waiting) /\ \A j \in S : job[j].submit <= t
  BY <1>1, <1>8 DEF DueIn
<1>12. S \in SUBSET Jobs
  BY <1>11, InToSet
<1>13. \A j \in Jobs : /\ job[j].run \in Nat \ {0} /\ job[j].delay \in Nat
                       /\ start[j] \in 0 .. Infinity
  BY <1>2, JobFacts
<1>14. t \in Nat /\ t # Infinity /\ t \in 0 .. Infinity
  BY Constants
<1>15. /\ start' \in [Jobs -> 0 .. Infinity]
       /\ \A j \in S : start'[j] = t
       /\ \A j \in Jobs : j \notin S => start'[j] = start[j]
  BY <1>9, <1>12, <1>13, <1>14
<1>17. ASSUME NEW e \in evtq' PROVE
         \/ e \in evs
         \/ e.job \in S /\ e.kind = "end" /\ e.t = t + job[e.job].run
  <2>1. CASE e \notin evs
    <3>1. PICK j \in S : e = [t |-> t + job[j].run, kind |-> "end", job |-> j]
      BY <1>9, <2>1
    <3> QED BY <3>1
  <2> QED BY <2>1
<1>18. ASSUME NEW e \in evtq' PROVE Owed(start', e) /\ e.t > t
  <2>1. CASE e \in evs
    <3>1. Owed(start, e) /\ e.t > t
      BY <1>2, <2>1
    <3>2. e.job \in Jobs /\ e.job \notin S
      <4>1. e.job \in Jobs /\ start[e.job] # Infinity
        BY <3>1 DEF Owed
      <4> QED BY <4>1, <1>11
    <3>3. start'[e.job] = start[e.job]
      BY <3>2, <1>15
    <3> QED BY <3>1, <3>3 DEF Owed, Over
  <2>2. CASE e.job \in S /\ e.kind = "end" /\ e.t = t + job[e.job].run
    <3>1. e.job \in Jobs /\ start'[e.job] = t
      BY <2>2, <1>12, <1>15
    <3>2. job[e.job].run \in Nat \ {0}
      BY <3>1, <1>13
    <3> QED BY <2>2, <3>1, <3>2, <1>14 DEF Owed
  <2> QED BY <1>17, <2>1, <2>2
<1>19. Ending(evtq') = E \cup S
  <2>1. ASSUME NEW j \in Ending(evtq') PROVE j \in E \cup S
    <3>1. j \in Jobs /\ \E e \in evtq' : e.kind = "end" /\ e.job = j
      BY DEF Ending
    <3>2. PICK e \in evtq' : e.kind = "end" /\ e.job = j
      BY <3>1
    <3> QED BY <3>1, <3>2, <1>17 DEF E, Ending
  <2>2. ASSUME NEW j \in E PROVE j \in Ending(evtq')
    BY <1>9 DEF E, Ending
  <2>3. ASSUME NEW j \in S PROVE j \in Ending(evtq')
    <3> DEFINE e == [t |-> t + job[j].run, kind |-> "end", job |-> j]
    <3>1. e \in evtq'
      BY <1>9
    <3>2. e.kind = "end" /\ e.job = j
      OBVIOUS
    <3>3. j \in Jobs
      BY <1>12
    <3> HIDE DEF e
    <3> QED BY <3>1, <3>2, <3>3 DEF Ending
  <2> QED BY <2>1, <2>2, <2>3
<1>20. Held(evtq') = H
  <2>1. ASSUME NEW j \in Held(evtq') PROVE j \in H
    <3>1. j \in Jobs /\ \E e \in evtq' : e.kind = "release" /\ e.job = j
      BY DEF Held
    <3>2. PICK e \in evtq' : e.kind = "release" /\ e.job = j
      BY <3>1
    <3>3. e \in evs
      BY <3>2, <1>17
    <3> QED BY <3>1, <3>2, <3>3 DEF H, Held
  <2>2. ASSUME NEW j \in H PROVE j \in Held(evtq')
    BY <1>9 DEF H, Held
  <2> QED BY <2>1, <2>2
<1>21. NodesOf(E \cup S) = NodesOf(E) + NodesOf(S) /\ NodesOf(S) \in Nat
  <2>1. ASSUME NEW j \in E PROVE j \notin S
    <3>1. PICK e \in evs : e.job = j
      BY DEF E, Ending
    <3>2. start[j] # Infinity
      BY <3>1, <1>2 DEF Owed
    <3> QED BY <3>2, <1>11
  <2> QED BY <2>1, <1>3, <1>12, NodesUnion, NodesType
<1>22. Tally(t, start', evtq', inUse', rel)
  <2>1. Ending(evtq') \cap Held(evtq') = {}
    <3>1. H \cap S = {}
      <4>1. ASSUME NEW j \in H PROVE j \notin S
        <5>1. PICK e \in evs : e.job = j
          BY DEF H, Held
        <5>2. start[j] # Infinity
          BY <5>1, <1>2 DEF Owed
        <5> QED BY <5>2, <1>11
      <4> QED BY <4>1
    <3> QED BY <3>1, <1>2, <1>19, <1>20
  <2>2. inUse' = NodesOf(Ending(evtq')) /\ rel = NodesOf(Held(evtq'))
    BY <1>2, <1>9, <1>19, <1>20, <1>21
  <2> QED BY <1>15, <1>18, <2>1, <2>2 DEF Tally
<1>23. S # {} => inUse' + rel <= cap
  BY <1>5, <1>8, <1>9, <1>21
<1>24. Ending(evtq') = Ending(evs) \cup S /\ Held(evtq') = Held(evs)
  BY <1>19, <1>20 DEF E, H
<1> QED BY <1>8, <1>9, <1>10, <1>11, <1>22, <1>23, <1>24

(* And the books. *)
LEMMA DispatchFacts ==
  ASSUME job \in Workloads, NEW t \in 0 .. Horizon, NEW evs, NEW used, NEW run, NEW rel,
         Books(t, start, evs, run, used, rel), waiting \in Seq(Jobs),
         \A j \in ToSet(waiting) : start[j] = Infinity,
         NEW s, NEW then, NEW cap \in Nat, NEW next,
         s = State(t, cap, next, used + rel, waiting, run),
         then = s \/ \E tick : then = Scheduled(s, tick),
         Dispatch(s, then, evs, used)
  PROVE  \E S \in SUBSET ToSet(waiting) :
           /\ Books(t, start', evtq', running', inUse', rel)
           /\ waiting' \in Seq(Jobs) /\ ToSet(waiting') = ToSet(waiting) \ S
           /\ \A j \in S : job[j].submit <= t
           /\ start' = [j \in Jobs |-> IF j \in S THEN t ELSE start[j]]
           /\ S # {} => inUse' + rel <= cap
<1>1. /\ start \in [Jobs -> 0 .. Infinity]
      /\ \A j \in Jobs : start[j] # Infinity => start[j] <= t
      /\ DOMAIN run = Ending(evs) \cup Held(evs)
      /\ \A j \in Jobs : start[j] # Infinity /\ j \notin DOMAIN run => Over(start, j) <= t
  BY DEF Books
<1>2. \A j \in DOMAIN run : start[j] # Infinity
  BY FreshState
<1>3. PICK S \in SUBSET ToSet(waiting) :
        /\ Tally(t, start', evtq', inUse', rel)
        /\ evtq' = evs \cup {[t |-> t + job[j].run, kind |-> "end", job |-> j] : j \in S}
        /\ Ending(evtq') = Ending(evs) \cup S /\ Held(evtq') = Held(evs)
        /\ DOMAIN running' = DOMAIN run \cup S
        /\ waiting' \in Seq(Jobs) /\ ToSet(waiting') = ToSet(waiting) \ S
        /\ \A j \in S : job[j].submit <= t
        /\ start' = [j \in Jobs |-> IF j \in S THEN t ELSE start[j]]
        /\ S # {} => inUse' + rel <= cap
  <2>1. Tally(t, start, evs, used, rel)
    BY DEF Books, Tally
  <2>2. /\ job \in Workloads /\ t \in 0 .. Horizon /\ cap \in Nat /\ waiting \in Seq(Jobs)
        /\ \A j \in ToSet(waiting) : start[j] = Infinity
        /\ s = State(t, cap, next, used + rel, waiting, run)
        /\ then = s \/ \E tick : then = Scheduled(s, tick)
        /\ Dispatch(s, then, evs, used)
    OBVIOUS
  <2> QED BY ONLY <2>1, <2>2, <1>2, DispatchTally
<1>4. S \in SUBSET Jobs
  BY InToSet
<1>5. /\ \A j \in S : start'[j] = t
      /\ \A j \in Jobs : j \notin S => start'[j] = start[j]
  BY <1>3, <1>4
<1>6. \A j \in Jobs : start'[j] # Infinity => start'[j] <= t
  BY <1>1, <1>5, Constants
<1>7. ASSUME NEW j \in Jobs, start'[j] # Infinity, j \notin DOMAIN running'
      PROVE  Over(start', j) <= t
  <2>1. j \notin S /\ j \notin DOMAIN run
    BY <1>3, <1>7
  <2>2. start'[j] = start[j]
    BY <2>1, <1>5
  <2>3. Over(start, j) <= t
    BY <2>1, <2>2, <1>1, <1>7
  <2> QED BY <2>2, <2>3 DEF Over
<1>8. Books(t, start', evtq', running', inUse', rel)
  <2>1. DOMAIN running' = Ending(evtq') \cup Held(evtq')
    BY <1>1, <1>3
  <2> QED BY <1>3, <1>6, <1>7, <2>1 DEF Books, Tally
<1> QED BY <1>3, <1>8

(* Taking every event of an instant keeps the tally: an END turns into a   *)
(* RELEASE or leaves, and a RELEASE leaves.                                *)
InstantTaken(t, evs, ends, held, queue, released, left) ==
  /\ ends = {e.job : e \in {f \in evs : f.t = t /\ f.kind = "end"}}
  /\ held = IF ReleaseDelays = {} THEN {} ELSE ends
  /\ queue = evs \cup {[t |-> t + job[j].delay, kind |-> "release", job |-> j] : j \in held}
  /\ released = {e.job : e \in {f \in queue : f.t = t /\ f.kind = "release"}}
  /\ left = {e \in queue : e.t # t}

LEMMA EventsTally ==
  ASSUME job \in Workloads, NEW n \in Nat, NEW st, NEW evs, NEW used, NEW rel,
         Tally(n, st, evs, used, rel),
         NEW t \in Nat, n <= t, \A e \in evs : t <= e.t,
         NEW ends, NEW held, NEW queue, NEW released, NEW left,
         InstantTaken(t, evs, ends, held, queue, released, left)
  PROVE  /\ Tally(t, st, left, used - NodesOf(ends), rel + NodesOf(held) - NodesOf(released))
         /\ Ending(left) = Ending(evs) \ ends /\ ends \in SUBSET Ending(evs)
         /\ Held(left) = (Held(evs) \cup held) \ released
         /\ released \in SUBSET (Held(evs) \cup held) /\ held \in SUBSET ends
         /\ \A j \in released : Over(st, j) = t
         /\ \A j \in ends : st[j] + job[j].run = t
<1> USE DEF InstantTaken
<1> DEFINE E == Ending(evs)
           H == Held(evs)
<1>1. /\ st \in [Jobs -> 0 .. Infinity]
      /\ \A e \in evs : Owed(st, e) /\ e.t > n
      /\ E \cap H = {} /\ used = NodesOf(E) /\ rel = NodesOf(H)
  BY DEF Tally
<1>2. E \in SUBSET Jobs /\ H \in SUBSET Jobs
  BY DEF Ending, Held
<1>3. \A j \in Jobs : /\ st[j] \in Nat /\ job[j].run \in Nat \ {0} /\ job[j].delay \in Nat
                      /\ ReleaseDelays = {} => job[j].delay = 0
  BY <1>1, JobFacts, Constants
<1>4. \A j : j \in ends <=> \E e \in evs : e.t = t /\ e.kind = "end" /\ e.job = j
  OBVIOUS
<1>5. \A j : j \in released <=> \E e \in queue : e.t = t /\ e.kind = "release" /\ e.job = j
  OBVIOUS
<1>6. ASSUME NEW j \in ends
      PROVE  j \in E /\ st[j] # Infinity /\ st[j] + job[j].run = t
  <2>1. PICK e \in evs : e.t = t /\ e.kind = "end" /\ e.job = j
    BY <1>4
  <2>2. Owed(st, e)
    BY <1>1
  <2> QED BY <2>1, <2>2 DEF Owed, E, Ending
<1>7. held \in SUBSET ends
  OBVIOUS
<1>8. ASSUME NEW e \in queue PROVE
        \/ e \in evs
        \/ e.job \in held /\ e.kind = "release" /\ e.t = t + job[e.job].delay
  <2>1. CASE e \notin evs
    <3>1. PICK j \in held : e = [t |-> t + job[j].delay, kind |-> "release", job |-> j]
      BY <2>1
    <3> QED BY <3>1
  <2> QED BY <2>1
<1>9. ASSUME NEW j \in held PROVE
        \E e \in queue : e.kind = "release" /\ e.job = j
  <2> DEFINE e == [t |-> t + job[j].delay, kind |-> "release", job |-> j]
  <2>1. e \in queue
    OBVIOUS
  <2>2. e.kind = "release" /\ e.job = j
    OBVIOUS
  <2> HIDE DEF e
  <2> QED BY <2>1, <2>2
<1>10. evs \subseteq queue
  OBVIOUS
<1> HIDE DEF E, H
<1>11. ASSUME NEW e \in queue PROVE Owed(st, e) /\ e.t >= t
  <2>1. CASE e \in evs
    <3>1. e.t \in Int
      <4>1. Owed(st, e)
        BY <1>1, <2>1
      <4>2. e.job \in Jobs
        BY <4>1 DEF Owed
      <4> QED BY <4>1, <4>2, <1>3 DEF Owed, Over
    <3> QED BY <2>1, <3>1, <1>1
  <2>2. CASE e.job \in held /\ e.kind = "release" /\ e.t = t + job[e.job].delay
    <3>1. e.job \in E /\ st[e.job] # Infinity /\ st[e.job] + job[e.job].run = t
      BY <2>2, <1>6, <1>7
    <3>2. e.job \in Jobs /\ job[e.job].delay \in Nat
      BY <3>1, <1>2, <1>3
    <3>3. e.t = Over(st, e.job)
      BY <2>2, <3>1 DEF Over
    <3> QED BY <2>2, <3>1, <3>2, <3>3 DEF Owed
  <2> QED BY <1>8, <2>1, <2>2
<1>12. \A e \in left : Owed(st, e) /\ e.t > t
  <2> SUFFICES ASSUME NEW e \in left PROVE Owed(st, e) /\ e.t > t
    OBVIOUS
  <2>1. e \in queue /\ e.t # t
    OBVIOUS
  <2>2. Owed(st, e) /\ e.t >= t
    BY <2>1, <1>11
  <2>3. e.job \in Jobs
    BY <2>2 DEF Owed
  <2>4. e.t \in Int
    BY <2>2, <2>3, <1>3 DEF Owed, Over
  <2> QED BY <2>1, <2>2, <2>4
<1>13. Ending(left) = E \ ends
  <2>1. ASSUME NEW j \in Ending(left) PROVE j \in E \ ends
    <3>1. PICK e \in left : j \in Jobs /\ e.kind = "end" /\ e.job = j
      BY DEF Ending
    <3>2. e \in evs
      BY <3>1, <1>8
    <3>3. j \notin ends
      <4>1. Owed(st, e)
        BY <3>1, <1>12
      <4>2. e.t = st[j] + job[j].run /\ e.t # t
        BY <4>1, <3>1 DEF Owed
      <4> QED BY <4>2, <1>6
    <3> QED BY <3>1, <3>2, <3>3 DEF E, Ending
  <2>2. ASSUME NEW j \in E \ ends PROVE j \in Ending(left)
    <3>1. PICK e \in evs : j \in Jobs /\ e.kind = "end" /\ e.job = j
      BY DEF E, Ending
    <3>2. e.t # t
      BY <3>1, <1>4
    <3> QED BY <3>1, <3>2, <1>10 DEF Ending
  <2> QED BY <2>1, <2>2
<1>14. ASSUME NEW e \in queue, e.kind = "release"
       PROVE  e.job \in H \cup held /\ (e.t = t <=> Over(st, e.job) = t) /\ e.job \in Jobs
  <2>1. Owed(st, e)
    BY <1>11
  <2>2. e.t = Over(st, e.job) /\ e.job \in Jobs
    BY <2>1, <1>14 DEF Owed
  <2>3. e.job \in H \cup held
    BY <1>8, <1>14, <2>2 DEF H, Held
  <2> QED BY <2>2, <2>3
<1>15. /\ released \in SUBSET (H \cup held)
       /\ \A j \in released : Over(st, j) = t
  BY <1>5, <1>14
<1>16. Held(left) = (H \cup held) \ released
  <2>1. ASSUME NEW j \in Held(left) PROVE j \in (H \cup held) \ released
    <3>1. PICK e \in left : j \in Jobs /\ e.kind = "release" /\ e.job = j
      BY DEF Held
    <3>2. j \in H \cup held /\ Over(st, j) # t
      BY <3>1, <1>14
    <3> QED BY <3>2, <1>15
  <2>2. ASSUME NEW j \in (H \cup held) \ released PROVE j \in Held(left)
    <3>1. PICK e \in queue : e.kind = "release" /\ e.job = j
      BY <1>9, <1>10 DEF H, Held
    <3>2. e.t # t /\ j \in Jobs
      BY <3>1, <1>5, <1>14
    <3> QED BY <3>1, <3>2 DEF Held
  <2> QED BY <2>1, <2>2
<1>17. ends \in SUBSET E /\ held \in SUBSET E
  BY <1>6, <1>7
<1>18. NodesOf(E) = NodesOf(E \ ends) + NodesOf(ends) /\ NodesOf(E \ ends) \in Nat /\ NodesOf(ends) \in Nat
  <2>1. ends \in SUBSET Jobs /\ E \ ends \in SUBSET Jobs
    BY <1>2, <1>17
  <2> QED BY <2>1, <1>2, <1>17, NodesMinus, NodesType
<1>19. NodesOf(H) + NodesOf(held) = NodesOf((H \cup held) \ released) + NodesOf(released)
       /\ NodesOf((H \cup held) \ released) \in Nat /\ NodesOf(released) \in Nat
       /\ NodesOf(H) \in Nat /\ NodesOf(held) \in Nat
  <2> DEFINE K == H \cup held
  <2>1. held \in SUBSET Jobs /\ H \cap held = {} /\ K \in SUBSET Jobs /\ released \in SUBSET K
    BY <1>1, <1>2, <1>15, <1>17
  <2>2. NodesOf(K) = NodesOf(H) + NodesOf(held)
    BY <2>1, <1>2, NodesUnion
  <2> HIDE DEF K
  <2>3. NodesOf(K) = NodesOf(K \ released) + NodesOf(released)
    BY <2>1, NodesMinus
  <2>4. K \ released \in SUBSET Jobs /\ released \in SUBSET Jobs
    BY <2>1
  <2>5. NodesOf(K \ released) \in Nat /\ NodesOf(released) \in Nat
        /\ NodesOf(H) \in Nat /\ NodesOf(held) \in Nat
    BY <2>1, <2>4, <1>2, NodesType
  <2> QED BY <2>2, <2>3, <2>5 DEF K
<1> HIDE DEF InstantTaken
<1>20. used - NodesOf(ends) = NodesOf(Ending(left))
  BY <1>1, <1>13, <1>18
<1>21. rel + NodesOf(held) - NodesOf(released) = NodesOf(Held(left))
  <2>1. \A a, b, c, d \in Nat : a + b = c + d => a + b - d = c
    OBVIOUS
  <2> QED BY <2>1, <1>1, <1>16, <1>19
<1>22. (E \ ends) \cap ((H \cup held) \ released) = {}
  BY <1>1, <1>7
<1>23. Tally(t, st, left, used - NodesOf(ends), rel + NodesOf(held) - NodesOf(released))
  BY <1>1, <1>12, <1>13, <1>16, <1>20, <1>21, <1>22 DEF Tally
<1> QED BY <1>6, <1>7, <1>13, <1>15, <1>16, <1>17, <1>23 DEF E, H

(* And the books. *)
EventsTaken(t, evs, run, ends, held, queue, released, left, then) ==
  /\ InstantTaken(t, evs, ends, held, queue, released, left)
  /\ then = [j \in DOMAIN run \ ((ends \ held) \cup released) |-> run[j]]

LEMMA EventsFacts ==
  ASSUME job \in Workloads, NEW n \in Nat, NEW st, NEW evs, NEW run, NEW used, NEW rel,
         Books(n, st, evs, run, used, rel),
         NEW t \in Nat, n <= t, \A e \in evs : t <= e.t,
         NEW ends, NEW held, NEW queue, NEW released, NEW left, NEW then,
         EventsTaken(t, evs, run, ends, held, queue, released, left, then)
  PROVE  Books(t, st, left, then, used - NodesOf(ends), rel + NodesOf(held) - NodesOf(released))
<1> DEFINE E == Ending(evs)
           H == Held(evs)
           freed == (ends \ held) \cup released
<1>1. /\ st \in [Jobs -> 0 .. Infinity]
      /\ \A j \in Jobs : st[j] # Infinity => st[j] <= n
      /\ DOMAIN run = E \cup H /\ E \cap H = {}
      /\ \A j \in Jobs : st[j] # Infinity /\ j \notin DOMAIN run => Over(st, j) <= n
  BY DEF Books
<1>2. /\ Tally(t, st, left, used - NodesOf(ends), rel + NodesOf(held) - NodesOf(released))
      /\ Ending(left) = E \ ends /\ ends \in SUBSET E
      /\ Held(left) = (H \cup held) \ released
      /\ released \in SUBSET (H \cup held) /\ held \in SUBSET ends
      /\ \A j \in released : Over(st, j) = t
      /\ \A j \in ends : st[j] + job[j].run = t
  <2>1. Tally(n, st, evs, used, rel)
    BY DEF Books, Tally
  <2>2. InstantTaken(t, evs, ends, held, queue, released, left)
    BY DEF EventsTaken
  <2>3. /\ job \in Workloads /\ n \in Nat /\ t \in Nat /\ n <= t /\ \A e \in evs : t <= e.t
    OBVIOUS
  <2> QED BY ONLY <2>1, <2>2, <2>3, EventsTally
<1>3. \A j \in Jobs : /\ st[j] \in Nat /\ job[j].run \in Nat \ {0} /\ job[j].delay \in Nat
                      /\ ReleaseDelays = {} => job[j].delay = 0
  BY <1>1, JobFacts, Constants
<1>h. held = IF ReleaseDelays = {} THEN {} ELSE ends
  BY DEF EventsTaken, InstantTaken
<1> HIDE DEF E, H
<1>4. DOMAIN then = DOMAIN run \ freed
  BY DEF EventsTaken
<1>5. DOMAIN then = Ending(left) \cup Held(left)
  <2>1. ASSUME NEW j \in DOMAIN run \ freed PROVE j \in (E \ ends) \cup ((H \cup held) \ released)
    BY <1>1
  <2>2. ASSUME NEW j \in (E \ ends) \cup ((H \cup held) \ released) PROVE j \in DOMAIN run \ freed
    BY <1>1, <1>2
  <2> QED BY <2>1, <2>2, <1>2, <1>4
<1>6. ASSUME NEW j \in Jobs, st[j] # Infinity, j \notin DOMAIN then PROVE Over(st, j) <= t
  <2>1. Over(st, j) \in Int
    BY <1>3 DEF Over
  <2>2. CASE j \notin DOMAIN run
    <3>1. Over(st, j) <= n
      BY <2>2, <1>1, <1>6
    <3> QED BY <3>1, <2>1
  <2>3. CASE j \in released
    BY <2>1, <2>3, <1>2
  <2>4. CASE j \in ends \ held
    <3>1. job[j].delay = 0
      BY <2>4, <1>3, <1>h
    <3>2. st[j] + job[j].run = t
      BY <2>4, <1>2
    <3> QED BY <3>1, <3>2 DEF Over
  <2> QED BY <2>2, <2>3, <2>4, <1>4, <1>6
<1>7. \A j \in Jobs : st[j] # Infinity => st[j] <= t
  BY <1>1, <1>3
<1> QED BY <1>2, <1>5, <1>6, <1>7 DEF Books, Tally

-----------------------------------------------------------------------------
(* What a drain needs of the states before it. *)
HasStarted == {j \in Jobs : start[j] # Infinity}
SubmittedAt(u) == {j \in ToSet(waiting) : job[j].submit = u}

OrderInv == Sorted(waiting) /\ IsFcn(running) /\ IsFcn(arrivals)

(* Every appended job is in one place. *)
AccountInv ==
  /\ 1 .. appended = rejected \cup ToSet(waiting) \cup HasStarted
  /\ rejected \cap (ToSet(waiting) \cup HasStarted) = {}

(* No more arrivals are to be recorded than jobs wait for it. *)
ArrivedInv ==
  /\ ~fault
  /\ \A u \in DOMAIN arrivals : arrivals[u] \in Nat /\ arrivals[u] <= Cardinality(SubmittedAt(u))

HeadInv == looping => Blocked(ToSet(waiting), now, inUse + releasing, capacity)

(* The clock is at the time of something that happened, or at a tick that  *)
(* something will follow.                                                  *)
Happened ==
  {0} \cup Targets \cup {job[j].submit : j \in Jobs}
      \cup {start[j] + job[j].run : j \in HasStarted}
      \cup {start[j] + job[j].run + job[j].delay : j \in HasStarted}
      \cup {changes[i].time : i \in 1 .. Len(changes)}
Ahead ==
  \/ evtq # {}
  \/ \E j \in ToSet(waiting) : job[j].submit > now
  \/ NextCapacity < Infinity /\ \E j \in ToSet(waiting) : job[j].submit <= now
NowInv == now \in Happened \/ (looping /\ Ahead)

(* A drain comes after the last job. *)
LastInv == target \in {0, Drain} \cup Targets /\ (target = Drain => appended = NumJobs)

WorkInv == OrderInv /\ AccountInv /\ ArrivedInv /\ HeadInv /\ LastInv
DrainInv == NowInv /\ DrainCompletes

-----------------------------------------------------------------------------
(* A step starts jobs only on free nodes, and a job that started keeps the *)
(* time it started at.                                                     *)
FitStep ==
  start' # start =>
    NodesOf({j \in Jobs : /\ start'[j] <= now'
                          /\ now' < start'[j] + job[j].run + job[j].delay}) <= capacity'
OnceStep == \A j \in Jobs : start[j] # Infinity => start'[j] = start[j]

LEMMA BooksNext ==
  ASSUME UNCHANGED job, Books(now', start', evtq', running', inUse', releasing')
  PROVE  Books(now, start, evtq, running, inUse, releasing)'
  BY DEF Books, Owed, Over, Ending, Held, NodesOf

LEMMA BooksFit ==
  ASSUME job \in Workloads, NEW t \in 0 .. Horizon, NEW st, NEW evs, NEW run, NEW used, NEW rel,
         Books(t, st, evs, run, used, rel), NEW cap \in Nat, used + rel <= cap
  PROVE  NodesOf({j \in Jobs : /\ st[j] <= t
                               /\ t < st[j] + job[j].run + job[j].delay}) <= cap
<1> DEFINE X == {j \in Jobs : st[j] <= t /\ t < st[j] + job[j].run + job[j].delay}
           E == Ending(evs)
           H == Held(evs)
<1>1. /\ st \in [Jobs -> 0 .. Infinity]
      /\ DOMAIN run = E \cup H /\ E \cap H = {}
      /\ used = NodesOf(E) /\ rel = NodesOf(H)
      /\ \A j \in Jobs : st[j] # Infinity /\ j \notin DOMAIN run => Over(st, j) <= t
  BY DEF Books
<1>2. E \in SUBSET Jobs /\ H \in SUBSET Jobs
  BY DEF Ending, Held
<1> HIDE DEF E, H
<1>3. X \in SUBSET (E \cup H)
  <2> SUFFICES ASSUME NEW j \in X PROVE j \in E \cup H
    OBVIOUS
  <2>1. j \in Jobs /\ st[j] <= t /\ t < st[j] + job[j].run + job[j].delay
    OBVIOUS
  <2>2. st[j] \in Nat /\ job[j].run \in Nat /\ job[j].delay \in Nat
    BY <2>1, <1>1, JobFacts, Constants
  <2>3. st[j] # Infinity
    BY <2>1, <2>2, Constants
  <2> QED BY <2>1, <2>2, <2>3, <1>1 DEF Over
<1> HIDE DEF X
<1>4. NodesOf(E \cup H) = NodesOf(E) + NodesOf(H)
  BY <1>1, <1>2, NodesUnion
<1>5. NodesOf(X) <= NodesOf(E \cup H)
  BY <1>2, <1>3, NodesMinus
<1>6. NodesOf(X) \in Nat /\ NodesOf(E) \in Nat /\ NodesOf(H) \in Nat
  BY <1>2, <1>3, NodesType
<1>7. NodesOf(X) <= cap
  BY <1>1, <1>4, <1>5, <1>6
<1> QED BY <1>7 DEF X

LEMMA DispatchKeeps ==
  ASSUME LoopInv, UNCHANGED caller,
         NEW t \in 0 .. Horizon, now' = t, capacity' \in Nat, RecordArrivals(t),
         \A u \in DOMAIN arrivals : t <= u,
         NEW evs, NEW used, NEW run, Books(t, start, evs, run, used, releasing'),
         NEW s, s = State(t, capacity', nextChange', used + releasing', waiting, run),
         NEW then, then = s \/ \E tick : then = Scheduled(s, tick),
         Dispatch(s, then, evs, used)
  PROVE  /\ QueueInv' /\ ArrivalsInv'
         /\ Books(now, start, evtq, running, inUse, releasing)'
         /\ FitStep /\ OnceStep
<1>1. /\ job \in Workloads /\ waiting \in Seq(Jobs) /\ appended \in 0 .. NumJobs
      /\ \A j \in ToSet(waiting) : start[j] = Infinity /\ j <= appended
      /\ \A j \in Jobs : j > appended => start[j] = Infinity
  BY DEF LoopInv, QueueInv
<1>2. job' = job /\ appended' = appended
  BY DEF caller
<1>3. PICK S \in SUBSET ToSet(waiting) :
         /\ Books(t, start', evtq', running', inUse', releasing')
         /\ waiting' \in Seq(Jobs) /\ ToSet(waiting') = ToSet(waiting) \ S
         /\ \A j \in S : job[j].submit <= t
         /\ start' = [j \in Jobs |-> IF j \in S THEN t ELSE start[j]]
         /\ S # {} => inUse' + releasing' <= capacity'
  BY <1>1, DispatchFacts
<1>4. S \in SUBSET Jobs /\ ToSet(waiting) \in SUBSET Jobs
  BY <1>1, <1>3, InToSet
<1>5. \A j \in Jobs : j \notin S => start'[j] = start[j]
  BY <1>3
<1>6. \A j \in S : j <= appended
  BY <1>1, <1>3
<1>7. QueueInv'
  <2>1. \A j \in ToSet(waiting') : start'[j] = Infinity /\ j <= appended
    BY <1>1, <1>3, <1>4, <1>5
  <2>2. \A j \in Jobs : j > appended => start'[j] = Infinity
    <3> SUFFICES ASSUME NEW j \in Jobs, j > appended PROVE start'[j] = Infinity
      OBVIOUS
    <3>1. j \notin S
      BY <1>1, <1>6 DEF Jobs
    <3> QED BY <3>1, <1>1, <1>5
  <2>3. \A j \in ToSet(waiting)' : start'[j] = Infinity /\ j <= appended
    BY <2>1
  <2> QED BY <1>1, <1>2, <1>3, <2>2, <2>3 DEF QueueInv
<1>8. ArrivalsInv'
  <2> SUFFICES ASSUME NEW u \in DOMAIN arrivals'
               PROVE  /\ u \in Nat /\ u > now'
                      /\ \E j \in ToSet(waiting') : job'[j].submit = u
    BY Constants DEF ArrivalsInv
  <2>1. u \in DOMAIN arrivals \ {t}
    BY DEF RecordArrivals
  <2>2. u \in Nat /\ t <= u /\ u # t
    BY <2>1 DEF LoopInv, ArrivalsInv
  <2>3. PICK j \in ToSet(waiting) : job[j].submit = u
    BY <2>1 DEF LoopInv, ArrivalsInv
  <2>4. u > t
    BY <2>2
  <2>5. j \notin S
    BY <2>2, <2>3, <2>4, <1>3
  <2> QED BY <2>2, <2>3, <2>4, <2>5, <1>2, <1>3
<1>9. Books(now, start, evtq, running, inUse, releasing)'
  BY <1>2, <1>3, BooksNext
<1>10. FitStep
  <2>1. start \in [Jobs -> 0 .. Infinity]
    BY DEF LoopInv, Books
  <2>2. SUFFICES ASSUME start' # start
                 PROVE  NodesOf({j \in Jobs : /\ start'[j] <= t
                                              /\ t < start'[j] + job[j].run + job[j].delay}) <= capacity'
    BY DEF FitStep
  <2>3. S # {}
    <3>1. S = {} => start' = [j \in Jobs |-> start[j]]
      BY <1>3
    <3> QED BY <2>1, <2>2, <3>1
  <2> QED BY <2>3, <1>1, <1>3, BooksFit
<1>11. OnceStep
  BY <1>1, <1>3, <1>5 DEF OnceStep
<1> QED BY <1>7, <1>8, <1>9, <1>10, <1>11

(* What the passes of an instant change of it. *)
LEMMA DispatchDrains ==
  ASSUME LoopInv, OrderInv, AccountInv, ArrivedInv, UNCHANGED caller,
         NEW t \in 0 .. Horizon, now' = t, capacity' \in Nat, RecordArrivals(t),
         \A u \in DOMAIN arrivals : t <= u,
         NEW evs, NEW used, NEW run, Books(t, start, evs, run, used, releasing'), IsFcn(run),
         NEW s, s = State(t, capacity', nextChange', used + releasing', waiting, run),
         NEW then, then = s \/ \E tick : then = Scheduled(s, tick),
         Dispatch(s, then, evs, used)
  PROVE  /\ OrderInv' /\ AccountInv' /\ ArrivedInv'
         /\ (\E tick : then = Scheduled(s, tick)) =>
              Blocked(ToSet(waiting'), t, inUse' + releasing', capacity')
         /\ then = s => waiting' = waiting /\ inUse' = used /\ evtq' = evs
         /\ evs \in SUBSET evtq'
         /\ \A j \in ToSet(waiting) :
              j \in ToSet(waiting') \/ (job[j].submit <= t /\ evtq' # {})
<1>1. /\ job \in Workloads /\ waiting \in Seq(Jobs)
      /\ \A j \in ToSet(waiting) : start[j] = Infinity
      /\ start \in [Jobs -> 0 .. Infinity]
  BY DEF LoopInv, QueueInv, Books
<1>2. /\ s.t = t /\ s.cap = capacity' /\ s.occupied = used + releasing' /\ s.queue = waiting
      /\ s.run = run /\ s.settled = FALSE
  BY DEF State
<1>3. Fresh(s) /\ used \in Nat /\ releasing' \in Nat
  <2> DEFINE rel == releasing'
             cap == capacity'
             next == nextChange'
  <2>1. /\ Books(t, start, evs, run, used, rel) /\ cap \in Nat
        /\ s = State(t, cap, next, used + rel, waiting, run)
    OBVIOUS
  <2> HIDE DEF rel, cap, next
  <2>2. Fresh(s) /\ used \in Nat /\ rel \in Nat
    BY <1>1, <2>1, FreshState
  <2> QED BY <2>2 DEF rel
<1>4. Passed(s, then)
  BY <1>1, <1>3, PassedSelf, ScheduledFacts
<1> DEFINE S == DOMAIN then.run \ DOMAIN s.run
<1>5. /\ waiting' = then.queue /\ running' = then.run
      /\ evtq' = evs \cup {[t |-> t + job[j].run, kind |-> "end", job |-> j] : j \in S}
      /\ inUse' = used + NodesOf(S)
      /\ start' = [j \in Jobs |-> IF j \in S THEN t ELSE start[j]]
  BY <1>2 DEF Dispatch
<1>6. /\ then.t = t /\ then.cap = capacity'
      /\ then.queue \in Seq(Jobs) /\ ToSet(then.queue) = ToSet(waiting) \ S
      /\ S \in SUBSET DueIn(s)
      /\ then.occupied = used + releasing' + NodesOf(S)
  BY <1>2, <1>4 DEF Passed, Begun
<1>7. then = s => S = {}
  OBVIOUS
<1> HIDE DEF S
<1>8. S \in SUBSET ToSet(waiting) /\ \A j \in S : job[j].submit <= t
  BY <1>2, <1>6 DEF DueIn
<1>9. S \in SUBSET Jobs /\ ToSet(waiting) \in SUBSET Jobs
  BY <1>1, <1>8, InToSet
<1>10. NodesOf(S) \in Nat /\ job' = job /\ appended' = appended /\ rejected' = rejected
  BY <1>1, <1>9, NodesType DEF caller
<1>11. /\ Sorted(waiting') /\ IsFcn(running')
       /\ (\E tick : then = Scheduled(s, tick)) =>
            Blocked(ToSet(waiting'), t, then.occupied, capacity')
  <2>1. CASE then = s /\ ~\E tick : then = Scheduled(s, tick)
    BY <2>1, <1>2, <1>5 DEF OrderInv
  <2>2. ASSUME NEW tick, then = Scheduled(s, tick)
        PROVE  Sorted(waiting') /\ IsFcn(running') /\ Blocked(ToSet(waiting'), t, then.occupied, capacity')
    <3>1. Sorted(s.queue) /\ IsFcn(s.run)
      BY <1>2 DEF OrderInv
    <3>2. /\ Sorted(then.queue) /\ IsFcn(then.run)
          /\ Blocked(ToSet(then.queue), then.t, then.occupied, then.cap)
      BY <3>1, <2>2, <1>1, <1>2, <1>3, ScheduledSettles
    <3> QED BY <3>2, <1>5, <1>6
  <2> QED BY <2>1, <2>2
<1>12. then.occupied = inUse' + releasing'
  BY <1>3, <1>5, <1>6, <1>10
<1>13. OrderInv'
  <2>1. IsFcn(arrivals')
    <3> DEFINE D == DOMAIN arrivals \ {t}
    <3>1. arrivals' = [u \in D |-> arrivals[u]]
      BY DEF RecordArrivals
    <3> HIDE DEF D
    <3> QED BY <3>1 DEF IsFcn
  <2> QED BY <2>1, <1>11 DEF OrderInv, Sorted, IsFcn
<1>14. AccountInv'
  <2>1. HasStarted' = HasStarted \cup S
    <3>1. \A j \in Jobs : start'[j] # Infinity <=> start[j] # Infinity \/ j \in S
      <4>1. t # Infinity
        BY Constants
      <4> QED BY <4>1, <1>5
    <3> QED BY <3>1, <1>9 DEF HasStarted
  <2>2. ToSet(waiting)' = ToSet(waiting) \ S
    BY <1>5, <1>6
  <2>3. /\ 1 .. appended = rejected \cup ToSet(waiting) \cup HasStarted
        /\ rejected \cap (ToSet(waiting) \cup HasStarted) = {}
    BY DEF AccountInv
  <2>4. ToSet(waiting)' \cup HasStarted' = ToSet(waiting) \cup HasStarted
    BY <2>1, <2>2, <1>8
  <2>5. 1 .. appended' = 1 .. appended
    BY <1>10
  <2>6. rejected' \cup ToSet(waiting)' \cup HasStarted' = rejected \cup ToSet(waiting) \cup HasStarted
    BY <2>4, <1>10
  <2> QED BY <2>3, <2>4, <2>5, <2>6, <1>10 DEF AccountInv
<1>15. ArrivedInv'
  <2>1. /\ ~fault
        /\ \A u \in DOMAIN arrivals : arrivals[u] \in Nat /\ arrivals[u] <= Cardinality(SubmittedAt(u))
    BY DEF ArrivedInv
  <2>2. /\ arrivals' = [u \in DOMAIN arrivals \ {t} |-> arrivals[u]]
        /\ fault' = (fault \/ (t \in DOMAIN arrivals /\ ActiveCount(t) < arrivals[t]))
    BY DEF RecordArrivals
  <2>3. ~(t \in DOMAIN arrivals /\ ActiveCount(t) < arrivals[t])
    <3> SUFFICES ASSUME t \in DOMAIN arrivals PROVE ~(ActiveCount(t) < arrivals[t])
      OBVIOUS
    <3> DEFINE A == {j \in ToSet(waiting) : job[j].submit <= t}
               B == SubmittedAt(t)
    <3>1. \A j \in ToSet(waiting) : job[j].submit = t => job[j].submit <= t
      OBVIOUS
    <3>2. B \in SUBSET A /\ A \in SUBSET Jobs /\ B \in SUBSET Jobs
      BY <3>1, <1>9 DEF SubmittedAt
    <3>3. ActiveCount(t) = Cardinality(A)
      BY DEF ActiveCount
    <3> HIDE DEF A, B
    <3>4. IsFiniteSet(A) /\ IsFiniteSet(B)
      BY <3>2, JobsFinite
    <3>5. Cardinality(B) <= Cardinality(A) /\ Cardinality(A) \in Nat /\ Cardinality(B) \in Nat
      BY <3>2, <3>4, FS_Subset, FS_CardinalityType
    <3>6. arrivals[t] \in Nat /\ arrivals[t] <= Cardinality(B)
      BY <2>1 DEF B
    <3> QED BY <3>3, <3>5, <3>6
  <2>4. ~fault'
    BY <2>1, <2>2, <2>3, Zenon
  <2>5. ASSUME NEW u \in DOMAIN arrivals' 
        PROVE  arrivals'[u] \in Nat /\ arrivals'[u] <= Cardinality(SubmittedAt(u)')
    <3>1. u \in DOMAIN arrivals /\ u # t /\ arrivals'[u] = arrivals[u]
      BY <2>2
    <3>2. u \in Nat /\ u > t
      <4>1. u \in Nat /\ t <= u
        BY <3>1 DEF LoopInv, ArrivalsInv
      <4> QED BY <4>1, <3>1
    <3>3. \A j \in S : job[j].submit # u
      BY <3>2, <1>1, <1>8, <1>9, JobFacts
    <3>4. SubmittedAt(u)' = SubmittedAt(u)
      <4>1. ToSet(waiting)' = ToSet(waiting) \ S
        BY <1>5, <1>6
      <4> QED BY <4>1, <3>3, <1>10 DEF SubmittedAt
    <3> QED BY <3>1, <3>4, <2>1
  <2>6. \A u \in DOMAIN arrivals' : arrivals'[u] \in Nat /\ arrivals'[u] <= Cardinality(SubmittedAt(u)')
    BY <2>5
  <2> QED BY <2>4, <2>6 DEF ArrivedInv
<1>16. ASSUME then = s PROVE waiting' = waiting /\ inUse' = used /\ evtq' = evs
  <2>1. S = {} /\ NodesOf(S) = 0
    BY <1>7, <1>16, NodesEmpty
  <2>2. evtq' = evs
    BY <2>1, <1>5
  <2>3. waiting' = waiting
    BY <1>2, <1>5, <1>16
  <2>4. inUse' = used
    BY <2>1, <1>3, <1>5
  <2> QED BY <2>2, <2>3, <2>4
<1>17. evs \in SUBSET evtq' /\ (S # {} => evtq' # {})
  BY <1>5
<1>18. \A j \in ToSet(waiting) :
         j \in ToSet(waiting') \/ (job[j].submit <= t /\ evtq' # {})
  BY <1>5, <1>6, <1>8, <1>17
<1> QED BY <1>11, <1>12, <1>13, <1>14, <1>15, <1>16, <1>17, <1>18

(* One iteration of the loop, at t: evs, used and run are the events, the  *)
(* nodes in use and the running map that the passes find.  When no pass    *)
(* runs, nothing the head could start on has changed; the time is that of  *)
(* something that happened, but for a tick, which something follows.       *)
Undisturbed(t, used) ==
  /\ used + releasing' = inUse + releasing /\ capacity' = capacity
  /\ \A j \in ToSet(waiting) : job[j].submit <= t => job[j].submit <= now
Iteration(t, evs, used, run, should, isTick) ==
  /\ t \in 0 .. Horizon /\ now <= t /\ t <= target
  /\ Books(t, start, evs, run, used, releasing') /\ (IsFcn(running) => IsFcn(run))
  /\ \A u \in DOMAIN arrivals : t <= u
  /\ nextChange' \in 1 .. Len(changes) + 1 /\ capacity' \in Nat /\ NextCapacity' > t
  /\ \A u \in t .. Horizon :
       CapacityOn(capacity', nextChange', u) = CapacityOn(capacity, nextChange, u)
  /\ t <= NextCapacity /\ \A e \in evtq : t <= e.t
  /\ DOMAIN run \in SUBSET DOMAIN running /\ \A j \in DOMAIN run : run[j] = running[j]
  /\ Iterate(t, evs, used, run, should, isTick) /\ isTick \in BOOLEAN
  /\ ~(IF isTick THEN dirty ELSE should) => Undisturbed(t, used)
  /\ ~isTick => t \in Happened
  /\ isTick => /\ Ahead /\ evs = evtq /\ NextCapacity' = NextCapacity
               /\ \A j \in ToSet(waiting) : job[j].submit > now => job[j].submit > t

LEMMA IterateKeeps ==
  ASSUME LoopInv, looping, NEW t \in 0 .. Horizon, now <= t, t <= target,
         NEW evs, NEW used, NEW run, NEW should, NEW isTick,
         Books(t, start, evs, run, used, releasing'),
         \A u \in DOMAIN arrivals : t <= u,
         nextChange' \in 1 .. Len(changes) + 1, capacity' \in Nat, NextCapacity' > t,
         Iterate(t, evs, used, run, should, isTick)
  PROVE  LoopInv' /\ FitStep /\ OnceStep
<1>1. /\ now' = t /\ RecordArrivals(t)
      /\ UNCHANGED caller /\ target' = target /\ looping' = looping
      /\ Settle(t, evs, used, run, should, isTick)
  BY DEF Iterate
<1> DEFINE s == State(t, capacity', nextChange', used + releasing', waiting, run)
<1>2. PICK then : /\ then = s \/ \E tick : then = Scheduled(s, tick)
                  /\ Dispatch(s, then, evs, used)
  BY <1>1 DEF Settle
<1>3. \E tick \in Nat : nextTick' = CatchUp(tick, t)
  <2>1. nextTick \in Nat /\ nextTick + BackfillInterval \in Nat
    BY Constants DEF LoopInv, TickInv
  <2> QED BY <1>1, <2>1 DEF Settle
<1> HIDE DEF s
<1>4. /\ QueueInv' /\ ArrivalsInv'
      /\ Books(now, start, evtq, running, inUse, releasing)'
      /\ FitStep /\ OnceStep
  BY <1>1, <1>2, DispatchKeeps DEF s
<1>5. job' = job /\ changes' = changes
  BY <1>1 DEF caller
<1>6. ClockInv'
  BY <1>1 DEF LoopInv, ClockInv
<1>7. CapacityInv'
  BY <1>1, <1>5 DEF LoopInv, CapacityInv
<1>8. TickInv'
  <2>1. t \in Nat
    BY Constants
  <2>2. nextTick' \in Nat /\ (BackfillInterval > 0 => nextTick' > t)
    BY <1>3, <2>1, CatchUpFacts
  <2> QED BY <1>1, <2>1, <2>2 DEF TickInv
<1> QED BY <1>4, <1>5, <1>6, <1>7, <1>8 DEF LoopInv

(* Time passes over the books while no event is due. *)
LEMMA BooksLater ==
  ASSUME job \in Workloads, NEW n \in Nat, NEW t \in Nat, n <= t, NEW st, NEW evs, NEW run, NEW used, NEW rel,
         Books(n, st, evs, run, used, rel), \A e \in evs : e.t > t
  PROVE  Books(t, st, evs, run, used, rel)
<1>1. /\ st \in [Jobs -> 0 .. Infinity]
      /\ \A j \in Jobs : st[j] # Infinity => st[j] <= n
      /\ \A e \in evs : Owed(st, e)
      /\ \A j \in Jobs : st[j] # Infinity /\ j \notin DOMAIN run => Over(st, j) <= n
  BY DEF Books
<1>2. \A j \in Jobs : st[j] \in Nat /\ Over(st, j) \in Nat
  BY <1>1, JobFacts, Constants DEF Over
<1>3. \A j \in Jobs : st[j] # Infinity => st[j] <= t
  BY <1>1, <1>2
<1>4. \A j \in Jobs : st[j] # Infinity /\ j \notin DOMAIN run => Over(st, j) <= t
  BY <1>1, <1>2
<1> QED BY <1>1, <1>3, <1>4 DEF Books

LEMMA InitInv == Init => LoopInv
<1> SUFFICES ASSUME Init PROVE LoopInv
  OBVIOUS
<1> USE DEF Init
<1>1. ClockInv
  BY Constants DEF ClockInv
<1>2. QueueInv
  <2>1. waiting \in Seq(Jobs) /\ ToSet(waiting) = {}
    BY EmptyFacts
  <2>2. start \in [Jobs -> {Infinity}]
    OBVIOUS
  <2> QED BY <2>1, <2>2, Constants DEF QueueInv
<1>3. DOMAIN << >> = {}
  OBVIOUS
<1>4. ArrivalsInv
  BY <1>3 DEF ArrivalsInv
<1>5. CapacityInv
  <2>1. Len(changes) \in Nat
    BY ScheduleShape
  <2>2. TotalNodes \in Nat
    BY WorkloadAssumption DEF Nodes
  <2> QED BY <2>1, <2>2 DEF CapacityInv
<1>6. TickInv
  BY Constants DEF TickInv
<1>7. Books(now, start, evtq, running, inUse, releasing)
  <2>1. Ending(evtq) = {} /\ Held(evtq) = {}
    BY DEF Ending, Held
  <2>2. DOMAIN running = {}
    BY <1>3
  <2>3. start \in [Jobs -> 0 .. Infinity] /\ \A j \in Jobs : start[j] = Infinity
    BY Constants
  <2> QED BY <2>1, <2>2, <2>3, NodesEmpty DEF Books
<1> QED BY <1>1, <1>2, <1>4, <1>5, <1>6, <1>7 DEF LoopInv

LEMMA AppendKeeps ==
  ASSUME LoopInv, append_job
  PROVE  LoopInv' /\ FitStep /\ OnceStep
<1> DEFINE j == appended + 1
           u == job[j].submit
<1>1. /\ ~looping /\ appended < NumJobs /\ u >= now
      /\ appended' = j /\ submit_job(j)
      /\ UNCHANGED <<job, changes, clock, resources, nextTick, evaluated, fault>>
  BY DEF append_job
<1>2. /\ job \in Workloads /\ waiting \in Seq(Jobs) /\ appended \in 0 .. NumJobs
      /\ \A i \in ToSet(waiting) : start[i] = Infinity /\ i <= appended
      /\ \A i \in Jobs : i > appended => start[i] = Infinity
  BY DEF LoopInv, QueueInv
<1>3. /\ UNCHANGED <<job, changes, now, target, looping, capacity, nextChange, running,
                     evtq, inUse, releasing, start, nextTick>>
  BY <1>1 DEF clock, resources
<1>4. j \in Jobs /\ appended < j /\ j \in 0 .. NumJobs
  BY <1>1, <1>2, Constants DEF Jobs
<1>5. u \in 0 .. Horizon
  BY <1>2, <1>4, JobFacts
<1>6. \/ waiting' = waiting /\ arrivals' = arrivals
      \/ waiting' = Append(waiting, j) /\ DOMAIN arrivals' = DOMAIN arrivals \cup {u}
  <2>1. CASE job[j].nodes > TotalNodes
    BY <1>1, <2>1 DEF submit_job
  <2>2. CASE ~(job[j].nodes > TotalNodes)
    <3>1. /\ waiting' = Append(waiting, j)
          /\ arrivals' = [v \in DOMAIN arrivals \cup {job[j].submit} |->
                            (IF v \in DOMAIN arrivals THEN arrivals[v] ELSE 0)
                              + (IF v = job[j].submit THEN 1 ELSE 0)]
      BY <1>1, <2>2 DEF submit_job
    <3> QED BY <3>1
  <2> QED BY <2>1, <2>2
<1> HIDE DEF j, u
<1>7. waiting' \in Seq(Jobs) /\ (ToSet(waiting') = ToSet(waiting) \/ ToSet(waiting') = ToSet(waiting) \cup {j})
  <2>1. Append(waiting, j) \in Seq(Jobs) /\ ToSet(Append(waiting, j)) = ToSet(waiting) \cup {j}
    BY <1>2, <1>4, AppendFacts
  <2>2. CASE waiting' = waiting
    BY <2>2, <1>2
  <2>3. CASE waiting' = Append(waiting, j)
    BY <2>1, <2>3
  <2> QED BY <2>2, <2>3, <1>6
<1>8. QueueInv'
  <2>0. \A i \in Jobs : i \in Int
    BY DEF Jobs
  <2>1. ToSet(waiting) \in SUBSET Jobs
    BY <1>2, InToSet
  <2>2. \A i \in ToSet(waiting') : start[i] = Infinity /\ i <= j
    <3> SUFFICES ASSUME NEW i \in ToSet(waiting') PROVE start[i] = Infinity /\ i <= j
      OBVIOUS
    <3>1. i \in ToSet(waiting) \/ i = j
      BY <1>7
    <3>2. CASE i \in ToSet(waiting)
      <4>1. i \in Int /\ i <= appended /\ start[i] = Infinity
        BY <3>2, <2>0, <2>1, <1>2
      <4> QED BY <4>1, <1>2, <1>4
    <3>3. CASE i = j
      <4>1. j \in Int /\ j > appended /\ j \in Jobs
        BY <2>0, <1>2, <1>4
      <4> QED BY <4>1, <3>3, <1>2
    <3> QED BY <3>1, <3>2, <3>3
  <2>3. \A i \in Jobs : i > j => start[i] = Infinity
    BY <2>0, <1>2, <1>4
  <2>4. \A i \in ToSet(waiting)' : start[i] = Infinity /\ i <= j
    BY <2>2
  <2>5. appended' = j /\ start' = start
    BY <1>1, <1>3 DEF j
  <2> QED BY <2>3, <2>4, <2>5, <1>4, <1>7 DEF QueueInv
<1>9. ArrivalsInv'
  <2>1. ~looping /\ looping' = looping /\ now' = now /\ job' = job /\ u >= now
    BY <1>1, <1>3
  <2> SUFFICES ASSUME NEW v \in DOMAIN arrivals'
               PROVE  v \in Nat /\ v >= now /\ \E i \in ToSet(waiting') : job[i].submit = v
    BY <2>1 DEF ArrivalsInv
  <2>2. CASE v \in DOMAIN arrivals
    <3>1. v \in Nat /\ v >= now /\ \E i \in ToSet(waiting) : job[i].submit = v
      BY <2>2 DEF LoopInv, ArrivalsInv
    <3> QED BY <3>1, <1>7
  <2>3. CASE v = u /\ waiting' = Append(waiting, j)
    <3>1. j \in ToSet(waiting')
      BY <2>3, <1>2, <1>4, AppendFacts
    <3>2. job[j].submit = u
      BY DEF u
    <3> QED BY <3>1, <3>2, <2>1, <2>3, <1>5, Constants
  <2> QED BY <2>2, <2>3, <1>6
<1>10. Books(now, start, evtq, running, inUse, releasing)'
  <2>1. Books(now', start', evtq', running', inUse', releasing')
    BY <1>3 DEF LoopInv
  <2> QED BY <2>1, <1>3, BooksNext
<1>11. ClockInv' /\ TickInv'
  BY <1>3 DEF LoopInv, ClockInv, TickInv
<1>12. CapacityInv'
  BY <1>1, <1>3 DEF LoopInv, CapacityInv
<1>13. FitStep /\ OnceStep
  BY <1>3 DEF FitStep, OnceStep
<1> QED BY <1>2, <1>3, <1>8, <1>9, <1>10, <1>11, <1>12, <1>13 DEF LoopInv

LEMMA AdvanceKeeps ==
  ASSUME LoopInv, NEW to \in Targets \cup {Drain}, advance_to(to)
  PROVE  LoopInv' /\ FitStep /\ OnceStep
<1>1. /\ ~looping /\ now <= to /\ looping' = TRUE /\ target' = to
      /\ RecordArrivals(now) /\ ApplyCapacity(now)
      /\ nextTick' = AlignTick(nextTick, now)
      /\ UNCHANGED <<caller, now, releasing, dirty, evaluated>>
  BY DEF advance_to
<1> DEFINE s == State(now, capacity', nextChange', inUse + releasing, waiting, running)
           then == Scheduled(s, FALSE)
<1>2. Dispatch(s, then, evtq, inUse)
  BY DEF advance_to
<1>3. /\ now \in 0 .. Horizon /\ job \in Workloads /\ changes \in Schedules
      /\ nextChange \in 1 .. Len(changes) + 1 /\ capacity \in Nat /\ nextTick \in Nat
      /\ Books(now, start, evtq, running, inUse, releasing)
      /\ \A u \in DOMAIN arrivals : now <= u
  <2>1. \A u \in DOMAIN arrivals : u \in Nat /\ u >= now
    BY DEF LoopInv, ArrivalsInv
  <2>2. now \in 0 .. Horizon
    BY DEF LoopInv, ClockInv
  <2>3. \A u \in DOMAIN arrivals : now <= u
    BY <2>1, <2>2
  <2> QED BY <2>2, <2>3 DEF LoopInv, CapacityInv, TickInv
<1>4. job' = job /\ changes' = changes /\ now' = now /\ releasing' = releasing
  BY <1>1 DEF caller
<1>5. nextChange' \in 1 .. Len(changes) + 1 /\ capacity' \in Nat /\ NextCapacity' > now
  BY <1>1, <1>3, <1>4, CapacityStep
<1>6. s = State(now, capacity', nextChange', inUse + releasing', waiting, running)
  BY <1>4
<1>7. then = s \/ \E tick : then = Scheduled(s, tick)
  OBVIOUS
<1> HIDE DEF s, then
<1>8. /\ QueueInv' /\ ArrivalsInv'
      /\ Books(now, start, evtq, running, inUse, releasing)'
      /\ FitStep /\ OnceStep
  <2>1. Books(now, start, evtq, running, inUse, releasing')
    BY <1>3, <1>4
  <2> QED BY <1>1, <1>2, <1>3, <1>4, <1>5, <1>6, <1>7, <2>1, DispatchKeeps
<1>9. ClockInv'
  <2>1. to \in 0 .. Infinity
    BY Constants
  <2> QED BY <2>1, <1>1, <1>3, <1>4 DEF ClockInv
<1>10. CapacityInv'
  BY <1>3, <1>4, <1>5 DEF CapacityInv
<1>11. TickInv'
  <2>1. now \in Nat
    BY <1>3, Constants
  <2>2. nextTick' \in Nat /\ (BackfillInterval > 0 => nextTick' >= now)
    BY <2>1, <1>1, <1>3, AlignFacts
  <2> QED BY <2>2, <1>4 DEF TickInv
<1> QED BY <1>3, <1>4, <1>8, <1>9, <1>10, <1>11 DEF LoopInv

LEMMA NextArrivalIs ==
  ASSUME LoopInv, NextArrival # Infinity
  PROVE  \E j \in ToSet(waiting) : job[j].submit = NextArrival /\ job[j].submit > now
<1> DEFINE W == {k \in ToSet(waiting) : job[k].submit > now}
           T == {job[j].submit : j \in W}
<1>1. job \in Workloads /\ ToSet(waiting) \in SUBSET Jobs
  <2>1. waiting \in Seq(Jobs) /\ job \in Workloads
    BY DEF LoopInv, QueueInv
  <2> QED BY <2>1, InToSet
<1>2. T \subseteq Nat
  <2>1. \A j \in ToSet(waiting) : job[j].submit \in Nat
    BY <1>1, JobFacts, Constants
  <2> QED BY <2>1
<1>3. NextArrival = Least(T)
  BY DEF NextArrival
<1>4. \A x \in T : \E j \in W : job[j].submit = x
  OBVIOUS
<1> HIDE DEF T
<1>5. NextArrival \in T
  BY <1>2, <1>3, LeastIs
<1> QED BY <1>4, <1>5

LEMMA ActiveIs ==
  ASSUME LoopInv, NEW t
  PROVE  ActiveCount(t) > 0 <=> \E j \in ToSet(waiting) : job[j].submit <= t
<1> DEFINE A == {j \in ToSet(waiting) : job[j].submit <= t}
<1>1. ActiveCount(t) = Cardinality(A)
  BY DEF ActiveCount
<1>2. A \in SUBSET Jobs
  <2>1. waiting \in Seq(Jobs)
    BY DEF LoopInv, QueueInv
  <2> QED BY <2>1, InToSet
<1>3. A # {} <=> \E j \in ToSet(waiting) : job[j].submit <= t
  OBVIOUS
<1> HIDE DEF A
<1>4. IsFiniteSet(A)
  BY <1>2, JobsFinite
<1>5. Cardinality(A) \in Nat /\ (Cardinality(A) = 0 <=> A = {})
  BY <1>4, FS_CardinalityType, FS_EmptySet
<1> QED BY <1>1, <1>3, <1>5

LEMMA EventsIterate ==
  ASSUME LoopInv, looping, ProcessEvents
  PROVE  \E t, evs, used, run, should, isTick : Iteration(t, evs, used, run, should, isTick)
<1> DEFINE t        == NextEvent
           ends     == {e.job : e \in {f \in evtq : f.t = t /\ f.kind = "end"}}
           held     == IF ReleaseDelays = {} THEN {} ELSE ends
           queue    == evtq \cup {[t |-> t + job[j].delay, kind |-> "release", job |-> j] : j \in held}
           released == {e.job : e \in {f \in queue : f.t = t /\ f.kind = "release"}}
           freed    == (ends \ held) \cup released
           run      == [j \in DOMAIN running \ freed |-> running[j]]
           should   == freed # {} \/ nextChange' # nextChange \/ NextArrival = t
<1>1. /\ EventNext /\ ApplyCapacity(t)
      /\ releasing' = releasing + NodesOf(held) - NodesOf(released)
      /\ Iterate(t, {e \in queue : e.t # t}, inUse - NodesOf(ends), run, should, FALSE)
  BY DEF ProcessEvents
<1> HIDE DEF t
<1>2. /\ t \in 0 .. Horizon /\ t <= target /\ now <= t /\ now \in Nat /\ t <= NextArrival
      /\ t <= NextCapacity
      /\ \A e \in evtq : t <= e.t
      /\ \A u \in DOMAIN arrivals : t <= u
  <2>1. /\ t \in 0 .. Horizon /\ t <= target /\ t <= NextArrival /\ t <= NextCapacity
    BY <1>1, BranchFacts, GuardFacts DEF t
  <2>2. now \in Nat /\ (t = Infinity \/ t > now) /\ \A e \in evtq : t <= e.t
    BY InstantFacts DEF t
  <2>3. \A u \in DOMAIN arrivals : u \in Nat /\ NextArrival <= u /\ NextArrival \in Nat
    <3>1. \A u \in DOMAIN arrivals : u \in Nat /\ u > now
      BY DEF LoopInv, ArrivalsInv
    <3> QED BY <3>1, InstantFacts
  <2> QED BY <2>1, <2>2, <2>3, Constants
<1> DEFINE evs == {e \in queue : e.t # t}
           used == inUse - NodesOf(ends)
<1>p. EventsTaken(t, evtq, running, ends, held, queue, released, evs, run)
  BY DEF EventsTaken, InstantTaken
<1>f. IsFcn(run)
  <2> DEFINE D == DOMAIN running \ freed
  <2>1. run = [j \in D |-> running[j]]
    OBVIOUS
  <2> HIDE DEF D, run
  <2> QED BY <2>1 DEF IsFcn
<1>r. DOMAIN run \in SUBSET DOMAIN running /\ \A j \in DOMAIN run : run[j] = running[j]
  OBVIOUS
<1>e. ends \in SUBSET Jobs
  <2>1. \A e \in evtq : e.job \in Jobs
    BY DEF LoopInv, Books, Owed
  <2> QED BY <2>1
<1>h. held = {} \/ held = ends
  OBVIOUS
<1> HIDE DEF ends, held, queue, released, evs, run
<1>3. Books(t, start, evs, run, used, releasing')
  <2>1. job \in Workloads /\ Books(now, start, evtq, running, inUse, releasing) /\ t \in Nat
    BY <1>2, Constants DEF LoopInv
  <2>2. now <= t /\ now \in Nat /\ \A e \in evtq : t <= e.t
    BY <1>2
  <2>3. Books(t, start, evs, run, inUse - NodesOf(ends),
              releasing + NodesOf(held) - NodesOf(released))
    BY ONLY <1>p, <2>1, <2>2, EventsFacts
  <2> QED BY <2>3, <1>1
<1>4. /\ nextChange' \in 1 .. Len(changes) + 1 /\ capacity' \in Nat /\ NextCapacity' > t
      /\ \A u \in t .. Horizon :
           CapacityOn(capacity', nextChange', u) = CapacityOn(capacity, nextChange, u)
  <2>1. changes' = changes
    BY <1>1 DEF Iterate, caller
  <2> QED BY <2>1, <1>1, <1>2, CapacityStep DEF LoopInv, CapacityInv
<1>5. Iterate(t, evs, used, run, should, FALSE)
  BY <1>1 DEF evs
<1>6. ASSUME ~should PROVE Undisturbed(t, used)
  <2>1. ends \ held = {} /\ released = {} /\ nextChange' = nextChange /\ NextArrival # t
    BY <1>6
  <2>2. NodesOf(held) = NodesOf(ends) /\ NodesOf(released) = 0
    <3>1. held = ends
      BY <2>1, <1>h
    <3> QED BY <3>1, <2>1, NodesEmpty
  <2>3. inUse \in Nat /\ releasing \in Nat /\ NodesOf(ends) \in Nat
    <3>1. /\ job \in Workloads /\ inUse = NodesOf(Ending(evtq)) /\ releasing = NodesOf(Held(evtq))
      BY DEF LoopInv, Books
    <3>2. Ending(evtq) \in SUBSET Jobs /\ Held(evtq) \in SUBSET Jobs
      BY DEF Ending, Held
    <3> QED BY <3>1, <3>2, <1>e, NodesType
  <2>4. used + releasing' = inUse + releasing
    BY <2>2, <2>3, <1>1 DEF used
  <2>5. capacity' = capacity
    BY <2>1, <1>1 DEF ApplyCapacity
  <2>6. ASSUME NEW j \in ToSet(waiting), job[j].submit <= t PROVE job[j].submit <= now
    <3>1. job[j].submit \in Nat /\ NextArrival \in Nat
      <4>1. waiting \in Seq(Jobs) /\ job \in Workloads
        BY DEF LoopInv, QueueInv
      <4>2. j \in Jobs
        BY <4>1, InToSet
      <4> QED BY <4>1, <4>2, JobFacts, InstantFacts, Constants
    <3>2. job[j].submit > now => NextArrival <= job[j].submit
      BY InstantFacts
    <3> QED BY <3>1, <3>2, <2>1, <2>6, <1>2
  <2> QED BY <2>4, <2>5, <2>6 DEF Undisturbed
<1>7. t \in Happened
  <2>1. evtq # {}
    BY <1>1, InstantFacts, Constants DEF EventNext
  <2>2. PICK e \in evtq : e.t = t
    BY <2>1, InstantFacts DEF t
  <2>3. Owed(start, e)
    BY DEF LoopInv, Books
  <2> QED BY <2>2, <2>3 DEF Owed, Over, Happened, HasStarted
<1> HIDE DEF used, should
<1>8. Iteration(t, evs, used, run, should, FALSE)
  BY <1>2, <1>3, <1>4, <1>5, <1>6, <1>7, <1>f, <1>r DEF Iteration
<1> QED BY <1>8

(* The branches that only move the clock and pass over no event. *)
LEMMA QuietIterates ==
  ASSUME LoopInv, looping, NEW t \in 0 .. Horizon, now <= t, t <= target,
         t < NextEvent, t <= NextArrival, t <= NextCapacity,
         nextChange' \in 1 .. Len(changes) + 1, capacity' \in Nat, NextCapacity' > t,
         \A u \in t .. Horizon :
           CapacityOn(capacity', nextChange', u) = CapacityOn(capacity, nextChange, u),
         UNCHANGED releasing, NEW should, NEW isTick \in BOOLEAN,
         Iterate(t, evtq, inUse, running, should, isTick),
         ~(IF isTick THEN dirty ELSE should) => Undisturbed(t, inUse),
         ~isTick => t \in Happened,
         isTick => /\ Ahead /\ NextCapacity' = NextCapacity
                   /\ \A j \in ToSet(waiting) : job[j].submit > now => job[j].submit > t
  PROVE  Iteration(t, evtq, inUse, running, should, isTick)
<1>1. t \in Nat /\ now \in Nat /\ NextEvent \in Nat /\ NextArrival \in Nat
  BY InstantFacts, Constants
<1>2. \A e \in evtq : e.t > t
  <2>1. \A e \in evtq : e.t \in Nat /\ NextEvent <= e.t
    BY InstantFacts
  <2> QED BY <1>1, <2>1
<1>3. \A u \in DOMAIN arrivals : t <= u
  <2>1. \A u \in DOMAIN arrivals : u \in Nat /\ u > now
    BY DEF LoopInv, ArrivalsInv
  <2>2. \A u \in DOMAIN arrivals : NextArrival <= u
    BY <2>1, InstantFacts
  <2> QED BY <1>1, <2>1, <2>2
<1>4. job \in Workloads /\ Books(now, start, evtq, running, inUse, releasing)
  BY DEF LoopInv
<1>5. Books(t, start, evtq, running, inUse, releasing)
  BY <1>1, <1>2, <1>4, BooksLater
<1>6. Books(t, start, evtq, running, inUse, releasing')
  BY <1>5
<1>7. \A e \in evtq : t <= e.t
  <2>1. \A e \in evtq : e.t \in Nat /\ NextEvent <= e.t
    BY InstantFacts
  <2> QED BY <1>1, <2>1
<1> QED BY <1>3, <1>6, <1>7 DEF Iteration

LEMMA ArrivalsIterate ==
  ASSUME LoopInv, looping, ProcessArrivals
  PROVE  \E t, evs, used, run, should, isTick : Iteration(t, evs, used, run, should, isTick)
<1> DEFINE t == NextArrival
<1>1. /\ ~EventNext /\ ArrivalNext /\ ApplyCapacity(t) /\ UNCHANGED releasing
      /\ Iterate(t, evtq, inUse, running, TRUE, FALSE)
  BY DEF ProcessArrivals
<1>2. /\ t \in 0 .. Horizon /\ t <= target /\ t < NextEvent /\ now <= t /\ t <= NextArrival
      /\ t <= NextCapacity
  BY <1>1, BranchFacts, GuardFacts, InstantFacts, Constants
<1>3. t \in Happened
  <2>1. t # Infinity
    BY <1>2, Constants
  <2>2. PICK j \in ToSet(waiting) : job[j].submit = t
    BY <2>1, NextArrivalIs
  <2>3. j \in Jobs
    <3>1. waiting \in Seq(Jobs)
      BY DEF LoopInv, QueueInv
    <3> QED BY <3>1, InToSet
  <2> HIDE DEF t
  <2> QED BY <2>2, <2>3 DEF Happened
<1> HIDE DEF t
<1>4. /\ nextChange' \in 1 .. Len(changes) + 1 /\ capacity' \in Nat /\ NextCapacity' > t
      /\ \A u \in t .. Horizon :
           CapacityOn(capacity', nextChange', u) = CapacityOn(capacity, nextChange, u)
  <2>1. changes' = changes
    BY <1>1 DEF Iterate, caller
  <2> QED BY <2>1, <1>1, <1>2, CapacityStep DEF LoopInv, CapacityInv
<1>5. Iteration(t, evtq, inUse, running, TRUE, FALSE)
  BY <1>1, <1>2, <1>3, <1>4, QuietIterates
<1> QED BY <1>5

LEMMA CapacityIterates ==
  ASSUME LoopInv, looping, ProcessCapacity
  PROVE  \E t, evs, used, run, should, isTick : Iteration(t, evs, used, run, should, isTick)
<1> DEFINE t == NextCapacity
<1>1. /\ ~EventNext /\ ~ArrivalNext /\ CapacityNext /\ ApplyCapacity(t) /\ UNCHANGED releasing
      /\ Iterate(t, evtq, inUse, running, TRUE, FALSE)
  BY DEF ProcessCapacity
<1>2. /\ t \in 0 .. Horizon /\ t <= target /\ t < NextEvent /\ now <= t /\ t <= NextArrival
      /\ t <= NextCapacity
  <2>1. t > now
    BY DEF LoopInv, CapacityInv
  <2> QED BY <1>1, <2>1, BranchFacts, InstantFacts, Constants
<1>3. t \in Happened
  <2>1. nextChange \in 1 .. Len(changes) /\ t = changes[nextChange].time
    <3>1. changes \in Schedules /\ nextChange \in 1 .. Len(changes) + 1
      BY DEF LoopInv, CapacityInv
    <3>2. Len(changes) \in Nat
      BY <3>1, ScheduleShape
    <3>3. t # Infinity
      BY <1>2, Constants
    <3> QED BY <3>1, <3>2, <3>3 DEF NextCapacity
  <2> HIDE DEF t
  <2> QED BY <2>1 DEF Happened
<1> HIDE DEF t
<1>4. /\ nextChange' \in 1 .. Len(changes) + 1 /\ capacity' \in Nat /\ NextCapacity' > t
      /\ \A u \in t .. Horizon :
           CapacityOn(capacity', nextChange', u) = CapacityOn(capacity, nextChange, u)
  <2>1. changes' = changes
    BY <1>1 DEF Iterate, caller
  <2> QED BY <2>1, <1>1, <1>2, CapacityStep DEF LoopInv, CapacityInv
<1>5. Iteration(t, evtq, inUse, running, TRUE, FALSE)
  BY <1>1, <1>2, <1>3, <1>4, QuietIterates
<1> QED BY <1>5

LEMMA TickIterates ==
  ASSUME LoopInv, looping, ProcessTick
  PROVE  \E t, evs, used, run, should, isTick : Iteration(t, evs, used, run, should, isTick)
<1> DEFINE t == EffectiveTick
<1>1. /\ ~EventNext /\ ~ArrivalNext /\ ~CapacityNext /\ TickNext
      /\ UNCHANGED <<capacity, nextChange, releasing>>
      /\ Iterate(t, evtq, inUse, running, FALSE, TRUE)
  BY DEF ProcessTick
<1>2. t < Infinity /\ t <= target
  BY <1>1 DEF TickNext
<1>3. t >= now
  BY <1>2, Constants DEF EffectiveTick, LoopInv, TickInv
<1>4. /\ t \in 0 .. Horizon /\ t < NextEvent /\ now <= t /\ t < NextArrival /\ t < NextCapacity
  BY <1>1, <1>2, <1>3, BranchFacts, InstantFacts, Constants
<1>5. t <= NextArrival /\ t <= NextCapacity
  BY <1>4, InstantFacts, Constants
<1>6. NextCapacity' = NextCapacity
  <2>1. changes' = changes /\ nextChange' = nextChange
    BY <1>1 DEF Iterate, caller
  <2> QED BY <2>1, Zenon DEF NextCapacity
<1>7. /\ nextChange' \in 1 .. Len(changes) + 1 /\ capacity' \in Nat /\ NextCapacity' > t
      /\ \A u \in t .. Horizon :
           CapacityOn(capacity', nextChange', u) = CapacityOn(capacity, nextChange, u)
  <2>1. NextCapacity > t
    BY <1>4, InstantFacts
  <2> QED BY <1>1, <1>6, <2>1 DEF LoopInv, CapacityInv
<1>8. \A j \in ToSet(waiting) : /\ job[j].submit > now => job[j].submit > t
                                /\ job[j].submit <= t => job[j].submit <= now
  <2> SUFFICES ASSUME NEW j \in ToSet(waiting)
               PROVE  /\ job[j].submit > now => job[j].submit > t
                      /\ job[j].submit <= t => job[j].submit <= now
    OBVIOUS
  <2>1. job[j].submit \in Nat /\ NextArrival \in Nat /\ now \in Nat
    <3>1. waiting \in Seq(Jobs) /\ job \in Workloads
      BY DEF LoopInv, QueueInv
    <3>2. j \in Jobs
      BY <3>1, InToSet
    <3> QED BY <3>1, <3>2, JobFacts, InstantFacts, Constants
  <2>2. job[j].submit > now => NextArrival <= job[j].submit
    BY InstantFacts
  <2> HIDE DEF t
  <2> QED BY <2>1, <2>2, <1>4
<1>9. Ahead
  <2>1. ActiveCount(now) > 0
    BY <1>2, Constants DEF EffectiveTick
  <2>2. \E j \in ToSet(waiting) : job[j].submit <= now
    BY <2>1, ActiveIs
  <2>3. CASE NextArrival < Infinity
    <3>1. NextArrival # Infinity
      BY <2>3, Constants
    <3> QED BY <3>1, NextArrivalIs DEF Ahead
  <2> QED BY <2>2, <2>3, <1>1 DEF TickNext, Ahead
<1>10. Undisturbed(t, inUse)
  BY <1>1, <1>8 DEF Undisturbed
<1> HIDE DEF t
<1>11. Iteration(t, evtq, inUse, running, FALSE, TRUE)
  BY <1>1, <1>2, <1>4, <1>5, <1>6, <1>7, <1>8, <1>9, <1>10, QuietIterates
<1> QED BY <1>11

LEMMA ReturnKeeps ==
  ASSUME LoopInv, looping, Return
  PROVE  /\ LoopInv' /\ FitStep /\ OnceStep
         /\ target < Drain =>
              /\ now' = target
              /\ \A e \in evtq' : e.t > target
              /\ NextCapacity' > target
              /\ \A u \in DOMAIN arrivals' : u > target
<1>1. /\ ~(LoopRuns /\ (EventNext \/ ArrivalNext \/ CapacityNext \/ TickNext))
      /\ looping' = FALSE
      /\ now' = IF target = Drain THEN now ELSE target
      /\ UNCHANGED <<caller, target, capacity, nextChange, waiting, resources,
                     arrivals, nextTick, dirty, evaluated, fault>>
  BY DEF Return
<1>2. UNCHANGED <<job, changes, appended, target, capacity, nextChange, waiting, running, evtq,
                  inUse, releasing, start, arrivals, nextTick>>
  BY <1>1 DEF caller, resources
<1>3. target < Drain =>
        /\ \A e \in evtq : e.t > target
        /\ NextCapacity > target
        /\ \A u \in DOMAIN arrivals : u > target
  BY <1>1, NothingLeft
<1>4. NextCapacity' = NextCapacity
  BY <1>2, Zenon DEF NextCapacity
<1>5. /\ now \in 0 .. Horizon /\ target \in 0 .. Infinity /\ now <= target
  BY DEF LoopInv, ClockInv
<1>6. target = Drain \/ (target \in 0 .. Horizon /\ target < Drain)
  BY <1>5, Constants
<1>7. now' \in 0 .. Horizon /\ now <= now'
  BY <1>1, <1>5, <1>6, Constants
<1>8. target < Drain => target # Drain
  BY <1>5, Constants
<1>9. ClockInv'
  BY <1>1, <1>2, <1>5, <1>7 DEF ClockInv
<1>10. QueueInv'
  BY <1>2 DEF LoopInv, QueueInv
<1>11. ArrivalsInv'
  <2>1. \A u \in DOMAIN arrivals : /\ u \in Nat /\ u >= now
                                   /\ \E j \in ToSet(waiting) : job[j].submit = u
    BY DEF LoopInv, ArrivalsInv
  <2>2. \A u \in DOMAIN arrivals : u >= now'
    <3>1. CASE target = Drain
      BY <3>1, <2>1, <1>1
    <3>2. CASE target \in 0 .. Horizon /\ target < Drain
      <4>1. now' = target /\ target \in Nat
        BY <3>2, <1>1, <1>8, Constants
      <4> QED BY <4>1, <3>2, <2>1, <1>3
    <3> QED BY <3>1, <3>2, <1>6
  <2> QED BY <2>1, <2>2, <1>1, <1>2 DEF ArrivalsInv
<1>12. CapacityInv'
  BY <1>1, <1>2 DEF LoopInv, CapacityInv
<1>13. TickInv'
  BY <1>1, <1>2 DEF LoopInv, TickInv
<1>14. Books(now, start, evtq, running, inUse, releasing)'
  <2>0. Books(now, start, evtq, running, inUse, releasing) /\ job \in Workloads
    BY DEF LoopInv
  <2>1. Books(now', start, evtq, running, inUse, releasing)
    <3>1. CASE target = Drain
      BY <3>1, <2>0, <1>1
    <3>2. CASE target \in 0 .. Horizon /\ target < Drain
      <4>1. now' = target /\ target \in Nat /\ now \in Nat
        BY <3>2, <1>1, <1>5, <1>8, Constants
      <4>2. Books(target, start, evtq, running, inUse, releasing)
        BY <4>1, <3>2, <2>0, <1>3, <1>5, BooksLater
      <4> QED BY <4>1, <4>2
    <3> QED BY <3>1, <3>2, <1>6
  <2>2. Books(now', start', evtq', running', inUse', releasing')
    BY <2>1, <1>2
  <2> QED BY <2>2, <1>2, BooksNext
<1>15. FitStep /\ OnceStep
  BY <1>2 DEF FitStep, OnceStep
<1>16. LoopInv'
  BY <1>2, <1>9, <1>10, <1>11, <1>12, <1>13, <1>14 DEF LoopInv
<1> QED BY <1>1, <1>2, <1>3, <1>4, <1>8, <1>15, <1>16

-----------------------------------------------------------------------------
LEMMA LoopStep ==
  ASSUME LoopInv, [Next]_vars
  PROVE  /\ LoopInv' /\ FitStep /\ OnceStep
         /\ looping /\ ~looping' /\ target < Drain =>
              /\ now' = target
              /\ \A e \in evtq' : e.t > target
              /\ NextCapacity' > target
              /\ \A u \in DOMAIN arrivals' : u > target
<1> DEFINE Consumed == /\ now' = target
                       /\ \A e \in evtq' : e.t > target
                       /\ NextCapacity' > target
                       /\ \A u \in DOMAIN arrivals' : u > target
<1>1. CASE append_job
  BY <1>1, AppendKeeps DEF append_job
<1>2. CASE \E to \in Targets \cup {Drain} : advance_to(to)
  BY <1>2, AdvanceKeeps DEF advance_to
<1>3. CASE looping /\ (ProcessEvents \/ ProcessArrivals \/ ProcessCapacity \/ ProcessTick)
  <2>1. looping' = looping
    BY <1>3 DEF ProcessEvents, ProcessArrivals, ProcessCapacity, ProcessTick, Iterate
  <2>2. PICK t, evs, used, run, should, isTick : Iteration(t, evs, used, run, should, isTick)
    BY <1>3, EventsIterate, ArrivalsIterate, CapacityIterates, TickIterates
  <2>3. LoopInv' /\ FitStep /\ OnceStep
    BY <1>3, <2>2, IterateKeeps DEF Iteration
  <2> QED BY <1>3, <2>1, <2>3
<1>4. CASE looping /\ Return
  BY <1>4, ReturnKeeps
<1>5. CASE UNCHANGED vars
  <2>1. /\ UNCHANGED <<job, changes, appended, now, target, looping, capacity, nextChange, waiting>>
        /\ UNCHANGED <<running, evtq, inUse, releasing, start, arrivals, nextTick>>
    BY <1>5 DEF vars, caller
  <2>2. NextCapacity' = NextCapacity
    BY <2>1, Zenon DEF NextCapacity
  <2>3. ClockInv' /\ QueueInv' /\ ArrivalsInv' /\ CapacityInv' /\ TickInv' /\ job' \in Workloads
    BY <2>1, <2>2 DEF LoopInv, ClockInv, QueueInv, ArrivalsInv, CapacityInv, TickInv
  <2>4. Books(now', start', evtq', running', inUse', releasing')
    BY <2>1 DEF LoopInv
  <2>5. Books(now, start, evtq, running, inUse, releasing)'
    BY <2>1, <2>4, BooksNext
  <2>6. FitStep /\ OnceStep
    BY <2>1 DEF FitStep, OnceStep
  <2> QED BY <2>1, <2>3, <2>5, <2>6 DEF LoopInv
<1> QED BY <1>1, <1>2, <1>3, <1>4, <1>5 DEF Next, Step

(* StartsFit for every workload, capacity schedule, tick interval, grid    *)
(* and set of delays: whatever the reservations say, a pass starts jobs    *)
(* only on nodes that no running or releasing job holds and that the       *)
(* capacity of the moment has.                                             *)
THEOREM StartsAlwaysFit == Spec => StartsFit
<1>1. LoopInv /\ [Next]_vars => LoopInv' /\ [FitStep]_vars
  BY LoopStep
<1> QED BY <1>1, InitInv, PTL DEF Spec, StartsFit, FitStep

(* AdvanceConsumesAll for every instance: advance_to() leaves no event,    *)
(* arrival or capacity change up to its target behind.                     *)
THEOREM AdvanceAlwaysConsumes == Spec => AdvanceConsumesAll
<1> DEFINE A == looping /\ ~looping' /\ target < Drain =>
                  /\ now' = target
                  /\ \A e \in evtq' : e.t > target
                  /\ NextCapacity' > target
                  /\ \A u \in DOMAIN arrivals' : u > target
<1>1. LoopInv /\ [Next]_vars => LoopInv' /\ [A]_vars
  BY LoopStep
<1> QED BY <1>1, InitInv, PTL DEF Spec, AdvanceConsumesAll

(* A job starts once: no later event, tick, capacity change or call of     *)
(* advance_to() moves the begin time that the output was written from.     *)
THEOREM JobsStartOnce == Spec => [][\A j \in Jobs : start[j] # Infinity => start'[j] = start[j]]_vars
<1>1. LoopInv /\ [Next]_vars => LoopInv' /\ [OnceStep]_vars
  BY LoopStep
<1> QED BY <1>1, InitInv, PTL DEF Spec, OnceStep

(* The counters of nodes in use and in release are the nodes of the jobs   *)
(* whose END and whose RELEASE is pending, and neither counter drops below *)
(* zero (both are unsigned).                                               *)
THEOREM CountersExact ==
  Spec => [](/\ inUse = NodesOf(Ending(evtq)) /\ releasing = NodesOf(Held(evtq))
             /\ inUse \in Nat /\ releasing \in Nat)
<1>1. LoopInv => /\ inUse = NodesOf(Ending(evtq)) /\ releasing = NodesOf(Held(evtq))
                 /\ inUse \in Nat /\ releasing \in Nat
  <2> SUFFICES ASSUME LoopInv
               PROVE  /\ inUse = NodesOf(Ending(evtq)) /\ releasing = NodesOf(Held(evtq))
                      /\ inUse \in Nat /\ releasing \in Nat
    OBVIOUS
  <2>1. job \in Workloads /\ inUse = NodesOf(Ending(evtq)) /\ releasing = NodesOf(Held(evtq))
    BY DEF LoopInv, Books
  <2>2. Ending(evtq) \in SUBSET Jobs /\ Held(evtq) \in SUBSET Jobs
    BY DEF Ending, Held
  <2> QED BY <2>1, <2>2, NodesType
<1>2. LoopInv /\ [Next]_vars => LoopInv'
  BY LoopStep
<1> QED BY <1>1, <1>2, InitInv, PTL DEF Spec

-----------------------------------------------------------------------------
(* A drain. *)
LEMMA HappenedGrows ==
  ASSUME OnceStep, UNCHANGED <<job, changes>>
  PROVE  Happened \in SUBSET Happened'
<1>1. \A j \in HasStarted : j \in HasStarted' /\ start'[j] = start[j]
  BY DEF OnceStep, HasStarted
<1>2. {start[j] + job[j].run : j \in HasStarted} \in SUBSET {start'[j] + job[j].run : j \in HasStarted'}
  BY <1>1
<1>3. {start[j] + job[j].run + job[j].delay : j \in HasStarted}
        \in SUBSET {start'[j] + job[j].run + job[j].delay : j \in HasStarted'}
  BY <1>1
<1> QED BY <1>2, <1>3 DEF Happened

LEMMA InitDrains == Init => WorkInv /\ DrainInv
<1> SUFFICES ASSUME Init PROVE WorkInv /\ DrainInv
  OBVIOUS
<1> USE DEF Init
<1>1. IsFcn(<< >>) /\ DOMAIN << >> = {}
  BY DEF IsFcn
<1>2. OrderInv
  BY <1>1 DEF OrderInv, Sorted
<1>3. AccountInv
  <2>1. HasStarted = {}
    BY DEF HasStarted
  <2>2. ToSet(waiting) = {} /\ 1 .. 0 = {}
    BY EmptyFacts
  <2> QED BY <2>1, <2>2 DEF AccountInv
<1>4. ArrivedInv
  BY <1>1 DEF ArrivedInv
<1>5. NowInv
  BY DEF NowInv, Happened
<1>6. target # Drain
  BY Constants
<1> QED BY <1>2, <1>3, <1>4, <1>5, <1>6 DEF WorkInv, DrainInv, HeadInv, LastInv, DrainCompletes

LEMMA IterateDrains ==
  ASSUME LoopInv, WorkInv, looping, OnceStep,
         NEW t, NEW evs, NEW used, NEW run, NEW should, NEW isTick,
         Iteration(t, evs, used, run, should, isTick)
  PROVE  WorkInv' /\ DrainInv'
<1> DEFINE passes == IF isTick THEN dirty ELSE should
           s == State(t, capacity', nextChange', used + releasing', waiting, run)
<1>1. /\ t \in 0 .. Horizon /\ now <= t /\ Books(t, start, evs, run, used, releasing')
      /\ (IsFcn(running) => IsFcn(run)) /\ capacity' \in Nat
      /\ \A u \in DOMAIN arrivals : t <= u
      /\ isTick \in BOOLEAN
      /\ ~passes => Undisturbed(t, used)
      /\ ~isTick => t \in Happened
      /\ isTick => /\ Ahead /\ evs = evtq /\ NextCapacity' = NextCapacity
                   /\ \A j \in ToSet(waiting) : job[j].submit > now => job[j].submit > t
  BY DEF Iteration
<1>2. /\ now' = t /\ RecordArrivals(t)
      /\ UNCHANGED caller /\ target' = target /\ looping' = looping
      /\ Settle(t, evs, used, run, should, isTick)
  BY DEF Iteration, Iterate
<1>3. PICK then : /\ passes => \E tick : then = Scheduled(s, tick)
                  /\ ~passes => then = s
                  /\ Dispatch(s, then, evs, used)
  BY <1>2 DEF Settle
<1>4. OrderInv /\ AccountInv /\ ArrivedInv /\ HeadInv /\ LastInv /\ IsFcn(run)
  BY <1>1 DEF WorkInv, OrderInv
<1>5. then = s \/ \E tick : then = Scheduled(s, tick)
  BY <1>3
<1> HIDE DEF s, passes
<1>6. /\ OrderInv' /\ AccountInv' /\ ArrivedInv'
      /\ (\E tick : then = Scheduled(s, tick)) =>
           Blocked(ToSet(waiting'), t, inUse' + releasing', capacity')
      /\ then = s => waiting' = waiting /\ inUse' = used /\ evtq' = evs
      /\ evs \in SUBSET evtq'
      /\ \A j \in ToSet(waiting) :
           j \in ToSet(waiting') \/ (job[j].submit <= t /\ evtq' # {})
  BY <1>1, <1>2, <1>3, <1>4, <1>5, DispatchDrains DEF s
<1>7. job' = job /\ changes' = changes /\ appended' = appended
  BY <1>2 DEF caller
<1>8. HeadInv'
  <2>1. CASE passes
    <3>1. Blocked(ToSet(waiting'), t, inUse' + releasing', capacity')
      BY <2>1, <1>3, <1>6
    <3> QED BY <3>1, <1>2, <1>7 DEF HeadInv, Blocked
  <2>2. CASE ~passes
    <3>1. Undisturbed(t, used) /\ waiting' = waiting /\ inUse' = used
      BY <2>2, <1>1, <1>3, <1>6
    <3>2. Blocked(ToSet(waiting), now, inUse + releasing, capacity)
      BY <1>4 DEF HeadInv
    <3>3. inUse' + releasing' = inUse + releasing /\ capacity' = capacity
      BY <3>1 DEF Undisturbed
    <3>4. Blocked(ToSet(waiting), t, inUse + releasing, capacity)
      BY <3>1, <3>2 DEF Undisturbed, Blocked
    <3> QED BY <3>1, <3>3, <3>4, <1>2, <1>7 DEF HeadInv, Blocked
  <2> QED BY <2>1, <2>2
<1>9. NowInv'
  <2>1. CASE ~isTick
    <3>1. t \in Happened'
      BY <2>1, <1>1, <1>7, HappenedGrows
    <3> QED BY <3>1, <1>2 DEF NowInv
  <2>2. CASE isTick
    <3>1. Ahead /\ evs = evtq /\ NextCapacity' = NextCapacity
          /\ \A j \in ToSet(waiting) : job[j].submit > now => job[j].submit > t
      BY <2>2, <1>1
    <3>2. \A j \in ToSet(waiting) : job[j].submit \in Nat
      <4>1. waiting \in Seq(Jobs) /\ job \in Workloads
        BY DEF LoopInv, QueueInv
      <4>2. ToSet(waiting) \in SUBSET Jobs
        BY <4>1, InToSet
      <4> QED BY <4>1, <4>2, JobFacts, Constants
    <3>3. t \in Nat /\ now \in Nat /\ now <= t
      BY <1>1, InstantFacts, Constants
    <3>4. CASE evtq # {}
      BY <3>4, <3>1, <1>2, <1>6 DEF NowInv, Ahead
    <3>5. ASSUME NEW j \in ToSet(waiting), job[j].submit > now PROVE NowInv'
      <4>1. job[j].submit > t /\ ~(job[j].submit <= t)
        BY <3>1, <3>2, <3>3, <3>5
      <4>2. j \in ToSet(waiting')
        BY <4>1, <1>6
      <4> QED BY <4>1, <4>2, <1>2, <1>7 DEF NowInv, Ahead
    <3>6. ASSUME NextCapacity < Infinity, NEW j \in ToSet(waiting), job[j].submit <= now PROVE NowInv'
      <4>1. job[j].submit <= t
        BY <3>2, <3>3, <3>6
      <4>2. NextCapacity' < Infinity'
        BY <3>1, <3>6 DEF Infinity
      <4> QED BY <4>1, <4>2, <1>2, <1>6, <1>7 DEF NowInv, Ahead
    <3> QED BY <3>1, <3>4, <3>5, <3>6 DEF Ahead
  <2> QED BY <2>1, <2>2
<1>10. LastInv' /\ DrainCompletes'
  BY <1>2, <1>4, <1>7 DEF LastInv, DrainCompletes
<1> QED BY <1>6, <1>8, <1>9, <1>10 DEF WorkInv, DrainInv

LEMMA AdvanceDrains ==
  ASSUME LoopInv, WorkInv, OnceStep, NEW to \in Targets \cup {Drain}, advance_to(to)
  PROVE  WorkInv' /\ (NowInv => DrainInv')
<1>1. /\ ~looping /\ now <= to /\ looping' = TRUE /\ target' = to
      /\ \A j \in Jobs : j > appended => to <= job[j].submit
      /\ RecordArrivals(now) /\ ApplyCapacity(now)
      /\ UNCHANGED <<caller, now, releasing, dirty, evaluated>>
  BY DEF advance_to
<1> DEFINE s == State(now, capacity', nextChange', inUse + releasing, waiting, running)
           then == Scheduled(s, FALSE)
<1>2. Dispatch(s, then, evtq, inUse)
  BY DEF advance_to
<1>3. /\ now \in 0 .. Horizon /\ job \in Workloads /\ changes \in Schedules
      /\ nextChange \in 1 .. Len(changes) + 1 /\ capacity \in Nat /\ appended \in 0 .. NumJobs
      /\ Books(now, start, evtq, running, inUse, releasing)
      /\ \A u \in DOMAIN arrivals : now <= u
  <2>1. \A u \in DOMAIN arrivals : u \in Nat /\ u >= now
    BY DEF LoopInv, ArrivalsInv
  <2>2. now \in 0 .. Horizon
    BY DEF LoopInv, ClockInv
  <2>3. \A u \in DOMAIN arrivals : now <= u
    BY <2>1, <2>2
  <2> QED BY <2>2, <2>3 DEF LoopInv, CapacityInv, QueueInv
<1>4. /\ job' = job /\ changes' = changes /\ now' = now /\ releasing' = releasing
      /\ appended' = appended
  BY <1>1 DEF caller
<1>5. capacity' \in Nat
  BY <1>1, <1>3, <1>4, CapacityStep
<1>6. s = State(now, capacity', nextChange', inUse + releasing', waiting, running)
  BY <1>4
<1>7. \E tick : then = Scheduled(s, tick)
  OBVIOUS
<1>8. OrderInv /\ AccountInv /\ ArrivedInv /\ IsFcn(running)
  BY DEF WorkInv, OrderInv
<1> HIDE DEF s, then
<1>9. /\ OrderInv' /\ AccountInv' /\ ArrivedInv'
      /\ Blocked(ToSet(waiting'), now, inUse' + releasing', capacity')
  <2>1. Books(now, start, evtq, running, inUse, releasing')
    BY <1>3, <1>4
  <2>2. then = s \/ \E tick : then = Scheduled(s, tick)
    BY <1>7
  <2>3. UNCHANGED caller
    BY <1>1
  <2> QED BY <1>1, <1>2, <1>3, <1>4, <1>5, <1>6, <1>7, <1>8, <2>1, <2>2, <2>3, DispatchDrains
<1>10. HeadInv'
  BY <1>4, <1>9 DEF HeadInv, Blocked
<1>11. ASSUME NowInv PROVE NowInv'
  <2>1. now \in Happened
    BY <1>1, <1>11 DEF NowInv
  <2>2. now \in Happened'
    BY <2>1, <1>4, HappenedGrows
  <2> QED BY <2>2, <1>4 DEF NowInv
<1>12. LastInv'
  <2> SUFFICES ASSUME to = Drain PROVE appended = NumJobs
    BY <1>1, <1>4 DEF LastInv, Drain, Infinity
  <2>1. CASE appended < NumJobs
    <3> DEFINE j == appended + 1
    <3>1. j \in Jobs /\ j > appended
      BY <2>1, <1>3, Constants DEF Jobs
    <3> HIDE DEF j
    <3>2. to <= job[j].submit /\ job[j].submit \in 0 .. Horizon
      BY <3>1, <1>1, <1>3, JobFacts
    <3> QED BY <3>2, Constants
  <2> QED BY <2>1, <1>3, Constants
<1>13. DrainCompletes'
  BY <1>1 DEF DrainCompletes
<1> QED BY <1>9, <1>10, <1>11, <1>12, <1>13 DEF WorkInv, DrainInv

LEMMA AppendDrains ==
  ASSUME LoopInv, WorkInv, append_job
  PROVE  WorkInv' /\ (NowInv => DrainInv')
<1> DEFINE j == appended + 1
           u == job[j].submit
           W == ToSet(waiting)
<1>1. /\ ~looping /\ appended < NumJobs /\ appended' = j /\ submit_job(j)
      /\ UNCHANGED <<job, changes, clock, resources, nextTick, evaluated, fault>>
  BY DEF append_job
<1>2. /\ job \in Workloads /\ waiting \in Seq(Jobs) /\ appended \in 0 .. NumJobs
      /\ \A i \in Jobs : i > appended => start[i] = Infinity
      /\ \A i \in W : i <= appended
  BY DEF LoopInv, QueueInv
<1>3. UNCHANGED <<job, changes, now, target, looping, running, start, fault>>
  BY <1>1 DEF clock, resources
<1>4. /\ j \in Jobs /\ appended < j /\ appended \in Nat /\ W \in SUBSET Jobs
      /\ 1 .. j = 1 .. appended \cup {j} /\ j \notin 1 .. appended
  <2>1. W \in SUBSET Jobs
    BY <1>2, InToSet
  <2> QED BY <2>1, <1>1, <1>2, Constants DEF Jobs
<1>5. OrderInv /\ AccountInv /\ ArrivedInv /\ LastInv
  BY DEF WorkInv
<1>6. /\ 1 .. appended = rejected \cup W \cup HasStarted
      /\ rejected \cap (W \cup HasStarted) = {}
  BY <1>5 DEF AccountInv
<1>7. HasStarted' = HasStarted /\ j \notin HasStarted
  BY <1>2, <1>3, <1>4 DEF HasStarted
<1>8. /\ ~fault
      /\ \A v \in DOMAIN arrivals : arrivals[v] \in Nat /\ arrivals[v] <= Cardinality(SubmittedAt(v))
  BY <1>5 DEF ArrivedInv
<1>9. OrderInv' /\ AccountInv' /\ ArrivedInv'
  <2>1. CASE job[j].nodes > TotalNodes
    <3>1. rejected' = rejected \cup {j} /\ waiting' = waiting /\ arrivals' = arrivals
      BY <1>1, <2>1 DEF submit_job
    <3>2. OrderInv'
      BY <3>1, <1>3, <1>5 DEF OrderInv, Sorted, IsFcn
    <3>3. AccountInv'
      <4>1. ToSet(waiting)' = W
        BY <3>1
      <4>2. 1 .. appended' = 1 .. appended \cup {j}
        BY <1>1, <1>4
      <4> HIDE DEF W, j
      <4>3. rejected' \cup W \cup HasStarted = 1 .. appended \cup {j}
        BY <3>1, <1>6
      <4>4. j \notin W /\ j \notin HasStarted
        BY <1>4, <1>6, <1>7
      <4>5. rejected' \cap (W \cup HasStarted) = {}
        BY <3>1, <4>4, <1>6
      <4> QED BY <4>1, <4>2, <4>3, <4>5, <1>7 DEF AccountInv
    <3>4. ArrivedInv'
      <4>1. \A v : SubmittedAt(v)' = SubmittedAt(v)
        BY <3>1, <1>3 DEF SubmittedAt
      <4> QED BY <4>1, <3>1, <1>3, <1>8 DEF ArrivedInv
    <3> QED BY <3>2, <3>3, <3>4
  <2>2. CASE ~(job[j].nodes > TotalNodes)
    <3> DEFINE old(v) == IF v \in DOMAIN arrivals THEN arrivals[v] ELSE 0
    <3>1. /\ rejected' = rejected /\ waiting' = Append(waiting, j)
          /\ arrivals' = [v \in DOMAIN arrivals \cup {u} |-> old(v) + (IF v = u THEN 1 ELSE 0)]
      BY <1>1, <2>2 DEF submit_job
    <3> HIDE DEF j, u
    <3>2. ToSet(waiting)' = W \cup {j}
      BY <3>1, <1>2, <1>4, AppendFacts
    <3>3. OrderInv'
      <4>1. \A i \in W : i < j
        <5>1. \A i \in Jobs : i \in Int
          BY DEF Jobs
        <5> HIDE DEF W
        <5> QED BY <5>1, <1>2, <1>4
      <4>2. Sorted(waiting) /\ IsFcn(running)
        BY <1>5 DEF OrderInv
      <4>3. Sorted(Append(waiting, j))
        BY <4>1, <4>2, <1>2, <1>4, SortedAppend
      <4>4. IsFcn(arrivals')
        <5> DEFINE D == DOMAIN arrivals \cup {u}
                   F(v) == old(v) + (IF v = u THEN 1 ELSE 0)
        <5>1. arrivals' = [v \in D |-> F(v)]
          BY <3>1
        <5> HIDE DEF D, F
        <5> QED BY <5>1 DEF IsFcn
      <4> QED BY <4>2, <4>3, <4>4, <3>1, <1>3 DEF OrderInv, Sorted, IsFcn
    <3>4. AccountInv'
      <4>1. 1 .. appended' = 1 .. appended \cup {j}
        BY <1>1, <1>4 DEF j
      <4> HIDE DEF W
      <4>2. rejected' \cup (W \cup {j}) \cup HasStarted = 1 .. appended \cup {j}
        BY <3>1, <1>6
      <4>3. j \notin rejected
        BY <1>4, <1>6
      <4>4. rejected' \cap ((W \cup {j}) \cup HasStarted) = {}
        BY <3>1, <4>3, <1>6
      <4> QED BY <4>1, <4>2, <4>4, <3>2, <1>7 DEF AccountInv
    <3>5. ASSUME NEW v \in DOMAIN arrivals'
          PROVE  arrivals'[v] \in Nat /\ arrivals'[v] <= Cardinality(SubmittedAt(v)')
      <4> DEFINE A == SubmittedAt(v)
      <4>1. A \in SUBSET Jobs /\ j \notin A
        BY <1>4, <1>6 DEF SubmittedAt
      <4>2. A \cup {j} \in SUBSET Jobs
        BY <4>1, <1>4
      <4>3. SubmittedAt(v)' = IF v = u THEN A \cup {j} ELSE A
        <5>1. job' = job /\ job[j].submit = u
          BY <1>3 DEF u
        <5> QED BY <5>1, <3>2 DEF SubmittedAt
      <4>4. IsFiniteSet(A)
        BY <4>1, JobsFinite
      <4>5. arrivals'[v] = old(v) + (IF v = u THEN 1 ELSE 0) /\ (v \in DOMAIN arrivals \/ v = u)
        BY <3>1
      <4> HIDE DEF A
      <4>6. Cardinality(A) \in Nat /\ Cardinality(A \cup {j}) = Cardinality(A) + 1
        BY <4>1, <4>4, FS_AddElement, FS_CardinalityType
      <4>7. old(v) \in Nat /\ old(v) <= Cardinality(A)
        BY <4>6, <1>8 DEF A
      <4> HIDE DEF old
      <4> QED BY <4>3, <4>5, <4>6, <4>7
    <3>6. ArrivedInv'
      <4>1. ~fault'
        BY <1>3, <1>8
      <4>2. \A v \in DOMAIN arrivals' : arrivals'[v] \in Nat /\ arrivals'[v] <= Cardinality(SubmittedAt(v)')
        BY <3>5
      <4> QED BY <4>1, <4>2 DEF ArrivedInv
    <3> QED BY <3>3, <3>4, <3>6
  <2> QED BY <2>1, <2>2
<1>10. HeadInv'
  BY <1>1, <1>3 DEF HeadInv
<1>11. ASSUME NowInv PROVE NowInv'
  <2>1. now \in Happened
    BY <1>1, <1>11 DEF NowInv
  <2>2. Happened' = Happened
    BY <1>3, <1>7 DEF Happened
  <2> QED BY <2>1, <2>2, <1>3 DEF NowInv
<1>12. target # Drain /\ target' # Drain
  <2>1. appended # NumJobs
    BY <1>1, <1>2, Constants
  <2> QED BY <2>1, <1>3, <1>5 DEF LastInv
<1>13. LastInv' /\ DrainCompletes'
  BY <1>3, <1>5, <1>12 DEF LastInv, DrainCompletes, Drain, Infinity
<1> QED BY <1>9, <1>10, <1>11, <1>13 DEF WorkInv, DrainInv

(* The end of a pending run has a time before the sentinel. *)
Representable == \A e \in evtq : e.t <= Horizon

(* As many jobs wait as the queue is long. *)
LEMMA SortedLength ==
  ASSUME NEW q \in Seq(Jobs), Sorted(q)
  PROVE  Cardinality(ToSet(q)) = Len(q)
<1> DEFINE n == Len(q)
           T == ToSet(q)
<1>1. n \in Nat /\ q \in [1 .. n -> Jobs] /\ \A x : x \in T <=> \E i \in 1 .. n : q[i] = x
  BY InToSet
<1>2. \A i, k \in 1 .. n : q[i] = q[k] => i = k
  <2> SUFFICES ASSUME NEW i \in 1 .. n, NEW k \in 1 .. n, i # k PROVE q[i] # q[k]
    OBVIOUS
  <2>1. q[i] \in Int /\ q[k] \in Int
    BY <1>1 DEF Jobs
  <2>2. i < k \/ k < i
    BY <1>1
  <2>3. (i < k => q[i] < q[k]) /\ (k < i => q[k] < q[i])
    BY DEF Sorted
  <2> QED BY <2>1, <2>2, <2>3
<1>3. q \in Bijection(1 .. n, T)
  <2> HIDE DEF n, T
  <2>1. q \in [1 .. n -> T]
    BY <1>1
  <2>2. q \in Injection(1 .. n, T)
    BY <2>1, <1>2 DEF Injection, IsInjective
  <2>3. q \in Surjection(1 .. n, T)
    BY <2>1, <1>1 DEF Surjection
  <2> QED BY <2>2, <2>3 DEF Bijection
<1>4. ExistsBijection(1 .. n, T)
  BY <1>3 DEF ExistsBijection
<1> HIDE DEF n, T
<1>5. Cardinality(T) = n
  BY <1>1, <1>4, FS_CountingElements
<1> QED BY <1>5 DEF n, T

(* When the loop has no branch left in a drain, nothing is pending at all, *)
(* and a job that still waits has no capacity change to wait for.          *)
LEMMA NothingPending ==
  ASSUME LoopInv, Representable, looping, target = Drain,
         ~(LoopRuns /\ (EventNext \/ ArrivalNext \/ CapacityNext \/ TickNext))
  PROVE  /\ evtq = {} /\ \A j \in ToSet(waiting) : job[j].submit <= now
         /\ ToSet(waiting) # {} => NextCapacity = Infinity
<1>1. /\ NextEvent \in Nat /\ NextArrival \in Nat /\ NextCapacity \in Nat
      /\ EffectiveTick \in Nat /\ now \in Nat /\ target = Infinity /\ Infinity \in Nat
      /\ (NextCapacity = Infinity \/ NextCapacity < Infinity)
  BY InstantFacts, Constants
<1>2. LoopRuns => /\ ~EventNext /\ ~ArrivalNext /\ ~CapacityNext /\ ~TickNext
  OBVIOUS
<1>3. evtq = {}
  <2>1. CASE evtq # {}
    <3>1. LoopRuns
      BY <2>1 DEF LoopRuns
    <3>2. NextEvent < Infinity
      BY <2>1, <1>1, InstantFacts, Constants DEF Representable
    <3> QED BY <1>1, <1>2, <2>1, <3>1, <3>2, GuardFacts DEF TickNext
  <2> QED BY <2>1
<1>4. ASSUME NEW j \in ToSet(waiting) PROVE job[j].submit <= now
  <2>1. job[j].submit \in 0 .. Horizon
    <3>1. waiting \in Seq(Jobs) /\ job \in Workloads
      BY DEF LoopInv, QueueInv
    <3>2. j \in Jobs
      BY <3>1, InToSet
    <3> QED BY <3>1, <3>2, JobFacts
  <2>2. CASE job[j].submit > now
    <3>1. NextArrival < Infinity
      BY <2>1, <2>2, <1>1, InstantFacts, Constants
    <3>2. LoopRuns
      BY <3>1 DEF LoopRuns
    <3> QED BY <1>1, <1>2, <3>1, <3>2, GuardFacts DEF TickNext
  <2> QED BY <2>1, <2>2, <1>1, Constants
<1>5. ASSUME NEW j \in ToSet(waiting) PROVE NextCapacity = Infinity
  <2>1. LoopRuns
    <3>1. ActiveCount(now) > 0
      BY <1>4, ActiveIs
    <3> QED BY <3>1 DEF LoopRuns
  <2>2. CASE NextCapacity < Infinity
    BY <1>1, <1>2, <2>1, <2>2, GuardFacts DEF TickNext
  <2> QED BY <2>2, <1>1
<1> QED BY <1>3, <1>4, <1>5

LEMMA HeadIsFirst ==
  ASSUME waiting \in Seq(Jobs), Sorted(waiting), waiting # << >>
  PROVE  waiting[1] \in ToSet(waiting) /\ \A i \in ToSet(waiting) : waiting[1] <= i
<1>1. Len(waiting) \in Nat /\ 1 \in 1 .. Len(waiting)
  OBVIOUS
<1>2. ASSUME NEW k \in 1 .. Len(waiting) PROVE waiting[1] <= waiting[k]
  <2>1. waiting[1] \in Jobs /\ waiting[k] \in Jobs
    BY <1>1
  <2>2. waiting[1] \in Int /\ waiting[k] \in Int
    BY <2>1 DEF Jobs
  <2>3. 1 < k => waiting[1] < waiting[k]
    BY <1>1 DEF Sorted
  <2> QED BY <2>2, <2>3, <1>1
<1> QED BY <1>1, <1>2, InToSet

LEMMA DrainReturns ==
  ASSUME LoopInv, WorkInv, NowInv, Representable, looping, Return, target = Drain
  PROVE  DrainCompletes' /\ now \in Happened
<1> DEFINE W == ToSet(waiting)
           B == HasStarted
<1>1. /\ ~(LoopRuns /\ (EventNext \/ ArrivalNext \/ CapacityNext \/ TickNext))
      /\ now' = now
      /\ UNCHANGED <<caller, capacity, nextChange, waiting, resources, arrivals, fault>>
  BY DEF Return
<1>2. UNCHANGED <<job, changes, appended, rejected, capacity, nextChange, waiting, running, evtq,
                  inUse, releasing, start, arrivals, fault>>
  BY <1>1 DEF caller, resources
<1>3. /\ evtq = {} /\ \A j \in W : job[j].submit <= now
      /\ W # {} => NextCapacity = Infinity
  BY <1>1, NothingPending
<1>4. OrderInv /\ AccountInv /\ ArrivedInv /\ HeadInv /\ NowInv
  BY DEF WorkInv
<1>5. /\ job \in Workloads /\ waiting \in Seq(Jobs) /\ W \in SUBSET Jobs /\ appended \in 0 .. NumJobs
      /\ \A j \in W : start[j] = Infinity
  <2>1. /\ job \in Workloads /\ waiting \in Seq(Jobs) /\ appended \in 0 .. NumJobs
        /\ \A j \in W : start[j] = Infinity
    BY DEF LoopInv, QueueInv
  <2> QED BY <2>1, InToSet
<1>6. \A j \in W : job[j].submit \in Nat /\ job[j].nodes \in Nat
  BY <1>5, JobFacts, Constants
<1>7. now \in Nat
  BY InstantFacts
<1>8. \A f : IsFcn(f) /\ DOMAIN f = {} => f = << >>
  BY DEF IsFcn
<1>9. running = << >> /\ inUse = 0 /\ releasing = 0
  <2>1. Ending(evtq) = {} /\ Held(evtq) = {}
    BY <1>3 DEF Ending, Held
  <2>2. DOMAIN running = {} /\ inUse = NodesOf({}) /\ releasing = NodesOf({})
    BY <2>1 DEF LoopInv, Books
  <2> QED BY <2>2, <1>4, <1>8, NodesEmpty DEF OrderInv
<1>10. arrivals = << >>
  <2>1. ASSUME NEW u \in DOMAIN arrivals PROVE FALSE
    <3>1. PICK j \in W : job[j].submit = u /\ u \in Nat /\ u > now
      BY DEF LoopInv, ArrivalsInv
    <3> QED BY <3>1, <1>3, <1>7
  <2>2. DOMAIN arrivals = {}
    BY <2>1
  <2> QED BY <2>2, <1>4, <1>8 DEF OrderInv
<1>11. /\ 1 .. appended = rejected \cup W \cup B /\ rejected \cap (W \cup B) = {} /\ W \cap B = {}
  BY <1>4, <1>5 DEF AccountInv, HasStarted
<1>12. B = {j \in Jobs : start[j] < Infinity}
  <2>1. start \in [Jobs -> 0 .. Infinity]
    BY DEF LoopInv, Books
  <2> QED BY <2>1, Constants DEF HasStarted
<1>13. B \in SUBSET Jobs
  BY DEF HasStarted
<1> HIDE DEF B
<1>14. appended = Cardinality(rejected) + Len(waiting) + Cardinality(B)
  <2>1. Cardinality(W) = Len(waiting)
    BY <1>4, <1>5, SortedLength DEF OrderInv
  <2> HIDE DEF W
  <2>2. IsFiniteSet(1 .. appended) /\ Cardinality(1 .. appended) = appended
    BY <1>5, Constants, FS_Interval
  <2>3. IsFiniteSet(rejected) /\ IsFiniteSet(W) /\ IsFiniteSet(B)
    BY <2>2, <1>11, FS_Subset
  <2>4. Cardinality(W \cup B) = Cardinality(W) + Cardinality(B) /\ IsFiniteSet(W \cup B)
    <3>1. Cardinality(W \cap B) = 0
      BY <1>11, FS_EmptySet
    <3>2. Cardinality(W) \in Nat /\ Cardinality(B) \in Nat
      BY <2>3, FS_CardinalityType
    <3>3. Cardinality(W \cup B) = Cardinality(W) + Cardinality(B) - Cardinality(W \cap B)
      BY <2>3, FS_Union
    <3>4. IsFiniteSet(W \cup B)
      BY <2>3, FS_Union
    <3> QED BY <3>1, <3>2, <3>3, <3>4
  <2> DEFINE V == W \cup B
  <2>5. rejected \cap V = {} /\ 1 .. appended = rejected \cup V /\ IsFiniteSet(V)
    BY <2>4, <1>11
  <2> HIDE DEF V
  <2>6. Cardinality(rejected \cup V) = Cardinality(rejected) + Cardinality(V)
    <3>1. Cardinality(rejected \cap V) = 0
      BY <2>5, FS_EmptySet
    <3>2. Cardinality(rejected) \in Nat /\ Cardinality(V) \in Nat
      BY <2>3, <2>5, FS_CardinalityType
    <3>3. Cardinality(rejected \cup V)
            = Cardinality(rejected) + Cardinality(V) - Cardinality(rejected \cap V)
      BY <2>3, <2>5, FS_Union
    <3> QED BY <3>1, <3>2, <3>3
  <2>7. Cardinality(rejected) \in Nat /\ Cardinality(W) \in Nat /\ Cardinality(B) \in Nat
    BY <2>3, FS_CardinalityType
  <2>8. appended = Cardinality(rejected) + Cardinality(V)
    BY <2>2, <2>5, <2>6
  <2>9. appended = Cardinality(rejected) + (Cardinality(W) + Cardinality(B))
    BY <2>4, <2>8 DEF V
  <2> QED BY <2>1, <2>7, <2>9
<1>15. ASSUME waiting # << >> PROVE NextCapacity = Infinity /\ job[waiting[1]].nodes > capacity
  <2>2. waiting[1] \in W
    BY <1>4, <1>5, <1>15, HeadIsFirst DEF OrderInv
  <2>3. \A i \in W : waiting[1] <= i
    BY <1>4, <1>5, <1>15, HeadIsFirst DEF OrderInv
  <2>4. job[waiting[1]].nodes + (inUse + releasing) > capacity
    BY <2>2, <2>3, <1>3, <1>4 DEF HeadInv, Blocked
  <2>5. job[waiting[1]].nodes \in Nat
    BY <2>2, <1>6
  <2> QED BY <2>2, <2>4, <2>5, <1>3, <1>9
<1>16. now \in Happened
  <2>1. ~Ahead
    <3>1. ~\E j \in W : job[j].submit > now
      BY <1>3, <1>6, <1>7
    <3>2. W # {} => ~(NextCapacity < Infinity)
      BY <1>3, Constants
    <3> QED BY <3>1, <3>2, <1>3 DEF Ahead
  <2> QED BY <2>1, <1>4 DEF NowInv
<1>17. ~fault
  BY <1>4 DEF ArrivedInv
<1>18. NextCapacity' = NextCapacity
  BY <1>2, Zenon DEF NextCapacity
<1>19. now' \in Happened
  BY <1>1, <1>16
<1> QED
  BY <1>2, <1>3, <1>9, <1>10, <1>11, <1>12, <1>14, <1>15, <1>16, <1>17, <1>18, <1>19
  DEF DrainCompletes, Happened, B, Infinity

LEMMA ReturnDrains ==
  ASSUME LoopInv, WorkInv, looping, Return
  PROVE  WorkInv' /\ (Representable /\ NowInv => DrainInv')
<1>1. /\ looping' = FALSE
      /\ now' = IF target = Drain THEN now ELSE target
      /\ UNCHANGED <<caller, target, capacity, nextChange, waiting, resources, arrivals, fault>>
  BY DEF Return
<1>2. UNCHANGED <<job, changes, appended, rejected, target, waiting, running, start, arrivals, fault>>
  BY <1>1 DEF caller, resources
<1>3. OrderInv /\ AccountInv /\ ArrivedInv /\ LastInv
  BY DEF WorkInv
<1>4. OrderInv' /\ LastInv'
  BY <1>2, <1>3 DEF OrderInv, Sorted, IsFcn, LastInv
<1>5. HasStarted' = HasStarted
  BY <1>2 DEF HasStarted
<1>6. AccountInv'
  BY <1>2, <1>3, <1>5 DEF AccountInv
<1>7. ArrivedInv'
  <2>1. \A u : SubmittedAt(u)' = SubmittedAt(u)
    BY <1>2 DEF SubmittedAt
  <2> QED BY <2>1, <1>2, <1>3 DEF ArrivedInv
<1>8. HeadInv'
  BY <1>1 DEF HeadInv
<1>9. Happened' = Happened
  BY <1>2, <1>5 DEF Happened
<1>10. ASSUME target = Drain, Representable, NowInv PROVE DrainInv'
  <2>1. DrainCompletes' /\ now \in Happened
    BY <1>10, DrainReturns
  <2>2. NowInv'
    BY <2>1, <1>1, <1>9, <1>10 DEF NowInv
  <2> QED BY <2>1, <2>2 DEF DrainInv
<1>11. ASSUME target # Drain PROVE DrainInv'
  <2>1. now' = target /\ target \in {0} \cup Targets
    BY <1>1, <1>3, <1>11 DEF LastInv
  <2>2. now' \in Happened
    BY <2>1 DEF Happened
  <2>3. NowInv'
    BY <2>2, <1>9 DEF NowInv
  <2>4. target' # Drain'
    BY <1>2, <1>11 DEF Drain, Infinity
  <2>5. DrainCompletes'
    BY <2>4 DEF DrainCompletes
  <2> QED BY <2>3, <2>5 DEF DrainInv
<1> QED BY <1>4, <1>6, <1>7, <1>8, <1>10, <1>11 DEF WorkInv

LEMMA DrainStep ==
  ASSUME LoopInv, WorkInv, [Next]_vars
  PROVE  WorkInv' /\ (Representable /\ DrainInv => DrainInv')
<1>1. OnceStep
  BY LoopStep
<1>2. CASE append_job
  BY <1>2, AppendDrains DEF DrainInv
<1>3. CASE \E to \in Targets \cup {Drain} : advance_to(to)
  BY <1>1, <1>3, AdvanceDrains DEF DrainInv
<1>4. CASE looping /\ (ProcessEvents \/ ProcessArrivals \/ ProcessCapacity \/ ProcessTick)
  <2>1. PICK t, evs, used, run, should, isTick : Iteration(t, evs, used, run, should, isTick)
    BY <1>4, EventsIterate, ArrivalsIterate, CapacityIterates, TickIterates
  <2> QED BY <1>1, <1>4, <2>1, IterateDrains
<1>5. CASE looping /\ Return
  BY <1>5, ReturnDrains DEF DrainInv
<1>6. CASE UNCHANGED vars
  <2>1. /\ UNCHANGED <<job, changes, appended, rejected, now, target, looping, capacity, nextChange>>
        /\ UNCHANGED <<waiting, running, evtq, inUse, releasing, start, arrivals, fault>>
    BY <1>6 DEF vars, caller
  <2>2. NextCapacity' = NextCapacity /\ HasStarted' = HasStarted
    BY <2>1 DEF NextCapacity, HasStarted, Infinity
  <2>3. OrderInv' /\ LastInv' /\ AccountInv' /\ HeadInv'
    BY <2>1, <2>2 DEF WorkInv, OrderInv, Sorted, IsFcn, LastInv, AccountInv, HeadInv, Blocked
  <2>4. ArrivedInv'
    <3>1. \A u : SubmittedAt(u)' = SubmittedAt(u)
      BY <2>1 DEF SubmittedAt
    <3> QED BY <2>1, <3>1 DEF WorkInv, ArrivedInv
  <2>5. ASSUME DrainInv PROVE NowInv'
    <3>1. Happened' = Happened
      BY <2>1, <2>2 DEF Happened
    <3>2. Ahead' <=> Ahead
      BY <2>1, <2>2 DEF Ahead, Infinity
    <3> QED BY <2>1, <2>5, <3>1, <3>2 DEF DrainInv, NowInv
  <2>6. ASSUME DrainInv PROVE DrainCompletes'
    BY <2>1, <2>2, <2>6 DEF DrainInv, DrainCompletes, Infinity
  <2> QED BY <2>3, <2>4, <2>5, <2>6 DEF WorkInv, DrainInv
<1> QED BY <1>2, <1>3, <1>4, <1>5, <1>6 DEF Next, Step

(* DrainCompletes for every instance whose pending ENDs and RELEASEs have  *)
(* a time below the sentinel: a drain leaves no event, no arrival and no   *)
(* node in use, accounts for every job once, lets a job wait only behind a *)
(* head that no capacity to come can hold, and stops its clock at the time *)
(* of something that happened.                                             *)
THEOREM DrainAlwaysCompletes == Spec /\ []Representable => []DrainCompletes
<1>1. LoopInv /\ [Next]_vars => LoopInv'
  BY LoopStep
<1>2. LoopInv /\ WorkInv /\ [Next]_vars => WorkInv' /\ (Representable /\ DrainInv => DrainInv')
  BY DrainStep
<1>3. DrainInv => DrainCompletes
  BY DEF DrainInv
<1> QED BY <1>1, <1>2, <1>3, InitInv, InitDrains, PTL DEF Spec

(* The loop never rests on an idle machine: between iterations the first   *)
(* job of the queue, when it has arrived, needs more nodes than are free.  *)
(* An iteration that skips the passes (an END that only starts a release   *)
(* delay, a tick with nothing marked) skips nothing that could start it.   *)
THEOREM HeadNeverIdle ==
  Spec =>
    [](looping /\ waiting # << >> /\ job[waiting[1]].submit <= now =>
         job[waiting[1]].nodes + (inUse + releasing) > capacity)
<1> DEFINE P == looping /\ waiting # << >> /\ job[waiting[1]].submit <= now =>
                  job[waiting[1]].nodes + (inUse + releasing) > capacity
<1>1. LoopInv /\ [Next]_vars => LoopInv'
  BY LoopStep
<1>2. LoopInv /\ WorkInv /\ [Next]_vars => WorkInv'
  BY DrainStep
<1>3. LoopInv /\ WorkInv => P
  <2> SUFFICES ASSUME LoopInv, WorkInv, looping, waiting # << >>, job[waiting[1]].submit <= now
               PROVE  job[waiting[1]].nodes + (inUse + releasing) > capacity
    OBVIOUS
  <2>1. waiting \in Seq(Jobs) /\ Sorted(waiting)
    BY DEF LoopInv, QueueInv, WorkInv, OrderInv
  <2>2. Blocked(ToSet(waiting), now, inUse + releasing, capacity)
    BY DEF WorkInv, HeadInv
  <2> QED BY <2>1, <2>2, HeadIsFirst DEF Blocked
<1> QED BY <1>1, <1>2, <1>3, InitInv, InitDrains, PTL DEF Spec

(* No job is lost or doubled, at any time: an appended job is rejected,    *)
(* queued or started, and only one of them; and the count of arrivals that *)
(* record_queue_arrivals() checks against the queue never exceeds it.      *)
THEOREM EveryJobOnce ==
  Spec =>
    [](/\ 1 .. appended = rejected \cup ToSet(waiting) \cup HasStarted
       /\ rejected \cap (ToSet(waiting) \cup HasStarted) = {} /\ ToSet(waiting) \cap HasStarted = {}
       /\ Sorted(waiting) /\ ~fault)
<1>1. LoopInv /\ [Next]_vars => LoopInv'
  BY LoopStep
<1>2. LoopInv /\ WorkInv /\ [Next]_vars => WorkInv'
  BY DrainStep
<1>3. LoopInv /\ WorkInv =>
        /\ 1 .. appended = rejected \cup ToSet(waiting) \cup HasStarted
        /\ rejected \cap (ToSet(waiting) \cup HasStarted) = {} /\ ToSet(waiting) \cap HasStarted = {}
        /\ Sorted(waiting) /\ ~fault
  BY DEF LoopInv, QueueInv, WorkInv, AccountInv, OrderInv, ArrivedInv, HasStarted
<1> QED BY <1>1, <1>2, <1>3, InitInv, InitDrains, PTL DEF Spec

-----------------------------------------------------------------------------
(* The head's reservation.  Jobs that end by their limits, whose nodes     *)
(* return when they end.                                                   *)
WithinLimits == \A j \in Jobs : job[j].run <= job[j].limit

(* The nodes that are free at u when the running jobs keep their nodes up  *)
(* to their planned releases and no job starts.                            *)
FreeOn(cap, next, run, u) == CapacityOn(cap, next, u) - NodesOf({j \in DOMAIN run : run[j] > u})

First(Q, h) == h \in Q /\ \A i \in Q : h <= i

(* The state of a pass is that of the machine: the occupied nodes are the  *)
(* running jobs', and no planned release is overdue.                       *)
Honest(s) ==
  /\ Ready(s) /\ Sorted(s.queue) /\ s.t \in 0 .. Horizon
  /\ s.next \in 1 .. Len(changes) + 1
  /\ DOMAIN s.run \in SUBSET Jobs /\ ToSet(s.queue) \cap DOMAIN s.run = {}
  /\ s.occupied = NodesOf(DOMAIN s.run)
  /\ \A j \in DOMAIN s.run : s.run[j] \in Nat /\ s.run[j] > s.t

LEMMA LimitFacts ==
  ASSUME job \in Workloads, NEW j \in Jobs
  PROVE  job[j].limit \in Nat \ {0}
<1>1. job[j] \in JobSpecs
  BY DEF Workloads
<1>2. PICK s \in Submits, n \in Requests, shape \in Shapes,
           d \in IF ReleaseDelays = {} THEN {0} ELSE ReleaseDelays :
        job[j] = [submit |-> s, nodes |-> n, limit |-> shape[1], run |-> shape[2], delay |-> d]
  BY <1>1 DEF JobSpecs
<1>3. shape[1] \in Nat \ {0}
  BY WorkloadAssumption
<1> QED BY <1>2, <1>3

(* A release is not planned before the end of the estimate. *)
LEMMA ReleaseFacts ==
  ASSUME NEW t \in Nat, NEW e \in Nat \ {0}
  PROVE  PlannedRelease(t, e) \in Nat /\ PlannedRelease(t, e) >= t + e
<1> DEFINE b == PlanningResolution
           a == t + e + b - 1
           q == a \div b
<1>1. b \in Nat \ {0} /\ a \in Nat
  BY SchedulingAssumption
<1>2. PlannedRelease(t, e) = q * b
  BY DEF PlannedRelease
<1> HIDE DEF b
<1>3. q \in Int /\ a % b \in 0 .. b - 1 /\ a = b * q + (a % b)
  BY <1>1
<1>4. b * q = q * b /\ b * q \in Int
  BY <1>1, <1>3
<1> DEFINE m == a % b
           p == b * q
<1>5. p >= a - (b - 1)
  <2> HIDE DEF q, m, p, a
  <2> QED BY <1>1, <1>3, <1>4 DEF m, p
<1> QED BY <1>1, <1>2, <1>4, <1>5

LEMMA CapacityType ==
  ASSUME changes \in Schedules, NEW cap \in Nat, NEW next \in 1 .. Len(changes) + 1, NEW u \in Nat
  PROVE  CapacityOn(cap, next, u) \in Nat
<1> DEFINE due == {i \in next .. Len(changes) : changes[i].time <= u}
<1>1. Len(changes) \in Nat /\ \A i \in 1 .. Len(changes) : changes[i].total \in Nat
  BY ScheduleShape
<1>2. due \subseteq 0 .. Len(changes) /\ due \subseteq 1 .. Len(changes)
  BY <1>1
<1>3. CapacityOn(cap, next, u) = IF due = {} THEN cap ELSE changes[Max(due)].total
  BY DEF CapacityOn
<1> HIDE DEF due
<1>4. due # {} => Max(due) \in due
  BY <1>1, <1>2, MaxIs
<1> QED BY <1>1, <1>2, <1>3, <1>4

LEMMA FreeType ==
  ASSUME job \in Workloads, changes \in Schedules, NEW cap \in Nat,
         NEW next \in 1 .. Len(changes) + 1, NEW u \in Nat, NEW run, DOMAIN run \in SUBSET Jobs
  PROVE  FreeOn(cap, next, run, u) \in Int
<1> DEFINE X == {j \in DOMAIN run : run[j] > u}
<1>1. X \in SUBSET Jobs
  OBVIOUS
<1> HIDE DEF X
<1>2. NodesOf(X) \in Nat
  BY <1>1, NodesType
<1>3. CapacityOn(cap, next, u) \in Nat
  BY CapacityType
<1> QED BY <1>2, <1>3 DEF FreeOn, X

(* The first job of the queue is the first of the heads, or no job is a    *)
(* head and it is the first that is blocked.                               *)
LEMMA HeadsOrFirst ==
  ASSUME job \in Workloads, NEW s, Ready(s), Sorted(s.queue), NEW h, First(ToSet(s.queue), h),
         job[h].submit <= s.t, NEW f, f = HeadsFirst(s)
  PROVE  \/ h \in ToSet(f.heads)
         \/ ToSet(f.heads) = {} /\ f.blocked # << >> /\ f.blocked[1] = h
<1> DEFINE n0 == Len(s.queue)
           e == EligibleEnd(s)
           q == SubSeq(s.queue, 1, e)
           n == Len(q)
           first(k) == NodesOf({q[i] : i \in 1 .. k})
           free == get_available_nodes(s)
           T == {k \in 0 .. n : first(k) <= free}
           c == Max(T)
<1>1. f.heads = SubSeq(q, 1, c) /\ f.blocked = SubSeq(q, c + 1, n)
  BY DEF HeadsFirst
<1>2. s.queue \in Seq(Jobs) /\ n0 \in Nat
  BY DEF Ready
<1>3. n0 >= 1 /\ s.queue[1] = h
  <2>1. PICK i \in 1 .. n0 : s.queue[i] = h
    BY <1>2, InToSet DEF First
  <2>2. 1 \in 1 .. n0 /\ s.queue[1] \in ToSet(s.queue)
    BY <1>2, <2>1, InToSet
  <2>3. s.queue[1] \in Int /\ h \in Int /\ h <= s.queue[1]
    <3>1. ToSet(s.queue) \in SUBSET Jobs
      BY <1>2, InToSet
    <3>2. \A k \in Jobs : k \in Int
      BY DEF Jobs
    <3> QED BY <3>1, <3>2, <2>2 DEF First
  <2>4. 1 < i => s.queue[1] < h
    BY <2>1, <2>2 DEF Sorted
  <2> QED BY <1>2, <2>1, <2>2, <2>3, <2>4
<1>4. e \in 1 .. n0
  <2> DEFINE U == {k \in 0 .. n0 : \A i \in 1 .. k : job[s.queue[i]].submit <= s.t}
  <2>1. e = Max(U)
    BY DEF EligibleEnd
  <2>2. U \subseteq 0 .. n0 /\ 1 \in U
    BY <1>2, <1>3
  <2> HIDE DEF U, e, n0
  <2>3. Max(U) \in U /\ 1 <= Max(U)
    BY <1>2, <2>2, MaxIs
  <2>4. Max(U) \in 0 .. n0
    BY <2>2, <2>3
  <2> QED BY <2>1, <2>3, <2>4, <1>2
<1> HIDE DEF e, n0
<1>5. q \in Seq(Jobs) /\ n = e /\ n \in Nat /\ n >= 1 /\ q[1] = h
  <2>1. 1 \in 1 .. Len(s.queue) + 1 /\ 1 <= e + 1 /\ e - 1 + 1 = e /\ e \in Nat /\ e \in 0 .. Len(s.queue)
    BY <1>2, <1>4 DEF n0
  <2>2. q \in Seq(Jobs) /\ n = e
    BY <2>1, <1>2, SubSeqFacts
  <2>3. q[1] = s.queue[1]
    BY <1>2, <1>4 DEF n0
  <2> HIDE DEF q
  <2> QED BY <2>1, <2>2, <2>3, <1>3, <1>4, <1>2
<1>6. free \in Nat
  BY AvailableType
<1> HIDE DEF q, free
<1>7. c \in 0 .. n
  <2>1. {q[i] : i \in 1 .. 0} = {}
    OBVIOUS
  <2>2. first(0) = 0
    BY <2>1, NodesEmpty
  <2>3. T \subseteq 0 .. n /\ 0 \in T
    BY <2>2, <1>5, <1>6
  <2> HIDE DEF T, n
  <2> QED BY <1>5, <2>3, MaxIs
<1> HIDE DEF c
<1>8. \A x : x \in ToSet(SubSeq(q, 1, c)) <=> \E i \in 1 .. c : q[i] = x
  <2>1. 1 \in 1 .. Len(q) + 1 /\ c \in 0 .. Len(q) /\ 1 <= c + 1 /\ q \in Seq(Jobs)
    BY <1>5, <1>7
  <2> QED BY ONLY <2>1, SubSeqFacts
<1>9. CASE c = 0
  <2>1. SubSeq(q, 1, n) # << >> /\ SubSeq(q, 1, n)[1] = h
    BY <1>5
  <2>2. \A i \in 1 .. c : FALSE
    BY <1>9
  <2> QED BY <2>1, <2>2, <1>1, <1>8, <1>9
<1>10. CASE c # 0
  <2>1. 1 \in 1 .. c
    BY <1>5, <1>7, <1>10
  <2> QED BY <2>1, <1>1, <1>5, <1>8
<1> QED BY <1>9, <1>10

(* With no head to start, the timeline from the clock on has the nodes     *)
(* that are free at each instant.                                          *)
LEMMA TimelineIs ==
  ASSUME job \in Workloads, changes \in Schedules, NEW s, Honest(s), NEW f, f = HeadsFirst(s),
         ToSet(f.heads) = {}, NEW u \in s.t .. Horizon
  PROVE  /\ FreeOn(s.cap, s.next, s.run, u) \in Int
         /\ reservation_timeline(s, f)[u] =
              IF FreeOn(s.cap, s.next, s.run, u) > 0 THEN FreeOn(s.cap, s.next, s.run, u) ELSE 0
<1> DEFINE D == DOMAIN s.run
           P == {j \in DOMAIN s.run : s.t < s.run[j] /\ s.run[j] <= u}
           X == {j \in DOMAIN s.run : s.run[j] > u}
           c == CapacityOn(s.cap, s.next, u)
           planned(v) == {j \in DOMAIN s.run : s.t < s.run[j] /\ s.run[j] <= v}
           chosen(v) == {j \in ToSet(f.heads) : PlannedRelease(s.t, job[j].limit) <= v}
           balance(v) == StartBalance(s, f) + NodesOf(planned(v)) + NodesOf(chosen(v))
                           + CapacityAt(s, v) - s.cap
           g == [v \in Time |-> IF balance(v) > 0 THEN balance(v) ELSE 0]
<1>1. Ready(s) /\ s.t \in Nat /\ s.cap \in Nat /\ s.occupied \in Nat /\ Horizon \in Nat
  BY Constants DEF Honest, Ready
<1>2. u \in Time /\ u \in Nat /\ s.t <= u
  BY <1>1 DEF Time
<1>3. reservation_timeline(s, f) = g
  BY TableIs DEF reservation_timeline
<1>4. reservation_timeline(s, f)[u] = IF balance(u) > 0 THEN balance(u) ELSE 0
  <2>1. g[u] = IF balance(u) > 0 THEN balance(u) ELSE 0
    <3> HIDE DEF balance
    <3> QED BY <1>2
  <2> QED BY <1>3, <2>1
<1>5. CapacityAt(s, u) = c
  BY DEF CapacityAt, CapacityOn
<1>6. chosen(u) = {} /\ planned(u) = P
  OBVIOUS
<1>7. StartBalance(s, f) = s.cap - s.occupied
  <2>1. f.left \in Nat /\ NodesOf(ToSet(f.heads)) + f.left = get_available_nodes(s)
    BY <1>1, HeadsFacts
  <2>2. NodesOf(ToSet(f.heads)) = 0
    BY NodesEmpty
  <2>3. f.left = get_available_nodes(s)
    <3> DEFINE l == f.left
               n == NodesOf(ToSet(f.heads))
               v == get_available_nodes(s)
    <3>1. l \in Nat /\ n + l = v /\ n = 0
      BY <2>1, <2>2
    <3> HIDE DEF l, n, v
    <3>2. l = v
      BY <3>1
    <3> QED BY <3>2 DEF l, v
  <2> QED BY <2>3, <1>1 DEF StartBalance, get_available_nodes
<1>8. D \in SUBSET Jobs /\ P \in SUBSET D /\ X \in SUBSET D /\ P \in SUBSET Jobs /\ X \in SUBSET Jobs
  BY DEF Honest
<1>9. D = P \cup X /\ P \cap X = {}
  <2>1. \A j \in D : s.run[j] \in Nat /\ s.run[j] > s.t
    BY DEF Honest
  <2>2. \A j \in D : (j \in P \/ j \in X) /\ ~(j \in P /\ j \in X)
    BY <2>1, <1>1, <1>2
  <2> QED BY <2>2, <1>8
<1>10. s.occupied = NodesOf(D)
  BY DEF Honest
<1>11. c \in Nat
  BY <1>1, <1>2, CapacityType DEF Honest
<1>12. FreeOn(s.cap, s.next, s.run, u) = c - NodesOf(X)
  BY DEF FreeOn
<1> HIDE DEF D, P, X, c
<1>13. NodesOf(D) = NodesOf(P) + NodesOf(X) /\ NodesOf(P) \in Nat /\ NodesOf(X) \in Nat
  BY <1>8, <1>9, NodesUnion, NodesType
<1>14. balance(u) = c - NodesOf(X)
  <2>1. balance(u) = (s.cap - s.occupied) + NodesOf(P) + NodesOf({}) + c - s.cap
    BY <1>5, <1>6, <1>7
  <2> QED BY <2>1, <1>1, <1>10, <1>11, <1>13, NodesEmpty
<1> HIDE DEF balance
<1> QED BY <1>4, <1>11, <1>12, <1>13, <1>14

(* The head's reservation is the first instant with enough free nodes for  *)
(* it.                                                                     *)
LEMMA ReservationIs ==
  ASSUME job \in Workloads, changes \in Schedules, NEW s, Honest(s), NEW f, f = HeadsFirst(s),
         ToSet(f.heads) = {}, f.blocked # << >>, NEW r,
         r = HeadReservation(s, f, reservation_timeline(s, f))
  PROVE  /\ r # NoFit => /\ r \in s.t .. Horizon
                         /\ job[f.blocked[1]].nodes <= FreeOn(s.cap, s.next, s.run, r)
                         /\ reservation_timeline(s, f)[r] = FreeOn(s.cap, s.next, s.run, r)
         /\ \A u \in s.t .. Horizon :
              job[f.blocked[1]].nodes <= FreeOn(s.cap, s.next, s.run, u) => r # NoFit /\ r <= u
<1> DEFINE h == f.blocked[1]
           n == job[h].nodes
           plan == reservation_timeline(s, f)
           F(u) == FreeOn(s.cap, s.next, s.run, u)
           fits == {u \in s.t .. Horizon : plan[u] >= n}
<1>1. r = IF fits = {} THEN NoFit ELSE Min(fits)
  BY DEF HeadReservation
<1>2. Ready(s) /\ s.t \in Nat /\ Horizon \in Nat
  BY Constants DEF Honest, Ready
<1>3. h \in Jobs
  <2>1. f.blocked \in Seq(Jobs)
    BY <1>2, HeadsFacts
  <2>2. Len(f.blocked) \in Nat /\ 1 \in 1 .. Len(f.blocked)
    BY <2>1
  <2> QED BY <2>1, <2>2
<1>4. n \in Nat /\ n > 0
  BY <1>3, JobFacts
<1>5. \A u \in s.t .. Horizon : F(u) \in Int /\ plan[u] = IF F(u) > 0 THEN F(u) ELSE 0
  BY TimelineIs
<1> HIDE DEF plan, F, n, h
<1>6. \A u \in s.t .. Horizon : u \in fits <=> n <= F(u)
  BY <1>4, <1>5
<1>7. \A u \in fits : plan[u] = F(u)
  BY <1>4, <1>5, <1>6
<1>8. fits \subseteq 0 .. Horizon /\ fits \subseteq s.t .. Horizon /\ fits \subseteq Nat
  BY <1>2
<1> HIDE DEF fits
<1>9. fits # {} => Min(fits) \in fits /\ \A u \in fits : Min(fits) <= u
  <2>1. Least(fits) = IF fits = {} THEN Infinity ELSE Min(fits)
    BY DEF Least
  <2>2. fits # {} => Least(fits) \in fits /\ \A u \in fits : Least(fits) <= u
    BY <1>2, <1>8, LeastIs
  <2> QED BY <2>1, <2>2
<1>10. r # NoFit => fits # {} /\ r = Min(fits)
  BY <1>1
<1>11. fits # {} => r # NoFit
  <2>1. fits # {} => Min(fits) \in 0 .. Horizon
    BY <1>8, <1>9
  <2> QED BY <2>1, <1>1 DEF NoFit
<1>12. ASSUME r # NoFit PROVE r \in s.t .. Horizon /\ n <= F(r) /\ plan[r] = F(r)
  <2>1. r \in fits
    BY <1>9, <1>10, <1>12
  <2> QED BY <2>1, <1>6, <1>7, <1>8
<1>13. ASSUME NEW u \in s.t .. Horizon, n <= F(u) PROVE r # NoFit /\ r <= u
  <2>1. u \in fits
    BY <1>6, <1>13
  <2> QED BY <2>1, <1>9, <1>10, <1>11
<1> QED BY <1>12, <1>13 DEF n, h, plan, F

(* The jobs of C that would still run at r when started now, and a scan    *)
(* that keeps n of the T free nodes of r.                                  *)
Late(s, r, C) == {j \in C : PlannedRelease(s.t, job[j].limit) > r}
Keeping(s, r, n, T, a) ==
  a.plan[r] \in Nat /\ a.plan[r] + n + NodesOf(Late(s, r, ToSet(a.chosen))) <= T

LEMMA ExaminedKeeping ==
  ASSUME job \in Workloads, NEW s, s.t \in Nat, NEW r \in s.t .. Horizon,
         reservation_within_horizon(r, s.t), NEW n \in Nat, NEW T \in Int,
         NEW a, a.chosen \in Seq(Jobs), Keeping(s, r, n, T, a), NEW j \in Jobs
  PROVE  Keeping(s, r, n, T, Examined(s, r, a, j))
<1> DEFINE b == Examined(s, r, a, j)
<1>1. CASE b = a
  BY <1>1
<1>2. CASE b # a
  <2> DEFINE m == job[j].nodes
             P == PlannedRelease(s.t, job[j].limit)
             d == release_estimate(s.t, job[j].limit)
             R == Reserved(a.plan, s.t, m, d)
             A == Late(s, r, ToSet(a.chosen))
             B == Late(s, r, ToSet(b.chosen))
  <2>1. /\ preserves_reservations(s, a.plan, r, j)
        /\ b = [left |-> a.left - m, chosen |-> Append(a.chosen, j),
                plan |-> reserve(s, r, a.plan, s.t, j)]
    BY <1>2 DEF Examined
  <2>2. Fits(a.plan, m, d, s.t)
    BY <2>1 DEF preserves_reservations
  <2>3. reserve(s, r, a.plan, s.t, j) = R
    BY TableIs DEF reserve
  <2>4. b.chosen = Append(a.chosen, j) /\ b.plan = R
    <3> HIDE DEF b, R, m
    <3> QED BY ONLY <2>1, <2>3
  <2>5. ToSet(b.chosen) = ToSet(a.chosen) \cup {j}
    BY <2>4, AppendFacts
  <2>6. m \in Nat /\ job[j].limit \in Nat \ {0}
    BY JobFacts, LimitFacts
  <2>7. P \in Nat /\ P >= s.t + job[j].limit
    BY <2>6, ReleaseFacts
  <2>8. s.t + d = P /\ d \in Int
    BY <2>7 DEF release_estimate
  <2>9. Horizon \in Nat /\ r \in Time /\ r \in Nat /\ s.t <= r
    BY Constants DEF Time
  <2> HIDE DEF b, m, P, d
  <2>10. R[r] = IF r < P THEN Minus(a.plan[r], m) ELSE a.plan[r]
    <3>1. R[r] = IF s.t <= r /\ r < s.t + d THEN Minus(a.plan[r], m) ELSE a.plan[r]
      BY <2>9 DEF Reserved
    <3> QED BY <3>1, <2>8, <2>9
  <2> HIDE DEF R
  <2>11. A \in SUBSET Jobs
    BY InToSet DEF Late
  <2>12. a.plan[r] \in Nat /\ a.plan[r] + n + NodesOf(A) <= T
    BY DEF Keeping
  <2>13. CASE r < P
    <3>1. r \in Needs(s.t, d)
      BY <2>8, <2>9, <2>13 DEF Needs
    <3>2. m <= a.plan[r]
      BY <3>1, <2>2, <2>6, <2>12 DEF Fits
    <3>3. R[r] = a.plan[r] - m /\ R[r] \in Nat
      BY <3>2, <2>6, <2>10, <2>12, <2>13 DEF Minus
    <3>4. B = A \cup {j}
      <4>1. P > r
        BY <2>7, <2>9, <2>13
      <4> QED BY <4>1, <2>5 DEF Late, P
    <3> HIDE DEF A, B
    <3>5. NodesOf(A \cup {j}) <= NodesOf(A) + NodesOf({j}) /\ NodesOf({j}) = m
      BY <2>11, NodesCover, NodesSingle DEF m
    <3>6. NodesOf(A) \in Nat /\ NodesOf(A \cup {j}) \in Nat
      BY <2>11, NodesType
    <3>7. R[r] + n + NodesOf(A \cup {j}) <= T
      <4> DEFINE p == a.plan[r]
                 x == NodesOf(A)
                 y == NodesOf(A \cup {j})
                 z == R[r]
      <4>1. p \in Nat /\ x \in Nat /\ y \in Nat /\ y <= x + m /\ p + n + x <= T /\ z = p - m
        BY <3>3, <3>5, <3>6, <2>12
      <4> HIDE DEF p, x, y, z
      <4>2. z + n + y <= T
        BY <4>1, <2>6
      <4> QED BY <4>2 DEF y, z
    <3> QED BY <3>3, <3>4, <3>7, <2>4 DEF Keeping, B, b
  <2>14. CASE ~(r < P)
    <3>1. R[r] = a.plan[r]
      BY <2>10, <2>14
    <3>2. B = A
      <4>1. ~(P > r)
        BY <2>7, <2>9, <2>14
      <4> QED BY <4>1, <2>5 DEF Late, P
    <3> QED BY <3>1, <3>2, <2>4, <2>12 DEF Keeping, A, B, b
  <2> QED BY <2>13, <2>14
<1> QED BY <1>1, <1>2

(* The jobs the scan chooses leave the head its nodes at its reservation.  *)
LEMMA ScanKeeping ==
  ASSUME job \in Workloads, NEW s, s.t \in Nat, NEW f, f.blocked \in Seq(Jobs), f.blocked # << >>,
         f.left \in Nat, NEW timeline, NEW r \in s.t .. Horizon, reservation_within_horizon(r, s.t),
         timeline[r] \in Nat, job[f.blocked[1]].nodes <= timeline[r]
  PROVE  job[f.blocked[1]].nodes
           + NodesOf(Late(s, r, ToSet(BackfillScan(s, f, timeline, r)))) <= timeline[r]
<1> DEFINE B == BackfillScan(s, f, timeline, r)
           e == ScanEnd(s, f, r)
           n == Len(f.blocked)
           h == f.blocked[1]
           m == job[h].nodes
           T == timeline[r]
           Good(a) == Chosen(f, a) /\ Keeping(s, r, m, T, a)
<1>1. PICK g : /\ IsScan(s, f, timeline, r, g)
               /\ B = IF f.left = 0 THEN << >> ELSE g[e].chosen
  BY ScanIs
<1>2. e \in 1 .. n /\ n \in Nat
  BY ScanEndFacts
<1>3. \A i \in 1 .. n : g[i] = ScanStep(s, f, timeline, r, g, i)
  <2> DEFINE k == [i \in 1 .. n |-> ScanStep(s, f, timeline, r, g, i)]
  <2>1. \A i \in 1 .. n : k[i] = ScanStep(s, f, timeline, r, g, i)
    OBVIOUS
  <2>2. g = k
    BY <1>1 DEF IsScan
  <2> HIDE DEF k
  <2> QED BY <2>1, <2>2
<1>4. << >> \in Seq(Jobs) /\ ToSet(<< >>) = {}
  BY EmptyFacts
<1>5. (\A i \in 1 .. n : f.blocked[i] \in ToSet(f.blocked) /\ f.blocked[i] \in Jobs) /\ h \in Jobs
  BY <1>2, InToSet
<1>6. m \in Nat /\ job[h].limit \in Nat \ {0} /\ T \in Nat /\ m <= T
  BY <1>5, JobFacts, LimitFacts
<1>7. Late(s, r, {}) = {}
  BY DEF Late
<1>8. r \in Nat /\ r \in Time
  BY Constants DEF Time
<1>9. Good([left |-> f.left, chosen |-> << >>, plan |-> reserve(s, r, timeline, r, h)])
  <2> DEFINE d == release_estimate(r, job[h].limit)
             R == Reserved(timeline, r, m, d)
             a == [left |-> f.left, chosen |-> << >>, plan |-> reserve(s, r, timeline, r, h)]
  <2>1. reserve(s, r, timeline, r, h) = R
    BY TableIs DEF reserve
  <2>2. d \in Int /\ d > 0
    <3>1. PlannedRelease(r, job[h].limit) \in Nat /\ PlannedRelease(r, job[h].limit) >= r + job[h].limit
      BY <1>6, <1>8, ReleaseFacts
    <3> QED BY <3>1, <1>6, <1>8 DEF release_estimate
  <2> HIDE DEF d, m, T
  <2>3. R[r] = Minus(timeline[r], m)
    BY <2>2, <1>8 DEF Reserved
  <2>4. R[r] = T - m
    BY <2>3, <1>6 DEF Minus, T
  <2> HIDE DEF R
  <2>5. a.left = f.left /\ a.chosen = << >> /\ a.plan = R
    BY <2>1
  <2> HIDE DEF a
  <2>6. NodesOf({}) = 0
    BY NodesEmpty
  <2>e. a.chosen \in Seq(Jobs) /\ ToSet(a.chosen) = {} /\ Late(s, r, ToSet(a.chosen)) = {}
    BY <2>5, <1>4, <1>7
  <2> DEFINE l == a.left
             C == ToSet(a.chosen)
             p == a.plan[r]
  <2>7. Chosen(f, a)
    <3>1. l \in Nat /\ l = f.left /\ C = {} /\ NodesOf(C) = 0
      BY <2>5, <2>6, <2>e
    <3> HIDE DEF l, C
    <3>2. NodesOf(C) + l <= f.left /\ C \in SUBSET ToSet(f.blocked)
      BY <3>1
    <3> QED BY <3>1, <3>2, <2>e DEF Chosen, l, C
  <2>8. Keeping(s, r, m, T, a)
    <3>1. p = T - m /\ NodesOf(Late(s, r, C)) = 0
      BY <2>4, <2>5, <2>6, <2>e
    <3> HIDE DEF p, C
    <3>2. p \in Nat /\ p + m + NodesOf(Late(s, r, C)) <= T
      BY <3>1, <1>6
    <3> QED BY <3>2 DEF Keeping, p, C
  <2> QED BY <2>7, <2>8 DEF a
<1> HIDE DEF B, e, n, m, T
<1>10. ASSUME NEW i \in 1 .. n, ~Good(g[i]) PROVE FALSE
  <2> DEFINE Bad == {k \in 1 .. n : ~Good(g[k])}
  <2>1. PICK k \in Bad : \A l \in Bad : k <= l
    <3>1. Bad \subseteq Nat /\ i \in Bad
      BY <1>10, <1>2
    <3> HIDE DEF Bad
    <3> QED BY <3>1, LeastExists
  <2>2. k \in 1 .. n /\ ~Good(g[k])
    BY <2>1
  <2>3. CASE k = 1
    <3>1. g[k] = [left |-> f.left, chosen |-> << >>, plan |-> reserve(s, r, timeline, r, h)]
      BY <1>3, <2>2, <2>3 DEF ScanStep
    <3> HIDE DEF Good
    <3> QED BY <2>2, <3>1, <1>9
  <2>4. CASE k # 1
    <3>1. k - 1 \in 1 .. n /\ k - 1 \notin Bad
      <4>1. k - 1 \in 1 .. n /\ k - 1 < k
        BY <2>2, <2>4, <1>2
      <4>2. k - 1 \in Bad => k <= k - 1
        <5> HIDE DEF Bad
        <5> QED BY <2>1
      <4> QED BY <4>1, <4>2
    <3>2. Chosen(f, g[k - 1]) /\ Keeping(s, r, m, T, g[k - 1])
      BY <3>1
    <3>3. g[k] = Examined(s, r, g[k - 1], f.blocked[k])
      BY <1>3, <2>2, <2>4 DEF ScanStep
    <3>4. f.blocked[k] \in ToSet(f.blocked) /\ f.blocked[k] \in Jobs
      BY <1>5, <2>2
    <3>5. Chosen(f, g[k])
      BY <3>2, <3>3, <3>4, ExaminedChosen
    <3>6. g[k - 1].chosen \in Seq(Jobs)
      BY <3>2 DEF Chosen
    <3>7. Keeping(s, r, m, T, g[k])
      BY <3>2, <3>3, <3>4, <3>6, <1>6, ExaminedKeeping
    <3> QED BY <2>2, <3>5, <3>7
  <2> QED BY <2>3, <2>4
<1> DEFINE x == NodesOf(Late(s, r, ToSet(B)))
<1>11. m + x <= T
  <2>1. CASE f.left = 0
    <3>1. x = 0
      BY <2>1, <1>1, <1>4, <1>7, NodesEmpty
    <3> QED BY <3>1, <1>6
  <2>2. CASE f.left # 0
    <3>1. B = g[e].chosen /\ Chosen(f, g[e]) /\ Keeping(s, r, m, T, g[e])
      BY <2>2, <1>1, <1>2, <1>10
    <3>2. g[e].plan[r] \in Nat /\ g[e].plan[r] + m + x <= T
      BY <3>1 DEF Keeping
    <3>3. ToSet(B) \in SUBSET Jobs
      BY <3>1, InToSet DEF Chosen
    <3>4. x \in Nat
      <4>1. Late(s, r, ToSet(B)) \in SUBSET Jobs
        BY <3>3 DEF Late
      <4> QED BY <4>1, NodesType
    <3> DEFINE p == g[e].plan[r]
    <3>5. p \in Nat /\ p + m + x <= T
      BY <3>2
    <3> HIDE DEF x, p
    <3> QED BY <3>4, <3>5, <1>6
  <2> QED BY <2>1, <2>2
<1> QED BY <1>11 DEF B, m, T

(* Starting jobs of the queue takes their nodes up to their planned        *)
(* releases.                                                               *)
LEMMA StartedFree ==
  ASSUME job \in Workloads, changes \in Schedules, NEW p, Honest(p), NEW S \in SUBSET ToSet(p.queue),
         NEW q, q = Started(p, S)
  PROVE  /\ q.t = p.t /\ q.cap = p.cap /\ q.next = p.next
         /\ ToSet(q.queue) = ToSet(p.queue) \ S
         /\ DOMAIN q.run = DOMAIN p.run \cup S
         /\ \A j \in S : q.run[j] = PlannedRelease(p.t, job[j].limit)
         /\ \A j \in DOMAIN p.run : q.run[j] = p.run[j]
         /\ \A u \in Nat : FreeOn(q.cap, q.next, q.run, u) =
                             FreeOn(p.cap, p.next, p.run, u) - NodesOf(Late(p, u, S))
         /\ Honest(q)
<1> DEFINE D == DOMAIN p.run
           P(j) == PlannedRelease(p.t, job[j].limit)
<1>1. /\ p.queue \in Seq(Jobs) /\ p.t \in Nat /\ p.cap \in Nat /\ p.occupied \in Nat
      /\ Sorted(p.queue) /\ p.t \in 0 .. Horizon /\ p.next \in 1 .. Len(changes) + 1
      /\ D \in SUBSET Jobs /\ ToSet(p.queue) \cap D = {} /\ p.occupied = NodesOf(D)
      /\ \A j \in D : p.run[j] \in Nat /\ p.run[j] > p.t
  BY DEF Honest, Ready
<1>2. ToSet(p.queue) \in SUBSET Jobs /\ S \in SUBSET Jobs /\ S \cap D = {}
  BY <1>1, InToSet
<1>3. /\ q.t = p.t /\ q.cap = p.cap /\ q.next = p.next /\ q.occupied = p.occupied + NodesOf(S)
      /\ q.queue = Erased(p.queue, S)
      /\ q.run = [j \in D \cup S |-> IF j \in S THEN P(j) ELSE p.run[j]]
  BY TableIs DEF Started
<1> HIDE DEF P, D
<1>4. /\ DOMAIN q.run = D \cup S
      /\ \A j \in S : q.run[j] = P(j)
      /\ \A j \in D : q.run[j] = p.run[j]
  BY <1>2, <1>3
<1>5. q.queue \in Seq(Jobs) /\ ToSet(q.queue) = ToSet(p.queue) \ S /\ Sorted(q.queue)
  BY <1>1, <1>3, ErasedFacts
<1>6. \A j \in S : P(j) \in Nat /\ P(j) > p.t
  <2> SUFFICES ASSUME NEW j \in S PROVE P(j) \in Nat /\ P(j) > p.t
    OBVIOUS
  <2>1. job[j].limit \in Nat \ {0}
    BY <1>2, LimitFacts
  <2>2. P(j) \in Nat /\ P(j) >= p.t + job[j].limit
    BY <1>1, <2>1, ReleaseFacts DEF P
  <2> QED BY <1>1, <2>1, <2>2
<1>7. ASSUME NEW u \in Nat
      PROVE  FreeOn(q.cap, q.next, q.run, u) = FreeOn(p.cap, p.next, p.run, u) - NodesOf(Late(p, u, S))
  <2> DEFINE X == {j \in DOMAIN p.run : p.run[j] > u}
             Y == {j \in DOMAIN q.run : q.run[j] > u}
             L == Late(p, u, S)
             c == CapacityOn(p.cap, p.next, u)
  <2>1. X \in SUBSET Jobs /\ L \in SUBSET Jobs /\ X \cap L = {}
    BY <1>1, <1>2 DEF Late, D
  <2>2. Y = X \cup L
    BY <1>2, <1>4 DEF Late, D, P
  <2>3. c \in Nat
    BY <1>1, CapacityType
  <2>4. FreeOn(p.cap, p.next, p.run, u) = c - NodesOf(X) /\ FreeOn(q.cap, q.next, q.run, u) = c - NodesOf(Y)
    BY <1>3 DEF FreeOn
  <2> HIDE DEF X, Y, L, c
  <2>5. NodesOf(X \cup L) = NodesOf(X) + NodesOf(L) /\ NodesOf(X) \in Nat /\ NodesOf(L) \in Nat
    BY <2>1, NodesUnion, NodesType
  <2>6. c - NodesOf(Y) = (c - NodesOf(X)) - NodesOf(L)
    BY <2>2, <2>3, <2>5
  <2> QED BY <2>4, <2>6 DEF L
<1>8. Honest(q)
  <2>1. NodesOf(D \cup S) = NodesOf(D) + NodesOf(S) /\ NodesOf(D) \in Nat /\ NodesOf(S) \in Nat
    BY <1>1, <1>2, NodesUnion, NodesType
  <2>2. q.occupied = NodesOf(DOMAIN q.run) /\ q.occupied \in Nat
    BY <2>1, <1>1, <1>3, <1>4
  <2>3. DOMAIN q.run \in SUBSET Jobs /\ ToSet(q.queue) \cap DOMAIN q.run = {}
    BY <1>1, <1>2, <1>4, <1>5
  <2>4. \A j \in DOMAIN q.run : q.run[j] \in Nat /\ q.run[j] > q.t
    BY <1>1, <1>3, <1>4, <1>6
  <2> QED BY <2>2, <2>3, <2>4, <1>1, <1>3, <1>5 DEF Honest, Ready
<1> QED BY <1>3, <1>4, <1>5, <1>7, <1>8 DEF D, P

(* The first job of the queue has its nodes at some instant up to b.       *)
Reserving(p, h, b) ==
  h \in ToSet(p.queue) =>
    /\ First(ToSet(p.queue), h) /\ job[h].submit <= p.t
    /\ \E r \in p.t .. b : job[h].nodes <= FreeOn(p.cap, p.next, p.run, r)

(* Passes from s came to p: they planned the jobs they started, and they   *)
(* took no reservation that is within the planning horizon away.           *)
Holding(s, p) ==
  /\ Honest(p) /\ p.t = s.t /\ p.cap = s.cap /\ p.next = s.next
  /\ DOMAIN s.run \in SUBSET DOMAIN p.run
  /\ \A j \in DOMAIN p.run :
       p.run[j] = IF j \in DOMAIN s.run THEN s.run[j] ELSE PlannedRelease(s.t, job[j].limit)
  /\ \A h \in Jobs, b \in 0 .. Horizon :
       b - s.t <= PlanningHorizon /\ Reserving(s, h, b) => Reserving(p, h, b)

LEMMA PassReserves ==
  ASSUME job \in Workloads, changes \in Schedules, NEW p, Honest(p), NEW w,
         NEW S, S = ToSet(schedule(p, w)), NEW q, q = Started(p, S),
         NEW h \in Jobs, NEW b \in 0 .. Horizon, b - p.t <= PlanningHorizon, Reserving(p, h, b)
  PROVE  Reserving(q, h, b)
<1> SUFFICES ASSUME h \in ToSet(q.queue)
             PROVE  /\ First(ToSet(q.queue), h) /\ job[h].submit <= q.t
                    /\ \E r \in q.t .. b : job[h].nodes <= FreeOn(q.cap, q.next, q.run, r)
  BY DEF Reserving
<1> DEFINE f == HeadsFirst(p)
           B == Backfilled(p, f)
           F(r) == FreeOn(p.cap, p.next, p.run, r)
           G(r) == FreeOn(q.cap, q.next, q.run, r)
           n == job[h].nodes
<1>1. Ready(p) /\ Sorted(p.queue) /\ p.t \in Nat /\ Horizon \in Nat /\ PlanningHorizon \in Nat
  BY Constants, SchedulingAssumption DEF Honest, Ready
<1>2. S \in SUBSET ToSet(p.queue) /\ ToSet(f.heads) \in SUBSET S
  BY <1>1, ScheduleFacts DEF DueIn
<1>3. /\ q.t = p.t /\ ToSet(q.queue) = ToSet(p.queue) \ S
      /\ \A u \in Nat : G(u) = F(u) - NodesOf(Late(p, u, S))
  BY <1>2, StartedFree
<1>4. h \in ToSet(p.queue) /\ h \notin S
  BY <1>3
<1>5. /\ First(ToSet(p.queue), h) /\ job[h].submit <= p.t
      /\ \E r \in p.t .. b : n <= F(r)
  BY <1>4 DEF Reserving
<1>6. First(ToSet(q.queue), h) /\ job[h].submit <= q.t
  BY <1>3, <1>4, <1>5 DEF First
<1>7. ToSet(f.heads) = {} /\ f.blocked # << >> /\ f.blocked[1] = h
  BY <1>1, <1>2, <1>4, <1>5, HeadsOrFirst
<1>8. f.heads \in Seq(Jobs) /\ f.blocked \in Seq(Jobs) /\ f.left \in Nat
  BY <1>1, HeadsFacts
<1>9. PICK r0 \in p.t .. b : n <= F(r0)
  BY <1>5
<1>10. r0 \in Nat /\ r0 \in p.t .. Horizon /\ b \in Int
  BY <1>1
<1>11. \E r \in p.t .. b : n <= G(r)
  <2>1. schedule(p, w) = IF f.blocked = << >> \/ ~w \/ ~Backfill THEN f.heads ELSE f.heads \o B
    BY DEF schedule
  <2> HIDE DEF B, f, F, G, n
  <2>2. CASE ~w \/ ~Backfill
    <3>1. S = {}
      BY <2>1, <2>2, <1>7
    <3>2. G(r0) = F(r0) - NodesOf({})
      <4>1. Late(p, r0, S) = {}
        BY <3>1 DEF Late
      <4> QED BY <4>1, <1>3, <1>10
    <3>3. F(r0) \in Int
      BY <1>1, <1>7, <1>10, TimelineIs DEF F, f
    <3>4. G(r0) = F(r0)
      BY <3>2, <3>3, NodesEmpty
    <3> QED BY <3>4, <1>9
  <2>3. CASE ~(~w \/ ~Backfill)
    <3> DEFINE T == reservation_timeline(p, f)
               r == HeadReservation(p, f, T)
    <3>1. B = BackfillScan(p, f, T, r)
      BY DEF B, Backfilled
    <3>2. /\ r # NoFit => r \in p.t .. Horizon /\ n <= F(r) /\ T[r] = F(r)
          /\ \A u \in p.t .. Horizon : n <= F(u) => r # NoFit /\ r <= u
      BY <1>7, ReservationIs DEF f, F, n
    <3> HIDE DEF T, r
    <3>3. r # NoFit /\ r <= r0
      BY <3>2, <1>9, <1>10
    <3>4. r \in p.t .. Horizon /\ n <= F(r) /\ T[r] = F(r)
      BY <3>2, <3>3
    <3>5. r \in Nat /\ r \in p.t .. b /\ r - p.t <= PlanningHorizon
      BY <3>3, <3>4, <1>1, <1>9, <1>10
    <3>6. reservation_within_horizon(r, p.t)
      BY <3>3, <3>5 DEF reservation_within_horizon
    <3>7. F(r) \in Int
      BY <3>4, <1>7, TimelineIs DEF F, f
    <3>8. n \in Nat
      BY JobFacts DEF n
    <3>9. T[r] \in Nat
      BY <3>4, <3>7, <3>8
    <3>10. n + NodesOf(Late(p, r, ToSet(B))) <= T[r]
      BY <3>1, <3>4, <3>6, <3>9, <1>1, <1>7, <1>8, ScanKeeping DEF n
    <3>11. S = ToSet(B)
      <4>1. B \in Seq(Jobs)
        BY <3>1, <1>7, <1>8, ScanFacts
      <4>2. ToSet(f.heads \o B) = ToSet(f.heads) \cup ToSet(B)
        BY <4>1, <1>8, ConcatFacts
      <4> QED BY <4>2, <2>1, <2>3, <1>7
    <3>12. Late(p, r, S) \in SUBSET Jobs
      BY <1>2, <1>1, InToSet DEF Late, Ready
    <3>13. NodesOf(Late(p, r, S)) \in Nat
      BY <3>12, NodesType
    <3>14. n <= G(r)
      BY <3>4, <3>5, <3>7, <3>8, <3>10, <3>11, <3>13, <1>3
    <3> QED BY <3>5, <3>14
  <2> QED BY <2>2, <2>3
<1> QED BY <1>3, <1>6, <1>11 DEF G, n

LEMMA PassHolds ==
  ASSUME job \in Workloads, changes \in Schedules, NEW s, NEW p, Holding(s, p), NEW tick, NEW k
  PROVE  Holding(s, PassAfter(p, tick, k))
<1> DEFINE w == BackfillInterval = 0 \/ (tick /\ k = 1)
           S == ToSet(schedule(p, w))
           q == Started(p, S)
<1>1. CASE PassAfter(p, tick, k) = p
  BY <1>1
<1>2. CASE PassAfter(p, tick, k) # p
  <2>1. PassAfter(p, tick, k) = q
    BY <1>2 DEF PassAfter
  <2>2. /\ Honest(p) /\ p.t = s.t /\ p.cap = s.cap /\ p.next = s.next
        /\ DOMAIN s.run \in SUBSET DOMAIN p.run
        /\ \A j \in DOMAIN p.run :
             p.run[j] = IF j \in DOMAIN s.run THEN s.run[j] ELSE PlannedRelease(s.t, job[j].limit)
        /\ \A h \in Jobs, b \in 0 .. Horizon :
             b - s.t <= PlanningHorizon /\ Reserving(s, h, b) => Reserving(p, h, b)
    BY DEF Holding
  <2>3. S \in SUBSET ToSet(p.queue) /\ S \cap DOMAIN p.run = {}
    <3>1. Ready(p) /\ ToSet(p.queue) \cap DOMAIN p.run = {}
      BY <2>2 DEF Honest
    <3> HIDE DEF w
    <3> QED BY <3>1, ScheduleFacts DEF DueIn
  <2>4. /\ q.t = p.t /\ q.cap = p.cap /\ q.next = p.next
        /\ DOMAIN q.run = DOMAIN p.run \cup S
        /\ \A j \in S : q.run[j] = PlannedRelease(p.t, job[j].limit)
        /\ \A j \in DOMAIN p.run : q.run[j] = p.run[j]
        /\ Honest(q)
    <3> HIDE DEF S
    <3> QED BY <2>2, <2>3, StartedFree
  <2>5. \A h \in Jobs, b \in 0 .. Horizon :
          b - p.t <= PlanningHorizon /\ Reserving(p, h, b) => Reserving(q, h, b)
    <3> HIDE DEF w
    <3> QED BY <2>2, PassReserves
  <2> HIDE DEF q, S
  <2>6. \A h \in Jobs, b \in 0 .. Horizon :
          b - s.t <= PlanningHorizon /\ Reserving(s, h, b) => Reserving(q, h, b)
    BY <2>2, <2>5
  <2>7. \A j \in DOMAIN q.run :
          q.run[j] = IF j \in DOMAIN s.run THEN s.run[j] ELSE PlannedRelease(s.t, job[j].limit)
    BY <2>2, <2>3, <2>4
  <2>8. DOMAIN s.run \in SUBSET DOMAIN q.run
    BY <2>2, <2>4
  <2> QED BY <2>1, <2>2, <2>4, <2>6, <2>7, <2>8 DEF Holding
<1> QED BY <1>1, <1>2

LEMMA HoldingSelf ==
  ASSUME NEW s, Honest(s)
  PROVE  Holding(s, s)
  BY DEF Holding

(* The passes of one instant keep the reservations within the planning     *)
(* horizon.                                                                *)
LEMMA ScheduledHolds ==
  ASSUME job \in Workloads, changes \in Schedules, NEW s, Honest(s), NEW tick
  PROVE  Holding(s, Scheduled(s, tick))
<1>1. PICK g : IsPass(s, tick, g) /\ Scheduled(s, tick) = g[NumJobs]
  BY PassIs
<1>2. \A k \in 0 .. NumJobs : g[k] = PassStep(s, tick, g, k)
  <2> DEFINE h == [k \in 0 .. NumJobs |-> PassStep(s, tick, g, k)]
  <2>1. \A k \in 0 .. NumJobs : h[k] = PassStep(s, tick, g, k)
    OBVIOUS
  <2>2. g = h
    BY <1>1 DEF IsPass
  <2> HIDE DEF h
  <2> QED BY <2>1, <2>2
<1>3. NumJobs \in Nat
  BY Constants
<1>4. ASSUME NEW i \in 0 .. NumJobs, ~Holding(s, g[i]) PROVE FALSE
  <2> DEFINE T == {k \in 0 .. NumJobs : ~Holding(s, g[k])}
  <2>1. PICK m \in T : \A k \in T : m <= k
    <3>1. T \subseteq Nat /\ i \in T
      BY <1>4, <1>3
    <3> HIDE DEF T
    <3> QED BY <3>1, LeastExists
  <2>2. m \in 0 .. NumJobs /\ ~Holding(s, g[m])
    BY <2>1
  <2>3. CASE m = 0
    <3>1. g[m] = s
      BY <1>2, <2>2, <2>3 DEF PassStep
    <3> QED BY <3>1, <2>2, HoldingSelf
  <2>4. CASE m # 0
    <3>1. m - 1 \in 0 .. NumJobs /\ m - 1 \notin T
      <4>1. m - 1 \in 0 .. NumJobs /\ m - 1 < m
        BY <2>2, <2>4, <1>3
      <4>2. m - 1 \in T => m <= m - 1
        <5> HIDE DEF T
        <5> QED BY <2>1
      <4> QED BY <4>1, <4>2
    <3>2. Holding(s, g[m - 1])
      BY <3>1
    <3>3. g[m] = PassAfter(g[m - 1], tick, m)
      BY <1>2, <2>2, <2>4 DEF PassStep
    <3> HIDE DEF T
    <3> QED BY <2>2, <3>2, <3>3, PassHolds
  <2> QED BY <2>3, <2>4
<1>5. Holding(s, g[NumJobs])
  BY <1>3, <1>4
<1> QED BY <1>1, <1>5

(* When the first job is blocked, a pass starts no head, and the job it    *)
(* plans a reservation for is the first of the queue.                      *)
LEMMA HeadsWait ==
  ASSUME job \in Workloads, NEW s, Ready(s), Sorted(s.queue),
         Blocked(ToSet(s.queue), s.t, s.occupied, s.cap),
         NEW f, f = HeadsFirst(s), f.blocked # << >>
  PROVE  /\ ToSet(f.heads) = {} /\ First(ToSet(s.queue), f.blocked[1])
         /\ job[f.blocked[1]].submit <= s.t /\ f.blocked[1] \in Jobs
<1> DEFINE h == s.queue[1]
           e == EligibleEnd(s)
<1>1. s.queue \in Seq(Jobs) /\ s.t \in Nat /\ s.cap \in Nat /\ s.occupied \in Nat
  BY DEF Ready
<1>2. e \in 0 .. Len(s.queue) /\ \A i \in 1 .. e : job[s.queue[i]].submit <= s.t
  BY EligibleFacts
<1>3. e # 0
  <2> SUFFICES ASSUME e = 0 PROVE FALSE
    OBVIOUS
  <2> DEFINE q == SubSeq(s.queue, 1, e)
             first(k) == NodesOf({q[i] : i \in 1 .. k})
             c == Max({k \in 0 .. Len(q) : first(k) <= get_available_nodes(s)})
  <2>1. f.heads = SubSeq(q, 1, c) /\ f.blocked = SubSeq(q, c + 1, Len(q))
    BY DEF HeadsFirst
  <2>2. q = << >> /\ Len(q) = 0
    <3> HIDE DEF e
    <3> QED BY <1>1
  <2>3. c = 0
    <3> DEFINE T == {k \in 0 .. Len(q) : first(k) <= get_available_nodes(s)}
    <3>1. {q[i] : i \in 1 .. 0} = {}
      OBVIOUS
    <3>2. first(0) = 0
      BY <3>1, NodesEmpty
    <3>3. get_available_nodes(s) \in Nat
      BY AvailableType
    <3> HIDE DEF q
    <3>4. 0 \in T /\ T \subseteq 0 .. 0
      <4> HIDE DEF first
      <4> QED BY <2>2, <3>2, <3>3
    <3> HIDE DEF T
    <3>5. Max(T) \in T
      <4>1. 0 \in Nat /\ T # {}
        BY <3>4
      <4> QED BY <3>4, <4>1, MaxIs
    <3>6. Max(T) \in 0 .. 0
      BY <3>4, <3>5
    <3>7. Max(T) = 0
      <4> DEFINE x == Max(T)
      <4> HIDE DEF x
      <4>1. x \in 0 .. 0 => x = 0
        OBVIOUS
      <4> QED BY <4>1, <3>6 DEF x
    <3> QED BY <3>7 DEF T
  <2> HIDE DEF q, c
  <2>4. f.blocked = << >>
    BY <2>1, <2>2, <2>3
  <2> QED BY <2>4
<1>4. Len(s.queue) \in Nat /\ 1 \in 1 .. Len(s.queue) /\ 1 \in 1 .. e
  BY <1>1, <1>2, <1>3
<1>5. job[h].submit <= s.t /\ h \in Jobs
  BY <1>1, <1>2, <1>4
<1>6. First(ToSet(s.queue), h)
  <2>1. ASSUME NEW i \in 1 .. Len(s.queue) PROVE h <= s.queue[i]
    <3>1. s.queue[i] \in Jobs /\ h \in Jobs
      BY <1>1, <1>5
    <3>2. s.queue[i] \in Int /\ h \in Int
      BY <3>1 DEF Jobs
    <3>3. 1 < i => h < s.queue[i]
      BY <1>4 DEF Sorted
    <3> QED BY <3>2, <3>3, <1>4
  <2> QED BY <2>1, <1>1, <1>4, InToSet DEF First
<1> HIDE DEF h
<1>7. h \notin ToSet(f.heads)
  <2> SUFFICES ASSUME h \in ToSet(f.heads) PROVE FALSE
    OBVIOUS
  <2> DEFINE A == ToSet(f.heads)
             v == get_available_nodes(s)
  <2>1. f.heads \in Seq(Jobs) /\ f.left \in Nat /\ NodesOf(A) + f.left = v
    BY HeadsFacts
  <2>2. A \in SUBSET Jobs /\ {h} \in SUBSET A
    BY <2>1, InToSet
  <2> HIDE DEF A
  <2>3. NodesOf({h}) <= NodesOf(A) /\ NodesOf({h}) = job[h].nodes /\ NodesOf(A) \in Nat
    BY <2>2, <1>5, NodesMinus, NodesSingle, NodesType
  <2>4. job[h].nodes \in Nat \ {0} /\ v \in Nat
    BY <1>5, JobFacts, AvailableType
  <2>5. job[h].nodes <= v
    <3> HIDE DEF v
    <3> QED BY <2>1, <2>3, <2>4
  <2>6. job[h].nodes + s.occupied <= s.cap
    BY <2>4, <2>5, <1>1 DEF get_available_nodes
  <2>7. job[h].nodes + s.occupied > s.cap
    BY <1>5, <1>6 DEF Blocked, First
  <2> DEFINE x == job[h].nodes + s.occupied
             y == s.cap
  <2>8. x \in Nat /\ y \in Nat
    BY <2>4, <1>1
  <2>9. x <= y /\ x > y
    BY <2>6, <2>7
  <2> HIDE DEF x, y
  <2> QED BY <2>8, <2>9
<1>8. ToSet(f.heads) = {} /\ f.blocked[1] = h
  <2>1. job \in Workloads /\ Ready(s) /\ Sorted(s.queue) /\ f = HeadsFirst(s)
    OBVIOUS
  <2> QED BY ONLY <2>1, <1>5, <1>6, <1>7, HeadsOrFirst
<1> QED BY <1>5, <1>6, <1>8

(* The inductive invariant: the planned release of a running job is not    *)
(* before its end, and a job that was promised a reservation started by it *)
(* or is the first of the queue, with its nodes free at some instant       *)
(* between now and it.                                                     *)
PromiseInv ==
  Undelayed /\ WithinLimits =>
    /\ promise \in [Jobs -> {NoFit} \cup Time]
    /\ \A j \in DOMAIN running : running[j] \in Nat /\ running[j] >= start[j] + job[j].run
    /\ \A h \in Jobs : promise[h] # NoFit =>
         \/ start[h] # Infinity /\ start[h] <= promise[h]
         \/ /\ First(ToSet(waiting), h) /\ job[h].submit <= now
            /\ promise[h] - now <= PlanningHorizon
            /\ \E r \in now .. promise[h] :
                 job[h].nodes <= FreeOn(capacity, nextChange, running, r)

LEMMA PromiseNext ==
  ASSUME UNCHANGED <<job, changes>>,
         Undelayed /\ WithinLimits =>
           /\ promise' \in [Jobs -> {NoFit} \cup Time]
           /\ \A j \in DOMAIN running' : running'[j] \in Nat /\ running'[j] >= start'[j] + job[j].run
           /\ \A h \in Jobs : promise'[h] # NoFit =>
                \/ start'[h] # Infinity /\ start'[h] <= promise'[h]
                \/ /\ First(ToSet(waiting'), h) /\ job[h].submit <= now'
                   /\ promise'[h] - now' <= PlanningHorizon
                   /\ \E r \in now' .. promise'[h] :
                        job[h].nodes <= FreeOn(capacity', nextChange', running', r)
  PROVE  PromiseInv'
<1>1. ASSUME NEW r PROVE FreeOn(capacity, nextChange, running, r)' = FreeOn(capacity', nextChange', running', r)
  BY DEF FreeOn, CapacityOn, NodesOf
<1>2. (Undelayed /\ WithinLimits)' <=> Undelayed /\ WithinLimits
  BY DEF Undelayed, WithinLimits
<1> QED BY <1>1, <1>2 DEF PromiseInv, First, Infinity

(* A running job's planned release is after the clock: its END is pending. *)
LEMMA ReleasesAhead ==
  ASSUME job \in Workloads, Undelayed, NEW t \in Nat, NEW st, NEW evs, NEW run, NEW used, NEW rel,
         Books(t, st, evs, run, used, rel),
         \A j \in DOMAIN run : run[j] \in Nat /\ run[j] >= st[j] + job[j].run
  PROVE  /\ DOMAIN run \in SUBSET Jobs /\ used + rel = NodesOf(DOMAIN run)
         /\ \A j \in DOMAIN run : run[j] > t
         /\ \A j \in DOMAIN run : \E e \in evs : e.t \in Nat /\ run[j] >= e.t
<1> DEFINE E == Ending(evs)
           H == Held(evs)
<1>1. /\ st \in [Jobs -> 0 .. Infinity]
      /\ \A e \in evs : Owed(st, e) /\ e.t > t
      /\ DOMAIN run = E \cup H /\ E \cap H = {} /\ used = NodesOf(E) /\ rel = NodesOf(H)
  BY DEF Books
<1>2. E \in SUBSET Jobs /\ H \in SUBSET Jobs
  BY DEF Ending, Held
<1>3. \A j \in E \cup H : \E e \in evs : e.job = j
  BY DEF Ending, Held
<1> HIDE DEF E, H
<1>4. NodesOf(E \cup H) = NodesOf(E) + NodesOf(H)
  BY <1>1, <1>2, NodesUnion
<1>5. ASSUME NEW j \in DOMAIN run PROVE run[j] > t /\ \E e \in evs : e.t \in Nat /\ run[j] >= e.t
  <2>1. PICK e \in evs : e.job = j
    BY <1>1, <1>3
  <2>2. j \in Jobs
    BY <1>1, <1>2
  <2>3. st[j] \in Nat /\ job[j].run \in Nat /\ job[j].delay = 0
    BY <2>2, <1>1, JobFacts, Constants DEF Undelayed
  <2>4. e.t = st[j] + job[j].run
    <3>1. e.t = st[j] + job[j].run \/ e.t = st[j] + job[j].run + job[j].delay
      BY <2>1, <1>1 DEF Owed, Over
    <3> QED BY <3>1, <2>3
  <2>5. e.t > t
    BY <1>1
  <2>6. run[j] \in Nat /\ run[j] >= st[j] + job[j].run
    OBVIOUS
  <2>7. e.t \in Nat /\ run[j] >= e.t /\ run[j] > t
    BY <2>3, <2>4, <2>5, <2>6
  <2> QED BY <2>7
<1> QED BY <1>1, <1>2, <1>4, <1>5

(* Time passes over a reservation: before the next event and the next      *)
(* capacity change no nodes become free, and the blocked head needs more   *)
(* than are free now.                                                      *)
LEMMA TimePasses ==
  ASSUME LoopInv, Undelayed,
         \A j \in DOMAIN running : running[j] \in Nat /\ running[j] >= start[j] + job[j].run,
         NEW t \in Nat, now <= t, t = now \/ Blocked(ToSet(waiting), now, inUse + releasing, capacity),
         t <= NextCapacity, \A e \in evtq : t <= e.t,
         NEW h \in Jobs, First(ToSet(waiting), h), job[h].submit <= now,
         NEW b \in Int, NEW r \in now .. b, job[h].nodes <= FreeOn(capacity, nextChange, running, r)
  PROVE  r \in t .. b
<1>1. /\ job \in Workloads /\ changes \in Schedules /\ nextChange \in 1 .. Len(changes) + 1
      /\ capacity \in Nat /\ now \in Nat /\ Books(now, start, evtq, running, inUse, releasing)
  BY Constants DEF LoopInv, CapacityInv, ClockInv
<1>2. \A e \in evtq : e.t \in Nat /\ e.t >= t
  BY InstantFacts
<1>3. /\ DOMAIN running \in SUBSET Jobs /\ inUse + releasing = NodesOf(DOMAIN running)
      /\ \A j \in DOMAIN running : running[j] > now /\ running[j] >= t
  <2>1. /\ DOMAIN running \in SUBSET Jobs /\ inUse + releasing = NodesOf(DOMAIN running)
        /\ \A j \in DOMAIN running : running[j] > now
        /\ \A j \in DOMAIN running : \E e \in evtq : e.t \in Nat /\ running[j] >= e.t
    BY <1>1, ReleasesAhead
  <2>2. ASSUME NEW j \in DOMAIN running PROVE running[j] >= t
    <3>1. PICK e \in evtq : e.t \in Nat /\ running[j] >= e.t
      BY <2>1
    <3>2. running[j] \in Nat /\ e.t >= t
      BY <1>2
    <3> QED BY <3>1, <3>2
  <2> QED BY <2>1, <2>2
<1>4. r \in Nat /\ r \in Int /\ now <= r /\ r <= b
  BY <1>1
<1> SUFFICES ASSUME r < t PROVE FALSE
  BY <1>4
<1>5. {j \in DOMAIN running : running[j] > r} = DOMAIN running
  <2>1. \A j \in DOMAIN running : running[j] > r
    BY <1>3, <1>4
  <2> QED BY <2>1
<1>6. CapacityOn(capacity, nextChange, r) = capacity
  <2> DEFINE due == {i \in nextChange .. Len(changes) : changes[i].time <= r}
  <2>1. /\ Len(changes) \in Nat
        /\ \A i \in 1 .. Len(changes) : changes[i].time \in 0 .. Horizon
        /\ \A i, k \in 1 .. Len(changes) : i < k => changes[i].time < changes[k].time
    BY <1>1, ScheduleShape
  <2>2. ASSUME NEW i \in nextChange .. Len(changes) PROVE ~(changes[i].time <= r)
    <3>1. i \in 1 .. Len(changes) /\ nextChange \in 1 .. Len(changes) /\ nextChange <= i /\ i \in Int
      BY <1>1, <2>1
    <3>2. changes[i].time \in Nat /\ changes[nextChange].time \in Nat
      BY <3>1, <2>1, Constants
    <3>3. nextChange < i => changes[nextChange].time < changes[i].time
      BY <3>1, <2>1
    <3>4. t <= changes[nextChange].time
      BY <3>1 DEF NextCapacity
    <3>5. changes[nextChange].time <= changes[i].time
      <4>1. nextChange = i \/ nextChange < i
        BY <3>1
      <4> QED BY <4>1, <3>2, <3>3
    <3> QED BY <3>2, <3>4, <3>5, <1>4
  <2>3. due = {}
    BY <2>2
  <2> QED BY <2>3 DEF CapacityOn
<1>7. FreeOn(capacity, nextChange, running, r) = capacity - NodesOf(DOMAIN running)
  BY <1>5, <1>6 DEF FreeOn
<1>8. job[h].nodes + NodesOf(DOMAIN running) > capacity
  <2>1. t # now
    BY <1>1, <1>4
  <2> QED BY <2>1, <1>3 DEF Blocked, First
<1>9. job[h].nodes \in Nat /\ NodesOf(DOMAIN running) \in Nat
  BY <1>1, <1>3, JobFacts, NodesType
<1> QED BY <1>1, <1>7, <1>8, <1>9

(* Jobs that leave the running map only free nodes. *)
LEMMA FreeGrows ==
  ASSUME job \in Workloads, changes \in Schedules, NEW r \in Nat,
         NEW cap \in Nat, NEW next \in 1 .. Len(changes) + 1, NEW cap2, NEW next2,
         CapacityOn(cap2, next2, r) = CapacityOn(cap, next, r),
         NEW run, NEW run2, DOMAIN run \in SUBSET Jobs, DOMAIN run2 \in SUBSET DOMAIN run,
         \A j \in DOMAIN run2 : run2[j] = run[j]
  PROVE  /\ FreeOn(cap, next, run, r) \in Int /\ FreeOn(cap2, next2, run2, r) \in Int
         /\ FreeOn(cap, next, run, r) <= FreeOn(cap2, next2, run2, r)
<1> DEFINE X == {j \in DOMAIN run : run[j] > r}
           Y == {j \in DOMAIN run2 : run2[j] > r}
           c == CapacityOn(cap, next, r)
<1>1. X \in SUBSET Jobs /\ Y \in SUBSET X
  OBVIOUS
<1>2. c \in Nat
  BY CapacityType
<1>3. FreeOn(cap, next, run, r) = c - NodesOf(X) /\ FreeOn(cap2, next2, run2, r) = c - NodesOf(Y)
  BY DEF FreeOn
<1> HIDE DEF X, Y, c
<1>4. NodesOf(Y) <= NodesOf(X) /\ NodesOf(X) \in Nat /\ NodesOf(Y) \in Nat
  <2>1. Y \in SUBSET Jobs
    BY <1>1
  <2> QED BY <1>1, <2>1, NodesMinus, NodesType
<1> QED BY <1>2, <1>3, <1>4

(* The passes of an instant keep the promises and make one to the job they *)
(* leave blocked.                                                          *)
LEMMA DispatchPromises ==
  ASSUME LoopInv, Sorted(waiting), UNCHANGED caller,
         NEW t \in 0 .. Horizon, now' = t, capacity' \in Nat, nextChange' \in 1 .. Len(changes) + 1,
         NEW evs, NEW used, NEW run, Books(t, start, evs, run, used, releasing'),
         NEW s, s = State(t, capacity', nextChange', used + releasing', waiting, run),
         NEW then, then = s \/ \E tick : then = Scheduled(s, tick),
         Dispatch(s, then, evs, used),
         Blocked(ToSet(waiting'), t, inUse' + releasing', capacity'),
         Undelayed /\ WithinLimits =>
           /\ promise \in [Jobs -> {NoFit} \cup Time]
           /\ \A j \in DOMAIN run : run[j] \in Nat /\ run[j] >= start[j] + job[j].run
           /\ \A h \in Jobs : promise[h] # NoFit =>
                \/ start[h] # Infinity /\ start[h] <= promise[h]
                \/ /\ First(ToSet(waiting), h) /\ job[h].submit <= t
                   /\ promise[h] - t <= PlanningHorizon
                   /\ \E r \in t .. promise[h] : job[h].nodes <= FreeOn(capacity', nextChange', run, r)
  PROVE  PromiseInv'
<1>1. /\ job \in Workloads /\ changes \in Schedules /\ waiting \in Seq(Jobs)
      /\ \A j \in ToSet(waiting) : start[j] = Infinity
      /\ start \in [Jobs -> 0 .. Infinity] /\ Horizon \in Nat /\ t \in Nat
  BY Constants DEF LoopInv, CapacityInv, QueueInv, Books
<1>2. job' = job /\ changes' = changes
  BY DEF caller
<1> SUFFICES ASSUME Undelayed, WithinLimits
             PROVE  /\ promise' \in [Jobs -> {NoFit} \cup Time]
                    /\ \A j \in DOMAIN running' :
                         running'[j] \in Nat /\ running'[j] >= start'[j] + job[j].run
                    /\ \A h \in Jobs : promise'[h] # NoFit =>
                         \/ start'[h] # Infinity /\ start'[h] <= promise'[h]
                         \/ /\ First(ToSet(waiting'), h) /\ job[h].submit <= t
                            /\ promise'[h] - t <= PlanningHorizon
                            /\ \E r \in t .. promise'[h] :
                                 job[h].nodes <= FreeOn(capacity', nextChange', running', r)
  BY <1>2, PromiseNext
<1>3. /\ s.t = t /\ s.cap = capacity' /\ s.next = nextChange' /\ s.occupied = used + releasing'
      /\ s.queue = waiting /\ s.run = run
  BY DEF State
<1>4. /\ promise \in [Jobs -> {NoFit} \cup Time]
      /\ \A j \in DOMAIN run : run[j] \in Nat /\ run[j] >= start[j] + job[j].run
  OBVIOUS
<1>5. Fresh(s) /\ used \in Nat /\ releasing' \in Nat /\ \A j \in DOMAIN run : start[j] # Infinity
  <2>1. /\ t \in 0 .. Horizon /\ capacity' \in Nat /\ Books(t, start, evs, run, used, releasing')
        /\ s = State(t, capacity', nextChange', used + releasing', waiting, run)
    OBVIOUS
  <2> QED BY ONLY <1>1, <2>1, FreshState
<1>6. /\ DOMAIN run \in SUBSET Jobs /\ used + releasing' = NodesOf(DOMAIN run)
      /\ \A j \in DOMAIN run : run[j] > t
  <2>1. /\ Undelayed /\ Books(t, start, evs, run, used, releasing')
        /\ \A j \in DOMAIN run : run[j] \in Nat /\ run[j] >= start[j] + job[j].run
    BY <1>4
  <2>2. job \in Workloads /\ t \in Nat
    BY <1>1
  <2> QED BY ONLY <2>1, <2>2, ReleasesAhead
<1>7. Honest(s)
  BY <1>3, <1>4, <1>5, <1>6 DEF Honest, Fresh
<1>8. Holding(s, then)
  BY <1>1, <1>7, HoldingSelf, ScheduledHolds
<1>9. Passed(s, then)
  BY <1>1, <1>5, PassedSelf, ScheduledFacts
<1> DEFINE S == DOMAIN then.run \ DOMAIN s.run
<1>10. /\ waiting' = then.queue /\ running' = then.run /\ inUse' = used + NodesOf(S)
       /\ start' = [j \in Jobs |-> IF j \in S THEN t ELSE start[j]]
       /\ promise' = Promised(then)
  BY <1>3 DEF Dispatch
<1>11. /\ Honest(then) /\ then.t = t /\ then.cap = capacity' /\ then.next = nextChange'
       /\ DOMAIN run \in SUBSET DOMAIN then.run
       /\ \A j \in DOMAIN then.run :
            then.run[j] = IF j \in DOMAIN run THEN run[j] ELSE PlannedRelease(t, job[j].limit)
       /\ \A h \in Jobs, b \in 0 .. Horizon :
            b - t <= PlanningHorizon /\ Reserving(s, h, b) => Reserving(then, h, b)
  BY <1>3, <1>8 DEF Holding
<1>12. /\ ToSet(then.queue) = ToSet(waiting) \ S /\ S \in SUBSET ToSet(waiting)
       /\ then.occupied = (used + releasing') + NodesOf(S)
  BY <1>3, <1>9 DEF Passed, Begun, DueIn
<1>13. S \in SUBSET Jobs /\ ToSet(waiting) \in SUBSET Jobs
  BY <1>1, <1>12, InToSet
<1>14. S = DOMAIN then.run \ DOMAIN run
  BY <1>3
<1> HIDE DEF S
<1>15. ASSUME NEW j \in DOMAIN running'
       PROVE  running'[j] \in Nat /\ running'[j] >= start'[j] + job[j].run
  <2>1. j \in DOMAIN then.run /\ running'[j] = then.run[j]
    BY <1>10
  <2>2. CASE j \in DOMAIN run
    <3>1. start'[j] = start[j] /\ then.run[j] = run[j]
      BY <2>1, <2>2, <1>6, <1>10, <1>11, <1>14
    <3> QED BY <3>1, <2>1, <2>2, <1>4
  <2>3. CASE j \notin DOMAIN run
    <3>1. j \in S /\ j \in Jobs
      BY <2>1, <2>3, <1>13, <1>14
    <3>2. start'[j] = t /\ then.run[j] = PlannedRelease(t, job[j].limit)
      BY <3>1, <2>1, <2>3, <1>10, <1>11
    <3>3. job[j].limit \in Nat \ {0} /\ job[j].run \in Nat /\ job[j].run <= job[j].limit
      BY <3>1, <1>1, LimitFacts, JobFacts DEF WithinLimits
    <3>4. PlannedRelease(t, job[j].limit) \in Nat /\ PlannedRelease(t, job[j].limit) >= t + job[j].limit
      BY <3>3, <1>1, ReleaseFacts
    <3> QED BY <3>2, <3>3, <3>4, <2>1, <1>1
  <2> QED BY <2>2, <2>3
<1>16. ASSUME NEW h \in Jobs, promise[h] # NoFit
       PROVE  \/ start'[h] # Infinity /\ start'[h] <= promise[h]
              \/ /\ First(ToSet(waiting'), h) /\ job[h].submit <= t
                 /\ promise[h] - t <= PlanningHorizon
                 /\ \E r \in t .. promise[h] :
                      job[h].nodes <= FreeOn(capacity', nextChange', running', r)
  <2>1. promise[h] \in 0 .. Horizon
    BY <1>4, <1>16 DEF Time
  <2>2. CASE start[h] # Infinity /\ start[h] <= promise[h]
    <3>1. h \notin S
      BY <2>2, <1>1, <1>12
    <3> QED BY <3>1, <2>2, <1>10
  <2>3. CASE /\ First(ToSet(waiting), h) /\ job[h].submit <= t
             /\ promise[h] - t <= PlanningHorizon
             /\ \E r \in t .. promise[h] : job[h].nodes <= FreeOn(capacity', nextChange', run, r)
    <3>1. Reserving(s, h, promise[h])
      BY <2>3, <1>3 DEF Reserving
    <3>2. Reserving(then, h, promise[h])
      BY <3>1, <2>1, <2>3, <1>11
    <3>3. CASE h \in ToSet(then.queue)
      BY <3>2, <3>3, <2>3, <1>10, <1>11 DEF Reserving
    <3>4. CASE h \notin ToSet(then.queue)
      <4>1. h \in S
        BY <3>4, <2>3, <1>12 DEF First
      <4>2. t <= promise[h]
        BY <2>1, <2>3, <1>1
      <4> QED BY <4>1, <4>2, <1>1, <1>10, Constants
    <3> QED BY <3>3, <3>4
  <2> QED BY <2>2, <2>3, <1>16
<1> DEFINE f == HeadsFirst(then)
           g == f.blocked[1]
           r == HeadReservation(then, f, reservation_timeline(then, f))
<1>17. CASE promise' = promise
  BY <1>4, <1>15, <1>16, <1>17
<1>18. CASE promise' # promise
  <2>1. /\ f.blocked # << >> /\ reservation_within_horizon(r, t)
        /\ promise' = [promise EXCEPT ![g] = r]
    BY <1>10, <1>11, <1>18 DEF Promised
  <2> HIDE DEF r, g, f
  <2>2. Ready(then) /\ Sorted(then.queue)
    BY <1>11 DEF Honest
  <2>3. Blocked(ToSet(then.queue), then.t, then.occupied, then.cap)
    <3> DEFINE n == NodesOf(S)
    <3>1. n \in Nat
      BY <1>1, <1>13, NodesType
    <3>2. inUse' + releasing' = then.occupied
      <4> HIDE DEF n
      <4>1. inUse' = used + n /\ then.occupied = (used + releasing') + n
        BY <1>10, <1>12 DEF n
      <4> QED BY <4>1, <3>1, <1>5
    <3>3. then.queue = waiting'
      BY <1>10
    <3> QED BY <3>2, <3>3, <1>11
  <2>4. /\ ToSet(f.heads) = {} /\ First(ToSet(then.queue), g) /\ job[g].submit <= t /\ g \in Jobs
    BY <2>1, <2>2, <2>3, <1>1, <1>11, HeadsWait DEF f, g
  <2>5. r # NoFit /\ r - t <= PlanningHorizon
    BY <2>1 DEF reservation_within_horizon
  <2>6. r \in t .. Horizon /\ job[g].nodes <= FreeOn(capacity', nextChange', running', r)
    BY <2>1, <2>4, <2>5, <1>1, <1>10, <1>11, ReservationIs DEF f, g, r
  <2>7. r \in Time /\ r \in t .. r
    BY <2>6, <1>1 DEF Time
  <2>8. promise' \in [Jobs -> {NoFit} \cup Time] /\ promise'[g] = r
        /\ \A h \in Jobs : h # g => promise'[h] = promise[h]
    BY <2>1, <2>4, <2>7, <1>4
  <2>9. ASSUME NEW h \in Jobs, promise'[h] # NoFit
        PROVE  \/ start'[h] # Infinity /\ start'[h] <= promise'[h]
               \/ /\ First(ToSet(waiting'), h) /\ job[h].submit <= t
                  /\ promise'[h] - t <= PlanningHorizon
                  /\ \E u \in t .. promise'[h] :
                       job[h].nodes <= FreeOn(capacity', nextChange', running', u)
    <3>1. CASE h = g
      BY <3>1, <2>4, <2>5, <2>6, <2>7, <2>8, <1>10
    <3>2. CASE h # g
      BY <3>2, <2>8, <2>9, <1>16
    <3> QED BY <3>1, <3>2
  <2> QED BY <2>8, <2>9, <1>15
<1> QED BY <1>17, <1>18

LEMMA InitPromises == Init => PromiseInv
<1> SUFFICES ASSUME Init PROVE PromiseInv
  OBVIOUS
<1>1. promise \in [Jobs -> {NoFit}] /\ \A h \in Jobs : promise[h] = NoFit
  BY DEF Init
<1>2. DOMAIN running = {}
  BY DEF Init
<1> QED BY <1>1, <1>2 DEF PromiseInv

LEMMA IteratePromises ==
  ASSUME LoopInv, WorkInv, WorkInv', PromiseInv, looping,
         NEW t, NEW evs, NEW used, NEW run, NEW should, NEW isTick,
         Iteration(t, evs, used, run, should, isTick)
  PROVE  PromiseInv'
<1> DEFINE s == State(t, capacity', nextChange', used + releasing', waiting, run)
<1>1. /\ t \in 0 .. Horizon /\ now <= t /\ Books(t, start, evs, run, used, releasing')
      /\ nextChange' \in 1 .. Len(changes) + 1 /\ capacity' \in Nat
      /\ \A u \in t .. Horizon :
           CapacityOn(capacity', nextChange', u) = CapacityOn(capacity, nextChange, u)
      /\ t <= NextCapacity /\ \A e \in evtq : t <= e.t
      /\ DOMAIN run \in SUBSET DOMAIN running /\ \A j \in DOMAIN run : run[j] = running[j]
      /\ Iterate(t, evs, used, run, should, isTick)
  BY DEF Iteration
<1>2. /\ now' = t /\ UNCHANGED caller /\ looping' = looping
      /\ Settle(t, evs, used, run, should, isTick)
  BY <1>1 DEF Iterate
<1>3. PICK then : /\ then = s \/ \E tick : then = Scheduled(s, tick)
                  /\ Dispatch(s, then, evs, used)
  BY <1>2 DEF Settle
<1> HIDE DEF s
<1>4. job' = job
  BY <1>2 DEF caller
<1>5. /\ Sorted(waiting) /\ Blocked(ToSet(waiting), now, inUse + releasing, capacity)
      /\ Blocked(ToSet(waiting'), t, inUse' + releasing', capacity')
  BY <1>2, <1>4 DEF WorkInv, OrderInv, HeadInv, Blocked
<1>6. /\ job \in Workloads /\ changes \in Schedules /\ nextChange \in 1 .. Len(changes) + 1
      /\ capacity \in Nat /\ now \in Nat /\ t \in Nat /\ Horizon \in Nat /\ PlanningHorizon \in Nat
      /\ Books(now, start, evtq, running, inUse, releasing)
  BY <1>1, Constants, SchedulingAssumption DEF LoopInv, CapacityInv, ClockInv
<1>7. DOMAIN running \in SUBSET Jobs
  BY <1>6 DEF Books, Ending, Held
<1>8. ASSUME Undelayed, WithinLimits
      PROVE  /\ promise \in [Jobs -> {NoFit} \cup Time]
             /\ \A j \in DOMAIN run : run[j] \in Nat /\ run[j] >= start[j] + job[j].run
             /\ \A h \in Jobs : promise[h] # NoFit =>
                  \/ start[h] # Infinity /\ start[h] <= promise[h]
                  \/ /\ First(ToSet(waiting), h) /\ job[h].submit <= t
                     /\ promise[h] - t <= PlanningHorizon
                     /\ \E r \in t .. promise[h] :
                          job[h].nodes <= FreeOn(capacity', nextChange', run, r)
  <2>1. /\ promise \in [Jobs -> {NoFit} \cup Time]
        /\ \A j \in DOMAIN running : running[j] \in Nat /\ running[j] >= start[j] + job[j].run
        /\ \A h \in Jobs : promise[h] # NoFit =>
             \/ start[h] # Infinity /\ start[h] <= promise[h]
             \/ /\ First(ToSet(waiting), h) /\ job[h].submit <= now
                /\ promise[h] - now <= PlanningHorizon
                /\ \E r \in now .. promise[h] :
                     job[h].nodes <= FreeOn(capacity, nextChange, running, r)
    BY <1>8 DEF PromiseInv
  <2>2. \A j \in DOMAIN run : run[j] \in Nat /\ run[j] >= start[j] + job[j].run
    BY <2>1, <1>1
  <2>3. ASSUME NEW h \in Jobs, promise[h] # NoFit, ~(start[h] # Infinity /\ start[h] <= promise[h])
        PROVE  /\ First(ToSet(waiting), h) /\ job[h].submit <= t
               /\ promise[h] - t <= PlanningHorizon
               /\ \E r \in t .. promise[h] : job[h].nodes <= FreeOn(capacity', nextChange', run, r)
    <3> DEFINE b == promise[h]
    <3>1. b \in Int /\ b <= Horizon
      BY <2>1, <2>3 DEF Time
    <3>2. First(ToSet(waiting), h) /\ job[h].submit <= now /\ b - now <= PlanningHorizon
      BY <2>1, <2>3
    <3>3. PICK r \in now .. b : job[h].nodes <= FreeOn(capacity, nextChange, running, r)
      BY <2>1, <2>3
    <3> HIDE DEF b
    <3>4. r \in t .. b
      BY <3>1, <3>2, <3>3, <2>1, <1>1, <1>5, <1>6, <1>8, TimePasses
    <3>5. r \in Nat /\ r \in t .. Horizon
      BY <3>1, <3>4, <1>6
    <3>6. /\ FreeOn(capacity, nextChange, running, r) \in Int
          /\ FreeOn(capacity', nextChange', run, r) \in Int
          /\ FreeOn(capacity, nextChange, running, r) <= FreeOn(capacity', nextChange', run, r)
      BY <3>5, <1>1, <1>6, <1>7, FreeGrows
    <3>7. job[h].nodes \in Nat /\ job[h].submit \in Nat
      BY <1>6, JobFacts
    <3>8. job[h].nodes <= FreeOn(capacity', nextChange', run, r)
      BY <3>3, <3>6, <3>7
    <3>9. job[h].submit <= t /\ b - t <= PlanningHorizon
      <4>1. job[h].submit <= t
        BY <3>2, <3>7, <1>1, <1>6
      <4>2. b - t <= PlanningHorizon
        BY <3>1, <3>2, <1>1, <1>6
      <4> QED BY <4>1, <4>2
    <3> QED BY <3>2, <3>4, <3>8, <3>9 DEF b
  <2> QED BY <2>1, <2>2, <2>3
<1> QED BY <1>1, <1>2, <1>3, <1>5, <1>8, DispatchPromises DEF s

LEMMA AdvancePromises ==
  ASSUME LoopInv, WorkInv, WorkInv', PromiseInv, NEW to \in Targets \cup {Drain}, advance_to(to)
  PROVE  PromiseInv'
<1> DEFINE s == State(now, capacity', nextChange', inUse + releasing, waiting, running)
           then == Scheduled(s, FALSE)
<1>1. /\ looping' = TRUE /\ ApplyCapacity(now)
      /\ UNCHANGED <<caller, now, releasing>>
      /\ Dispatch(s, then, evtq, inUse)
  BY DEF advance_to
<1>2. /\ job \in Workloads /\ changes \in Schedules /\ nextChange \in 1 .. Len(changes) + 1
      /\ capacity \in Nat /\ now \in 0 .. Horizon
      /\ Books(now, start, evtq, running, inUse, releasing)
  BY DEF LoopInv, CapacityInv, ClockInv
<1>3. job' = job /\ changes' = changes /\ now' = now /\ releasing' = releasing
  BY <1>1 DEF caller
<1>4. /\ nextChange' \in 1 .. Len(changes) + 1 /\ capacity' \in Nat
      /\ \A u \in now .. Horizon :
           CapacityOn(capacity', nextChange', u) = CapacityOn(capacity, nextChange, u)
  BY <1>1, <1>2, <1>3, CapacityStep
<1>5. Sorted(waiting) /\ Blocked(ToSet(waiting'), now, inUse' + releasing', capacity')
  BY <1>1, <1>3 DEF WorkInv, OrderInv, HeadInv, Blocked
<1>6. s = State(now, capacity', nextChange', inUse + releasing', waiting, running)
  BY <1>3
<1>7. Books(now, start, evtq, running, inUse, releasing')
  BY <1>2, <1>3
<1>8. then = s \/ \E tick : then = Scheduled(s, tick)
  OBVIOUS
<1> HIDE DEF s, then
<1>9. now \in Nat /\ Horizon \in Nat
  BY <1>2, Constants
<1>10. DOMAIN running \in SUBSET Jobs
  BY <1>2 DEF Books, Ending, Held
<1>11. ASSUME Undelayed, WithinLimits
       PROVE  /\ promise \in [Jobs -> {NoFit} \cup Time]
              /\ \A j \in DOMAIN running : running[j] \in Nat /\ running[j] >= start[j] + job[j].run
              /\ \A h \in Jobs : promise[h] # NoFit =>
                   \/ start[h] # Infinity /\ start[h] <= promise[h]
                   \/ /\ First(ToSet(waiting), h) /\ job[h].submit <= now
                      /\ promise[h] - now <= PlanningHorizon
                      /\ \E r \in now .. promise[h] :
                           job[h].nodes <= FreeOn(capacity', nextChange', running, r)
  <2>1. /\ promise \in [Jobs -> {NoFit} \cup Time]
        /\ \A j \in DOMAIN running : running[j] \in Nat /\ running[j] >= start[j] + job[j].run
        /\ \A h \in Jobs : promise[h] # NoFit =>
             \/ start[h] # Infinity /\ start[h] <= promise[h]
             \/ /\ First(ToSet(waiting), h) /\ job[h].submit <= now
                /\ promise[h] - now <= PlanningHorizon
                /\ \E r \in now .. promise[h] :
                     job[h].nodes <= FreeOn(capacity, nextChange, running, r)
    BY <1>11 DEF PromiseInv
  <2>2. ASSUME NEW r \in now .. Horizon
        PROVE  FreeOn(capacity', nextChange', running, r) = FreeOn(capacity, nextChange, running, r)
    BY <1>4 DEF FreeOn
  <2>3. ASSUME NEW h \in Jobs, promise[h] # NoFit, NEW r \in now .. promise[h] PROVE r \in now .. Horizon
    <3>1. promise[h] \in 0 .. Horizon
      BY <2>1, <2>3 DEF Time
    <3> QED BY <3>1, <1>9
  <2> QED BY <2>1, <2>2, <2>3
<1> QED BY <1>1, <1>2, <1>3, <1>4, <1>5, <1>6, <1>7, <1>8, <1>11, DispatchPromises

LEMMA AppendPromises ==
  ASSUME LoopInv, PromiseInv, append_job
  PROVE  PromiseInv'
<1> DEFINE j == appended + 1
<1>1. /\ appended < NumJobs /\ submit_job(j)
      /\ UNCHANGED <<job, changes, clock, resources>>
  BY DEF append_job
<1>2. UNCHANGED <<job, changes, now, capacity, nextChange, running, start, promise>>
  BY <1>1 DEF clock, resources
<1>3. /\ waiting \in Seq(Jobs) /\ appended \in Nat
      /\ \A i \in ToSet(waiting) : i <= appended
  BY Constants DEF LoopInv, QueueInv
<1>4. j \in Jobs
  BY <1>1, <1>3, Constants DEF Jobs
<1>5. ToSet(waiting) \in SUBSET Jobs /\ \A i \in Jobs : i \in Int
  <2>1. \A i \in Jobs : i \in Int
    BY DEF Jobs
  <2> QED BY <2>1, <1>3, InToSet
<1>6. waiting' = waiting \/ waiting' = Append(waiting, j)
  BY <1>1 DEF submit_job
<1>7. ToSet(waiting') = ToSet(waiting) \/ ToSet(waiting') = ToSet(waiting) \cup {j}
  <2> HIDE DEF j
  <2>1. ToSet(Append(waiting, j)) = ToSet(waiting) \cup {j}
    BY <1>3, <1>4, AppendFacts
  <2> QED BY <2>1, <1>6
<1>8. ASSUME NEW h, First(ToSet(waiting), h) PROVE First(ToSet(waiting'), h)
  <2>1. h \in ToSet(waiting) /\ \A i \in ToSet(waiting) : h <= i
    BY <1>8 DEF First
  <2>2. h <= j
    BY <2>1, <1>3, <1>5
  <2> HIDE DEF j
  <2> QED BY <2>1, <2>2, <1>7 DEF First
<1> QED BY <1>2, <1>8, PromiseNext DEF PromiseInv

LEMMA ReturnPromises ==
  ASSUME LoopInv, WorkInv, PromiseInv, looping, Return
  PROVE  PromiseInv'
<1>1. /\ ~(LoopRuns /\ (EventNext \/ ArrivalNext \/ CapacityNext \/ TickNext))
      /\ now' = IF target = Drain THEN now ELSE target
      /\ UNCHANGED <<caller, capacity, nextChange, waiting, resources>>
  BY DEF Return
<1>2. UNCHANGED <<job, changes, capacity, nextChange, waiting, running, start, promise>>
  BY <1>1 DEF caller, resources
<1>3. CASE now' = now
  BY <1>2, <1>3, PromiseNext DEF PromiseInv
<1>4. CASE now' # now
  <2>1. now' = target /\ target < Drain /\ target \in Nat /\ now \in Nat /\ now <= target
    <3>1. target \in 0 .. Infinity /\ now \in 0 .. Horizon /\ now <= target
      BY DEF LoopInv, ClockInv
    <3> QED BY <3>1, <1>1, <1>4, Constants
  <2>2. (\A e \in evtq : e.t > target) /\ NextCapacity > target
    BY <1>1, <2>1, NothingLeft
  <2>3. NextCapacity \in Nat /\ \A e \in evtq : e.t \in Nat
    BY InstantFacts
  <2>4. (\A e \in evtq : target <= e.t) /\ target <= NextCapacity
    BY <2>1, <2>2, <2>3
  <2>5. Blocked(ToSet(waiting), now, inUse + releasing, capacity)
    BY DEF WorkInv, HeadInv
  <2>6. job \in Workloads /\ PlanningHorizon \in Nat
    BY SchedulingAssumption DEF LoopInv
  <2>7. ASSUME Undelayed, WithinLimits
        PROVE  /\ promise \in [Jobs -> {NoFit} \cup Time]
               /\ \A j \in DOMAIN running : running[j] \in Nat /\ running[j] >= start[j] + job[j].run
               /\ \A h \in Jobs : promise[h] # NoFit =>
                    \/ start[h] # Infinity /\ start[h] <= promise[h]
                    \/ /\ First(ToSet(waiting), h) /\ job[h].submit <= target
                       /\ promise[h] - target <= PlanningHorizon
                       /\ \E r \in target .. promise[h] :
                            job[h].nodes <= FreeOn(capacity, nextChange, running, r)
    <3>1. /\ promise \in [Jobs -> {NoFit} \cup Time]
          /\ \A j \in DOMAIN running : running[j] \in Nat /\ running[j] >= start[j] + job[j].run
          /\ \A h \in Jobs : promise[h] # NoFit =>
               \/ start[h] # Infinity /\ start[h] <= promise[h]
               \/ /\ First(ToSet(waiting), h) /\ job[h].submit <= now
                  /\ promise[h] - now <= PlanningHorizon
                  /\ \E r \in now .. promise[h] :
                       job[h].nodes <= FreeOn(capacity, nextChange, running, r)
      BY <2>7 DEF PromiseInv
    <3>2. ASSUME NEW h \in Jobs, promise[h] # NoFit, ~(start[h] # Infinity /\ start[h] <= promise[h])
          PROVE  /\ First(ToSet(waiting), h) /\ job[h].submit <= target
                 /\ promise[h] - target <= PlanningHorizon
                 /\ \E r \in target .. promise[h] :
                      job[h].nodes <= FreeOn(capacity, nextChange, running, r)
      <4> DEFINE b == promise[h]
      <4>1. b \in Int
        BY <3>1, <3>2 DEF Time
      <4>2. First(ToSet(waiting), h) /\ job[h].submit <= now /\ b - now <= PlanningHorizon
        BY <3>1, <3>2
      <4>3. PICK r \in now .. b : job[h].nodes <= FreeOn(capacity, nextChange, running, r)
        BY <3>1, <3>2
      <4> HIDE DEF b
      <4>4. r \in target .. b
        BY <4>1, <4>2, <4>3, <3>1, <2>1, <2>4, <2>5, <2>7, TimePasses
      <4>5. job[h].submit \in Nat
        BY <2>6, JobFacts
      <4>6. job[h].submit <= target /\ b - target <= PlanningHorizon
        BY <4>1, <4>2, <4>5, <2>1, <2>6
      <4> QED BY <4>2, <4>3, <4>4, <4>6 DEF b
    <3> QED BY <3>1, <3>2
  <2> QED BY <1>2, <2>1, <2>7, PromiseNext
<1> QED BY <1>3, <1>4

LEMMA PromiseStep ==
  ASSUME LoopInv, WorkInv, PromiseInv, [Next]_vars
  PROVE  PromiseInv'
<1>1. WorkInv'
  BY DrainStep
<1>2. CASE append_job
  BY <1>2, AppendPromises
<1>3. CASE \E to \in Targets \cup {Drain} : advance_to(to)
  BY <1>1, <1>3, AdvancePromises
<1>4. CASE looping /\ (ProcessEvents \/ ProcessArrivals \/ ProcessCapacity \/ ProcessTick)
  <2>1. PICK t, evs, used, run, should, isTick : Iteration(t, evs, used, run, should, isTick)
    BY <1>4, EventsIterate, ArrivalsIterate, CapacityIterates, TickIterates
  <2> QED BY <1>1, <1>4, <2>1, IteratePromises
<1>5. CASE looping /\ Return
  BY <1>5, ReturnPromises
<1>6. CASE UNCHANGED vars
  <2>1. UNCHANGED <<job, changes, now, capacity, nextChange, waiting, running, start, promise>>
    BY <1>6 DEF vars, caller
  <2> QED BY <2>1, PromiseNext DEF PromiseInv
<1> QED BY <1>2, <1>3, <1>4, <1>5, <1>6 DEF Next, Step

(* Backfilling never delays the head, for every workload, capacity         *)
(* schedule and scheduling option: a job that the scheduler once reserved  *)
(* nodes for as the blocked head, within the planning horizon, starts by   *)
(* that time.  For jobs that run no longer than their limit: the recorded  *)
(* run times of a trace may exceed it, and then the nodes are not back     *)
(* when the plan expects them.                                             *)
THEOREM HeadNeverDelayed == Spec => [](WithinLimits => HeadNotDelayed)
<1>1. LoopInv /\ [Next]_vars => LoopInv'
  BY LoopStep
<1>2. LoopInv /\ WorkInv /\ [Next]_vars => WorkInv'
  BY DrainStep
<1>3. LoopInv /\ WorkInv /\ PromiseInv /\ [Next]_vars => PromiseInv'
  BY PromiseStep
<1>4. LoopInv /\ PromiseInv => (WithinLimits => HeadNotDelayed)
  <2> SUFFICES ASSUME LoopInv, PromiseInv, WithinLimits, Undelayed, NEW h \in Jobs, promise[h] # NoFit
               PROVE  IF start[h] < Infinity THEN start[h] <= promise[h] ELSE now <= promise[h]
    BY DEF HeadNotDelayed
  <2>1. /\ promise[h] \in 0 .. Horizon
        /\ \/ start[h] # Infinity /\ start[h] <= promise[h]
           \/ First(ToSet(waiting), h) /\ \E r \in now .. promise[h] : TRUE
    <3>1. promise \in [Jobs -> {NoFit} \cup Time]
      BY DEF PromiseInv
    <3> QED BY <3>1 DEF PromiseInv, Time
  <2>2. start[h] \in 0 .. Infinity /\ now \in 0 .. Horizon
    BY DEF LoopInv, Books, ClockInv
  <2>3. First(ToSet(waiting), h) => start[h] = Infinity
    BY DEF LoopInv, QueueInv, First
  <2> QED BY <2>1, <2>2, <2>3, Constants
<1> QED BY <1>1, <1>2, <1>3, <1>4, InitInv, InitDrains, InitPromises, PTL DEF Spec
=============================================================================
