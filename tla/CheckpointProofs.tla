-------------------------- MODULE CheckpointProofs --------------------------
(***************************************************************************)
(* The outputs of a run that crashes and is restarted are exact, a         *)
(* checkpoint can be restarted from, and the work that a crash loses is    *)
(* bounded: for every list of job files, every capacity and interval and   *)
(* any number of crashes.                                                  *)
(*                                                                         *)
(* None of the three is inductive.  What a process has handed over says    *)
(* nothing of the process that a restart brings back: the invariant has to *)
(* say, of every state in which the checkpoint may still be loaded, what   *)
(* the outputs on disk hold up to its boundaries, and of every step of a   *)
(* restart which output is already archived and which is not.              *)
(* That the archives can be stitched needs of the keys in Redis which      *)
(* records are left behind, and who still lists them.                      *)
(***************************************************************************)
EXTENDS Checkpoint, SumProofs, SequenceTheorems

-----------------------------------------------------------------------------
(* The invariant. *)

RowSeq == Seq(Nat \ {0})
Archive == [rows : RowSeq, boundary : Nat \cup {NoBoundary}]
LastAuto == [has : BOOLEAN, jobs : Nat, time : Nat]
SimState ==
  [clock : Nat, file : 0 .. Len(Files), completed : SUBSET Jobs, written : Nat, history : Nat, auto : LastAuto]
Saved ==
  [phase : {"load", "advance", "drain"},
   run : [clock : Nat, file : 0 .. Len(Files), completed : SUBSET Jobs, auto : LastAuto],
   store : [written : Nat, history : Nat],
   boundary : [Streams -> Nat]]

RestartJobs == {"restart jobs", "boundary jobs", "open jobs"}
RestartResources == {"restart resources", "boundary resources", "open resources"}
Reopens == {"open redis", "trace redis"}
Restarts == RestartJobs \cup RestartResources \cup {"restart redis"} \cup Reopens
Phases ==
  {"load", "advance", "drain", "settled", "settled drain", "boundary", "saving", "done",
   "aborted", "down"} \cup Restarts

(* The process that load_checkpoint() makes of a checkpoint. *)
Loaded(c) ==
  [clock |-> c.run.clock, file |-> c.run.file, completed |-> c.run.completed, auto |-> c.run.auto,
   written |-> c.store.written, history |-> c.store.history]

(* A job is completed after it is admitted, written when the front jobs    *)
(* are, and sampled when it is completed.                                  *)
Known(p) == Len(FlattenSeq(SubSeq(Files, 1, p.file)))
Counted(p) ==
  /\ p \in SimState
  /\ p.completed \subseteq Admitted(p.file)
  /\ p.written <= Known(p)
  /\ p.history <= Cardinality(p.completed)

(* The types, and which output exists in which phase. *)
TypeInv ==
  /\ sink \in {"file", "redis"} /\ phase \in Phases
  /\ Counted(sim)
  /\ pending \in [Streams -> RowSeq] /\ active \in [Streams -> RowSeq \cup {Missing}]
  /\ archives \in [Streams -> Seq(Archive)]
  /\ saved \in {None, Torn} \cup Saved /\ saving \in {None} \cup Saved
  /\ saved \in Saved => Counted(Loaded(saved))
  /\ saving \in Saved => Counted(Loaded(saving))
  /\ used \in {"no", "once", "again"} /\ crashes \in Nat /\ cut \in BOOLEAN /\ refused \in BOOLEAN

OutputsInv ==
  /\ Running \/ phase = "aborted" => \A s \in Streams : active[s] # Missing
  /\ phase \in {"boundary jobs", "open jobs"} => active["jobs"] = Missing
  /\ phase \in RestartResources => active["jobs"] = << >>
  /\ phase \in {"boundary resources", "open resources"} => active["resources"] = Missing
  /\ \A s \in Streams : active[s] = Missing => archives[s] # << >>
  /\ phase \in Restarts \cup {"down"} => pending = [s \in Streams |-> << >>]
  /\ phase \in Restarts => saved \in Saved /\ sim = Loaded(saved)
  /\ phase \in Restarts \ Reopens => used # "once"
  /\ phase \in Reopens => used # "no"
  /\ phase \in RestartJobs \cup RestartResources => sink = "file"
  /\ phase \in {"restart redis"} \cup Reopens => sink = "redis"
  /\ phase = "trace redis" => active["jobs"] = << >>

(* What the phases say of the files that were read. *)
FilesInv ==
  /\ phase \in {"advance", "settled"} \/ (phase = "saving" /\ saving.phase = "advance") =>
       Admitted(sim.file) # {}
  /\ phase \in {"drain", "settled drain", "done"} \/ (phase = "saving" /\ saving.phase = "drain") =>
       sim.file = Len(Files)
  /\ phase = "done" => sim.written = Len(Job) /\ sim.completed = Jobs

(* The checkpoint that is being written is that of the present state. *)
SavingInv ==
  phase = "saving" =>
    /\ saving \in Saved /\ Loaded(saving) = sim
    /\ \A s \in Streams : pending[s] = << >> /\ saving.boundary[s] = Len(active[s])

(* auto remembers the completions of the last checkpoint. *)
AutoInv ==
  /\ saved \in Saved => saved.run.auto.jobs = Cardinality(saved.run.completed)
  /\ phase = "saving" => sim.auto.jobs = Cardinality(sim.completed)
  /\ Running /\ phase # "saving" =>
       /\ saved # Torn
       /\ sim.auto.jobs = IF saved = None THEN 0 ELSE Cardinality(saved.run.completed)
  /\ phase \in {"advance", "drain", "load"} /\ Interval # 0 =>
       Cardinality(sim.completed) - sim.auto.jobs < Interval

-----------------------------------------------------------------------------
(* The first n rows, the rows that a stitch keeps of the archives a, and   *)
(* the rows that the saved process had handed over.                        *)
Iota(n) == [i \in 1 .. n |-> i]
KeptRows(a) == FlattenSeq([i \in DOMAIN a |-> Kept(a[i])])
SavedRows(s) == Iota(Handed(Loaded(saved))[s])

(* The output is as long as its boundary, and holds up to it what the      *)
(* saved process had handed over and the archives do not.                  *)
Whole(s) == active[s] # Missing /\ Len(active[s]) >= saved.boundary[s]
Prefix(s) == KeptRows(archives[s]) \o SubSeq(active[s], 1, saved.boundary[s]) = SavedRows(s)
Loadable(s) == (Whole(s) => Prefix(s)) /\ (~cut => Whole(s))

(* The output is archived, without and with its boundary; a new one is     *)
(* open.                                                                   *)
Archived(s) ==
  /\ active[s] = Missing /\ archives[s] # << >>
  /\ LET a == Last(archives[s])
     IN  /\ Len(a.rows) >= saved.boundary[s]
         /\ KeptRows(Front(archives[s])) \o SubSeq(a.rows, 1, saved.boundary[s]) = SavedRows(s)
Unbounded(s) == Archived(s) /\ Last(archives[s]).boundary = NoBoundary
Bounded(s) == Archived(s) /\ Last(archives[s]).boundary = saved.boundary[s]
Reopened(s) == active[s] = << >> /\ KeptRows(archives[s]) = SavedRows(s)

(* What a running process has handed over is in the archives, the output   *)
(* and the stream; before it opens its namespace in Redis, in the archives *)
(* alone.                                                                  *)
RunInv ==
  used # "again" =>
    /\ Running =>
         \A s \in Streams :
           (KeptRows(archives[s]) \o active[s]) \o pending[s] = Iota(Handed(sim)[s])
    /\ phase \in Reopens => \A s \in Streams : KeptRows(archives[s]) = SavedRows(s)

(* What an unused checkpoint finds in the outputs. *)
LoadInv ==
  used = "no" /\ saved \in Saved =>
    /\ Running => \A s \in Streams : Whole(s) /\ Prefix(s)
    /\ sink = "file" =>
         /\ phase \in {"down", "restart jobs"} => Loadable("jobs")
         /\ phase \in {"down"} \cup RestartJobs \cup {"restart resources"} => Loadable("resources")
         /\ phase = "boundary jobs" => Unbounded("jobs")
         /\ phase = "open jobs" => Bounded("jobs")
         /\ phase \in RestartResources => Reopened("jobs")
         /\ phase = "boundary resources" => Unbounded("resources")
         /\ phase = "open resources" => Bounded("resources")
    /\ sink = "redis" /\ phase \in {"down", "restart redis"} =>
         \A s \in Streams : (Whole(s) /\ Prefix(s)) \/ Unbounded(s)

Inv ==
  /\ TypeInv /\ OutputsInv /\ FilesInv /\ SavingInv /\ AutoInv
  /\ RunInv /\ LoadInv /\ RestartPossible

-----------------------------------------------------------------------------
(* The keys in Redis.  A record is left in the active namespace only       *)
(* between the renaming of its document and its own, and meanwhile it is   *)
(* listed: by the index that the next load reads, or in what the process   *)
(* read of it.                                                             *)
AtRest == [listed |-> TRUE, moving |-> {}, behind |-> {}]
Read(s) == redis[s].behind \subseteq redis[s].moving /\ (redis[s].listed => redis[s].moving = Listed(s))
KeysInv ==
  /\ redis \in [Streams -> [listed : BOOLEAN, moving : SUBSET Nat, behind : SUBSET Nat]]
  /\ torn \in BOOLEAN
  /\ sink = "file" => \A s \in Streams : redis[s] = AtRest
  /\ \A s \in Streams : active[s] # Missing => redis[s].listed
  /\ phase # "restart redis" => \A s \in Streams : redis[s].moving = {}
  /\ used # "again" /\ ~torn =>
       /\ phase \notin {"down", "restart redis"} => \A s \in Streams : redis[s].behind = {}
       /\ phase = "down" /\ used = "no" => \A s \in Streams : redis[s].behind \subseteq Listed(s)
       /\ phase = "restart redis" => \A s \in Streams : Read(s)

(* Every archive is as long as its boundary. *)
Fits(a) == \A i \in DOMAIN a : a[i].boundary <= Len(a[i].rows)
SegmentsInv == used # "again" => \A s \in Streams : Fits(archives[s])

-----------------------------------------------------------------------------
(* Naturals, sequences and FlattenSeq. *)

(* The function that FlattenSeq() recurs on: after i sequences, their      *)
(* concatenation.                                                          *)
FlatStep(seqs, f, i) == IF i = 1 THEN seqs[i] ELSE f[i - 1] \o seqs[i]
IsFlat(seqs, n, f) == f = [i \in 1 .. n |-> FlatStep(seqs, f, i)]

(* It exists. *)
LEMMA FlatExists ==
  ASSUME NEW seqs, NEW n \in Nat
  PROVE  \E f : IsFlat(seqs, n, f)
<1> DEFINE T == {m \in Nat : ~\E f : IsFlat(seqs, m, f)}
<1> SUFFICES ASSUME T # {} PROVE FALSE
  OBVIOUS
<1>1. PICK m \in T : \A y \in T : m <= y
  BY LeastExists
<1>2. m \in Nat /\ ~\E f : IsFlat(seqs, m, f)
  BY <1>1
<1>3. CASE m = 0
  <2> DEFINE f == [i \in 1 .. 0 |-> 0]
  <2>1. f = [i \in 1 .. 0 |-> FlatStep(seqs, f, i)]
    OBVIOUS
  <2> QED BY <2>1, <1>2, <1>3 DEF IsFlat
<1>4. CASE m # 0
  <2>1. m - 1 \in Nat /\ m - 1 \notin T
    BY <1>1, <1>2, <1>4
  <2>2. PICK g : IsFlat(seqs, m - 1, g)
    BY <2>1
  <2> DEFINE f == [i \in 1 .. m |-> IF i = m THEN FlatStep(seqs, g, m) ELSE g[i]]
  <2>3. ASSUME NEW i \in 1 .. m PROVE f[i] = FlatStep(seqs, f, i)
    <3>1. CASE i = m
      <4>1. i # 1 => i - 1 \in 1 .. m /\ i - 1 # m
        BY <1>2, <1>4, <3>1
      <4>2. i # 1 => f[i - 1] = g[i - 1]
        BY <4>1
      <4>3. f[i] = FlatStep(seqs, g, i)
        BY <3>1
      <4> QED BY <4>2, <4>3 DEF FlatStep
    <3>2. CASE i # m
      <4>1. i \in 1 .. m - 1
        BY <1>2, <3>2
      <4>2. f[i] = g[i]
        BY <3>2
      <4>3. g[i] = FlatStep(seqs, g, i)
        <5>1. \A j \in 1 .. m - 1 : g[j] = FlatStep(seqs, g, j)
          BY <2>2 DEF IsFlat
        <5> QED BY <5>1, <4>1
      <4>4. i # 1 => i - 1 \in 1 .. m /\ i - 1 # m
        BY <4>1, <1>2
      <4>5. i # 1 => f[i - 1] = g[i - 1]
        BY <4>4
      <4> QED BY <4>2, <4>3, <4>5 DEF FlatStep
    <3> QED BY <3>1, <3>2
  <2>4. f = [i \in 1 .. m |-> FlatStep(seqs, f, i)]
    <3>1. f = [i \in 1 .. m |-> f[i]]
      OBVIOUS
    <3> HIDE DEF f
    <3> QED BY <2>3, <3>1
  <2> HIDE DEF f
  <2> QED BY <2>4, <1>2 DEF IsFlat
<1> QED BY <1>3, <1>4

(* It is unfolded from the front. *)
LEMMA FlatValue ==
  ASSUME NEW seqs, NEW n \in Nat, NEW f, IsFlat(seqs, n, f), NEW i \in 1 .. n
  PROVE  f[i] = FlatStep(seqs, f, i)
<1>1. \A j \in 1 .. n : [k \in 1 .. n |-> FlatStep(seqs, f, k)][j] = FlatStep(seqs, f, j)
  OBVIOUS
<1> QED BY <1>1 DEF IsFlat

(* One more sequence leaves the values before it. *)
LEMMA FlatNext ==
  ASSUME NEW a, NEW b, NEW n \in Nat, \A i \in 1 .. n : a[i] = b[i],
         NEW f, IsFlat(a, n, f), NEW g, IsFlat(b, n + 1, g)
  PROVE  g[n + 1] = IF n = 0 THEN b[1] ELSE f[n] \o b[n + 1]
<1> DEFINE T == {i \in 1 .. n : f[i] # g[i]}
<1>1. T = {}
  <2> SUFFICES ASSUME T # {} PROVE FALSE
    OBVIOUS
  <2>1. PICK k \in T : \A y \in T : k <= y
    <3>1. T \subseteq Nat
      OBVIOUS
    <3> QED BY <3>1, LeastExists
  <2>2. k \in 1 .. n /\ k \in 1 .. n + 1 /\ f[k] # g[k] /\ a[k] = b[k]
    BY <2>1
  <2>3. f[k] = FlatStep(a, f, k) /\ g[k] = FlatStep(b, g, k)
    BY <2>2, FlatValue
  <2>4. k # 1 => k - 1 \in 1 .. n /\ k - 1 \notin T
    BY <2>1, <2>2
  <2>5. k # 1 => f[k - 1] = g[k - 1]
    BY <2>4
  <2> QED BY <2>2, <2>3, <2>5 DEF FlatStep
<1>2. n + 1 \in 1 .. n + 1 /\ n + 1 \in Nat /\ (n + 1) - 1 = n /\ (n # 0 => n \in 1 .. n /\ n + 1 # 1)
  OBVIOUS
<1>3. g[n + 1] = FlatStep(b, g, n + 1)
  BY <1>2, FlatValue
<1> QED BY <1>1, <1>2, <1>3 DEF FlatStep

(* FlattenSeq() is its last value. *)
LEMMA FlattenSeqIs ==
  ASSUME NEW seqs, Len(seqs) \in Nat
  PROVE  \E f : /\ IsFlat(seqs, Len(seqs), f)
                /\ FlattenSeq(seqs) = IF Len(seqs) = 0 THEN seqs ELSE f[Len(seqs)]
<1> DEFINE F == CHOOSE f : f = [i \in 1 .. Len(seqs) |-> IF i = 1 THEN seqs[i] ELSE f[i - 1] \o seqs[i]]
<1>1. FlattenSeq(seqs) = IF Len(seqs) = 0 THEN seqs ELSE F[Len(seqs)]
  BY Zenon DEF FlattenSeq
<1>2. \E f : f = [i \in 1 .. Len(seqs) |-> IF i = 1 THEN seqs[i] ELSE f[i - 1] \o seqs[i]]
  BY FlatExists DEF IsFlat, FlatStep
<1>3. IsFlat(seqs, Len(seqs), F)
  BY <1>2, Zenon DEF IsFlat, FlatStep
<1> QED BY <1>1, <1>3

LEMMA FlattenEmpty == FlattenSeq(<< >>) = << >>
<1>1. Len(<< >>) = 0
  OBVIOUS
<1> HIDE DEF FlattenSeq
<1> QED BY <1>1, FlattenSeqIs

LEMMA FlattenType ==
  ASSUME NEW S, NEW seqs \in Seq(Seq(S))
  PROVE  FlattenSeq(seqs) \in Seq(S)
<1> DEFINE n == Len(seqs)
<1>0. n \in Nat /\ \A i \in 1 .. n : seqs[i] \in Seq(S)
  OBVIOUS
<1>1. PICK f : IsFlat(seqs, n, f) /\ FlattenSeq(seqs) = IF n = 0 THEN seqs ELSE f[n]
  BY <1>0, FlattenSeqIs
<1> DEFINE T == {i \in 1 .. n : f[i] \notin Seq(S)}
<1>2. T = {}
  <2> SUFFICES ASSUME T # {} PROVE FALSE
    OBVIOUS
  <2>0. T \subseteq Nat
    OBVIOUS
  <2>1. PICK k \in T : \A y \in T : k <= y
    BY <2>0, LeastExists
  <2>2. k \in 1 .. n /\ f[k] \notin Seq(S) /\ seqs[k] \in Seq(S)
    BY <2>1, <1>0
  <2>3. f[k] = FlatStep(seqs, f, k)
    BY <2>2, <1>0, <1>1, FlatValue
  <2>4. k # 1 => k - 1 \in 1 .. n /\ k - 1 \notin T
    BY <2>1, <2>2, <1>0
  <2>5. k # 1 => f[k - 1] \in Seq(S)
    BY <2>4
  <2>6. k # 1 => f[k - 1] \o seqs[k] \in Seq(S)
    BY <2>5, <2>2, ConcatProperties
  <2> QED BY <2>2, <2>3, <2>6 DEF FlatStep
<1>3. n # 0 => n \in 1 .. n
  BY <1>0
<1>4. n # 0 => f[n] \in Seq(S)
  BY <1>2, <1>3
<1>5. n = 0 => seqs = << >>
  OBVIOUS
<1> QED BY <1>1, <1>4, <1>5

(* One more sequence is appended to the others. *)
LEMMA FlattenNext ==
  ASSUME NEW a, NEW b, NEW n \in Nat, Len(a) = n, Len(b) = n + 1, \A i \in 1 .. n : a[i] = b[i]
  PROVE  FlattenSeq(b) = IF n = 0 THEN b[1] ELSE FlattenSeq(a) \o b[n + 1]
<1>1. PICK f : IsFlat(a, n, f) /\ FlattenSeq(a) = IF n = 0 THEN a ELSE f[n]
  BY FlattenSeqIs
<1>2. PICK g : IsFlat(b, n + 1, g) /\ FlattenSeq(b) = g[n + 1]
  <2>1. n + 1 \in Nat /\ n + 1 # 0
    OBVIOUS
  <2> QED BY <2>1, FlattenSeqIs
<1>3. g[n + 1] = IF n = 0 THEN b[1] ELSE f[n] \o b[n + 1]
  BY <1>1, <1>2, FlatNext
<1> QED BY <1>1, <1>2, <1>3

LEMMA FlattenAppend ==
  ASSUME NEW S, NEW seqs \in Seq(Seq(S)), NEW s \in Seq(S)
  PROVE  FlattenSeq(Append(seqs, s)) = FlattenSeq(seqs) \o s
<1> DEFINE n == Len(seqs)
<1> DEFINE b == Append(seqs, s)
<1>1. /\ n \in Nat /\ Len(b) = n + 1 /\ b[n + 1] = s
      /\ \A i \in 1 .. n : seqs[i] = b[i]
  OBVIOUS
<1>2. FlattenSeq(b) = IF n = 0 THEN b[1] ELSE FlattenSeq(seqs) \o b[n + 1]
  <2> HIDE DEF b, n
  <2> QED BY <1>1, FlattenNext DEF n
<1>3. CASE n = 0
  <2>1. seqs = << >>
    BY <1>3
  <2>2. FlattenSeq(seqs) = << >> /\ b[1] = s
    BY <2>1, <1>1, <1>3, FlattenEmpty
  <2>3. << >> \o s = s
    BY ConcatEmptySeq
  <2> QED BY <2>2, <2>3, <1>2, <1>3
<1>4. CASE n # 0
  BY <1>1, <1>2, <1>4
<1> QED BY <1>3, <1>4

(* The first n rows and the rows up to m are the first m rows. *)
LEMMA IotaType == ASSUME NEW n \in Nat PROVE Iota(n) \in RowSeq /\ Len(Iota(n)) = n
BY DEF Iota, RowSeq

LEMMA IotaExtend ==
  ASSUME NEW n \in Nat, NEW m \in Nat, n <= m
  PROVE  /\ Iota(n) \o [i \in 1 .. m - n |-> n + i] = Iota(m)
         /\ [i \in 1 .. m - n |-> n + i] \in RowSeq
<1> DEFINE r == [i \in 1 .. m - n |-> n + i]
<1>1. m - n \in Nat
  OBVIOUS
<1>2. r \in RowSeq /\ Len(r) = m - n
  BY <1>1 DEF RowSeq
<1>3. Iota(n) \in RowSeq /\ Len(Iota(n)) = n /\ Iota(m) \in RowSeq /\ Len(Iota(m)) = m
  BY IotaType
<1>4. Iota(n) \o r \in RowSeq /\ Len(Iota(n) \o r) = m
  <2> HIDE DEF r
  <2>1. Iota(n) \o r \in RowSeq /\ Len(Iota(n) \o r) = Len(Iota(n)) + Len(r)
    BY <1>2, <1>3, ConcatProperties DEF RowSeq
  <2> QED BY <1>2, <1>3, <2>1
<1>5. ASSUME NEW i \in 1 .. m PROVE (Iota(n) \o r)[i] = Iota(m)[i]
  <2>1. (Iota(n) \o r)[i] = IF i <= n THEN Iota(n)[i] ELSE r[i - n]
    BY <1>2, <1>3, ConcatProperties DEF RowSeq
  <2>2. i <= n => Iota(n)[i] = i
    BY DEF Iota
  <2>3. ~(i <= n) => i - n \in 1 .. m - n
    OBVIOUS
  <2>4. ~(i <= n) => r[i - n] = i
    BY <2>3
  <2>5. Iota(m)[i] = i
    BY DEF Iota
  <2> HIDE DEF r
  <2> QED BY <2>1, <2>2, <2>4, <2>5
<1> HIDE DEF r
<1>6. Iota(n) \o r = Iota(m)
  BY <1>3, <1>4, <1>5, SeqEqual DEF RowSeq
<1> QED BY <1>2, <1>6 DEF r

-----------------------------------------------------------------------------
(* The files and the jobs in them. *)

JobRecord == [submit : Nat, end : Nat]
Count(n) == Len(FlattenSeq(SubSeq(Files, 1, n)))

LEMMA FilesFacts ==
  /\ Files \in Seq(Seq(JobRecord)) /\ Len(Files) \in Nat
  /\ Job \in Seq(JobRecord) /\ Len(Job) \in Nat /\ Jobs = 1 .. Len(Job)
  /\ Count(Len(Files)) = Len(Job)
<1>1. Files \in Seq(Seq(JobRecord))
  BY CheckpointAssumption DEF JobRecord
<1>2. Job \in Seq(JobRecord)
  BY <1>1, FlattenType DEF Job
<1>3. SubSeq(Files, 1, Len(Files)) = Files
  BY <1>1, SubSeqFull
<1>4. Count(Len(Files)) = Len(Job)
  BY <1>3 DEF Count, Job
<1>5. Len(Job) \in Nat /\ DOMAIN Job = 1 .. Len(Job) /\ Len(Files) \in Nat
  BY <1>1, <1>2, LenProperties
<1> QED BY <1>1, <1>2, <1>4, <1>5 DEF Jobs

(* One more file adds its jobs. *)
LEMMA CountNext ==
  ASSUME NEW n \in Nat, n < Len(Files)
  PROVE  /\ Files[n + 1] \in Seq(JobRecord)
         /\ Count(n + 1) = Count(n) + Len(Files[n + 1])
<1> DEFINE a == SubSeq(Files, 1, n)
<1> DEFINE e == Files[n + 1]
<1>1. n + 1 \in 1 .. Len(Files)
  BY FilesFacts
<1>2. e \in Seq(JobRecord)
  BY <1>1, FilesFacts, ElementOfSeq
<1>3. \A i \in 1 .. n : Files[i] \in Seq(JobRecord)
  BY FilesFacts
<1>4. a \in Seq(Seq(JobRecord))
  BY <1>3, SubSeqProperties
<1>5. SubSeq(Files, 1, n + 1) = Append(a, e)
  <2>1. SubSeq(Files, 1, n + 1) = SubSeq(Files, 1, (n + 1) - 1) \o <<e>>
    BY <1>1, FilesFacts, SubSeqRecursiveSecond
  <2>2. (n + 1) - 1 = n
    OBVIOUS
  <2>3. Append(a, e) = a \o <<e>>
    BY <1>2, <1>4, AppendIsConcat
  <2> QED BY <2>1, <2>2, <2>3
<1> HIDE DEF a, e
<1>6. FlattenSeq(SubSeq(Files, 1, n + 1)) = FlattenSeq(a) \o e
  BY <1>2, <1>4, <1>5, FlattenAppend
<1>7. Len(FlattenSeq(a) \o e) = Len(FlattenSeq(a)) + Len(e)
  BY <1>2, <1>4, FlattenType, ConcatProperties
<1> QED BY <1>2, <1>6, <1>7 DEF Count, a, e

LEMMA CountFacts ==
  ASSUME NEW n \in 0 .. Len(Files)
  PROVE  /\ Count(n) \in Nat /\ Count(n) <= Len(Job)
         /\ Admitted(n) = 1 .. Count(n) /\ Admitted(n) \subseteq Jobs
         /\ IsFiniteSet(Admitted(n)) /\ Cardinality(Admitted(n)) = Count(n)
<1>0. Len(Files) \in Nat
  BY FilesFacts
<1>1. \A m \in 0 .. Len(Files) : Count(m) \in Nat
  <2> SUFFICES ASSUME NEW m \in 0 .. Len(Files) PROVE Count(m) \in Nat
    OBVIOUS
  <2>1. \A i \in 1 .. m : Files[i] \in Seq(JobRecord)
    BY FilesFacts
  <2>2. SubSeq(Files, 1, m) \in Seq(Seq(JobRecord))
    BY <2>1, SubSeqProperties
  <2> QED BY <2>2, FlattenType, LenProperties DEF Count
<1> DEFINE T == {k \in 0 .. Len(Files) : Count(Len(Files) - k) > Len(Job)}
<1>2. T = {}
  <2> SUFFICES ASSUME T # {} PROVE FALSE
    OBVIOUS
  <2>0. T \subseteq Nat
    BY <1>0
  <2>1. PICK k \in T : \A y \in T : k <= y
    BY <2>0, LeastExists
  <2>2. k \in 0 .. Len(Files) /\ Count(Len(Files) - k) > Len(Job) /\ Len(Job) \in Nat
    BY <2>1, FilesFacts
  <2>3. k # 0
    <3>1. Len(Files) - 0 = Len(Files)
      BY <1>0
    <3> QED BY <2>2, <3>1, FilesFacts
  <2> DEFINE m == Len(Files) - k
  <2>4. m \in Nat /\ m < Len(Files) /\ m + 1 = Len(Files) - (k - 1) /\ k - 1 \in 0 .. Len(Files)
    BY <2>2, <2>3, <1>0
  <2>5. k - 1 \notin T
    BY <2>1, <2>2, <2>3
  <2> HIDE DEF m
  <2>6. ~(Count(m + 1) > Len(Job))
    BY <2>4, <2>5
  <2>7. Count(m + 1) = Count(m) + Len(Files[m + 1]) /\ Len(Files[m + 1]) \in Nat
    BY <2>4, CountNext, LenProperties
  <2>8. Count(m) \in Nat /\ Count(m) > Len(Job)
    BY <2>2, <2>4, <1>1 DEF m
  <2> QED BY <2>2, <2>6, <2>7, <2>8
<1>3. Count(n) <= Len(Job)
  <2>1. Len(Files) - n \in 0 .. Len(Files) /\ Len(Files) - (Len(Files) - n) = n
    BY <1>0
  <2>2. ~(Count(n) > Len(Job))
    BY <2>1, <1>2
  <2> QED BY <2>2, <1>1, FilesFacts
<1>4. Admitted(n) = 1 .. Count(n)
  BY DEF Admitted, Count
<1>5. IsFiniteSet(1 .. Count(n)) /\ Cardinality(1 .. Count(n)) = Count(n)
  BY <1>1, FS_Interval, SMTT(60)
<1> QED BY <1>1, <1>3, <1>4, <1>5, FilesFacts

(* The submit times of the jobs are in order: the last one is the latest. *)
LEMMA LastSubmitType ==
  ASSUME NEW n \in 0 .. Len(Files), Admitted(n) # {}
  PROVE  LastSubmit(n) \in Nat
<1> DEFINE c == Count(n)
<1> DEFINE S == {Job[k].submit : k \in Admitted(n)}
<1>1. c \in Nat /\ Admitted(n) = 1 .. c /\ Admitted(n) \subseteq Jobs
  BY CountFacts
<1> HIDE DEF c
<1>2. c \in Admitted(n)
  BY <1>1
<1>3. \A k \in Jobs : Job[k].submit \in Nat
  <2>1. \A k \in 1 .. Len(Job) : Job[k] \in JobRecord
    BY FilesFacts, ElementOfSeq
  <2> QED BY <2>1, FilesFacts DEF JobRecord
<1>4. \A k \in Admitted(n) : Job[c].submit >= Job[k].submit
  <2> SUFFICES ASSUME NEW k \in Admitted(n) PROVE Job[c].submit >= Job[k].submit
    OBVIOUS
  <2>1. k \in Jobs /\ c \in Jobs /\ (k = c \/ k < c)
    BY <1>1, <1>2
  <2>2. Job[k].submit \in Nat /\ Job[c].submit \in Nat
    BY <2>1, <1>3
  <2> QED BY <2>1, <2>2, CheckpointAssumption
<1>5. Job[c].submit \in S /\ \A y \in S : Job[c].submit >= y
  BY <1>2, <1>4
<1>6. Max(S) \in S
  <2> HIDE DEF S
  <2> QED BY <1>5 DEF Max
<1> QED BY <1>1, <1>3, <1>6 DEF LastSubmit

-----------------------------------------------------------------------------
(* The archives. *)

LEMMA MinOfTwo ==
  ASSUME NEW x \in Int, NEW y \in Int
  PROVE  Min({x, y}) = IF x <= y THEN x ELSE y
<1> DEFINE m == IF x <= y THEN x ELSE y
<1>1. m \in {x, y} /\ \A z \in {x, y} : m <= z
  OBVIOUS
<1>2. \A w \in {x, y} : (\A z \in {x, y} : w <= z) => w = m
  OBVIOUS
<1> HIDE DEF m
<1>3. Min({x, y}) \in {x, y} /\ \A z \in {x, y} : Min({x, y}) <= z
  BY <1>1 DEF Min
<1>4. Min({x, y}) = m
  BY <1>2, <1>3
<1> QED BY <1>4 DEF m

LEMMA PrefixFacts ==
  ASSUME NEW r \in RowSeq, NEW n \in Nat, n <= Len(r)
  PROVE  SubSeq(r, 1, n) \in RowSeq /\ Len(SubSeq(r, 1, n)) = n
<1>1. \A i \in 1 .. n : r[i] \in Nat \ {0}
  BY DEF RowSeq
<1>2. /\ SubSeq(r, 1, n) \in RowSeq
      /\ Len(SubSeq(r, 1, n)) = IF 1 <= n THEN n - 1 + 1 ELSE 0
  BY <1>1, SubSeqProperties DEF RowSeq
<1> QED BY <1>2

(* More rows after a prefix leave it. *)
LEMMA PrefixOfConcat ==
  ASSUME NEW r \in RowSeq, NEW t \in RowSeq, NEW n \in Nat, n <= Len(r)
  PROVE  /\ r \o t \in RowSeq /\ Len(r \o t) = Len(r) + Len(t)
         /\ SubSeq(r \o t, 1, n) = SubSeq(r, 1, n)
<1>1. r \o t \in RowSeq /\ Len(r \o t) = Len(r) + Len(t)
  BY ConcatProperties DEF RowSeq
<1>2. CASE n = 0
  <2>1. SubSeq(r \o t, 1, 0) = << >> /\ SubSeq(r, 1, 0) = << >>
    BY SubSeqEmpty
  <2> QED BY <1>1, <1>2, <2>1
<1>3. CASE n # 0
  <2>1. Len(r) \in Nat /\ 1 \in 1 .. Len(r) /\ n \in 1 .. Len(r)
    BY <1>3 DEF RowSeq
  <2>2. SubSeq(r \o t, 1, n) = SubSeq(r, 1, n)
    BY <2>1, SubSeqOfConcat1 DEF RowSeq
  <2> QED BY <1>1, <2>2
<1> QED BY <1>2, <1>3

LEMMA KeptFacts ==
  ASSUME NEW a \in Archive
  PROVE  /\ Kept(a) \in RowSeq
         /\ a.boundary = NoBoundary => Kept(a) = << >>
         /\ a.boundary # NoBoundary /\ Len(a.rows) >= a.boundary =>
              Kept(a) = SubSeq(a.rows, 1, a.boundary)
<1>1. a.rows \in RowSeq /\ a.boundary \in Nat \cup {NoBoundary} /\ Len(a.rows) \in Nat
  <2>1. a.rows \in RowSeq /\ a.boundary \in Nat \cup {NoBoundary}
    BY DEF Archive
  <2> QED BY <2>1, LenProperties DEF RowSeq
<1>2. CASE a.boundary = NoBoundary
  <2>1. Kept(a) = << >>
    BY <1>2 DEF Kept
  <2> QED BY <1>2, <2>1 DEF RowSeq
<1>3. CASE a.boundary # NoBoundary
  <2> DEFINE m == Min({a.boundary, Len(a.rows)})
  <2>1. a.boundary \in Nat /\ m = IF a.boundary <= Len(a.rows) THEN a.boundary ELSE Len(a.rows)
    BY <1>1, <1>3, MinOfTwo DEF NoBoundary
  <2>2. m \in Nat /\ m <= Len(a.rows)
    BY <1>1, <2>1
  <2>3. Kept(a) = SubSeq(a.rows, 1, m)
    BY <1>3 DEF Kept
  <2> HIDE DEF m
  <2>4. SubSeq(a.rows, 1, m) \in RowSeq
    BY <1>1, <2>2, PrefixFacts
  <2> QED BY <1>1, <1>3, <2>1, <2>3, <2>4
<1> QED BY <1>2, <1>3

LEMMA FrontLast ==
  ASSUME NEW S, NEW a \in Seq(S), a # << >>
  PROVE  /\ Front(a) \in Seq(S) /\ Last(a) \in S /\ a = Append(Front(a), Last(a))
         /\ Len(a) \in Nat \ {0}
<1>1. Len(a) \in Nat \ {0}
  BY EmptySeq
<1>2. Last(a) \in S
  BY <1>1 DEF Last
<1>3. Front(a) = SubSeq(a, 1, Len(a) - 1)
  BY DEF Front
<1>4. Len(a) - 1 \in Int /\ \A i \in 1 .. Len(a) - 1 : a[i] \in S
  BY <1>1
<1>5. Front(a) \in Seq(S)
  BY <1>3, <1>4, SubSeqProperties
<1>6. SubSeq(a, 1, Len(a)) = SubSeq(a, 1, Len(a) - 1) \o <<a[Len(a)]>>
  <2>1. 1 \in 1 .. Len(a) /\ Len(a) \in 1 .. Len(a)
    BY <1>1
  <2> QED BY <2>1, SubSeqRecursiveSecond
<1>7. SubSeq(a, 1, Len(a)) = a
  BY SubSeqFull
<1>8. Append(Front(a), Last(a)) = Front(a) \o <<Last(a)>>
  BY <1>2, <1>5, AppendIsConcat
<1> QED BY <1>1, <1>2, <1>3, <1>5, <1>6, <1>7, <1>8 DEF Last

LEMMA AppendFrontLast ==
  ASSUME NEW S, NEW a \in Seq(S), NEW e \in S
  PROVE  /\ Append(a, e) \in Seq(S) /\ Append(a, e) # << >>
         /\ Front(Append(a, e)) = a /\ Last(Append(a, e)) = e
<1> DEFINE b == Append(a, e)
<1>1. b \in Seq(S) /\ b # << >>
  BY AppendProperties
<1> HIDE DEF b
<1>2. b = Append(Front(b), Last(b)) /\ Front(b) \in Seq(S) /\ Last(b) \in S
  BY <1>1, FrontLast
<1>3. Append(a, e) = Append(Front(b), Last(b))
  BY <1>2 DEF b
<1>4. a = Front(b) /\ e = Last(b)
  BY <1>2, <1>3, AppendInjective
<1> QED BY <1>1, <1>4 DEF b

(* What a stitch keeps of one more archive. *)
LEMMA KeptAppend ==
  ASSUME NEW a \in Seq(Archive), NEW e \in Archive
  PROVE  /\ KeptRows(a) \in RowSeq
         /\ KeptRows(Append(a, e)) = KeptRows(a) \o Kept(e)
<1> DEFINE k(b) == [i \in DOMAIN b |-> Kept(b[i])]
<1>1. \A b \in Seq(Archive) : k(b) \in Seq(RowSeq) /\ Len(k(b)) = Len(b)
  <2> SUFFICES ASSUME NEW b \in Seq(Archive) PROVE k(b) \in Seq(RowSeq) /\ Len(k(b)) = Len(b)
    OBVIOUS
  <2>1. DOMAIN b = 1 .. Len(b) /\ Len(b) \in Nat /\ \A i \in 1 .. Len(b) : b[i] \in Archive
    OBVIOUS
  <2>2. \A i \in 1 .. Len(b) : Kept(b[i]) \in RowSeq
    BY <2>1, KeptFacts
  <2> QED BY <2>1, <2>2
<1>2. KeptRows(a) \in RowSeq
  BY <1>1, FlattenType DEF KeptRows, RowSeq
<1>3. k(Append(a, e)) = Append(k(a), Kept(e))
  <2>1. /\ Append(a, e) \in Seq(Archive) /\ Len(Append(a, e)) = Len(a) + 1 /\ Len(a) \in Nat
        /\ \A i \in 1 .. Len(a) : Append(a, e)[i] = a[i]
        /\ Append(a, e)[Len(a) + 1] = e
        /\ DOMAIN a = 1 .. Len(a) /\ DOMAIN Append(a, e) = 1 .. Len(a) + 1
    OBVIOUS
  <2>2. Kept(e) \in RowSeq /\ k(a) \in Seq(RowSeq) /\ Len(k(a)) = Len(a)
    BY <1>1, KeptFacts
  <2>3. /\ Append(k(a), Kept(e)) \in Seq(RowSeq)
        /\ Len(Append(k(a), Kept(e))) = Len(a) + 1
        /\ \A i \in 1 .. Len(a) : Append(k(a), Kept(e))[i] = k(a)[i]
        /\ Append(k(a), Kept(e))[Len(a) + 1] = Kept(e)
    <3> HIDE DEF k
    <3> QED BY <2>2, AppendProperties
  <2>4. \A i \in 1 .. Len(a) + 1 : k(Append(a, e))[i] = Append(k(a), Kept(e))[i]
    <3> SUFFICES ASSUME NEW i \in 1 .. Len(a) + 1
                 PROVE  k(Append(a, e))[i] = Append(k(a), Kept(e))[i]
      OBVIOUS
    <3>1. k(Append(a, e))[i] = Kept(Append(a, e)[i])
      BY <2>1
    <3>2. CASE i = Len(a) + 1
      BY <3>1, <3>2, <2>1, <2>3
    <3>3. CASE i # Len(a) + 1
      <4>1. i \in 1 .. Len(a)
        BY <3>3, <2>1
      <4>2. k(a)[i] = Kept(a[i])
        BY <4>1, <2>1
      <4> HIDE DEF k
      <4> QED BY <4>1, <4>2, <3>1, <2>1, <2>3
    <3> QED BY <3>2, <3>3
  <2>5. k(Append(a, e)) \in Seq(RowSeq) /\ Len(k(Append(a, e))) = Len(a) + 1
    BY <1>1, <2>1
  <2> HIDE DEF k
  <2> QED BY <2>3, <2>4, <2>5, SeqEqual
<1>4. Kept(e) \in RowSeq /\ k(a) \in Seq(RowSeq)
  BY <1>1, KeptFacts
<1> HIDE DEF k
<1>5. FlattenSeq(Append(k(a), Kept(e))) = FlattenSeq(k(a)) \o Kept(e)
  BY <1>4, FlattenAppend DEF RowSeq
<1> QED BY <1>2, <1>3, <1>5 DEF KeptRows, k

LEMMA KeptEmpty == KeptRows(<< >>) = << >>
<1>1. [i \in DOMAIN << >> |-> Kept((<< >>)[i])] = << >>
  OBVIOUS
<1> QED BY <1>1, FlattenEmpty DEF KeptRows

-----------------------------------------------------------------------------
(* The state of a process. *)

Grows(q, p) == \A s \in Streams : Handed(q)[s] <= Handed(p)[s]

LEMMA CountedFacts ==
  ASSUME NEW p, Counted(p)
  PROVE  /\ p.clock \in Nat /\ p.file \in 0 .. Len(Files) /\ p.completed \subseteq Jobs
         /\ p.written \in Nat /\ p.history \in Nat /\ p.auto \in LastAuto
         /\ p.completed \subseteq Admitted(p.file) /\ p.written <= Count(p.file)
         /\ IsFiniteSet(p.completed) /\ Cardinality(p.completed) \in Nat
         /\ p.history <= Cardinality(p.completed)
         /\ Count(p.file) \in Nat /\ Count(p.file) <= Len(Job)
<1>1. /\ p.clock \in Nat /\ p.file \in 0 .. Len(Files) /\ p.completed \subseteq Jobs
      /\ p.written \in Nat /\ p.history \in Nat /\ p.auto \in LastAuto
      /\ p.completed \subseteq Admitted(p.file) /\ p.written <= Count(p.file)
      /\ p.history <= Cardinality(p.completed)
  BY DEF Counted, SimState, Known, Count
<1>2. IsFiniteSet(Admitted(p.file)) /\ Count(p.file) \in Nat /\ Count(p.file) <= Len(Job)
  BY <1>1, CountFacts
<1>3. IsFiniteSet(p.completed)
  BY <1>1, <1>2, FS_Subset
<1>4. Cardinality(p.completed) \in Nat
  BY <1>3, FS_CardinalityType
<1> QED BY <1>1, <1>2, <1>3, <1>4

LEMMA HandedFacts ==
  ASSUME NEW p, Counted(p)
  PROVE  /\ Handed(p)["jobs"] = p.written
         /\ Handed(p)["resources"] = Cardinality(p.completed) - p.history
         /\ \A s \in Streams : Handed(p)[s] \in Nat
<1>1. /\ p.written \in Nat /\ p.history \in Nat /\ Cardinality(p.completed) \in Nat
      /\ p.history <= Cardinality(p.completed)
  BY CountedFacts
<1>2. /\ Handed(p)["jobs"] = p.written
      /\ Handed(p)["resources"] = Cardinality(p.completed) - p.history
  BY DEF Handed, Streams
<1> QED BY <1>1, <1>2 DEF Streams

LEMMA RowsFacts ==
  ASSUME NEW q, NEW p, Counted(q), Counted(p), Grows(q, p), NEW s \in Streams
  PROVE  /\ Rows(q, p, s) \in RowSeq
         /\ Iota(Handed(q)[s]) \o Rows(q, p, s) = Iota(Handed(p)[s])
<1>1. Handed(q)[s] \in Nat /\ Handed(p)[s] \in Nat /\ Handed(q)[s] <= Handed(p)[s]
  BY HandedFacts DEF Grows
<1> QED BY <1>1, IotaExtend DEF Rows

LEMMA ModFacts ==
  ASSUME NEW x \in Nat, NEW m \in Nat \ {0}
  PROVE  x % m \in Nat /\ x % m <= x
OBVIOUS

(* A full history is handed over: fewer samples than were taken are left. *)
LEMMA SampledFacts ==
  ASSUME NEW p, Counted(p), NEW n \in Nat, NEW q, q \in SimState, q.history = p.history,
         NEW r, r = Sampled(q, n)
  PROVE  /\ r \in SimState /\ r.completed = q.completed /\ r.file = q.file
         /\ r.written = q.written /\ r.auto = q.auto
         /\ r.history \in Nat /\ r.history <= p.history + n
<1> DEFINE h == p.history + n
<1> DEFINE k == IF h <= HistoryCapacity THEN h ELSE ((h - 1) % HistoryCapacity) + 1
<1>1. h \in Nat /\ HistoryCapacity \in Nat \ {0}
  BY CountedFacts, CheckpointAssumption
<1>2. k \in Nat /\ k <= h
  <2>1. CASE h <= HistoryCapacity
    BY <1>1, <2>1
  <2>2. CASE ~(h <= HistoryCapacity)
    <3>1. h - 1 \in Nat
      BY <1>1, <2>2
    <3>2. (h - 1) % HistoryCapacity \in Nat /\ (h - 1) % HistoryCapacity <= h - 1
      <4> DEFINE x == h - 1
      <4>1. x \in Nat
        BY <3>1
      <4> HIDE DEF x
      <4>2. x % HistoryCapacity \in Nat /\ x % HistoryCapacity <= x
        BY <4>1, <1>1, ModFacts
      <4> QED BY <4>2 DEF x
    <3> HIDE DEF h
    <3> QED BY <3>1, <3>2, <2>2, <1>1
  <2> QED BY <2>1, <2>2
<1>3. r = [q EXCEPT !.history = k]
  BY DEF Sampled
<1> HIDE DEF k
<1>4. /\ r \in SimState /\ r.history = k /\ r.completed = q.completed /\ r.file = q.file
      /\ r.written = q.written /\ r.auto = q.auto
  BY <1>2, <1>3 DEF SimState
<1> QED BY <1>2, <1>4

LEMMA MaxExists ==
  ASSUME NEW a \in Nat, NEW b \in Nat, NEW S, S \subseteq a .. b, S # {}
  PROVE  Max(S) \in S
<1> DEFINE T == {k \in 0 .. b : b - k \in S}
<1>1. T \subseteq Nat
  OBVIOUS
<1>2. T # {}
  <2>1. PICK x \in S : TRUE
    OBVIOUS
  <2>2. b - x \in 0 .. b /\ b - (b - x) = x
    OBVIOUS
  <2>3. b - x \in T
    BY <2>2
  <2> QED BY <2>3
<1>3. PICK k \in T : \A y \in T : k <= y
  BY <1>1, <1>2, LeastExists
<1>4. b - k \in S /\ k \in 0 .. b
  BY <1>3
<1>5. ASSUME NEW y \in S PROVE b - k >= y
  <2>1. b - y \in 0 .. b /\ b - (b - y) = y /\ y \in Nat
    OBVIOUS
  <2>2. b - y \in T
    BY <2>1
  <2>3. k <= b - y
    BY <2>2, <1>3
  <2> HIDE DEF T
  <2> QED BY <2>1, <2>3, <1>4
<1> QED BY <1>4, <1>5 DEF Max

(* More rows are written, of jobs that were admitted. *)
LEMMA WrittenMore ==
  ASSUME NEW p, Counted(p), NEW w \in Nat, p.written <= w, w <= Count(p.file)
  PROVE  Counted([p EXCEPT !.written = w]) /\ Grows(p, [p EXCEPT !.written = w])
<1> DEFINE q == [p EXCEPT !.written = w]
<1>1. p \in SimState
  BY DEF Counted
<1>2. /\ q \in SimState /\ q.written = w /\ q.file = p.file /\ q.completed = p.completed
      /\ q.history = p.history
  BY <1>1 DEF SimState
<1> HIDE DEF q
<1>3. Counted(q)
  BY <1>2 DEF Counted, Known, Count
<1>4. Grows(p, q)
  BY <1>2, <1>3, HandedFacts DEF Grows, Streams
<1> QED BY <1>3, <1>4 DEF q

LEMMA ReclaimedFacts ==
  ASSUME NEW p, Counted(p), NEW batch \in Nat, NEW r, r = Reclaimed(p, batch)
  PROVE  /\ Counted(r) /\ Grows(p, r)
         /\ r.file = p.file /\ r.completed = p.completed /\ r.auto = p.auto
<1> DEFINE known == Cardinality(Admitted(p.file))
<1> DEFINE need == Max({0, known - p.written + batch - Capacity})
<1> DEFINE S == {k \in p.written .. known : \A i \in p.written + 1 .. k : i \in p.completed}
<1> DEFINE w == Min({p.written + need, Max(S)})
<1>0. p.file \in 0 .. Len(Files) /\ p.written \in Nat /\ p.written <= Count(p.file) /\ Capacity \in Nat
  BY CountedFacts, CheckpointAssumption
<1>1. known \in Nat /\ known = Count(p.file)
  BY <1>0, CountFacts
<1>2. need \in Nat
  <2> DEFINE x == known - p.written + batch - Capacity
  <2>1. x \in Int
    BY <1>0, <1>1
  <2> HIDE DEF x
  <2>2. \E y \in {0, x} : \A z \in {0, x} : y >= z
    <3>1. x >= 0 \/ 0 >= x
      BY <2>1
    <3> QED BY <2>1, <3>1
  <2>3. Max({0, x}) \in {0, x} /\ Max({0, x}) >= 0
    BY <2>2 DEF Max
  <2> QED BY <2>1, <2>3 DEF x
<1>3. Max(S) \in S
  <2>1. p.written \in S
    BY <1>0, <1>1
  <2>2. S \subseteq p.written .. known /\ S # {}
    BY <2>1
  <2> HIDE DEF S, known
  <2> QED BY <2>2, <1>0, <1>1, MaxExists
<1>4. Max(S) \in Nat /\ p.written <= Max(S) /\ Max(S) <= known
  BY <1>0, <1>1, <1>3
<1> HIDE DEF need, S, known
<1>5. w \in Nat /\ p.written <= w /\ w <= Count(p.file)
  <2>1. p.written + need \in Int /\ Max(S) \in Int
    BY <1>0, <1>2, <1>4
  <2>2. w = IF p.written + need <= Max(S) THEN p.written + need ELSE Max(S)
    BY <2>1, MinOfTwo
  <2> HIDE DEF w
  <2> QED BY <2>2, <1>0, <1>1, <1>2, <1>4
<1>6. r = [p EXCEPT !.written = w]
  BY DEF Reclaimed, DepartedFront, need, S, known
<1> HIDE DEF w
<1>7. r.file = p.file /\ r.completed = p.completed /\ r.auto = p.auto
  BY <1>6 DEF Counted, SimState
<1> QED BY <1>5, <1>6, <1>7, WrittenMore

(* The departures of an instant. *)
LEMMA AdvancedFacts ==
  ASSUME Counted(sim), phase \in {"advance", "drain"}, phase = "advance" => Admitted(sim.file) # {},
         Departures # {}, NEW t, t = Min(Departures),
         NEW gone, gone = {k \in Admitted(sim.file) \ sim.completed : Job[k].end = t},
         NEW p, p = Sampled([sim EXCEPT !.clock = t, !.completed = @ \cup gone], Cardinality(gone))
  PROVE  Counted(p) /\ Grows(sim, p) /\ p.file = sim.file /\ p.auto = sim.auto
<1> DEFINE q == [sim EXCEPT !.clock = t, !.completed = @ \cup gone]
<1>0. /\ sim \in SimState /\ sim.file \in 0 .. Len(Files) /\ sim.completed \subseteq Admitted(sim.file)
      /\ IsFiniteSet(sim.completed) /\ sim.completed \subseteq Jobs
  BY CountedFacts DEF Counted
<1>1. Admitted(sim.file) \subseteq Jobs /\ IsFiniteSet(Admitted(sim.file))
  BY <1>0, CountFacts
<1>2. \A k \in Jobs : Job[k].end \in Nat
  <2>1. \A k \in 1 .. Len(Job) : Job[k] \in JobRecord
    BY FilesFacts, ElementOfSeq
  <2> QED BY <2>1, FilesFacts DEF JobRecord
<1>3. t \in Nat
  <2>1. Departures \subseteq Nat
    BY <1>1, <1>2 DEF Departures
  <2>2. \E x \in Departures : \A y \in Departures : x <= y
    BY <2>1, LeastExists
  <2>3. Min(Departures) \in Departures
    BY <2>2 DEF Min
  <2> QED BY <2>1, <2>3
<1>4. /\ gone \subseteq Admitted(sim.file) /\ gone \subseteq Jobs
      /\ gone \cap sim.completed = {} /\ IsFiniteSet(gone)
  BY <1>1, FS_Subset
<1>5. /\ IsFiniteSet(sim.completed \cup gone) /\ Cardinality(gone) \in Nat
      /\ Cardinality(sim.completed) \in Nat
      /\ Cardinality(sim.completed \cup gone) = Cardinality(sim.completed) + Cardinality(gone)
  <2>1. Cardinality(sim.completed \cap gone) = 0
    <3>1. sim.completed \cap gone = {}
      BY <1>4
    <3> QED BY <3>1, FS_EmptySet
  <2>2. Cardinality(gone) \in Nat /\ Cardinality(sim.completed) \in Nat
    BY <1>0, <1>4, FS_CardinalityType
  <2>3. /\ IsFiniteSet(sim.completed \cup gone)
        /\ Cardinality(sim.completed \cup gone) =
             Cardinality(sim.completed) + Cardinality(gone) - Cardinality(sim.completed \cap gone)
    BY <1>0, <1>4, FS_Union
  <2> QED BY <2>1, <2>2, <2>3
<1>6. /\ q \in SimState /\ q.completed = sim.completed \cup gone /\ q.history = sim.history
      /\ q.file = sim.file /\ q.written = sim.written /\ q.auto = sim.auto
  <2>1. sim.completed \cup gone \in SUBSET Jobs
    BY <1>0, <1>4
  <2> QED BY <1>0, <1>3, <2>1 DEF SimState
<1> HIDE DEF q
<1>7. /\ p \in SimState /\ p.completed = sim.completed \cup gone
      /\ p.file = sim.file /\ p.written = sim.written /\ p.auto = sim.auto
      /\ p.history \in Nat /\ p.history <= sim.history + Cardinality(gone)
  <2>1. p = Sampled(q, Cardinality(gone))
    BY DEF q
  <2> DEFINE n == Cardinality(gone)
  <2>2. Counted(sim) /\ n \in Nat
    BY <1>5
  <2> HIDE DEF n
  <2>3. /\ p \in SimState /\ p.completed = q.completed /\ p.file = q.file
        /\ p.written = q.written /\ p.auto = q.auto
        /\ p.history \in Nat /\ p.history <= sim.history + n
    BY ONLY <2>1, <2>2, <1>6, SampledFacts DEF n
  <2> QED BY ONLY <2>3, <1>6 DEF n
<1>8. sim.history \in Nat /\ sim.history <= Cardinality(sim.completed)
  BY CountedFacts
<1>9. /\ p.history <= Cardinality(p.completed)
      /\ Cardinality(sim.completed) - sim.history <= Cardinality(p.completed) - p.history
  <2> SUFFICES ASSUME NEW c \in Nat, NEW n \in Nat, NEW h0 \in Nat, NEW h \in Nat, h0 <= c, h <= h0 + n
               PROVE  h <= c + n /\ c - h0 <= (c + n) - h
    BY ONLY <1>5, <1>7, <1>8
  <2> QED OBVIOUS
<1>10. Counted(p)
  <2>1. p.completed \subseteq Admitted(p.file)
    BY <1>0, <1>4, <1>7
  <2>2. p.written <= Known(p)
    BY <1>7 DEF Counted, Known
  <2> QED BY <1>7, <1>9, <2>1, <2>2 DEF Counted
<1>11. Grows(sim, p)
  <2>1. Handed(sim)["jobs"] <= Handed(p)["jobs"]
    <3>1. Handed(sim)["jobs"] = sim.written /\ Handed(p)["jobs"] = sim.written
      BY <1>7, <1>10, HandedFacts
    <3> QED BY <3>1, CountedFacts
  <2>2. Handed(sim)["resources"] <= Handed(p)["resources"]
    <3>1. /\ Handed(sim)["resources"] = Cardinality(sim.completed) - sim.history
          /\ Handed(p)["resources"] = Cardinality(p.completed) - p.history
      BY <1>10, HandedFacts
    <3> QED BY <3>1, <1>9
  <2> QED BY <2>1, <2>2 DEF Grows, Streams
<1> QED BY <1>7, <1>10, <1>11

-----------------------------------------------------------------------------
(* The initial state, and the steps that leave the outputs alone. *)

LEMMA RowSeqFacts ==
  /\ Missing \notin RowSeq /\ << >> \in RowSeq /\ << >> # Missing
  /\ \A r \in RowSeq : Len(r) \in Nat
<1>1. Missing \notin RowSeq
  <2> SUFFICES ASSUME Missing \in RowSeq PROVE FALSE
    OBVIOUS
  <2>1. Len(Missing) = 1 /\ Missing[1] = 0
    BY DEF Missing
  <2>2. 1 \in 1 .. Len(Missing)
    BY <2>1
  <2>3. Missing[1] \in Nat \ {0}
    BY <2>2, ElementOfSeq DEF RowSeq
  <2> QED BY <2>1, <2>3
<1>2. << >> \in RowSeq /\ \A r \in RowSeq : Len(r) \in Nat
  BY EmptySeq, LenProperties DEF RowSeq
<1> QED BY <1>1, <1>2

LEMMA FreshFacts == Counted(Fresh) /\ \A s \in Streams : Handed(Fresh)[s] = 0
<1>1. 0 \in 0 .. Len(Files)
  BY FilesFacts
<1>2. Count(0) \in Nat
  BY <1>1, CountFacts
<1>3. Cardinality({}) = 0
  BY FS_EmptySet
<1>4. Fresh \in SimState
  BY <1>1 DEF Fresh, SimState, LastAuto
<1>5. Counted(Fresh)
  BY <1>2, <1>3, <1>4 DEF Counted, Fresh, Known, Count
<1>6. Handed(Fresh)["jobs"] = 0 /\ Handed(Fresh)["resources"] = 0
  BY <1>3, <1>5, HandedFacts DEF Fresh
<1> QED BY <1>5, <1>6 DEF Streams

(* A checkpoint has none of the phases of None and Torn. *)
LEMMA SavedPhases == None \notin Saved /\ Torn \notin Saved /\ None # Torn
<1>1. \A c \in Saved : c.phase \in {"load", "advance", "drain"}
  BY DEF Saved
<1>2. None.phase = "none" /\ Torn.phase = "torn"
  BY DEF None, Torn
<1> QED BY <1>1, <1>2

THEOREM InvInit == Init => Inv
<1> SUFFICES ASSUME Init PROVE Inv
  OBVIOUS
<1> USE DEF Init
<1>1. TypeInv
  <2>1. sink \in {"file", "redis"}
    BY CheckpointAssumption
  <2>2. pending \in [Streams -> RowSeq] /\ active \in [Streams -> RowSeq \cup {Missing}]
    BY RowSeqFacts
  <2>3. archives \in [Streams -> Seq(Archive)]
    BY EmptySeq
  <2> QED BY <2>1, <2>2, <2>3, FreshFacts, SavedPhases DEF TypeInv, Phases
<1>2. OutputsInv
  BY RowSeqFacts DEF OutputsInv, Restarts, RestartJobs, RestartResources, Reopens
<1>3. FilesInv /\ SavingInv /\ RestartPossible
  BY DEF FilesInv, SavingInv, RestartPossible
<1>4. AutoInv
  <2>1. Cardinality(sim.completed) = 0 /\ sim.auto.jobs = 0
    BY FS_EmptySet DEF Fresh
  <2>2. saved = None /\ saved \notin Saved /\ saved # Torn
    BY SavedPhases
  <2> QED BY <2>1, <2>2, CheckpointAssumption DEF AutoInv, Running
<1>5. RunInv
  <2> SUFFICES ASSUME NEW s \in Streams
               PROVE  (KeptRows(archives[s]) \o active[s]) \o pending[s] = Iota(Handed(sim)[s])
    BY DEF RunInv, Reopens
  <2>1. archives[s] = << >> /\ active[s] = << >> /\ pending[s] = << >> /\ Handed(sim)[s] = 0
    BY FreshFacts
  <2>2. KeptRows(archives[s]) = << >>
    BY <2>1, KeptEmpty
  <2>3. Iota(0) = << >>
    BY DEF Iota
  <2>4. (<< >> \o << >>) \o << >> = << >>
    OBVIOUS
  <2> QED BY ONLY <2>1, <2>2, <2>3, <2>4
<1>6. LoadInv
  BY SavedPhases DEF LoadInv
<1> QED BY <1>1, <1>2, <1>3, <1>4, <1>5, <1>6 DEF Inv

(* A step that leaves the outputs, the archives and the checkpoint leaves  *)
(* what is said of them.                                                   *)
LEMMA Untouched ==
  ASSUME active' = active, archives' = archives, saved' = saved
  PROVE  \A s : /\ Whole(s)' <=> Whole(s)
                /\ Prefix(s)' <=> Prefix(s)
                /\ Unbounded(s)' <=> Unbounded(s)
                /\ Bounded(s)' <=> Bounded(s)
                /\ Reopened(s)' <=> Reopened(s)
BY DEF Whole, Prefix, Archived, Unbounded, Bounded, Reopened, SavedRows, KeptRows

(* A running process goes on, and hands nothing over. *)
LEMMA RunsOn ==
  ASSUME Inv, Running, Running',
         UNCHANGED <<sink, pending, active, archives, saved, used, cut, refused>>,
         \A s \in Streams : Handed(sim)'[s] = Handed(sim)[s]
  PROVE  OutputsInv' /\ RunInv' /\ LoadInv' /\ RestartPossible'
<1>1. OutputsInv'
  BY DEF Inv, OutputsInv, Running, Restarts, RestartJobs, RestartResources, Reopens
<1>2. RunInv'
  BY Untouched DEF Inv, RunInv, KeptRows, Running, Reopens
<1>3. LoadInv'
  <2>1. \A s : (Whole(s)' <=> Whole(s)) /\ (Prefix(s)' <=> Prefix(s))
    BY Untouched
  <2> QED BY <2>1 DEF Inv, LoadInv, Running, RestartJobs, RestartResources, Reopens
<1>4. RestartPossible'
  BY DEF Inv, RestartPossible
<1> QED BY <1>1, <1>2, <1>3, <1>4

LEMMA BeginDrainKeeps == ASSUME Inv, begin_drain PROVE Inv'
<1> USE DEF begin_drain
<1>1. Running /\ Running'
  BY DEF Running
<1>2. OutputsInv' /\ RunInv' /\ LoadInv' /\ RestartPossible'
  BY <1>1, RunsOn DEF Handed
<1>3. TypeInv'
  BY DEF Inv, TypeInv, Phases, Counted, Known
<1>4. FilesInv' /\ SavingInv'
  BY DEF FilesInv, SavingInv
<1>5. AutoInv'
  BY <1>1 DEF Inv, AutoInv, Running
<1> QED BY <1>2, <1>3, <1>4, <1>5 DEF Inv

LEMMA ReachTargetKeeps == ASSUME Inv, reach_target PROVE Inv'
<1> USE DEF reach_target
<1> DEFINE t == Max({sim.clock, LastSubmit(sim.file)})
<1>1. Running /\ Running'
  BY DEF Running
<1>2. sim.clock \in Nat /\ LastSubmit(sim.file) \in Nat
  <2>1. Counted(sim) /\ Admitted(sim.file) # {}
    BY DEF Inv, TypeInv, FilesInv
  <2> QED BY <2>1, CountedFacts, LastSubmitType
<1>3. t \in Nat
  <2>1. \E x \in {sim.clock, LastSubmit(sim.file)} : \A y \in {sim.clock, LastSubmit(sim.file)} : x >= y
    BY <1>2
  <2>2. t \in {sim.clock, LastSubmit(sim.file)}
    BY <2>1 DEF Max
  <2> QED BY <1>2, <2>2
<1>4. sim' = [sim EXCEPT !.clock = t]
  OBVIOUS
<1> HIDE DEF t
<1>5. /\ sim' \in SimState /\ sim'.file = sim.file /\ sim'.completed = sim.completed
      /\ sim'.written = sim.written /\ sim'.history = sim.history /\ sim'.auto = sim.auto
  <2>1. sim \in SimState
    BY DEF Inv, TypeInv, Counted
  <2> QED BY ONLY <1>3, <1>4, <2>1 DEF SimState
<1>6. Counted(sim)'
  BY <1>5 DEF Inv, TypeInv, Counted, Known
<1>7. OutputsInv' /\ RunInv' /\ LoadInv' /\ RestartPossible'
  <2>1. \A s \in Streams : Handed(sim)'[s] = Handed(sim)[s]
    BY <1>5 DEF Handed
  <2> QED BY <2>1, <1>1, RunsOn
<1>8. TypeInv'
  BY <1>6 DEF Inv, TypeInv, Phases
<1>9. FilesInv' /\ SavingInv'
  BY DEF FilesInv, SavingInv
<1>10. AutoInv'
  BY <1>1, <1>5 DEF Inv, AutoInv, Running
<1> QED BY <1>7, <1>8, <1>9, <1>10 DEF Inv

LEMMA NotDueKeeps == ASSUME Inv, not_due PROVE Inv'
<1> USE DEF not_due
<1>1. Running /\ Running' /\ phase' \in {"advance", "drain", "load"} /\ phase # "saving"
  BY DEF Running, After
<1>2. OutputsInv' /\ RunInv' /\ LoadInv' /\ RestartPossible'
  BY <1>1, RunsOn DEF Handed
<1>3. TypeInv'
  BY <1>1, ZenonT(60) DEF Inv, TypeInv, Phases, Counted, Known
<1>4. FilesInv' /\ SavingInv'
  BY DEF Inv, FilesInv, SavingInv, After
<1>5. AutoInv'
  <2>1. Cardinality(sim.completed) \in Nat /\ sim.auto.jobs \in Nat
    BY CountedFacts DEF Inv, TypeInv, LastAuto
  <2>2. Interval \in Nat
    BY CheckpointAssumption
  <2>3. Interval # 0 => Cardinality(sim.completed) - sim.auto.jobs < Interval
    <3> DEFINE c == Cardinality(sim.completed)
    <3>1. c = sim.auto.jobs \/ Interval = 0 \/ ~(c - sim.auto.jobs >= Interval)
      BY DEF Due
    <3>2. c \in Nat /\ sim.auto.jobs \in Nat
      BY <2>1
    <3> HIDE DEF c
    <3>3. Interval # 0 => c - sim.auto.jobs < Interval
      BY ONLY <3>1, <3>2, <2>2
    <3> QED BY <3>3 DEF c
  <2> QED BY <1>1, <2>3 DEF Inv, AutoInv, Running
<1> QED BY <1>2, <1>3, <1>4, <1>5 DEF Inv

(* A refused load changes nothing but the number of attempts. *)
LEMMA MatchKeeps == ASSUME Inv, require_checkpoint_match PROVE Inv'
<1> USE DEF require_checkpoint_match
<1>1. TypeInv'
  BY DEF Inv, TypeInv, Counted, Known
<1>2. OutputsInv'
  BY DEF Inv, OutputsInv, Running
<1>3. FilesInv' /\ SavingInv' /\ RestartPossible'
  BY DEF Inv, FilesInv, SavingInv, RestartPossible
<1>4. AutoInv' /\ RunInv'
  BY DEF Inv, AutoInv, RunInv, Running, Reopens
<1>5. LoadInv'
  BY Untouched DEF Inv, LoadInv, Loadable, Running, RestartJobs, RestartResources, Reopens
<1> QED BY <1>1, <1>2, <1>3, <1>4, <1>5 DEF Inv

-----------------------------------------------------------------------------
(* The steps that hand rows over. *)

LEMMA RowsAssociative ==
  ASSUME NEW a \in RowSeq, NEW b \in RowSeq, NEW c \in RowSeq
  PROVE  (a \o b) \o c = a \o (b \o c)
BY ConcatAssociative, SMTT(60) DEF RowSeq

LEMMA StreamTypes ==
  ASSUME Inv, NEW s \in Streams
  PROVE  /\ pending[s] \in RowSeq /\ archives[s] \in Seq(Archive) /\ KeptRows(archives[s]) \in RowSeq
         /\ active[s] # Missing => active[s] \in RowSeq
         /\ Running => active[s] \in RowSeq
<1>1. /\ pending[s] \in RowSeq /\ archives[s] \in Seq(Archive) /\ active[s] \in RowSeq \cup {Missing}
  BY DEF Inv, TypeInv
<1>2. Running => active[s] # Missing
  BY DEF Inv, OutputsInv
<1>3. [rows |-> << >>, boundary |-> NoBoundary] \in Archive
  BY RowSeqFacts DEF Archive
<1>4. KeptRows(archives[s]) \in RowSeq
  BY <1>1, <1>3, KeptAppend
<1> QED BY <1>1, <1>2, <1>4

(* What a running process that goes from sim to p makes of its streams. *)
LEMMA HandOverFacts ==
  ASSUME Inv, Running, NEW p, Counted(p), Grows(sim, p), NEW s \in Streams
  PROVE  /\ HandOver(p)[s] \in RowSeq
         /\ active[s] \o HandOver(p)[s] \in RowSeq
         /\ used # "again" =>
              /\ (KeptRows(archives[s]) \o active[s]) \o HandOver(p)[s] = Iota(Handed(p)[s])
              /\ KeptRows(archives[s]) \o (active[s] \o HandOver(p)[s]) = Iota(Handed(p)[s])
<1> DEFINE r == Rows(sim, p, s)
<1> DEFINE h == HandOver(p)[s]
<1> DEFINE k == KeptRows(archives[s])
<1>1. pending[s] \in RowSeq /\ active[s] \in RowSeq /\ k \in RowSeq
  BY StreamTypes
<1>2. r \in RowSeq /\ Iota(Handed(sim)[s]) \o r = Iota(Handed(p)[s])
  BY RowsFacts DEF Inv, TypeInv
<1>3. h = pending[s] \o r
  BY DEF HandOver
<1>4. used # "again" => (k \o active[s]) \o pending[s] = Iota(Handed(sim)[s])
  BY DEF Inv, RunInv
<1> HIDE DEF r, h, k
<1>5. h \in RowSeq /\ active[s] \o h \in RowSeq /\ k \o active[s] \in RowSeq
  BY ONLY <1>1, <1>2, <1>3, ConcatProperties DEF RowSeq
<1>6. (k \o active[s]) \o (pending[s] \o r) = ((k \o active[s]) \o pending[s]) \o r
  <2> DEFINE a == k \o active[s]
  <2>1. a \in RowSeq
    BY ONLY <1>5
  <2> HIDE DEF a
  <2>2. a \o (pending[s] \o r) = (a \o pending[s]) \o r
    BY ONLY <1>1, <1>2, <2>1, RowsAssociative
  <2> QED BY ONLY <2>2 DEF a
<1>7. (k \o active[s]) \o h = k \o (active[s] \o h)
  BY ONLY <1>1, <1>5, RowsAssociative
<1>8. used # "again" => (k \o active[s]) \o h = Iota(Handed(p)[s])
  BY ONLY <1>2, <1>3, <1>4, <1>6
<1> QED BY <1>5, <1>7, <1>8 DEF h, k

(* More rows leave the output as far as its boundary. *)
LEMMA OutputGrows ==
  ASSUME saved \in Saved, NEW s \in Streams, active[s] \in RowSeq,
         NEW x \in RowSeq, active'[s] = active[s] \o x,
         archives' = archives, saved' = saved, Whole(s), Prefix(s)
  PROVE  Whole(s)' /\ Prefix(s)'
<1> DEFINE b == saved.boundary[s]
<1>1. b \in Nat /\ b <= Len(active[s])
  <2>1. b \in Nat
    BY DEF Saved
  <2>2. Len(active[s]) >= b /\ Len(active[s]) \in Nat
    BY RowSeqFacts DEF Whole
  <2> QED BY ONLY <2>1, <2>2
<1>2. /\ active'[s] \in RowSeq /\ Len(active'[s]) = Len(active[s]) + Len(x)
      /\ SubSeq(active'[s], 1, b) = SubSeq(active[s], 1, b)
  BY <1>1, PrefixOfConcat
<1>3. Whole(s)'
  <2>1. Len(active[s]) \in Nat /\ Len(x) \in Nat
    BY RowSeqFacts
  <2>2. Len(active'[s]) >= b
    BY ONLY <1>1, <1>2, <2>1
  <2> QED BY <1>2, <2>2, RowSeqFacts DEF Whole
<1>4. Prefix(s)'
  BY <1>2 DEF Prefix, SavedRows
<1> QED BY <1>3, <1>4

Delivered(p, s) == active'[s] = active[s] \o HandOver(p)[s] /\ pending'[s] = << >>
Buffered(p, s) == active'[s] = active[s] /\ pending'[s] = HandOver(p)[s]

LEMMA HandsOver ==
  ASSUME Inv, Running, NEW p, Counted(p), Grows(sim, p), Handed(sim)' = Handed(p),
         UNCHANGED <<sink, archives, used>>, phase' \notin Restarts \cup {"down"},
         active' = [s \in Streams |-> active'[s]], pending' = [s \in Streams |-> pending'[s]],
         \A s \in Streams : Delivered(p, s) \/ Buffered(p, s)
  PROVE  /\ pending' \in [Streams -> RowSeq] /\ active' \in [Streams -> RowSeq]
         /\ OutputsInv' /\ RunInv'
<1>1. \A s \in Streams : pending'[s] \in RowSeq /\ active'[s] \in RowSeq
  <2> SUFFICES ASSUME NEW s \in Streams PROVE pending'[s] \in RowSeq /\ active'[s] \in RowSeq
    OBVIOUS
  <2>1. active[s] \in RowSeq /\ HandOver(p)[s] \in RowSeq /\ active[s] \o HandOver(p)[s] \in RowSeq
    BY StreamTypes, HandOverFacts
  <2> QED BY <2>1, RowSeqFacts DEF Delivered, Buffered
<1>2. pending' \in [Streams -> RowSeq] /\ active' \in [Streams -> RowSeq]
  BY ONLY <1>1, active' = [s \in Streams |-> active'[s]], pending' = [s \in Streams |-> pending'[s]]
<1>3. OutputsInv'
  <2>1. \A s \in Streams : active'[s] # Missing
    BY <1>1, RowSeqFacts
  <2> QED BY <2>1 DEF OutputsInv, Restarts, RestartJobs, RestartResources, Reopens
<1>4. RunInv'
  <2> SUFFICES ASSUME used # "again", NEW s \in Streams
               PROVE  (KeptRows(archives[s]) \o active'[s]) \o pending'[s] = Iota(Handed(sim)'[s])
    BY DEF RunInv, KeptRows, Restarts
  <2>1. /\ (KeptRows(archives[s]) \o active[s]) \o HandOver(p)[s] = Iota(Handed(p)[s])
        /\ KeptRows(archives[s]) \o (active[s] \o HandOver(p)[s]) = Iota(Handed(p)[s])
    BY HandOverFacts
  <2>2. Iota(Handed(p)[s]) \o << >> = Iota(Handed(p)[s])
    <3>1. Iota(Handed(p)[s]) \in RowSeq
      BY HandedFacts, IotaType
    <3> QED BY <3>1, ConcatEmptySeq DEF RowSeq
  <2>3. (KeptRows(archives[s]) \o active'[s]) \o pending'[s] = Iota(Handed(p)[s])
    <3>1. CASE Delivered(p, s)
      BY ONLY <2>1, <2>2, <3>1 DEF Delivered
    <3>2. CASE Buffered(p, s)
      BY ONLY <2>1, <3>2 DEF Buffered
    <3> QED BY <3>1, <3>2
  <2> QED BY <2>3
<1> QED BY <1>2, <1>3, <1>4

LEMMA HandsOverLoadable ==
  ASSUME Inv, Running, NEW p, Counted(p), Grows(sim, p),
         UNCHANGED <<sink, archives, saved, used>>, phase' \notin Restarts \cup {"down"},
         \A s \in Streams : Delivered(p, s) \/ Buffered(p, s)
  PROVE  LoadInv'
<1> SUFFICES ASSUME used = "no", saved \in Saved, NEW s \in Streams
             PROVE  Whole(s)' /\ Prefix(s)'
  BY DEF LoadInv, Restarts, RestartJobs, RestartResources, Reopens
<1>1. Whole(s) /\ Prefix(s)
  BY DEF Inv, LoadInv
<1>2. active[s] \in RowSeq /\ HandOver(p)[s] \in RowSeq
  BY StreamTypes, HandOverFacts
<1>3. \E x \in RowSeq : active'[s] = active[s] \o x
  <2>1. active[s] \o << >> = active[s] /\ << >> \in RowSeq
    BY <1>2, ConcatEmptySeq, RowSeqFacts DEF RowSeq
  <2> QED BY <1>2, <2>1 DEF Delivered, Buffered
<1> QED BY <1>1, <1>2, <1>3, OutputGrows

LEMMA FlushFacts ==
  ASSUME Inv, Running, NEW p, flush_job_range(p)
  PROVE  /\ \A s \in Streams : Delivered(p, s) \/ Buffered(p, s)
         /\ active' = [s \in Streams |-> active'[s]] /\ pending' = [s \in Streams |-> pending'[s]]
<1>1. ASSUME NEW s \in Streams PROVE Delivered(p, s) \/ Buffered(p, s)
  <2>1. active[s] \in RowSeq
    BY StreamTypes
  <2>2. active[s] \o << >> = active[s]
    BY <2>1, ConcatEmptySeq DEF RowSeq
  <2>3. CASE sink = "redis"
    BY <2>3 DEF flush_job_range, Delivered
  <2>4. CASE sink # "redis"
    BY <2>2, <2>4 DEF flush_job_range, Buffered
  <2> QED BY <2>3, <2>4
<1>2. active' = [s \in Streams |-> active'[s]] /\ pending' = [s \in Streams |-> pending'[s]]
  BY DEF flush_job_range
<1> QED BY <1>1, <1>2

LEMMA FileNext ==
  ASSUME NEW p, Counted(p), p.file < Len(Files), NEW q, q = [p EXCEPT !.file = @ + 1]
  PROVE  /\ Counted(q) /\ Handed(q) = Handed(p) /\ q.file = p.file + 1
         /\ q.completed = p.completed /\ q.auto = p.auto
         /\ Len(Files[q.file]) \in Nat
         /\ Len(Files[q.file]) # 0 => Admitted(q.file) # {}
<1>1. p \in SimState /\ p.file \in Nat /\ p.file + 1 \in 0 .. Len(Files) /\ p.file \in 0 .. Len(Files)
  BY FilesFacts DEF Counted, SimState
<1>2. /\ q \in SimState /\ q.file = p.file + 1 /\ q.completed = p.completed /\ q.written = p.written
      /\ q.history = p.history /\ q.auto = p.auto
  BY <1>1 DEF SimState
<1>3. /\ Count(q.file) = Count(p.file) + Len(Files[q.file]) /\ Len(Files[q.file]) \in Nat
  BY <1>1, <1>2, CountNext, LenProperties
<1>4. /\ Count(p.file) \in Nat /\ Admitted(p.file) = 1 .. Count(p.file)
      /\ Admitted(q.file) = 1 .. Count(q.file)
  BY <1>1, <1>2, CountFacts
<1>5. Admitted(p.file) \subseteq Admitted(q.file)
  BY ONLY <1>3, <1>4
<1>6. q.written <= Count(q.file)
  <2>1. p.written \in Nat /\ p.written <= Count(p.file)
    BY CountedFacts
  <2> QED BY ONLY <2>1, <1>2, <1>3, <1>4
<1>7. Counted(q)
  BY <1>2, <1>5, <1>6 DEF Counted, Known, Count
<1>8. Len(Files[q.file]) # 0 => Count(q.file) \in Admitted(q.file)
  BY ONLY <1>3, <1>4
<1> QED BY <1>2, <1>3, <1>7, <1>8 DEF Handed

LEMMA LoadNextFileKeeps == ASSUME Inv, load_next_file PROVE Inv'
<1> DEFINE batch == Len(Files[sim.file + 1])
<1> DEFINE p == Reclaimed(sim, batch)
<1> DEFINE next == [p EXCEPT !.file = @ + 1]
<1>0. phase = "load" /\ sim.file < Len(Files) /\ Counted(sim) /\ Running /\ phase # "saving"
  BY DEF load_next_file, Running, Inv, TypeInv
<1>1. UNCHANGED <<sink, archives, saved, saving, used, crashes, cut, refused>>
  BY DEF load_next_file
<1>2. RestartPossible'
  BY <1>1 DEF Inv, RestartPossible
<1>3. batch \in Nat
  <2> DEFINE q == [sim EXCEPT !.file = @ + 1]
  <2>1. Len(Files[q.file]) \in Nat /\ q.file = sim.file + 1
    BY <1>0, FileNext
  <2> QED BY <2>1
<1> HIDE DEF batch
<1>4. CASE batch = 0
  <2>1. /\ sim' = [sim EXCEPT !.file = @ + 1] /\ phase' = "boundary" /\ UNCHANGED <<pending, active>>
    BY <1>4 DEF load_next_file, batch
  <2>2. /\ Counted(sim') /\ Handed(sim') = Handed(sim) /\ sim'.completed = sim.completed
        /\ sim'.auto = sim.auto
    BY <1>0, <2>1, FileNext
  <2>3. OutputsInv' /\ RunInv' /\ LoadInv'
    <3>1. Running'
      BY <2>1 DEF Running
    <3>2. \A s \in Streams : Handed(sim)'[s] = Handed(sim)[s]
      BY <2>2
    <3> QED BY <1>0, <1>1, <2>1, <3>1, <3>2, RunsOn
  <2>4. TypeInv'
    BY <1>1, <2>1, <2>2 DEF Inv, TypeInv, Phases
  <2>5. FilesInv' /\ SavingInv'
    BY <2>1 DEF FilesInv, SavingInv
  <2>6. AutoInv'
    BY <1>0, <1>1, <2>1, <2>2 DEF Inv, AutoInv, Running
  <2> QED BY <1>2, <2>3, <2>4, <2>5, <2>6 DEF Inv
<1>5. CASE batch # 0
  <2>1. /\ flush_job_range(p)
        /\ (sim' = p /\ phase' = "aborted") \/ (sim' = next /\ phase' = "advance")
    BY <1>5 DEF load_next_file, batch
  <2>2. /\ Counted(p) /\ Grows(sim, p)
        /\ p.file = sim.file /\ p.completed = sim.completed /\ p.auto = sim.auto
    BY <1>0, <1>3, ReclaimedFacts
  <2> HIDE DEF p
  <2>3. /\ Counted(next) /\ Handed(next) = Handed(p) /\ Admitted(next.file) # {}
        /\ next.completed = p.completed /\ next.auto = p.auto
    <3>1. p.file < Len(Files)
      BY <1>0, <2>2
    <3>2. /\ Counted(next) /\ Handed(next) = Handed(p) /\ next.file = p.file + 1
          /\ next.completed = p.completed /\ next.auto = p.auto
          /\ Len(Files[next.file]) # 0 => Admitted(next.file) # {}
      BY <2>2, <3>1, FileNext
    <3>3. Len(Files[next.file]) # 0
      BY <1>5, <2>2, <3>2 DEF batch
    <3> QED BY <3>2, <3>3
  <2> HIDE DEF next
  <2>4. /\ Counted(sim') /\ Handed(sim') = Handed(p)
        /\ sim'.completed = sim.completed /\ sim'.auto = sim.auto
        /\ phase' = "advance" => Admitted(sim'.file) # {}
    BY <2>1, <2>2, <2>3
  <2>5. phase' \in {"aborted", "advance"} /\ phase' \notin Restarts \cup {"down"}
    BY <2>1 DEF Restarts, RestartJobs, RestartResources, Reopens
  <2>6. /\ \A s \in Streams : Delivered(p, s) \/ Buffered(p, s)
        /\ active' = [s \in Streams |-> active'[s]] /\ pending' = [s \in Streams |-> pending'[s]]
    BY <1>0, <2>1, FlushFacts
  <2>7. /\ pending' \in [Streams -> RowSeq] /\ active' \in [Streams -> RowSeq]
        /\ OutputsInv' /\ RunInv'
    BY <1>0, <1>1, <2>2, <2>4, <2>5, <2>6, HandsOver
  <2>8. LoadInv'
    BY <1>0, <1>1, <2>2, <2>5, <2>6, HandsOverLoadable
  <2>9. TypeInv'
    <3>1. active' \in [Streams -> RowSeq \cup {Missing}]
      BY <2>7
    <3> QED BY <1>1, <2>4, <2>5, <2>7, <3>1 DEF Inv, TypeInv, Phases
  <2>10. FilesInv' /\ SavingInv'
    BY <2>4, <2>5 DEF FilesInv, SavingInv
  <2>11. AutoInv'
    BY <1>0, <1>1, <2>4, <2>5 DEF Inv, AutoInv, Running
  <2> QED BY <1>2, <2>7, <2>8, <2>9, <2>10, <2>11 DEF Inv
<1> QED BY <1>4, <1>5

LEMMA AdvanceKeeps == ASSUME Inv, advance PROVE Inv'
<1> DEFINE t == Min(Departures)
<1> DEFINE gone == {k \in Admitted(sim.file) \ sim.completed : Job[k].end = t}
<1> DEFINE p == Sampled([sim EXCEPT !.clock = t, !.completed = @ \cup gone], Cardinality(gone))
<1>0. phase \in {"advance", "drain"} /\ Departures # {} /\ Counted(sim) /\ Running
  BY DEF advance, Running, Inv, TypeInv
<1>1. UNCHANGED <<sink, archives, saved, saving, used, crashes, cut, refused>>
  BY DEF advance
<1>2. /\ sim' = p /\ flush_job_range(p)
      /\ phase' = IF phase = "advance" THEN "settled" ELSE "settled drain"
  BY DEF advance
<1>3. Counted(p) /\ Grows(sim, p) /\ p.file = sim.file /\ p.auto = sim.auto
  <2>1. phase = "advance" => Admitted(sim.file) # {}
    BY DEF Inv, FilesInv
  <2> QED BY <1>0, <2>1, AdvancedFacts
<1> HIDE DEF p
<1>4. phase' \in {"settled", "settled drain"} /\ phase' \notin Restarts \cup {"down"}
  BY <1>2 DEF Restarts, RestartJobs, RestartResources, Reopens
<1>5. /\ \A s \in Streams : Delivered(p, s) \/ Buffered(p, s)
      /\ active' = [s \in Streams |-> active'[s]] /\ pending' = [s \in Streams |-> pending'[s]]
  BY <1>0, <1>2, FlushFacts
<1>6. /\ pending' \in [Streams -> RowSeq] /\ active' \in [Streams -> RowSeq]
      /\ OutputsInv' /\ RunInv'
  <2>1. Handed(sim)' = Handed(p)
    BY <1>2
  <2> QED BY <1>0, <1>1, <1>3, <1>4, <1>5, <2>1, HandsOver
<1>7. LoadInv'
  BY <1>0, <1>1, <1>3, <1>4, <1>5, HandsOverLoadable
<1>8. TypeInv'
  <2>1. active' \in [Streams -> RowSeq \cup {Missing}]
    BY <1>6
  <2>2. Counted(sim)'
    BY <1>2, <1>3 DEF Counted, Known
  <2> QED BY <1>1, <1>4, <1>6, <2>1, <2>2 DEF Inv, TypeInv, Phases
<1>9. FilesInv' /\ SavingInv' /\ RestartPossible'
  BY <1>0, <1>1, <1>2, <1>3, <1>4 DEF Inv, FilesInv, SavingInv, RestartPossible
<1>10. AutoInv'
  BY <1>0, <1>1, <1>2, <1>3, <1>4 DEF Inv, AutoInv, Running
<1> QED BY <1>6, <1>7, <1>8, <1>9, <1>10 DEF Inv

LEMMA FinishKeeps == ASSUME Inv, finish PROVE Inv'
<1> DEFINE p == [sim EXCEPT !.written = Len(Job), !.history = 0]
<1>0. phase = "drain" /\ Departures = {} /\ Counted(sim) /\ Running /\ sim.file = Len(Files)
  BY DEF finish, Running, Inv, TypeInv, FilesInv
<1>1. UNCHANGED <<sink, archives, saved, saving, used, crashes, cut, refused>>
  BY DEF finish
<1>2. /\ sim' = p /\ phase' = "done"
      /\ active' = [s \in Streams |-> active[s] \o HandOver(p)[s]]
      /\ pending' = [s \in Streams |-> << >>]
  BY DEF finish
<1>3. /\ p \in SimState /\ p.written = Len(Job) /\ p.history = 0 /\ p.completed = sim.completed
      /\ p.file = sim.file /\ p.auto = sim.auto
  <2>1. sim \in SimState /\ Len(Job) \in Nat
    BY <1>0, FilesFacts DEF Counted
  <2> QED BY ONLY <2>1 DEF SimState
<1> HIDE DEF p
<1>4. Count(sim.file) = Len(Job) /\ Len(Job) \in Nat
  BY <1>0, FilesFacts
<1>5. /\ sim.written \in Nat /\ sim.written <= Len(Job) /\ sim.history \in Nat
      /\ Cardinality(sim.completed) \in Nat
  BY <1>0, <1>4, CountedFacts
<1>6. Counted(p)
  <2>1. p.written <= Known(p) /\ p.completed \subseteq Admitted(p.file)
    BY <1>0, <1>3, <1>4 DEF Counted, Known, Count
  <2>2. p.history <= Cardinality(p.completed)
    BY ONLY <1>3, <1>5
  <2> QED BY <1>3, <2>1, <2>2 DEF Counted
<1>7. Grows(sim, p)
  <2>1. /\ Handed(sim)["jobs"] = sim.written /\ Handed(p)["jobs"] = Len(Job)
        /\ Handed(sim)["resources"] = Cardinality(sim.completed) - sim.history
        /\ Handed(p)["resources"] = Cardinality(sim.completed) - 0
    BY <1>0, <1>3, <1>6, HandedFacts
  <2>2. Handed(sim)["jobs"] <= Handed(p)["jobs"] /\ Handed(sim)["resources"] <= Handed(p)["resources"]
    BY ONLY <2>1, <1>4, <1>5
  <2> QED BY <2>2 DEF Grows, Streams
<1>8. p.completed = Jobs
  <2>1. Admitted(sim.file) = Jobs
    BY <1>0, <1>4, CountFacts, FilesFacts
  <2>2. Admitted(sim.file) \ sim.completed = {}
    BY <1>0 DEF Departures
  <2>3. sim.completed \subseteq Jobs
    BY <1>0, CountedFacts
  <2> QED BY <1>3, <2>1, <2>2, <2>3
<1>9. \A s \in Streams : Delivered(p, s)
  BY <1>2 DEF Delivered
<1>10. phase' \notin Restarts \cup {"down"}
  BY <1>2 DEF Restarts, RestartJobs, RestartResources, Reopens
<1>11. /\ pending' \in [Streams -> RowSeq] /\ active' \in [Streams -> RowSeq]
       /\ OutputsInv' /\ RunInv'
  <2>1. Handed(sim)' = Handed(p)
    BY <1>2
  <2>2. active' = [s \in Streams |-> active'[s]] /\ pending' = [s \in Streams |-> pending'[s]]
    BY <1>2
  <2> QED BY <1>0, <1>1, <1>6, <1>7, <1>9, <1>10, <2>1, <2>2, HandsOver
<1>12. LoadInv'
  BY <1>0, <1>1, <1>6, <1>7, <1>9, <1>10, HandsOverLoadable
<1>13. TypeInv'
  <2>1. active' \in [Streams -> RowSeq \cup {Missing}]
    BY <1>11
  <2>2. Counted(sim)'
    BY <1>2, <1>6 DEF Counted, Known
  <2> QED BY <1>1, <1>2, <1>11, <2>1, <2>2 DEF Inv, TypeInv, Phases
<1>14. FilesInv' /\ SavingInv' /\ RestartPossible'
  BY <1>0, <1>1, <1>2, <1>3, <1>8 DEF Inv, FilesInv, SavingInv, RestartPossible
<1>15. AutoInv'
  BY <1>0, <1>1, <1>2, <1>3 DEF Inv, AutoInv, Running
<1> QED BY <1>11, <1>12, <1>13, <1>14, <1>15 DEF Inv

(* The first row of a stream arrives. *)
LEMMA WriteBehindKeeps == ASSUME Inv, NEW s \in Streams, write_behind(s) PROVE Inv'
<1> DEFINE x == <<Head(pending[s])>>
<1> DEFINE y == Tail(pending[s])
<1>0. pending[s] # << >> /\ phase \notin Restarts \cup {"down", "saving"}
  <2>1. pending[s] # << >>
    BY DEF write_behind
  <2>2. phase \in Restarts \cup {"down"} => pending[s] = << >>
    BY DEF Inv, OutputsInv
  <2>3. phase = "saving" => pending[s] = << >>
    BY DEF Inv, SavingInv
  <2> QED BY <2>1, <2>2, <2>3
<1>1. /\ UNCHANGED <<sink, phase, sim, archives, saved, saving, used, crashes, cut, refused>>
      /\ active' = [active EXCEPT ![s] = Append(@, Head(pending[s]))]
      /\ pending' = [pending EXCEPT ![s] = Tail(@)]
  BY DEF write_behind
<1>2. Running \/ phase = "aborted"
  BY <1>0 DEF Inv, TypeInv, Phases, Running
<1>3. /\ pending \in [Streams -> RowSeq] /\ active \in [Streams -> RowSeq \cup {Missing}]
      /\ active[s] \in RowSeq /\ pending[s] \in RowSeq
  BY <1>2, StreamTypes DEF Inv, TypeInv, OutputsInv
<1>4. x \in RowSeq /\ y \in RowSeq /\ pending[s] = x \o y /\ Append(active[s], Head(pending[s])) = active[s] \o x
  <2> DEFINE q == pending[s]
  <2>1. q \in RowSeq /\ q # << >>
    BY <1>0, <1>3
  <2> HIDE DEF q
  <2>2. Head(q) \in Nat \ {0} /\ Tail(q) \in RowSeq
    BY ONLY <2>1, HeadTailProperties DEF RowSeq
  <2>3. <<Head(q)>> \in RowSeq
    BY ONLY <2>2 DEF RowSeq
  <2>4. q = <<Head(q)>> \o Tail(q)
    BY ONLY <2>1, <2>2, <2>3 DEF RowSeq
  <2>5. Append(active[s], Head(q)) = active[s] \o <<Head(q)>>
    BY ONLY <1>3, <2>2, AppendIsConcat DEF RowSeq
  <2> QED BY ONLY <2>2, <2>3, <2>4, <2>5 DEF q
<1>5. active'[s] = active[s] \o x /\ pending'[s] = y
  <2>1. active'[s] = Append(active[s], Head(pending[s])) /\ pending'[s] = y
    BY ONLY <1>1, <1>3, s \in Streams
  <2> QED BY ONLY <2>1, <1>4
<1>6. \A z \in Streams : z # s => active'[z] = active[z] /\ pending'[z] = pending[z]
  BY ONLY <1>1, <1>3
<1>7. active[s] \o x \in RowSeq
  BY <1>3, <1>4, ConcatProperties DEF RowSeq
<1> HIDE DEF x, y
<1>8. TypeInv'
  <2>1. pending' \in [Streams -> RowSeq] /\ active' \in [Streams -> RowSeq \cup {Missing}]
    BY ONLY <1>1, <1>3, <1>4, <1>5, <1>7, s \in Streams
  <2> QED BY <1>1, <2>1 DEF Inv, TypeInv, Counted, Known
<1>9. OutputsInv'
  <2>1. \A z \in Streams : active[z] # Missing
    BY <1>2 DEF Inv, OutputsInv
  <2>2. \A z \in Streams : active'[z] # Missing
    BY <1>5, <1>6, <1>7, <2>1, RowSeqFacts
  <2> QED BY <1>0, <1>1, <2>2 DEF OutputsInv, Restarts, RestartJobs, RestartResources, Reopens
<1>10. FilesInv' /\ SavingInv' /\ RestartPossible'
  BY <1>0, <1>1 DEF Inv, FilesInv, SavingInv, RestartPossible
<1>11. AutoInv'
  BY <1>1 DEF Inv, AutoInv, Running
<1>12. RunInv'
  <2> SUFFICES ASSUME Running, used # "again", NEW z \in Streams
               PROVE  (KeptRows(archives[z]) \o active'[z]) \o pending'[z] = Iota(Handed(sim)[z])
    BY <1>0, <1>1 DEF RunInv, KeptRows, Running, Handed, Restarts
  <2> DEFINE k == KeptRows(archives[z])
  <2>1. (k \o active[z]) \o pending[z] = Iota(Handed(sim)[z])
    BY DEF Inv, RunInv
  <2>2. k \in RowSeq
    BY StreamTypes
  <2> HIDE DEF k
  <2>3. CASE z = s
    <3> DEFINE a == k \o active[s]
    <3>1. a \in RowSeq
      BY <1>3, <2>2, ConcatProperties DEF RowSeq
    <3>2. (k \o (active[s] \o x)) = a \o x
      BY ONLY <1>3, <1>4, <2>2, RowsAssociative
    <3> HIDE DEF a
    <3>3. (a \o x) \o y = a \o (x \o y)
      BY ONLY <3>1, <1>4, RowsAssociative
    <3>4. (k \o active'[s]) \o pending'[s] = a \o pending[s]
      BY ONLY <1>4, <1>5, <3>2, <3>3
    <3> QED BY <2>1, <2>3, <3>4 DEF a, k
  <2>4. CASE z # s
    BY <1>6, <2>1, <2>4 DEF k
  <2> QED BY <2>3, <2>4
<1>13. LoadInv'
  <2> SUFFICES ASSUME Running, used = "no", saved \in Saved, NEW z \in Streams
               PROVE  Whole(z)' /\ Prefix(z)'
    BY <1>0, <1>1 DEF LoadInv, Restarts, RestartJobs, RestartResources, Reopens, Running
  <2>1. Whole(z) /\ Prefix(z) /\ active[z] \in RowSeq
    BY StreamTypes DEF Inv, LoadInv
  <2>2. CASE z = s
    BY <1>1, <1>4, <1>5, <2>1, <2>2, OutputGrows
  <2>3. CASE z # s
    BY <1>1, <1>6, <2>1, <2>3 DEF Whole, Prefix, SavedRows, KeptRows
  <2> QED BY <2>2, <2>3
<1> QED BY <1>8, <1>9, <1>10, <1>11, <1>12, <1>13 DEF Inv

-----------------------------------------------------------------------------
(* Saving. *)

LEMMA SaveBeginKeeps == ASSUME Inv, save_begin PROVE Inv'
<1> DEFINE auto == [has |-> TRUE, jobs |-> Cardinality(sim.completed), time |-> sim.clock]
<1> DEFINE q == [[sim EXCEPT !.auto = auto] EXCEPT !.history = 0]
<1>0. phase \in {"settled", "settled drain", "boundary"} /\ Counted(sim) /\ Running
  BY DEF save_begin, Running, Inv, TypeInv
<1>1. /\ UNCHANGED <<sink, archives, used, crashes, cut, refused>> /\ saved' = Torn /\ phase' = "saving"
      /\ sim' = q /\ pending' = [s \in Streams |-> << >>]
      /\ active' = [s \in Streams |-> active[s] \o HandOver(q)[s]]
      /\ saving' = [phase |-> After(phase), run |-> SavedRun(q), store |-> SavedStore(q),
                    boundary |-> checkpoint_boundary(active')]
  BY DEF save_begin, Snapshot, Remembered
<1>2. auto \in LastAuto /\ auto.jobs = Cardinality(sim.completed)
  BY <1>0, CountedFacts DEF LastAuto
<1> HIDE DEF auto
<1>3. /\ q \in SimState /\ q.history = 0 /\ q.written = sim.written /\ q.completed = sim.completed
      /\ q.file = sim.file /\ q.auto = auto
  <2>1. sim \in SimState
    BY <1>0 DEF Counted
  <2> QED BY ONLY <1>2, <2>1 DEF SimState
<1> HIDE DEF q
<1>4. /\ sim.written \in Nat /\ sim.history \in Nat /\ Cardinality(sim.completed) \in Nat
  BY <1>0, CountedFacts
<1>5. Counted(q)
  <2>1. q.history <= Cardinality(q.completed)
    BY ONLY <1>3, <1>4
  <2> QED BY <1>0, <1>3, <2>1 DEF Counted, Known
<1>6. Grows(sim, q)
  <2>1. /\ Handed(sim)["jobs"] = sim.written /\ Handed(q)["jobs"] = sim.written
        /\ Handed(sim)["resources"] = Cardinality(sim.completed) - sim.history
        /\ Handed(q)["resources"] = Cardinality(sim.completed) - 0
    BY <1>0, <1>3, <1>5, HandedFacts
  <2>2. Handed(sim)["jobs"] <= Handed(q)["jobs"] /\ Handed(sim)["resources"] <= Handed(q)["resources"]
    BY ONLY <2>1, <1>4
  <2> QED BY <2>2 DEF Grows, Streams
<1>7. phase' \notin Restarts \cup {"down"}
  BY <1>1 DEF Restarts, RestartJobs, RestartResources, Reopens
<1>8. /\ pending' \in [Streams -> RowSeq] /\ active' \in [Streams -> RowSeq]
      /\ OutputsInv' /\ RunInv'
  <2>1. Handed(sim)' = Handed(q)
    BY <1>1
  <2>2. active' = [s \in Streams |-> active'[s]] /\ pending' = [s \in Streams |-> pending'[s]]
    BY <1>1
  <2>3. \A s \in Streams : Delivered(q, s)
    BY <1>1 DEF Delivered
  <2> QED BY <1>0, <1>1, <1>5, <1>6, <1>7, <2>1, <2>2, <2>3, HandsOver
<1>9. LoadInv'
  BY <1>1, SavedPhases DEF LoadInv
<1>10. saving' \in Saved /\ Loaded(saving') = q
  <2>1. /\ SavedRun(q) \in [clock : Nat, file : 0 .. Len(Files), completed : SUBSET Jobs, auto : LastAuto]
        /\ SavedStore(q) \in [written : Nat, history : Nat]
    BY ONLY <1>3 DEF SavedRun, SavedStore, SimState
  <2>2. checkpoint_boundary(active') \in [Streams -> Nat]
    BY <1>8, RowSeqFacts DEF checkpoint_boundary
  <2>3. After(phase) \in {"load", "advance", "drain"}
    BY <1>0 DEF After
  <2>4. saving' \in Saved
    BY ONLY <1>1, <2>1, <2>2, <2>3 DEF Saved
  <2>5. Loaded(saving') = q
    <3>1. /\ saving'.run.clock = q.clock /\ saving'.run.file = q.file /\ saving'.run.completed = q.completed
          /\ saving'.run.auto = q.auto /\ saving'.store.written = q.written
          /\ saving'.store.history = q.history
      BY ONLY <1>1 DEF SavedRun, SavedStore
    <3>2. q = [clock |-> q.clock, file |-> q.file, completed |-> q.completed, auto |-> q.auto,
               written |-> q.written, history |-> q.history]
      BY ONLY <1>3 DEF SimState
    <3> QED BY ONLY <3>1, <3>2 DEF Loaded
  <2> QED BY <2>4, <2>5
<1>11. TypeInv'
  <2>1. active' \in [Streams -> RowSeq \cup {Missing}]
    BY <1>8
  <2>2. Counted(sim)' /\ Counted(Loaded(saving))'
    BY <1>1, <1>5, <1>10 DEF Counted, Known
  <2> QED BY <1>1, <1>8, <1>10, <2>1, <2>2, SavedPhases DEF Inv, TypeInv, Phases
<1>12. FilesInv'
  <2>1. saving'.phase = After(phase) /\ sim'.file = sim.file
    BY ONLY <1>1, <1>3
  <2> QED BY <1>0, <1>1, <2>1 DEF Inv, FilesInv, After
<1>13. SavingInv'
  <2>1. \A s \in Streams : pending'[s] = << >> /\ saving'.boundary[s] = Len(active'[s])
    BY ONLY <1>1 DEF checkpoint_boundary
  <2> QED BY <1>1, <1>10, <2>1 DEF SavingInv
<1>14. AutoInv'
  BY <1>1, <1>2, <1>3, SavedPhases DEF AutoInv
<1>15. RestartPossible'
  BY <1>1 DEF Inv, RestartPossible
<1> QED BY <1>8, <1>9, <1>11, <1>12, <1>13, <1>14, <1>15 DEF Inv

LEMMA SaveEndKeeps == ASSUME Inv, save_end PROVE Inv'
<1>0. /\ phase = "saving" /\ Running /\ saving \in Saved /\ Loaded(saving) = sim
      /\ \A s \in Streams : pending[s] = << >> /\ saving.boundary[s] = Len(active[s])
  BY DEF save_end, Running, Inv, SavingInv
<1>1. /\ UNCHANGED <<sink, sim, pending, active, archives, crashes, cut, refused>>
      /\ saved' = saving /\ saving' = None /\ phase' = saving.phase
      /\ used' = IF used = "again" THEN used ELSE "no"
  BY DEF save_end
<1>2. phase' \in {"load", "advance", "drain"} /\ Running'
  BY <1>0, <1>1 DEF Saved, Running
<1>3. TypeInv'
  BY <1>0, <1>1, <1>2, SavedPhases DEF Inv, TypeInv, Phases, Counted, Known
<1>4. OutputsInv'
  BY <1>0, <1>1, <1>2 DEF Inv, OutputsInv, Restarts, RestartJobs, RestartResources, Reopens
<1>5. FilesInv' /\ SavingInv' /\ RestartPossible'
  BY <1>0, <1>1, <1>2 DEF Inv, FilesInv, SavingInv, RestartPossible
<1>6. AutoInv'
  <2>1. saving.run.auto = sim.auto /\ saving.run.completed = sim.completed
    BY <1>0 DEF Loaded
  <2>2. sim.auto.jobs = Cardinality(sim.completed) /\ Cardinality(sim.completed) \in Nat
    BY <1>0, CountedFacts DEF Inv, AutoInv, TypeInv
  <2>3. Interval # 0 => Cardinality(sim.completed) - sim.auto.jobs < Interval
    BY <2>2, CheckpointAssumption
  <2> QED BY <1>0, <1>1, <1>2, <2>1, <2>2, <2>3, SavedPhases DEF AutoInv
<1>7. RunInv'
  BY <1>0, <1>1 DEF Inv, RunInv, Running, Reopens, Saved, KeptRows, Handed
<1>8. LoadInv'
  <2> SUFFICES ASSUME used # "again", NEW s \in Streams
               PROVE  Whole(s)' /\ Prefix(s)'
    BY <1>1, <1>2 DEF LoadInv, Restarts, RestartJobs, RestartResources, Reopens
  <2> DEFINE k == KeptRows(archives[s])
  <2>1. active[s] \in RowSeq /\ k \in RowSeq /\ pending[s] = << >>
    BY <1>0, StreamTypes
  <2>2. (k \o active[s]) \o pending[s] = Iota(Handed(sim)[s])
    BY <1>0 DEF Inv, RunInv
  <2> HIDE DEF k
  <2>3. k \o active[s] = Iota(Handed(sim)[s])
    <3> DEFINE a == k \o active[s]
    <3>1. a \in RowSeq
      BY <2>1, ConcatProperties DEF RowSeq
    <3> HIDE DEF a
    <3>2. a \o << >> = a
      BY <3>1, ConcatEmptySeq DEF RowSeq
    <3> QED BY <2>1, <2>2, <3>2 DEF a
  <2>4. saved'.boundary[s] = Len(active[s]) /\ SavedRows(s)' = Iota(Handed(sim)[s])
    BY <1>0, <1>1 DEF SavedRows
  <2>5. SubSeq(active[s], 1, Len(active[s])) = active[s]
    BY <2>1, SubSeqFull DEF RowSeq
  <2>6. Prefix(s)'
    BY <1>1, <2>3, <2>4, <2>5 DEF Prefix, k
  <2>7. Whole(s)'
    <3>1. Len(active[s]) \in Nat /\ active[s] # Missing
      BY <2>1, RowSeqFacts
    <3> QED BY <1>1, <2>4, <3>1 DEF Whole
  <2> QED BY <2>6, <2>7
<1> QED BY <1>3, <1>4, <1>5, <1>6, <1>7, <1>8 DEF Inv

-----------------------------------------------------------------------------
(* Crashing and loading. *)

(* A new output that is shorter than the boundary is not loaded again; one *)
(* that is not has an empty boundary.                                      *)
LEMMA ReopenedLoadable ==
  ASSUME Inv, saved \in Saved, NEW s \in Streams, Reopened(s)
  PROVE  Whole(s) => Prefix(s)
<1> SUFFICES ASSUME Whole(s) PROVE Prefix(s)
  OBVIOUS
<1> DEFINE k == KeptRows(archives[s])
<1>1. active[s] = << >> /\ k = SavedRows(s) /\ k \in RowSeq
  BY StreamTypes DEF Reopened
<1>2. saved.boundary[s] = 0
  <2>1. saved.boundary[s] \in Nat
    BY DEF Saved
  <2>2. Len(<< >>) >= saved.boundary[s]
    BY <1>1 DEF Whole
  <2>3. Len(<< >>) = 0
    OBVIOUS
  <2> QED BY ONLY <2>1, <2>2, <2>3
<1>3. SubSeq(active[s], 1, 0) = << >>
  BY SubSeqEmpty
<1> HIDE DEF k
<1>4. k \o << >> = k
  BY <1>1, ConcatEmptySeq DEF RowSeq
<1> QED BY <1>1, <1>2, <1>3, <1>4 DEF Prefix, k

LEMMA CrashKeeps == ASSUME Inv, crash PROVE Inv'
<1>0. /\ phase \notin {"down", "done", "aborted"} /\ phase' = "down" /\ sim' = Fresh /\ saving' = None
      /\ pending' = [s \in Streams |-> << >>] /\ crashes' = crashes + 1 /\ cut' = (cut \/ ~Running)
      /\ UNCHANGED <<sink, active, archives, saved, used, refused>>
  BY DEF crash, Up
<1>1. TypeInv'
  <2>1. pending' \in [Streams -> RowSeq]
    BY <1>0, RowSeqFacts
  <2>2. Counted(sim)' /\ saving' \notin Saved
    BY <1>0, FreshFacts, SavedPhases DEF Counted, Known
  <2>3. saved' \in Saved => Counted(Loaded(saved))'
    BY <1>0 DEF Inv, TypeInv, Counted, Known
  <2>4. crashes' \in Nat /\ cut' \in BOOLEAN
    BY <1>0 DEF Inv, TypeInv
  <2> QED BY <1>0, <2>1, <2>2, <2>3, <2>4 DEF Inv, TypeInv, Phases
<1>2. OutputsInv'
  BY <1>0 DEF Inv, OutputsInv, Running, Restarts, RestartJobs, RestartResources, Reopens
<1>3. FilesInv' /\ SavingInv'
  BY <1>0 DEF FilesInv, SavingInv
<1>4. RestartPossible'
  BY <1>0 DEF Inv, RestartPossible
<1>5. AutoInv' /\ RunInv'
  BY <1>0 DEF Inv, AutoInv, RunInv, Running, Reopens
<1>6. LoadInv'
  <2> SUFFICES ASSUME used = "no", saved \in Saved
               PROVE  /\ sink = "file" => Loadable("jobs")' /\ Loadable("resources")'
                      /\ sink = "redis" =>
                           \A s \in Streams : (Whole(s) /\ Prefix(s)) \/ Unbounded(s)
    <3>1. ~Running'
      BY <1>0 DEF Running
    <3> QED BY <1>0, <3>1, Untouched DEF LoadInv, RestartJobs, RestartResources, Reopens
  <2>1. sink = "file" => \A s \in Streams : (Whole(s) => Prefix(s)) /\ (Running => Whole(s))
    <3> SUFFICES ASSUME sink = "file", NEW s \in Streams
                 PROVE  (Whole(s) => Prefix(s)) /\ (Running => Whole(s))
      OBVIOUS
    <3>1. CASE Running
      BY <3>1 DEF Inv, LoadInv
    <3>2. CASE phase \in RestartJobs
      <4>1. ~Running
        BY <3>2 DEF RestartJobs, Running
      <4>2. Whole("resources") => Prefix("resources")
        BY <3>2 DEF Inv, LoadInv, Loadable
      <4>3. Whole("jobs") => Prefix("jobs")
        BY <3>2 DEF Inv, LoadInv, Loadable, RestartJobs, Unbounded, Bounded, Archived, Whole
      <4> QED BY <4>1, <4>2, <4>3 DEF Streams
    <3>3. CASE phase \in RestartResources
      <4>1. ~Running
        BY <3>3 DEF RestartResources, Running
      <4>2. Whole("jobs") => Prefix("jobs")
        BY <3>3, ReopenedLoadable DEF Inv, LoadInv, Streams
      <4>3. Whole("resources") => Prefix("resources")
        BY <3>3 DEF Inv, LoadInv, Loadable, RestartResources, Unbounded, Bounded, Archived, Whole
      <4> QED BY <4>1, <4>2, <4>3 DEF Streams
    <3>4. Running \/ phase \in RestartJobs \/ phase \in RestartResources
      BY <1>0 DEF Inv, TypeInv, OutputsInv, Phases, Restarts, Running
    <3> QED BY <3>1, <3>2, <3>3, <3>4
  <2>2. sink = "redis" =>
          \A s \in Streams : (Whole(s) /\ Prefix(s)) \/ Unbounded(s)
    <3> SUFFICES ASSUME sink = "redis"
                 PROVE  \A s \in Streams : (Whole(s) /\ Prefix(s)) \/ Unbounded(s)
      OBVIOUS
    <3>1. CASE Running
      BY <3>1 DEF Inv, LoadInv
    <3>2. CASE phase = "restart redis"
      BY <3>2 DEF Inv, LoadInv
    <3>3. Running \/ phase = "restart redis"
      BY <1>0 DEF Inv, TypeInv, OutputsInv, Phases, Restarts, Running
    <3> QED BY <3>1, <3>2, <3>3
  <2>3. sink = "file" => Loadable("jobs")' /\ Loadable("resources")'
    <3>1. cut' <=> (cut \/ ~Running)
      BY <1>0
    <3>2. /\ Whole("jobs")' <=> Whole("jobs")
          /\ Prefix("jobs")' <=> Prefix("jobs")
          /\ Whole("resources")' <=> Whole("resources")
          /\ Prefix("resources")' <=> Prefix("resources")
      BY <1>0, Untouched
    <3> QED BY <2>1, <3>1, <3>2 DEF Loadable, Streams
  <2> QED BY <2>2, <2>3
<1> QED BY <1>1, <1>2, <1>3, <1>4, <1>5, <1>6 DEF Inv

LEMMA LoadCheckpointKeeps == ASSUME Inv, load_checkpoint PROVE Inv'
<1>0. /\ phase = "down" /\ saved \in Saved /\ sim' = Loaded(saved)
      /\ phase' = IF sink = "file" THEN "restart jobs" ELSE "restart redis"
      /\ used' = IF used = "no" THEN used ELSE "again"
      /\ UNCHANGED <<sink, pending, active, archives, saved, saving, crashes, cut, refused>>
  <2>1. saved \in Saved
    BY DEF load_checkpoint, Inv, TypeInv
  <2>2. sim' = Loaded(saved)
    BY DEF load_checkpoint, Loaded, LoadedRun, LoadedStore
  <2> QED BY <2>1, <2>2 DEF load_checkpoint
<1>1. sink \in {"file", "redis"} /\ phase' \in {"restart jobs", "restart redis"}
  BY <1>0 DEF Inv, TypeInv
<1>2. TypeInv'
  <2>1. Counted(sim)'
    BY <1>0 DEF Inv, TypeInv, Counted, Known
  <2>2. Counted(Loaded(saved))' /\ (saving' \in Saved => Counted(Loaded(saving))')
    BY <1>0 DEF Inv, TypeInv, Counted, Known
  <2>3. phase' \in Phases /\ used' \in {"no", "once", "again"}
    BY <1>0, <1>1 DEF Inv, TypeInv, Phases, Restarts, RestartJobs
  <2> QED BY <1>0, <2>1, <2>2, <2>3 DEF Inv, TypeInv
<1>3. OutputsInv'
  <2>1. used' # "once"
    BY <1>0
  <2>2. Loaded(saved)' = Loaded(saved)
    BY <1>0
  <2> QED BY <1>0, <1>1, <2>1, <2>2 DEF Inv, OutputsInv, Running, Restarts, RestartJobs, RestartResources, Reopens
<1>4. FilesInv' /\ SavingInv'
  BY <1>1 DEF FilesInv, SavingInv
<1>5. RestartPossible'
  BY <1>0 DEF Inv, RestartPossible
<1>6. AutoInv' /\ RunInv'
  BY <1>0, <1>1 DEF Inv, AutoInv, RunInv, Running, Reopens
<1>7. LoadInv'
  <2> SUFFICES ASSUME used = "no"
               PROVE  /\ sink = "file" => Loadable("jobs") /\ Loadable("resources")
                      /\ sink = "redis" =>
                           \A s \in Streams : (Whole(s) /\ Prefix(s)) \/ Unbounded(s)
    <3>1. ~Running'
      BY <1>1 DEF Running
    <3>2. sink = "file" => phase' = "restart jobs"
      BY <1>0
    <3> QED BY <1>0, <1>1, <3>1, <3>2, Untouched DEF LoadInv, Loadable, RestartJobs, RestartResources, Reopens
  <2> QED BY <1>0 DEF Inv, LoadInv
<1> QED BY <1>2, <1>3, <1>4, <1>5, <1>6, <1>7 DEF Inv

-----------------------------------------------------------------------------
(* Restarting: what each step makes of the output it is about. *)

LEMMA UntouchedStream ==
  ASSUME NEW s, active'[s] = active[s], archives'[s] = archives[s], saved' = saved
  PROVE  /\ Whole(s)' <=> Whole(s)
         /\ Prefix(s)' <=> Prefix(s)
         /\ Unbounded(s)' <=> Unbounded(s)
         /\ Bounded(s)' <=> Bounded(s)
         /\ Reopened(s)' <=> Reopened(s)
BY DEF Whole, Prefix, Archived, Unbounded, Bounded, Reopened, SavedRows, KeptRows

LEMMA ArchivedStream ==
  ASSUME saved \in Saved, NEW s \in Streams, active[s] \in RowSeq, NEW a \in Seq(Archive),
         KeptRows(a) = KeptRows(archives[s]),
         active'[s] = Missing, archives'[s] = Append(a, [rows |-> active[s], boundary |-> NoBoundary]),
         saved' = saved
  PROVE  /\ archives'[s] \in Seq(Archive) /\ archives'[s] # << >>
         /\ Whole(s) /\ Prefix(s) => Unbounded(s)'
<1> DEFINE e == [rows |-> active[s], boundary |-> NoBoundary]
<1>1. e \in Archive /\ e.rows = active[s] /\ e.boundary = NoBoundary
  BY DEF Archive
<1> HIDE DEF e
<1>2. archives'[s] = Append(a, e)
  BY DEF e
<1>3. /\ archives'[s] \in Seq(Archive) /\ archives'[s] # << >>
      /\ Front(archives'[s]) = a /\ Last(archives'[s]) = e
  BY <1>1, <1>2, AppendFrontLast
<1>4. ASSUME Whole(s), Prefix(s) PROVE Unbounded(s)'
  <2>1. /\ Len(active[s]) >= saved.boundary[s]
        /\ KeptRows(a) \o SubSeq(active[s], 1, saved.boundary[s]) = SavedRows(s)
    BY <1>4 DEF Whole, Prefix
  <2>2. SavedRows(s)' = SavedRows(s) /\ KeptRows(Front(archives[s]))' = KeptRows(a)
    BY <1>3 DEF SavedRows
  <2> QED BY <1>1, <1>3, <2>1, <2>2 DEF Unbounded, Archived
<1> QED BY <1>3, <1>4

LEMMA PrefixEqual ==
  ASSUME NEW S, NEW a, NEW c, NEW m \in Nat, \A i \in 1 .. m : a[i] \in S /\ a[i] = c[i]
  PROVE  SubSeq(a, 1, m) = SubSeq(c, 1, m)
<1> DEFINE x == SubSeq(a, 1, m)
<1> DEFINE y == SubSeq(c, 1, m)
<1>1. m - 1 + 1 = m /\ \A i \in 1 .. m : 1 + i - 1 = i
  OBVIOUS
<1>2. x \in Seq(S) /\ Len(x) = m /\ \A i \in 1 .. m : x[i] = a[i]
  BY <1>1, SubSeqProperties
<1>3. y \in Seq(S) /\ Len(y) = m /\ \A i \in 1 .. m : y[i] = c[i]
  BY <1>1, SubSeqProperties
<1> HIDE DEF x, y
<1>4. x = y
  BY <1>2, <1>3, SeqEqual
<1> QED BY <1>4 DEF x, y

(* The boundary of the last archive. *)
LEMMA BoundLast ==
  ASSUME NEW a \in Seq(Archive), a # << >>, NEW b \in Nat, NEW c, c = [a EXCEPT ![Len(a)].boundary = b]
  PROVE  /\ c \in Seq(Archive) /\ c # << >> /\ Front(c) = Front(a)
         /\ Last(c).rows = Last(a).rows /\ Last(c).boundary = b
<1> DEFINE n == Len(a)
<1> DEFINE e == [a[n] EXCEPT !.boundary = b]
<1>1. n \in Nat \ {0} /\ n \in 1 .. n /\ a[n] \in Archive
  BY FrontLast DEF Last
<1>2. e \in Archive /\ e.rows = a[n].rows /\ e.boundary = b
  BY ONLY <1>1, b \in Nat DEF Archive
<1>3. c = [a EXCEPT ![n] = e]
  OBVIOUS
<1> HIDE DEF e
<1>4. c \in Seq(Archive) /\ Len(c) = n /\ \A j \in 1 .. n : c[j] = IF j = n THEN e ELSE a[j]
  BY <1>1, <1>2, <1>3, ExceptSeq, SMTT(60)
<1>5. c # << >>
  BY <1>1, <1>4
<1>6. Last(c) = e /\ Last(a) = a[n]
  BY <1>1, <1>4 DEF Last
<1>7. Front(c) = Front(a)
  <2>1. Front(c) = SubSeq(c, 1, n - 1) /\ Front(a) = SubSeq(a, 1, n - 1)
    BY <1>4 DEF Front
  <2>2. \A i \in 1 .. n - 1 : a[i] = c[i] /\ a[i] \in Archive
    BY <1>1, <1>4
  <2> DEFINE m == n - 1
  <2>3. m \in Nat /\ \A i \in 1 .. m : a[i] \in Archive /\ a[i] = c[i]
    BY <1>1, <2>2
  <2> HIDE DEF m
  <2>4. SubSeq(a, 1, m) = SubSeq(c, 1, m)
    BY ONLY <2>3, PrefixEqual
  <2> QED BY <2>1, <2>4 DEF m
<1> QED BY <1>2, <1>4, <1>5, <1>6, <1>7

LEMMA BoundedStream ==
  ASSUME saved \in Saved, NEW s \in Streams, archives[s] \in Seq(Archive), archives[s] # << >>,
         active'[s] = active[s], saved' = saved,
         archives'[s] = [archives[s] EXCEPT ![Len(archives[s])].boundary = saved.boundary[s]]
  PROVE  /\ archives'[s] \in Seq(Archive) /\ archives'[s] # << >>
         /\ Unbounded(s) => Bounded(s)'
<1>0. saved.boundary[s] \in Nat
  BY DEF Saved
<1>1. /\ archives'[s] \in Seq(Archive) /\ archives'[s] # << >> /\ Front(archives'[s]) = Front(archives[s])
      /\ Last(archives'[s]).rows = Last(archives[s]).rows
      /\ Last(archives'[s]).boundary = saved.boundary[s]
  BY <1>0, BoundLast, SMTT(60)
<1>2. Unbounded(s) => Bounded(s)'
  BY <1>1 DEF Unbounded, Bounded, Archived, SavedRows, KeptRows
<1> QED BY <1>1, <1>2

(* The rows of an archive up to its boundary are what a stitch keeps. *)
LEMMA BoundedKept ==
  ASSUME NEW a \in Seq(Archive), a # << >>, NEW b \in Nat, Last(a).boundary = b, Len(Last(a).rows) >= b
  PROVE  KeptRows(a) = KeptRows(Front(a)) \o SubSeq(Last(a).rows, 1, b)
<1>1. Front(a) \in Seq(Archive) /\ Last(a) \in Archive /\ a = Append(Front(a), Last(a))
  BY FrontLast
<1>2. KeptRows(a) = KeptRows(Front(a)) \o Kept(Last(a))
  BY <1>1, KeptAppend
<1>3. Kept(Last(a)) = SubSeq(Last(a).rows, 1, b)
  BY <1>1, KeptFacts DEF NoBoundary
<1> QED BY <1>2, <1>3

LEMMA ReopenedStream ==
  ASSUME saved \in Saved, NEW s \in Streams, archives[s] \in Seq(Archive),
         active'[s] = << >>, archives'[s] = archives[s], saved' = saved, Bounded(s)
  PROVE  Reopened(s)'
<1>0. saved.boundary[s] \in Nat
  BY DEF Saved
<1>1. /\ archives[s] # << >> /\ Last(archives[s]).boundary = saved.boundary[s]
      /\ Len(Last(archives[s]).rows) >= saved.boundary[s]
      /\ KeptRows(Front(archives[s])) \o SubSeq(Last(archives[s]).rows, 1, saved.boundary[s]) = SavedRows(s)
  BY DEF Bounded, Archived
<1>2. KeptRows(archives[s]) = SavedRows(s)
  BY <1>0, <1>1, BoundedKept
<1> QED BY <1>2 DEF Reopened, SavedRows, KeptRows

LEMMA RestoredStream ==
  ASSUME NEW s \in Streams, archives[s] \in Seq(Archive), archives[s] # << >>,
         active'[s] = Last(archives[s]).rows, archives'[s] = Front(archives[s]), saved' = saved
  PROVE  /\ active'[s] \in RowSeq /\ archives'[s] \in Seq(Archive)
         /\ Archived(s) => Whole(s)' /\ Prefix(s)'
<1>1. archives'[s] \in Seq(Archive) /\ Last(archives[s]) \in Archive
  BY FrontLast
<1>2. active'[s] \in RowSeq
  BY <1>1 DEF Archive
<1>3. Archived(s) => Whole(s)' /\ Prefix(s)'
  BY <1>2, RowSeqFacts DEF Archived, Whole, Prefix, SavedRows, KeptRows
<1> QED BY <1>1, <1>2, <1>3

(* The phases of a restart, and the output each of them is about. *)
LEMMA StepFacts ==
  /\ phase = Step("restart") => phase \in {"restart jobs", "restart resources"}
  /\ phase = Step("boundary") => phase \in {"boundary jobs", "boundary resources"}
  /\ phase = Step("open") => phase \in {"open jobs", "open resources"}
  /\ phase \in RestartJobs => Restarting = "jobs"
  /\ phase \in RestartResources => Restarting = "resources"
  /\ phase \in RestartJobs => /\ Step("restart") = "restart jobs" /\ Step("boundary") = "boundary jobs"
                              /\ Step("open") = "open jobs"
  /\ phase \in RestartResources => /\ Step("restart") = "restart resources"
                                   /\ Step("boundary") = "boundary resources"
                                   /\ Step("open") = "open resources"
<1>1. Restarting = "jobs" \/ Restarting = "resources"
  BY DEF Restarting
<1>2. /\ phase \in RestartJobs => Restarting = "jobs"
      /\ phase \in RestartResources => Restarting = "resources"
  BY DEF Restarting, RestartJobs, RestartResources, Reopens
<1>3. Restarting = "jobs" => /\ Step("restart") = "restart jobs" /\ Step("boundary") = "boundary jobs"
                             /\ Step("open") = "open jobs"
  BY DEF Step
<1>4. Restarting = "resources" => /\ Step("restart") = "restart resources"
                                  /\ Step("boundary") = "boundary resources"
                                  /\ Step("open") = "open resources"
  BY DEF Step
<1> QED BY <1>1, <1>2, <1>3, <1>4

(* A load that finds an output missing or too short stops. *)
LEMMA StopKeeps ==
  ASSUME Inv, phase \in {"restart jobs", "restart resources"},
         phase' = "down", sim' = Fresh, refused' = TRUE, crashes' = crashes + 1,
         UNCHANGED <<sink, pending, active, archives, saved, saving, used, cut>>,
         ~Whole(Restarting)
  PROVE  Inv'
<1>0. phase \in Restarts /\ saved \in Saved /\ used # "once" /\ sink = "file"
  BY DEF Inv, OutputsInv, Restarts, RestartJobs, RestartResources, Reopens
<1>1. TypeInv'
  <2>1. Counted(sim)'
    BY FreshFacts DEF Counted, Known
  <2>2. /\ saved' \in Saved => Counted(Loaded(saved))'
        /\ saving' \in Saved => Counted(Loaded(saving))'
    BY DEF Inv, TypeInv, Counted, Known
  <2>3. crashes' \in Nat
    <3>1. crashes \in Nat
      BY DEF Inv, TypeInv
    <3> QED BY ONLY <3>1, crashes' = crashes + 1
  <2> QED BY <2>1, <2>2, <2>3 DEF Inv, TypeInv, Phases
<1>2. OutputsInv'
  BY <1>0 DEF Inv, OutputsInv, Running, Restarts, RestartJobs, RestartResources, Reopens
<1>3. FilesInv' /\ SavingInv'
  BY DEF FilesInv, SavingInv
<1>4. AutoInv' /\ RunInv'
  BY DEF Inv, AutoInv, RunInv, Running, Reopens
<1>5. RestartPossible'
  <2>1. used = "no" => Loadable(Restarting)
    BY <1>0, StepFacts DEF Inv, LoadInv, RestartJobs, RestartResources, Reopens
  <2> QED BY <1>0, <2>1 DEF Loadable, RestartPossible, Inv, TypeInv
<1>6. LoadInv'
  <2> SUFFICES ASSUME used = "no" PROVE Loadable("jobs")' /\ Loadable("resources")'
    <3>1. ~Running'
      BY DEF Running
    <3> QED BY <1>0, <3>1 DEF LoadInv, RestartJobs, RestartResources, Reopens
  <2>1. cut
    <3>1. Loadable(Restarting)
      BY <1>0, StepFacts DEF Inv, LoadInv, RestartJobs, RestartResources, Reopens
    <3> QED BY <3>1 DEF Loadable, Inv, TypeInv
  <2>2. Whole("resources") => Prefix("resources")
    BY <1>0 DEF Inv, LoadInv, Loadable, RestartJobs
  <2>3. Whole("jobs") => Prefix("jobs")
    <3>1. CASE phase = "restart jobs"
      BY <1>0, <3>1 DEF Inv, LoadInv, Loadable
    <3>2. CASE phase = "restart resources"
      BY <1>0, <3>2, ReopenedLoadable DEF Inv, LoadInv, Streams, RestartResources
    <3> QED BY <3>1, <3>2
  <2>4. /\ Whole("jobs")' <=> Whole("jobs")
        /\ Prefix("jobs")' <=> Prefix("jobs")
        /\ Whole("resources")' <=> Whole("resources")
        /\ Prefix("resources")' <=> Prefix("resources")
    BY Untouched
  <2> QED BY <2>1, <2>2, <2>3, <2>4 DEF Loadable
<1> QED BY <1>1, <1>2, <1>3, <1>4, <1>5, <1>6 DEF Inv

(* The part of the invariant that a step of a restart leaves: it is enough *)
(* to know the outputs and what is said of them.                           *)
LEMMA RestartStep ==
  ASSUME Inv, phase \in Restarts, phase' \in Restarts,
         UNCHANGED <<sink, sim, pending, saved, saving, crashes, cut, refused>>,
         used' \in {"no", "once", "again"}, used = "again" => used' = "again",
         \A s \in Streams : /\ active'[s] \in RowSeq \cup {Missing} /\ archives'[s] \in Seq(Archive)
                            /\ active'[s] = Missing => archives'[s] # << >>,
         active' = [s \in Streams |-> active'[s]], archives' = [s \in Streams |-> archives'[s]]
  PROVE  /\ TypeInv' /\ FilesInv' /\ SavingInv' /\ AutoInv' /\ RestartPossible'
         /\ phase' \notin Reopens => RunInv'
         /\ ~Running' /\ phase' # "down"
<1>1. phase' # "down" /\ phase' # "saving" /\ phase' \in Phases /\ ~Running' /\ phase' # "done"
      /\ phase' \notin {"advance", "settled", "drain", "settled drain", "load"}
  BY DEF Restarts, RestartJobs, RestartResources, Reopens, Running, Phases
<1>2. TypeInv'
  <2>1. active' \in [Streams -> RowSeq \cup {Missing}] /\ archives' \in [Streams -> Seq(Archive)]
    OBVIOUS
  <2>2. /\ Counted(sim)'
        /\ saved' \in Saved => Counted(Loaded(saved))'
        /\ saving' \in Saved => Counted(Loaded(saving))'
    BY DEF Inv, TypeInv, Counted, Known
  <2> QED BY <1>1, <2>1, <2>2 DEF Inv, TypeInv
<1>3. FilesInv' /\ SavingInv'
  BY <1>1 DEF FilesInv, SavingInv
<1>4. AutoInv' /\ (phase' \notin Reopens => RunInv')
  BY <1>1 DEF Inv, AutoInv, RunInv
<1>5. RestartPossible'
  BY DEF Inv, RestartPossible
<1> QED BY <1>1, <1>2, <1>3, <1>4, <1>5

LEMMA ArchiveOutputKeeps == ASSUME Inv, archive_output PROVE Inv'
<1>s. PICK s \in Streams : s = Restarting
  BY DEF Restarting, Streams
<1>0. /\ phase \in {"restart jobs", "restart resources"} /\ phase \in Restarts
      /\ saved \in Saved /\ sink = "file" /\ used # "once" /\ sim = Loaded(saved)
      /\ pending = [z \in Streams |-> << >>]
  <2>1. phase \in {"restart jobs", "restart resources"}
    BY StepFacts DEF archive_output
  <2> QED BY <2>1 DEF Inv, OutputsInv, Restarts, RestartJobs, RestartResources, Reopens
<1>1. saved.boundary[s] \in Nat /\ active \in [Streams -> RowSeq \cup {Missing}]
      /\ archives \in [Streams -> Seq(Archive)]
  BY <1>0 DEF Saved, Inv, TypeInv
<1>2. CASE active[s] = Missing \/ Len(active[s]) < saved.boundary[s]
  <2>1. /\ phase' = "down" /\ sim' = Fresh /\ refused' = TRUE /\ crashes' = crashes + 1
        /\ UNCHANGED <<sink, pending, active, archives, saved, saving, used, cut>>
    BY <1>s, <1>2 DEF archive_output, Stop
  <2>2. ~Whole(s)
    <3>1. active[s] # Missing => Len(active[s]) \in Nat
      BY <1>0, <1>1, RowSeqFacts
    <3>2. active[s] # Missing => ~(Len(active[s]) >= saved.boundary[s])
      BY ONLY <1>1, <1>2, <3>1
    <3> QED BY <3>2 DEF Whole
  <2> QED BY <1>s, <1>0, <2>1, <2>2, StopKeeps
<1>3. CASE ~(active[s] = Missing \/ Len(active[s]) < saved.boundary[s])
  <2>1. /\ UNCHANGED <<sink, sim, pending, saved, saving, used, crashes, cut, refused>>
        /\ archives' = [archives EXCEPT ![s] = Append(@, [rows |-> active[s], boundary |-> NoBoundary])]
        /\ active' = [active EXCEPT ![s] = Missing]
        /\ phase' = Step("boundary")
    BY <1>s, <1>3 DEF archive_output
  <2>2. active[s] \in RowSeq /\ Whole(s) /\ archives[s] \in Seq(Archive)
    <3>1. active[s] \in RowSeq /\ archives[s] \in Seq(Archive)
      BY <1>0, <1>1, <1>3
    <3>2. Len(active[s]) >= saved.boundary[s]
      BY <1>1, <1>3, <3>1, RowSeqFacts
    <3> QED BY <1>3, <3>1, <3>2 DEF Whole
  <2>3. /\ active'[s] = Missing
        /\ archives'[s] = Append(archives[s], [rows |-> active[s], boundary |-> NoBoundary])
        /\ \A z \in Streams : z # s => active'[z] = active[z] /\ archives'[z] = archives[z]
        /\ active' = [z \in Streams |-> active'[z]] /\ archives' = [z \in Streams |-> archives'[z]]
    BY ONLY <1>0, <1>1, <2>1, s \in Streams
  <2>4. /\ archives'[s] \in Seq(Archive) /\ archives'[s] # << >>
        /\ Prefix(s) => Unbounded(s)'
    BY <1>0, <2>1, <2>2, <2>3, ArchivedStream
  <2>5. \A z \in Streams : /\ active'[z] \in RowSeq \cup {Missing} /\ archives'[z] \in Seq(Archive)
                           /\ active'[z] = Missing => archives'[z] # << >>
    BY <1>1, <2>3, <2>4 DEF Inv, OutputsInv
  <2>6. phase' \in {"boundary jobs", "boundary resources"} /\ phase' \in Restarts
        /\ (phase = "restart jobs" <=> phase' = "boundary jobs")
    BY <1>0, <2>1, StepFacts DEF Restarts, RestartJobs, RestartResources, Reopens
  <2>7. /\ TypeInv' /\ FilesInv' /\ SavingInv' /\ AutoInv' /\ RunInv' /\ RestartPossible'
        /\ ~Running' /\ phase' # "down"
    <3>1. phase' \notin Reopens /\ used' \in {"no", "once", "again"}
      BY <2>1, <2>6 DEF Reopens, Inv, TypeInv
    <3> QED BY <1>0, <2>1, <2>3, <2>5, <2>6, <3>1, RestartStep
  <2>8. phase = "restart jobs" => s = "jobs"
    BY <1>s, <1>0, StepFacts DEF RestartJobs
  <2>9. phase = "restart resources" => s = "resources"
    BY <1>s, <1>0, StepFacts DEF RestartResources
  <2>10. OutputsInv'
    <3>1. phase = "restart resources" => active["jobs"] = << >>
      BY <1>0 DEF Inv, OutputsInv, RestartResources
    <3>2. phase' \notin {"aborted", "restart redis"}
      BY <2>6
    <3> QED BY <1>0, <2>1, <2>3, <2>5, <2>6, <2>7, <2>8, <2>9, <3>1, <3>2
        DEF OutputsInv, Streams, RestartJobs, RestartResources, Reopens
  <2>11. LoadInv'
    <3> SUFFICES ASSUME used = "no"
                 PROVE  /\ phase' = "boundary jobs" => Unbounded("jobs")' /\ Loadable("resources")'
                        /\ phase' = "boundary resources" => Unbounded("resources")' /\ Reopened("jobs")'
      BY <1>0, <2>1, <2>6, <2>7 DEF LoadInv, RestartJobs, RestartResources, Reopens
    <3>1. CASE phase = "restart jobs"
      <4>1. Unbounded("jobs")'
        BY <1>0, <2>2, <2>4, <2>8, <3>1 DEF Inv, LoadInv, Loadable
      <4>2. Loadable("resources")
        BY <1>0, <3>1 DEF Inv, LoadInv, RestartJobs
      <4>3. Loadable("resources")'
        BY <2>1, <2>3, <2>8, <3>1, <4>2, UntouchedStream DEF Loadable, Streams
      <4> QED BY <2>6, <3>1, <4>1, <4>3
    <3>2. CASE phase = "restart resources"
      <4>1. Unbounded("resources")'
        BY <1>0, <2>2, <2>4, <2>9, <3>2 DEF Inv, LoadInv, Loadable
      <4>2. Reopened("jobs")
        BY <1>0, <3>2 DEF Inv, LoadInv, RestartResources
      <4>3. Reopened("jobs")'
        BY <2>1, <2>3, <2>9, <3>2, <4>2, UntouchedStream DEF Streams
      <4> QED BY <2>6, <3>2, <4>1, <4>3
    <3> QED BY <1>0, <3>1, <3>2
  <2> QED BY <2>7, <2>10, <2>11 DEF Inv
<1> QED BY <1>2, <1>3

LEMMA RecordBoundaryKeeps == ASSUME Inv, record_boundary PROVE Inv'
<1>s. PICK s \in Streams : s = Restarting
  BY DEF Restarting, Streams
<1>0. /\ phase \in {"boundary jobs", "boundary resources"} /\ phase \in Restarts
      /\ saved \in Saved /\ sink = "file" /\ used # "once" /\ sim = Loaded(saved)
      /\ pending = [z \in Streams |-> << >>]
      /\ phase = "boundary jobs" => s = "jobs"
      /\ phase = "boundary resources" => s = "resources"
  <2>1. phase \in {"boundary jobs", "boundary resources"}
    BY StepFacts DEF record_boundary
  <2>2. /\ phase = "boundary jobs" => s = "jobs"
        /\ phase = "boundary resources" => s = "resources"
    BY <1>s, StepFacts DEF RestartJobs, RestartResources, Reopens
  <2> QED BY <2>1, <2>2 DEF Inv, OutputsInv, Restarts, RestartJobs, RestartResources, Reopens
<1>1. /\ UNCHANGED <<sink, sim, pending, active, saved, saving, used, crashes, cut, refused>>
      /\ archives' = [archives EXCEPT ![s][Len(archives[s])].boundary = saved.boundary[s]]
      /\ phase' = Step("open")
  BY <1>s DEF record_boundary
<1>2. /\ phase' \in {"open jobs", "open resources"} /\ phase' \in Restarts
      /\ (phase = "boundary jobs" <=> phase' = "open jobs")
  BY <1>0, <1>1, StepFacts DEF Restarts, RestartJobs, RestartResources, Reopens
<1>3. active \in [Streams -> RowSeq \cup {Missing}] /\ archives \in [Streams -> Seq(Archive)]
  BY DEF Inv, TypeInv
<1>4. active[s] = Missing /\ archives[s] # << >> /\ archives[s] \in Seq(Archive)
  BY <1>0, <1>3 DEF Inv, OutputsInv, Streams
<1>5. /\ archives'[s] = [archives[s] EXCEPT ![Len(archives[s])].boundary = saved.boundary[s]]
      /\ \A z \in Streams : z # s => archives'[z] = archives[z]
      /\ active' = [z \in Streams |-> active'[z]] /\ archives' = [z \in Streams |-> archives'[z]]
  BY ONLY <1>1, <1>3, s \in Streams
<1>6. /\ archives'[s] \in Seq(Archive) /\ archives'[s] # << >>
      /\ Unbounded(s) => Bounded(s)'
  BY <1>0, <1>1, <1>4, <1>5, BoundedStream
<1>7. \A z \in Streams : /\ active'[z] \in RowSeq \cup {Missing} /\ archives'[z] \in Seq(Archive)
                         /\ active'[z] = Missing => archives'[z] # << >>
  BY <1>1, <1>3, <1>5, <1>6 DEF Inv, OutputsInv
<1>8. /\ TypeInv' /\ FilesInv' /\ SavingInv' /\ AutoInv' /\ RunInv' /\ RestartPossible'
      /\ ~Running' /\ phase' # "down"
  <2>1. phase' \notin Reopens /\ used' \in {"no", "once", "again"}
    BY <1>1, <1>2 DEF Reopens, Inv, TypeInv
  <2> QED BY <1>0, <1>1, <1>2, <1>5, <1>7, <2>1, RestartStep
<1>9. OutputsInv'
  <2>1. phase = "boundary resources" => active["jobs"] = << >>
    BY <1>0 DEF Inv, OutputsInv, RestartResources
  <2> QED BY <1>0, <1>1, <1>2, <1>4, <1>7, <1>8, <2>1
      DEF OutputsInv, Streams, RestartJobs, RestartResources, Reopens
<1>10. LoadInv'
  <2> SUFFICES ASSUME used = "no"
               PROVE  /\ phase' = "open jobs" => Bounded("jobs")' /\ Loadable("resources")'
                      /\ phase' = "open resources" => Bounded("resources")' /\ Reopened("jobs")'
    BY <1>0, <1>1, <1>2, <1>8 DEF LoadInv, RestartJobs, RestartResources, Reopens
  <2>1. CASE phase = "boundary jobs"
    <3>1. Bounded("jobs")'
      BY <1>0, <1>6, <2>1 DEF Inv, LoadInv
    <3>2. Loadable("resources")
      BY <1>0, <2>1 DEF Inv, LoadInv, RestartJobs
    <3>3. Loadable("resources")'
      BY <1>0, <1>1, <1>5, <2>1, <3>2, UntouchedStream DEF Loadable, Streams
    <3> QED BY <1>2, <2>1, <3>1, <3>3
  <2>2. CASE phase = "boundary resources"
    <3>1. Bounded("resources")'
      BY <1>0, <1>6, <2>2 DEF Inv, LoadInv
    <3>2. Reopened("jobs")
      BY <1>0, <2>2 DEF Inv, LoadInv, RestartResources
    <3>3. Reopened("jobs")'
      BY <1>0, <1>1, <1>5, <2>2, <3>2, UntouchedStream DEF Streams
    <3> QED BY <1>2, <2>2, <3>1, <3>3
  <2> QED BY <1>0, <2>1, <2>2
<1> QED BY <1>8, <1>9, <1>10 DEF Inv

(* The restarted process goes on with the next file. *)
LEMMA RestartedKeeps ==
  ASSUME Inv, phase \in Restarts, phase' = "load", active' = [s \in Streams |-> << >>],
         archives' \in [Streams -> Seq(Archive)],
         used' \in {"once", "again"}, used = "again" => used' = "again",
         UNCHANGED <<sink, sim, pending, saved, saving, crashes, cut, refused>>,
         used' # "again" => \A s \in Streams : KeptRows(archives'[s]) = SavedRows(s)
  PROVE  Inv'
<1>0. /\ saved \in Saved /\ sim = Loaded(saved) /\ pending = [z \in Streams |-> << >>]
      /\ Running'
  BY DEF Inv, OutputsInv, Running
<1>1. TypeInv'
  <2>1. active' \in [Streams -> RowSeq \cup {Missing}]
    BY RowSeqFacts
  <2>2. /\ Counted(sim)'
        /\ saved' \in Saved => Counted(Loaded(saved))'
        /\ saving' \in Saved => Counted(Loaded(saving))'
    BY DEF Inv, TypeInv, Counted, Known
  <2> QED BY <2>1, <2>2 DEF Inv, TypeInv, Phases
<1>2. OutputsInv'
  <2>1. \A s \in Streams : active'[s] # Missing
    BY RowSeqFacts
  <2> QED BY <2>1 DEF OutputsInv, Restarts, RestartJobs, RestartResources, Reopens
<1>3. FilesInv' /\ SavingInv' /\ RestartPossible'
  BY DEF Inv, FilesInv, SavingInv, RestartPossible
<1>4. AutoInv'
  <2>1. sim.auto = saved.run.auto /\ sim.completed = saved.run.completed
    BY <1>0 DEF Loaded
  <2>2. saved.run.auto.jobs = Cardinality(saved.run.completed)
    BY <1>0 DEF Inv, AutoInv
  <2>3. Cardinality(sim.completed) \in Nat /\ Interval \in Nat
    BY CountedFacts, CheckpointAssumption DEF Inv, TypeInv
  <2>4. Interval # 0 => Cardinality(sim.completed) - sim.auto.jobs < Interval
    <3>1. sim.auto.jobs = Cardinality(sim.completed)
      BY <2>1, <2>2
    <3> QED BY <2>3, <3>1
  <2> QED BY <1>0, <2>1, <2>2, <2>4, SavedPhases DEF AutoInv
<1>5. RunInv'
  <2> SUFFICES ASSUME used' # "again", NEW s \in Streams
               PROVE  (KeptRows(archives'[s]) \o active'[s]) \o pending'[s] = Iota(Handed(sim)[s])
    <3>1. Handed(sim)' = Handed(sim)
      BY DEF Handed
    <3> QED BY <3>1 DEF RunInv, KeptRows, Reopens
  <2>1. active'[s] = << >> /\ pending'[s] = << >>
    BY <1>0
  <2>2. KeptRows(archives'[s]) = Iota(Handed(sim)[s])
    BY <1>0 DEF SavedRows
  <2> DEFINE k == KeptRows(archives'[s])
  <2>3. k \in RowSeq
    <3>1. Handed(sim)[s] \in Nat
      BY HandedFacts DEF Inv, TypeInv
    <3> QED BY <2>2, <3>1, IotaType
  <2> HIDE DEF k
  <2>4. k \o << >> = k
    BY <2>3, ConcatEmptySeq DEF RowSeq
  <2> QED BY <2>1, <2>2, <2>4 DEF k
<1>6. LoadInv'
  <2>1. used' # "no"
    OBVIOUS
  <2> QED BY <2>1 DEF LoadInv
<1> QED BY <1>1, <1>2, <1>3, <1>4, <1>5, <1>6 DEF Inv

LEMMA OpenSegmentKeeps == ASSUME Inv, open_segment PROVE Inv'
<1>s. PICK s \in Streams : s = Restarting
  BY DEF Restarting, Streams
<1>0. /\ phase \in {"open jobs", "open resources"} /\ phase \in Restarts
      /\ saved \in Saved /\ sink = "file" /\ used # "once" /\ sim = Loaded(saved)
      /\ pending = [z \in Streams |-> << >>]
      /\ phase = "open jobs" => s = "jobs"
      /\ phase = "open resources" => s = "resources"
  <2>1. phase \in {"open jobs", "open resources"}
    BY StepFacts DEF open_segment
  <2>2. /\ phase = "open jobs" => s = "jobs"
        /\ phase = "open resources" => s = "resources"
    BY <1>s, StepFacts DEF RestartJobs, RestartResources, Reopens
  <2> QED BY <2>1, <2>2 DEF Inv, OutputsInv, Restarts, RestartJobs, RestartResources, Reopens
<1>1. /\ UNCHANGED <<sink, sim, pending, archives, saved, saving, crashes, cut, refused>>
      /\ active' = [active EXCEPT ![s] = << >>]
  BY <1>s DEF open_segment
<1>2. active \in [Streams -> RowSeq \cup {Missing}] /\ archives \in [Streams -> Seq(Archive)]
  BY DEF Inv, TypeInv
<1>3. /\ active'[s] = << >> /\ active' = [z \in Streams |-> active'[z]]
      /\ \A z \in Streams : z # s => active'[z] = active[z]
  BY ONLY <1>1, <1>2, s \in Streams
<1>4. Bounded(s) => Reopened(s)'
  BY <1>0, <1>1, <1>2, <1>3, ReopenedStream
<1>5. CASE phase = "open jobs"
  <2>1. s = "jobs" /\ phase' = "restart resources" /\ UNCHANGED used
    BY <1>s, <1>0, <1>5 DEF open_segment
  <2>2. phase' \in Restarts /\ archives' = [z \in Streams |-> archives'[z]]
    BY <1>1, <1>2, <2>1 DEF Restarts, RestartResources
  <2>3. \A z \in Streams : /\ active'[z] \in RowSeq \cup {Missing} /\ archives'[z] \in Seq(Archive)
                           /\ active'[z] = Missing => archives'[z] # << >>
    BY <1>1, <1>2, <1>3, RowSeqFacts DEF Inv, OutputsInv
  <2>4. /\ TypeInv' /\ FilesInv' /\ SavingInv' /\ AutoInv' /\ RunInv' /\ RestartPossible'
        /\ ~Running' /\ phase' # "down"
    <3>1. phase' \notin Reopens /\ used' \in {"no", "once", "again"}
      BY <2>1 DEF Reopens, Inv, TypeInv
    <3> QED BY <1>0, <1>1, <1>3, <2>1, <2>2, <2>3, <3>1, RestartStep
  <2>5. OutputsInv'
    BY <1>0, <1>1, <1>3, <2>1, <2>3, <2>4, RowSeqFacts
    DEF OutputsInv, Streams, RestartJobs, RestartResources, Reopens
  <2>6. LoadInv'
    <3> SUFFICES ASSUME used = "no" PROVE Reopened("jobs")' /\ Loadable("resources")'
      BY <1>0, <1>1, <2>1, <2>4 DEF LoadInv, RestartJobs, RestartResources, Reopens
    <3>1. Bounded("jobs") /\ Loadable("resources")
      BY <1>0, <1>5 DEF Inv, LoadInv, RestartJobs
    <3>2. Loadable("resources")'
      BY <1>1, <1>3, <2>1, <3>1, UntouchedStream DEF Loadable, Streams
    <3> QED BY <1>4, <2>1, <3>1, <3>2
  <2> QED BY <2>4, <2>5, <2>6 DEF Inv
<1>6. CASE phase = "open resources"
  <2>1. s = "resources" /\ phase' = "load" /\ used' = IF used = "again" THEN used ELSE "once"
    BY <1>s, <1>0, <1>6 DEF open_segment
  <2>2. used = "no" => Reopened("resources")' /\ Reopened("jobs") /\ Reopened("jobs")'
    <3> SUFFICES ASSUME used = "no" PROVE Reopened("resources")' /\ Reopened("jobs") /\ Reopened("jobs")'
      OBVIOUS
    <3>1. Bounded("resources") /\ Reopened("jobs")
      BY <1>0, <1>6 DEF Inv, LoadInv, RestartResources
    <3>2. Reopened("jobs")'
      BY <1>1, <1>3, <2>1, <3>1, UntouchedStream DEF Streams
    <3> QED BY <1>4, <2>1, <3>1, <3>2
  <2>3. active["jobs"] = << >>
    BY <1>0, <1>6 DEF Inv, OutputsInv, RestartResources
  <2>4. active' = [z \in Streams |-> << >>]
    BY <1>3, <2>1, <2>3 DEF Streams
  <2>5. used' # "again" => \A z \in Streams : KeptRows(archives'[z]) = SavedRows(z)
    <3>1. used' # "again" => used = "no"
      BY <1>0, <2>1 DEF Inv, TypeInv
    <3>2. SavedRows("jobs")' = SavedRows("jobs") /\ SavedRows("resources")' = SavedRows("resources")
      BY <1>1 DEF SavedRows
    <3> QED BY <2>2, <3>1, <3>2 DEF Reopened, Streams
  <2>6. archives' \in [Streams -> Seq(Archive)] /\ used' \in {"once", "again"}
    BY <1>1, <2>1 DEF Inv, TypeInv
  <2> QED BY <1>0, <1>1, <2>1, <2>4, <2>5, <2>6, RestartedKeeps
<1> QED BY <1>0, <1>5, <1>6

LEMMA RestoreOutputKeeps == ASSUME Inv, restore_output PROVE Inv'
<1>s. PICK s \in Streams : s = Restarting
  BY DEF Restarting, Streams
<1>0. /\ phase \in {"boundary jobs", "open jobs", "boundary resources", "open resources"}
      /\ saved \in Saved /\ sink = "file" /\ used # "once"
      /\ pending = [z \in Streams |-> << >>]
      /\ phase \in {"boundary jobs", "open jobs"} => s = "jobs"
      /\ phase \in {"boundary resources", "open resources"} => s = "resources"
  <2>1. phase \in {"boundary jobs", "open jobs", "boundary resources", "open resources"}
    BY StepFacts DEF restore_output
  <2>2. /\ phase \in {"boundary jobs", "open jobs"} => s = "jobs"
        /\ phase \in {"boundary resources", "open resources"} => s = "resources"
    BY <1>s, StepFacts DEF RestartJobs, RestartResources, Reopens
  <2> QED BY <2>1, <2>2 DEF Inv, OutputsInv, Restarts, RestartJobs, RestartResources, Reopens
<1>1. /\ UNCHANGED <<sink, pending, saved, saving, used, refused>>
      /\ active' = [active EXCEPT ![s] = Last(archives[s]).rows]
      /\ archives' = [archives EXCEPT ![s] = Front(@)]
      /\ phase' = "down" /\ sim' = Fresh /\ crashes' = crashes + 1 /\ cut' = TRUE
  BY <1>s DEF restore_output, Stop
<1>2. active \in [Streams -> RowSeq \cup {Missing}] /\ archives \in [Streams -> Seq(Archive)]
  BY DEF Inv, TypeInv
<1>3. active[s] = Missing /\ archives[s] # << >> /\ archives[s] \in Seq(Archive)
  BY <1>0, <1>2 DEF Inv, OutputsInv
<1>4. /\ active'[s] = Last(archives[s]).rows /\ archives'[s] = Front(archives[s])
      /\ \A z \in Streams : z # s => active'[z] = active[z] /\ archives'[z] = archives[z]
      /\ active' = [z \in Streams |-> active'[z]] /\ archives' = [z \in Streams |-> archives'[z]]
  BY ONLY <1>1, <1>2, s \in Streams
<1>5. /\ active'[s] \in RowSeq /\ archives'[s] \in Seq(Archive)
      /\ Archived(s) => Whole(s)' /\ Prefix(s)'
  BY <1>1, <1>3, <1>4, RestoredStream
<1>6. TypeInv'
  <2>1. active' \in [Streams -> RowSeq \cup {Missing}] /\ archives' \in [Streams -> Seq(Archive)]
    <3>1. \A z \in Streams : active'[z] \in RowSeq \cup {Missing} /\ archives'[z] \in Seq(Archive)
      BY <1>2, <1>4, <1>5
    <3> QED BY ONLY <1>4, <3>1
  <2>2. Counted(sim)'
    BY <1>1, FreshFacts DEF Counted, Known
  <2>3. /\ saved' \in Saved => Counted(Loaded(saved))'
        /\ saving' \in Saved => Counted(Loaded(saving))'
    BY <1>1 DEF Inv, TypeInv, Counted, Known
  <2>4. crashes' \in Nat
    <3>1. crashes \in Nat
      BY DEF Inv, TypeInv
    <3> QED BY ONLY <1>1, <3>1
  <2> QED BY <1>1, <2>1, <2>2, <2>3, <2>4 DEF Inv, TypeInv, Phases
<1>7. OutputsInv'
  <2>1. \A z \in Streams : active'[z] = Missing => archives'[z] # << >>
    BY <1>4, <1>5, RowSeqFacts DEF Inv, OutputsInv
  <2> QED BY <1>0, <1>1, <2>1 DEF OutputsInv, Running, Restarts, RestartJobs, RestartResources, Reopens
<1>8. FilesInv' /\ SavingInv' /\ RestartPossible'
  BY <1>1 DEF FilesInv, SavingInv, RestartPossible
<1>9. AutoInv' /\ RunInv'
  BY <1>1 DEF Inv, AutoInv, RunInv, Running, Reopens
<1>10. LoadInv'
  <2> SUFFICES ASSUME used = "no"
               PROVE  /\ Whole("jobs")' => Prefix("jobs")'
                      /\ Whole("resources")' => Prefix("resources")'
    <3>1. ~Running'
      BY <1>1 DEF Running
    <3> QED BY <1>0, <1>1, <3>1 DEF LoadInv, Loadable, RestartJobs, RestartResources, Reopens
  <2>1. CASE phase \in {"boundary jobs", "open jobs"}
    <3>1. Archived("jobs") /\ (Whole("resources") => Prefix("resources"))
      BY <1>0, <2>1 DEF Inv, LoadInv, Loadable, Unbounded, Bounded, RestartJobs
    <3>2. Whole("resources")' => Prefix("resources")'
      BY <1>0, <1>1, <1>4, <2>1, <3>1, UntouchedStream DEF Streams
    <3> QED BY <1>0, <1>5, <2>1, <3>1, <3>2
  <2>2. CASE phase \in {"boundary resources", "open resources"}
    <3>1. Archived("resources") /\ Reopened("jobs")
      BY <1>0, <2>2 DEF Inv, LoadInv, Unbounded, Bounded, RestartResources
    <3>2. Whole("jobs") => Prefix("jobs")
      BY <1>0, <3>1, ReopenedLoadable DEF Streams
    <3>3. Whole("jobs")' => Prefix("jobs")'
      BY <1>0, <1>1, <1>4, <2>2, <3>2, UntouchedStream DEF Streams
    <3> QED BY <1>0, <1>5, <2>2, <3>1, <3>3
  <2> QED BY <1>0, <2>1, <2>2
<1> QED BY <1>6, <1>7, <1>8, <1>9, <1>10 DEF Inv

LEMMA RenameDocumentKeeps == ASSUME Inv, NEW s \in Streams, rename_document(s) PROVE Inv'
<1>0. /\ phase = "restart redis" /\ phase \in Restarts \ Reopens /\ active[s] # Missing
      /\ saved \in Saved /\ sink = "redis" /\ used # "once" /\ sim = Loaded(saved)
      /\ pending = [z \in Streams |-> << >>]
  BY DEF rename_document, InTurn, Inv, OutputsInv, Restarts, Reopens
<1>1. /\ UNCHANGED <<sink, phase, sim, pending, saved, saving, used, crashes, cut, refused>>
      /\ archives' = [archives EXCEPT ![s] = Append(@, [rows |-> active[s], boundary |-> NoBoundary])]
      /\ active' = [active EXCEPT ![s] = Missing]
  BY DEF rename_document
<1>2. active \in [Streams -> RowSeq \cup {Missing}] /\ archives \in [Streams -> Seq(Archive)]
  BY DEF Inv, TypeInv
<1>3. active[s] \in RowSeq /\ archives[s] \in Seq(Archive)
  BY <1>0, <1>2
<1>4. /\ active'[s] = Missing
      /\ archives'[s] = Append(archives[s], [rows |-> active[s], boundary |-> NoBoundary])
      /\ \A z \in Streams : z # s => active'[z] = active[z] /\ archives'[z] = archives[z]
      /\ active' = [z \in Streams |-> active'[z]] /\ archives' = [z \in Streams |-> archives'[z]]
  BY ONLY <1>1, <1>2, s \in Streams
<1>5. /\ archives'[s] \in Seq(Archive) /\ archives'[s] # << >>
      /\ Whole(s) /\ Prefix(s) => Unbounded(s)'
  BY <1>0, <1>1, <1>3, <1>4, ArchivedStream
<1>6. \A z \in Streams : /\ active'[z] \in RowSeq \cup {Missing} /\ archives'[z] \in Seq(Archive)
                         /\ active'[z] = Missing => archives'[z] # << >>
  BY <1>2, <1>4, <1>5 DEF Inv, OutputsInv
<1>7. /\ TypeInv' /\ FilesInv' /\ SavingInv' /\ AutoInv' /\ RunInv' /\ RestartPossible'
      /\ ~Running' /\ phase' # "down"
  <2>1. phase' \in Restarts /\ phase' \notin Reopens /\ used' \in {"no", "once", "again"}
    BY <1>0, <1>1 DEF Inv, TypeInv
  <2> QED BY <1>0, <1>1, <1>4, <1>6, <2>1, RestartStep
<1>8. OutputsInv'
  BY <1>0, <1>1, <1>6, <1>7 DEF OutputsInv, RestartJobs, RestartResources, Reopens
<1>9. LoadInv'
  <2> SUFFICES ASSUME used = "no", NEW z \in Streams
               PROVE  (Whole(z)' /\ Prefix(z)') \/ Unbounded(z)'
    BY <1>0, <1>1, <1>7 DEF LoadInv
  <2>1. (Whole(z) /\ Prefix(z)) \/ Unbounded(z)
    BY <1>0 DEF Inv, LoadInv
  <2>2. CASE z = s
    <3>1. ~Unbounded(s)
      BY <1>0 DEF Unbounded, Archived
    <3> QED BY <1>5, <2>1, <2>2, <3>1
  <2>3. CASE z # s
    BY <1>1, <1>4, <2>1, <2>3, UntouchedStream
  <2> QED BY <2>2, <2>3
<1> QED BY <1>7, <1>8, <1>9 DEF Inv

(* The renaming of an index or of a record is not seen in the rows. *)
LEMMA RenameKeyKeeps ==
  ASSUME Inv, NEW s \in Streams, rename_index(s) \/ rename_record(s)
  PROVE  Inv'
<1>1. /\ phase = "restart redis"
      /\ UNCHANGED <<sink, phase, sim, pending, active, archives, saved, saving, used, crashes, cut, refused>>
  BY DEF rename_index, rename_record, InTurn
<1>2. TypeInv'
  BY <1>1 DEF Inv, TypeInv, Counted, Known
<1>3. OutputsInv'
  BY <1>1 DEF Inv, OutputsInv, Running
<1>4. FilesInv' /\ SavingInv' /\ RestartPossible'
  BY <1>1 DEF FilesInv, SavingInv, RestartPossible, Inv
<1>5. AutoInv' /\ RunInv'
  BY <1>1 DEF Inv, AutoInv, RunInv, Running, Reopens
<1>6. LoadInv'
  BY <1>1, Untouched DEF Inv, LoadInv, Running, RestartJobs, RestartResources
<1> QED BY <1>2, <1>3, <1>4, <1>5, <1>6 DEF Inv
LEMMA RecordRedisBoundaryKeeps == ASSUME Inv, record_redis_boundary PROVE Inv'
<1>0. /\ phase = "restart redis" /\ phase \in Restarts /\ saved \in Saved /\ sink = "redis"
      /\ pending = [s \in Streams |-> << >>] /\ sim = Loaded(saved) /\ used # "once"
      /\ \A s \in Streams : active[s] = Missing
  BY DEF record_redis_boundary, Moved, Inv, OutputsInv, Restarts, Reopens
<1>1. /\ UNCHANGED <<sink, sim, pending, active, saved, saving, crashes, cut, refused>>
      /\ archives' = [s \in Streams |->
                        IF Unfinished(s)
                        THEN [archives[s] EXCEPT ![Len(archives[s])].boundary = saved.boundary[s]]
                        ELSE Append(archives[s], [rows |-> << >>, boundary |-> saved.boundary[s]])]
      /\ phase' = "open redis" /\ used' = IF used = "again" THEN used ELSE "once"
  BY DEF record_redis_boundary
<1>2. ASSUME NEW s \in Streams
      PROVE  /\ archives'[s] \in Seq(Archive) /\ archives'[s] # << >>
             /\ used = "no" => KeptRows(archives'[s]) = SavedRows(s)
  <2> DEFINE b == saved.boundary[s]
  <2>1. b \in Nat /\ archives[s] \in Seq(Archive) /\ archives[s] # << >>
    BY <1>0 DEF Saved, Inv, TypeInv, OutputsInv
  <2>2. archives'[s] = IF Unfinished(s) THEN [archives[s] EXCEPT ![Len(archives[s])].boundary = b]
                       ELSE Append(archives[s], [rows |-> << >>, boundary |-> b])
    BY <1>1
  <2>3. used = "no" => Unbounded(s) /\ Unfinished(s)
    BY <1>0 DEF Inv, LoadInv, Whole, Unbounded, Archived, Unfinished
  <2> HIDE DEF b
  <2>4. CASE Unfinished(s)
    <3>1. /\ archives'[s] \in Seq(Archive) /\ archives'[s] # << >>
          /\ Front(archives'[s]) = Front(archives[s])
          /\ Last(archives'[s]).rows = Last(archives[s]).rows /\ Last(archives'[s]).boundary = b
      BY <2>1, <2>2, <2>4, BoundLast
    <3>2. ASSUME used = "no" PROVE KeptRows(archives'[s]) = SavedRows(s)
      <4>1. /\ Len(Last(archives[s]).rows) >= b
            /\ KeptRows(Front(archives[s])) \o SubSeq(Last(archives[s]).rows, 1, b) = SavedRows(s)
        BY <2>3, <3>2 DEF Unbounded, Archived, b
      <4>2. KeptRows(archives'[s]) = KeptRows(Front(archives'[s])) \o SubSeq(Last(archives'[s]).rows, 1, b)
        BY <2>1, <3>1, <4>1, BoundedKept
      <4> QED BY <3>1, <4>1, <4>2
    <3> QED BY <3>1, <3>2
  <2>5. CASE ~Unfinished(s)
    <3> DEFINE e == [rows |-> << >>, boundary |-> b]
    <3>1. e \in Archive
      BY <2>1, RowSeqFacts DEF Archive
    <3>2. archives'[s] = Append(archives[s], e)
      BY <2>2, <2>5
    <3> HIDE DEF e
    <3>3. archives'[s] \in Seq(Archive) /\ archives'[s] # << >>
      BY <2>1, <3>1, <3>2, AppendFrontLast
    <3> QED BY <2>3, <2>5, <3>3
  <2> QED BY <2>4, <2>5
<1>3. archives' = [s \in Streams |-> archives'[s]]
  BY <1>1
<1>4. active' = [s \in Streams |-> active'[s]] /\ \A s \in Streams : active'[s] \in RowSeq \cup {Missing}
  <2>1. active \in [Streams -> RowSeq \cup {Missing}]
    BY DEF Inv, TypeInv
  <2> QED BY ONLY <1>1, <2>1
<1>5. phase' \in Restarts /\ used' \in {"no", "once", "again"} /\ (used = "again" => used' = "again")
  BY <1>1 DEF Restarts, Reopens, Inv, TypeInv
<1>6. /\ TypeInv' /\ FilesInv' /\ SavingInv' /\ AutoInv' /\ RestartPossible'
      /\ ~Running' /\ phase' # "down"
  BY <1>0, <1>1, <1>2, <1>3, <1>4, <1>5, RestartStep
<1>7. OutputsInv'
  <2>1. \A s \in Streams : active'[s] = Missing => archives'[s] # << >>
    BY <1>2
  <2>2. Loaded(saved)' = Loaded(saved)
    BY <1>1
  <2>3. used' # "no"
    BY <1>1
  <2> QED BY <1>0, <1>1, <1>6, <2>1, <2>2, <2>3 DEF OutputsInv, RestartJobs, RestartResources, Reopens
<1>8. RunInv'
  <2>1. ASSUME used' # "again", NEW s \in Streams PROVE KeptRows(archives'[s]) = SavedRows(s)'
    <3>1. used = "no"
      BY <1>0, <1>1, <2>1 DEF Inv, TypeInv
    <3> QED BY <1>1, <1>2, <3>1 DEF SavedRows
  <2> QED BY <1>6, <2>1 DEF RunInv, KeptRows
<1>9. LoadInv'
  <2>1. used' # "no"
    BY <1>1
  <2> QED BY <2>1 DEF LoadInv
<1> QED BY <1>6, <1>7, <1>8, <1>9 DEF Inv

LEMMA OpenRedisKeeps == ASSUME Inv, open_redis PROVE Inv'
<1>0. /\ phase = "open redis" /\ phase \in Restarts /\ phase \in Reopens /\ saved \in Saved
      /\ sink = "redis" /\ pending = [s \in Streams |-> << >>] /\ sim = Loaded(saved) /\ used # "no"
  BY DEF open_redis, Inv, OutputsInv, Restarts, Reopens
<1>1. /\ UNCHANGED <<sink, sim, pending, archives, saved, saving, used, crashes, cut, refused>>
      /\ active' = [active EXCEPT !["jobs"] = << >>] /\ phase' = "trace redis"
  BY DEF open_redis
<1>2. active \in [Streams -> RowSeq \cup {Missing}] /\ archives \in [Streams -> Seq(Archive)]
      /\ used \in {"no", "once", "again"}
  BY DEF Inv, TypeInv
<1>3. /\ active' = [s \in Streams |-> active'[s]] /\ active'["jobs"] = << >>
      /\ active'["resources"] = active["resources"]
  BY ONLY <1>1, <1>2 DEF Streams
<1>4. archives' = [s \in Streams |-> archives'[s]]
  BY ONLY <1>1, <1>2
<1>5. \A s \in Streams : /\ active'[s] \in RowSeq \cup {Missing} /\ archives'[s] \in Seq(Archive)
                         /\ active'[s] = Missing => archives'[s] # << >>
  BY <1>1, <1>2, <1>3, RowSeqFacts DEF Inv, OutputsInv, Streams
<1>6. /\ TypeInv' /\ FilesInv' /\ SavingInv' /\ AutoInv' /\ RestartPossible'
      /\ ~Running' /\ phase' # "down"
  <2>1. phase' \in Restarts
    BY <1>1 DEF Restarts, Reopens
  <2> QED BY <1>0, <1>1, <1>2, <1>3, <1>4, <1>5, <2>1, RestartStep
<1>7. OutputsInv'
  BY <1>0, <1>1, <1>3, <1>5, <1>6 DEF OutputsInv, RestartJobs, RestartResources, Reopens
<1>8. RunInv'
  BY <1>0, <1>1, <1>6 DEF Inv, RunInv, KeptRows, SavedRows
<1>9. LoadInv'
  BY <1>0, <1>1 DEF LoadInv
<1> QED BY <1>6, <1>7, <1>8, <1>9 DEF Inv

LEMMA StartResourceTraceKeeps == ASSUME Inv, start_resource_trace PROVE Inv'
<1>0. /\ phase = "trace redis" /\ phase \in Restarts /\ phase \in Reopens
      /\ active["jobs"] = << >> /\ used # "no"
  BY DEF start_resource_trace, Inv, OutputsInv, Restarts, Reopens
<1>1. /\ UNCHANGED <<sink, sim, pending, archives, saved, saving, used, crashes, cut, refused>>
      /\ active' = [active EXCEPT !["resources"] = << >>] /\ phase' = "load"
  BY DEF start_resource_trace
<1>2. /\ active \in [Streams -> RowSeq \cup {Missing}] /\ archives' \in [Streams -> Seq(Archive)]
      /\ used' \in {"once", "again"}
  BY <1>0, <1>1 DEF Inv, TypeInv
<1>3. active' = [s \in Streams |-> << >>]
  BY ONLY <1>0, <1>1, <1>2 DEF Streams
<1>4. used' # "again" => \A s \in Streams : KeptRows(archives'[s]) = SavedRows(s)
  BY <1>0, <1>1 DEF Inv, RunInv
<1> QED BY <1>0, <1>1, <1>2, <1>3, <1>4, RestartedKeeps
-----------------------------------------------------------------------------
LEMMA StutterKeeps == ASSUME Inv, UNCHANGED vars PROVE Inv'
<1> USE DEF vars
<1>0. TypeInv'
  BY DEF Inv, TypeInv, Counted, Known
<1>1. OutputsInv'
  BY DEF Inv, OutputsInv, Running
<1>2. FilesInv' /\ SavingInv' /\ AutoInv' /\ RestartPossible'
  BY DEF Inv, FilesInv, SavingInv, AutoInv, RestartPossible, Running
<1>3. RunInv'
  BY DEF Inv, RunInv, Running, SavedRows, KeptRows, Handed
<1>4. LoadInv'
  BY Untouched DEF Inv, LoadInv, Loadable, Running
<1> QED BY <1>0, <1>1, <1>2, <1>3, <1>4 DEF Inv

THEOREM InvInductive == Spec => []Inv
<1>1. Inv /\ [Next]_vars => Inv'
  BY StutterKeeps, LoadNextFileKeeps, AdvanceKeeps, ReachTargetKeeps, BeginDrainKeeps, FinishKeeps,
     WriteBehindKeeps, SaveBeginKeeps, SaveEndKeeps, NotDueKeeps, CrashKeeps, LoadCheckpointKeeps,
     MatchKeeps, ArchiveOutputKeeps, RecordBoundaryKeeps, OpenSegmentKeeps, RestoreOutputKeeps,
     RenameDocumentKeeps, RenameKeyKeeps, RecordRedisBoundaryKeeps, OpenRedisKeeps,
     StartResourceTraceKeeps DEF Next
<1> QED BY InvInit, <1>1, PTL DEF Spec

-----------------------------------------------------------------------------
(* The keys and the lengths of the archives. *)

LEMMA FitsAppend ==
  ASSUME NEW a \in Seq(Archive), NEW e \in Archive, Fits(a), e.boundary <= Len(e.rows)
  PROVE  Fits(Append(a, e))
<1> DEFINE c == Append(a, e)
<1>1. /\ DOMAIN c = 1 .. Len(a) + 1 /\ DOMAIN a = 1 .. Len(a) /\ Len(a) \in Nat
      /\ c[Len(a) + 1] = e /\ \A i \in 1 .. Len(a) : c[i] = a[i]
  OBVIOUS
<1> HIDE DEF c
<1>2. ASSUME NEW i \in DOMAIN c PROVE c[i].boundary <= Len(c[i].rows)
  <2>1. i = Len(a) + 1 \/ i \in 1 .. Len(a)
    BY <1>1
  <2> QED BY <1>1, <2>1 DEF Fits
<1> QED BY <1>2 DEF Fits, c

LEMMA FitsFront ==
  ASSUME NEW a \in Seq(Archive), a # << >>, Fits(a)
  PROVE  Fits(Front(a)) /\ Last(a).boundary <= Len(Last(a).rows)
<1>1. /\ Front(a) \in Seq(Archive) /\ Last(a) \in Archive /\ a = Append(Front(a), Last(a))
  BY FrontLast
<1> DEFINE f == Front(a)
<1> DEFINE l == Last(a)
<1> HIDE DEF f, l
<1>2. /\ DOMAIN f = 1 .. Len(f) /\ DOMAIN a = 1 .. Len(f) + 1 /\ Len(f) \in Nat
      /\ a[Len(f) + 1] = l /\ \A i \in 1 .. Len(f) : a[i] = f[i]
  <2>1. f \in Seq(Archive) /\ a = Append(f, l)
    BY <1>1 DEF f, l
  <2> QED BY ONLY <2>1
<1>3. Fits(f)
  BY <1>2 DEF Fits
<1>4. l.boundary <= Len(l.rows)
  <2>1. Len(f) + 1 \in DOMAIN a
    BY <1>2
  <2> QED BY <1>2, <2>1 DEF Fits
<1> QED BY <1>3, <1>4 DEF f, l

LEMMA FitsBound ==
  ASSUME NEW a \in Seq(Archive), a # << >>, NEW b \in Nat, Fits(a), b <= Len(Last(a).rows)
  PROVE  Fits([a EXCEPT ![Len(a)].boundary = b])
<1> DEFINE c == [a EXCEPT ![Len(a)].boundary = b]
<1>1. /\ c \in Seq(Archive) /\ c # << >> /\ Front(c) = Front(a)
      /\ Last(c).rows = Last(a).rows /\ Last(c).boundary = b
  BY BoundLast
<1> HIDE DEF c
<1>2. /\ Front(c) \in Seq(Archive) /\ Last(c) \in Archive /\ c = Append(Front(c), Last(c))
  BY <1>1, FrontLast
<1>3. Fits(Front(c)) /\ Last(c).boundary <= Len(Last(c).rows)
  BY <1>1, FitsFront
<1> QED BY <1>2, <1>3, FitsAppend DEF c

LEMMA FitsArchived ==
  ASSUME NEW a \in Seq(Archive), NEW r \in RowSeq, Fits(a)
  PROVE  Fits(Append(a, [rows |-> r, boundary |-> NoBoundary]))
<1>1. Len(r) \in Nat
  BY RowSeqFacts
<1>2. NoBoundary <= Len(r)
  BY <1>1 DEF NoBoundary
<1> DEFINE e == [rows |-> r, boundary |-> NoBoundary]
<1>3. e \in Archive /\ e.boundary <= Len(e.rows)
  BY <1>2 DEF Archive
<1> HIDE DEF e
<1> QED BY <1>3, FitsAppend DEF e

LEMMA RowSetType == ASSUME NEW r \in RowSeq PROVE ToSet(r) \subseteq Nat
BY DEF ToSet, RowSeq

LEMMA ListedType ==
  ASSUME Inv, NEW s \in Streams
  PROVE  Listed(s) \subseteq Nat
<1>1. active[s] # Missing => active[s] \in RowSeq
  BY StreamTypes
<1>2. ASSUME active[s] = Missing PROVE Last(archives[s]).rows \in RowSeq
  <2>1. archives[s] \in Seq(Archive) /\ archives[s] # << >>
    BY <1>2, StreamTypes DEF Inv, OutputsInv
  <2>2. Last(archives[s]) \in Archive
    BY <2>1, FrontLast
  <2> QED BY <2>2 DEF Archive
<1> QED BY <1>1, <1>2, RowSetType DEF Listed

(* What a load has read of the indexes. *)
LEMMA KeysMoving ==
  ASSUME KeysInv, used # "again", ~torn, phase = "restart redis", NEW s \in Streams
  PROVE  /\ redis[s].behind \subseteq redis[s].moving
         /\ redis[s].listed => redis[s].moving = Listed(s)
<1>1. Read(s)
  BY DEF KeysInv
<1> QED BY ONLY <1>1 DEF Read

LEMMA KeysAtRest ==
  ASSUME KeysInv, sink = "file", NEW s \in Streams
  PROVE  redis[s].listed /\ redis[s].moving = {} /\ redis[s].behind = {}
<1>1. redis[s] = AtRest
  BY DEF KeysInv
<1> QED BY ONLY <1>1 DEF AtRest

LEMMA KeysInit == Init => KeysInv /\ SegmentsInv
<1> SUFFICES ASSUME Init PROVE KeysInv /\ SegmentsInv
  OBVIOUS
<1>1. /\ redis = [s \in Streams |-> AtRest] /\ torn = FALSE /\ phase = "load"
      /\ archives = [s \in Streams |-> << >>]
  BY DEF Init, AtRest
<1>2. AtRest \in [listed : BOOLEAN, moving : SUBSET Nat, behind : SUBSET Nat]
      /\ AtRest.listed /\ AtRest.moving = {} /\ AtRest.behind = {}
  BY DEF AtRest
<1>3. KeysInv
  BY <1>1, <1>2 DEF KeysInv
<1>4. SegmentsInv
  BY <1>1 DEF SegmentsInv, Fits
<1> QED BY <1>3, <1>4

(* A process that runs leaves the keys of what is archived. *)
LEMMA KeysUntouched ==
  ASSUME Inv, KeysInv, SegmentsInv, UNCHANGED <<sink, archives, redis, torn>>,
         phase \notin Restarts \cup {"down"}, phase' \notin {"down", "restart redis"},
         used = "again" => used' = "again"
  PROVE  KeysInv' /\ SegmentsInv'
<1>1. SegmentsInv'
  BY DEF SegmentsInv
<1>2. \A s \in Streams : redis[s].listed
  <2>1. Running \/ phase = "aborted"
    BY DEF Inv, TypeInv, Phases, Running
  <2> QED BY <2>1 DEF Inv, OutputsInv, KeysInv
<1>3. phase # "restart redis" /\ phase # "down"
  BY DEF Restarts
<1> QED BY <1>1, <1>2, <1>3 DEF KeysInv

(* In the sink of files no key is renamed. *)
LEMMA FileKeys ==
  ASSUME KeysInv, UNCHANGED <<sink, redis, torn>>, sink = "file", phase' # "restart redis"
  PROVE  KeysInv'
<1>1. \A s \in Streams : redis[s].listed /\ redis[s].moving = {} /\ redis[s].behind = {}
  BY KeysAtRest
<1> QED BY <1>1 DEF KeysInv

LEMMA RunKeys ==
  ASSUME Inv, KeysInv, SegmentsInv,
         \/ load_next_file \/ advance \/ reach_target \/ begin_drain \/ finish
         \/ \E s \in Streams : write_behind(s)
         \/ save_begin \/ save_end \/ not_due
  PROVE  KeysInv' /\ SegmentsInv'
<1>1. /\ phase \notin Restarts \cup {"down"} /\ phase' \notin {"down", "restart redis"}
      /\ used = "again" => used' = "again"
      /\ UNCHANGED <<sink, archives, redis, torn>>
  <2>1. CASE load_next_file \/ advance \/ reach_target \/ begin_drain \/ finish
    BY <2>1 DEF load_next_file, advance, reach_target, begin_drain, finish,
                Restarts, RestartJobs, RestartResources, Reopens
  <2>2. ASSUME NEW s \in Streams, write_behind(s)
        PROVE  /\ phase \notin Restarts \cup {"down"} /\ phase' = phase /\ used' = used
               /\ UNCHANGED <<sink, archives, redis, torn>>
    <3>1. pending # [z \in Streams |-> << >>]
      BY <2>2 DEF write_behind
    <3> QED BY <2>2, <3>1 DEF write_behind, Inv, OutputsInv
  <2>3. CASE \E s \in Streams : write_behind(s)
    BY <2>2, <2>3 DEF Restarts
  <2>4. CASE save_begin \/ not_due
    BY <2>4 DEF save_begin, not_due, After, Restarts, RestartJobs, RestartResources, Reopens
  <2>5. CASE save_end
    <3>1. phase' \in {"load", "advance", "drain"}
      BY <2>5 DEF save_end, Inv, SavingInv, Saved
    <3> QED BY <2>5, <3>1 DEF save_end, Restarts, RestartJobs, RestartResources, Reopens
  <2> QED BY <2>1, <2>3, <2>4, <2>5
<1> QED BY <1>1, KeysUntouched

(* A crash forgets what was read of the indexes: unless an index was       *)
(* renamed and records of it were not, the next load reads it again.       *)
LEMMA CrashKeys == ASSUME Inv, KeysInv, SegmentsInv, crash PROVE KeysInv' /\ SegmentsInv'
<1>0. /\ phase # "down" /\ phase' = "down" /\ UNCHANGED <<sink, active, archives, used>>
      /\ redis' = [s \in Streams |-> [redis[s] EXCEPT !.moving = {}]]
      /\ torn' = (torn \/ \E s \in Streams : ~redis[s].listed /\ redis[s].moving # {})
  BY DEF crash, Up
<1>1. redis \in [Streams -> [listed : BOOLEAN, moving : SUBSET Nat, behind : SUBSET Nat]] /\ torn \in BOOLEAN
  BY DEF KeysInv
<1>2. \A s \in Streams : /\ redis'[s] \in [listed : BOOLEAN, moving : SUBSET Nat, behind : SUBSET Nat]
                         /\ redis'[s].listed = redis[s].listed /\ redis'[s].moving = {}
                         /\ redis'[s].behind = redis[s].behind
  BY ONLY <1>0, <1>1
<1>3. redis' \in [Streams -> [listed : BOOLEAN, moving : SUBSET Nat, behind : SUBSET Nat]] /\ torn' \in BOOLEAN
  <2>1. redis' = [s \in Streams |-> redis'[s]] /\ torn' \in BOOLEAN
    BY ONLY <1>0, <1>1
  <2> QED BY ONLY <1>2, <2>1
<1>4. sink' = "file" => \A s \in Streams : redis'[s] = AtRest
  <2> SUFFICES ASSUME sink = "file", NEW s \in Streams PROVE redis'[s] = AtRest
    BY <1>0
  <2>1. redis[s] = AtRest
    BY DEF KeysInv
  <2>2. redis'[s] = [redis[s] EXCEPT !.moving = {}]
    BY ONLY <1>0, s \in Streams
  <2> QED BY ONLY <2>1, <2>2 DEF AtRest
<1>5. ASSUME used # "again", ~torn', NEW s \in Streams, used = "no"
      PROVE  redis'[s].behind \subseteq Listed(s)'
  <2>1. ~torn /\ (redis[s].listed \/ redis[s].moving = {})
    BY <1>0, <1>5
  <2>2. Listed(s)' = Listed(s)
    BY <1>0, <1>2 DEF Listed
  <2>3. CASE phase # "restart redis"
    BY <1>0, <1>2, <1>5, <2>1, <2>3 DEF KeysInv
  <2>4. CASE phase = "restart redis"
    <3>1. redis[s].behind \subseteq redis[s].moving /\ (redis[s].listed => redis[s].moving = Listed(s))
      BY <1>5, <2>1, <2>4, KeysMoving
    <3> QED BY ONLY <1>2, <1>5, <2>1, <2>2, <3>1
  <2> QED BY <2>3, <2>4
<1>6. \A s \in Streams : active'[s] # Missing => redis'[s].listed
  BY <1>0, <1>2 DEF KeysInv
<1>7. KeysInv'
  BY <1>0, <1>2, <1>3, <1>4, <1>5, <1>6 DEF KeysInv
<1> QED BY <1>0, <1>7 DEF SegmentsInv

LEMMA LoadKeys == ASSUME Inv, KeysInv, SegmentsInv, load_checkpoint PROVE KeysInv' /\ SegmentsInv'
<1>0. /\ phase = "down" /\ UNCHANGED <<sink, active, archives, torn>>
      /\ phase' = IF sink = "file" THEN "restart jobs" ELSE "restart redis"
      /\ used' = IF used = "no" THEN used ELSE "again"
      /\ redis' = IF sink = "file" THEN redis
                  ELSE [s \in Streams |-> [redis[s] EXCEPT !.moving = Listed(s)]]
  BY DEF load_checkpoint
<1>1. SegmentsInv'
  BY <1>0 DEF SegmentsInv
<1>2. CASE sink = "file"
  BY <1>0, <1>1, <1>2, FileKeys
<1>3. CASE sink # "file"
  <2>1. redis \in [Streams -> [listed : BOOLEAN, moving : SUBSET Nat, behind : SUBSET Nat]] /\ torn' \in BOOLEAN
    BY <1>0 DEF KeysInv
  <2>2. \A s \in Streams : Listed(s) \in SUBSET Nat
    BY ListedType
  <2>3. redis' = [s \in Streams |-> [redis[s] EXCEPT !.moving = Listed(s)]]
    BY <1>0, <1>3
  <2>4. \A s \in Streams : /\ redis'[s] \in [listed : BOOLEAN, moving : SUBSET Nat, behind : SUBSET Nat]
                           /\ redis'[s].listed = redis[s].listed /\ redis'[s].moving = Listed(s)
                           /\ redis'[s].behind = redis[s].behind
    BY ONLY <2>1, <2>2, <2>3
  <2>5. redis' \in [Streams -> [listed : BOOLEAN, moving : SUBSET Nat, behind : SUBSET Nat]]
    <3>1. redis' = [s \in Streams |-> redis'[s]]
      BY ONLY <2>3
    <3> QED BY ONLY <2>4, <3>1
  <2>6. \A s \in Streams : Listed(s)' = Listed(s)
    BY <1>0, <2>4 DEF Listed
  <2>7. used' # "again" /\ ~torn' => \A s \in Streams : redis[s].behind \subseteq Listed(s)
    BY <1>0 DEF KeysInv
  <2>8. \A s \in Streams : active'[s] # Missing => redis'[s].listed
    BY <1>0, <2>4 DEF KeysInv
  <2>9. phase' = "restart redis"
    BY <1>0, <1>3
  <2>10. used' # "again" /\ ~torn' => \A s \in Streams : Read(s)'
    BY ONLY <2>4, <2>6, <2>7 DEF Read
  <2> QED BY <1>0, <1>1, <1>3, <2>1, <2>5, <2>8, <2>9, <2>10 DEF KeysInv
<1> QED BY <1>2, <1>3

LEMMA StillKeys ==
  ASSUME KeysInv, SegmentsInv, UNCHANGED <<sink, phase, active, archives, redis, used, torn>>
  PROVE  KeysInv' /\ SegmentsInv'
<1>1. \A s \in Streams : Listed(s)' = Listed(s)
  BY DEF Listed
<1>2. SegmentsInv'
  BY DEF SegmentsInv
<1>3. \A s \in Streams : redis'[s] = redis[s] /\ active'[s] = active[s]
  OBVIOUS
<1> QED BY <1>1, <1>2, <1>3, ZenonT(30) DEF KeysInv, Read

(* The restart of an output file. *)
LEMMA FileRestartKeys ==
  ASSUME Inv, KeysInv, SegmentsInv,
         archive_output \/ record_boundary \/ open_segment \/ restore_output
  PROVE  KeysInv' /\ SegmentsInv'
<1>s. PICK s \in Streams : s = Restarting
  BY DEF Restarting, Streams
<1>0. phase \in {"restart jobs", "restart resources", "boundary jobs", "boundary resources",
                 "open jobs", "open resources"}
  BY StepFacts DEF archive_output, record_boundary, open_segment, restore_output
<1>1. sink = "file" /\ used # "once" /\ saved \in Saved
  BY <1>0 DEF Inv, OutputsInv, Restarts, RestartJobs, RestartResources, Reopens
<1>2. UNCHANGED <<sink, redis, torn>> /\ (used = "again" => used' = "again")
  BY DEF archive_output, record_boundary, open_segment, restore_output
<1>3. phase' # "restart redis"
  <2>1. Step("boundary") # "restart redis" /\ Step("open") # "restart redis"
    BY DEF Step
  <2> QED BY <2>1 DEF archive_output, record_boundary, open_segment, restore_output, Stop
<1>4. KeysInv'
  BY <1>1, <1>2, <1>3, FileKeys
<1>5. SegmentsInv'
  <2> SUFFICES ASSUME used # "again" PROVE \A z \in Streams : Fits(archives'[z])
    BY <1>2 DEF SegmentsInv
  <2>1. /\ \A z \in Streams : Fits(archives[z])
        /\ archives \in [Streams -> Seq(Archive)] /\ archives[s] \in Seq(Archive) /\ used = "no"
    BY <1>1 DEF SegmentsInv, Inv, TypeInv
  <2>2. CASE archives' = archives
    BY <2>1, <2>2
  <2>3. CASE archive_output /\ archives' # archives
    <3>1. /\ archives' = [archives EXCEPT ![s] = Append(@, [rows |-> active[s], boundary |-> NoBoundary])]
          /\ active[s] # Missing
      BY <1>s, <2>3 DEF archive_output
    <3>2. active[s] \in RowSeq
      BY <3>1, StreamTypes
    <3>3. Fits(Append(archives[s], [rows |-> active[s], boundary |-> NoBoundary]))
      BY <2>1, <3>2, FitsArchived
    <3>4. /\ archives'[s] = Append(archives[s], [rows |-> active[s], boundary |-> NoBoundary])
          /\ \A z \in Streams : z # s => archives'[z] = archives[z]
      BY ONLY <2>1, <3>1
    <3> QED BY <2>1, <3>3, <3>4
  <2>4. CASE record_boundary
    <3>1. /\ archives' = [archives EXCEPT ![s][Len(archives[s])].boundary = saved.boundary[s]]
          /\ phase \in {"boundary jobs", "boundary resources"}
      BY <1>s, <2>4, StepFacts DEF record_boundary
    <3>2. Unbounded(s)
      BY <1>s, <1>1, <2>1, <3>1, StepFacts DEF Inv, LoadInv, RestartJobs, RestartResources
    <3>3. archives[s] # << >> /\ saved.boundary[s] \in Nat /\ saved.boundary[s] <= Len(Last(archives[s]).rows)
      <4>1. archives[s] # << >> /\ Len(Last(archives[s]).rows) >= saved.boundary[s]
        BY <3>2 DEF Unbounded, Archived
      <4>2. saved.boundary[s] \in Nat
        BY <1>1 DEF Saved
      <4> QED BY <4>1, <4>2
    <3>4. Fits([archives[s] EXCEPT ![Len(archives[s])].boundary = saved.boundary[s]])
      BY <2>1, <3>3, FitsBound
    <3>5. /\ archives'[s] = [archives[s] EXCEPT ![Len(archives[s])].boundary = saved.boundary[s]]
          /\ \A z \in Streams : z # s => archives'[z] = archives[z]
      BY ONLY <2>1, <3>1
    <3> QED BY <2>1, <3>4, <3>5
  <2>5. CASE restore_output
    <3>1. /\ archives' = [archives EXCEPT ![s] = Front(@)]
          /\ phase \in {"boundary jobs", "boundary resources", "open jobs", "open resources"}
      BY <1>s, <2>5, StepFacts DEF restore_output
    <3>2. archives[s] # << >>
      BY <1>s, <3>1, StepFacts DEF Inv, OutputsInv, RestartJobs, RestartResources
    <3>3. Fits(Front(archives[s]))
      BY <2>1, <3>2, FitsFront
    <3>4. archives'[s] = Front(archives[s]) /\ \A z \in Streams : z # s => archives'[z] = archives[z]
      BY ONLY <2>1, <3>1
    <3> QED BY <2>1, <3>3, <3>4
  <2> QED BY <2>2, <2>3, <2>4, <2>5 DEF open_segment
<1> QED BY <1>4, <1>5

(* The renaming of a document leaves its records behind, and all of them   *)
(* are listed; an index that is renamed was read before.                   *)
LEMMA RenameDocumentKeys ==
  ASSUME Inv, KeysInv, SegmentsInv, NEW s \in Streams, rename_document(s)
  PROVE  KeysInv' /\ SegmentsInv'
<1>0. /\ phase = "restart redis" /\ phase' = phase /\ UNCHANGED <<sink, used, torn>> /\ sink = "redis"
      /\ active[s] # Missing
      /\ archives' = [archives EXCEPT ![s] = Append(@, [rows |-> active[s], boundary |-> NoBoundary])]
      /\ active' = [active EXCEPT ![s] = Missing]
      /\ redis' = [redis EXCEPT ![s].behind = @ \cup ToSet(active[s])]
  BY DEF rename_document, InTurn, Inv, OutputsInv
<1>1. /\ active \in [Streams -> RowSeq \cup {Missing}] /\ archives \in [Streams -> Seq(Archive)]
      /\ redis \in [Streams -> [listed : BOOLEAN, moving : SUBSET Nat, behind : SUBSET Nat]]
      /\ torn \in BOOLEAN /\ redis[s].listed
  BY <1>0 DEF Inv, TypeInv, KeysInv
<1>2. active[s] \in RowSeq /\ ToSet(active[s]) \in SUBSET Nat
  BY <1>0, <1>1, RowSetType
<1>3. /\ active'[s] = Missing
      /\ archives'[s] = Append(archives[s], [rows |-> active[s], boundary |-> NoBoundary])
      /\ redis'[s].listed = redis[s].listed /\ redis'[s].moving = redis[s].moving
      /\ redis'[s].behind = redis[s].behind \cup ToSet(active[s])
      /\ \A z \in Streams : z # s => active'[z] = active[z] /\ archives'[z] = archives[z] /\ redis'[z] = redis[z]
  BY ONLY <1>0, <1>1, s \in Streams
<1>4. redis' \in [Streams -> [listed : BOOLEAN, moving : SUBSET Nat, behind : SUBSET Nat]]
  BY ONLY <1>0, <1>1, <1>2, s \in Streams
<1>5. Listed(s)' = ToSet(active[s]) /\ Listed(s) = ToSet(active[s])
  <2>1. Last(archives'[s]).rows = active[s]
    <3> DEFINE e == [rows |-> active[s], boundary |-> NoBoundary]
    <3>1. e \in Archive /\ e.rows = active[s]
      BY <1>2 DEF Archive
    <3>2. archives[s] \in Seq(Archive) /\ archives'[s] = Append(archives[s], e)
      BY <1>1, <1>3
    <3> HIDE DEF e
    <3> QED BY <3>1, <3>2, AppendFrontLast
  <2> QED BY <1>0, <1>1, <1>3, <2>1 DEF Listed
<1>6. ASSUME used # "again", ~torn, NEW z \in Streams
      PROVE  /\ redis'[z].behind \subseteq redis'[z].moving
             /\ redis'[z].listed => redis'[z].moving = Listed(z)'
  <2>1. redis[z].behind \subseteq redis[z].moving /\ (redis[z].listed => redis[z].moving = Listed(z))
    BY <1>0, <1>6, KeysMoving
  <2>2. CASE z = s
    BY <1>1, <1>3, <1>5, <2>1, <2>2
  <2>3. CASE z # s
    <3>1. Listed(z)' = Listed(z) /\ redis'[z] = redis[z]
      BY <1>3, <2>3 DEF Listed
    <3> QED BY ONLY <2>1, <3>1
  <2> QED BY <2>2, <2>3
<1>7. \A z \in Streams : active'[z] # Missing => redis'[z].listed
  BY <1>3 DEF KeysInv
<1>8. KeysInv'
  BY <1>0, <1>1, <1>4, <1>6, <1>7 DEF KeysInv, Read
<1>9. SegmentsInv'
  <2> SUFFICES ASSUME used # "again", NEW z \in Streams PROVE Fits(archives'[z])
    BY <1>0 DEF SegmentsInv
  <2>1. Fits(archives[z]) /\ archives[z] \in Seq(Archive)
    BY <1>1 DEF SegmentsInv
  <2>2. z = s => Fits(Append(archives[z], [rows |-> active[s], boundary |-> NoBoundary]))
    BY <1>2, <2>1, FitsArchived
  <2> QED BY <1>3, <2>1, <2>2
<1> QED BY <1>8, <1>9

LEMMA RenameKeyKeys ==
  ASSUME Inv, KeysInv, SegmentsInv, NEW s \in Streams, rename_index(s) \/ rename_record(s)
  PROVE  KeysInv' /\ SegmentsInv'
<1> DEFINE row == Min(redis[s].moving)
<1>0. /\ phase = "restart redis" /\ phase' = phase /\ sink = "redis" /\ active[s] = Missing
      /\ UNCHANGED <<sink, active, archives, used, torn>>
      /\ \/ redis' = [redis EXCEPT ![s].listed = FALSE]
         \/ /\ ~redis[s].listed
            /\ redis' = [redis EXCEPT ![s].moving = @ \ {row}, ![s].behind = @ \ {row}]
  BY DEF rename_index, rename_record, InTurn, Moved, Inv, OutputsInv
<1>1. /\ redis \in [Streams -> [listed : BOOLEAN, moving : SUBSET Nat, behind : SUBSET Nat]]
      /\ torn \in BOOLEAN
  BY DEF KeysInv
<1> HIDE DEF row
<1>2. /\ redis' \in [Streams -> [listed : BOOLEAN, moving : SUBSET Nat, behind : SUBSET Nat]]
      /\ \A z \in Streams : z # s => redis'[z] = redis[z]
      /\ ~redis'[s].listed
      /\ redis[s].behind \subseteq redis[s].moving => redis'[s].behind \subseteq redis'[s].moving
  <2>1. CASE redis' = [redis EXCEPT ![s].listed = FALSE]
    BY ONLY <1>1, <2>1, s \in Streams
  <2>2. CASE /\ ~redis[s].listed
             /\ redis' = [redis EXCEPT ![s].moving = @ \ {row}, ![s].behind = @ \ {row}]
    BY ONLY <1>1, <2>2, s \in Streams
  <2> QED BY <1>0, <2>1, <2>2
<1>3. ASSUME used # "again", ~torn, NEW z \in Streams
      PROVE  /\ redis'[z].behind \subseteq redis'[z].moving
             /\ redis'[z].listed => redis'[z].moving = Listed(z)'
  <2>1. redis[z].behind \subseteq redis[z].moving /\ (redis[z].listed => redis[z].moving = Listed(z))
    BY <1>0, <1>3, KeysMoving
  <2>2. CASE z = s
    BY ONLY <1>2, <2>1, <2>2
  <2>3. CASE z # s
    <3>1. Listed(z)' = Listed(z) /\ redis'[z] = redis[z]
      BY <1>0, <1>2, <2>3 DEF Listed
    <3> QED BY ONLY <2>1, <3>1
  <2> QED BY <2>2, <2>3
<1>4. \A z \in Streams : active'[z] # Missing => redis'[z].listed
  BY <1>0, <1>2 DEF KeysInv
<1>5. KeysInv'
  BY <1>0, <1>1, <1>2, <1>3, <1>4 DEF KeysInv, Read
<1> QED BY <1>0, <1>5 DEF SegmentsInv

(* When the boundary is recorded, every record that was listed is renamed. *)
LEMMA RecordRedisBoundaryKeys ==
  ASSUME Inv, KeysInv, SegmentsInv, record_redis_boundary
  PROVE  KeysInv' /\ SegmentsInv'
<1>0. /\ phase = "restart redis" /\ sink = "redis" /\ used # "once" /\ saved \in Saved
      /\ \A s \in Streams : active[s] = Missing /\ ~redis[s].listed /\ redis[s].moving = {}
      /\ UNCHANGED <<sink, active, redis, torn>> /\ phase' = "open redis"
      /\ used' = IF used = "again" THEN used ELSE "once"
      /\ archives' = [s \in Streams |->
                        IF Unfinished(s)
                        THEN [archives[s] EXCEPT ![Len(archives[s])].boundary = saved.boundary[s]]
                        ELSE Append(archives[s], [rows |-> << >>, boundary |-> saved.boundary[s]])]
  BY DEF record_redis_boundary, Moved, Inv, OutputsInv, Restarts, Reopens
<1>1. ASSUME used # "again", ~torn, NEW s \in Streams PROVE redis[s].behind = {}
  <2>1. redis[s].behind \subseteq redis[s].moving /\ redis[s].moving = {}
    BY <1>0, <1>1, KeysMoving
  <2> QED BY ONLY <2>1
<1>2. KeysInv'
  BY <1>0, <1>1 DEF KeysInv
<1>3. SegmentsInv'
  <2> SUFFICES ASSUME used # "again", NEW s \in Streams PROVE Fits(archives'[s])
    BY <1>0 DEF SegmentsInv
  <2>1. used = "no" /\ Fits(archives[s]) /\ archives[s] \in Seq(Archive) /\ saved.boundary[s] \in Nat
    BY <1>0 DEF SegmentsInv, Inv, TypeInv, Saved
  <2>2. Unbounded(s)
    BY <1>0, <2>1 DEF Inv, LoadInv, Whole
  <2>3. /\ Unfinished(s) /\ archives[s] # << >>
        /\ Len(Last(archives[s]).rows) >= saved.boundary[s] /\ Len(Last(archives[s]).rows) \in Nat
    <3>1. archives[s] # << >>
      BY <2>2 DEF Unbounded, Archived
    <3>2. Last(archives[s]) \in Archive
      BY <2>1, <3>1, FrontLast
    <3> QED BY <2>2, <3>1, <3>2, RowSeqFacts DEF Unbounded, Archived, Unfinished, Archive
  <2>4. Fits([archives[s] EXCEPT ![Len(archives[s])].boundary = saved.boundary[s]])
    BY <2>1, <2>3, FitsBound
  <2> QED BY <1>0, <2>3, <2>4
<1> QED BY <1>2, <1>3

LEMMA OpenKeys ==
  ASSUME Inv, KeysInv, SegmentsInv, open_redis \/ start_resource_trace
  PROVE  KeysInv' /\ SegmentsInv'
<1>1. PICK s \in Streams : redis' = [redis EXCEPT ![s].listed = TRUE] /\ active' = [active EXCEPT ![s] = << >>]
  BY DEF open_redis, start_resource_trace, Streams
<1>2. /\ phase \notin {"down", "restart redis"} /\ phase' \notin {"down", "restart redis"} /\ sink = "redis"
      /\ UNCHANGED <<sink, archives, used, torn>>
  BY DEF open_redis, start_resource_trace, Inv, OutputsInv, Reopens
<1>3. redis \in [Streams -> [listed : BOOLEAN, moving : SUBSET Nat, behind : SUBSET Nat]]
      /\ active \in [Streams -> RowSeq \cup {Missing}]
  BY DEF Inv, TypeInv, KeysInv
<1>4. /\ redis' \in [Streams -> [listed : BOOLEAN, moving : SUBSET Nat, behind : SUBSET Nat]]
      /\ redis'[s].listed
      /\ \A z \in Streams : z # s => redis'[z].listed = redis[z].listed /\ active'[z] = active[z]
      /\ \A z \in Streams : redis'[z].moving = redis[z].moving /\ redis'[z].behind = redis[z].behind
  BY ONLY <1>1, <1>3
<1>5. \A z \in Streams : active'[z] # Missing => redis'[z].listed
  BY <1>4 DEF KeysInv
<1>6. KeysInv'
  BY <1>2, <1>4, <1>5 DEF KeysInv
<1> QED BY <1>2, <1>6 DEF SegmentsInv

THEOREM KeysInductive == Spec => [](KeysInv /\ SegmentsInv)
<1>1. Inv /\ KeysInv /\ SegmentsInv /\ [Next]_vars => KeysInv' /\ SegmentsInv'
  <2> SUFFICES ASSUME Inv, KeysInv, SegmentsInv, [Next]_vars PROVE KeysInv' /\ SegmentsInv'
    OBVIOUS
  <2>1. CASE UNCHANGED vars \/ require_checkpoint_match
    <3>1. UNCHANGED <<sink, phase, active, archives, redis, used, torn>>
      BY <2>1 DEF vars, require_checkpoint_match
    <3> QED BY <3>1, StillKeys
  <2>2. CASE \/ load_next_file \/ advance \/ reach_target \/ begin_drain \/ finish
             \/ \E s \in Streams : write_behind(s)
             \/ save_begin \/ save_end \/ not_due
    BY <2>2, RunKeys
  <2>3. CASE crash \/ load_checkpoint
    BY <2>3, CrashKeys, LoadKeys
  <2>4. CASE archive_output \/ record_boundary \/ open_segment \/ restore_output
    BY <2>4, FileRestartKeys
  <2>5. CASE \E s \in Streams : rename_document(s) \/ rename_index(s) \/ rename_record(s)
    BY <2>5, RenameDocumentKeys, RenameKeyKeys
  <2>6. CASE record_redis_boundary \/ open_redis \/ start_resource_trace
    BY <2>6, RecordRedisBoundaryKeys, OpenKeys
  <2> QED BY <2>1, <2>2, <2>3, <2>4, <2>5, <2>6, Zenon DEF Next
<1> QED BY InvInductive, KeysInit, <1>1, PTL DEF Spec

(* However often and wherever the process crashes, the stitched outputs of *)
(* a running one are the rows it has produced, each once and in order, and *)
(* those of a finished one are all of them; unless a crash came between    *)
(* the renaming of an index and of its records, stitch() finds every       *)
(* record (run_progressive(), load_checkpoint(),                           *)
(* archive_checkpoint_namespace(), stitch()).                              *)
THEOREM OutputAlwaysExact == Spec => []OutputExact
<1>1. Inv /\ KeysInv /\ SegmentsInv => OutputExact
  <2> SUFFICES ASSUME Inv, KeysInv, SegmentsInv, Running, used # "again"
               PROVE  /\ \A s \in Streams : Stitched(s) \o pending[s] = [i \in 1 .. Handed(sim)[s] |-> i]
                      /\ \A s \in Streams : torn \/ Rebuilds(s)
                      /\ phase = "done" => sim.written = Len(Job) /\ sim.completed = Jobs
    BY Zenon DEF OutputExact
  <2>1. \A s \in Streams : Stitched(s) \o pending[s] = [i \in 1 .. Handed(sim)[s] |-> i]
    BY DEF Inv, RunInv, Stitched, KeptRows, Iota
  <2>2. ASSUME NEW s \in Streams, ~torn PROVE Rebuilds(s)
    <3>1. redis[s].behind = {}
      BY <2>2 DEF KeysInv, Running
    <3>2. Fits(archives[s])
      BY DEF SegmentsInv
    <3> QED BY ONLY <3>1, <3>2 DEF Rebuilds, Fits
  <2>3. phase = "done" => sim.written = Len(Job) /\ sim.completed = Jobs
    BY DEF Inv, FilesInv
  <2> QED BY <2>1, <2>2, <2>3, Zenon
<1> QED BY InvInductive, KeysInductive, <1>1, PTL

(* A checkpoint that was not used yet can be restarted from, unless a load *)
(* was itself interrupted: start_restart_output_segment() finds every      *)
(* output, as long as its boundary says.                                   *)
THEOREM RestartAlwaysPossible == Spec => []RestartPossible
<1>1. Inv => RestartPossible
  BY DEF Inv
<1> QED BY InvInductive, <1>1, PTL

(* With a checkpoint interval, a crash while the simulation advances loses *)
(* less than that many completions (maybe_save_automatic_checkpoint()).    *)
THEOREM LostWorkAlwaysBounded == Spec => []LostWorkBounded
<1>1. Inv => LostWorkBounded
  <2> SUFFICES ASSUME Inv, Interval # 0, phase \in {"advance", "drain", "load"}
               PROVE  Cardinality(sim.completed)
                        - (IF saved = None THEN 0 ELSE Cardinality(saved.run.completed)) < Interval
    BY DEF LostWorkBounded
  <2>1. Running /\ phase # "saving"
    BY DEF Running
  <2> QED BY <2>1 DEF Inv, AutoInv
<1> QED BY InvInductive, <1>1, PTL
=============================================================================
