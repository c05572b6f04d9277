----------------------------- MODULE Checkpoint -----------------------------
(***************************************************************************)
(* A progressive run that checkpoints itself, crashes and is restarted     *)
(* (src/src/sim/sim.cpp: run_progressive(), save_checkpoint(),             *)
(* load_checkpoint(); scripts/stitch_checkpoint_output.py).                *)
(*                                                                         *)
(* The run reads the job files one by one and writes two outputs: a row    *)
(* for every job, in order of its number, and a resource sample for every  *)
(* departure.  When a job departs is fixed by the schedule (module         *)
(* Streaming: the schedule does not depend on when its jobs are read).     *)
(* A row is its number in the output; a header is left out.                *)
(*                                                                         *)
(* Of a process everything but the outputs and the checkpoint is lost in a *)
(* crash; of the rows it handed to an output stream any prefix has         *)
(* arrived.                                                                *)
(***************************************************************************)
EXTENDS Integers, Sequences, SequencesExt, FiniteSets, FiniteSetsExt, Functions

CONSTANTS
  Files,            \* --infile_list: sequences of [submit, end] records
  Interval,         \* --checkpoint_interval_jobs; 0 = file boundaries only
  Capacity,         \* --job_store_capacity under --job_store_overflow abort
  HistoryCapacity,  \* --resource_history_capacity
  Sinks,            \* "file" and "redis" output
  MaxCrashes        \* bound: crashes and failed loads

Job == FlattenSeq(Files)
Jobs == DOMAIN Job
Streams == {"jobs", "resources"}

(* The jobs of the first n files. *)
Admitted(n) == 1 .. Len(FlattenSeq(SubSeq(Files, 1, n)))
LastSubmit(n) == Max({Job[k].submit : k \in Admitted(n)})

ASSUME CheckpointAssumption ==
  /\ Files \in Seq(Seq([submit : Nat, end : Nat]))
  /\ \A k \in Jobs : Job[k].submit < Job[k].end
  /\ \A k, l \in Jobs : k < l => Job[k].submit <= Job[l].submit
  /\ Interval \in Nat /\ Capacity \in Nat \ {0} /\ HistoryCapacity \in Nat \ {0}
  /\ Sinks \subseteq {"file", "redis"} /\ MaxCrashes \in Nat

VARIABLES
  sink,
  phase,     \* what the process does; "down" without one
  sim,       \* its state
  pending,   \* rows handed to a stream that have not arrived in the output
  active,    \* the rows of the outputs; Missing without one
  archives,  \* .pre-restart.N: their rows and saved boundaries, in order
  redis,     \* Redis: the record of each row, and the index that lists them
  saved,     \* the checkpoint file: Torn while it is written
  saving,    \* the checkpoint that is being written
  used,      \* a process was restarted from the checkpoint: "no", "once",
             \* "again" from now on if any checkpoint was used twice
  torn,      \* a crash came between the renaming of an index and its records
  crashes,
  cut,       \* a load was interrupted
  refused    \* a load found an output missing or shorter than its boundary

(* redis[s]: the index is in the active namespace; the records that are    *)
(* still to be renamed by the process; the archived rows whose record is   *)
(* left in the active namespace.                                           *)
vars == <<sink, phase, sim, pending, active, archives, redis, saved, saving, used, torn, crashes, cut, refused>>

Missing == <<0>>   \* no row has the number 0
NoBoundary == -1
None == [phase |-> "none"]
Torn == [phase |-> "torn"]

(* clock     m_current_time                                                *)
(* file      m_next_progressive_file, as the number of files admitted      *)
(* completed m_jobs_completed                                              *)
(* written   m_num_reclaimed; every reclaimed job has a row                *)
(* history   samples in m_resource_history                                 *)
(* auto      the last automatic checkpoint: time, jobs, and if there is    *)
(*           one                                                           *)
Fresh ==
  [clock |-> 0, file |-> 0, completed |-> {}, written |-> 0, history |-> 0,
   auto |-> [has |-> FALSE, jobs |-> 0, time |-> 0]]

(* The rows that the process has handed to each output. *)
Handed(p) == [s \in Streams |-> IF s = "jobs" THEN p.written
                                ELSE Cardinality(p.completed) - p.history]

Init ==
  /\ sink \in Sinks
  /\ phase = "load" /\ sim = Fresh
  /\ pending = [s \in Streams |-> << >>]
  /\ active = [s \in Streams |-> << >>]
  /\ archives = [s \in Streams |-> << >>]
  /\ redis = [s \in Streams |-> [listed |-> TRUE, moving |-> {}, behind |-> {}]]
  /\ saved = None /\ saving = None /\ used = "no" /\ torn = FALSE
  /\ crashes = 0 /\ cut = FALSE /\ refused = FALSE

(* The rows that p has handed over since q. *)
Rows(q, p, s) == [i \in 1 .. Handed(p)[s] - Handed(q)[s] |-> Handed(q)[s] + i]
HandOver(p) == [s \in Streams |-> pending[s] \o Rows(sim, p, s)]

(* A file stream keeps the rows for a while; Redis has them when the       *)
(* transaction is executed.                                                *)
flush_job_range(p) ==
  /\ active' = [s \in Streams |-> active[s] \o (IF sink = "redis" THEN HandOver(p)[s] ELSE << >>)]
  /\ pending' = [s \in Streams |-> IF sink = "redis" THEN << >> ELSE HandOver(p)[s]]

-----------------------------------------------------------------------------
(* The front jobs that have departed. *)
DepartedFront(p, n) == Max({k \in p.written .. n : \A i \in p.written + 1 .. k : i \in p.completed})

(* reclaim_front_jobs(): as many rows as the batch needs. *)
Reclaimed(p, batch) ==
  LET known == Cardinality(Admitted(p.file))
      need  == Max({0, known - p.written + batch - Capacity})
  IN  [p EXCEPT !.written = Min({p.written + need, DepartedFront(p, known)})]

(* load_next_file(): the next file is read at the present clock and its    *)
(* jobs are submitted, or the job store cannot hold them.                  *)
load_next_file ==
  /\ phase = "load" /\ sim.file < Len(Files)
  /\ LET batch == Len(Files[sim.file + 1])
         p     == Reclaimed(sim, batch)
         next  == [p EXCEPT !.file = @ + 1]
     IN  IF batch = 0
         THEN sim' = [sim EXCEPT !.file = @ + 1] /\ phase' = "boundary" /\ UNCHANGED <<pending, active>>
         ELSE /\ flush_job_range(p)
              /\ IF Cardinality(Admitted(next.file)) - p.written > Capacity
                 THEN sim' = p /\ phase' = "aborted"
                 ELSE sim' = next /\ phase' = "advance"
  /\ UNCHANGED <<sink, archives, redis, saved, saving, used, torn, crashes, cut, refused>>

(* The departures up to the last submit time of the file, or all of them   *)
(* once every file is admitted.                                            *)
Departures ==
  {Job[k].end : k \in {j \in Admitted(sim.file) \ sim.completed :
                         phase = "drain" \/ Job[j].end <= LastSubmit(sim.file)}}

(* record_resource_sample(): a full history is handed over first. *)
Sampled(p, n) ==
  LET h == p.history + n
  IN  [p EXCEPT !.history = IF h <= HistoryCapacity THEN h ELSE ((h - 1) % HistoryCapacity) + 1]

(* One instant of advance_to(): every departure of the instant, and then   *)
(* the automatic checkpoint.                                               *)
advance ==
  /\ phase \in {"advance", "drain"} /\ Departures # {}
  /\ LET t    == Min(Departures)
         gone == {k \in Admitted(sim.file) \ sim.completed : Job[k].end = t}
         p    == Sampled([sim EXCEPT !.clock = t, !.completed = @ \cup gone], Cardinality(gone))
     IN  /\ sim' = p
         /\ flush_job_range(p)
  /\ phase' = IF phase = "advance" THEN "settled" ELSE "settled drain"
  /\ UNCHANGED <<sink, archives, redis, saved, saving, used, torn, crashes, cut, refused>>

(* advance_to() returns at the last submit time of the file. *)
reach_target ==
  /\ phase = "advance" /\ Departures = {}
  /\ sim' = [sim EXCEPT !.clock = Max({@, LastSubmit(sim.file)})]
  /\ phase' = "boundary"
  /\ UNCHANGED <<sink, pending, active, archives, redis, saved, saving, used, torn, crashes, cut, refused>>

begin_drain ==
  /\ phase = "load" /\ sim.file = Len(Files)
  /\ phase' = "drain"
  /\ UNCHANGED <<sink, sim, pending, active, archives, redis, saved, saving, used, torn, crashes, cut, refused>>

(* The final write_simulated_trace() and write_resource_trace(). *)
finish ==
  /\ phase = "drain" /\ Departures = {}
  /\ LET p == [sim EXCEPT !.written = Len(Job), !.history = 0]
     IN  /\ sim' = p
         /\ active' = [s \in Streams |-> active[s] \o HandOver(p)[s]]
         /\ pending' = [s \in Streams |-> << >>]
  /\ phase' = "done"
  /\ UNCHANGED <<sink, archives, redis, saved, saving, used, torn, crashes, cut, refused>>

(* The operating system writes what a stream holds. *)
write_behind(s) ==
  /\ pending[s] # << >>
  /\ active' = [active EXCEPT ![s] = Append(@, Head(pending[s]))]
  /\ pending' = [pending EXCEPT ![s] = Tail(@)]
  /\ UNCHANGED <<sink, phase, sim, archives, redis, saved, saving, used, torn, crashes, cut, refused>>

-----------------------------------------------------------------------------
(* Mutant: a checkpoint is due one completion later. *)
DueLate ==
  LET done == Cardinality(sim.completed)
  IN  IF phase = "boundary"
      THEN ~(sim.auto.has /\ done = sim.auto.jobs /\ sim.clock = sim.auto.time)
      ELSE Interval # 0 /\ done - sim.auto.jobs > Interval

(* What maybe_save_automatic_checkpoint() finds at a settled instant and   *)
(* at a file boundary.                                                     *)
Due ==
  LET done == Cardinality(sim.completed)
  IN  IF phase = "boundary"
      THEN ~(sim.auto.has /\ done = sim.auto.jobs /\ sim.clock = sim.auto.time)
      ELSE Interval # 0 /\ done - sim.auto.jobs >= Interval

After(ph) == CASE ph = "settled" -> "advance" [] ph = "settled drain" -> "drain" [] OTHER -> "load"

Remembered(p) == [p EXCEPT !.auto = [has |-> TRUE, jobs |-> Cardinality(p.completed), time |-> p.clock]]

(* The length of each output. *)
checkpoint_boundary(outputs) == [s \in Streams |-> Len(outputs[s])]

(* Mutant: the streams are not synchronized. *)
SnapshotUnsynced(p) ==
  LET q == [p EXCEPT !.history = 0]
  IN  [sim |-> q, active |-> active, pending |-> HandOver(q),
       boundary |-> checkpoint_boundary([s \in Streams |-> active[s] \o HandOver(q)[s]])]

(* save_checkpoint_impl(): the buffers are flushed, and the checkpoint     *)
(* holds the state and how long each output is.                            *)
Snapshot(p) ==
  LET q == [p EXCEPT !.history = 0]
  IN  [sim |-> q, active |-> [s \in Streams |-> active[s] \o HandOver(q)[s]],
       pending |-> [s \in Streams |-> << >>],
       boundary |-> checkpoint_boundary([s \in Streams |-> active[s] \o HandOver(q)[s]])]

(* What is serialized: the run, with the schedule standing for scheduler,  *)
(* running jobs and events, and the job store.                             *)
SavedRun(p) == [clock |-> p.clock, file |-> p.file, completed |-> p.completed, auto |-> p.auto]
SavedStore(p) == [written |-> p.written, history |-> p.history]
LoadedRun(c) == c.run
LoadedStore(c) == c.store

(* save_checkpoint(filename): everything is serialized first; then the     *)
(* file is truncated and written.                                          *)
save_begin ==
  /\ phase \in {"settled", "settled drain", "boundary"} /\ Due
  /\ LET c == Snapshot(Remembered(sim))
     IN  /\ sim' = c.sim /\ active' = c.active /\ pending' = c.pending
         /\ saving' = [phase |-> After(phase), run |-> SavedRun(c.sim), store |-> SavedStore(c.sim),
                       boundary |-> c.boundary]
  /\ saved' = Torn
  /\ phase' = "saving"
  /\ UNCHANGED <<sink, archives, redis, used, torn, crashes, cut, refused>>

save_end ==
  /\ phase = "saving"
  /\ saved' = saving /\ saving' = None /\ used' = (IF used = "again" THEN used ELSE "no")
  /\ phase' = saving.phase
  /\ UNCHANGED <<sink, sim, pending, active, archives, redis, torn, crashes, cut, refused>>

not_due ==
  /\ phase \in {"settled", "settled drain", "boundary"} /\ ~Due
  /\ phase' = After(phase)
  /\ UNCHANGED <<sink, sim, pending, active, archives, redis, saved, saving, used, torn, crashes, cut, refused>>

-----------------------------------------------------------------------------
Up == phase \notin {"down", "done", "aborted"}
Running == phase \in {"load", "advance", "drain", "settled", "settled drain",
                     "boundary", "saving", "done"}

crash ==
  /\ Up /\ crashes < MaxCrashes
  /\ phase' = "down" /\ sim' = Fresh /\ saving' = None
  /\ pending' = [s \in Streams |-> << >>]
  /\ redis' = [s \in Streams |-> [redis[s] EXCEPT !.moving = {}]]
  /\ torn' = (torn \/ \E s \in Streams : ~redis[s].listed /\ redis[s].moving # {})
  /\ crashes' = crashes + 1 /\ cut' = (cut \/ ~Running)
  /\ UNCHANGED <<sink, active, archives, saved, used, refused>>

(* The records that archive_checkpoint_namespace() finds in an index.      *)
Listed(s) ==
  IF ~redis[s].listed THEN {} ELSE ToSet(IF active[s] # Missing THEN active[s] ELSE Last(archives[s]).rows)

(* load_checkpoint(): the state of the process that saved it, which goes   *)
(* on with the next file.  The indexes are read before a key is renamed.   *)
load_checkpoint ==
  /\ phase = "down" /\ crashes <= MaxCrashes
  /\ saved \notin {None, Torn}
  /\ LoadedRun(saved).file <= Len(Files)
  /\ LET run   == LoadedRun(saved)
         store == LoadedStore(saved)
     IN  sim' = [clock |-> run.clock, file |-> run.file, completed |-> run.completed,
                 auto |-> run.auto, written |-> store.written, history |-> store.history]
  /\ phase' = IF sink = "file" THEN "restart jobs" ELSE "restart redis"
  /\ redis' = IF sink = "file" THEN redis
              ELSE [s \in Streams |-> [redis[s] EXCEPT !.moving = Listed(s)]]
  /\ used' = (IF used = "no" THEN used ELSE "again")
  /\ UNCHANGED <<sink, pending, active, archives, saved, saving, torn, crashes, cut, refused>>

(* A checkpoint of another configuration is refused before anything is     *)
(* closed or renamed.                                                      *)
require_checkpoint_match ==
  /\ phase = "down" /\ crashes < MaxCrashes /\ saved \notin {None, Torn}
  /\ crashes' = crashes + 1
  /\ UNCHANGED <<sink, phase, sim, pending, active, archives, redis, saved, saving, used, torn, cut, refused>>

(* start_restart_output_segment(), for the job rows and then for the       *)
(* samples: the output is renamed, its boundary recorded beside it, and a  *)
(* new output opened.                                                      *)
Restarting == CASE phase \in {"restart jobs", "boundary jobs", "open jobs"} -> "jobs"
                [] OTHER -> "resources"
Step(name) ==
  LET of(jobs, resources) == IF Restarting = "jobs" THEN jobs ELSE resources
  IN  CASE name = "restart"  -> of("restart jobs", "restart resources")
        [] name = "boundary" -> of("boundary jobs", "boundary resources")
        [] name = "open"     -> of("open jobs", "open resources")

Stop == phase' = "down" /\ sim' = Fresh

(* The output may be gone, or shorter than when it was saved. *)
archive_output ==
  /\ phase = Step("restart")
  /\ LET s == Restarting
     IN  IF active[s] = Missing \/ Len(active[s]) < saved.boundary[s]
         THEN Stop /\ refused' = TRUE /\ crashes' = crashes + 1 /\ UNCHANGED <<active, archives>>
         ELSE /\ archives' = [archives EXCEPT
                                ![s] = Append(@, [rows |-> active[s], boundary |-> NoBoundary])]
              /\ active' = [active EXCEPT ![s] = Missing]
              /\ phase' = Step("boundary")
              /\ UNCHANGED <<sim, crashes, refused>>
  /\ UNCHANGED <<sink, pending, redis, saved, saving, used, torn, cut>>

(* Mutant: the boundary is where the output ends now. *)
record_boundary_at_end ==
  /\ phase = Step("boundary")
  /\ archives' = [archives EXCEPT ![Restarting][Len(archives[Restarting])].boundary =
                    Len(Last(archives[Restarting]).rows)]
  /\ phase' = Step("open")
  /\ UNCHANGED <<sink, sim, pending, active, redis, saved, saving, used, torn, crashes, cut, refused>>

record_boundary ==
  /\ phase = Step("boundary")
  /\ archives' = [archives EXCEPT ![Restarting][Len(archives[Restarting])].boundary =
                    saved.boundary[Restarting]]
  /\ phase' = Step("open")
  /\ UNCHANGED <<sink, sim, pending, active, redis, saved, saving, used, torn, crashes, cut, refused>>

open_segment ==
  /\ phase = Step("open")
  /\ active' = [active EXCEPT ![Restarting] = << >>]
  /\ IF Restarting = "jobs" THEN phase' = "restart resources" /\ UNCHANGED used
                            ELSE phase' = "load" /\ used' = (IF used = "again" THEN used ELSE "once")
  /\ UNCHANGED <<sink, sim, pending, archives, redis, saved, saving, torn, crashes, cut, refused>>

(* The boundary or the new output cannot be written: this output is put    *)
(* back, and the exception ends the process.                               *)
restore_output ==
  /\ phase \in {Step("boundary"), Step("open")} /\ crashes < MaxCrashes
  /\ active' = [active EXCEPT ![Restarting] = Last(archives[Restarting]).rows]
  /\ archives' = [archives EXCEPT ![Restarting] = Front(@)]
  /\ Stop
  /\ crashes' = crashes + 1 /\ cut' = TRUE
  /\ UNCHANGED <<sink, pending, redis, saved, saving, used, torn, refused>>

-----------------------------------------------------------------------------
(* archive_checkpoint_namespace(): one generation for both outputs.  The   *)
(* document of an output and then the index of its records are renamed,    *)
(* for the job rows and for the samples; after them the records that the   *)
(* indexes listed when the load began, one by one.                         *)
Moved(s) == active[s] = Missing /\ ~redis[s].listed
InTurn(s) == phase = "restart redis" /\ (s = "resources" => Moved("jobs"))

rename_document(s) ==
  /\ InTurn(s) /\ active[s] # Missing
  /\ archives' = [archives EXCEPT ![s] = Append(@, [rows |-> active[s], boundary |-> NoBoundary])]
  /\ active' = [active EXCEPT ![s] = Missing]
  /\ redis' = [redis EXCEPT ![s].behind = @ \cup ToSet(active[s])]
  /\ UNCHANGED <<sink, phase, sim, pending, saved, saving, used, torn, crashes, cut, refused>>

rename_index(s) ==
  /\ InTurn(s) /\ active[s] = Missing /\ redis[s].listed
  /\ redis' = [redis EXCEPT ![s].listed = FALSE]
  /\ UNCHANGED <<sink, phase, sim, pending, active, archives, saved, saving, used, torn, crashes, cut, refused>>

rename_record(s) ==
  /\ phase = "restart redis" /\ \A z \in Streams : Moved(z)
  /\ redis[s].moving # {} /\ (s = "resources" => redis["jobs"].moving = {})
  /\ LET row == Min(redis[s].moving)
     IN  redis' = [redis EXCEPT ![s].moving = @ \ {row}, ![s].behind = @ \ {row}]
  /\ UNCHANGED <<sink, phase, sim, pending, active, archives, saved, saving, used, torn, crashes, cut, refused>>

(* The boundaries are recorded in one transaction.  With it the generation *)
(* is complete, and the next load begins another one: a generation without *)
(* documents, when the process did not come to open its own.               *)
Unfinished(s) == archives[s] # << >> /\ Last(archives[s]).boundary = NoBoundary

record_redis_boundary ==
  /\ phase = "restart redis"
  /\ \A s \in Streams : Moved(s) /\ redis[s].moving = {}
  /\ archives' = [s \in Streams |->
                    IF Unfinished(s)
                    THEN [archives[s] EXCEPT ![Len(archives[s])].boundary = saved.boundary[s]]
                    ELSE Append(archives[s], [rows |-> << >>, boundary |-> saved.boundary[s]])]
  /\ phase' = "open redis" /\ used' = (IF used = "again" THEN used ELSE "once")
  /\ UNCHANGED <<sink, sim, pending, active, redis, saved, saving, torn, crashes, cut, refused>>

(* The constructor of RedisOutput sets a new document of job rows.         *)
open_redis ==
  /\ phase = "open redis"
  /\ active' = [active EXCEPT !["jobs"] = << >>]
  /\ redis' = [redis EXCEPT !["jobs"].listed = TRUE]
  /\ phase' = "trace redis"
  /\ UNCHANGED <<sink, sim, pending, archives, saved, saving, used, torn, crashes, cut, refused>>

start_resource_trace ==
  /\ phase = "trace redis"
  /\ active' = [active EXCEPT !["resources"] = << >>]
  /\ redis' = [redis EXCEPT !["resources"].listed = TRUE]
  /\ phase' = "load"
  /\ UNCHANGED <<sink, sim, pending, archives, saved, saving, used, torn, crashes, cut, refused>>

Next ==
  \/ load_next_file \/ advance \/ reach_target \/ begin_drain \/ finish
  \/ \E s \in Streams : write_behind(s)
  \/ save_begin \/ save_end \/ not_due
  \/ crash \/ load_checkpoint \/ require_checkpoint_match
  \/ archive_output \/ record_boundary \/ open_segment \/ restore_output
  \/ \E s \in Streams : rename_document(s) \/ rename_index(s) \/ rename_record(s)
  \/ record_redis_boundary \/ open_redis \/ start_resource_trace

Spec == Init /\ [][Next]_vars

-----------------------------------------------------------------------------
(* stitch(): every archive up to its boundary, then the active output. *)
Kept(a) == IF a.boundary = NoBoundary THEN << >> ELSE SubSeq(a.rows, 1, Min({a.boundary, Len(a.rows)}))
Stitched(s) == FlattenSeq([i \in DOMAIN archives[s] |-> Kept(archives[s][i])]) \o active[s]

(* Every archive is as long as its boundary, and has the records of its    *)
(* rows up to there: otherwise stitch() ends with an error.                *)
Rebuilds(s) ==
  \A i \in DOMAIN archives[s] :
    LET a == archives[s][i]
    IN  a.boundary <= Len(a.rows) /\ \A k \in 1 .. a.boundary : a.rows[k] \notin redis[s].behind

(* However often the run crashed, and wherever, the stitched outputs of a  *)
(* process that runs are the rows it has produced, each once and in order; *)
(* when it is done, all of them.  A checkpoint serves one restart: the     *)
(* segment it opens starts empty, and a second restart would cut that      *)
(* segment at a boundary of the output before it.                          *)
(*                                                                         *)
(* All of the archives can then be stitched, unless a crash came between   *)
(* the renaming of an index in Redis and that of the records it lists: the *)
(* load that is repeated reads an index that is gone and leaves the        *)
(* records behind.  There the code does not do what                        *)
(* docs/api/STREAMING_API.md says, "rebuilt by the same stitch tool".      *)
OutputExact ==
  Running /\ used # "again" =>
    /\ \A s \in Streams : Stitched(s) \o pending[s] = [i \in 1 .. Handed(sim)[s] |-> i]
    /\ \A s \in Streams : torn \/ Rebuilds(s)
    /\ phase = "done" => sim.written = Len(Job) /\ sim.completed = Jobs

(* Unless a restart was itself interrupted, a checkpoint can be restarted  *)
(* from once: its outputs are as long as it says.                          *)
RestartPossible == refused => cut \/ used = "again"

(* With a checkpoint interval, a crash while the simulation advances loses *)
(* less than that many completions.                                        *)
LostWorkBounded ==
  (Interval # 0 /\ phase \in {"advance", "drain", "load"}) =>
    Cardinality(sim.completed) - (IF saved = None THEN 0 ELSE Cardinality(saved.run.completed))
      < Interval

-----------------------------------------------------------------------------
(* The instance that TLC checks: eight jobs in four files, one of them     *)
(* empty; two jobs leave at one instant, a later job leaves before an      *)
(* earlier one, and the job store has to write rows before it can hold the *)
(* last file.                                                              *)
J(submit, end) == [submit |-> submit, end |-> end]
MCFiles ==
  << <<J(0, 1), J(0, 1), J(3, 9)>>, << >>, <<J(3, 4), J(4, 6)>>, <<J(6, 7), J(7, 8), J(7, 9)>> >>
=============================================================================
