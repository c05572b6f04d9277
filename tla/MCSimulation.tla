---------------------------- MODULE MCSimulation ----------------------------
(***************************************************************************)
(* What a simulation draws and reads before it starts: run times           *)
(* (determine_one_job_run_time()), node release delays                     *)
(* (src/src/trace/node_release_delay.cpp) and the capacity schedule        *)
(* (src/src/sim/capacity_schedule.cpp); and instances of the event loop    *)
(* with what they let through.  A draw is the set of values it may give,   *)
(* on the grid of the model's time; a refused input is Invalid.            *)
(***************************************************************************)
EXTENDS Simulation

Longest == 2     \* bound: the longest delay that is drawn
Grid    == 2     \* delays are drawn on its multiples
Percent == 100   \* a scale of 100 is the time limit itself

Invalid == "invalid"

(* sample_run_time(): the tails of the normal and the lognormal are cut at *)
(* one second and at the limit; uniform has the bounds it is given, which  *)
(* may lie above the limit or below a second.                              *)
sample_run_time(limit, dist, scale, stddev) ==
  LET least == Min({1, limit})
  IN  CASE limit <= 0 -> {0}
        [] limit > 0 /\ dist \in {"normal", "lognormal"} /\ stddev > 0 -> least .. limit
        [] limit > 0 /\ dist \in {"normal", "lognormal"} /\ stddev = 0 ->
             {Min({limit, Max({least, (limit * scale) \div Percent})})}
        [] limit > 0 /\ dist = "uniform" ->
             (limit * scale) \div Percent .. (limit * (scale + stddev)) \div Percent

(* The run times a record may get; insert_job() takes the limit for one    *)
(* that is not positive.                                                   *)
determine_one_job_run_time(mode, limit, recorded, draw) ==
  LET drawn == CASE mode = "actual" -> {recorded}
                 [] mode = "limit" -> {limit}
                 [] mode = "distribution" ->
                      sample_run_time(limit, draw.dist, draw.scale, draw.stddev)
  IN  {IF t > 0 THEN t ELSE limit : t \in drawn}

-----------------------------------------------------------------------------
validate_node_release_delay(delay, spread) == delay >= 0 /\ spread >= 0

node_release_delay_requested(delay, model, spread) ==
  delay > 0 \/ (model = "uniform" /\ spread > 0)

(* The delay of a job is the longest of its nodes'. *)
sample(delay, model, spread) ==
  CASE model = "constant" -> {delay}
    [] model = "exponential" -> {t \in 0 .. Longest : t % Grid = 0}
    [] model = "uniform" ->
         {t \in Max({0, delay - spread}) .. delay + spread : t % Grid = 0}

(* configure_node_release_delay(): the delays jobs may get, none of them   *)
(* when nothing is installed.                                              *)
configure_node_release_delay(delay, model, spread) ==
  CASE ~validate_node_release_delay(delay, spread) -> Invalid
    [] OTHER -> IF node_release_delay_requested(delay, model, spread)
                THEN sample(delay, model, spread) ELSE {}

-----------------------------------------------------------------------------
(* load_capacity_schedule() of a file with the rows of a CSV, in order. *)
load_capacity_schedule(rows, configured_maximum) ==
  IF \/ rows = << >>
     \/ \E i \in DOMAIN rows : rows[i].total > configured_maximum
     \/ \E i \in DOMAIN rows : i > 1 /\ rows[i].time <= rows[i - 1].time
  THEN Invalid ELSE rows

-----------------------------------------------------------------------------
(* The jobs with this limit: they end early, as recorded or as drawn, or   *)
(* use the whole of it.                                                    *)
Recorded(limit, run) ==
  {<<limit, r>> : r \in determine_one_job_run_time("actual", limit, run, {})}
Full(limit) ==
  {<<limit, r>> : r \in determine_one_job_run_time("limit", limit, 0, {})}
Drawn(limit, scale) ==
  {<<limit, r>> : r \in determine_one_job_run_time("distribution", limit, 0,
                         [dist |-> "normal", scale |-> scale, stddev |-> 0])}

MCShapes == Full(1) \cup Recorded(3, 2)
MCLongShapes == Recorded(2, 1) \cup Full(5)
MCRerunShapes == Drawn(2, 50) \cup Full(3)

(* The machine shrinks below what may be running, recovers, and in         *)
(* MCShrinking ends too small for a job of two nodes.                      *)
Shrinking ==
  <<[time |-> 3, total |-> 1], [time |-> 6, total |-> 2], [time |-> 7, total |-> 1]>>
Outage == <<[time |-> 1, total |-> 1], [time |-> 4, total |-> 3]>>

MCShrinking == {load_capacity_schedule(Shrinking, 2)}
MCOutage == {<< >>, load_capacity_schedule(Outage, 3)}
MCNoChanges == {<< >>}

(* Exponential delays, and a constant one. *)
MCDelays == configure_node_release_delay(1, "exponential", 0)
MCDelay == configure_node_release_delay(2, "constant", 0)
MCNoDelays == configure_node_release_delay(0, "uniform", 0)
=============================================================================
