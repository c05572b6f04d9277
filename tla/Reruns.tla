------------------------------- MODULE Reruns -------------------------------
(***************************************************************************)
(* One batch run of a workload, and then it is run again: as a stream      *)
(* whose caller queries, by the reference scheduler, as the recorded       *)
(* history of a warm start, as a replay, or from a list of files.          *)
(***************************************************************************)
EXTENDS Oracle, WarmStart, Replay

RerunsInit ==
  StreamingInit /\ OracleInit /\ WarmInit /\ QueriesInit /\ ReplayInit /\ FilesInit

RerunsNext ==
  \/ (Batch \/ Again) /\ UNCHANGED <<oracle, warm, reported, replay, files>>
  \/ QueriedStream /\ UNCHANGED <<oracle, warm, replay, files>>
  \/ (simulate \/ EventLoop) /\ UNCHANGED <<warm, reported, replay, files>>
  \/ Warm /\ UNCHANGED <<oracle, reported, replay, files>>
  \/ Replayed /\ UNCHANGED <<oracle, warm, reported, files>>
  \/ Files /\ UNCHANGED <<oracle, warm, reported, replay>>

RerunsSpec ==
  RerunsInit /\
  [][RerunsNext]_<<vars, batch, rerun, oracle, warm, reported, replay, files>>
=============================================================================
