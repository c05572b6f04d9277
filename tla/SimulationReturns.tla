------------------------- MODULE SimulationReturns -------------------------
(***************************************************************************)
(* Does advance_to() return?  A loop that spins leaves the state of        *)
(* Simulation as it is, and stuttering hides it; here every step flips     *)
(* turn, so that an iteration that changes nothing is a step too.          *)
(***************************************************************************)
EXTENDS MCSimulation

VARIABLE turn

TurnInit == Init /\ turn = FALSE
TurnNext == Next /\ turn' = ~turn

(* The loop runs on its caller's thread and blocks on nothing, so while    *)
(* advance_to() is looping another step is taken; only steps of the loop   *)
(* are possible then.  The caller owes no further call.                    *)
Iterates == looping /\ turn' = ~turn

FairSpec == TurnInit /\ [][TurnNext]_<<vars, turn>> /\ WF_turn(Iterates)

(* Every call of advance_to() returns, a drain included: no tick is taken  *)
(* over and over, and none keeps a simulation alive that has nothing left  *)
(* to do (sim.cpp, "must end the loop rather than tick forever").          *)
AdvanceReturns == looping ~> ~looping
=============================================================================
