------------------------------ MODULE MCManaged ------------------------------
(***************************************************************************)
(* What managed code sees of the runtime's control, for TLC: its tasks and *)
(* its exceptions.  The two share no state here, so a behaviour moves one. *)
(***************************************************************************)
EXTENDS MCTasks, MCExceptions

VARIABLE part

managedVars == <<vars, ehVars, part>>

AProgram == CHOOSE p \in Programs : TRUE

ManagedInit ==
  /\ \/ part = "tasks" /\ program = AProgram
     \/ part = "exceptions" /\ script = Unset
  /\ Init /\ EhInit

ManagedNext ==
  /\ \/ part = "tasks" /\ Next /\ UNCHANGED ehVars
     \/ part = "exceptions" /\ EhNext /\ UNCHANGED vars
  /\ UNCHANGED part

\* The fairness of each part, in the behaviours that move it.
ManagedFairness ==
  /\ \A t \in Threads : WF_managedVars(part = "tasks" /\ Step(t) /\ UNCHANGED <<ehVars, part>>)
  /\ \A j \in Jobs : WF_managedVars(part = "tasks" /\ TimerFires(j) /\ UNCHANGED <<ehVars, part>>)
  /\ WF_managedVars(part = "exceptions" /\ EhNext /\ UNCHANGED <<vars, part>>)

ManagedSpec == ManagedInit /\ [][ManagedNext]_managedVars /\ ManagedFairness

----------------------------------------------------------------------------
\* MainReturns, of the behaviours that move the tasks: settle's waits end.
WaitsEnd == part = "tasks" ~> phase[Main] = "over"

\* EveryProgramEnds, of the behaviours that move exceptions: no block is
\* entered again and again on the way of one.
DispatchEnds == part = "exceptions" ~> status # "running"

=============================================================================
