------------------------------ MODULE MCExecution ------------------------------
(***************************************************************************)
(* What a running thread goes through, for TLC: the monitors it enters and *)
(* waits in, the frames of its compiled code, and the tier that decides    *)
(* what is compiled.  They share no state, so a behaviour moves one.       *)
(***************************************************************************)
EXTENDS MCMonitors, MCCompiled

VARIABLE part

executionVars == <<allVars, frameVars, tierVars, part>>

ExecutionInit ==
  /\ part \in {"monitors", "frames", "tier"}
  /\ BothInit /\ FrameInit /\ TierInit
  /\ part # "monitors" => ~crowded
  /\ part # "tier" => TierAtRest
  /\ loops \subseteq {m1}

ExecutionNext ==
  /\ \/ part = "monitors" /\ BothNext /\ UNCHANGED <<frameVars, tierVars>>
     \/ part = "frames" /\ FrameNext /\ UNCHANGED <<allVars, tierVars>>
     \/ part = "tier" /\ TierNext /\ UNCHANGED <<allVars, frameVars>>
  /\ UNCHANGED part

\* What does not move needs no fairness.
ExecutionSpec ==
  /\ ExecutionInit /\ [][ExecutionNext]_executionVars
  /\ \/ part = "monitors" /\ Fairness
     \/ part = "frames" /\ FrameFairness
     \/ part = "tier"

=============================================================================
