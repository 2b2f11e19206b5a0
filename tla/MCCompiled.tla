------------------------------ MODULE MCCompiled ------------------------------
(***************************************************************************)
(* The compiled tier for TLC: methods for the frames of one thread, and    *)
(* the programs the tier decides on.                                       *)
(***************************************************************************)
EXTENDS CompiledFrames, Tiering

CONSTANTS i1, a1, m1, m2, m3

\* A method that polls and carries an array, one that polls and carries an
\* object, one that polls and carries nothing, one that runs straight through.
FourBodies ==
  { [polls |-> TRUE, local |-> "array", allocates |-> TRUE],
    [polls |-> TRUE, local |-> "reference", allocates |-> TRUE],
    [polls |-> TRUE, local |-> "none", allocates |-> FALSE],
    [polls |-> FALSE, local |-> "reference", allocates |-> TRUE] }

\* One that polls and carries an object, and one straight through that has one.
TwoBodies ==
  { [polls |-> TRUE, local |-> "reference", allocates |-> TRUE],
    [polls |-> FALSE, local |-> "reference", allocates |-> TRUE] }

EveryTable == {s \in BoundedSeq({m1, m2, m3}, 2) : IsInjective(s)}

NoTables == {<<>>}

\* The tier does not move while frames do, so any one program will do.
TierAtRest == callees = [m \in Callables |-> <<>>] /\ loops = {} /\ compilable = {}

FramesAlone ==
  /\ FrameInit /\ TierInit /\ TierAtRest
  /\ [][FrameNext /\ UNCHANGED tierVars]_<<frameVars, tierVars>>

=============================================================================
