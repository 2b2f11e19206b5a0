------------------------------ MODULE MCMonitors ------------------------------
(***************************************************************************)
(* Two kinds of program in one run: a pair of threads that nests the       *)
(* monitors of two objects (and so may deadlock, as programs that nest     *)
(* may), and a crowd around one object, one deep, where every call has to  *)
(* return.                                                                 *)
(***************************************************************************)
EXTENDS Monitors

CONSTANTS t1, t2, t3, o1, o2

VARIABLE crowded     \* which of the two it is

allVars == <<vars, crowded>>

Moving == IF crowded THEN Threads ELSE Threads \ {t3}
Around == IF crowded THEN Objects \ {o2} ELSE Objects
Deepest == IF crowded THEN 1 ELSE MaxDepth

BothInit == Init /\ crowded \in BOOLEAN

\* The others stay outside, and so does everybody of the other object.
Moves ==
  /\ \E t \in Moving : Step(t)
  /\ \A t \in Moving : on'[t] \in Around \cup {Nobody}
  /\ \A o \in Objects \ Around : UNCHANGED <<owner[o], pulses[o]>>
  /\ \A o \in Around : depth'[o] <= Deepest
  /\ UNCHANGED crowded

\* The program is over: nothing is left to do and nobody sleeps.
Finished ==
  /\ \A t \in Moving : pc[t] = "running" /\ calls[t] = MaxCalls
  /\ \A o \in Around : owner[o] = Nobody /\ pulses[o] = MaxPulses
  /\ UNCHANGED allVars

BothNext == Moves \/ Finished

\* Monitors' EveryCallReturns, of the crowd: a pair that nests may deadlock.
CrowdCallsReturn == crowded => EveryCallReturns

=============================================================================
