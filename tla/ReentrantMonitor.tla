--------------------------- MODULE ReentrantMonitor ---------------------------
(***************************************************************************)
(* What `lock`, Monitor.Wait and Monitor.Pulse promise a managed program,  *)
(* without registries, counters or condition variables.                    *)
(*                                                                         *)
(* An object has at most one owner, at some depth.  A waiter has given its *)
(* monitor up and gets it back at the depth it had, once it has been       *)
(* signalled (a pulse reaches every thread waiting at that moment) or its  *)
(* timeout has passed, and the monitor is free.                            *)
(***************************************************************************)
EXTENDS Integers

CONSTANTS Threads, Objects, Nobody

VARIABLES owner,      \* owner of each object, or Nobody
          depth,      \* how many times its owner has entered
          waiting,    \* set of [thread, object, depth] records
          signalled   \* waiting threads a pulse has reached

mvars == <<owner, depth, waiting, signalled>>

MonitorInit ==
  /\ owner = [o \in Objects |-> Nobody] /\ depth = [o \in Objects |-> 0]
  /\ waiting = {} /\ signalled = {}

Enter(t, o) ==
  /\ owner[o] \in {Nobody, t}
  /\ owner' = [owner EXCEPT ![o] = t]
  /\ depth' = [depth EXCEPT ![o] = @ + 1]
  /\ UNCHANGED <<waiting, signalled>>

Exit(t, o) ==
  /\ owner[o] = t
  /\ depth' = [depth EXCEPT ![o] = @ - 1]
  /\ owner' = [owner EXCEPT ![o] = IF depth[o] = 1 THEN Nobody ELSE t]
  /\ UNCHANGED <<waiting, signalled>>

Wait(t, o) ==
  /\ owner[o] = t
  /\ owner' = [owner EXCEPT ![o] = Nobody]
  /\ depth' = [depth EXCEPT ![o] = 0]
  /\ waiting' = waiting \cup {[thread |-> t, object |-> o, depth |-> depth[o]]}
  /\ UNCHANGED signalled

Pulse(o) ==
  /\ signalled' = signalled \cup {w.thread : w \in {v \in waiting : v.object = o}}
  /\ UNCHANGED <<owner, depth, waiting>>

\* Signalled or timed out: an unsignalled waiter comes back only by its timeout.
Retake(w) ==
  /\ w \in waiting /\ owner[w.object] = Nobody
  /\ owner' = [owner EXCEPT ![w.object] = w.thread]
  /\ depth' = [depth EXCEPT ![w.object] = w.depth]
  /\ waiting' = waiting \ {w}
  /\ signalled' = signalled \ {w.thread}

MonitorNext ==
  \/ \E t \in Threads, o \in Objects : Enter(t, o) \/ Exit(t, o) \/ Wait(t, o)
  \/ \E o \in Objects : Pulse(o)
  \/ \E w \in waiting : Retake(w)

MonitorSpec == MonitorInit /\ [][MonitorNext]_mvars

=============================================================================
