------------------------------- MODULE Monitors -------------------------------
(***************************************************************************)
(* rustclr-core/src/monitor.rs (threads build): the registry of monitors   *)
(* behind `lock`, Monitor.Wait and Monitor.Pulse.                          *)
(*                                                                         *)
(* One action is one critical section of the registry mutex.  All objects  *)
(* share one condition variable, `released`; `asleep` is its wait set.     *)
(* notify_all runs after the mutex is dropped, so it is a step of its own  *)
(* ("notifying", "leaving").                                               *)
(***************************************************************************)
EXTENDS Integers, FiniteSets

CONSTANTS Threads, Objects,
          Nobody,        \* no owner: the key is absent from `held`
          MaxDepth,      \* bound on re-entrancy
          MaxPulses,     \* bound on the pulse counter of an object
          MaxCalls       \* bound on the outermost enters and waits of a thread

ASSUME NobodyAssumption == Nobody \notin Threads
ASSUME BoundsAssumption == /\ MaxDepth \in Nat /\ MaxDepth > 0
                           /\ MaxPulses \in Nat /\ MaxCalls \in Nat

VARIABLES
  owner, depth,   \* State::held, by object
  pulses,         \* State::pulses
  asleep,         \* threads asleep on Inner::released
  pc,             \* where a thread stands in enter, exit, wait or pulse
  on,             \* the object of the call in progress
  saved, seen,    \* wait's locals `depth` and `seen`
  timed, expired, \* whether the wait has a deadline, and whether it passed
  inside,         \* depth the managed program believes it has entered to
  calls           \* outermost enters and waits so far, for the bound

held == <<owner, depth>>
call == <<on, saved, seen, timed, expired>>
program == <<inside, calls>>
vars == <<held, pulses, asleep, pc, call, program>>

PC == {"running",     \* in managed code
       "notifying",   \* exit or pulse, about to notify_all
       "contending",  \* enter, in the contended loop
       "leaving",     \* wait, released the monitor, about to notify_all
       "waiting"}     \* wait, in its loop

TypeOK ==
  /\ owner \in [Objects -> Threads \cup {Nobody}]
  /\ depth \in [Objects -> 0 .. MaxDepth]
  /\ pulses \in [Objects -> 0 .. MaxPulses]
  /\ asleep \subseteq Threads
  /\ pc \in [Threads -> PC]
  /\ on \in [Threads -> Objects \cup {Nobody}]
  /\ saved \in [Threads -> 0 .. MaxDepth]
  /\ seen \in [Threads -> 0 .. MaxPulses]
  /\ timed \in [Threads -> BOOLEAN] /\ expired \in [Threads -> BOOLEAN]
  /\ inside \in [Threads -> [Objects -> 0 .. MaxDepth]]
  /\ calls \in [Threads -> 0 .. MaxCalls]

Init ==
  /\ owner = [o \in Objects |-> Nobody] /\ depth = [o \in Objects |-> 0]
  /\ pulses = [o \in Objects |-> 0]
  /\ asleep = {}
  /\ pc = [t \in Threads |-> "running"]
  /\ on = [t \in Threads |-> Nobody]
  /\ saved = [t \in Threads |-> 0] /\ seen = [t \in Threads |-> 0]
  /\ timed = [t \in Threads |-> FALSE] /\ expired = [t \in Threads |-> FALSE]
  /\ inside = [t \in Threads |-> [o \in Objects |-> 0]]
  /\ calls = [t \in Threads |-> 0]

----------------------------------------------------------------------------
Mine(t, o) == owner[o] \in {Nobody, t}

\* Insert the key at depth 1, or go one deeper.
Take(t, o) ==
  /\ owner' = [owner EXCEPT ![o] = t]
  /\ depth' = [depth EXCEPT ![o] = @ + 1]
  /\ inside' = [inside EXCEPT ![t][o] = @ + 1]

\* The bounds on what the managed program does.
MayEnter(t, o) ==
  /\ pc[t] = "running"
  /\ IF owner[o] = t THEN depth[o] < MaxDepth ELSE calls[t] < MaxCalls

EnterFast(t, o) ==
  /\ MayEnter(t, o) /\ Mine(t, o)
  /\ Take(t, o)
  /\ calls' = [calls EXCEPT ![t] = IF owner[o] = t THEN @ ELSE @ + 1]
  /\ UNCHANGED <<pulses, asleep, pc, call>>

EnterContended(t, o) ==
  /\ MayEnter(t, o) /\ ~Mine(t, o)
  /\ pc' = [pc EXCEPT ![t] = "contending"]
  /\ on' = [on EXCEPT ![t] = o]
  /\ calls' = [calls EXCEPT ![t] = @ + 1]
  /\ UNCHANGED <<held, pulses, asleep, saved, seen, timed, expired, inside>>

Contending(t) == pc[t] = "contending" /\ t \notin asleep

EnterAtLast(t) ==
  /\ Contending(t) /\ Mine(t, on[t])
  /\ Take(t, on[t])
  /\ pc' = [pc EXCEPT ![t] = "running"]
  /\ on' = [on EXCEPT ![t] = Nobody]
  /\ UNCHANGED <<pulses, asleep, saved, seen, timed, expired, calls>>

AwaitRelease(t) ==
  /\ Contending(t) /\ ~Mine(t, on[t])
  /\ asleep' = asleep \cup {t}
  /\ UNCHANGED <<held, pulses, pc, call, program>>

ForgetToNotify(t, o) == pc' = pc   \* mutant: the last exit does not notify
NotifyIfFree(t, o) == pc' = IF depth[o] = 1 THEN [pc EXCEPT ![t] = "notifying"] ELSE pc

UnwoundTwice(o) == depth[o] - 2   \* mutant
Unwound(o) == depth[o] - 1

\* exit by the owner; by anyone else it returns without touching anything.
Exit(t, o) ==
  /\ pc[t] = "running" /\ owner[o] = t
  /\ depth' = [depth EXCEPT ![o] = Unwound(o)]
  /\ owner' = [owner EXCEPT ![o] = IF depth[o] = 1 THEN Nobody ELSE t]
  /\ inside' = [inside EXCEPT ![t][o] = @ - 1]
  /\ NotifyIfFree(t, o)
  /\ UNCHANGED <<pulses, asleep, call, calls>>

PulseQuietly(t) == pc' = pc       \* mutant: a pulse that wakes nobody
PulseWakes(t) == pc' = [pc EXCEPT ![t] = "notifying"]

Pulse(t, o) ==
  /\ pc[t] = "running" /\ pulses[o] < MaxPulses
  /\ pulses' = [pulses EXCEPT ![o] = @ + 1]
  /\ PulseWakes(t)
  /\ UNCHANGED <<held, asleep, call, program>>

Notify(t) ==
  /\ pc[t] = "notifying"
  /\ asleep' = {}
  /\ pc' = [pc EXCEPT ![t] = "running"]
  /\ UNCHANGED <<held, pulses, call, program>>

----------------------------------------------------------------------------
\* wait: release fully and read the pulse count in one critical section.
WaitRelease(t, o, deadline) ==
  /\ pc[t] = "running" /\ owner[o] = t /\ calls[t] < MaxCalls
  /\ calls' = [calls EXCEPT ![t] = @ + 1]
  /\ saved' = [saved EXCEPT ![t] = depth[o]]
  /\ seen' = [seen EXCEPT ![t] = pulses[o]]
  /\ owner' = [owner EXCEPT ![o] = Nobody]
  /\ depth' = [depth EXCEPT ![o] = 0]
  /\ on' = [on EXCEPT ![t] = o]
  /\ timed' = [timed EXCEPT ![t] = deadline]
  /\ pc' = [pc EXCEPT ![t] = "leaving"]
  /\ UNCHANGED <<pulses, asleep, expired, inside>>

\* mutant: the count is read after the release, as the code once did
BaselineRead(t) == seen' = [seen EXCEPT ![t] = pulses[on[t]]]
BaselineKept(t) == UNCHANGED seen

WaitNotify(t) ==
  /\ pc[t] = "leaving"
  /\ BaselineKept(t)
  /\ asleep' = {}
  /\ pc' = [pc EXCEPT ![t] = "waiting"]
  /\ UNCHANGED <<held, pulses, on, saved, timed, expired, program>>

Woken(t) == pulses[on[t]] > seen[t]
ReadyEvenIfHeld(t) == Woken(t) \/ expired[t]   \* mutant: does not wait for the monitor
MayReturn(t) == (Woken(t) \/ expired[t]) /\ owner[on[t]] = Nobody

DepthOne(t) == 1                               \* mutant: comes back one deep
DepthRestored(t) == saved[t]

WaitReturn(t) ==
  /\ pc[t] = "waiting" /\ t \notin asleep /\ MayReturn(t)
  /\ owner' = [owner EXCEPT ![on[t]] = t]
  /\ depth' = [depth EXCEPT ![on[t]] = DepthRestored(t)]
  /\ pc' = [pc EXCEPT ![t] = "running"]
  /\ on' = [on EXCEPT ![t] = Nobody]
  /\ saved' = [saved EXCEPT ![t] = 0] /\ seen' = [seen EXCEPT ![t] = 0]
  /\ timed' = [timed EXCEPT ![t] = FALSE] /\ expired' = [expired EXCEPT ![t] = FALSE]
  /\ UNCHANGED <<pulses, asleep, program>>

WaitSleep(t) ==
  /\ pc[t] = "waiting" /\ t \notin asleep /\ ~MayReturn(t)
  /\ asleep' = asleep \cup {t}
  /\ UNCHANGED <<held, pulses, pc, call, program>>

\* The deadline passes.
Expire(t) ==
  /\ pc[t] \in {"leaving", "waiting"} /\ timed[t] /\ ~expired[t]
  /\ expired' = [expired EXCEPT ![t] = TRUE]
  /\ UNCHANGED <<held, pulses, asleep, pc, on, saved, seen, timed, program>>

NoTimer(t) == FALSE               \* mutant: a timed wait sleeps like any other
TimerRings(t) == expired[t]

\* wait_timeout, never longer than what is left and never shorter than 1 ms.
TimerWake(t) ==
  /\ pc[t] = "waiting" /\ t \in asleep /\ TimerRings(t)
  /\ asleep' = asleep \ {t}
  /\ UNCHANGED <<held, pulses, pc, call, program>>

SpuriousWake(t) ==
  /\ t \in asleep
  /\ asleep' = asleep \ {t}
  /\ UNCHANGED <<held, pulses, pc, call, program>>

----------------------------------------------------------------------------
Step(t) ==
  \/ \E o \in Objects : \/ EnterFast(t, o) \/ EnterContended(t, o)
                        \/ Exit(t, o) \/ Pulse(t, o)
                        \/ \E deadline \in BOOLEAN : WaitRelease(t, o, deadline)
  \/ EnterAtLast(t) \/ AwaitRelease(t) \/ Notify(t)
  \/ WaitNotify(t) \/ WaitReturn(t) \/ WaitSleep(t)
  \/ Expire(t) \/ TimerWake(t) \/ SpuriousWake(t)

Next == \E t \in Threads : Step(t)

Spec == Init /\ [][Next]_vars

(***************************************************************************)
(* Fairness: a thread inside monitor.rs keeps going, deadlines pass, and a *)
(* thread that owns a monitor exits it in the end (`lock` compiles to a    *)
(* finally block).  Nothing is assumed of pulses: a waiter may wait        *)
(* forever if nobody pulses.                                               *)
(***************************************************************************)
Fairness == \A t \in Threads :
  /\ WF_vars(EnterAtLast(t) \/ AwaitRelease(t))
  /\ WF_vars(Notify(t)) /\ WF_vars(WaitNotify(t))
  /\ WF_vars(WaitReturn(t) \/ WaitSleep(t))
  /\ WF_vars(Expire(t)) /\ SF_vars(TimerWake(t))
  /\ WF_vars(\E o \in Objects : Exit(t, o))

FairSpec == Spec /\ Fairness

----------------------------------------------------------------------------
\* Properties.

Given(t, o) == pc[t] \in {"leaving", "waiting"} /\ on[t] = o

\* Mutual exclusion at the right depth: a thread that believes it is inside an
\* object (and has not given it up in a wait) is its registered owner, exactly
\* as deep as it believes, and an owned object has such a thread.  This is what
\* a wait that forgets its depth, or a timeout that does not retake the
\* monitor, would break "for everyone".
OwnershipMatches ==
  \A o \in Objects :
    /\ \A t \in Threads : inside[t][o] > 0 /\ ~Given(t, o) =>
                            owner[o] = t /\ depth[o] = inside[t][o]
    /\ owner[o] # Nobody => inside[owner[o]][o] = depth[o] /\ depth[o] > 0

CanProceed(t) == \/ pc[t] = "contending" /\ Mine(t, on[t])
                 \/ pc[t] = "waiting" /\ MayReturn(t)

\* No wake-up is lost: whenever a sleeper could go on, a notify_all that will
\* reach it is still to come (or its own timer is).
NoLostWakeup ==
  \A t \in asleep : CanProceed(t) =>
    \/ \E n \in Threads : pc[n] \in {"notifying", "leaving"}
    \/ expired[t]

\* monitor.rs on the pulse baseline: a pulse that comes after a thread released
\* its monitor counts for that thread, and goes on counting until it returns.
PulsesGoOnCounting ==
  \A t \in Threads, o \in Objects :
    Given(t, o) /\ Given(t, o)' /\ (Woken(t) \/ pulses'[o] > pulses[o]) => Woken(t)'
PulsesNotMissed == [][PulsesGoOnCounting]_vars

\* A wait with a deadline comes back, pulsed or not, and so do a pulsed wait
\* and a contended enter, when a thread keeps to one monitor at a time: every
\* holder exits and nobody's wake-up is lost.
EveryCallReturns ==
  \A t \in Threads :
    (\/ pc[t] = "contending"
     \/ pc[t] = "waiting" /\ (timed[t] \/ Woken(t))) ~> pc[t] = "running"

\* The registry implements the monitors a managed program is promised.
Waiters == {t \in Threads : pc[t] \in {"leaving", "waiting"}}
WaitRecord(t) == [thread |-> t, object |-> on[t], depth |-> saved[t]]
Promised == INSTANCE ReentrantMonitor WITH
  waiting <- {WaitRecord(t) : t \in Waiters},
  signalled <- {t \in Waiters : Woken(t)}
ImplementsMonitors == Promised!MonitorSpec

=============================================================================
