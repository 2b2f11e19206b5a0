--------------------------- MODULE ExecutionProofs ---------------------------
(***************************************************************************)
(* What a running thread holds.  Monitors: mutual exclusion at the right   *)
(* depth for any number of threads and objects, and the registry's         *)
(* implementation of ReentrantMonitor.  CompiledFrames: what a chain of    *)
(* compiled frames holds survives every collection, for any methods,       *)
(* objects and depth, as long as nothing waits on an evaluation stack      *)
(* across a call and a method that never polls holds nothing across one.   *)
(* Tiering: for any finite set of methods, compiled calls land on compiled *)
(* methods with their tables, whatever cycles the calls make.              *)
(***************************************************************************)
EXTENDS Monitors, CompiledFrames, Tiering, SequenceTheorems, FiniteSetTheorems,
        WellFoundedInduction, TLAPS

-----------------------------------------------------------------------------
(* Monitors. *)

\* A wait remembers the depth its program will unwind, has given the monitor
\* up, and its baseline is not ahead of the pulse counter.
WaitsRemember ==
  \A t \in Threads : pc[t] \in {"leaving", "waiting"} =>
    /\ on[t] \in Objects
    /\ saved[t] = inside[t][on[t]] /\ saved[t] > 0
    /\ owner[on[t]] # t
    /\ seen[t] <= pulses[on[t]]

\* A contended enter is for an object the thread is not inside.
ContendersOutside ==
  \A t \in Threads : pc[t] = "contending" => on[t] \in Objects /\ owner[on[t]] # t

FreeIsShallow == \A o \in Objects : owner[o] = Nobody => depth[o] = 0

OwnershipInv == /\ TypeOK
                /\ OwnershipMatches
                /\ WaitsRemember
                /\ ContendersOutside
                /\ FreeIsShallow

LEMMA InitOwnership == Init => OwnershipInv
BY NobodyAssumption, BoundsAssumption
   DEF Init, OwnershipInv, TypeOK, PC, OwnershipMatches, WaitsRemember,
       ContendersOutside, FreeIsShallow, Given

LEMMA TypeStep ==
  ASSUME OwnershipInv, NEW t \in Threads, Step(t)
  PROVE  TypeOK'
<1> USE NobodyAssumption, BoundsAssumption DEF OwnershipInv, TypeOK, PC
<1>1. ASSUME NEW o \in Objects, EnterFast(t, o) PROVE TypeOK'
  <2>1. CASE owner[o] = t
    <3>1. inside[t][o] = depth[o] /\ depth[o] < MaxDepth
      BY <1>1, <2>1 DEF EnterFast, MayEnter, OwnershipMatches
    <3> QED BY <1>1, <3>1 DEF EnterFast, MayEnter, Take, call
  <2>2. CASE owner[o] = Nobody
    <3>1. ~Given(t, o) BY <1>1 DEF EnterFast, MayEnter, Given
    <3>2. inside[t][o] \in Nat /\ owner[o] # t BY <2>2
    <3>3. inside[t][o] = 0 /\ depth[o] = 0
      BY <2>2, <3>1, <3>2 DEF OwnershipMatches, FreeIsShallow
    <3> QED BY <1>1, <3>3 DEF EnterFast, MayEnter, Take, call
  <2> QED BY <1>1, <2>1, <2>2 DEF EnterFast, Mine
<1>2. ASSUME NEW o \in Objects, EnterContended(t, o) PROVE TypeOK'
  BY <1>2 DEF EnterContended, MayEnter, Mine, held
<1>3. ASSUME NEW o \in Objects, Exit(t, o) PROVE TypeOK'
  <2>1. depth[o] > 0 /\ inside[t][o] = depth[o]
    BY <1>3 DEF Exit, OwnershipMatches
  <2> QED BY <1>3, <2>1 DEF Exit, Unwound, NotifyIfFree, call
<1>4. ASSUME NEW o \in Objects, Pulse(t, o) PROVE TypeOK'
  BY <1>4 DEF Pulse, PulseWakes, held, call, program
<1>5. ASSUME NEW o \in Objects, NEW d \in BOOLEAN, WaitRelease(t, o, d) PROVE TypeOK'
  BY <1>5 DEF WaitRelease
<1>6. CASE EnterAtLast(t)
  <2> DEFINE o == on[t]
  <2>1. o \in Objects /\ owner[o] = Nobody /\ depth[o] = 0 /\ inside[t][o] = 0
    BY <1>6 DEF EnterAtLast, Contending, Mine, ContendersOutside, FreeIsShallow,
                OwnershipMatches, Given
  <2> QED BY <1>6, <2>1 DEF EnterAtLast, Take
<1>7. CASE AwaitRelease(t) BY <1>7 DEF AwaitRelease, held, call, program
<1>8. CASE Notify(t) BY <1>8 DEF Notify, held, call, program
<1>9. CASE WaitNotify(t) BY <1>9 DEF WaitNotify, BaselineKept, held, program
<1>10. CASE WaitReturn(t)
  BY <1>10 DEF WaitReturn, DepthRestored, WaitsRemember, program
<1>11. CASE WaitSleep(t) BY <1>11 DEF WaitSleep, held, call, program
<1>12. CASE Expire(t) BY <1>12 DEF Expire, held, program
<1>13. CASE TimerWake(t) BY <1>13 DEF TimerWake, held, call, program
<1>14. CASE SpuriousWake(t) BY <1>14 DEF SpuriousWake, held, call, program
<1> QED BY <1>1, <1>2, <1>3, <1>4, <1>5, <1>6, <1>7, <1>8, <1>9, <1>10, <1>11,
           <1>12, <1>13, <1>14 DEF Step

LEMMA OwnershipStep ==
  ASSUME OwnershipInv, NEW t \in Threads, Step(t)
  PROVE  /\ OwnershipMatches' /\ WaitsRemember' /\ ContendersOutside' /\ FreeIsShallow'
<1> USE NobodyAssumption
    DEF OwnershipInv, TypeOK, OwnershipMatches, WaitsRemember, ContendersOutside,
        FreeIsShallow, Given
<1> DEFINE Agreed == /\ OwnershipMatches' /\ WaitsRemember'
                   /\ ContendersOutside' /\ FreeIsShallow'
<1>1. ASSUME NEW o \in Objects, EnterFast(t, o) PROVE Agreed
  BY <1>1 DEF EnterFast, MayEnter, Mine, Take, call
<1>2. ASSUME NEW o \in Objects, EnterContended(t, o) PROVE Agreed
  BY <1>2 DEF EnterContended, MayEnter, Mine, held
<1>3. ASSUME NEW o \in Objects, Exit(t, o) PROVE Agreed
  <2>1. pc[t] = "running" /\ owner[o] = t /\ inside[t][o] = depth[o] /\ depth[o] > 0
    BY <1>3 DEF Exit
  <2>2. /\ owner' = [owner EXCEPT ![o] = IF depth[o] = 1 THEN Nobody ELSE t]
        /\ depth' = [depth EXCEPT ![o] = depth[o] - 1]
        /\ inside' = [inside EXCEPT ![t][o] = depth[o] - 1]
        /\ UNCHANGED <<pulses, on, saved, seen>>
    BY <1>3, <2>1 DEF Exit, Unwound, call
  <2>3. \A s \in Threads \ {t} : pc'[s] = pc[s] BY <1>3 DEF Exit, NotifyIfFree
  <2>4. pc'[t] \in {"running", "notifying"} BY <1>3 DEF Exit, NotifyIfFree
  <2>5. OwnershipMatches'
    <3>1. CASE depth[o] = 1 BY <2>1, <2>2, <2>3, <2>4, <3>1
    <3>2. CASE depth[o] > 1 BY <2>1, <2>2, <2>3, <2>4, <3>2
    <3> QED BY <2>1, <3>1, <3>2
  <2>6. WaitsRemember' BY <2>1, <2>2, <2>3, <2>4
  <2>7. ContendersOutside' /\ FreeIsShallow' BY <2>1, <2>2, <2>3, <2>4
  <2> QED BY <2>5, <2>6, <2>7
<1>4. ASSUME NEW o \in Objects, Pulse(t, o) PROVE Agreed
  BY <1>4 DEF Pulse, PulseWakes, held, call, program
<1>5. ASSUME NEW o \in Objects, NEW d \in BOOLEAN, WaitRelease(t, o, d) PROVE Agreed
  BY <1>5 DEF WaitRelease
<1>6. CASE EnterAtLast(t)
  <2> DEFINE o == on[t]
  <2>1. o \in Objects /\ owner[o] = Nobody /\ depth[o] = 0
    BY <1>6 DEF EnterAtLast, Contending, Mine
  <2>2. inside[t][o] = 0 BY <1>6, <2>1 DEF EnterAtLast, Contending
  <2>3. pc' = [pc EXCEPT ![t] = "running"] /\ on' = [on EXCEPT ![t] = Nobody]
    BY <1>6 DEF EnterAtLast
  <2>4. /\ owner' = [owner EXCEPT ![o] = t] /\ depth' = [depth EXCEPT ![o] = 1]
        /\ inside' = [inside EXCEPT ![t][o] = 1]
    BY <1>6, <2>1, <2>2 DEF EnterAtLast, Take
  <2>5. UNCHANGED <<pulses, saved, seen>> BY <1>6 DEF EnterAtLast
  <2> QED BY <2>1, <2>2, <2>3, <2>4, <2>5
<1>7. CASE AwaitRelease(t) BY <1>7 DEF AwaitRelease, held, call, program
<1>8. CASE Notify(t) BY <1>8 DEF Notify, held, call, program
<1>9. CASE WaitNotify(t) BY <1>9 DEF WaitNotify, BaselineKept, held, program
<1>10. CASE WaitReturn(t)
  <2> DEFINE o == on[t]
  <2>1. o \in Objects /\ owner[o] = Nobody /\ saved[t] = inside[t][o] /\ saved[t] > 0
    BY <1>10 DEF WaitReturn, MayReturn
  <2>2. pc' = [pc EXCEPT ![t] = "running"] /\ on' = [on EXCEPT ![t] = Nobody]
    BY <1>10 DEF WaitReturn
  <2>3. /\ owner' = [owner EXCEPT ![o] = t]
        /\ depth' = [depth EXCEPT ![o] = inside[t][o]]
        /\ UNCHANGED <<pulses, inside>>
    BY <1>10, <2>1 DEF WaitReturn, DepthRestored, program
  <2>4. saved' = [saved EXCEPT ![t] = 0] /\ seen' = [seen EXCEPT ![t] = 0]
    BY <1>10 DEF WaitReturn
  <2> QED BY <2>1, <2>2, <2>3, <2>4
<1>11. CASE WaitSleep(t) BY <1>11 DEF WaitSleep, held, call, program
<1>12. CASE Expire(t) BY <1>12 DEF Expire, held, program
<1>13. CASE TimerWake(t) BY <1>13 DEF TimerWake, held, call, program
<1>14. CASE SpuriousWake(t) BY <1>14 DEF SpuriousWake, held, call, program
<1> QED BY <1>1, <1>2, <1>3, <1>4, <1>5, <1>6, <1>7, <1>8, <1>9, <1>10, <1>11,
           <1>12, <1>13, <1>14 DEF Step

LEMMA StepOwnership == OwnershipInv /\ [Next]_vars => OwnershipInv'
<1> SUFFICES ASSUME OwnershipInv, [Next]_vars PROVE OwnershipInv' OBVIOUS
<1>1. ASSUME NEW t \in Threads, Step(t) PROVE OwnershipInv'
  BY <1>1, TypeStep, OwnershipStep DEF OwnershipInv
<1>2. CASE UNCHANGED vars
  BY <1>2 DEF vars, held, call, program, OwnershipInv, TypeOK, OwnershipMatches,
     WaitsRemember, ContendersOutside, FreeIsShallow, Given
<1> QED BY <1>1, <1>2 DEF Next

\* Types, who owns what, and what waiting and contending threads remember, in
\* every state of the monitors (monitor.rs).
THEOREM OwnershipInvariant == Spec => []OwnershipInv
BY InitOwnership, StepOwnership, PTL DEF Spec

\* monitor.rs: a thread inside a `lock` is its monitor's only owner, exactly as
\* deep as its program will unwind, whatever waits and timeouts happened.
THEOREM MonitorsExclude == Spec => []OwnershipMatches
BY OwnershipInvariant, PTL DEF OwnershipInv

----------------------------------------------------------------------------
\* Wake-ups.  Whatever makes a sleeper able to go on (a monitor given up, a
\* pulse, a deadline) leaves a notify_all to come, or the sleeper's own timer.

\* Somebody is about to notify everybody.
SomeoneWakes == \E n \in Threads : pc[n] \in {"notifying", "leaving"}

\* A step that adds no sleeper and makes none able to go on, and after which
\* whoever was about to notify still is, loses no wake-up.
LEMMA NothingNewToWake ==
  ASSUME NoLostWakeup,
         \A s \in asleep' : s \in asleep /\ (CanProceed(s)' => CanProceed(s)),
         \A s \in asleep' : expired[s] => expired'[s],
         SomeoneWakes => SomeoneWakes'
  PROVE  NoLostWakeup'
BY DEF NoLostWakeup, SomeoneWakes

LEMMA InitWakeup == Init => NoLostWakeup
BY DEF Init, NoLostWakeup

LEMMA WakeupStep ==
  ASSUME OwnershipInv, NoLostWakeup, NEW t \in Threads, Step(t)
  PROVE  NoLostWakeup'
<1> USE NobodyAssumption DEF OwnershipInv, TypeOK, WaitsRemember, ContendersOutside
<1>1. ASSUME NEW o \in Objects, EnterFast(t, o) PROVE NoLostWakeup'
  <2>1. \A s \in asleep' : s \in asleep /\ (CanProceed(s)' => CanProceed(s))
    BY <1>1 DEF EnterFast, MayEnter, Mine, Take, call, CanProceed, MayReturn, Woken
  <2>2. UNCHANGED <<pc, expired>> BY <1>1 DEF EnterFast, call
  <2> QED BY <2>1, <2>2, NothingNewToWake DEF SomeoneWakes
<1>2. ASSUME NEW o \in Objects, EnterContended(t, o) PROVE NoLostWakeup'
  <2>1. \A s \in asleep' : s \in asleep /\ (CanProceed(s)' => CanProceed(s))
    BY <1>2 DEF EnterContended, MayEnter, Mine, held, CanProceed, MayReturn, Woken
  <2>2. SomeoneWakes => SomeoneWakes'
    BY <1>2 DEF EnterContended, MayEnter, SomeoneWakes
  <2> QED BY <1>2, <2>1, <2>2, NothingNewToWake DEF EnterContended
<1>3. ASSUME NEW o \in Objects, Exit(t, o) PROVE NoLostWakeup'
  <2>1. CASE depth[o] = 1
    <3>1. pc'[t] = "notifying" BY <1>3, <2>1 DEF Exit, NotifyIfFree
    <3> QED BY <3>1 DEF NoLostWakeup
  <2>2. CASE depth[o] # 1
    <3>1. UNCHANGED <<owner, pc, pulses, asleep, on, seen, expired>>
      BY <1>3, <2>2 DEF Exit, NotifyIfFree, call
    <3> QED BY <3>1 DEF NoLostWakeup, CanProceed, Mine, MayReturn, Woken
  <2> QED BY <2>1, <2>2
<1>4. ASSUME NEW o \in Objects, Pulse(t, o) PROVE NoLostWakeup'
  <2>1. pc'[t] = "notifying" BY <1>4 DEF Pulse, PulseWakes
  <2> QED BY <2>1 DEF NoLostWakeup
<1>5. ASSUME NEW o \in Objects, NEW d \in BOOLEAN, WaitRelease(t, o, d)
      PROVE  NoLostWakeup'
  <2>1. pc'[t] = "leaving" BY <1>5 DEF WaitRelease
  <2> QED BY <2>1 DEF NoLostWakeup
<1>6. CASE EnterAtLast(t)
  <2>1. \A s \in asleep' : s \in asleep /\ (CanProceed(s)' => CanProceed(s))
    BY <1>6 DEF EnterAtLast, Contending, Mine, Take, CanProceed, MayReturn, Woken
  <2>2. SomeoneWakes => SomeoneWakes'
    BY <1>6 DEF EnterAtLast, Contending, SomeoneWakes
  <2> QED BY <1>6, <2>1, <2>2, NothingNewToWake DEF EnterAtLast
<1>7. CASE AwaitRelease(t)
  BY <1>7 DEF AwaitRelease, Contending, held, call, program, NoLostWakeup, CanProceed,
              Mine, MayReturn, Woken
<1>8. CASE Notify(t) BY <1>8 DEF Notify, NoLostWakeup
<1>9. CASE WaitNotify(t) BY <1>9 DEF WaitNotify, NoLostWakeup
<1>10. CASE WaitReturn(t)
  <2>1. \A s \in asleep' : s \in asleep /\ (CanProceed(s)' => CanProceed(s))
    BY <1>10 DEF WaitReturn, MayReturn, program, CanProceed, Mine, Woken
  <2>2. \A s \in asleep' : expired[s] => expired'[s] BY <1>10 DEF WaitReturn
  <2>3. SomeoneWakes => SomeoneWakes' BY <1>10 DEF WaitReturn, SomeoneWakes
  <2> QED BY <2>1, <2>2, <2>3, NothingNewToWake
<1>11. CASE WaitSleep(t)
  BY <1>11 DEF WaitSleep, held, call, program, NoLostWakeup, CanProceed, Mine,
               MayReturn, Woken
<1>12. CASE Expire(t)
  <2>1. UNCHANGED <<owner, pc, pulses, asleep, on, seen>>
        /\ expired' = [expired EXCEPT ![t] = TRUE]
    BY <1>12 DEF Expire, held
  <2>2. \A s \in Threads \ {t} : expired'[s] = expired[s] BY <2>1
  <2> QED BY <2>1, <2>2 DEF NoLostWakeup, CanProceed, Mine, MayReturn, Woken
<1>13. CASE TimerWake(t) \/ SpuriousWake(t)
  BY <1>13 DEF TimerWake, SpuriousWake, held, call, program, NoLostWakeup, CanProceed,
               Mine, MayReturn, Woken
<1> QED BY <1>1, <1>2, <1>3, <1>4, <1>5, <1>6, <1>7, <1>8, <1>9, <1>10, <1>11,
           <1>12, <1>13 DEF Step

\* One condition variable for every object, notified after the mutex is
\* dropped: still no thread sleeps on with its monitor free or its pulse given.
THEOREM NoWakeupIsLost == Spec => []NoLostWakeup
<1>1. OwnershipInv /\ NoLostWakeup /\ [Next]_vars => NoLostWakeup'
  <2> SUFFICES ASSUME OwnershipInv, NoLostWakeup, [Next]_vars PROVE NoLostWakeup'
    OBVIOUS
  <2>1. CASE UNCHANGED vars
    BY <2>1 DEF vars, held, call, NoLostWakeup, CanProceed, Mine, MayReturn, Woken
  <2> QED BY <2>1, WakeupStep DEF Next
<1> QED BY <1>1, InitWakeup, OwnershipInvariant, PTL DEF Spec

\* A waiter's baseline stays what it was at the release, and is never ahead of
\* the counter: a pulse that comes later counts until the wait returns.
LEMMA PulseStep ==
  ASSUME OwnershipInv, NEW t \in Threads, Step(t),
         NEW s \in Threads, NEW o \in Objects, Given(s, o), Given(s, o)',
         Woken(s) \/ pulses'[o] > pulses[o]
  PROVE  Woken(s)'
<1> USE DEF OwnershipInv, TypeOK, WaitsRemember, Given
<1>1. seen'[s] = seen[s]
  <2>1. ASSUME NEW p \in Objects, NEW d \in BOOLEAN, WaitRelease(t, p, d)
        PROVE  seen'[s] = seen[s]
    BY <2>1 DEF WaitRelease
  <2>2. CASE WaitReturn(t) BY <2>2 DEF WaitReturn
  <2> QED
    BY <2>1, <2>2 DEF Step, EnterFast, EnterContended, Exit, Pulse, EnterAtLast,
       AwaitRelease, Notify, WaitNotify, BaselineKept, WaitSleep, Expire, TimerWake,
       SpuriousWake, call
<1>2. pulses'[o] >= pulses[o]
  <2>1. ASSUME NEW p \in Objects, Pulse(t, p) PROVE pulses'[o] >= pulses[o]
    BY <2>1, BoundsAssumption DEF Pulse
  <2>2. pulses' = pulses => pulses'[o] >= pulses[o] BY BoundsAssumption
  <2> QED
    BY <2>1, <2>2 DEF Step, EnterFast, EnterContended, Exit, WaitRelease, EnterAtLast,
       AwaitRelease, Notify, WaitNotify, WaitReturn, WaitSleep, Expire, TimerWake,
       SpuriousWake, held
<1>3. /\ pulses[o] \in Nat /\ pulses'[o] \in Nat /\ seen[s] \in Nat
      /\ seen[s] <= pulses[o]
  BY TypeStep, BoundsAssumption
<1> QED BY <1>1, <1>2, <1>3 DEF Woken

\* monitor.rs on the baseline read in the critical section of the release: no
\* pulse after it is missed, and none that counted stops counting.
THEOREM PulsesCount == Spec => PulsesNotMissed
<1>1. OwnershipInv /\ [Next]_vars => [PulsesGoOnCounting]_vars
  BY PulseStep DEF Next, PulsesGoOnCounting
<1> QED BY <1>1, OwnershipInvariant, PTL DEF Spec, PulsesNotMissed

----------------------------------------------------------------------------
\* Refinement: every step of the registry is a step of ReentrantMonitor or
\* leaves what the managed program sees unchanged.

\* Nothing about the waiting threads changed.
LEMMA WaitersUnmoved ==
  ASSUME Waiters' = Waiters,
         \A s \in Waiters : /\ on'[s] = on[s] /\ saved'[s] = saved[s]
                            /\ seen'[s] = seen[s],
         pulses' = pulses
  PROVE  /\ {WaitRecord(s) : s \in Waiters}' = {WaitRecord(s) : s \in Waiters}
         /\ {s \in Waiters : Woken(s)}' = {s \in Waiters : Woken(s)}
<1>1. \A s \in Waiters : WaitRecord(s)' = WaitRecord(s) BY DEF WaitRecord
<1>2. \A s \in Waiters : Woken(s)' = Woken(s) BY DEF Woken
<1> QED BY <1>1, <1>2

LEMMA RefinementStep ==
  ASSUME OwnershipInv, NEW t \in Threads, Step(t)
  PROVE  [Promised!MonitorNext]_(Promised!mvars)
<1> USE DEF OwnershipInv, TypeOK
<1> DEFINE W == {WaitRecord(s) : s \in Waiters}
           G == {s \in Waiters : Woken(s)}
           Stutter == UNCHANGED <<owner, depth>> /\ W' = W /\ G' = G
<1>0. ASSUME Stutter PROVE UNCHANGED Promised!mvars
  BY <1>0 DEF Promised!mvars
<1>1. ASSUME NEW o \in Objects, EnterFast(t, o) PROVE Promised!Enter(t, o)
  <2>1. W' = W /\ G' = G
    <3>1. Waiters' = Waiters /\ UNCHANGED <<on, saved, seen, pulses>>
      BY <1>1 DEF EnterFast, call, Waiters
    <3> QED BY <3>1, WaitersUnmoved
  <2> QED BY <1>1, <2>1 DEF EnterFast, Mine, Take, Promised!Enter
<1>2. ASSUME NEW o \in Objects, EnterContended(t, o) PROVE Stutter
  <2>1. /\ Waiters' = Waiters /\ \A s \in Waiters : on'[s] = on[s]
        /\ UNCHANGED <<saved, seen, pulses, owner, depth>>
    BY <1>2 DEF EnterContended, MayEnter, Waiters, held
  <2> QED BY <2>1, WaitersUnmoved
<1>3. ASSUME NEW o \in Objects, Exit(t, o) PROVE Promised!Exit(t, o)
  <2>1. W' = W /\ G' = G
    <3>1. Waiters' = Waiters /\ UNCHANGED <<on, saved, seen, pulses>>
      BY <1>3 DEF Exit, NotifyIfFree, call, Waiters
    <3> QED BY <3>1, WaitersUnmoved
  <2> QED BY <1>3, <2>1 DEF Exit, Unwound, Promised!Exit
<1>4. ASSUME NEW o \in Objects, Pulse(t, o) PROVE Promised!Pulse(o)
  <2>1. Waiters' = Waiters /\ UNCHANGED <<on, saved, seen, owner, depth>>
    BY <1>4 DEF Pulse, PulseWakes, Waiters, held, call
  <2>2. W' = W BY <2>1 DEF WaitRecord
  <2>3. \A s \in Waiters : Woken(s)' <=> Woken(s) \/ on[s] = o
    BY <1>4, <2>1 DEF Pulse, Woken, WaitsRemember, Waiters
  <2>4. G' = G \cup {w.thread : w \in {v \in W : v.object = o}}
    <3>a. \A s \in Waiters : /\ WaitRecord(s).thread = s /\ WaitRecord(s).object = on[s]
                             /\ WaitRecord(s) \in W
      BY DEF WaitRecord
    <3>b. \A w \in W : \E s \in Waiters : w = WaitRecord(s) OBVIOUS
    <3> HIDE DEF W
    <3>1. {w.thread : w \in {v \in W : v.object = o}} = {s \in Waiters : on[s] = o}
      BY <3>a, <3>b
    <3> QED BY <2>1, <2>3, <3>1
  <2> QED BY <2>1, <2>2, <2>4 DEF Promised!Pulse
<1>5. ASSUME NEW o \in Objects, NEW d \in BOOLEAN, WaitRelease(t, o, d)
      PROVE  Promised!Wait(t, o)
  <2>1. /\ Waiters' = Waiters \cup {t} /\ t \notin Waiters
        /\ on' = [on EXCEPT ![t] = o] /\ saved' = [saved EXCEPT ![t] = depth[o]]
        /\ seen' = [seen EXCEPT ![t] = pulses[o]] /\ UNCHANGED pulses
        /\ owner' = [owner EXCEPT ![o] = Nobody] /\ depth' = [depth EXCEPT ![o] = 0]
    BY <1>5 DEF WaitRelease, Waiters
  <2>2. \A s \in Waiters : WaitRecord(s)' = WaitRecord(s) BY <2>1 DEF WaitRecord, Waiters
  <2>3. WaitRecord(t)' = [thread |-> t, object |-> o, depth |-> depth[o]]
    BY <2>1 DEF WaitRecord
  <2>4. W' = W \cup {[thread |-> t, object |-> o, depth |-> depth[o]]}
    BY <2>1, <2>2, <2>3
  <2>5. (\A s \in Waiters : Woken(s)' <=> Woken(s)) /\ ~Woken(t)'
    BY <2>1 DEF Woken, Waiters
  <2>6. G' = G BY <2>1, <2>5
  <2> QED BY <1>5, <2>1, <2>4, <2>6 DEF WaitRelease, Promised!Wait
<1>6. ASSUME EnterAtLast(t) PROVE on[t] \in Objects /\ Promised!Enter(t, on[t])
  <2>1. W' = W /\ G' = G
    <3>1. /\ Waiters' = Waiters /\ \A s \in Waiters : on'[s] = on[s]
          /\ UNCHANGED <<saved, seen, pulses>>
      BY <1>6 DEF EnterAtLast, Contending, Waiters
    <3> QED BY <3>1, WaitersUnmoved
  <2>2. on[t] \in Objects BY <1>6 DEF EnterAtLast, Contending, ContendersOutside
  <2> QED BY <1>6, <2>1, <2>2 DEF EnterAtLast, Mine, Take, Promised!Enter
<1>7. ASSUME AwaitRelease(t) \/ Notify(t) \/ WaitNotify(t) \/ WaitSleep(t)
             \/ Expire(t) \/ TimerWake(t) \/ SpuriousWake(t)
      PROVE  Stutter
  <2>1. Waiters' = Waiters /\ UNCHANGED <<on, saved, seen, pulses, owner, depth>>
    BY <1>7 DEF AwaitRelease, Notify, WaitNotify, BaselineKept, WaitSleep, Expire,
                TimerWake, SpuriousWake, Waiters, held, call
  <2> QED BY <2>1, WaitersUnmoved
<1>8. ASSUME WaitReturn(t) PROVE WaitRecord(t) \in W /\ Promised!Retake(WaitRecord(t))
  <2>1. /\ Waiters' = Waiters \ {t} /\ t \in Waiters
        /\ \A s \in Waiters \ {t} : /\ on'[s] = on[s] /\ saved'[s] = saved[s]
                                    /\ seen'[s] = seen[s]
        /\ UNCHANGED pulses
    BY <1>8 DEF WaitReturn, Waiters
  <2>2. \A s \in Waiters \ {t} : WaitRecord(s)' = WaitRecord(s) BY <2>1 DEF WaitRecord
  <2>3. \A s \in Waiters \ {t} : WaitRecord(s) # WaitRecord(t) BY DEF WaitRecord
  <2>4. W' = W \ {WaitRecord(t)} BY <2>1, <2>2, <2>3
  <2>5. \A s \in Waiters \ {t} : Woken(s)' <=> Woken(s) BY <2>1 DEF Woken
  <2>6. G' = G \ {t} BY <2>1, <2>5
  <2>7. WaitRecord(t) \in W BY <2>1
  <2>8. /\ WaitRecord(t).thread = t /\ WaitRecord(t).object = on[t]
        /\ WaitRecord(t).depth = saved[t]
    BY DEF WaitRecord
  <2> QED BY <1>8, <2>4, <2>6, <2>7, <2>8
          DEF WaitReturn, MayReturn, DepthRestored, Promised!Retake
<1> HIDE DEF Stutter, W, G
<1> QED
  BY <1>0, <1>1, <1>2, <1>3, <1>4, <1>5, <1>6, <1>7, <1>8 DEF Step, Promised!MonitorNext, W

\* The registry of monitor.rs, its counters and its condition variable
\* implement the re-entrant monitors a managed program is promised.
THEOREM Refinement == Spec => ImplementsMonitors
<1>1. Init => Promised!MonitorInit
  BY DEF Init, Promised!MonitorInit, Waiters
<1>2. OwnershipInv /\ [Next]_vars => [Promised!MonitorNext]_(Promised!mvars)
  <2> SUFFICES ASSUME OwnershipInv, [Next]_vars
               PROVE  [Promised!MonitorNext]_(Promised!mvars)
    OBVIOUS
  <2>1. ASSUME NEW t \in Threads, Step(t) PROVE [Promised!MonitorNext]_(Promised!mvars)
    BY <2>1, RefinementStep
  <2>2. CASE UNCHANGED vars
    <3>1. Waiters' = Waiters /\ UNCHANGED <<on, saved, seen, pulses, owner, depth>>
      BY <2>2 DEF vars, held, call, Waiters
    <3> QED BY <3>1, WaitersUnmoved DEF Promised!mvars
  <2> QED BY <2>1, <2>2 DEF Next
<1> QED BY <1>1, <1>2, OwnershipInvariant, PTL
     DEF Spec, ImplementsMonitors, Promised!MonitorSpec

-----------------------------------------------------------------------------
(* CompiledFrames. *)

\* The premise: the habits the frame maps do not cover are not met.
Covered == Habits \intersect {"stack", "straight", "argument"} = {}

Frame == [body : Bodies, local : Handles \union {Null}, stack : Handles \union {Null},
          arg : Handles \union {Null}, left : Int]

\* The heap is closed: no field of an object in it dangles.
HeapClosed ==
  /\ heap \subseteq Handles
  /\ fields \in [Handles -> Instances \union {Null}]
  /\ \A h \in heap : fields[h] \in heap \union {Null}

\* What a frame may name: an object by a handle the heap answers to, an array
\* by a descriptor that is still in the sink or was pinned at the entry.
Safe(h) == h \in heap /\ (h \in Arrays => h \in allocated \union borrowed)

\* A frame under a call has an empty stack, and if it is in no map it holds
\* at most its argument.
Beneath(f) == /\ f.stack = Null
              /\ f.body.polls \/ f.local = Null

\* A local under frame i that a map names, or the entry's pin, holds h.
HeldUnder(i, h) ==
  \/ h \in borrowed
  \/ \E j \in 1 .. i - 1 : HasSlots(frames[j].body) /\ frames[j].local = h

ArgHeld(i) == frames[i].arg # Null => HeldUnder(i, frames[i].arg)

Chain ==
  /\ frames \in Seq(Frame)
  /\ \A i \in 1 .. Len(frames) :
       /\ frames[i].local \in Fitting(frames[i].body) \union {Null}
       /\ \A h \in InUse(frames[i]) : Safe(h)
       /\ ArgHeld(i)
       /\ i < Len(frames) => Beneath(frames[i])

FrameInv == HeapClosed /\ Chain

LEMMA InvKeeps == FrameInv => InUseIsKept
BY DEF FrameInv, Chain, InUseIsKept, ToSet, Safe

LEMMA FramesStart == FrameInit => FrameInv
BY DEF FrameInit, FrameInv, HeapClosed, Chain

LEMMA TopIsLast ==
  ASSUME Chain, frames # <<>>
  PROVE  /\ Len(frames) \in Nat /\ Len(frames) > 0 /\ Top = frames[Len(frames)]
         /\ Top \in Frame /\ Len(frames) \in 1 .. Len(frames)
         /\ \A i \in 1 .. Len(frames) : frames[i] \in Frame
         /\ Top.local \in Fitting(Top.body) \union {Null}
         /\ \A h \in InUse(Top) : Safe(h)
<1>1. Len(frames) \in Nat /\ Len(frames) > 0
  BY EmptySeq DEF Chain
<1>2. Top = frames[Len(frames)]
  BY DEF Top, Last
<1> QED
  BY <1>1, <1>2 DEF Chain

LEMMA FrontIs ==
  ASSUME NEW S, NEW s \in Seq(S), NEW m \in Nat, Len(s) = m + 1
  PROVE  Len(Front(s)) = m /\ \A j \in 1 .. m : Front(s)[j] = s[j]
<1>1. Front(s) = SubSeq(s, 1, m)
  BY DEF Front
<1> QED
  BY <1>1

\* What is sheltered by a chain is held under the frame that comes next.
LEMMA ShelterHolds ==
  ASSUME NEW chain, NEW n \in Nat, Len(chain) = n, frames \in Seq(Frame), n <= Len(frames),
         \A j \in 1 .. n : chain[j] = frames[j], NEW h \in Shelters(chain)
  PROVE  HeldUnder(n + 1, h)
<1>1. CASE h \in borrowed
  BY <1>1 DEF HeldUnder
<1>2. CASE h \notin borrowed
  <2>1. PICK f \in ToSet(chain) : HasSlots(f.body) /\ f.local = h
    BY <1>2 DEF Shelters
  <2>2. PICK j \in 1 .. n : chain[j] = f
    BY <2>1 DEF ToSet
  <2> QED
    BY <2>1, <2>2 DEF HeldUnder
<1> QED
  BY <1>1, <1>2

\* Nothing under a frame has changed.
LEMMA StillHeldUnder ==
  ASSUME NEW i, NEW h, HeldUnder(i, h), borrowed' = borrowed,
         \A j \in 1 .. i - 1 : /\ frames'[j].body = frames[j].body
                               /\ frames'[j].local = frames[j].local
  PROVE  HeldUnder(i, h)'
BY DEF HeldUnder, HasSlots

\* The frame on top changes what it holds, to what is kept; everybody else
\* holds what they held, and it is still kept.
LEMMA TopChanges ==
  ASSUME FrameInv, frames # <<>>, NEW t \in Frame,
         frames' = [frames EXCEPT ![Len(frames)] = t],
         t.body = Top.body, t.local \in Fitting(t.body) \union {Null},
         t.arg \in {Top.arg, Null} \/ t.arg \in Shelters(Front(frames)),
         \A h \in InUse(t) : Safe(h)', \A h : Safe(h) => Safe(h)',
         borrowed' = borrowed
  PROVE  Chain'
<1> DEFINE n == Len(frames)
<1>1. n \in Nat /\ n > 0 /\ Top = frames[n] /\ Chain
  BY TopIsLast DEF FrameInv
<1>2. /\ frames' \in Seq(Frame) /\ Len(frames') = n /\ frames'[n] = t
      /\ \A i \in 1 .. n : i # n => frames'[i] = frames[i]
  BY <1>1 DEF Chain
<1>3. \A i \in 1 .. n : \A h \in InUse(frames'[i]) : Safe(h)'
  BY <1>1, <1>2 DEF Chain
<1>4. ASSUME NEW i \in 1 .. n PROVE ArgHeld(i)'
  <2>1. \A j \in 1 .. i - 1 : frames'[j] = frames[j]
    <3> SUFFICES ASSUME NEW j \in 1 .. i - 1 PROVE frames'[j] = frames[j]
      OBVIOUS
    <3>1. j \in 1 .. n /\ j # n
      BY <1>1
    <3> QED
      BY <1>2, <3>1
  <2>2. frames'[i].arg # Null => HeldUnder(i, frames'[i].arg)
    <3>1. frames[i].arg # Null => HeldUnder(i, frames[i].arg)
      BY <1>1 DEF Chain, ArgHeld
    <3>2. CASE frames'[i].arg \in {frames[i].arg, Null}
      BY <3>1, <3>2
    <3>3. CASE frames'[i].arg \notin {frames[i].arg, Null}
      <4>1. i = n
        BY <1>2, <3>3
      <4>2. frames'[i].arg \in Shelters(Front(frames))
        BY <1>1, <1>2, <3>3, <4>1
      <4>3. n - 1 \in Nat /\ (n - 1) + 1 = n /\ frames \in Seq(Frame)
        BY <1>1 DEF Chain
      <4>4. /\ Len(Front(frames)) = n - 1
            /\ \A j \in 1 .. n - 1 : Front(frames)[j] = frames[j]
        BY <4>3, FrontIs
      <4>5. n - 1 <= Len(frames) /\ (n - 1) + 1 = i
        BY <1>1, <4>1
      <4>6. HeldUnder((n - 1) + 1, frames'[i].arg)
        BY <4>2, <4>3, <4>4, <4>5, ShelterHolds
      <4> QED
        BY <4>5, <4>6
    <3> QED
      BY <3>2, <3>3
  <2> QED
    BY <2>1, <2>2, StillHeldUnder DEF ArgHeld
<1>5. ASSUME NEW i \in 1 .. n, i < n PROVE Beneath(frames'[i])
  <2>1. i # n
    BY <1>1, <1>5
  <2>2. frames'[i] = frames[i]
    BY <1>2, <2>1
  <2> QED
    BY <1>1, <1>5, <2>2 DEF Chain
<1>6. \A i \in 1 .. n : frames'[i].local \in Fitting(frames'[i].body) \union {Null}
  BY <1>1, <1>2 DEF Chain
<1> QED
  BY <1>2, <1>3, <1>4, <1>5, <1>6 DEF Chain

-----------------------------------------------------------------------------
\* The chain grows and shrinks.

LEMMA ReturnKeeps == ASSUME FrameInv, Return PROVE FrameInv'
<1>1. CASE Len(frames) = 1
  BY <1>1 DEF Return, LeaveCompiledCode, FrameInv, HeapClosed, Chain
<1>2. CASE Len(frames) # 1
  <2> DEFINE n == Len(frames) - 1
  <2>1. /\ n \in Nat /\ n > 0 /\ Chain /\ HeapClosed /\ n + 1 = Len(frames)
    <3>1. Chain /\ frames # <<>> /\ HeapClosed
      BY DEF FrameInv, Return
    <3>2. Len(frames) \in Nat /\ Len(frames) > 0
      BY <3>1, TopIsLast
    <3>3. n \in Nat /\ n > 0 /\ n + 1 = Len(frames)
      BY <1>2, <3>2
    <3> QED
      BY <3>1, <3>3
  <2>2. /\ frames' = SubSeq(frames, 1, n)
        /\ UNCHANGED <<heap, fields, allocated, borrowed>>
    BY <1>2 DEF Return, Front, context
  <2>3. /\ frames' \in Seq(Frame) /\ Len(frames') = n
        /\ \A i \in 1 .. n : frames'[i] = frames[i] /\ i \in 1 .. Len(frames) /\ i < Len(frames)
    BY <2>1, <2>2 DEF Chain
  <2>4. \A h : Safe(h)' <=> Safe(h)
    BY <2>2 DEF Safe
  <2>5. ASSUME NEW i \in 1 .. n PROVE ArgHeld(i)'
    <3>1. ArgHeld(i) /\ frames'[i] = frames[i]
      BY <2>1, <2>3 DEF Chain
    <3>2. \A j \in 1 .. i - 1 : frames'[j] = frames[j]
      BY <2>1, <2>3
    <3> QED
      BY <2>2, <3>1, <3>2, StillHeldUnder DEF ArgHeld
  <2>6. \A i \in 1 .. n : Beneath(frames'[i])
    BY <2>1, <2>3 DEF Chain
  <2>7. \A i \in 1 .. n : /\ frames'[i].local \in Fitting(frames'[i].body) \union {Null}
                          /\ \A h \in InUse(frames'[i]) : Safe(h)'
    BY <2>1, <2>3, <2>4 DEF Chain
  <2>8. Chain'
    BY <2>3, <2>5, <2>6, <2>7 DEF Chain
  <2> QED
    BY <2>1, <2>2, <2>8 DEF FrameInv, HeapClosed
<1> QED
  BY <1>1, <1>2

LEMMA CallKeeps ==
  ASSUME Covered, FrameInv, NEW m \in Methods, NEW passes \in BOOLEAN, Call(m, passes)
  PROVE  FrameInv'
<1> DEFINE n == Len(frames)
           a == IF passes THEN Top.stack ELSE Null
           t == [Top EXCEPT !.stack = IF passes THEN Null ELSE Top.stack, !.left = Spent]
           mid == [frames EXCEPT ![n] = t]
           new == FrameOf(m, a)
<1>1. /\ n \in Nat /\ n > 0 /\ Top = frames[n] /\ Chain /\ HeapClosed
      /\ Top \in Frame /\ n \in 1 .. n
  BY TopIsLast DEF FrameInv, Call
<1>2. /\ frames' = Append(mid, new)
      /\ UNCHANGED <<heap, fields, allocated, borrowed>>
  BY <1>1 DEF Call, context
<1>3. /\ t \in Frame /\ t.body = Top.body /\ t.local = Top.local /\ t.arg = Top.arg
      /\ t.stack = IF passes THEN Null ELSE Top.stack
  <2>1. Spent \in Int
    BY <1>1 DEF Spent, Frame
  <2> HIDE DEF Spent
  <2> QED
    BY <1>1, <2>1 DEF Frame
<1>4. new \in Frame /\ new.local = Null /\ new.stack = Null /\ new.arg = a
  BY <1>1, MethodsAssumption, DepthsAssumption DEF FrameOf, Frame
\* The caller keeps nothing on its stack, and what it passes is sheltered.
<1>5. Beneath(t) /\ a \in Shelters(frames) \union {Null}
  BY <1>3 DEF Call, Covered, HoldsAcross, Beneath
<1>6. a = Null \/ a \in InUse(Top)
  BY DEF InUse
<1> HIDE DEF a, t
<1>7. mid \in Seq(Frame) /\ Len(mid) = n /\ mid[n] = t
      /\ \A i \in 1 .. n : i # n => mid[i] = frames[i]
  BY <1>1, <1>3 DEF Chain
<1> HIDE DEF mid, new
<1>8. /\ frames' \in Seq(Frame) /\ Len(frames') = n + 1 /\ frames'[n + 1] = new
      /\ \A i \in 1 .. n : frames'[i] = mid[i]
  BY <1>1, <1>2, <1>4, <1>7
<1>9. \A i \in 1 .. n : /\ frames'[i].body = frames[i].body /\ frames'[i].local = frames[i].local
                        /\ frames'[i].arg = frames[i].arg
                        /\ frames'[i].stack \in {frames[i].stack, Null}
  BY <1>1, <1>3, <1>7, <1>8
<1>10. \A h : Safe(h)' <=> Safe(h)
  BY <1>2 DEF Safe
<1>11. ASSUME NEW i \in 1 .. n
       PROVE  /\ frames'[i].local \in Fitting(frames'[i].body) \union {Null}
              /\ \A h \in InUse(frames'[i]) : Safe(h)'
              /\ Beneath(frames'[i])
  <2>1. /\ frames[i].local \in Fitting(frames[i].body) \union {Null}
        /\ \A h \in InUse(frames[i]) : Safe(h)
    BY <1>1 DEF Chain
  <2>2. Beneath(frames'[i])
    <3>1. CASE i = n
      BY <1>5, <1>7, <1>8, <3>1
    <3>2. CASE i # n
      <4>1. i < Len(frames) /\ frames'[i] = frames[i]
        BY <1>1, <1>7, <1>8, <3>2
      <4> QED
        BY <1>1, <4>1 DEF Chain
    <3> QED
      BY <3>1, <3>2
  <2>3. InUse(frames'[i]) \subseteq InUse(frames[i])
    BY <1>9 DEF InUse
  <2> QED
    BY <1>9, <1>10, <2>1, <2>2, <2>3
<1>12. \A h \in InUse(new) : Safe(h)'
  <2>1. \A h \in InUse(Top) : Safe(h)
    BY <1>1 DEF Chain
  <2> QED
    BY <1>4, <1>6, <1>10, <2>1 DEF InUse
<1>13. ASSUME NEW i \in 1 .. n + 1 PROVE ArgHeld(i)'
  <2>1. \A j \in 1 .. i - 1 : /\ frames'[j].body = frames[j].body
                               /\ frames'[j].local = frames[j].local
    BY <1>1, <1>9
  <2>2. frames'[i].arg # Null => HeldUnder(i, frames'[i].arg)
    <3>1. CASE i \in 1 .. n
      BY <1>1, <1>9, <3>1 DEF Chain, ArgHeld
    <3>2. CASE i = n + 1
      <4>1. frames'[i].arg = a
        BY <1>4, <1>8, <3>2
      <4>2. a # Null => HeldUnder(n + 1, a)
        BY <1>1, <1>5, ShelterHolds DEF Chain
      <4> QED
        BY <3>2, <4>1, <4>2
    <3> QED
      BY <1>1, <3>1, <3>2
  <2> QED
    BY <1>2, <2>1, <2>2, StillHeldUnder DEF ArgHeld
<1>14. ASSUME NEW i \in 1 .. Len(frames')
       PROVE  /\ frames'[i].local \in Fitting(frames'[i].body) \union {Null}
              /\ \A h \in InUse(frames'[i]) : Safe(h)'
              /\ ArgHeld(i)'
              /\ i < Len(frames') => Beneath(frames'[i])
  <2>1. CASE i \in 1 .. n
    BY <1>8, <1>11, <1>13, <2>1
  <2>2. CASE i = n + 1
    BY <1>1, <1>4, <1>8, <1>12, <1>13, <2>2
  <2> QED
    BY <1>1, <1>8, <2>1, <2>2
<1>15. Chain'
  BY <1>8, <1>14 DEF Chain
<1> QED
  BY <1>1, <1>2, <1>15 DEF FrameInv, HeapClosed

LEMMA EnterKeeps ==
  ASSUME FrameInv, NEW m \in Methods, NEW a \in Arrays \union {Null}, Enter(m, a)
  PROVE  FrameInv'
<1> DEFINE new == FrameOf(m, a)
<1>1. new \in Frame /\ new.local = Null /\ new.stack = Null /\ new.arg = a
  BY MethodsAssumption, DepthsAssumption DEF FrameOf, Frame, Handles
<1> HIDE DEF new
<1>2. /\ frames' = <<new>> /\ borrowed' = {a} \ {Null}
      /\ UNCHANGED <<heap, fields, allocated>> /\ a \in heap \union {Null}
  BY DEF Enter, new
<1>3. frames' \in Seq(Frame) /\ Len(frames') = 1 /\ frames'[1] = new
  BY <1>1, <1>2
<1>4. \A h \in InUse(new) : Safe(h)'
  BY <1>1, <1>2 DEF InUse, Safe
<1>5. ArgHeld(1)'
  BY <1>1, <1>2, <1>3 DEF ArgHeld, HeldUnder
<1>6. Chain'
  BY <1>1, <1>3, <1>4, <1>5 DEF Chain
<1> QED
  BY <1>2, <1>6 DEF FrameInv, HeapClosed

-----------------------------------------------------------------------------
\* The frame on top at work.

\* A value is pushed that is kept.
LEMMA PushKeeps ==
  ASSUME FrameInv, frames # <<>>, NEW v \in Handles, Push(v), Safe(v)',
         \A h : Safe(h) => Safe(h)', borrowed' = borrowed
  PROVE  Chain'
<1> DEFINE t == [Top EXCEPT !.stack = v, !.left = Spent]
<1>1. Top \in Frame /\ Top = frames[Len(frames)] /\ Top.local \in Fitting(Top.body) \union {Null}
      /\ Chain /\ Len(frames) \in 1 .. Len(frames)
  BY TopIsLast DEF FrameInv
<1>2. /\ t \in Frame /\ t.body = Top.body /\ t.arg = Top.arg
      /\ t.local = Top.local /\ t.stack = v
  <2>1. Spent \in Int
    BY <1>1 DEF Spent, Frame
  <2> HIDE DEF Spent
  <2> QED
    BY <1>1, <2>1 DEF Frame
<1>3. frames' = [frames EXCEPT ![Len(frames)] = t]
  BY <1>1 DEF Push, Chain
<1>4. \A h \in InUse(t) : Safe(h)'
  BY <1>1, <1>2, TopIsLast DEF InUse
<1> HIDE DEF t
<1> QED
  BY <1>1, <1>2, <1>3, <1>4, TopChanges

\* The local or the stack is set, to null or to what the frame holds; or the
\* argument, to null or to what is sheltered under the frame.
LEMMA SetKeeps ==
  ASSUME FrameInv, frames # <<>>, NEW t \in Frame,
         frames' = [frames EXCEPT ![Len(frames)] = t],
         t.body = Top.body, t.local \in Fitting(Top.body) \union {Null},
         t.arg \in {Top.arg, Null} \/ t.arg \in Shelters(Front(frames)),
         {t.local, t.stack, t.arg} \subseteq InUse(Top) \union {Null},
         UNCHANGED <<heap, allocated, borrowed>>
  PROVE  Chain'
<1>1. \A h : Safe(h) => Safe(h)'
  BY DEF Safe
<1>2. \A h \in InUse(t) : h \in InUse(Top)
  BY DEF InUse
<1>3. \A h \in InUse(t) : Safe(h)'
  BY <1>1, <1>2, TopIsLast DEF FrameInv
<1> QED
  BY <1>1, <1>3, TopChanges

LEMMA AllocateKeeps ==
  ASSUME FrameInv, NEW h \in Handles, Allocate(h)
  PROVE  FrameInv'
<1>1. /\ heap' = heap \union {h} /\ allocated' = allocated \union {h} /\ borrowed' = borrowed
      /\ fields' = [fields EXCEPT ![h] = Null] /\ frames # <<>> /\ Push(h)
  BY DEF Allocate, context
<1>2. Safe(h)' /\ \A g : Safe(g) => Safe(g)'
  BY <1>1 DEF Safe
<1>3. HeapClosed'
  BY <1>1 DEF FrameInv, HeapClosed
<1> QED
  BY <1>1, <1>2, <1>3, PushKeeps DEF FrameInv

LEMMA LoadKeeps ==
  ASSUME FrameInv, LoadLocal \/ LoadArg \/ LoadField
  PROVE  FrameInv'
<1>1. frames # <<>> /\ UNCHANGED <<heap, fields, allocated, borrowed>>
  BY DEF LoadLocal, LoadArg, LoadField, Load, Working, context
<1>2. \A h : Safe(h) => Safe(h)'
  BY <1>1 DEF Safe
<1>3. \A h \in InUse(Top) : h \in Handles /\ Safe(h)
  <2>1. Chain
    BY DEF FrameInv
  <2> QED
    BY <1>1, <2>1, TopIsLast DEF InUse, Frame, Handles
<1>4. \E v \in Handles : Push(v) /\ Safe(v)
  <2>1. CASE LoadLocal
    BY <1>3, <2>1 DEF LoadLocal, Load, InUse
  <2>2. CASE LoadArg
    BY <1>3, <2>2 DEF LoadArg, Load, InUse
  <2>3. CASE LoadField
    <3>1. Top.local \in heap /\ fields[Top.local] # Null /\ Push(fields[Top.local])
      BY <2>3 DEF LoadField, Load
    <3>2. fields[Top.local] \in Instances /\ fields[Top.local] \in heap
      BY <3>1 DEF FrameInv, HeapClosed
    <3>3. Safe(fields[Top.local])
      BY <3>2, HandlesAssumption DEF Safe
    <3> QED
      BY <3>1, <3>2, <3>3 DEF Handles
  <2> QED
    BY <2>1, <2>2, <2>3
<1>5. Chain'
  BY <1>1, <1>2, <1>4, PushKeeps
<1> QED
  BY <1>1, <1>5 DEF FrameInv, HeapClosed

LEMMA SetsKeep ==
  ASSUME Covered, FrameInv,
         Drop \/ StoreLocal \/ ClearLocal \/ StoreField \/ StoreArg \/ ClearArg
  PROVE  FrameInv'
<1>1. Chain /\ HeapClosed
  BY DEF FrameInv
<1>2. frames # <<>> /\ UNCHANGED <<heap, allocated, borrowed>>
  BY DEF Drop, StoreLocal, ClearLocal, StoreField, StoreArg, ClearArg, Working, context
<1>3. /\ Top \in Frame /\ Top = frames[Len(frames)] /\ Len(frames) \in 1 .. Len(frames)
      /\ Top.local \in Fitting(Top.body) \union {Null} /\ \A h \in InUse(Top) : Safe(h)
  BY <1>1, <1>2, TopIsLast
<1>4. \E t \in Frame :
        /\ frames' = [frames EXCEPT ![Len(frames)] = t]
        /\ t.body = Top.body /\ t.local \in Fitting(Top.body) \union {Null}
        /\ t.arg \in {Top.arg, Null} \/ t.arg \in Shelters(Front(frames))
        /\ {t.local, t.stack, t.arg} \subseteq InUse(Top) \union {Null}
  <2>1. CASE Drop \/ StoreField
    <3> DEFINE t == [Top EXCEPT !.stack = Null]
    <3>1. frames' = [frames EXCEPT ![Len(frames)] = t]
      BY <1>1, <1>3, <2>1 DEF Drop, StoreField, SetTop, Chain
    <3>2. /\ t \in Frame /\ t.body = Top.body /\ t.arg = Top.arg
          /\ t.local = Top.local /\ t.stack = Null
      BY <1>3 DEF Frame
    <3> HIDE DEF t
    <3> QED
      BY <1>3, <3>1, <3>2 DEF InUse
  <2>2. CASE ClearLocal
    <3> DEFINE t == [Top EXCEPT !.local = Null]
    <3>1. frames' = [frames EXCEPT ![Len(frames)] = t]
      BY <1>1, <1>3, <2>2 DEF ClearLocal, SetTop, Chain
    <3>2. /\ t \in Frame /\ t.body = Top.body /\ t.arg = Top.arg
          /\ t.local = Null /\ t.stack = Top.stack
      BY <1>3 DEF Frame
    <3> HIDE DEF t
    <3> QED
      BY <1>3, <3>1, <3>2 DEF InUse
  <2>3. CASE StoreLocal
    <3> DEFINE t == [Top EXCEPT !.local = Top.stack, !.stack = Null]
    <3>1. frames' = [frames EXCEPT ![Len(frames)] = t]
      BY <1>1, <1>3, <2>3 DEF StoreLocal, Chain
    <3>2. /\ t \in Frame /\ t.body = Top.body /\ t.arg = Top.arg
          /\ t.local = Top.stack /\ t.stack = Null
      BY <1>3 DEF Frame
    <3>3. Top.stack \in Fitting(Top.body)
      BY <2>3 DEF StoreLocal
    <3> HIDE DEF t
    <3> QED
      BY <3>1, <3>2, <3>3 DEF InUse
  <2>4. CASE StoreArg
    <3> DEFINE t == [Top EXCEPT !.arg = Top.stack, !.stack = Null]
    <3>1. frames' = [frames EXCEPT ![Len(frames)] = t]
      BY <1>1, <1>3, <2>4 DEF StoreArg, Chain
    <3>2. /\ t \in Frame /\ t.body = Top.body /\ t.arg = Top.stack
          /\ t.local = Top.local /\ t.stack = Null
      BY <1>3 DEF Frame
    <3>3. Top.stack \in Shelters(Front(frames))
      BY <2>4 DEF StoreArg, Covered
    <3> HIDE DEF t
    <3> QED
      BY <1>3, <3>1, <3>2, <3>3 DEF InUse
  <2>5. CASE ClearArg
    <3> DEFINE t == [Top EXCEPT !.arg = Null]
    <3>1. frames' = [frames EXCEPT ![Len(frames)] = t]
      BY <1>1, <1>3, <2>5 DEF ClearArg, SetTop, Chain
    <3>2. /\ t \in Frame /\ t.body = Top.body /\ t.arg = Null
          /\ t.local = Top.local /\ t.stack = Top.stack
      BY <1>3 DEF Frame
    <3> HIDE DEF t
    <3> QED
      BY <1>3, <3>1, <3>2 DEF InUse
  <2> QED
    BY <2>1, <2>2, <2>3, <2>4, <2>5
<1>5. Chain'
  BY <1>2, <1>4, SetKeeps
<1>6. HeapClosed'
  <2>1. CASE StoreField
    <3>1. PICK target, value \in InUse(Top) :
            /\ value \in Instances /\ target \in heap
            /\ fields' = [fields EXCEPT ![target] = value]
      BY <2>1 DEF StoreField
    <3>2. value \in heap
      BY <1>3 DEF Safe
    <3> QED
      BY <1>1, <1>2, <3>1, <3>2 DEF HeapClosed
  <2>2. CASE UNCHANGED fields
    BY <1>1, <1>2, <2>2 DEF HeapClosed
  <2> QED
    BY <2>1, <2>2 DEF Drop, StoreLocal, ClearLocal, StoreArg, ClearArg
<1> QED
  BY <1>5, <1>6 DEF FrameInv

-----------------------------------------------------------------------------
\* Collections.

LEMMA TracingKeeps ==
  ASSUME NEW roots
  PROVE  /\ ReachableFrom(roots) \subseteq heap /\ roots \intersect heap \subseteq ReachableFrom(roots)
         /\ \A h \in ReachableFrom(roots) : fields[h] \in heap => fields[h] \in ReachableFrom(roots)
BY DEF ReachableFrom

LEMMA SweepClosed ==
  ASSUME HeapClosed, NEW roots, heap' = ReachableFrom(roots), fields' = fields
  PROVE  HeapClosed'
BY TracingKeeps DEF HeapClosed

\* At a back-edge the walk finds everything the chain holds.
LEMMA WalkFindsAll ==
  ASSUME Chain, frames # <<>>, Top.body.polls, Top.stack = Null,
         NEW i \in 1 .. Len(frames), NEW h \in InUse(frames[i])
  PROVE  h \in Live \union borrowed
<1>1. \A j \in 1 .. Len(frames) : frames[j].stack = Null /\ (frames[j].body.polls \/ frames[j].local = Null)
  <2> SUFFICES ASSUME NEW j \in 1 .. Len(frames)
               PROVE  frames[j].stack = Null /\ (frames[j].body.polls \/ frames[j].local = Null)
    OBVIOUS
  <2>1. CASE j < Len(frames)
    BY <2>1 DEF Chain, Beneath
  <2>2. CASE j = Len(frames)
    BY <2>2, TopIsLast
  <2> QED
    BY <2>1, <2>2, TopIsLast
\* A local is in the map of its frame.
<1>2. ASSUME NEW j \in 1 .. Len(frames), frames[j].local # Null
      PROVE  frames[j].local \in Live
  <2>1. frames[j].local \in Fitting(frames[j].body) /\ frames[j].local \in InUse(frames[j])
    BY <1>2 DEF Chain, InUse
  <2>2. frames[j].body.local # "none"
    BY <2>1 DEF Fitting
  <2>3. HasSlots(frames[j].body)
    BY <1>1, <1>2, <2>2 DEF HasSlots
  <2>4. frames[j] \in Walked
    BY DEF Walked, ToSet, Chain
  <2> QED
    BY <1>2, <2>3, <2>4 DEF Live
<1>3. CASE h = frames[i].local
  BY <1>2, <1>3 DEF InUse
\* An argument is in a local under its frame, or pinned.
<1>4. CASE h = frames[i].arg
  <2>1. HeldUnder(i, h)
    BY <1>4 DEF Chain, ArgHeld, InUse
  <2>2. CASE h \notin borrowed
    <3>1. PICK j \in 1 .. i - 1 : frames[j].local = h
      BY <2>1, <2>2 DEF HeldUnder
    <3>2. j \in 1 .. Len(frames) /\ h # Null
      BY <3>1, TopIsLast DEF InUse
    <3> QED
      BY <1>2, <3>1, <3>2
  <2> QED
    BY <2>2
<1> QED
  BY <1>1, <1>3, <1>4 DEF InUse

LEMMA PollKeeps == ASSUME FrameInv, Poll PROVE FrameInv'
<1>1. /\ Chain /\ HeapClosed /\ frames # <<>> /\ Top.body.polls /\ Top.stack = Null
      /\ UNCHANGED <<fields, frames, borrowed>> /\ allocated' = Kept
      /\ heap' = heap \/ heap' = ReachableFrom(below \union PublishedRoots)
  BY DEF FrameInv, Poll
<1>2. ASSUME NEW i \in 1 .. Len(frames), NEW h \in InUse(frames[i])
      PROVE  Safe(h)'
  <2>1. h \in Live \union borrowed
    BY <1>1, <1>2, WalkFindsAll
  <2>2. Safe(h) /\ h \in Handles
    <3>1. Safe(h)
      BY <1>1, <1>2 DEF Chain
    <3> QED
      BY <1>1, <3>1 DEF Safe, HeapClosed
  <2>3. h \in Arrays => h \in Kept \union borrowed
    BY <2>1, <2>2 DEF Kept, Safe
  <2>4. h \in PublishedRoots
    <3>1. CASE h \in Arrays
      BY <2>3, <3>1 DEF PublishedRoots
    <3>2. CASE h \in Instances
      BY <2>1, <3>2 DEF PublishedRoots
    <3> QED
      BY <2>2, <3>1, <3>2 DEF Handles
  <2>5. h \in ReachableFrom(below \union PublishedRoots)
    BY <2>2, <2>4, TracingKeeps DEF Safe
  <2>6. h \in heap'
    BY <1>1, <2>2, <2>5 DEF Safe
  <2> QED
    BY <1>1, <2>3, <2>6 DEF Safe
<1>3. \A i \in 1 .. Len(frames) : ArgHeld(i)'
  BY <1>1 DEF Chain, ArgHeld, HeldUnder
<1>4. Chain'
  BY <1>1, <1>2, <1>3 DEF Chain
<1>5. HeapClosed'
  <2>1. CASE heap' = heap
    BY <1>1, <2>1 DEF HeapClosed
  <2>2. CASE heap' = ReachableFrom(below \union PublishedRoots)
    BY <1>1, <2>2, SweepClosed
  <2> QED
    BY <1>1, <2>1, <2>2
<1> QED
  BY <1>4, <1>5 DEF FrameInv

\* Without compiled frames there is nothing to keep but a closed heap.
LEMMA InterpreterKeeps ==
  ASSUME FrameInv, Trap \/ PollBelow \/ \E h \in Arrays : NewBelow(h) \/ ForgetBelow(h)
  PROVE  FrameInv'
<1>1. HeapClosed
  BY DEF FrameInv
<1>2. frames' = <<>>
  BY DEF Trap, LeaveCompiledCode, PollBelow, NewBelow, ForgetBelow, Interpreting
<1>3. HeapClosed'
  <2>1. CASE PollBelow
    BY <1>1, <2>1, SweepClosed DEF PollBelow
  <2>2. ASSUME NEW h \in Arrays, NewBelow(h) PROVE HeapClosed'
    BY <1>1, <2>2 DEF NewBelow, HeapClosed, Handles
  <2>3. CASE UNCHANGED <<heap, fields>>
    BY <1>1, <2>3 DEF HeapClosed
  <2> QED
    BY <2>1, <2>2, <2>3 DEF Trap, LeaveCompiledCode, ForgetBelow
<1>4. Chain'
  BY <1>2 DEF Chain
<1> QED
  BY <1>3, <1>4 DEF FrameInv

LEMMA StepKeeps == Covered /\ FrameInv /\ [FrameNext]_frameVars => FrameInv'
<1> SUFFICES ASSUME Covered, FrameInv, [FrameNext]_frameVars PROVE FrameInv'
  OBVIOUS
<1>1. CASE UNCHANGED frameVars \/ RequestStop
  <2>1. UNCHANGED <<heap, fields, frames, allocated, borrowed>>
    BY <1>1 DEF frameVars, RequestStop, context
  <2> QED
    BY <2>1 DEF FrameInv, HeapClosed, Chain, Safe, ArgHeld, HeldUnder
<1>2. CASE CompiledStep
  BY <1>2, CallKeeps, AllocateKeeps, InterpreterKeeps, ReturnKeeps, SetsKeep, LoadKeeps
     DEF CompiledStep
<1> QED
  BY <1>1, <1>2, EnterKeeps, PollKeeps, InterpreterKeeps DEF FrameNext

\* alloc.rs safepoint and prune, for any depth of the chain and any methods: a
\* collection met in compiled code frees nothing a frame of the chain names, as
\* long as nothing waits on a stack across a call, a method without a loop holds
\* nothing across one, and whatever an argument holds a mapped local holds too.
THEOREM WhatFramesHoldIsKept == Covered => (FrameSpec => []InUseIsKept)
<1> SUFFICES ASSUME Covered PROVE FrameSpec => []InUseIsKept
  OBVIOUS
<1>1. FrameInv /\ [FrameNext]_frameVars => FrameInv'
  BY StepKeeps
<1> QED
  BY <1>1, FramesStart, InvKeeps, PTL DEF FrameSpec

-----------------------------------------------------------------------------
(* Tiering: a method that may run compiled reaches only code that exists. *)

\* Induction, for what a recursive function computes.
Below == {p \in Nat \X Nat : p[1] < p[2]}

LEMMA BelowIsWellFounded == IsWellFoundedOn(Below, Nat)
  BY NatLessThanWellFounded DEF OpToRel, Below

LEMMA SetInduction ==
  ASSUME NEW S, 0 \in S, \A n \in Nat : n \in S => n + 1 \in S
  PROVE  Nat \subseteq S
<1> DEFINE T == Nat \ S
<1>1. ASSUME T # {} PROVE FALSE
  <2>1. PICK x \in T : \A y \in T : ~(<<y, x>> \in Below)
    BY <1>1, BelowIsWellFounded, WFMin
  <2>2. x # 0 /\ x \in Nat
    OBVIOUS
  <2>3. x - 1 \in Nat /\ <<x - 1, x>> \in Below
    BY <2>2 DEF Below
  <2> QED
    BY <2>1, <2>2, <2>3
<1> QED
  BY <1>1

\* A pass that may go on: what it found is compiled and has a table, and what
\* it has left again has all its callees among what it found.
Good(s) ==
  /\ s \in Passes /\ s.ok /\ s.path \subseteq s.found /\ s.found \subseteq s.compiled
  /\ \A o \in s.found : s.tables[o] # NoTable
  /\ \A o \in s.found \ s.path : \A i \in DOMAIN callees[o] : callees[o][i] \in s.found

\* A pass never takes back: not a compiled method, not a table.
Grows(s, r) ==
  /\ r \in Passes /\ r.path = s.path
  /\ s.compiled \subseteq r.compiled /\ s.found \subseteq r.found
  /\ \A o \in Callables : s.tables[o] # NoTable => r.tables[o] = s.tables[o]

Reaches(s, o, r) == Grows(s, r) /\ (r.ok => Good(r) /\ o \in r.found)

BodiesTyped == callees \in [Callables -> CallTables]

LEMMA CalleesTyped ==
  ASSUME BodiesTyped, NEW m \in Callables
  PROVE  /\ callees[m] \in Seq(Callables) /\ Len(callees[m]) \in Nat
         /\ DOMAIN callees[m] = 1 .. Len(callees[m])
         /\ \A i \in 1 .. Len(callees[m]) : callees[m][i] \in Callables
<1>1. callees[m] \in Seq(Callables)
  BY CallablesAssumption DEF BodiesTyped
<1> QED
  BY <1>1

LEMMA AllocatedTyped ==
  ASSUME NEW old \in Tables \union {NoTable}
  PROVE  /\ AllocatedOnce(old) \in Tables /\ AllocatedOnce(old) # NoTable
         /\ old # NoTable => AllocatedOnce(old) = old
<1>1. <<>> \in Seq([entry : Callables, table : Nat])
  OBVIOUS
<1>2. ASSUME NEW k \in Nat PROVE [address |-> k, slots |-> <<>>] \in Tables
  BY <1>1 DEF Tables
<1>3. CASE old = NoTable
  BY <1>2, <1>3, NoTableAssumption DEF AllocatedOnce, Fresh
<1>4. CASE old # NoTable
  BY <1>4, NoTableAssumption DEF AllocatedOnce
<1> QED
  BY <1>3, <1>4

LEMMA CompileNowIs ==
  ASSUME NEW s, Good(s), NEW m \in Callables
  PROVE  Good(CompileNow(s, m)) /\ Grows(s, CompileNow(s, m))
<1> DEFINE t == CompileNow(s, m)
<1>1. /\ t \in Passes /\ t.path = s.path /\ t.found = s.found /\ t.ok = s.ok
      /\ t.tables = s.tables /\ s.compiled \subseteq t.compiled
  BY DEF CompileNow, Good, Passes
<1> HIDE DEF t
<1>2. Good(t)
  BY <1>1 DEF Good
<1>3. Grows(s, t)
  BY <1>1 DEF Grows
<1> QED
  BY <1>2, <1>3 DEF t

LEMMA EnteredIs ==
  ASSUME NEW s, Good(s), NEW m \in Callables, m \in s.compiled
  PROVE  LET e == Entered(s, m)
         IN /\ Good(e)
            /\ e.path = s.path \union {m} /\ e.found = s.found \union {m}
            /\ e.compiled = s.compiled
            /\ \A o \in Callables : s.tables[o] # NoTable => e.tables[o] = s.tables[o]
<1> DEFINE e == Entered(s, m)
<1>1. /\ s \in Passes /\ s.tables \in [Callables -> Tables \union {NoTable}]
      /\ s.path \subseteq Callables /\ s.found \subseteq Callables
  BY DEF Good, Passes
<1>2. /\ AllocatedOnce(s.tables[m]) \in Tables /\ AllocatedOnce(s.tables[m]) # NoTable
      /\ s.tables[m] # NoTable => AllocatedOnce(s.tables[m]) = s.tables[m]
  BY <1>1, AllocatedTyped
<1>3. e = [s EXCEPT !.path = s.path \union {m}, !.found = s.found \union {m},
                    !.tables = [s.tables EXCEPT ![m] = AllocatedOnce(s.tables[m])]]
  BY <1>1 DEF Entered, Passes
<1> DEFINE w == [s.tables EXCEPT ![m] = AllocatedOnce(s.tables[m])]
<1>4. /\ w \in [Callables -> Tables \union {NoTable}]
      /\ w[m] # NoTable
      /\ \A o \in Callables : s.tables[o] # NoTable => w[o] = s.tables[o]
  BY <1>1, <1>2
<1>a. e = [s EXCEPT !.path = s.path \union {m}, !.found = s.found \union {m}, !.tables = w]
  BY <1>3
<1> HIDE DEF w, e
<1>b. s.path \union {m} \in SUBSET Callables /\ s.found \union {m} \in SUBSET Callables
  BY <1>1
<1>5. /\ e \in Passes /\ e.ok = s.ok /\ e.compiled = s.compiled /\ e.tables = w
      /\ e.path = s.path \union {m} /\ e.found = s.found \union {m}
  <2> DEFINE P == s.path \union {m}  F == s.found \union {m}
  <2>1. e = [s EXCEPT !.path = P, !.found = F, !.tables = w]
    BY <1>a
  <2>2. P \in SUBSET Callables /\ F \in SUBSET Callables
    BY <1>b
  <2> HIDE DEF P, F
  <2>3. /\ e \in Passes /\ e.ok = s.ok /\ e.compiled = s.compiled /\ e.tables = w
        /\ e.path = P /\ e.found = F
    <3>1. s \in Passes
      BY <1>1
    <3>2. w \in [Callables -> Tables \union {NoTable}]
      BY <1>4
    <3> QED
      BY <3>1, <3>2, <2>1, <2>2 DEF Passes
  <2> QED
    BY <2>3 DEF P, F
<1>6. Good(e)
  <2>1. e.ok /\ e.path \subseteq e.found /\ e.found \subseteq e.compiled
    BY <1>5 DEF Good
  <2>2. \A o \in e.found : e.tables[o] # NoTable
    BY <1>1, <1>4, <1>5 DEF Good
  <2>3. \A o \in e.found \ e.path : \A i \in DOMAIN callees[o] : callees[o][i] \in e.found
    BY <1>5 DEF Good
  <2> QED
    BY <1>5, <2>1, <2>2, <2>3 DEF Good
<1> QED
  BY <1>4, <1>5, <1>6 DEF e

LEMMA GrowsOn ==
  ASSUME NEW s, NEW t, NEW r, Grows(s, t), Grows(t, r)
  PROVE  Grows(s, r)
  BY DEF Grows

-----------------------------------------------------------------------------
\* The equation of the descent, for the first n callees.
CalleeDone(f, m, u, i) == IF u.ok THEN f[<<u, callees[m][i]>>] ELSE u
DescendsAs(d, f, s, m, n) == d = [i \in 0 .. n |-> IF i = 0 THEN s ELSE CalleeDone(f, m, d[i - 1], i)]

LEMMA DescentExists ==
  ASSUME NEW f, NEW s, NEW m, NEW n \in Nat
  PROVE  \E d : DescendsAs(d, f, s, m, n)
<1> DEFINE S == {k \in Nat : \E d : DescendsAs(d, f, s, m, k)}
<1>1. 0 \in S
  <2>1. DescendsAs([i \in 0 .. 0 |-> s], f, s, m, 0)
    BY DEF DescendsAs
  <2> QED
    BY <2>1
<1>2. ASSUME NEW k \in Nat, k \in S PROVE k + 1 \in S
  <2>0. PICK d : DescendsAs(d, f, s, m, k)
    BY <1>2
  <2>1. \A i \in 0 .. k : d[i] = IF i = 0 THEN s ELSE CalleeDone(f, m, d[i - 1], i)
    BY <2>0 DEF DescendsAs
  <2> DEFINE g == [i \in 0 .. k + 1 |-> IF i <= k THEN d[i] ELSE CalleeDone(f, m, d[k], k + 1)]
  <2>2. \A i \in 0 .. k + 1 : g[i] = IF i = 0 THEN s ELSE CalleeDone(f, m, g[i - 1], i)
    <3> SUFFICES ASSUME NEW i \in 0 .. k + 1
                 PROVE  g[i] = IF i = 0 THEN s ELSE CalleeDone(f, m, g[i - 1], i)
      OBVIOUS
    <3>1. CASE i = k + 1
      <4>1. i # 0 /\ i - 1 = k /\ g[i] = CalleeDone(f, m, d[k], i) /\ g[k] = d[k]
        BY <3>1
      <4> QED
        BY <4>1
    <3>2. CASE i # k + 1
      <4>1. g[i] = d[i] /\ (i # 0 => g[i - 1] = d[i - 1])
        BY <3>2
      <4>2. d[i] = IF i = 0 THEN s ELSE CalleeDone(f, m, d[i - 1], i)
        BY <2>1, <3>2
      <4> HIDE DEF g
      <4> QED
        BY <4>1, <4>2
    <3> QED
      BY <3>1, <3>2
  <2>3. g = [i \in 0 .. k + 1 |-> g[i]]
    OBVIOUS
  <2> HIDE DEF g
  <2>4. g = [i \in 0 .. k + 1 |-> IF i = 0 THEN s ELSE CalleeDone(f, m, g[i - 1], i)]
    BY <2>2, <2>3
  <2>5. DescendsAs(g, f, s, m, k + 1)
    BY <2>4 DEF DescendsAs
  <2> QED
    BY <2>5
<1> HIDE DEF S
<1>3. Nat \subseteq S
  BY <1>1, <1>2, SetInduction
<1> QED
  BY <1>3 DEF S

\* A descent that reaches every callee it comes to has reached all of them
\* when it went well.
LEMMA DescendIs ==
  ASSUME BodiesTyped, NEW f, NEW s, Good(s), NEW m \in Callables,
         \A u, o : Good(u) /\ u.path = s.path /\ o \in Callables => Reaches(u, o, f[<<u, o>>])
  PROVE  LET r == Descend(f, s, m)
         IN /\ Grows(s, r)
            /\ r.ok => Good(r) /\ \A i \in DOMAIN callees[m] : callees[m][i] \in r.found
<1> DEFINE N == Len(callees[m])
           d == CHOOSE x : DescendsAs(x, f, s, m, N)
<1>0. N \in Nat /\ DOMAIN callees[m] = 1 .. N /\ \A i \in 1 .. N : callees[m][i] \in Callables
  BY CalleesTyped
<1> HIDE DEF N
<1>1. DescendsAs(d, f, s, m, N)
  BY <1>0, DescentExists
<1>2. Descend(f, s, m) = d[N]
  BY DEF Descend, DescendsAs, CalleeDone, N
<1> HIDE DEF d
<1>3. \A i \in 0 .. N : d[i] = IF i = 0 THEN s ELSE CalleeDone(f, m, d[i - 1], i)
  BY <1>1 DEF DescendsAs
<1> DEFINE Right(i) == /\ Grows(s, d[i])
                       /\ d[i].ok => Good(d[i]) /\ \A j \in 1 .. i : callees[m][j] \in d[i].found
           S == {i \in Nat : i <= N => Right(i)}
<1>4. 0 \in S
  <2>1. d[0] = s
    BY <1>0, <1>3
  <2>2. Grows(s, s)
    BY DEF Grows, Good
  <2>3. Right(0)
    BY <2>1, <2>2
  <2> QED
    BY <2>3
<1>5. ASSUME NEW i \in Nat, i \in S PROVE i + 1 \in S
  <2> SUFFICES ASSUME i + 1 <= N PROVE Right(i + 1)
    OBVIOUS
  <2> DEFINE u == d[i]  v == d[i + 1]  o == callees[m][i + 1]
  <2>1. Right(i)
    BY <1>0, <1>5
  <2>2. v = IF u.ok THEN f[<<u, o>>] ELSE u
    <3>1. i + 1 \in 0 .. N /\ i + 1 # 0 /\ (i + 1) - 1 = i
      BY <1>0
    <3>2. d[i + 1] = CalleeDone(f, m, d[i], i + 1)
      BY <1>3, <3>1
    <3> QED
      BY <3>2 DEF CalleeDone
  <2>3. o \in Callables
    BY <1>0
  <2>4. CASE ~u.ok
    <3>1. v = u
      BY <2>2, <2>4
    <3> QED
      BY <2>1, <2>4, <3>1
  <2>5. CASE u.ok
    <3>1. Good(u) /\ Grows(s, u) /\ \A j \in 1 .. i : callees[m][j] \in u.found
      BY <2>1, <2>5
    <3>2. u.path = s.path
      BY <3>1 DEF Grows
    <3>3. v = f[<<u, o>>]
      BY <2>2, <2>5
    <3> HIDE DEF u, v
    <3>4. Reaches(u, o, v)
      BY <2>3, <3>1, <3>2, <3>3
    <3>5. Grows(u, v)
      BY <3>4 DEF Reaches
    <3>6. Grows(s, v)
      BY <3>1, <3>5, GrowsOn
    <3>7. ASSUME v.ok, NEW j \in 1 .. i + 1 PROVE callees[m][j] \in v.found
      <4>1. CASE j = i + 1
        BY <3>4, <3>7, <4>1 DEF Reaches
      <4>2. CASE j # i + 1
        <5>1. j \in 1 .. i
          BY <4>2
        <5> QED
          BY <3>1, <3>5, <5>1 DEF Grows
      <4> QED
        BY <4>1, <4>2
    <3>8. v.ok => Good(v)
      BY <3>4 DEF Reaches
    <3> QED
      BY <3>6, <3>7, <3>8 DEF v
  <2> QED
    BY <2>4, <2>5
<1> HIDE DEF S
<1>6. Nat \subseteq S
  BY <1>4, <1>5, SetInduction
<1>7. Right(N)
  BY <1>0, <1>6 DEF S
<1> QED
  BY <1>0, <1>2, <1>7

-----------------------------------------------------------------------------
LEMMA ReachByIs ==
  ASSUME BodiesTyped, NEW f, NEW s, Good(s), NEW m \in Callables,
         \A u, o : /\ Good(u) /\ o \in Callables
                  /\ m \notin s.path /\ u.path = s.path \union {m}
                  => Reaches(u, o, f[<<u, o>>])
  PROVE  Reaches(s, m, ReachBy(f, s, m))
<1> DEFINE t == CompileNow(s, m)
<1>1. Good(t) /\ Grows(s, t)
  BY CompileNowIs
<1>2. t.path = s.path /\ t \in Passes
  BY <1>1 DEF Grows
<1> HIDE DEF t
<1>3. CASE m \notin t.compiled
  <2> DEFINE r == [t EXCEPT !.ok = FALSE]
  <2>1. ReachBy(f, s, m) = r
    BY <1>3 DEF ReachBy, t
  <2>2. /\ r \in Passes /\ r.ok = FALSE /\ r.path = t.path /\ r.compiled = t.compiled
        /\ r.found = t.found /\ r.tables = t.tables
    BY <1>2 DEF Passes
  <2> HIDE DEF r
  <2>3. Grows(s, r)
    BY <1>1, <2>2 DEF Grows
  <2> QED
    BY <2>1, <2>2, <2>3 DEF Reaches
<1>4. CASE m \in t.compiled /\ m \in t.path
  <2>1. ReachBy(f, s, m) = t
    BY <1>4 DEF ReachBy, t
  <2>2. m \in t.found
    BY <1>1, <1>4 DEF Good
  <2> QED
    BY <1>1, <2>1, <2>2 DEF Reaches
<1>5. CASE m \in t.compiled /\ m \notin t.path
  <2> DEFINE e == Entered(t, m)
             d == Descend(f, e, m)
             r == [d EXCEPT !.path = d.path \ {m}]
  <2>1. ReachBy(f, s, m) = r
    BY <1>5 DEF ReachBy, t
  <2>2. /\ Good(e)
        /\ e.path = t.path \union {m} /\ e.found = t.found \union {m}
        /\ e.compiled = t.compiled
        /\ \A o \in Callables : t.tables[o] # NoTable => e.tables[o] = t.tables[o]
    BY <1>1, <1>5, EnteredIs
  <2> HIDE DEF e
  <2>3. \A u, o : Good(u) /\ u.path = e.path /\ o \in Callables => Reaches(u, o, f[<<u, o>>])
    BY <1>2, <1>5, <2>2
  <2>4. Grows(e, d)
    BY <2>2, <2>3, DescendIs
  <2>5. d.ok => Good(d) /\ \A i \in DOMAIN callees[m] : callees[m][i] \in d.found
    BY <2>2, <2>3, DescendIs
  <2> HIDE DEF d
  <2>6. d \in Passes /\ d.path = t.path \union {m}
    BY <2>2, <2>4 DEF Grows
  <2>7. /\ r \in Passes /\ r.ok = d.ok /\ r.compiled = d.compiled
        /\ r.found = d.found /\ r.tables = d.tables /\ r.path = d.path \ {m}
    BY <2>6 DEF Passes
  <2>8. r.path = s.path
    BY <1>2, <1>5, <2>6, <2>7
  <2> HIDE DEF r
  <2>9. Grows(s, r)
    <3>1. s.compiled \subseteq r.compiled /\ s.found \subseteq r.found
      BY <1>1, <2>2, <2>4, <2>7 DEF Grows
    <3>2. ASSUME NEW o \in Callables, s.tables[o] # NoTable PROVE r.tables[o] = s.tables[o]
      <4>1. t.tables[o] = s.tables[o]
        BY <1>1, <3>2 DEF Grows
      <4>2. e.tables[o] = s.tables[o]
        BY <2>2, <3>2, <4>1
      <4>3. d.tables[o] = s.tables[o]
        BY <2>4, <3>2, <4>2 DEF Grows
      <4> QED
        BY <2>7, <4>3
    <3> QED
      BY <2>7, <2>8, <3>1, <3>2 DEF Grows
  <2>10. m \in r.found
    BY <2>2, <2>4, <2>7 DEF Grows
  <2>11. ASSUME r.ok PROVE Good(r)
    <3>1. Good(d) /\ \A i \in DOMAIN callees[m] : callees[m][i] \in d.found
      BY <2>5, <2>7, <2>11
    <3>2. r.path \subseteq r.found /\ r.found \subseteq r.compiled
      BY <2>7, <3>1 DEF Good
    <3>3. \A o \in r.found : r.tables[o] # NoTable
      BY <2>7, <3>1 DEF Good
    <3>4. ASSUME NEW o \in r.found \ r.path, NEW i \in DOMAIN callees[o]
          PROVE  callees[o][i] \in r.found
      <4>1. CASE o = m
        BY <2>7, <3>1, <3>4, <4>1
      <4>2. CASE o # m
        BY <2>7, <3>1, <3>4, <4>2 DEF Good
      <4> QED
        BY <4>1, <4>2
    <3> QED
      BY <2>7, <2>11, <3>2, <3>3, <3>4 DEF Good
  <2> QED
    BY <2>1, <2>9, <2>10, <2>11 DEF Reaches
<1> QED
  BY <1>3, <1>4, <1>5

\* The equation of the recursion, for paths shorter than k.
Pursue(f, p) == ReachBy(f, p[1], p[2])
PursuesAs(g, k) ==
  g = [n \in 0 .. k |-> [p \in Passes \X Callables |->
        IF n = 0 THEN p[1] ELSE Pursue(g[n - 1], p)]]

LEMMA PursuitExists ==
  ASSUME NEW n \in Nat
  PROVE  \E g : PursuesAs(g, n)
<1> DEFINE S == {k \in Nat : \E g : PursuesAs(g, k)}
           To(f) == [p \in Passes \X Callables |-> Pursue(f, p)]
           From == [p \in Passes \X Callables |-> p[1]]
<1>1. 0 \in S
  <2>1. PursuesAs([i \in 0 .. 0 |-> From], 0)
    BY DEF PursuesAs
  <2> QED
    BY <2>1
<1>2. ASSUME NEW k \in Nat, k \in S PROVE k + 1 \in S
  <2>0. PICK d : PursuesAs(d, k)
    BY <1>2
  <2>1. \A i \in 0 .. k : d[i] = IF i = 0 THEN From ELSE To(d[i - 1])
    BY <2>0 DEF PursuesAs
  <2> HIDE DEF From, To
  <2> DEFINE g == [i \in 0 .. k + 1 |-> IF i <= k THEN d[i] ELSE To(d[k])]
  <2>2. \A i \in 0 .. k + 1 : g[i] = IF i = 0 THEN From ELSE To(g[i - 1])
    <3> SUFFICES ASSUME NEW i \in 0 .. k + 1
                 PROVE  g[i] = IF i = 0 THEN From ELSE To(g[i - 1])
      OBVIOUS
    <3>1. CASE i = k + 1
      <4>1. i # 0 /\ i - 1 = k /\ g[i] = To(d[k]) /\ g[k] = d[k]
        BY <3>1
      <4> QED
        BY <4>1
    <3>2. CASE i # k + 1
      <4>1. g[i] = d[i] /\ (i # 0 => g[i - 1] = d[i - 1])
        BY <3>2
      <4>2. d[i] = IF i = 0 THEN From ELSE To(d[i - 1])
        BY <2>1, <3>2
      <4> HIDE DEF g
      <4> QED
        BY <4>1, <4>2
    <3> QED
      BY <3>1, <3>2
  <2>3. g = [i \in 0 .. k + 1 |-> g[i]]
    OBVIOUS
  <2> HIDE DEF g
  <2>4. g = [i \in 0 .. k + 1 |-> IF i = 0 THEN From ELSE To(g[i - 1])]
    BY <2>2, <2>3
  <2>5. \A i \in 0 .. k + 1 :
          (IF i = 0 THEN From ELSE To(g[i - 1])) =
          [p \in Passes \X Callables |-> IF i = 0 THEN p[1] ELSE Pursue(g[i - 1], p)]
    BY DEF From, To
  <2>6. PursuesAs(g, k + 1)
    BY <2>4, <2>5 DEF PursuesAs
  <2> QED
    BY <2>6
<1> HIDE DEF S
<1>3. Nat \subseteq S
  BY <1>1, <1>2, SetInduction
<1> QED
  BY <1>3 DEF S

LEMMA ReachingIs ==
  LET C == Cardinality(Callables)
  IN  /\ C \in Nat
      /\ \A n \in 1 .. C + 1, s \in Passes, m \in Callables :
           Reaching[n][<<s, m>>] = ReachBy(Reaching[n - 1], s, m)
<1> DEFINE C == Cardinality(Callables)
           g == CHOOSE x : PursuesAs(x, C + 1)
<1>1. C \in Nat
  BY CallablesAssumption, FS_CardinalityType
<1>2. Reaching = g
  BY DEF Reaching, PursuesAs, Pursue
<1>3. PursuesAs(g, C + 1)
  BY <1>1, PursuitExists
<1> HIDE DEF g, C
<1>4. ASSUME NEW n \in 1 .. C + 1, NEW s \in Passes, NEW m \in Callables
      PROVE  g[n][<<s, m>>] = ReachBy(g[n - 1], s, m)
  <2>1. n \in 0 .. C + 1 /\ n # 0
    BY <1>1
  <2>2. g[n] = [p \in Passes \X Callables |-> IF n = 0 THEN p[1] ELSE Pursue(g[n - 1], p)]
    BY <1>3, <2>1 DEF PursuesAs
  <2>3. g[n][<<s, m>>] = Pursue(g[n - 1], <<s, m>>)
    BY <2>1, <2>2
  <2> QED
    BY <2>3 DEF Pursue
<1> QED
  BY <1>1, <1>2, <1>4 DEF C

LEMMA ReachIs ==
  ASSUME BodiesTyped, NEW s, Good(s), NEW m \in Callables
  PROVE  Reaches(s, m, Reach(s, m))
<1> DEFINE C == Cardinality(Callables)
           Off(u) == Cardinality(Callables \ u.path)
           Right(n) == \A u, o : Good(u) /\ o \in Callables /\ Off(u) < n =>
                         Reaches(u, o, Reaching[n][<<u, o>>])
           S == {n \in Nat : n <= C + 1 => Right(n)}
<1>1. /\ C \in Nat
      /\ \A n \in 1 .. C + 1, u \in Passes, o \in Callables :
           Reaching[n][<<u, o>>] = ReachBy(Reaching[n - 1], u, o)
  BY ReachingIs
<1>2. ASSUME NEW u, Good(u)
      PROVE  /\ u \in Passes /\ IsFiniteSet(Callables \ u.path) /\ Off(u) \in Nat /\ Off(u) <= C
  <2> DEFINE Rest == Callables \ u.path
  <2>1. Rest \in SUBSET Callables
    OBVIOUS
  <2> HIDE DEF Rest
  <2>2. IsFiniteSet(Rest) /\ Cardinality(Rest) <= Cardinality(Callables)
    BY <2>1, CallablesAssumption, FS_Subset
  <2>3. Cardinality(Rest) \in Nat
    BY <2>2, FS_CardinalityType
  <2> QED
    BY <1>2, <2>2, <2>3 DEF Good, Rest
<1> HIDE DEF C, Off
<1>3. 0 \in S
  <2>1. ASSUME NEW u, Good(u), Off(u) < 0 PROVE FALSE
    <3>1. Off(u) \in Nat
      BY <1>2, <2>1
    <3> QED
      BY <2>1, <3>1
  <2>2. Right(0)
    BY <2>1
  <2> HIDE DEF Right
  <2> QED
    BY <2>2
<1>4. ASSUME NEW n \in Nat, n \in S PROVE n + 1 \in S
  <2> SUFFICES ASSUME n + 1 <= C + 1, NEW u, NEW o, Good(u), o \in Callables, Off(u) < n + 1
               PROVE  Reaches(u, o, Reaching[n + 1][<<u, o>>])
    OBVIOUS
  <2>0. Good(u) /\ o \in Callables
    OBVIOUS
  <2>1. Right(n)
    BY <1>1, <1>4
  <2>2. Reaching[n + 1][<<u, o>>] = ReachBy(Reaching[n], u, o)
    <3>1. n + 1 \in 1 .. C + 1 /\ (n + 1) - 1 = n
      BY <1>1
    <3> QED
      BY <1>1, <1>2, <3>1
  <2>3. ASSUME NEW v, NEW p, Good(v), p \in Callables,
               o \notin u.path, v.path = u.path \union {o}
        PROVE  Reaches(v, p, Reaching[n][<<v, p>>])
    <3>1. Callables \ v.path = (Callables \ u.path) \ {o}
      BY <2>3
    <3>2. o \in Callables \ u.path
      BY <2>3
    <3>3. Off(v) = Off(u) - 1
      <4> DEFINE Rest == Callables \ u.path
      <4>1. IsFiniteSet(Rest)
        BY <1>2, <2>0
      <4>2. o \in Rest
        BY <3>2
      <4> HIDE DEF Rest
      <4>3. Cardinality(Rest \ {o}) = Cardinality(Rest) - 1
        BY <4>1, <4>2, FS_RemoveElement
      <4> QED
        BY <3>1, <4>3 DEF Off, Rest
    <3>4. Off(v) < n
      <4>1. Off(u) \in Nat /\ Off(u) < n + 1
        BY <1>2, <2>0
      <4> QED
        BY <3>3, <4>1
    <3> QED
      BY <2>1, <2>3, <3>4
  <2> HIDE DEF Right
  <2>4. Reaches(u, o, ReachBy(Reaching[n], u, o))
    BY <2>3, ReachByIs
  <2> QED
    BY <2>2, <2>4
<1> HIDE DEF S, Right
<1>5. Nat \subseteq S
  BY <1>3, <1>4, SetInduction
<1>6. Right(C + 1)
  BY <1>1, <1>5 DEF S
<1>7. Off(s) < C + 1
  <2>1. Off(s) \in Nat /\ Off(s) <= C
    BY <1>2
  <2> QED
    BY <1>1, <2>1
<1> QED
  BY <1>6, <1>7 DEF Right, Reach, C

-----------------------------------------------------------------------------
Typed ==
  /\ BodiesTyped
  /\ compiled \in SUBSET Callables /\ declined \in SUBSET Callables
  /\ resolved \in SUBSET Callables
  /\ counts \in [Callables -> 0 .. Threshold]
  /\ tables \in [Callables -> Tables \union {NoTable}]

TierInv == Typed /\ CallsLand

\* What CallsLand says of one method, its entries apart.
Entry(o, tb) == [entry |-> o, table |-> tb[o].address]
Ready(m, cs, cp, tb) == m \in cp /\ tb[m] # NoTable /\ Len(tb[m].slots) = Len(cs[m])
Jumps(m, i, cs, rs, tb) == cs[m][i] \in rs /\ tb[m].slots[i] = Entry(cs[m][i], tb)

LEMMA LandsApart ==
  CallsLand <=> \A m \in resolved : /\ Ready(m, callees, compiled, tables)
                                    /\ \A i \in DOMAIN callees[m] : Jumps(m, i, callees, resolved, tables)
  BY DEF CallsLand, Ready, Jumps, Entry

LEMMA LandsNext ==
  ASSUME callees' = callees,
         \A m \in resolved' : /\ Ready(m, callees, compiled', tables')
                               /\ \A i \in DOMAIN callees[m] : Jumps(m, i, callees, resolved', tables')
  PROVE  CallsLand'
<1> DEFINE cs == callees'  rs == resolved'
<1>1. \A m \in rs : /\ Ready(m, cs, compiled', tables')
                    /\ \A i \in DOMAIN cs[m] : Jumps(m, i, cs, rs, tables')
  OBVIOUS
<1> QED
  BY <1>1 DEF CallsLand, Ready, Jumps, Entry

LEMMA TierIsGood == Typed => Good(Tier)
<1> SUFFICES ASSUME Typed PROVE Good(Tier)
  OBVIOUS
<1>1. Tier \in Passes
  BY DEF Tier, Passes, Typed
<1> QED
  BY <1>1 DEF Tier, Good

\* What Discard and Resolve take from the pass.
LEMMA PassIs ==
  ASSUME Typed, NEW m \in Callables
  PROVE  LET s == Reach(Tier, m)
         IN /\ s \in Passes /\ compiled \subseteq s.compiled
            /\ \A o \in Callables : tables[o] # NoTable => s.tables[o] = tables[o]
            /\ s.ok => /\ m \in s.found /\ s.found \subseteq s.compiled
                       /\ \A o \in s.found : s.tables[o] # NoTable
                       /\ \A o \in s.found : \A i \in DOMAIN callees[o] : callees[o][i] \in s.found
<1> DEFINE s == Reach(Tier, m)
<1>1. Reaches(Tier, m, s)
  BY TierIsGood, ReachIs DEF Typed
<1> HIDE DEF s
<1>2. /\ s \in Passes /\ s.path = {} /\ compiled \subseteq s.compiled
      /\ \A o \in Callables : tables[o] # NoTable => s.tables[o] = tables[o]
  BY <1>1 DEF Reaches, Grows, Tier
<1>3. s.ok => Good(s) /\ m \in s.found
  BY <1>1 DEF Reaches
<1> QED
  BY <1>2, <1>3 DEF Good, s

LEMMA FilledTyped ==
  ASSUME BodiesTyped, NEW s \in Passes, NEW o \in Callables,
         s.tables[o] # NoTable,
         \A i \in DOMAIN callees[o] : s.tables[callees[o][i]] # NoTable
  PROVE  LET f == Filled(s, o)
         IN /\ f \in Tables /\ f.address = s.tables[o].address
            /\ Len(f.slots) = Len(callees[o])
            /\ \A i \in DOMAIN callees[o] :
                 f.slots[i] = [entry |-> callees[o][i], table |-> s.tables[callees[o][i]].address]
<1> DEFINE old == s.tables[o]
           N == Len(callees[o])
           w == [i \in DOMAIN callees[o] |->
                  [entry |-> callees[o][i], table |-> s.tables[callees[o][i]].address]]
           f == Filled(s, o)
<1>0. N \in Nat /\ DOMAIN callees[o] = 1 .. N /\ \A i \in 1 .. N : callees[o][i] \in Callables
  BY CalleesTyped
<1>1. s.tables \in [Callables -> Tables \union {NoTable}]
  BY DEF Passes
<1>2. old \in Tables
  BY <1>1
<1>3. \A i \in 1 .. N : s.tables[callees[o][i]].address \in Nat
  BY <1>0, <1>1 DEF Tables
<1>4. w = [i \in 1 .. N |-> [entry |-> callees[o][i], table |-> s.tables[callees[o][i]].address]]
  BY <1>0
<1>5. f = [old EXCEPT !.slots = w]
  BY DEF Filled
<1>6. w \in Seq([entry : Callables, table : Nat]) /\ Len(w) = N
  BY <1>0, <1>3, <1>4
<1>7. \A i \in DOMAIN callees[o] :
        w[i] = [entry |-> callees[o][i], table |-> s.tables[callees[o][i]].address]
  OBVIOUS
<1> HIDE DEF w, old, f, N
<1>8. f \in Tables /\ f.address = old.address /\ f.slots = w
  BY <1>2, <1>5, <1>6 DEF Tables
<1> QED
  BY <1>6, <1>7, <1>8 DEF f, old, N

LEMMA InitLands == TierInit => TierInv
  BY ThresholdAssumption DEF TierInit, TierInv, Typed, BodiesTyped, CallsLand

LEMMA CountedTyped ==
  ASSUME Typed, NEW m \in Callables
  PROVE  Counted(m) \in [Callables -> 0 .. Threshold]
<1>1. counts[m] < Threshold => counts[m] + 1 \in 0 .. Threshold
  BY ThresholdAssumption DEF Typed
<1> QED
  BY <1>1 DEF Typed, Counted

LEMMA DiscardLands ==
  ASSUME TierInv, NEW m \in Callables, Discard(m)
  PROVE  TierInv'
<1> DEFINE s == Reach(Tier, m)
<1>1. /\ s \in Passes /\ compiled \subseteq s.compiled
      /\ \A o \in Callables : tables[o] # NoTable => s.tables[o] = tables[o]
  BY PassIs DEF TierInv
<1>2. /\ m \notin resolved /\ compiled' = s.compiled \ {m} /\ declined' = s.declined \union {m}
      /\ tables' = [s.tables EXCEPT ![m] = NoTable]
      /\ counts' = Counted(m) /\ callees' = callees /\ resolved' = resolved
  BY DEF Discard, bodies
<1> HIDE DEF s
<1>3. Typed'
  <2>1. counts' \in [Callables -> 0 .. Threshold]
    BY <1>2, CountedTyped DEF TierInv
  <2>2. tables' \in [Callables -> Tables \union {NoTable}]
    BY <1>1, <1>2 DEF Passes
  <2>3. /\ compiled' \in SUBSET Callables /\ declined' \in SUBSET Callables
        /\ resolved' \in SUBSET Callables
    BY <1>1, <1>2 DEF Passes, TierInv, Typed
  <2>4. BodiesTyped'
    BY <1>2 DEF TierInv, Typed, BodiesTyped
  <2> QED
    BY <2>1, <2>2, <2>3, <2>4 DEF Typed
<1>4. \A o \in resolved : o \in Callables /\ tables[o] # NoTable
  BY DEF TierInv, Typed, CallsLand
<1>5. \A o \in resolved : tables'[o] = tables[o]
  BY <1>1, <1>2, <1>4 DEF Passes
<1>6. ASSUME NEW o \in resolved
      PROVE  /\ Ready(o, callees, compiled', tables')
             /\ \A i \in DOMAIN callees[o] : Jumps(o, i, callees, resolved, tables')
  <2>1. /\ Ready(o, callees, compiled, tables)
        /\ \A i \in DOMAIN callees[o] : Jumps(o, i, callees, resolved, tables)
    BY <1>6, LandsApart DEF TierInv
  <2>2. o # m /\ o \in compiled' /\ tables'[o] = tables[o]
    BY <1>1, <1>2, <1>5, <1>6, <2>1 DEF Ready
  <2>3. Ready(o, callees, compiled', tables')
    BY <2>1, <2>2 DEF Ready
  <2>4. ASSUME NEW i \in DOMAIN callees[o] PROVE Jumps(o, i, callees, resolved, tables')
    <3>1. callees[o][i] \in resolved /\ tables[o].slots[i] = Entry(callees[o][i], tables)
      BY <2>1, <2>4 DEF Jumps
    <3>2. Entry(callees[o][i], tables') = Entry(callees[o][i], tables)
      BY <1>5, <3>1 DEF Entry
    <3> QED
      BY <2>2, <3>1, <3>2 DEF Jumps
  <2> QED
    BY <2>3, <2>4
<1>7. CallsLand'
  BY <1>2, <1>6, LandsNext
<1> QED
  BY <1>3, <1>7 DEF TierInv

LEMMA ResolveLands ==
  ASSUME TierInv, NEW m \in Callables, Resolve(m)
  PROVE  TierInv'
<1> DEFINE s == Reach(Tier, m)
<1>1. /\ s \in Passes /\ compiled \subseteq s.compiled
      /\ \A o \in Callables : tables[o] # NoTable => s.tables[o] = tables[o]
      /\ s.ok => /\ m \in s.found /\ s.found \subseteq s.compiled
                 /\ \A o \in s.found : s.tables[o] # NoTable
                 /\ \A o \in s.found : \A i \in DOMAIN callees[o] : callees[o][i] \in s.found
  BY PassIs DEF TierInv
<1>2. /\ s.ok /\ compiled' = s.compiled /\ declined' = s.declined
      /\ tables' = [o \in Callables |-> IF o \in s.found THEN Filled(s, o) ELSE s.tables[o]]
      /\ resolved' = resolved \union s.found
      /\ counts' = Counted(m) /\ callees' = callees
  BY DEF Resolve, bodies
<1> HIDE DEF s
<1>3. /\ s.found \subseteq Callables /\ s.tables \in [Callables -> Tables \union {NoTable}]
      /\ s.compiled \subseteq Callables /\ s.declined \subseteq Callables
  BY <1>1 DEF Passes
<1>4. ASSUME NEW o \in s.found
      PROVE  /\ tables'[o] \in Tables /\ tables'[o].address = s.tables[o].address
             /\ Len(tables'[o].slots) = Len(callees[o])
             /\ \A i \in DOMAIN callees[o] :
                  tables'[o].slots[i] =
                    [entry |-> callees[o][i], table |-> s.tables[callees[o][i]].address]
  <2>1. tables'[o] = Filled(s, o) /\ o \in Callables
    BY <1>2, <1>3, <1>4
  <2>2. s.tables[o] # NoTable /\ \A i \in DOMAIN callees[o] : s.tables[callees[o][i]] # NoTable
    BY <1>1, <1>2, <1>4
  <2>3. BodiesTyped
    BY DEF TierInv, Typed
  <2> QED
    BY <1>1, <2>1, <2>2, <2>3, FilledTyped
<1>5. Typed'
  <2>1. counts' \in [Callables -> 0 .. Threshold]
    BY <1>2, CountedTyped DEF TierInv
  <2>2. tables' \in [Callables -> Tables \union {NoTable}]
    <3>1. \A o \in Callables :
            (IF o \in s.found THEN Filled(s, o) ELSE s.tables[o]) \in Tables \union {NoTable}
      BY <1>2, <1>3, <1>4
    <3> QED
      BY <1>2, <3>1
  <2>3. /\ compiled' \in SUBSET Callables /\ declined' \in SUBSET Callables
        /\ resolved' \in SUBSET Callables
    BY <1>2, <1>3 DEF TierInv, Typed
  <2>4. BodiesTyped'
    BY <1>2 DEF TierInv, Typed, BodiesTyped
  <2> QED
    BY <2>1, <2>2, <2>3, <2>4 DEF Typed
<1>6. ASSUME NEW o \in s.found \union resolved
      PROVE  tables'[o].address = s.tables[o].address
  <2>1. CASE o \in s.found
    BY <1>4, <2>1
  <2>2. CASE o \notin s.found
    <3>1. o \in Callables
      BY <1>6, <2>2 DEF TierInv, Typed
    <3> QED
      BY <1>2, <2>2, <3>1
  <2> QED
    BY <2>1, <2>2
<1>7. ASSUME NEW o \in resolved'
      PROVE  /\ Ready(o, callees, compiled', tables')
             /\ \A i \in DOMAIN callees[o] : Jumps(o, i, callees, resolved', tables')
  <2>1. CASE o \in s.found
    <3>1. o \in compiled' /\ tables'[o] # NoTable
      BY <1>1, <1>2, <1>4, <2>1, NoTableAssumption
    <3>2. Ready(o, callees, compiled', tables')
      BY <1>4, <2>1, <3>1 DEF Ready
    <3>3. ASSUME NEW i \in DOMAIN callees[o] PROVE Jumps(o, i, callees, resolved', tables')
      <4>1. callees[o][i] \in s.found
        BY <1>1, <1>2, <2>1, <3>3
      <4>2. tables'[callees[o][i]].address = s.tables[callees[o][i]].address
        BY <1>6, <4>1
      <4>3. tables'[o].slots[i] = [entry |-> callees[o][i], table |-> s.tables[callees[o][i]].address]
        BY <1>4, <2>1, <3>3
      <4>4. tables'[o].slots[i] = Entry(callees[o][i], tables')
        BY <4>2, <4>3 DEF Entry
      <4> QED
        BY <1>2, <4>1, <4>4 DEF Jumps
    <3> QED
      BY <3>2, <3>3
  <2>2. CASE o \notin s.found
    <3>1. o \in resolved /\ o \in Callables
      BY <1>2, <1>7, <2>2 DEF TierInv, Typed
    <3>2. /\ Ready(o, callees, compiled, tables)
          /\ \A i \in DOMAIN callees[o] : Jumps(o, i, callees, resolved, tables)
      BY <3>1, LandsApart DEF TierInv
    <3>3. tables'[o] = tables[o] /\ o \in compiled'
      BY <1>1, <1>2, <2>2, <3>1, <3>2 DEF Ready
    <3>4. Ready(o, callees, compiled', tables')
      BY <3>2, <3>3 DEF Ready
    <3>5. ASSUME NEW i \in DOMAIN callees[o] PROVE Jumps(o, i, callees, resolved', tables')
      <4>1. callees[o][i] \in resolved /\ tables[o].slots[i] = Entry(callees[o][i], tables)
        BY <3>2, <3>5 DEF Jumps
      <4>2. callees[o][i] \in Callables /\ Ready(callees[o][i], callees, compiled, tables)
        BY <4>1, LandsApart DEF TierInv, Typed
      <4>3. s.tables[callees[o][i]] = tables[callees[o][i]]
        BY <1>1, <4>2 DEF Ready
      <4>4. tables'[callees[o][i]].address = tables[callees[o][i]].address
        BY <1>6, <4>1, <4>3
      <4>5. Entry(callees[o][i], tables') = Entry(callees[o][i], tables)
        BY <4>4 DEF Entry
      <4> QED
        BY <1>2, <3>3, <4>1, <4>5 DEF Jumps
    <3> QED
      BY <3>4, <3>5
  <2> QED
    BY <2>1, <2>2
<1>8. CallsLand'
  BY <1>2, <1>7, LandsNext
<1> QED
  BY <1>5, <1>8 DEF TierInv

\* Interpret and Decline leave what is compiled and its tables alone.
LEMMA RestLands ==
  ASSUME TierInv, NEW m \in Callables, Interpret(m) \/ Decline(m)
  PROVE  TierInv'
<1>1. /\ UNCHANGED <<callees, compiled, resolved, tables>>
      /\ declined' \in SUBSET Callables
  BY DEF Interpret, Decline, bodies, TierInv, Typed
<1>2. counts' \in [Callables -> 0 .. Threshold]
  <2>1. CASE Interpret(m)
    <3>1. counts[m] + 1 \in 0 .. Threshold
      BY <2>1, ThresholdAssumption DEF Interpret, TierInv, Typed
    <3> QED
      BY <2>1, <3>1 DEF Interpret, TierInv, Typed
  <2>2. CASE Decline(m)
    BY <2>2, CountedTyped DEF Decline, TierInv
  <2> QED
    BY <2>1, <2>2
<1>3. Typed'
  BY <1>1, <1>2 DEF TierInv, Typed, BodiesTyped
<1>4. CallsLand'
  BY <1>1 DEF TierInv, CallsLand
<1> QED
  BY <1>3, <1>4 DEF TierInv

LEMMA StepLands == TierInv /\ [TierNext]_tierVars => TierInv'
<1> SUFFICES ASSUME TierInv, [TierNext]_tierVars PROVE TierInv'
  OBVIOUS
<1>1. CASE UNCHANGED tierVars
  BY <1>1 DEF tierVars, bodies, TierInv, Typed, BodiesTyped, CallsLand
<1>2. ASSUME NEW m \in Callables,
             Interpret(m) \/ Decline(m) \/ Discard(m) \/ Resolve(m) \/ Settled(m)
      PROVE  TierInv'
  BY <1>1, <1>2, RestLands, DiscardLands, ResolveLands DEF Settled
<1> QED
  BY <1>1, <1>2 DEF TierNext

(***************************************************************************)
(* Whatever the bodies call, in cycles or not, and whatever the backend    *)
(* can generate, a method that may run compiled only jumps to code that    *)
(* exists, with the table its callee has now (tier.rs reach and            *)
(* resolve_call_table).                                                    *)
(***************************************************************************)
THEOREM CompiledCallsLand == TierSpec => []CallsLand
<1>1. TierInv => CallsLand
  BY DEF TierInv
<1> QED
  BY InitLands, StepLands, <1>1, PTL DEF TierSpec

=============================================================================
