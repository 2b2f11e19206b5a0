-------------------------- MODULE SchedulingProofs --------------------------
(***************************************************************************)
(* What carries the runtime's threads, for any number of them.             *)
(*                                                                         *)
(* The futex mutex excludes, whatever the threads do while they hold it    *)
(* and however long the sequence number counts; and nobody sleeps on it,   *)
(* on a condition variable or in join for nothing.  The lock-free queue    *)
(* implements the first-in first-out queue, for any values and operations  *)
(* under way.  A receiver told that the channel is closed leaves nothing   *)
(* behind; a pool that reports idle is done with all it was given, and     *)
(* its owner does not sleep on for nothing.                                *)
(***************************************************************************)
EXTENDS HostSync, LockFreeQueue, Channel, ThreadPool, SequenceTheorems, FiniteSetTheorems, TLAPS

\* The positions of a thread that has the mutex.
Holding == {"held", "unlock"}

\* What Exclusion rests on: the word is free only while nobody holds the
\* mutex, so that a compare-exchange and a swap that find it free may enter.
Exclusion ==
  /\ word \in {UNLOCKED, LOCKED, CONTENDED}
  /\ stage \in [Crew -> Stages] /\ onward \in [Crew -> Stages]
  /\ \A t \in Crew : onward[t] \notin Holding
  /\ \A t \in Crew : stage[t] \in Holding => word # UNLOCKED
  /\ \A t, u \in Crew : stage[t] \in Holding /\ stage[u] \in Holding => t = u

LEMMA ExclusionStarts == HostInit => Exclusion
  BY DEF HostInit, Exclusion, Holding, Stages, UNLOCKED, LOCKED, CONTENDED

\* A thread that finds the word free is alone when it goes inside.
LEMMA FirstEnters ==
  ASSUME Exclusion, word = UNLOCKED, word' \in {LOCKED, CONTENDED},
         NEW t \in Crew, stage' = [stage EXCEPT ![t] = "held"], onward' = onward
  PROVE  Exclusion'
<1> USE DEF Holding, UNLOCKED, LOCKED, CONTENDED
<1>1. \A u \in Crew : stage[u] \notin Holding
  BY DEF Exclusion
<1>2. \A u \in Crew : stage'[u] \in Holding => u = t
  BY <1>1 DEF Exclusion
<1>3. stage' \in [Crew -> Stages]
  BY DEF Exclusion, Stages
<1> QED
  BY <1>2, <1>3 DEF Exclusion

LEMMA ExclusionKept == Exclusion /\ [HostNext]_hostVars => Exclusion'
<1> SUFFICES ASSUME Exclusion, [HostNext]_hostVars PROVE Exclusion'
  OBVIOUS
<1> USE DEF Holding, Stages, UNLOCKED, LOCKED, CONTENDED
<1>1. ASSUME UNCHANGED hostVars PROVE Exclusion'
  BY <1>1 DEF hostVars, Exclusion
<1>2. ASSUME MainJoins PROVE Exclusion'
  BY <1>2 DEF MainJoins, Join, JoinSleeps, JoinReturns, condVars, Exclusion
<1>3. ASSUME NEW t \in Crew, ThreadStep(t) PROVE Exclusion'
  <2>1. CASE Lock(t)
    <3>1. CASE Acquires(t)
      BY <2>1, <3>1, FirstEnters DEF Lock, Acquires, GoTo
    <3>2. CASE ~Acquires(t)
      BY <2>1, <3>2 DEF Lock, GoTo, Exclusion
    <3> QED
      BY <3>1, <3>2
  <2>2. CASE Swap(t)
    <3>1. CASE word = UNLOCKED
      BY <2>2, <3>1, FirstEnters DEF Swap, SawFree, GoTo
    <3>2. CASE word # UNLOCKED
      <4>1. word' = CONTENDED /\ onward' = onward /\ stage' = [stage EXCEPT ![t] = "futex"]
        BY <2>2, <3>2 DEF Swap, SawFree, GoTo
      <4>2. stage' \in [Crew -> Stages]
        BY <4>1 DEF Exclusion
      <4>3. \A u \in Crew : stage'[u] \in Holding => stage[u] \in Holding
        BY <4>1 DEF Exclusion
      <4> HIDE DEF Stages, Holding
      <4> QED
        BY <4>1, <4>2, <4>3 DEF Exclusion
    <3> QED
      BY <3>1, <3>2
  <2>3. CASE FutexWait(t)
    BY <2>3 DEF FutexWait, GoTo, Exclusion
  <2>4. CASE Unlock(t)
    BY <2>4 DEF Unlock, GoTo, Exclusion
  <2>5. CASE WakeWaiter(t)
    BY <2>5 DEF WakeWaiter, Wake, Exclusion
  <2>6. CASE Take(t) \/ CondWait(t) \/ Give(t)
    BY <2>6 DEF Take, CondWait, Give, Releases, GoTo, Exclusion
  <2>7. CASE CondSleep(t)
    BY <2>7 DEF CondSleep, GoTo, condVars, Exclusion
  <2>8. CASE Notify(t)
    BY <2>8 DEF Notify, GoTo, Exclusion
  <2>9. CASE WakeNotified(t)
    BY <2>9 DEF WakeNotified, Wake, Exclusion
  <2>10. CASE Leave(t) \/ SetDone(t) \/ Tell(t)
    BY <2>10 DEF Leave, SetDone, Tell, GoTo, Stores, Exclusion
  <2> QED
    BY <1>3, <2>1, <2>2, <2>3, <2>4, <2>5, <2>6, <2>7, <2>8, <2>9, <2>10 DEF ThreadStep
<1>4. ASSUME NEW t \in Crew, EarlyReturn(t) PROVE Exclusion'
  BY <1>4 DEF EarlyReturn, GoTo, Exclusion
<1> QED
  BY <1>1, <1>2, <1>3, <1>4 DEF HostNext

\* Mutex::lock excludes for any number of threads: a thread that got in by the
\* quick compare-exchange, by a retry or by the contended swap is alone, until
\* its unlock has freed the word.
THEOREM MutexIsExclusive == HostSpec => []MutexExcludes
<1>1. Exclusion => MutexExcludes
  BY DEF Exclusion, MutexExcludes, Inside, Holding
<1> QED
  BY ExclusionStarts, ExclusionKept, <1>1, PTL DEF HostSpec

-----------------------------------------------------------------------------
\* Nobody sleeps on the word, the sequence number or `done` for nothing.

\* Positions between the release of the mutex and what comes after it.
Releasing == {"unlock", "wake"}

\* Takers that have read a sequence number and not yet compared it.
Comparing(t) == stage[t] = "cond" \/ (stage[t] \in Releasing /\ onward[t] = "cond")

\* Givers whose token has not been announced.
Announcing(t) == stage[t] = "notify" \/ (stage[t] \in Releasing /\ onward[t] = "notify")

\* Takers that will look at the tokens, for the first time or again.
WillLook(t) ==
  t \in Takers /\ (stage[t] \in {"lock", "swap", "futex", "asleep", "held"} \/ (Comparing(t) /\ seen[t] # seq))

Unannounced == {t \in Crew : Announcing(t)}

\* Who will take a token, announce one, or wake someone for one.
OnTheWay == {t \in Crew : WillLook(t) \/ Announcing(t) \/ stage[t] = "wakeCond"}

\* Who notifies is a giver, who waits for a notification a taker, and both go
\* on where they said; a word that is not free has someone inside.
Roles ==
  /\ \A t \in Crew : stage[t] \in {"notify", "wakeCond"} => t \in Givers
  /\ \A t \in Crew : stage[t] \in {"cond", "condAsleep"} => t \in Takers
  /\ onward \in [Crew -> {"cond", "notify", "leave"}]
  /\ \A t \in Crew : stage[t] \in Releasing =>
       (t \in Givers /\ onward[t] = "notify") \/ (t \in Takers /\ onward[t] \in {"cond", "leave"})
  /\ tokens \in Nat /\ seq \in Nat /\ seen \in [Crew -> Nat]
  /\ \A t \in Crew : seen[t] <= seq
  /\ word # UNLOCKED => \E t \in Crew : stage[t] \in Holding

\* Who sleeps on the word has left CONTENDED there, or a thread will wake it
\* or swap CONTENDED in.
WordTells ==
  Sleepers("asleep") # {} => word = CONTENDED \/ (\E t \in Crew : stage[t] \in {"wake", "swap"})

\* A taker about to sleep has not been notified since it saw no tokens; for
\* those that sleep, each token has a thread on its way.
Accounted ==
  /\ \A t \in Crew : Comparing(t) /\ seen[t] = seq => tokens <= Cardinality(Unannounced)
  /\ Sleepers("condAsleep") # {} => tokens <= Cardinality(OnTheWay)

\* Main sleeps on `done` only before it is told that it is set.
JoinTells ==
  /\ joining \in [thread : Crew \cup {Nobody}, asleep : BOOLEAN] /\ packet \in [Crew -> SUBSET {"result", "done"}]
  /\ joining.asleep => joining.thread \in Crew /\ stage[joining.thread] # "ended"
  /\ \A t \in Crew : "done" \in packet[t] <=> stage[t] \in {"tell", "ended"}

WakeupsInv == Roles /\ WordTells /\ Accounted /\ JoinTells

SleepersAreWoken ==
  /\ Sleepers("asleep") # {} => \E t \in Crew : stage[t] \in Holding \cup {"wake", "swap"}
  /\ Sleepers("condAsleep") # {} => tokens <= Cardinality(OnTheWay)
  /\ joining.asleep => stage[joining.thread] # "ended"

LEMMA WakeupsStart == IsFiniteSet(Crew) /\ HostInit => WakeupsInv
<1> SUFFICES ASSUME IsFiniteSet(Crew), HostInit PROVE WakeupsInv
  OBVIOUS
<1> USE DEF HostInit, Releasing, UNLOCKED
<1>1. Roles
  BY DEF Roles
<1>2. WordTells /\ JoinTells
  BY DEF WordTells, JoinTells, Sleepers
<1>3. Accounted
  BY DEF Accounted, Comparing, Sleepers
<1> QED
  BY <1>1, <1>2, <1>3 DEF WakeupsInv

\* No wrap of the sequence number.
NotWrapped == seq < SeqLimit - 1

\* A step that only moves t, from one place to another.
LEMMA RolesKept ==
  ASSUME Exclusion, Roles, NotWrapped, [HostNext]_hostVars
  PROVE  Roles'
<1> USE DEF Releasing, UNLOCKED, LOCKED, CONTENDED, Crew
<1> USE CrewAssumption
<1>0. stage \in [Crew -> Stages] /\ onward \in [Crew -> Stages]
  BY DEF Exclusion
<1>1. ASSUME UNCHANGED hostVars PROVE Roles'
  BY <1>1 DEF hostVars, Roles
<1>2. ASSUME MainJoins PROVE Roles'
  BY <1>2 DEF MainJoins, Join, JoinSleeps, JoinReturns, condVars, Roles
<1>3. ASSUME NEW t \in Crew, ThreadStep(t) PROVE Roles'
  <2>1. CASE Lock(t)
    BY <1>0, <2>1 DEF Lock, Acquires, condVars, GoTo, Roles, Holding
  <2>2. CASE Swap(t)
    BY <1>0, <2>2 DEF Swap, SawFree, condVars, GoTo, Roles, Holding
  <2>3. CASE FutexWait(t)
    BY <1>0, <2>3 DEF FutexWait, condVars, GoTo, Roles, Holding
  <2>4. CASE Unlock(t)
    BY <1>0, <2>4 DEF Unlock, condVars, GoTo, Roles, Holding
  <2>5. CASE WakeWaiter(t)
    BY <1>0, <2>5 DEF WakeWaiter, Wake, OneOf, Sleepers, condVars, Roles, Holding
  <2>6. CASE Take(t) \/ CondWait(t) \/ Give(t)
    BY <1>0, <2>6 DEF Take, CondWait, Give, Releases, GoTo, Roles, Holding
  <2>7. CASE CondSleep(t)
    BY <1>0, <2>7 DEF CondSleep, condVars, GoTo, Roles, Holding
  <2>8. CASE Notify(t)
    BY <1>0, <2>8, SeqAssumption DEF Notify, NotWrapped, GoTo, Roles, Holding
  <2>9. CASE WakeNotified(t)
    BY <1>0, <2>9 DEF WakeNotified, Wake, OneOf, Sleepers, condVars, Roles, Holding
  <2>10. CASE Leave(t) \/ SetDone(t) \/ Tell(t)
    BY <1>0, <2>10 DEF Leave, SetDone, Tell, condVars, GoTo, Stores, Roles, Holding
  <2> QED
    BY <1>3, <2>1, <2>2, <2>3, <2>4, <2>5, <2>6, <2>7, <2>8, <2>9, <2>10 DEF ThreadStep
<1>4. ASSUME NEW t \in Crew, EarlyReturn(t) PROVE Roles'
  BY <1>0, <1>4 DEF EarlyReturn, condVars, GoTo, Roles, Holding
<1> QED
  BY <1>1, <1>2, <1>3, <1>4 DEF HostNext

LEMMA WordTellsKept ==
  ASSUME Exclusion, Roles, WordTells, [HostNext]_hostVars
  PROVE  WordTells'
<1> USE DEF UNLOCKED, LOCKED, CONTENDED, Sleepers
<1>0. stage \in [Crew -> Stages] /\ onward \in [Crew -> {"cond", "notify", "leave"}]
  BY DEF Exclusion, Roles
<1>1. ASSUME UNCHANGED hostVars PROVE WordTells'
  BY <1>1 DEF hostVars, WordTells
<1>2. ASSUME MainJoins PROVE WordTells'
  BY <1>2 DEF MainJoins, Join, JoinSleeps, JoinReturns, condVars, WordTells
<1>3. ASSUME NEW t \in Crew, ThreadStep(t) PROVE WordTells'
  <2>1. CASE Lock(t)
    BY <1>0, <2>1 DEF Lock, Acquires, GoTo, WordTells
  <2>2. CASE Swap(t)
    BY <1>0, <2>2 DEF Swap, WordTells
  <2>3. CASE FutexWait(t)
    BY <1>0, <2>3 DEF FutexWait, GoTo, WordTells
  <2>4. CASE Unlock(t)
    BY <1>0, <2>4 DEF Unlock, GoTo, WordTells
  <2>5. CASE WakeWaiter(t)
    BY <1>0, <2>5 DEF WakeWaiter, Wake, OneOf, WordTells
  <2>6. CASE Take(t) \/ CondWait(t) \/ Give(t)
    BY <1>0, <2>6 DEF Take, CondWait, Give, Releases, GoTo, WordTells
  <2>7. CASE CondSleep(t)
    BY <1>0, <2>7 DEF CondSleep, GoTo, WordTells
  <2>8. CASE Notify(t)
    BY <1>0, <2>8 DEF Notify, GoTo, WordTells
  <2>9. CASE WakeNotified(t)
    BY <1>0, <2>9 DEF WakeNotified, Wake, OneOf, WordTells
  <2>10. CASE Leave(t) \/ SetDone(t) \/ Tell(t)
    BY <1>0, <2>10 DEF Leave, SetDone, Tell, GoTo, Stores, WordTells
  <2> QED
    BY <1>3, <2>1, <2>2, <2>3, <2>4, <2>5, <2>6, <2>7, <2>8, <2>9, <2>10 DEF ThreadStep
<1>4. ASSUME NEW t \in Crew, EarlyReturn(t) PROVE WordTells'
  BY <1>0, <1>4 DEF EarlyReturn, GoTo, WordTells
<1> QED
  BY <1>1, <1>2, <1>3, <1>4 DEF HostNext

LEMMA JoinTellsKept ==
  ASSUME Exclusion, Roles, JoinTells, [HostNext]_hostVars
  PROVE  JoinTells'
<1> USE DEF ResultFirst
<1>0. stage \in [Crew -> Stages] /\ onward \in [Crew -> {"cond", "notify", "leave"}]
  BY DEF Exclusion, Roles
<1>1. ASSUME UNCHANGED hostVars PROVE JoinTells'
  BY <1>1 DEF hostVars, JoinTells
<1>2. ASSUME MainJoins PROVE JoinTells'
  <2>1. PICK t \in Crew : Join(t) \/ JoinSleeps(t) \/ JoinReturns(t)
    BY <1>2 DEF MainJoins
  <2>2. stage' = stage /\ packet' = packet
    BY <2>1 DEF Join, JoinSleeps, JoinReturns
  <2>3. joining' \in [thread : Crew \cup {Nobody}, asleep : BOOLEAN]
    <3>1. CASE JoinSleeps(t)
      <4>1. joining' = [thread |-> joining.thread, asleep |-> TRUE]
        BY <3>1 DEF JoinSleeps, JoinTells
      <4> QED
        BY <4>1 DEF JoinTells
    <3>2. CASE Join(t) \/ JoinReturns(t)
      <4>1. \E w \in Crew \cup {Nobody}, b \in BOOLEAN : joining' = [thread |-> w, asleep |-> b]
        BY <3>2 DEF Join, JoinReturns
      <4> QED
        BY <4>1
    <3> QED
      BY <2>1, <3>1, <3>2
  <2>4. joining'.asleep => joining'.thread = t /\ "done" \notin packet[t]
    BY <2>1 DEF Join, JoinSleeps, JoinReturns, Awaits
  <2> QED
    BY <2>2, <2>3, <2>4 DEF JoinTells
<1>3. ASSUME NEW t \in Crew, ThreadStep(t) PROVE JoinTells'
  <2>1. CASE Lock(t) \/ Swap(t) \/ FutexWait(t) \/ Unlock(t)
    BY <1>0, <2>1 DEF Lock, Acquires, Swap, FutexWait, Unlock, GoTo, mainVars, JoinTells
  <2>2. CASE WakeWaiter(t)
    BY <1>0, <2>2 DEF WakeWaiter, Wake, OneOf, Sleepers, mainVars, JoinTells
  <2>3. CASE Take(t) \/ CondWait(t) \/ Give(t) \/ CondSleep(t) \/ Notify(t)
    BY <1>0, <2>3 DEF Take, CondWait, Give, CondSleep, Notify, Releases, GoTo, mainVars, JoinTells
  <2>4. CASE WakeNotified(t)
    BY <1>0, <2>4 DEF WakeNotified, Wake, OneOf, Sleepers, mainVars, JoinTells
  <2>5. CASE Leave(t)
    BY <1>0, <2>5 DEF Leave, GoTo, Stores, mainVars, JoinTells
  <2>6. CASE SetDone(t)
    BY <1>0, <2>6 DEF SetDone, GoTo, Stores, mainVars, JoinTells
  <2>7. CASE Tell(t)
    BY <1>0, <2>7 DEF Tell, GoTo, JoinTells
  <2> QED
    BY <1>3, <2>1, <2>2, <2>3, <2>4, <2>5, <2>6, <2>7 DEF ThreadStep
<1>4. ASSUME NEW t \in Crew, EarlyReturn(t) PROVE JoinTells'
  BY <1>0, <1>4 DEF EarlyReturn, GoTo, mainVars, JoinTells
<1> QED
  BY <1>1, <1>2, <1>3, <1>4 DEF HostNext

\* A step that gives nothing and stops nobody on the way leaves all accounted.
LEMMA StillAccounted ==
  ASSUME IsFiniteSet(Crew), Accounted, tokens \in Nat, tokens' = tokens,
         Unannounced \subseteq Unannounced', OnTheWay \subseteq OnTheWay',
         \A u \in Crew : Comparing(u)' /\ seen'[u] = seq' => Comparing(u) /\ seen[u] = seq,
         Sleepers("condAsleep")' \subseteq Sleepers("condAsleep")
  PROVE  Accounted'
<1>1. IsFiniteSet(Unannounced') /\ IsFiniteSet(OnTheWay')
  BY FS_Subset DEF Unannounced, OnTheWay
<1>2. Cardinality(Unannounced) <= Cardinality(Unannounced') /\ Cardinality(OnTheWay) <= Cardinality(OnTheWay')
  BY <1>1, FS_Subset
<1>3. Cardinality(Unannounced) \in Nat /\ Cardinality(OnTheWay) \in Nat
      /\ Cardinality(Unannounced') \in Nat /\ Cardinality(OnTheWay') \in Nat
  BY <1>1, FS_Subset, FS_CardinalityType
<1>4. ASSUME NEW u \in Crew, Comparing(u)', seen'[u] = seq' PROVE tokens' <= Cardinality(Unannounced')
  BY <1>2, <1>3, <1>4 DEF Accounted
<1>5. Sleepers("condAsleep")' # {} => tokens' <= Cardinality(OnTheWay')
  BY <1>2, <1>3 DEF Accounted
<1> QED
  BY <1>4, <1>5 DEF Accounted

\* A taker leaves with its token.
LEMMA TakenIsAccounted ==
  ASSUME IsFiniteSet(Crew), Exclusion, Roles, Accounted, NEW t \in Crew, Take(t)
  PROVE  Accounted'
<1> USE CrewAssumption DEF Crew, Releasing
<1>1. stage' = [stage EXCEPT ![t] = "unlock"] /\ onward' = [onward EXCEPT ![t] = "leave"]
      /\ seq' = seq /\ seen' = seen /\ tokens' = tokens - 1 /\ tokens \in Nat /\ t \in Takers /\ stage[t] = "held"
  BY DEF Take, Releases, GoTo, Roles
<1>2. stage \in [Crew -> Stages] /\ onward \in [Crew -> Stages]
  BY DEF Exclusion
<1>3. \A u \in Crew : (Comparing(u)' => Comparing(u)) /\ (Announcing(u)' <=> Announcing(u))
  BY <1>1, <1>2 DEF Comparing, Announcing
<1>4. Unannounced' = Unannounced
  BY <1>3 DEF Unannounced
<1>5. OnTheWay' = OnTheWay \ {t}
  BY <1>1, <1>2 DEF OnTheWay, WillLook, Announcing, Comparing
<1>6. Sleepers("condAsleep")' = Sleepers("condAsleep")
  BY <1>1, <1>2 DEF Sleepers
<1>7. IsFiniteSet(Unannounced) /\ IsFiniteSet(OnTheWay)
  BY FS_Subset DEF Unannounced, OnTheWay
<1>8. Cardinality(Unannounced) \in Nat /\ Cardinality(OnTheWay) \in Nat /\ Cardinality(OnTheWay') \in Nat
  BY <1>5, <1>7, FS_CardinalityType, FS_RemoveElement
<1>9. Cardinality(OnTheWay') >= Cardinality(OnTheWay) - 1
  <2>1. Cardinality(OnTheWay') = IF t \in OnTheWay THEN Cardinality(OnTheWay) - 1 ELSE Cardinality(OnTheWay)
    BY <1>5, <1>7, FS_RemoveElement
  <2> QED
    BY <1>8, <2>1
<1>10. ASSUME NEW u \in Crew, Comparing(u)', seen'[u] = seq' PROVE tokens' <= Cardinality(Unannounced')
  BY <1>1, <1>3, <1>4, <1>8, <1>10 DEF Accounted
<1>11. ASSUME Sleepers("condAsleep")' # {} PROVE tokens' <= Cardinality(OnTheWay')
  BY <1>1, <1>6, <1>8, <1>9, <1>11 DEF Accounted
<1> QED
  BY <1>10, <1>11 DEF Accounted

\* A token comes with the giver that will announce it.
LEMMA GivenIsAccounted ==
  ASSUME IsFiniteSet(Crew), Exclusion, Roles, Accounted, NEW t \in Crew, Give(t)
  PROVE  Accounted'
<1> USE CrewAssumption DEF Crew, Releasing
<1>1. stage' = [stage EXCEPT ![t] = "unlock"] /\ onward' = [onward EXCEPT ![t] = "notify"]
      /\ seq' = seq /\ seen' = seen /\ tokens' = tokens + 1 /\ tokens \in Nat /\ t \in Givers /\ stage[t] = "held"
  BY DEF Give, Releases, GoTo, Roles
<1>2. stage \in [Crew -> Stages] /\ onward \in [Crew -> Stages]
  BY DEF Exclusion
<1>3. \A u \in Crew : Comparing(u)' => Comparing(u)
  BY <1>1, <1>2 DEF Comparing
<1>4. Unannounced' = Unannounced \cup {t} /\ t \notin Unannounced
  BY <1>1, <1>2 DEF Unannounced, Announcing
<1>5. OnTheWay' = OnTheWay \cup {t} /\ t \notin OnTheWay
  BY <1>1, <1>2 DEF OnTheWay, WillLook, Announcing, Comparing
<1>6. Sleepers("condAsleep")' = Sleepers("condAsleep")
  BY <1>1, <1>2 DEF Sleepers
<1>7. IsFiniteSet(Unannounced) /\ IsFiniteSet(OnTheWay)
  BY FS_Subset DEF Unannounced, OnTheWay
<1>8. Cardinality(Unannounced) \in Nat /\ Cardinality(OnTheWay) \in Nat
  BY <1>7, FS_CardinalityType
<1>9. Cardinality(Unannounced') = Cardinality(Unannounced) + 1 /\ Cardinality(OnTheWay') = Cardinality(OnTheWay) + 1
  BY <1>4, <1>5, <1>7, FS_AddElement
<1>10. ASSUME NEW u \in Crew, Comparing(u)', seen'[u] = seq' PROVE tokens' <= Cardinality(Unannounced')
  BY <1>1, <1>3, <1>8, <1>9, <1>10 DEF Accounted
<1>11. ASSUME Sleepers("condAsleep")' # {} PROVE tokens' <= Cardinality(OnTheWay')
  BY <1>1, <1>6, <1>8, <1>9, <1>11 DEF Accounted
<1> QED
  BY <1>10, <1>11 DEF Accounted

\* After the sequence number has moved, whoever read it before will look again.
LEMMA AnnouncedIsAccounted ==
  ASSUME IsFiniteSet(Crew), Exclusion, Roles, NotWrapped, Accounted, NEW t \in Crew, Notify(t)
  PROVE  Accounted'
<1> USE CrewAssumption DEF Crew, Releasing
<1>1. stage' = [stage EXCEPT ![t] = "wakeCond"] /\ onward' = onward /\ seq' = seq + 1 /\ seen' = seen
      /\ tokens' = tokens /\ tokens \in Nat /\ seq \in Nat /\ seen \in [Crew -> Nat] /\ stage[t] = "notify"
  BY SeqAssumption DEF Notify, GoTo, Roles, NotWrapped
<1>2. stage \in [Crew -> Stages] /\ onward \in [Crew -> Stages]
  BY DEF Exclusion
<1>3. \A u \in Crew : seen'[u] # seq'
  BY <1>1 DEF Roles
<1>4. OnTheWay \subseteq OnTheWay'
  BY <1>1, <1>2, <1>3 DEF OnTheWay, WillLook, Announcing, Comparing
<1>5. Sleepers("condAsleep")' = Sleepers("condAsleep")
  BY <1>1, <1>2 DEF Sleepers
<1>6. IsFiniteSet(OnTheWay') /\ IsFiniteSet(OnTheWay)
  BY FS_Subset DEF OnTheWay
<1>7. Cardinality(OnTheWay) \in Nat /\ Cardinality(OnTheWay') \in Nat /\ Cardinality(OnTheWay) <= Cardinality(OnTheWay')
  BY <1>4, <1>6, FS_CardinalityType, FS_Subset
<1>8. ASSUME Sleepers("condAsleep")' # {} PROVE tokens' <= Cardinality(OnTheWay')
  BY <1>1, <1>5, <1>7, <1>8 DEF Accounted
<1> QED
  BY <1>3, <1>8 DEF Accounted

\* The waker's place among those on the way is taken by whom it wakes, unless
\* nobody is left asleep.
LEMMA WokenIsAccounted ==
  ASSUME IsFiniteSet(Crew), Exclusion, Roles, Accounted, NEW t \in Crew, WakeNotified(t)
  PROVE  Accounted'
<1> USE CrewAssumption DEF Crew, Releasing
<1> DEFINE all == Sleepers("condAsleep")
<1>1. PICK proceed \in {"lock", "leave"}, woken \in OneOf(all) \cup {all} : Wake(t, proceed, woken, "lock")
  BY DEF WakeNotified
<1>2. onward' = onward /\ seq' = seq /\ seen' = seen /\ tokens' = tokens /\ tokens \in Nat
      /\ stage[t] = "wakeCond" /\ t \in Givers
  BY DEF WakeNotified, condVars, Roles
<1>3. stage \in [Crew -> Stages] /\ onward \in [Crew -> Stages]
  BY DEF Exclusion
<1>4. woken \subseteq all /\ t \notin all
  BY <1>1, <1>2 DEF OneOf, Sleepers
<1>5. \A u \in Crew : stage'[u] = IF u = t THEN proceed ELSE IF u \in woken THEN "lock" ELSE stage[u]
  BY <1>1 DEF Wake
<1>6. \A u \in all : u \in Takers /\ stage[u] = "condAsleep"
  BY DEF Roles, Sleepers
<1>7. \A u \in Crew : (Comparing(u)' <=> Comparing(u)) /\ (Announcing(u)' <=> Announcing(u))
  BY <1>2, <1>4, <1>5, <1>6 DEF Comparing, Announcing
<1>8. Unannounced' = Unannounced
  BY <1>7 DEF Unannounced
<1>9. Sleepers("condAsleep")' = all \ woken
  BY <1>4, <1>5 DEF Sleepers
<1>10. OnTheWay' = (OnTheWay \ {t}) \cup woken
  <2>1. ASSUME NEW u \in Crew PROVE u \in OnTheWay' <=> u \in (OnTheWay \ {t}) \cup woken
    <3>1. CASE u = t
      BY <1>2, <1>4, <1>5, <1>6, <1>7, <3>1 DEF OnTheWay, WillLook, Announcing
    <3>2. CASE u \in woken
      BY <1>4, <1>5, <1>6, <3>2 DEF OnTheWay, WillLook
    <3>3. CASE u # t /\ u \notin woken
      BY <1>2, <1>5, <1>7, <3>3 DEF OnTheWay, WillLook
    <3> QED
      BY <3>1, <3>2, <3>3
  <2>2. OnTheWay' \subseteq Crew /\ OnTheWay \subseteq Crew /\ woken \subseteq Crew
    BY <1>4 DEF OnTheWay, Sleepers
  <2> QED
    BY <2>1, <2>2
<1>11. ASSUME Sleepers("condAsleep")' # {} PROVE tokens' <= Cardinality(OnTheWay')
  <2>1. PICK u \in all : woken = {u}
    BY <1>1, <1>9, <1>11 DEF OneOf
  <2>2. t \in OnTheWay /\ u \notin OnTheWay \ {t} /\ OnTheWay' = (OnTheWay \ {t}) \cup {u}
    BY <1>2, <1>6, <1>10, <2>1 DEF OnTheWay, WillLook, Announcing, Comparing
  <2>3. IsFiniteSet(OnTheWay) /\ IsFiniteSet(OnTheWay \ {t})
    BY FS_Subset, FS_RemoveElement DEF OnTheWay
  <2>4. Cardinality(OnTheWay') = Cardinality(OnTheWay)
    <3>1. Cardinality(OnTheWay \ {t}) = Cardinality(OnTheWay) - 1
      BY <2>2, <2>3, FS_RemoveElement
    <3>2. Cardinality(OnTheWay') = Cardinality(OnTheWay \ {t}) + 1
      BY <2>2, <2>3, FS_AddElement
    <3>3. Cardinality(OnTheWay) \in Nat
      BY <2>3, FS_CardinalityType
    <3> QED
      BY <3>1, <3>2, <3>3
  <2> QED
    BY <1>2, <1>9, <1>11, <2>4 DEF Accounted
<1>12. ASSUME NEW u \in Crew, Comparing(u)', seen'[u] = seq' PROVE tokens' <= Cardinality(Unannounced')
  BY <1>2, <1>7, <1>8, <1>12 DEF Accounted
<1> QED
  BY <1>11, <1>12 DEF Accounted

LEMMA AccountedKept ==
  ASSUME IsFiniteSet(Crew), Exclusion, Roles, NotWrapped, Accounted, [HostNext]_hostVars
  PROVE  Accounted'
<1> USE CrewAssumption DEF Crew, Releasing
<1>0. stage \in [Crew -> Stages] /\ onward \in [Crew -> {"cond", "notify", "leave"}] /\ tokens \in Nat
  BY DEF Exclusion, Roles
<1>1. ASSUME stage' = stage, onward' = onward, seen' = seen, seq' = seq, tokens' = tokens PROVE Accounted'
  BY <1>1 DEF Accounted, Comparing, Unannounced, Announcing, Sleepers, OnTheWay, WillLook
<1>2. ASSUME MainJoins PROVE Accounted'
  BY <1>1, <1>2 DEF MainJoins, Join, JoinSleeps, JoinReturns, condVars
<1>3. ASSUME NEW t \in Crew, Lock(t) \/ Swap(t) \/ FutexWait(t) \/ Unlock(t) \/ WakeWaiter(t)
                              \/ Leave(t) \/ SetDone(t) \/ Tell(t) \/ EarlyReturn(t)
      PROVE  Accounted'
  <2>1. tokens' = tokens /\ seq' = seq /\ seen' = seen /\ onward' = onward
    BY <1>3 DEF Lock, Swap, FutexWait, Unlock, WakeWaiter, Leave, SetDone, Tell, EarlyReturn, condVars
  <2>2. ASSUME NEW u \in Crew
        PROVE  /\ Announcing(u)' <=> Announcing(u)
               /\ Comparing(u)' <=> Comparing(u)
               /\ u \in OnTheWay => u \in OnTheWay'
               /\ stage'[u] = "condAsleep" => stage[u] = "condAsleep"
    <3>1. CASE Lock(t) \/ Swap(t) \/ FutexWait(t)
      BY <1>0, <2>1, <3>1 DEF Lock, Acquires, Swap, FutexWait, GoTo, OnTheWay, WillLook, Announcing, Comparing
    <3>2. CASE Unlock(t)
      BY <1>0, <2>1, <3>2 DEF Unlock, GoTo, OnTheWay, WillLook, Announcing, Comparing, Roles
    <3>3. CASE WakeWaiter(t)
      BY <1>0, <2>1, <3>3 DEF WakeWaiter, Wake, OneOf, Sleepers, OnTheWay, WillLook, Announcing, Comparing, Roles
    <3>4. CASE Leave(t) \/ SetDone(t) \/ Tell(t)
      BY <1>0, <2>1, <3>4 DEF Leave, SetDone, Tell, GoTo, OnTheWay, WillLook, Announcing, Comparing
    <3>5. CASE EarlyReturn(t)
      BY <1>0, <2>1, <3>5 DEF EarlyReturn, GoTo, OnTheWay, WillLook, Announcing, Comparing
    <3> QED
      BY <1>3, <3>1, <3>2, <3>3, <3>4, <3>5
  <2>3. Unannounced \subseteq Unannounced' /\ OnTheWay \subseteq OnTheWay' /\ Sleepers("condAsleep")' \subseteq Sleepers("condAsleep")
    BY <2>2 DEF Unannounced, OnTheWay, Sleepers
  <2>4. \A u \in Crew : Comparing(u)' /\ seen'[u] = seq' => Comparing(u) /\ seen[u] = seq
    BY <2>1, <2>2
  <2> QED
    BY <1>0, <2>1, <2>3, <2>4, StillAccounted
<1>4. ASSUME NEW t \in Crew, CondWait(t) PROVE Accounted'
  <2>1. tokens' = 0
    BY <1>4 DEF CondWait
  <2>2. Cardinality(Unannounced') \in Nat /\ Cardinality(OnTheWay') \in Nat
    BY FS_Subset, FS_CardinalityType DEF Unannounced, OnTheWay
  <2> QED
    BY <2>1, <2>2 DEF Accounted
<1>5. ASSUME NEW t \in Crew, CondSleep(t) PROVE Accounted'
  <2>1. tokens' = tokens /\ seq' = seq /\ seen' = seen /\ onward' = onward /\ stage[t] = "cond" /\ t \in Takers
    BY <1>5 DEF CondSleep, condVars, Roles
  <2>2. CASE StillUnnotified(t)
    <3>1. stage' = [stage EXCEPT ![t] = "condAsleep"]
      BY <1>5, <2>2 DEF CondSleep, GoTo
    <3>2. Unannounced' = Unannounced
      BY <1>0, <2>1, <3>1 DEF Unannounced, Announcing
    <3>3. OnTheWay' = OnTheWay
      BY <1>0, <2>1, <2>2, <3>1 DEF OnTheWay, WillLook, Announcing, Comparing, StillUnnotified
    <3>4. \A u \in Crew : Comparing(u)' => Comparing(u)
      BY <1>0, <2>1, <3>1 DEF Comparing
    <3>5. tokens <= Cardinality(Unannounced)
      BY <2>1, <2>2 DEF Accounted, Comparing, StillUnnotified
    <3>6. Cardinality(Unannounced) <= Cardinality(OnTheWay) /\ Cardinality(Unannounced) \in Nat /\ Cardinality(OnTheWay) \in Nat
      BY FS_Subset, FS_CardinalityType DEF Unannounced, OnTheWay
    <3>7. tokens' <= Cardinality(Unannounced') /\ tokens' <= Cardinality(OnTheWay')
      BY <1>0, <2>1, <3>2, <3>3, <3>5, <3>6
    <3> QED
      BY <3>7 DEF Accounted
  <2>3. CASE ~StillUnnotified(t)
    <3>1. stage' = [stage EXCEPT ![t] = "lock"]
      BY <1>5, <2>3 DEF CondSleep, GoTo
    <3>2. Unannounced' = Unannounced /\ OnTheWay \subseteq OnTheWay' /\ Sleepers("condAsleep")' = Sleepers("condAsleep")
      BY <1>0, <2>1, <3>1 DEF Unannounced, Announcing, OnTheWay, WillLook, Comparing, Sleepers
    <3>3. \A u \in Crew : Comparing(u)' => Comparing(u)
      BY <1>0, <2>1, <3>1 DEF Comparing
    <3> QED
      BY <1>0, <2>1, <3>2, <3>3, StillAccounted
  <2> QED
    BY <2>2, <2>3
<1>6. ASSUME UNCHANGED hostVars PROVE Accounted'
  BY <1>1, <1>6 DEF hostVars
<1> QED
  BY <1>2, <1>3, <1>4, <1>5, <1>6, TakenIsAccounted, GivenIsAccounted, AnnouncedIsAccounted, WokenIsAccounted
     DEF HostNext, ThreadStep

\* Nobody sleeps for nothing, for any number of threads and however often
\* the host's wait returns early: whoever sleeps on the mutex, there is a
\* thread awake that has it, has just freed it or is about to try; as long as
\* a taker sleeps on the condition variable, each token has a thread of its
\* own awake for it or queued for the mutex; and Main sleeps in join only
\* while the thread has its wake-up still to come.
THEOREM SleepersWillBeWoken ==
  ASSUME IsFiniteSet(Crew)
  PROVE  HostSpec /\ []NotWrapped => []SleepersAreWoken
<1>1. Exclusion /\ WakeupsInv /\ NotWrapped /\ [HostNext]_hostVars => WakeupsInv'
  BY RolesKept, WordTellsKept, AccountedKept, JoinTellsKept DEF WakeupsInv
<1>2. Exclusion /\ WakeupsInv => SleepersAreWoken
  BY DEF WakeupsInv, SleepersAreWoken, WordTells, Roles, Accounted, JoinTells, CONTENDED, UNLOCKED
<1> QED
  BY <1>1, <1>2, WakeupsStart, ExclusionStarts, ExclusionKept, PTL DEF HostSpec

-----------------------------------------------------------------------------
\* The queue.

Entries == Values \cup {None}

\* The pointers never pass each other nor the end of the chain.
Ordered ==
  /\ chain \in Seq(Entries)
  /\ head \in Nat /\ tail \in Nat /\ head <= tail /\ tail <= Len(chain)

Loaded ==
  /\ pc \in [Clients -> Places] /\ value \in [Clients -> Entries]
  /\ oldHead \in [Clients -> Nat] /\ oldTail \in [Clients -> Nat] /\ oldNext \in [Clients -> Nat]

\* n was read as the link of m.
Follows(n, m) == n = Null \/ (n = m + 1 /\ n <= Len(chain))

ReadTail == {"pushNext", "pushCheck", "pushLink", "pushHelp", "pushSwing"}
ReadHead == {"popTail", "popNext", "popCheck", "popHelp", "popSwing"}
ReadBoth == {"popNext", "popCheck", "popHelp", "popSwing"}
ReadNext == {"popCheck", "popHelp", "popSwing"}

\* What a thread has read is old, and no more than that.
PushLoads(t) ==
  /\ pc[t] \in ReadTail => oldTail[t] <= tail
  /\ pc[t] \in {"pushCheck", "pushHelp"} => Follows(oldNext[t], oldTail[t])
  /\ pc[t] = "pushHelp" => oldNext[t] # Null
  /\ pc[t] = "pushSwing" => oldTail[t] < Len(chain)

PopLoads(t) ==
  /\ pc[t] \in ReadHead => oldHead[t] <= head
  /\ pc[t] \in ReadBoth => oldHead[t] <= oldTail[t] /\ oldTail[t] <= tail
  /\ pc[t] \in ReadNext => Follows(oldNext[t], oldHead[t])
  /\ pc[t] = "popCheck" /\ oldNext[t] = Null => oldHead[t] # head \/ t \in sawEmpty
  /\ pc[t] \in {"popHelp", "popSwing"} => oldNext[t] # Null
  /\ pc[t] = "popHelp" => oldTail[t] = oldHead[t]
  /\ pc[t] = "popSwing" => oldTail[t] # oldHead[t]
  /\ pc[t] = "popTake" => 1 <= oldNext[t] /\ oldNext[t] <= head

\* Two pops that have won are about different nodes.
TakesApart ==
  \A t, u \in Clients :
    pc[t] = "popTake" /\ pc[u] = "popTake" /\ t # u => oldNext[t] # oldNext[u]

\* sawEmpty is what its definition says.
Watching ==
  /\ \A t \in sawEmpty : t \in Clients /\ pc[t] \in Popping
  /\ head = Len(chain) => \A t \in Clients : pc[t] \in Popping => t \in sawEmpty

QueueInv == Ordered /\ Loaded /\ TakesApart /\ Watching /\ \A t \in Clients : PushLoads(t) /\ PopLoads(t)

----------------------------------------------------------------------------
\* Sequences: what is left of a chain behind its h-th node.

Rest(s, h) == SubSeq(s, h + 1, Len(s))

LEMMA RestEmpty ==
  ASSUME NEW S, NEW s \in Seq(S), NEW h \in 0 .. Len(s)
  PROVE  (Rest(s, h) = <<>>) <=> (h = Len(s))
<1>1. Len(s) \in Nat /\ \A i \in h + 1 .. Len(s) : s[i] \in S
  BY ElementOfSeq, LenProperties
<1>2. Len(Rest(s, h)) = IF h + 1 <= Len(s) THEN Len(s) - (h + 1) + 1 ELSE 0
  BY <1>1, SubSeqProperties DEF Rest
<1>3. h = Len(s) => Rest(s, h) = <<>>
  BY <1>1, SubSeqEmpty DEF Rest
<1> QED
  BY <1>1, <1>2, <1>3, EmptySeq

LEMMA RestPopped ==
  ASSUME NEW S, NEW s \in Seq(S), NEW h \in 0 .. Len(s), h < Len(s)
  PROVE  Rest(s, h) # <<>> /\ Head(Rest(s, h)) = s[h + 1] /\ Rest(s, h + 1) = Tail(Rest(s, h))
<1>1. Len(s) \in Nat /\ h + 1 \in 1 .. Len(s) /\ Len(s) \in h + 1 .. Len(s)
  BY LenProperties
<1>2. Rest(s, h) # <<>>
  BY RestEmpty, <1>1
<1>3. /\ Head(SubSeq(s, h + 1, Len(s))) = s[h + 1]
      /\ Tail(SubSeq(s, h + 1, Len(s))) = SubSeq(s, h + 1 + 1, Len(s))
  BY <1>1, HeadTailOfSubSeq
<1> QED
  BY <1>2, <1>3 DEF Rest

LEMMA RestPushed ==
  ASSUME NEW S, NEW s \in Seq(S), NEW h \in 0 .. Len(s), NEW v \in S
  PROVE  Rest(Append(s, v), h) = Append(Rest(s, h), v)
<1> DEFINE a == Append(s, v)
           n == Len(s)
           r == Rest(s, h)
<1>1. n \in Nat /\ \A i \in h + 1 .. n : s[i] \in S
  BY ElementOfSeq, LenProperties
<1>2. a \in Seq(S) /\ Len(a) = n + 1 /\ (\A i \in 1 .. n : a[i] = s[i]) /\ a[n + 1] = v
  BY AppendProperties
<1>3. \A i \in h + 1 .. n + 1 : a[i] \in S
  BY <1>1, <1>2
<1>4. /\ r \in Seq(S) /\ Len(r) = n - h
      /\ \A i \in 1 .. n - h : r[i] = s[h + i]
  <2>1. /\ SubSeq(s, h + 1, n) \in Seq(S)
        /\ Len(SubSeq(s, h + 1, n)) = IF h + 1 <= n THEN n - (h + 1) + 1 ELSE 0
        /\ \A i \in 1 .. n - (h + 1) + 1 : SubSeq(s, h + 1, n)[i] = s[h + 1 + i - 1]
    BY <1>1, SubSeqProperties
  <2> QED
    BY <1>1, <2>1 DEF Rest
<1>5. /\ Rest(a, h) \in Seq(S) /\ Len(Rest(a, h)) = n + 1 - h
      /\ \A i \in 1 .. n + 1 - h : Rest(a, h)[i] = a[h + i]
  <2>1. /\ SubSeq(a, h + 1, n + 1) \in Seq(S)
        /\ Len(SubSeq(a, h + 1, n + 1)) = IF h + 1 <= n + 1 THEN n + 1 - (h + 1) + 1 ELSE 0
        /\ \A i \in 1 .. n + 1 - (h + 1) + 1 : SubSeq(a, h + 1, n + 1)[i] = a[h + 1 + i - 1]
    BY <1>1, <1>3, SubSeqProperties
  <2>2. Rest(a, h) = SubSeq(a, h + 1, n + 1)
    BY <1>2 DEF Rest
  <2>3. h \in 0 .. n
    OBVIOUS
  <2> HIDE DEF a, n, r
  <2>4. Len(Rest(a, h)) = n + 1 - h
    BY <1>1, <2>1, <2>2, <2>3
  <2>5. \A i \in 1 .. n + 1 - h : Rest(a, h)[i] = a[h + i]
    <3> SUFFICES ASSUME NEW i \in 1 .. n + 1 - h PROVE Rest(a, h)[i] = a[h + i]
      OBVIOUS
    <3>1. i \in 1 .. n + 1 - (h + 1) + 1 /\ h + 1 + i - 1 = h + i
      BY <1>1, <2>3
    <3> QED
      BY <2>1, <2>2, <3>1
  <2> QED
    BY <2>1, <2>2, <2>4, <2>5
<1>6. /\ Append(r, v) \in Seq(S) /\ Len(Append(r, v)) = n - h + 1
      /\ \A i \in 1 .. n - h : Append(r, v)[i] = r[i]
      /\ Append(r, v)[n - h + 1] = v
  BY <1>4, AppendProperties
<1> HIDE DEF a, n, r
<1>7. \A i \in 1 .. n + 1 - h : Rest(a, h)[i] = Append(r, v)[i]
  <2> SUFFICES ASSUME NEW i \in 1 .. n + 1 - h PROVE Rest(a, h)[i] = Append(r, v)[i]
    OBVIOUS
  <2>1. CASE i = n + 1 - h
    <3>1. Rest(a, h)[i] = a[n + 1]
      BY <1>1, <1>5, <2>1
    <3> QED
      BY <1>1, <1>2, <1>6, <2>1, <3>1
  <2>2. CASE i # n + 1 - h
    <3>1. i \in 1 .. n - h /\ h + i \in 1 .. n
      BY <1>1, <2>2
    <3> QED
      BY <1>2, <1>4, <1>5, <1>6, <3>1
  <2> QED
    BY <2>1, <2>2
<1>8. Len(Rest(a, h)) = Len(Append(r, v))
  BY <1>1, <1>5, <1>6
<1>9. Rest(a, h) = Append(r, v)
  BY <1>5, <1>6, <1>7, <1>8, SeqEqual
<1> QED
  BY <1>9 DEF a, r

LEMMA RestSpared ==
  ASSUME NEW S, NEW s \in Seq(S), NEW h \in 0 .. Len(s), NEW n \in 1 .. h, NEW v \in S
  PROVE  Rest([s EXCEPT ![n] = v], h) = Rest(s, h)
<1> DEFINE e == [s EXCEPT ![n] = v]
           m == Len(s)
<1>1. m \in Nat /\ \A i \in h + 1 .. m : s[i] \in S
  BY ElementOfSeq, LenProperties
<1>2. e \in Seq(S) /\ Len(e) = m /\ \A j \in 1 .. m : e[j] = IF j = n THEN v ELSE s[j]
  <2>1. n \in 1 .. Len(s)
    BY <1>1
  <2> QED
    BY <2>1, ExceptSeq
<1> HIDE DEF e, m
<1>3. \A i \in h + 1 .. m : e[i] = s[i] /\ e[i] \in S
  BY <1>1, <1>2
<1>4. /\ SubSeq(s, h + 1, m) \in Seq(S)
      /\ Len(SubSeq(s, h + 1, m)) = IF h + 1 <= m THEN m - (h + 1) + 1 ELSE 0
      /\ \A i \in 1 .. m - (h + 1) + 1 : SubSeq(s, h + 1, m)[i] = s[h + 1 + i - 1]
  BY <1>1, SubSeqProperties
<1>5. /\ SubSeq(e, h + 1, m) \in Seq(S)
      /\ Len(SubSeq(e, h + 1, m)) = IF h + 1 <= m THEN m - (h + 1) + 1 ELSE 0
      /\ \A i \in 1 .. m - (h + 1) + 1 : SubSeq(e, h + 1, m)[i] = e[h + 1 + i - 1]
  BY <1>1, <1>3, SubSeqProperties
<1>6. \A i \in 1 .. m - (h + 1) + 1 : h + 1 + i - 1 \in h + 1 .. m
  BY <1>1
<1>7. \A i \in 1 .. Len(SubSeq(e, h + 1, m)) : SubSeq(e, h + 1, m)[i] = SubSeq(s, h + 1, m)[i]
  BY <1>1, <1>3, <1>4, <1>5, <1>6
<1>8. SubSeq(e, h + 1, m) = SubSeq(s, h + 1, m)
  BY <1>4, <1>5, <1>7, SeqEqual
<1> QED
  BY <1>2, <1>8 DEF Rest, e, m
----------------------------------------------------------------------------
\* The invariant is kept.

LEMMA QueueStarts == QueueInit => QueueInv
<1> SUFFICES ASSUME QueueInit PROVE QueueInv
  OBVIOUS
<1>1. Ordered
  BY EmptySeq DEF QueueInit, Ordered
<1>2. Loaded
  BY DEF QueueInit, Loaded, Places, Entries, Null
<1>3. TakesApart /\ Watching
  BY DEF QueueInit, TakesApart, Watching, Popping
<1>4. ASSUME NEW t \in Clients PROVE PushLoads(t) /\ PopLoads(t)
  BY DEF QueueInit, PushLoads, PopLoads, ReadTail, ReadHead, ReadBoth, ReadNext
<1> QED
  BY <1>1, <1>2, <1>3, <1>4 DEF QueueInv

\* The rest of the system stays where it is while t moves.
OthersWait(t) ==
  \A u \in Clients \ {t} : /\ pc'[u] = pc[u] /\ oldHead'[u] = oldHead[u]
                           /\ oldTail'[u] = oldTail[u] /\ oldNext'[u] = oldNext[u]

\* The pointers only ever move forward, and the chain only grows.
Forward == head <= head' /\ tail <= tail' /\ Len(chain) <= Len(chain')

\* What another thread has read stays old as the pointers move on.
LEMMA OthersUndisturbed ==
  ASSUME QueueInv, Ordered', Loaded', Watched, Forward,
         NEW t \in Clients, OthersWait(t), NEW u \in Clients, u # t
  PROVE  (PushLoads(u) /\ PopLoads(u))'
<1>1. /\ pc'[u] = pc[u] /\ oldHead'[u] = oldHead[u]
      /\ oldTail'[u] = oldTail[u] /\ oldNext'[u] = oldNext[u]
  BY DEF OthersWait
<1>2. /\ oldHead[u] \in Nat /\ oldTail[u] \in Nat /\ oldNext[u] \in Nat
      /\ head \in Nat /\ tail \in Nat /\ head' \in Nat /\ tail' \in Nat
      /\ Len(chain) \in Nat /\ Len(chain') \in Nat
  BY LenProperties DEF QueueInv, Loaded, Ordered
<1>3. PushLoads(u) /\ PopLoads(u)
  BY DEF QueueInv
<1>4. PushLoads(u)'
  BY <1>1, <1>2, <1>3 DEF PushLoads, Forward, Follows, ReadTail, Null
<1>5. pc[u] = "popCheck" /\ u \in sawEmpty => u \in sawEmpty'
  BY <1>1 DEF Watched, Popping
<1>6. pc[u] = "popCheck" => pc[u] \in ReadHead
  BY DEF ReadHead
<1>7. PopLoads(u)'
  BY <1>1, <1>2, <1>3, <1>5, <1>6 DEF PopLoads, Forward, Follows, ReadHead, ReadBoth, ReadNext, Null
<1> QED
  BY <1>4, <1>7

\* A step of t keeps the invariant if it keeps t's own part of it.
LEMMA StepKeeps ==
  ASSUME QueueInv, Ordered', Loaded', Watched, Forward,
         NEW t \in Clients, OthersWait(t), (PushLoads(t) /\ PopLoads(t))',
         pc'[t] = "popTake" =>
           \A u \in Clients \ {t} : pc[u] = "popTake" => oldNext'[t] # oldNext[u]
  PROVE  QueueInv'
<1>1. \A u \in Clients : (PushLoads(u) /\ PopLoads(u))'
  BY OthersUndisturbed
<1>2. TakesApart'
  BY DEF TakesApart, QueueInv, OthersWait
<1>3. Watching'
  <2>1. \A u \in sawEmpty' : u \in Clients /\ pc'[u] \in Popping
    BY DEF Watched
  <2>2. ASSUME head' = Len(chain') PROVE Items' = <<>>
    <3>1. head' \in 0 .. Len(chain') /\ chain' \in Seq(Entries)
      BY <2>2, LenProperties DEF Ordered, Entries, Values
    <3>2. Rest(chain', head') = <<>>
      BY <2>2, <3>1, RestEmpty
    <3> QED
      BY <3>2 DEF Items, Rest
  <2> QED
    BY <2>1, <2>2 DEF Watching, Watched
<1> QED
  BY <1>1, <1>2, <1>3 DEF QueueInv
\* Steps that only read, or call: the shared pointers stay.
LEMMA ReadKeeps ==
  ASSUME QueueInv, Watched, NEW t \in Clients, UNCHANGED <<chain, head, tail>>,
         NEW there \in Places \ {"popTake"}, pc' = [pc EXCEPT ![t] = there],
         value' \in [Clients -> Entries],
         NEW h \in Nat, oldHead' = [oldHead EXCEPT ![t] = h],
         NEW l \in Nat, oldTail' = [oldTail EXCEPT ![t] = l],
         NEW n \in Nat, oldNext' = [oldNext EXCEPT ![t] = n],
         (PushLoads(t) /\ PopLoads(t))'
  PROVE  QueueInv'
<1>1. Ordered'
  BY DEF QueueInv, Ordered, Entries, Values
<1>2. Loaded'
  BY DEF QueueInv, Loaded
<1>3. OthersWait(t)
  BY DEF QueueInv, Loaded, OthersWait
<1>4. Forward
  BY LenProperties DEF QueueInv, Ordered, Forward
<1>5. pc'[t] = there
  BY DEF QueueInv, Loaded
<1> QED
  BY <1>1, <1>2, <1>3, <1>4, <1>5, StepKeeps

\* The values a call starts or ends with are entries.
LEMMA EntriesAre == None \in Entries /\ \A t \in Pushers : \A v \in Brings[t] : v \in Entries
  BY DEF Entries, Values

LEMMA CallsKeep ==
  ASSUME QueueInv, Watched, NEW t \in Clients,
         (\E v \in Values : CallPush(t, v)) \/ CallPop(t) \/ PushCount(t) \/ PopCount(t) \/ PopNone(t)
  PROVE  QueueInv'
<1> USE DEF Places, Pushing, Popping, ReadTail, ReadHead, ReadBoth, ReadNext, Null
<1>1. Loaded
  BY DEF QueueInv
<1>2. CASE \E v \in Values : CallPush(t, v)
  <2>1. /\ pc' = [pc EXCEPT ![t] = "pushTail"] /\ value' \in [Clients -> Entries]
        /\ UNCHANGED <<chain, head, tail, oldHead, oldTail, oldNext>>
    BY <1>1, <1>2, EntriesAre DEF CallPush, Steps, shared, loaded, Loaded
  <2>2. (PushLoads(t) /\ PopLoads(t))'
    BY <1>1, <2>1 DEF PushLoads, PopLoads, Loaded
  <2>3. /\ oldHead' = [oldHead EXCEPT ![t] = oldHead[t]] /\ oldHead[t] \in Nat
        /\ oldTail' = [oldTail EXCEPT ![t] = oldTail[t]] /\ oldTail[t] \in Nat
        /\ oldNext' = [oldNext EXCEPT ![t] = oldNext[t]] /\ oldNext[t] \in Nat
    BY <1>1, <2>1 DEF Loaded
  <2> QED
    BY <2>1, <2>2, <2>3, ReadKeeps
<1>3. CASE CallPop(t)
  <2>1. /\ pc' = [pc EXCEPT ![t] = "popHead"] /\ value' \in [Clients -> Entries]
        /\ UNCHANGED <<chain, head, tail, oldHead, oldTail, oldNext>>
    BY <1>1, <1>3 DEF CallPop, Steps, shared, loaded, Loaded
  <2>2. (PushLoads(t) /\ PopLoads(t))'
    BY <1>1, <2>1 DEF PushLoads, PopLoads, Loaded
  <2>3. /\ oldHead' = [oldHead EXCEPT ![t] = oldHead[t]] /\ oldHead[t] \in Nat
        /\ oldTail' = [oldTail EXCEPT ![t] = oldTail[t]] /\ oldTail[t] \in Nat
        /\ oldNext' = [oldNext EXCEPT ![t] = oldNext[t]] /\ oldNext[t] \in Nat
    BY <1>1, <2>1 DEF Loaded
  <2> QED
    BY <2>1, <2>2, <2>3, ReadKeeps
<1>4. CASE PushCount(t) \/ PopCount(t) \/ PopNone(t)
  <2>1. /\ pc' = [pc EXCEPT ![t] = "idle"] /\ value' \in [Clients -> Entries]
        /\ oldHead' = [oldHead EXCEPT ![t] = 0] /\ oldTail' = [oldTail EXCEPT ![t] = 0]
        /\ oldNext' = [oldNext EXCEPT ![t] = 0]
        /\ UNCHANGED <<chain, head, tail>>
    BY <1>1, <1>4, EntriesAre DEF PushCount, PopCount, PopNone, Forgets, Steps, shared, Loaded
  <2>2. (PushLoads(t) /\ PopLoads(t))'
    BY <1>1, <2>1 DEF PushLoads, PopLoads, Loaded
  <2> QED
    BY <2>1, <2>2, ReadKeeps
<1> QED
  BY <1>2, <1>3, <1>4
\* The loads and the checks of push.
LEMMA PushReadsKeep ==
  ASSUME QueueInv, Watched, NEW t \in Clients, PushLoadTail(t) \/ PushLoadNext(t) \/ PushCheck(t) \/ PushLoses(t)
  PROVE  QueueInv'
<1> USE DEF Places, Pushing, Popping, ReadTail, ReadHead, ReadBoth, ReadNext, Null
<1>1. Loaded /\ Ordered /\ PushLoads(t) /\ Len(chain) \in Nat
  BY LenProperties DEF QueueInv, Ordered
<1>2. /\ oldHead[t] \in Nat /\ oldTail[t] \in Nat /\ oldNext[t] \in Nat
      /\ oldHead = [oldHead EXCEPT ![t] = oldHead[t]]
      /\ oldTail = [oldTail EXCEPT ![t] = oldTail[t]]
      /\ oldNext = [oldNext EXCEPT ![t] = oldNext[t]]
  BY <1>1 DEF Loaded
<1>3. CASE PushLoadTail(t)
  <2>1. /\ pc' = [pc EXCEPT ![t] = "pushNext"] /\ value' \in [Clients -> Entries]
        /\ oldTail' = [oldTail EXCEPT ![t] = tail] /\ tail \in Nat
        /\ UNCHANGED <<chain, head, tail, oldHead, oldNext>>
    BY <1>1, <1>3 DEF PushLoadTail, Steps, shared, Loaded, Ordered
  <2>2. (PushLoads(t) /\ PopLoads(t))'
    BY <1>1, <2>1 DEF PushLoads, PopLoads, Loaded
  <2> QED
    BY <1>2, <2>1, <2>2, ReadKeeps
<1>4. CASE PushLoadNext(t)
  <2>1. /\ pc[t] = "pushNext" /\ pc' = [pc EXCEPT ![t] = "pushCheck"]
        /\ value' \in [Clients -> Entries]
        /\ oldNext' = [oldNext EXCEPT ![t] = NextOf(oldTail[t])]
        /\ UNCHANGED <<chain, head, tail, oldHead, oldTail>>
    BY <1>1, <1>4 DEF PushLoadNext, Steps, shared, Loaded
  <2>2. NextOf(oldTail[t]) \in Nat /\ Follows(NextOf(oldTail[t]), oldTail[t])
    BY <1>1, <1>2 DEF NextOf, Follows
  <2>3. (PushLoads(t) /\ PopLoads(t))'
    BY <1>1, <1>2, <2>1, <2>2 DEF PushLoads, PopLoads, Loaded, Follows
  <2> QED
    BY <1>2, <2>1, <2>2, <2>3, ReadKeeps
<1>5. CASE PushCheck(t)
  <2>1. PICK there \in {"pushTail", "pushLink", "pushHelp"} :
          /\ pc[t] = "pushCheck" /\ pc' = [pc EXCEPT ![t] = there]
          /\ there = "pushHelp" => oldNext[t] # Null
          /\ value' \in [Clients -> Entries]
          /\ UNCHANGED <<chain, head, tail, oldHead, oldTail, oldNext>>
    BY <1>1, <1>5 DEF PushCheck, Chooses, shared, loaded, Loaded
  <2>2. (PushLoads(t) /\ PopLoads(t))'
    BY <1>1, <2>1 DEF PushLoads, PopLoads, Loaded, Follows
  <2> QED
    BY <1>2, <2>1, <2>2, ReadKeeps
<1>6. CASE PushLoses(t)
  <2>1. /\ pc' = [pc EXCEPT ![t] = "pushTail"] /\ value' \in [Clients -> Entries]
        /\ UNCHANGED <<chain, head, tail, oldHead, oldTail, oldNext>>
    BY <1>1, <1>6 DEF PushLoses, Steps, shared, loaded, Loaded
  <2>2. (PushLoads(t) /\ PopLoads(t))'
    BY <1>1, <2>1 DEF PushLoads, PopLoads, Loaded
  <2> QED
    BY <1>2, <2>1, <2>2, ReadKeeps
<1> QED
  BY <1>3, <1>4, <1>5, <1>6

\* The loads and the checks of pop.
LEMMA PopReadsKeep ==
  ASSUME QueueInv, Watched, NEW t \in Clients,
         PopLoadHead(t) \/ PopLoadTail(t) \/ PopLoadNext(t) \/ PopCheck(t) \/ PopLoses(t)
  PROVE  QueueInv'
<1> USE DEF Places, Pushing, Popping, ReadTail, ReadHead, ReadBoth, ReadNext, Null
<1>1. Loaded /\ Ordered /\ PopLoads(t) /\ Len(chain) \in Nat
  BY LenProperties DEF QueueInv, Ordered
<1>2. /\ oldHead[t] \in Nat /\ oldTail[t] \in Nat /\ oldNext[t] \in Nat
      /\ oldHead = [oldHead EXCEPT ![t] = oldHead[t]]
      /\ oldTail = [oldTail EXCEPT ![t] = oldTail[t]]
      /\ oldNext = [oldNext EXCEPT ![t] = oldNext[t]]
  BY <1>1 DEF Loaded
<1>3. CASE PopLoadHead(t)
  <2>1. /\ pc' = [pc EXCEPT ![t] = "popTail"] /\ value' \in [Clients -> Entries]
        /\ oldHead' = [oldHead EXCEPT ![t] = head] /\ head \in Nat
        /\ UNCHANGED <<chain, head, tail, oldTail, oldNext>>
    BY <1>1, <1>3 DEF PopLoadHead, Steps, shared, Loaded, Ordered
  <2>2. (PushLoads(t) /\ PopLoads(t))'
    BY <1>1, <2>1 DEF PushLoads, PopLoads, Loaded
  <2> QED
    BY <1>2, <2>1, <2>2, ReadKeeps
<1>4. CASE PopLoadTail(t)
  <2>1. /\ pc[t] = "popTail" /\ pc' = [pc EXCEPT ![t] = "popNext"]
        /\ value' \in [Clients -> Entries]
        /\ oldTail' = [oldTail EXCEPT ![t] = tail] /\ tail \in Nat
        /\ UNCHANGED <<chain, head, tail, oldHead, oldNext>>
    BY <1>1, <1>4 DEF PopLoadTail, Steps, shared, Loaded, Ordered
  <2>2. oldHead[t] <= head /\ head <= tail /\ head \in Nat
    BY <1>1, <2>1 DEF PopLoads, Ordered
  <2>3. (PushLoads(t) /\ PopLoads(t))'
    BY <1>1, <1>2, <2>1, <2>2 DEF PushLoads, PopLoads, Loaded
  <2> QED
    BY <1>2, <2>1, <2>3, ReadKeeps
<1>5. CASE PopLoadNext(t)
  <2>1. /\ pc[t] = "popNext" /\ pc' = [pc EXCEPT ![t] = "popCheck"]
        /\ value' \in [Clients -> Entries]
        /\ oldNext' = [oldNext EXCEPT ![t] = NextOf(oldHead[t])]
        /\ UNCHANGED <<chain, head, tail, oldHead, oldTail>>
    BY <1>1, <1>5 DEF PopLoadNext, Steps, shared, Loaded
  <2>2. /\ NextOf(oldHead[t]) \in Nat /\ Follows(NextOf(oldHead[t]), oldHead[t])
        /\ NextOf(oldHead[t]) = Null => oldHead[t] >= Len(chain)
    BY <1>1, <1>2 DEF NextOf, Follows
  <2>3. ASSUME oldHead[t] >= Len(chain), oldHead[t] = head PROVE t \in sawEmpty'
    <3>1. head = Len(chain)
      BY <1>1, <2>3 DEF Ordered
    <3>2. t \in sawEmpty
      BY <2>1, <3>1 DEF QueueInv, Watching
    <3>3. pc'[t] = "popCheck"
      BY <1>1, <2>1 DEF Loaded
    <3> QED
      BY <3>2, <3>3 DEF Watched
  <2>4. oldHead[t] <= head /\ oldHead[t] <= oldTail[t] /\ oldTail[t] <= tail
    BY <1>1, <2>1 DEF PopLoads
  <2>5. /\ pc'[t] = "popCheck" /\ oldNext'[t] = NextOf(oldHead[t])
        /\ oldHead'[t] = oldHead[t] /\ oldTail'[t] = oldTail[t]
    BY <1>1, <2>1 DEF Loaded
  <2>6. PushLoads(t)'
    BY <2>5 DEF PushLoads
  <2>7. PopLoads(t)'
    BY <1>2, <2>1, <2>2, <2>3, <2>4, <2>5 DEF PopLoads, Follows
  <2> QED
    BY <1>2, <2>1, <2>2, <2>6, <2>7, ReadKeeps
<1>6. CASE PopCheck(t)
  <2>1. PICK there \in {"popHead", "none", "popHelp", "popSwing"} :
          /\ pc[t] = "popCheck" /\ pc' = [pc EXCEPT ![t] = there]
          /\ there \in {"popHelp", "popSwing"} => oldNext[t] # Null
          /\ there = "popHelp" => oldHead[t] = oldTail[t]
          /\ there = "popSwing" => oldHead[t] # oldTail[t]
          /\ value' \in [Clients -> Entries]
          /\ UNCHANGED <<chain, head, tail, oldHead, oldTail, oldNext>>
    BY <1>1, <1>6 DEF PopCheck, Chooses, shared, loaded, Loaded
  <2>2. pc'[t] = there
    BY <1>1, <2>1 DEF Loaded
  <2>3. (PushLoads(t) /\ PopLoads(t))'
    BY <1>1, <2>1, <2>2 DEF PushLoads, PopLoads, Follows
  <2> QED
    BY <1>2, <2>1, <2>3, ReadKeeps
<1>7. CASE PopLoses(t)
  <2>1. /\ pc' = [pc EXCEPT ![t] = "popHead"] /\ value' \in [Clients -> Entries]
        /\ UNCHANGED <<chain, head, tail, oldHead, oldTail, oldNext>>
    BY <1>1, <1>7 DEF PopLoses, Steps, shared, loaded, Loaded
  <2>2. (PushLoads(t) /\ PopLoads(t))'
    BY <1>1, <2>1 DEF PushLoads, PopLoads, Loaded
  <2> QED
    BY <1>2, <2>1, <2>2, ReadKeeps
<1> QED
  BY <1>3, <1>4, <1>5, <1>6, <1>7
\* The steps that change the list, one by one.  A push that has not lost its
\* compare-exchange has the very last node, so it appends.
LEMMA LinkAppends ==
  ASSUME QueueInv, NEW t \in Clients, PushLink(t)
  PROVE  /\ oldTail[t] = Len(chain) /\ chain' = Append(chain, value[t])
         /\ value[t] \in Entries /\ Len(chain') = Len(chain) + 1 /\ chain' \in Seq(Entries)
<1>1. /\ chain \in Seq(Entries) /\ Len(chain) \in Nat /\ tail \in Nat /\ tail <= Len(chain)
      /\ value[t] \in Entries /\ oldTail[t] \in Nat
  BY LenProperties DEF QueueInv, Ordered, Loaded
<1>2. oldTail[t] <= tail /\ ~(oldTail[t] < Len(chain))
  BY <1>1 DEF QueueInv, PushLoads, ReadTail, PushLink, Steps, StillLast, NextOf, Null
<1>3. oldTail[t] = Len(chain)
  BY <1>1, <1>2
<1>4. chain' = Append(chain, value[t])
  BY <1>1, <1>3, SubSeqFull DEF PushLink
<1> QED
  BY <1>1, <1>3, <1>4, AppendProperties

LEMMA LinkKeeps ==
  ASSUME QueueInv, Watched, NEW t \in Clients, PushLink(t)
  PROVE  QueueInv'
<1> USE DEF Places, Pushing, Popping, ReadTail, ReadHead, ReadBoth, ReadNext, Null
<1>1. Loaded /\ Ordered /\ PushLoads(t) /\ Len(chain) \in Nat
  BY LenProperties DEF QueueInv, Ordered
<1>2. /\ pc[t] = "pushLink" /\ pc' = [pc EXCEPT ![t] = "pushSwing"]
      /\ UNCHANGED <<head, tail, value, oldHead, oldTail, oldNext>>
  BY DEF PushLink, Steps, loaded
<1>3. /\ oldTail[t] = Len(chain) /\ Len(chain') = Len(chain) + 1 /\ chain' \in Seq(Entries)
      /\ oldTail[t] <= tail
  BY <1>1, <1>2, LinkAppends DEF PushLoads
<1>4. Ordered' /\ Forward
  BY <1>1, <1>2, <1>3 DEF Ordered, Forward, Entries, Values
<1>5. Loaded' /\ OthersWait(t)
  BY <1>1, <1>2 DEF Loaded, OthersWait, Entries, Values
<1>6. pc'[t] = "pushSwing" /\ oldTail'[t] = Len(chain)
  BY <1>1, <1>2, <1>3 DEF Loaded
<1>7. (PushLoads(t) /\ PopLoads(t))'
  BY <1>1, <1>2, <1>3, <1>6 DEF PushLoads, PopLoads
<1> QED
  BY <1>4, <1>5, <1>6, <1>7, StepKeeps

LEMMA SwingKeeps ==
  ASSUME QueueInv, Watched, NEW t \in Clients, PushSwing(t) \/ PushHelp(t) \/ PopHelp(t)
  PROVE  QueueInv'
<1> USE DEF Places, Pushing, Popping, ReadTail, ReadHead, ReadBoth, ReadNext, Null
<1>1. /\ Loaded /\ Ordered /\ PushLoads(t) /\ PopLoads(t) /\ Len(chain) \in Nat
      /\ oldHead[t] \in Nat /\ oldTail[t] \in Nat /\ oldNext[t] \in Nat
  BY LenProperties DEF QueueInv, Ordered, Loaded
<1>2. PICK new \in {oldTail[t] + 1, oldNext[t]}, there \in {"pushCount", "pushTail", "popHead"} :
        /\ new = oldTail[t] + 1 /\ new <= Len(chain)
        /\ pc' = [pc EXCEPT ![t] = there] /\ SwingTail(oldTail[t], new)
        /\ UNCHANGED <<chain, head, value, oldHead, oldTail, oldNext>>
  <2>1. CASE PushSwing(t)
    <3>1. oldTail[t] + 1 <= Len(chain)
      BY <1>1, <2>1 DEF PushSwing, Steps, PushLoads
    <3> QED
      BY <2>1, <3>1 DEF PushSwing, Steps, loaded
  <2>2. CASE PushHelp(t)
    <3>1. oldNext[t] = oldTail[t] + 1 /\ oldNext[t] <= Len(chain)
      BY <1>1, <2>2 DEF PushHelp, Steps, PushLoads, Follows
    <3> QED
      BY <2>2, <3>1 DEF PushHelp, Steps, loaded
  <2>3. CASE PopHelp(t)
    <3>1. oldNext[t] = oldTail[t] + 1 /\ oldNext[t] <= Len(chain)
      BY <1>1, <2>3 DEF PopHelp, Steps, PopLoads, Follows
    <3> QED
      BY <2>3, <3>1 DEF PopHelp, Steps, loaded
  <2> QED
    BY <2>1, <2>2, <2>3
<1>3. tail' \in Nat /\ tail <= tail' /\ tail' <= Len(chain)
  BY <1>1, <1>2 DEF SwingTail, Ordered
<1>4. Ordered' /\ Forward
  BY <1>1, <1>2, <1>3 DEF Ordered, Forward, Entries, Values
<1>5. Loaded' /\ OthersWait(t)
  BY <1>1, <1>2 DEF Loaded, OthersWait, Entries, Values
<1>6. pc'[t] = there
  BY <1>1, <1>2 DEF Loaded
<1>7. (PushLoads(t) /\ PopLoads(t))'
  BY <1>2, <1>6 DEF PushLoads, PopLoads
<1> QED
  BY <1>2, <1>4, <1>5, <1>6, <1>7, StepKeeps

LEMMA WinKeeps ==
  ASSUME QueueInv, Watched, NEW t \in Clients, PopWins(t)
  PROVE  QueueInv'
<1> USE DEF Places, Pushing, Popping, ReadTail, ReadHead, ReadBoth, ReadNext, Null
<1>1. /\ Loaded /\ Ordered /\ PopLoads(t) /\ Len(chain) \in Nat
      /\ oldHead[t] \in Nat /\ oldTail[t] \in Nat /\ oldNext[t] \in Nat
  BY LenProperties DEF QueueInv, Ordered, Loaded
<1>2. /\ pc[t] = "popSwing" /\ pc' = [pc EXCEPT ![t] = "popTake"] /\ head' = oldNext[t]
      /\ head = oldHead[t]
      /\ UNCHANGED <<chain, tail, value, oldHead, oldTail, oldNext>>
  BY DEF PopWins, Steps, StillFirst, loaded
<1>3. /\ oldNext[t] = head + 1 /\ oldNext[t] <= Len(chain)
      /\ oldHead[t] <= oldTail[t] /\ oldTail[t] <= tail /\ oldTail[t] # oldHead[t]
  BY <1>1, <1>2 DEF PopLoads, Follows
<1>4. Ordered' /\ Forward
  BY <1>1, <1>2, <1>3 DEF Ordered, Forward, Entries, Values
<1>5. Loaded' /\ OthersWait(t)
  BY <1>1, <1>2 DEF Loaded, OthersWait, Entries, Values
<1>6. pc'[t] = "popTake" /\ oldNext'[t] = oldNext[t]
  BY <1>1, <1>2 DEF Loaded
<1>7. (PushLoads(t) /\ PopLoads(t))'
  BY <1>1, <1>2, <1>3, <1>6 DEF PushLoads, PopLoads, Ordered
<1>8. ASSUME NEW u \in Clients \ {t}, pc[u] = "popTake" PROVE oldNext'[t] # oldNext[u]
  <2>1. oldNext[u] <= head /\ oldNext[u] \in Nat /\ head \in Nat
    BY <1>1, <1>8 DEF QueueInv, PopLoads, Loaded, Ordered
  <2> QED
    BY <1>3, <1>6, <2>1
<1> QED
  BY <1>4, <1>5, <1>6, <1>7, <1>8, StepKeeps

LEMMA TakeKeeps ==
  ASSUME QueueInv, Watched, NEW t \in Clients, PopTake(t)
  PROVE  QueueInv'
<1> USE DEF Places, Pushing, Popping, ReadTail, ReadHead, ReadBoth, ReadNext, Null
<1>1. /\ Loaded /\ Ordered /\ PopLoads(t) /\ Len(chain) \in Nat
      /\ oldNext[t] \in Nat /\ chain \in Seq(Entries)
  BY LenProperties DEF QueueInv, Ordered, Loaded
<1>2. /\ pc[t] = "popTake" /\ pc' = [pc EXCEPT ![t] = "popCount"]
      /\ value' = [value EXCEPT ![t] = chain[oldNext[t]]]
      /\ chain' = [chain EXCEPT ![oldNext[t]] = None]
      /\ UNCHANGED <<head, tail, oldHead, oldTail, oldNext>>
  BY DEF PopTake, Steps, loaded
<1>3. oldNext[t] \in 1 .. Len(chain)
  BY <1>1, <1>2 DEF PopLoads, Ordered
<1>4. chain' \in Seq(Entries) /\ Len(chain') = Len(chain) /\ chain[oldNext[t]] \in Entries
  BY <1>1, <1>2, <1>3, ExceptSeq, ElementOfSeq, EntriesAre
<1>5. Ordered' /\ Forward
  BY <1>1, <1>2, <1>4 DEF Ordered, Forward, Entries, Values
<1>6. Loaded' /\ OthersWait(t)
  BY <1>1, <1>2, <1>4 DEF Loaded, OthersWait, Entries, Values
<1>7. pc'[t] = "popCount"
  BY <1>1, <1>2 DEF Loaded
<1>8. (PushLoads(t) /\ PopLoads(t))'
  BY <1>7 DEF PushLoads, PopLoads
<1> QED
  BY <1>5, <1>6, <1>7, <1>8, StepKeeps

\* A state that does not change keeps everything.
LEMMA PauseKeeps == QueueInv /\ UNCHANGED queueVars => QueueInv'
  BY DEF QueueInv, queueVars, shared, loaded, Ordered, Loaded, TakesApart, Watching, PushLoads, PopLoads,
         Follows, Entries, Values

LEMMA QueueInvKept == QueueInv /\ [QueueNext]_queueVars => QueueInv'
<1>1. ASSUME QueueInv, Watched, NEW t \in Clients, Push(t) PROVE QueueInv'
  BY <1>1, CallsKeep, PushReadsKeep, LinkKeeps, SwingKeeps DEF Push
<1>2. ASSUME QueueInv, Watched, NEW t \in Clients, Pop(t) PROVE QueueInv'
  BY <1>2, CallsKeep, PopReadsKeep, WinKeeps, TakeKeeps, SwingKeeps DEF Pop
<1> QED
  BY <1>1, <1>2, PauseKeeps DEF QueueNext

\* The invariant holds throughout.
THEOREM PointersStayInOrder == QueueSpec => []QueueInv
  BY QueueStarts, QueueInvKept, PTL DEF QueueSpec
----------------------------------------------------------------------------
\* The refinement.

Calls == [t \in Clients |-> CallOf(t)]

\* CallOf, of a there, a value and the entry of the node that is read.
CallAt(p, v, c) ==
  CASE p = "idle" -> [op |-> "idle", value |-> None]
    [] p \in Pushing -> [op |-> "push", value |-> v]
    [] p \in Popping -> [op |-> "pop", value |-> None]
    [] p = "popTake" -> [op |-> "done", value |-> c]
    [] p = "popCount" -> [op |-> "done", value |-> v]
    [] OTHER -> [op |-> "done", value |-> None]

LEMMA CallOfIs ==
  \A t : /\ CallOf(t) = CallAt(pc[t], value[t], chain[oldNext[t]])
         /\ CallOf(t)' = CallAt(pc'[t], value'[t], chain'[oldNext'[t]])
  BY DEF CallOf, CallAt

LEMMA CallTable ==
  ASSUME NEW v, NEW c
  PROVE  /\ CallAt("idle", v, c) = [op |-> "idle", value |-> None]
         /\ \A p \in Pushing : CallAt(p, v, c) = [op |-> "push", value |-> v]
         /\ \A p \in Popping : CallAt(p, v, c) = [op |-> "pop", value |-> None]
         /\ CallAt("popTake", v, c) = [op |-> "done", value |-> c]
         /\ CallAt("popCount", v, c) = [op |-> "done", value |-> v]
         /\ \A p \in {"none", "pushSwing", "pushCount"} :
               CallAt(p, v, c) = [op |-> "done", value |-> None]
  BY DEF CallAt, Pushing, Popping

LEMMA PopsArePops ==
  ASSUME NEW p \in Places, NEW v, NEW c
  PROVE  CallAt(p, v, c).op = "pop" <=> p \in Popping
<1>1. CASE p \in Popping
  <2>1. CallAt(p, v, c) = [op |-> "pop", value |-> None]
    BY <1>1, CallTable DEF Popping
  <2> QED
    BY <1>1, <2>1
<1>2. CASE p \in Pushing
  <2>1. p \notin Popping
    BY <1>2 DEF Pushing, Popping
  <2>2. CallAt(p, v, c) = [op |-> "push", value |-> v]
    BY <1>2, CallTable
  <2> QED
    BY <2>1, <2>2
<1>3. CASE p \in {"idle", "none", "pushSwing", "pushCount", "popTake", "popCount"}
  <2>1. p \notin Popping
    BY <1>3 DEF Popping
  <2>2. CallAt(p, v, c).op \in {"idle", "done"}
    BY <1>3, CallTable
  <2> QED
    BY <2>1, <2>2
<1> QED
  BY <1>1, <1>2, <1>3 DEF Places

\* Only a pop about to take its value looks at a node.
LEMMA NodeMatters ==
  ASSUME NEW p \in Places \ {"popTake"}, NEW v, NEW c, NEW d
  PROVE  CallAt(p, v, c) = CallAt(p, v, d)
  BY DEF CallAt

\* A step of t moves t's call alone.
LEMMA OneCallMoves ==
  ASSUME QueueInv, NEW t \in Clients, OthersWait(t),
         \A u \in Clients \ {t} :
           /\ value'[u] = value[u]
           /\ pc[u] = "popTake" => chain'[oldNext[u]] = chain[oldNext[u]],
         NEW c, CallOf(t)' = c
  PROVE  Calls' = [Calls EXCEPT ![t] = c]
<1>1. ASSUME NEW u \in Clients \ {t} PROVE CallOf(u)' = CallOf(u)
  <2>1. /\ pc'[u] = pc[u] /\ oldNext'[u] = oldNext[u] /\ value'[u] = value[u]
        /\ pc[u] \in Places
    BY <1>1 DEF OthersWait, QueueInv, Loaded
  <2>2. CASE pc[u] = "popTake"
    BY <2>1, <2>2, CallOfIs
  <2>3. CASE pc[u] # "popTake"
    <3>1. CallAt(pc[u], value[u], chain[oldNext[u]]) = CallAt(pc[u], value[u], chain'[oldNext[u]])
      BY <2>1, <2>3, NodeMatters
    <3>2. /\ CallOf(u) = CallAt(pc[u], value[u], chain[oldNext[u]])
          /\ CallOf(u)' = CallAt(pc'[u], value'[u], chain'[oldNext'[u]])
      BY CallOfIs
    <3> QED
      BY <2>1, <3>1, <3>2
  <2> QED
    BY <2>2, <2>3
<1>2. Calls' = [u \in Clients |-> CallOf(u)']
  BY DEF Calls
<1>3. [Calls EXCEPT ![t] = c] = [u \in Clients |-> IF u = t THEN c ELSE CallOf(u)]
  BY DEF Calls
<1>4. ASSUME NEW u \in Clients PROVE Calls'[u] = [Calls EXCEPT ![t] = c][u]
  <2>1. CASE u = t
    BY <1>2, <1>3, <2>1
  <2>2. CASE u # t
    BY <1>1, <1>2, <1>3, <2>2
  <2> QED
    BY <2>1, <2>2
<1> QED
  BY <1>2, <1>3, <1>4

\* Who pops, seen from the abstract queue.
LEMMA PoppersMatch ==
  /\ Loaded => Fifo!Popping(Calls) = {t \in Clients : pc[t] \in Popping}
  /\ Loaded' => Fifo!Popping(Calls') = {t \in Clients : pc'[t] \in Popping}
<1>1. ASSUME Loaded PROVE Fifo!Popping(Calls) = {t \in Clients : pc[t] \in Popping}
  <2>1. \A t \in Clients : Calls[t].op = "pop" <=> pc[t] \in Popping
    BY <1>1, CallOfIs, PopsArePops DEF Calls, Loaded
  <2> QED
    BY <2>1 DEF Fifo!Popping
<1>2. ASSUME Loaded' PROVE Fifo!Popping(Calls') = {t \in Clients : pc'[t] \in Popping}
  <2>1. \A t \in Clients : pc'[t] \in Places
    BY <1>2 DEF Loaded, Places, Pushing, Popping
  <2>2. \A t \in Clients : Calls'[t] = CallOf(t)'
    BY DEF Calls
  <2>3. \A t \in Clients : Calls'[t].op = "pop" <=> pc'[t] \in Popping
    BY <2>1, <2>2, CallOfIs, PopsArePops
  <2> QED
    BY <2>3 DEF Fifo!Popping
<1> QED
  BY <1>1, <1>2
\* The abstract queue watches as the history variable does.
LEMMA WatchedAlike == Loaded' /\ Watched => Fifo!Watched
<1> SUFFICES ASSUME Loaded', Watched PROVE Fifo!Watched
  OBVIOUS
<1>1. Fifo!Popping(Calls') = {t \in Clients : pc'[t] \in Popping}
  BY PoppersMatch
<1>2. sawEmpty' = {t \in Fifo!Popping(Calls') : t \in sawEmpty \/ Items' = <<>>}
  BY <1>1 DEF Watched
<1> QED
  BY <1>2 DEF Fifo!Watched, Calls

\* A step that moves neither the items nor a call is none of the queue's.
LEMMA StepStutters ==
  ASSUME QueueInv, Loaded', Watched, Items' = Items, Calls' = Calls
  PROVE  UNCHANGED Fifo!fifoVars
<1>1. {t \in Clients : pc'[t] \in Popping} = {t \in Clients : pc[t] \in Popping}
  BY PoppersMatch DEF QueueInv
<1>2. sawEmpty' = {t \in Clients : pc[t] \in Popping /\ (t \in sawEmpty \/ Items = <<>>)}
  BY <1>1 DEF Watched
<1>3. Items = <<>> => head = Len(chain)
  <2>1. chain \in Seq(Entries) /\ head \in 0 .. Len(chain)
    BY LenProperties DEF QueueInv, Ordered
  <2> QED
    BY <2>1, RestEmpty DEF Items, Rest
<1>4. sawEmpty' = sawEmpty
  BY <1>2, <1>3 DEF QueueInv, Watching
<1> QED
  BY <1>4 DEF Fifo!fifoVars, Calls

Abstractly == [Fifo!FifoNext]_(Fifo!fifoVars)

\* Calls and returns.
LEMMA CallsRefine ==
  ASSUME QueueInv, QueueInv', Watched, NEW t \in Clients,
         (\E v \in Values : CallPush(t, v)) \/ CallPop(t) \/ PushCount(t) \/ PopCount(t) \/ PopNone(t)
  PROVE  Abstractly
<1>1. Loaded /\ Loaded' /\ Fifo!Watched
  BY WatchedAlike DEF QueueInv
<1>2. Items' = Items
  BY DEF CallPush, CallPop, PushCount, PopCount, PopNone, shared, Items
<1>3. OthersWait(t) /\ \A u \in Clients \ {t} : value'[u] = value[u] /\ chain'[oldNext[u]] = chain[oldNext[u]]
  BY <1>1 DEF CallPush, CallPop, PushCount, PopCount, PopNone, Forgets, Steps, shared, loaded, Loaded, OthersWait
<1>4. /\ CallOf(t) = CallAt(pc[t], value[t], chain[oldNext[t]])
      /\ CallOf(t)' = CallAt(pc'[t], value'[t], chain'[oldNext'[t]])
      /\ Calls[t] = CallOf(t)
  BY CallOfIs DEF Calls
<1>5. CASE \E v \in Values : CallPush(t, v)
  <2>1. PICK v \in Values : CallPush(t, v)
    BY <1>5
  <2>2. pc[t] = "idle" /\ pc'[t] = "pushTail" /\ value'[t] = v
    BY <1>1, <2>1 DEF CallPush, Steps, Loaded
  <2>3. CallOf(t)' = [op |-> "push", value |-> v] /\ Calls[t].op = "idle"
    BY <1>4, <2>2, CallTable DEF Pushing
  <2>4. Calls' = [Calls EXCEPT ![t] = [op |-> "push", value |-> v]]
    BY <1>3, <2>3, OneCallMoves
  <2>5. Fifo!CallPush(t, v)
    BY <1>1, <1>2, <2>3, <2>4 DEF Fifo!CallPush, Fifo!Moves, Fifo!Call, Calls
  <2> QED
    BY <2>1, <2>5 DEF Abstractly, Fifo!FifoNext
<1>6. CASE CallPop(t)
  <2>1. pc[t] = "idle" /\ pc'[t] = "popHead"
    BY <1>1, <1>6 DEF CallPop, Steps, Loaded
  <2>2. CallOf(t)' = [op |-> "pop", value |-> None] /\ Calls[t].op = "idle"
    BY <1>4, <2>1, CallTable DEF Popping
  <2>3. Calls' = [Calls EXCEPT ![t] = [op |-> "pop", value |-> None]]
    BY <1>3, <2>2, OneCallMoves
  <2>4. Fifo!CallPop(t)
    BY <1>1, <1>2, <2>2, <2>3 DEF Fifo!CallPop, Fifo!Moves, Fifo!Call, Calls
  <2> QED
    BY <2>4 DEF Abstractly, Fifo!FifoNext
<1>7. CASE PushCount(t) \/ PopCount(t) \/ PopNone(t)
  <2>1. pc[t] \in {"pushCount", "popCount", "none"} /\ pc'[t] = "idle"
    BY <1>1, <1>7 DEF PushCount, PopCount, PopNone, Steps, Loaded
  <2>2. CallOf(t)' = [op |-> "idle", value |-> None] /\ Calls[t].op = "done"
    BY <1>4, <2>1, CallTable
  <2>3. Calls' = [Calls EXCEPT ![t] = [op |-> "idle", value |-> None]]
    BY <1>3, <2>2, OneCallMoves
  <2>4. Fifo!Return(t)
    BY <1>1, <1>2, <2>2, <2>3 DEF Fifo!Return, Fifo!Moves, Fifo!Idle, Calls
  <2> QED
    BY <2>4 DEF Abstractly, Fifo!FifoNext
<1> QED
  BY <1>5, <1>6, <1>7

\* Steps that leave the items, and the calls, as they are.
LEMMA QuietStep ==
  ASSUME QueueInv, QueueInv', Watched, NEW t \in Clients, OthersWait(t),
         Items' = Items, CallOf(t)' = CallOf(t),
         \A u \in Clients \ {t} :
           /\ value'[u] = value[u]
           /\ pc[u] = "popTake" => chain'[oldNext[u]] = chain[oldNext[u]]
  PROVE  Abstractly
<1>1. Calls' = [Calls EXCEPT ![t] = CallOf(t)]
  BY OneCallMoves
<1>2. Calls' = Calls
  BY <1>1 DEF Calls
<1> QED
  BY <1>2, StepStutters DEF QueueInv, Abstractly

\* The loads, the lost races and the swings of tail.
LEMMA QuietRefine ==
  ASSUME QueueInv, QueueInv', Watched, NEW t \in Clients,
         \/ PushLoadTail(t) \/ PushLoadNext(t) \/ PushCheck(t) \/ PushLoses(t) \/ PushSwing(t) \/ PushHelp(t)
         \/ PopLoadHead(t) \/ PopLoadTail(t) \/ PopLoadNext(t) \/ PopHelp(t) \/ PopLoses(t)
  PROVE  Abstractly
<1>1. Loaded
  BY DEF QueueInv
<1>2. /\ UNCHANGED <<chain, head, value>> /\ OthersWait(t)
      /\ \/ pc[t] \in Pushing /\ pc'[t] \in Pushing
         \/ pc[t] \in Popping /\ pc'[t] \in Popping
         \/ pc[t] = "pushSwing" /\ pc'[t] = "pushCount"
  <2>1. CASE PushLoadTail(t) \/ PushLoadNext(t) \/ PushLoses(t) \/ PushSwing(t) \/ PushHelp(t)
    BY <1>1, <2>1
       DEF PushLoadTail, PushLoadNext, PushLoses, PushSwing, PushHelp, Steps, shared, loaded,
           Loaded, OthersWait, Pushing
  <2>2. CASE PushCheck(t)
    BY <1>1, <2>2 DEF PushCheck, Chooses, shared, loaded, Loaded, OthersWait, Pushing
  <2>3. CASE PopLoadHead(t) \/ PopLoadTail(t) \/ PopLoadNext(t) \/ PopHelp(t) \/ PopLoses(t)
    BY <1>1, <2>3
       DEF PopLoadHead, PopLoadTail, PopLoadNext, PopHelp, PopLoses, Steps, shared, loaded,
           Loaded, OthersWait, Popping
  <2> QED
    BY <2>1, <2>2, <2>3
<1>3. /\ CallOf(t) = CallAt(pc[t], value[t], chain[oldNext[t]])
      /\ CallOf(t)' = CallAt(pc'[t], value'[t], chain'[oldNext'[t]])
  BY CallOfIs
<1>4. CallOf(t)' = CallOf(t)
  <2>1. CASE pc[t] \in Pushing /\ pc'[t] \in Pushing
    <3>1. /\ CallOf(t) = [op |-> "push", value |-> value[t]]
          /\ CallOf(t)' = [op |-> "push", value |-> value'[t]]
      BY <1>3, <2>1, CallTable
    <3> QED
      BY <1>2, <3>1
  <2>2. CASE pc[t] \in Popping /\ pc'[t] \in Popping
    BY <1>3, <2>2, CallTable DEF Popping
  <2>3. CASE pc[t] = "pushSwing" /\ pc'[t] = "pushCount"
    BY <1>3, <2>3, CallTable
  <2> QED
    BY <1>2, <2>1, <2>2, <2>3
<1>5. Items' = Items
  BY <1>2 DEF Items
<1> QED
  BY <1>2, <1>4, <1>5, QuietStep

\* The check that answers None, to a pop since whose call the queue has been empty.
LEMMA CheckRefines ==
  ASSUME QueueInv, QueueInv', Watched, NEW t \in Clients, PopCheck(t)
  PROVE  Abstractly
<1>1. Loaded /\ PopLoads(t) /\ Fifo!Watched
  BY WatchedAlike DEF QueueInv
<1>2. /\ UNCHANGED <<chain, head, value>> /\ OthersWait(t) /\ pc[t] = "popCheck"
      /\ pc'[t] \in {"none", "popHead", "popHelp", "popSwing"}
      /\ pc'[t] = "none" => oldHead[t] = head /\ oldNext[t] = Null
  BY <1>1 DEF PopCheck, Chooses, shared, loaded, Loaded, OthersWait
<1>3. /\ CallOf(t) = CallAt(pc[t], value[t], chain[oldNext[t]])
      /\ CallOf(t)' = CallAt(pc'[t], value'[t], chain'[oldNext'[t]])
      /\ Calls[t] = CallOf(t)
  BY CallOfIs DEF Calls
<1>4. CallOf(t) = [op |-> "pop", value |-> None]
  BY <1>2, <1>3, CallTable DEF Popping
<1>5. Items' = Items
  BY <1>2 DEF Items
<1>6. CASE pc'[t] = "none"
  <2>1. CallOf(t)' = [op |-> "done", value |-> None]
    BY <1>3, <1>6, CallTable
  <2>2. Calls' = [Calls EXCEPT ![t] = [op |-> "done", value |-> None]]
    BY <1>2, <2>1, OneCallMoves
  <2>3. t \in sawEmpty
    BY <1>1, <1>2, <1>6 DEF PopLoads
  <2>4. Fifo!AnswerNone(t)
    BY <1>1, <1>3, <1>4, <1>5, <2>2, <2>3 DEF Fifo!AnswerNone, Fifo!Moves, Fifo!Call, Calls
  <2> QED
    BY <2>4 DEF Abstractly, Fifo!FifoNext
<1>7. CASE pc'[t] # "none"
  <2>1. CallOf(t)' = [op |-> "pop", value |-> None]
    BY <1>2, <1>3, <1>7, CallTable DEF Popping
  <2> QED
    BY <1>2, <1>4, <1>5, <2>1, QuietStep
<1> QED
  BY <1>6, <1>7

\* The compare-exchange of a push appends to the items.
LEMMA LinkRefines ==
  ASSUME QueueInv, QueueInv', Watched, NEW t \in Clients, PushLink(t)
  PROVE  Abstractly
<1>1. Loaded /\ Ordered /\ Fifo!Watched
  BY WatchedAlike DEF QueueInv
<1>2. /\ pc[t] = "pushLink" /\ pc'[t] = "pushSwing" /\ OthersWait(t)
      /\ UNCHANGED <<head, value, oldNext>>
  BY <1>1 DEF PushLink, Steps, loaded, Loaded, OthersWait
<1>3. /\ chain \in Seq(Entries) /\ head \in 0 .. Len(chain) /\ value[t] \in Entries
      /\ chain' = Append(chain, value[t]) /\ Len(chain) \in Nat
  BY <1>1, LinkAppends, LenProperties DEF Ordered
<1>4. Items' = Append(Items, value[t])
  <2>1. Rest(Append(chain, value[t]), head) = Append(Rest(chain, head), value[t])
    BY <1>3, RestPushed
  <2> QED
    BY <1>2, <1>3, <2>1 DEF Items, Rest
<1>5. \A u \in Clients \ {t} :
        /\ value'[u] = value[u]
        /\ pc[u] = "popTake" => chain'[oldNext[u]] = chain[oldNext[u]]
  <2> SUFFICES ASSUME NEW u \in Clients \ {t}, pc[u] = "popTake"
               PROVE  chain'[oldNext[u]] = chain[oldNext[u]]
    BY <1>2
  <2>1. oldNext[u] \in 1 .. Len(chain)
    BY <1>1, <1>3 DEF QueueInv, PopLoads, Loaded, Ordered
  <2> QED
    BY <1>3, <2>1, AppendProperties
<1>6. /\ CallOf(t) = CallAt(pc[t], value[t], chain[oldNext[t]])
      /\ CallOf(t)' = CallAt(pc'[t], value'[t], chain'[oldNext'[t]])
      /\ Calls[t] = CallOf(t)
  BY CallOfIs DEF Calls
<1>7. CallOf(t) = [op |-> "push", value |-> value[t]] /\ CallOf(t)' = [op |-> "done", value |-> None]
  BY <1>2, <1>6, CallTable DEF Pushing
<1>8. Calls' = [Calls EXCEPT ![t] = [op |-> "done", value |-> None]]
  BY <1>2, <1>5, <1>7, OneCallMoves
<1>9. Fifo!TakesEffect(t)
  BY <1>1, <1>4, <1>6, <1>7, <1>8 DEF Fifo!TakesEffect, Fifo!Moves, Fifo!Call, Calls
<1> QED
  BY <1>9 DEF Abstractly, Fifo!FifoNext

\* The compare-exchange of a pop removes the first item, and no other.
LEMMA WinRefines ==
  ASSUME QueueInv, QueueInv', Watched, NEW t \in Clients, PopWins(t)
  PROVE  Abstractly
<1>1. Loaded /\ Ordered /\ PopLoads(t) /\ Fifo!Watched
  BY WatchedAlike DEF QueueInv
<1>2. /\ pc[t] = "popSwing" /\ pc'[t] = "popTake" /\ OthersWait(t)
      /\ head = oldHead[t] /\ head' = oldNext[t]
      /\ UNCHANGED <<chain, value, oldNext>>
  BY <1>1 DEF PopWins, Steps, StillFirst, loaded, Loaded, OthersWait
<1>3. /\ chain \in Seq(Entries) /\ head \in 0 .. Len(chain) /\ Len(chain) \in Nat
      /\ oldNext[t] = head + 1 /\ head < Len(chain)
  <2>1. Follows(oldNext[t], oldHead[t]) /\ oldNext[t] # Null
    BY <1>1, <1>2 DEF PopLoads, ReadNext
  <2> QED
    BY <1>1, <1>2, <2>1, LenProperties DEF Ordered, Follows
<1>4. Items # <<>> /\ Head(Items) = chain[head + 1] /\ Items' = Tail(Items)
  <2>1. /\ Rest(chain, head) # <<>> /\ Head(Rest(chain, head)) = chain[head + 1]
        /\ Rest(chain, head + 1) = Tail(Rest(chain, head))
    BY <1>3, RestPopped
  <2> QED
    BY <1>2, <1>3, <2>1 DEF Items, Rest
<1>5. /\ CallOf(t) = CallAt(pc[t], value[t], chain[oldNext[t]])
      /\ CallOf(t)' = CallAt(pc'[t], value'[t], chain'[oldNext'[t]])
      /\ Calls[t] = CallOf(t)
  BY CallOfIs DEF Calls
<1>6. CallOf(t) = [op |-> "pop", value |-> None]
  BY <1>2, <1>5, CallTable DEF Popping
<1>7. CallOf(t)' = [op |-> "done", value |-> Head(Items)]
  BY <1>2, <1>3, <1>4, <1>5, CallTable
<1>8. Calls' = [Calls EXCEPT ![t] = [op |-> "done", value |-> Head(Items)]]
  BY <1>2, <1>7, OneCallMoves
<1>9. Fifo!Remove(t)
  BY <1>1, <1>4, <1>5, <1>6, <1>8 DEF Fifo!Remove, Fifo!Moves, Fifo!Call, Calls
<1> QED
  BY <1>9 DEF Abstractly, Fifo!FifoNext

\* Taking the value out touches no item, and no node another pop has won.
LEMMA TakeRefines ==
  ASSUME QueueInv, QueueInv', Watched, NEW t \in Clients, PopTake(t)
  PROVE  Abstractly
<1>1. Loaded /\ Loaded' /\ Ordered /\ PopLoads(t) /\ TakesApart
  BY DEF QueueInv
<1>2. /\ pc[t] = "popTake" /\ pc'[t] = "popCount" /\ OthersWait(t)
      /\ value' = [value EXCEPT ![t] = chain[oldNext[t]]]
      /\ chain' = [chain EXCEPT ![oldNext[t]] = None]
      /\ UNCHANGED <<head, oldNext>>
  BY <1>1 DEF PopTake, Steps, loaded, Loaded, OthersWait
<1>3. /\ chain \in Seq(Entries) /\ head \in 0 .. Len(chain) /\ Len(chain) \in Nat
      /\ oldNext[t] \in 1 .. head /\ oldNext[t] \in 1 .. Len(chain) /\ None \in Entries
  BY <1>1, <1>2, LenProperties, EntriesAre DEF Ordered, PopLoads, Loaded
<1>4. Items' = Items
  <2>1. Rest([chain EXCEPT ![oldNext[t]] = None], head) = Rest(chain, head)
    BY <1>3, RestSpared
  <2> QED
    BY <1>2, <2>1 DEF Items, Rest
<1>5. \A u \in Clients \ {t} :
        /\ value'[u] = value[u]
        /\ pc[u] = "popTake" => chain'[oldNext[u]] = chain[oldNext[u]]
  <2> SUFFICES ASSUME NEW u \in Clients \ {t}
               PROVE  /\ value'[u] = value[u]
                      /\ pc[u] = "popTake" => chain'[oldNext[u]] = chain[oldNext[u]]
    OBVIOUS
  <2>1. value'[u] = value[u]
    BY <1>1, <1>2 DEF Loaded
  <2>2. ASSUME pc[u] = "popTake" PROVE chain'[oldNext[u]] = chain[oldNext[u]]
    <3>1. oldNext[u] # oldNext[t] /\ oldNext[u] \in 1 .. Len(chain)
      BY <1>1, <1>2, <1>3, <2>2 DEF QueueInv, TakesApart, PopLoads, Loaded, Ordered
    <3> QED
      BY <1>2, <1>3, <3>1, ExceptSeq
  <2> QED
    BY <2>1, <2>2
<1>6. /\ CallOf(t) = CallAt(pc[t], value[t], chain[oldNext[t]])
      /\ CallOf(t)' = CallAt(pc'[t], value'[t], chain'[oldNext'[t]])
  BY CallOfIs
<1>7. value'[t] = chain[oldNext[t]]
  BY <1>1, <1>2 DEF Loaded
<1>8. CallOf(t)' = CallOf(t)
  BY <1>2, <1>6, <1>7, CallTable
<1> QED
  BY <1>2, <1>4, <1>5, <1>8, QuietStep

LEMMA QueueStepsRefine == QueueInv /\ QueueInv' /\ [QueueNext]_queueVars => Abstractly
<1>1. ASSUME QueueInv, QueueInv', Watched, NEW t \in Clients, Push(t) PROVE Abstractly
  BY <1>1, CallsRefine, QuietRefine, LinkRefines DEF Push
<1>2. ASSUME QueueInv, QueueInv', Watched, NEW t \in Clients, Pop(t) PROVE Abstractly
  BY <1>2, CallsRefine, QuietRefine, CheckRefines, WinRefines, TakeRefines DEF Pop
<1>3. ASSUME UNCHANGED queueVars PROVE Abstractly
  <2>1. Items' = Items /\ sawEmpty' = sawEmpty /\ \A t : CallOf(t)' = CallOf(t)
    BY <1>3 DEF queueVars, shared, loaded, Items, CallOf
  <2> QED
    BY <2>1 DEF Abstractly, Fifo!fifoVars
<1> QED
  BY <1>1, <1>2, <1>3 DEF QueueNext

LEMMA QueueStartsEmpty == QueueInit => Fifo!FifoInit
<1> SUFFICES ASSUME QueueInit PROVE Fifo!FifoInit
  OBVIOUS
<1>1. Items = <<>>
  <2>1. chain \in Seq(Entries) /\ 0 \in 0 .. Len(chain) /\ head = Len(chain) /\ Len(chain) = 0
    BY EmptySeq DEF QueueInit
  <2> QED
    BY <2>1, RestEmpty DEF Items, Rest
<1>2. \A t \in Clients : CallOf(t) = [op |-> "idle", value |-> None]
  BY CallOfIs, CallTable DEF QueueInit
<1> QED
  BY <1>1, <1>2 DEF QueueInit, Fifo!FifoInit, Fifo!Idle

\* Whatever the threads and however their loads and compare-exchanges
\* interleave, pushes and pops act one at a time on a first-in first-out queue.
THEOREM QueueIsFifo == QueueSpec => ImplementsFifo
<1>1. QueueInv /\ QueueInv' /\ [QueueNext]_queueVars => [Fifo!FifoNext]_(Fifo!fifoVars)
  BY QueueStepsRefine DEF Abstractly
<1> QED
  BY <1>1, QueueStartsEmpty, PointersStayInOrder, PTL DEF QueueSpec, ImplementsFifo, Fifo!FifoSpec

-----------------------------------------------------------------------------
\* The channel.

\* The positions of a sender that may still send or be cloned.
Sending == {"ready", "refused", "push", "notify"}
Ends == {s \in Senders : sAt[s] \in Sending}

\* The count is exact, so a receiver that found it 0 need only look once more.
ChannelInv ==
  /\ queued \in Nat /\ senders = Cardinality(Ends)
  /\ sAt \in [Senders -> Sending \cup {"none", "last", "gone"}]
  /\ DOMAIN rAt = Receivers
  /\ \A r \in Receivers : rAt[r] = "last look" => Ends = {}
  /\ told # {} => queued = 0 /\ Ends = {}

LEMMA FiniteEnds == IsFiniteSet(Ends) /\ (Cardinality(Ends) = 0 <=> Ends = {}) /\ Cardinality(Ends) \in Nat
  BY ChannelAssumption, FS_Subset, FS_EmptySet, FS_CardinalityType DEF Ends

LEMMA ChannelStarts == ChannelInit => ChannelInv
<1> SUFFICES ASSUME ChannelInit PROVE ChannelInv
  OBVIOUS
<1>1. PICK s \in Senders : sAt = [u \in Senders |-> IF u = s THEN "ready" ELSE "none"]
  BY DEF ChannelInit
<1>2. Ends = {s}
  BY <1>1 DEF Ends, Sending
<1> QED
  BY <1>1, <1>2, FS_Singleton DEF ChannelInit, ChannelInv, Sending

\* Nobody begins or ceases to hold an end.
LEMMA SameEnds ==
  ASSUME ChannelInv, sAt' \in [Senders -> Sending \cup {"none", "last", "gone"}],
         \A s \in Senders : sAt'[s] \in Sending <=> sAt[s] \in Sending
  PROVE  Ends' = Ends
  BY DEF Ends

LEMMA ChannelKept == ChannelInv /\ [ChannelNext]_channelVars => ChannelInv'
<1> SUFFICES ASSUME ChannelInv, [ChannelNext]_channelVars PROVE ChannelInv'
  OBVIOUS
<1> USE FiniteEnds DEF Sending
<1>1. ASSUME UNCHANGED channelVars PROVE ChannelInv'
  BY <1>1 DEF channelVars, ChannelInv, Ends
<1>2. ASSUME NEW s \in Senders, Sends(s) \/ Uses(s) PROVE ChannelInv'
  <2>1. CASE SendLooks(s)
    <3>1. Ends' = Ends
      BY <2>1, SameEnds DEF SendLooks, SenderGoes, ChannelInv
    <3> QED
      BY <2>1, <3>1 DEF SendLooks, SenderGoes, receiverVars, ChannelInv
  <2>2. CASE SendPushes(s)
    <3>1. Ends' = Ends
      BY <2>2, SameEnds DEF SendPushes, SenderGoes, ChannelInv
    <3>2. told = {} /\ UNCHANGED <<told, rAt, senders>>
      BY <2>2 DEF SendPushes, SenderGoes, receiverVars, Ends, ChannelInv
    <3>3. queued' \in Nat
      <4>1. queued' = queued + 1
        BY <2>2 DEF SendPushes
      <4>2. queued \in Nat
        BY DEF ChannelInv
      <4> QED
        BY <4>1, <4>2
    <3>4. sAt' \in [Senders -> Sending \cup {"none", "last", "gone"}]
      BY <2>2 DEF SendPushes, SenderGoes, ChannelInv
    <3> QED
      BY <3>1, <3>2, <3>3, <3>4 DEF ChannelInv
  <2>3. CASE SendNotifies(s)
    <3>1. Ends' = Ends
      BY <2>3, SameEnds DEF SendNotifies, SenderGoes, ChannelInv
    <3> QED
      BY <2>3, <3>1 DEF SendNotifies, SenderGoes, WakeUp, Asleep, ChannelInv
  <2>4. CASE LastNotifies(s)
    <3>1. Ends' = Ends
      BY <2>4, SameEnds DEF LastNotifies, SenderGoes, ChannelInv
    <3> QED
      BY <2>4, <3>1 DEF LastNotifies, SenderGoes, WakeUp, Asleep, ChannelInv
  <2>5. ASSUME NEW u \in Senders, CloneSender(s, u) PROVE ChannelInv'
    <3>1. Ends' = Ends \cup {u} /\ u \notin Ends /\ s \in Ends
      BY <2>5 DEF CloneSender, SenderGoes, ChannelInv, Ends
    <3>2. Cardinality(Ends') = Cardinality(Ends) + 1
      BY <3>1, FS_AddElement
    <3> QED
      BY <2>5, <3>1, <3>2 DEF CloneSender, SenderGoes, receiverVars, ChannelInv
  <2>6. CASE DropSender(s)
    <3>1. Ends' = Ends \ {s} /\ s \in Ends
      BY <2>6 DEF DropSender, ChannelInv, Ends
    <3>2. Cardinality(Ends') = Cardinality(Ends) - 1
      BY <3>1, FS_RemoveElement
    <3> QED
      BY <2>6, <3>1, <3>2 DEF DropSender, receiverVars, ChannelInv
  <2> QED
    BY <1>2, <2>1, <2>2, <2>3, <2>4, <2>5, <2>6 DEF Sends, Uses
<1>3. ASSUME NEW r \in Receivers, Receives(r) \/ Asks(r) PROVE ChannelInv'
  <2>1. Ends' = Ends /\ UNCHANGED <<senders, sAt>>
    BY <1>3 DEF Receives, Asks, Pops, FindsNothing, LooksForSenders, Disconnected, TimesOut, Parks,
                WakesByItself, CallRecv, DropReceiver, CloneReceiver, senderVars, Ends
  <2>2. CASE Pops(r)
    <3>1. queued' \in Nat /\ told = {} /\ told' = told
      <4>1. queued > 0 /\ queued' = queued - 1 /\ told' = told
        BY <2>2 DEF Pops
      <4>2. queued \in Nat /\ (told # {} => queued = 0)
        BY DEF ChannelInv
      <4> QED
        BY <4>1, <4>2
    <3>2. PICK from \in {"look", "last look", "ready"} : rAt[r] = from /\ rAt' = [rAt EXCEPT ![r] = "ready"]
      BY <2>2 DEF Pops, Answers, ReceiverGoes
    <3> QED
      BY <2>1, <3>1, <3>2 DEF ChannelInv
  <2>3. CASE LooksForSenders(r)
    BY <2>1, <2>3 DEF LooksForSenders, ReceiverGoes, ChannelInv
  <2>4. CASE Disconnected(r)
    BY <2>1, <2>4 DEF Disconnected, NothingLeft, Answers, ReceiverGoes, ChannelInv
  <2>5. CASE FindsNothing(r) \/ TimesOut(r) \/ Parks(r) \/ WakesByItself(r)
    BY <2>1, <2>5 DEF FindsNothing, TimesOut, Answers, Parks, WakesByItself, ReceiverGoes, ChannelInv
  <2>6. CASE DropReceiver(r) \/ \E b \in BOOLEAN : CallRecv(r, b)
    BY <2>1, <2>6 DEF DropReceiver, CallRecv, ReceiverGoes, ChannelInv
  <2>7. CASE \E u \in Receivers : CloneReceiver(r, u)
    BY <2>1, <2>7 DEF CloneReceiver, ReceiverGoes, ChannelInv
  <2> QED
    BY <1>3, <2>2, <2>3, <2>4, <2>5, <2>6, <2>7 DEF Receives, Asks
<1> QED
  BY <1>1, <1>2, <1>3 DEF ChannelNext

\* Disconnected means that no sender is left and nothing was left behind, for
\* any number of senders and receivers that come and go.
THEOREM DisconnectedIsEmpty == ChannelSpec => []NothingLeftBehind
<1>1. ChannelInv => NothingLeftBehind
  BY DEF ChannelInv, NothingLeftBehind, Ends, Sending
<1> QED
  BY ChannelStarts, ChannelKept, <1>1, PTL DEF ChannelSpec

-----------------------------------------------------------------------------
\* The pool.

\* Where a job is from the moment it is counted until it is counted down: with
\* whoever pushes it, in the queue, or with the worker that runs it.
Busy == {"body", "push", "notify", "value", "done", "finish", "dead"}
Handed == {handling[a] : a \in {b \in Actors : place[b] = "push"}}
Queued == {jobs[i] : i \in DOMAIN jobs}
Taken == {running[w] : w \in {v \in PoolThreads : place[v] \in Busy}}
Pending == Handed \cup Queued \cup Taken

\* It is in one of these places, once.
InOnePlace ==
  /\ \A a, b \in Actors :
       place[a] = "push" /\ place[b] = "push" /\ handling[a] = handling[b] => a = b
  /\ \A i, k \in DOMAIN jobs : jobs[i] = jobs[k] => i = k
  /\ \A v, w \in PoolThreads :
       place[v] \in Busy /\ place[w] \in Busy /\ running[v] = running[w] => v = w
  /\ Handed \cap Queued = {} /\ Handed \cap Taken = {} /\ Queued \cap Taken = {}

PoolShape ==
  /\ jobs \in Seq(Closures) /\ submitted \subseteq Closures
  /\ DOMAIN place = Actors /\ handling \in [Actors -> Closures \cup {Nothing}]
  /\ running \in [PoolThreads -> Closures \cup {Nothing}]
  /\ home \in [PoolThreads -> {"pop", "drain"}]
  /\ slot \in [Closures -> {"empty", "ok", "panic", "taken"}]
  /\ \A a \in Actors : place[a] = "push" => handling[a] \in Closures
  /\ \A w \in PoolThreads :
       /\ place[w] \in Busy => running[w] \in Closures
       /\ place[w] \in {"value", "done"} => running[w] \in Spawned

\* The counter is exact.
AllCounted ==
  /\ Pending \subseteq submitted /\ unfinished = Cardinality(Pending)
  /\ completed + unfinished = Cardinality(submitted) /\ completed \in Nat

\* Only a job still pending has no result.
ResultsFirst ==
  /\ \A j \in submitted \cap Spawned : slot[j] = "empty" => j \in Pending
  /\ \A w \in PoolThreads : place[w] \in {"done", "finish"} /\ running[w] \in Spawned =>
       slot[running[w]] # "empty"

SeenIdle == {"idle", "tell all", "join workers", "dropped"}
StaysIdle == place[Owner] \in SeenIdle => unfinished = 0

PoolInv == PoolShape /\ InOnePlace /\ AllCounted /\ ResultsFirst /\ StaysIdle

-----------------------------------------------------------------------------
LEMMA EpilogueIs ==
  ASSUME NEW j
  PROVE  /\ j \in Spawned => /\ Epilogue(j)[1] = "value" /\ StepAfter(j, "value") = "done"
                             /\ StepAfter(j, "done") = "finish"
         /\ j \notin Spawned => Epilogue(j)[1] = "finish"
         /\ StepAfter(j, "finish") = "end"
<1>1. CASE j \in Spawned
  <2> DEFINE steps == <<"value", "done", "finish">>
  <2>1. Epilogue(j) = steps /\ Len(steps) = 3 /\ steps[1] = "value" /\ steps[2] = "done" /\ steps[3] = "finish"
    BY <1>1 DEF Epilogue
  <2>2. {i \in 1 .. Len(steps) : i > 1 /\ steps[i - 1] = "value"} = {2}
    BY <2>1
  <2>3. {i \in 1 .. Len(steps) : i > 1 /\ steps[i - 1] = "done"} = {3}
    BY <2>1
  <2>4. {i \in 1 .. Len(steps) : i > 1 /\ steps[i - 1] = "finish"} = {}
    BY <2>1
  <2> HIDE DEF steps
  <2>5. (CHOOSE i \in {2} : TRUE) = 2 /\ (CHOOSE i \in {3} : TRUE) = 3 /\ {2} # {} /\ {3} # {}
    OBVIOUS
  <2>6. StepAfter(j, "value") = "done"
    BY <2>1, <2>2, <2>5 DEF StepAfter
  <2>7. StepAfter(j, "done") = "finish"
    BY <2>1, <2>3, <2>5 DEF StepAfter
  <2>8. StepAfter(j, "finish") = "end"
    BY <2>1, <2>4 DEF StepAfter
  <2> QED
    BY <1>1, <2>1, <2>6, <2>7, <2>8
<1>2. CASE j \notin Spawned
  <2> DEFINE steps == <<"finish">>
  <2>1. Epilogue(j) = steps /\ Len(steps) = 1 /\ steps[1] = "finish"
    BY <1>2 DEF Epilogue
  <2>2. {i \in 1 .. Len(steps) : i > 1 /\ steps[i - 1] = "finish"} = {}
    BY <2>1
  <2> HIDE DEF steps
  <2>3. StepAfter(j, "finish") = "end"
    BY <2>1, <2>2 DEF StepAfter
  <2> QED
    BY <1>2, <2>1, <2>3
<1> QED
  BY <1>1, <1>2

LEMMA PendingIsFinite ==
  ASSUME PoolShape, AllCounted
  PROVE  /\ IsFiniteSet(submitted) /\ IsFiniteSet(Pending)
         /\ Cardinality(Pending) \in Nat /\ Cardinality(submitted) \in Nat
         /\ (Cardinality(Pending) = 0 <=> Pending = {})
<1>1. IsFiniteSet(submitted)
  BY PoolAssumption, FS_Subset DEF PoolShape
<1>2. IsFiniteSet(Pending)
  BY <1>1, FS_Subset DEF AllCounted
<1> QED
  BY <1>1, <1>2, FS_EmptySet, FS_CardinalityType

\* Nothing is pushed, taken or finished.
LEMMA JobsStay ==
  ASSUME InOnePlace, jobs' = jobs,
         \A a \in Actors : /\ place'[a] = "push" <=> place[a] = "push"
                           /\ place[a] = "push" => handling'[a] = handling[a],
         \A w \in PoolThreads : /\ place'[w] \in Busy <=> place[w] \in Busy
                                /\ place[w] \in Busy => running'[w] = running[w]
  PROVE  InOnePlace' /\ Pending' = Pending
<1>1. Handed' = Handed
  BY DEF Handed
<1>2. Queued' = Queued
  BY DEF Queued
<1>3. Taken' = Taken
  BY DEF Taken
<1> QED
  BY <1>1, <1>2, <1>3 DEF InOnePlace, Pending

\* What is left to show of a step that lets the jobs stay.
LEMMA PoolStepQuiet ==
  ASSUME PoolInv, PoolShape', jobs' = jobs, UNCHANGED <<submitted, unfinished, completed>>,
         \A a \in Actors : /\ place'[a] = "push" <=> place[a] = "push"
                           /\ place[a] = "push" => handling'[a] = handling[a],
         \A w \in PoolThreads : /\ place'[w] \in Busy <=> place[w] \in Busy
                                /\ place[w] \in Busy => running'[w] = running[w],
         \A j \in Closures : slot'[j] = "empty" => slot[j] = "empty",
         \A w \in PoolThreads : place'[w] \in {"done", "finish"} /\ running[w] \in Spawned =>
            place[w] \in {"done", "finish"} \/ slot'[running[w]] # "empty",
         place'[Owner] \in SeenIdle => place[Owner] \in SeenIdle \/ unfinished = 0
  PROVE  PoolInv'
<1>1. InOnePlace' /\ Pending' = Pending
  BY JobsStay DEF PoolInv
<1>2. AllCounted'
  BY <1>1 DEF PoolInv, AllCounted
<1>3. ResultsFirst'
  <2>1. \A j \in submitted' \cap Spawned : slot'[j] = "empty" => j \in Pending'
    BY <1>1 DEF PoolInv, ResultsFirst, PoolShape
  <2>2. ASSUME NEW w \in PoolThreads, place'[w] \in {"done", "finish"}, running'[w] \in Spawned
        PROVE  slot'[running'[w]] # "empty"
    <3>1. running'[w] = running[w]
      BY <2>2 DEF Busy
    <3>2. running[w] \in Closures
      BY <2>2, <3>1, PoolAssumption
    <3> QED
      BY <2>2, <3>1, <3>2 DEF PoolInv, ResultsFirst
  <2> QED
    BY <2>1, <2>2 DEF ResultsFirst
<1>4. StaysIdle'
  BY DEF PoolInv, StaysIdle
<1> QED
  BY <1>1, <1>2, <1>3, <1>4 DEF PoolInv

-----------------------------------------------------------------------------
LEMMA PoolStarts == PoolInit => PoolInv
<1> SUFFICES ASSUME PoolInit PROVE PoolInv
  OBVIOUS
<1> USE DEF PoolInit, Actors, Busy
<1>1. PoolShape
  BY PoolAssumption DEF PoolShape
<1>2. Handed = {} /\ Queued = {} /\ Taken = {}
  <2>1. Queued = {}
    BY DEF Queued
  <2>2. \A w \in PoolThreads : place[w] \notin Busy
    BY PoolAssumption
  <2>3. \A a \in Actors : place[a] # "push"
    OBVIOUS
  <2> QED
    BY <2>1, <2>2, <2>3 DEF Handed, Taken
<1>3. InOnePlace
  BY <1>2, PoolAssumption DEF InOnePlace
<1>4. AllCounted
  BY <1>2, FS_EmptySet DEF AllCounted, Pending
<1>5. ResultsFirst
  BY PoolAssumption DEF ResultsFirst
<1> QED
  BY <1>1, <1>3, <1>4, <1>5 DEF PoolInv, StaysIdle, SeenIdle

LEMMA WorkersAre == PoolThreads \subseteq Actors /\ Owner \in Actors /\ Owner \notin PoolThreads
  BY PoolAssumption DEF Actors

\* A new job is nowhere yet.
LEMMA CountsKeeps ==
  ASSUME PoolInv, NEW a \in Actors, NEW j \in Closures, Counts(a, j)
  PROVE  PoolInv'
<1> USE WorkersAre DEF Busy
<1>1. /\ j \notin submitted /\ place[a] = Base(a) /\ Base(a) \in {"open", "body"}
      /\ place' = [place EXCEPT ![a] = "push"] /\ handling' = [handling EXCEPT ![a] = j]
      /\ submitted' = submitted \cup {j} /\ unfinished' = unfinished + 1
      /\ UNCHANGED <<jobs, completed, shutdown, running, home, slot>>
  BY DEF Counts, Goes, Base
<1>2. a \in PoolThreads => place[a] \in Busy
  BY <1>1 DEF Base
<1>3. PoolShape'
  BY <1>1, <1>2 DEF PoolInv, PoolShape
<1>4. Handed' = Handed \cup {j} /\ Queued' = Queued /\ Taken' = Taken
  <2>1. Handed' = Handed \cup {j}
    BY <1>1 DEF Handed, PoolInv, PoolShape
  <2>2. Queued' = Queued
    BY <1>1 DEF Queued
  <2>3. Taken' = Taken
    BY <1>1, <1>2 DEF Taken, PoolInv, PoolShape
  <2> QED
    BY <2>1, <2>2, <2>3
<1>5. j \notin Pending /\ Pending' = Pending \cup {j}
  BY <1>1, <1>4 DEF Pending, PoolInv, AllCounted
<1>6. InOnePlace'
  <2>1. \A b \in Actors : place[b] = "push" => handling[b] # j
    BY <1>5 DEF Pending, Handed
  <2>2. \A b, c \in Actors :
          place'[b] = "push" /\ place'[c] = "push" /\ handling'[b] = handling'[c] => b = c
    BY <1>1, <2>1 DEF PoolInv, PoolShape, InOnePlace
  <2>3. \A v, w \in PoolThreads :
          place'[v] \in Busy /\ place'[w] \in Busy /\ running'[v] = running'[w] => v = w
    BY <1>1, <1>2 DEF PoolInv, PoolShape, InOnePlace
  <2>4. j \notin Queued /\ j \notin Taken
    BY <1>5 DEF Pending
  <2> QED
    BY <1>1, <1>4, <2>2, <2>3, <2>4 DEF PoolInv, InOnePlace
<1>7. AllCounted'
  <2>1. Cardinality(Pending') = Cardinality(Pending) + 1 /\ Cardinality(submitted') = Cardinality(submitted) + 1
    BY <1>1, <1>5, PendingIsFinite, FS_AddElement DEF PoolInv
  <2>2. Pending' \subseteq submitted'
    BY <1>1, <1>5 DEF PoolInv, AllCounted
  <2> QED
    BY <1>1, <2>1, <2>2, PendingIsFinite DEF PoolInv, AllCounted
<1>8. ResultsFirst'
  BY <1>1, <1>5 DEF PoolInv, PoolShape, ResultsFirst
<1>9. StaysIdle'
  <2>1. CASE a = Owner
    BY <1>1, <2>1 DEF PoolInv, PoolShape, StaysIdle, SeenIdle
  <2>2. CASE a # Owner
    <3>1. running[a] \in Pending
      BY <1>1, <1>2, <2>2 DEF Actors, Pending, Taken
    <3>2. unfinished # 0 /\ place'[Owner] = place[Owner]
      BY <1>1, <2>2, <3>1, PendingIsFinite DEF PoolInv, PoolShape, AllCounted
    <3> QED
      BY <3>2 DEF PoolInv, StaysIdle
  <2> QED
    BY <2>1, <2>2
<1> QED
  BY <1>3, <1>6, <1>7, <1>8, <1>9 DEF PoolInv

\* Job j goes from hand to hand.
LEMMA MovesKeep ==
  ASSUME PoolInv, PoolShape', InOnePlace', Pending' = Pending,
         UNCHANGED <<submitted, unfinished, completed, slot>>,
         \A w \in PoolThreads : place'[w] \in {"done", "finish"} =>
            place[w] \in {"done", "finish"} /\ running'[w] = running[w],
         place'[Owner] \in SeenIdle => place[Owner] \in SeenIdle
  PROVE  PoolInv'
<1>1. AllCounted'
  BY DEF PoolInv, AllCounted
<1>2. ResultsFirst'
  BY DEF PoolInv, ResultsFirst
<1>3. StaysIdle'
  BY DEF PoolInv, StaysIdle
<1> QED
  BY <1>1, <1>2, <1>3 DEF PoolInv

LEMMA PushesKeeps ==
  ASSUME PoolInv, NEW a \in Actors, Pushes(a)
  PROVE  PoolInv'
<1> USE WorkersAre DEF Busy
<1> DEFINE j == handling[a]
<1>1. /\ place[a] = "push" /\ place' = [place EXCEPT ![a] = "notify"] /\ jobs' = Append(jobs, j)
      /\ UNCHANGED <<counters, handling, running, home, submitted, slot>>
  BY DEF Pushes, Goes
<1>2. j \in Closures /\ jobs \in Seq(Closures)
  BY <1>1 DEF PoolInv, PoolShape
<1>3. PoolShape'
  BY <1>1, <1>2, AppendProperties DEF PoolInv, PoolShape
<1>4. /\ Len(jobs) \in Nat /\ Len(jobs') = Len(jobs) + 1 /\ jobs'[Len(jobs) + 1] = j
      /\ DOMAIN jobs = 1 .. Len(jobs) /\ DOMAIN jobs' = 1 .. Len(jobs')
      /\ \A i \in DOMAIN jobs : jobs'[i] = jobs[i]
  BY <1>1, <1>2
<1>5. Handed' = Handed \ {j} /\ j \in Handed /\ Queued' = Queued \cup {j} /\ Taken' = Taken
  <2>1. Handed' = Handed \ {j}
    BY <1>1 DEF Handed, PoolInv, PoolShape, InOnePlace
  <2>2. j \in Handed
    BY <1>1 DEF Handed
  <2>3. Queued' = Queued \cup {j}
    <3>1. ASSUME NEW x \in Queued' PROVE x \in Queued \cup {j}
      BY <1>4 DEF Queued
    <3>2. ASSUME NEW x \in Queued PROVE x \in Queued'
      BY <1>4 DEF Queued
    <3>3. j \in Queued'
      BY <1>4 DEF Queued
    <3> QED
      BY <3>1, <3>2, <3>3
  <2>4. Taken' = Taken
    BY <1>1 DEF Taken, PoolInv, PoolShape
  <2> QED
    BY <2>1, <2>2, <2>3, <2>4
<1>6. j \notin Queued /\ j \notin Taken
  BY <1>5 DEF PoolInv, InOnePlace
<1>7. InOnePlace'
  <2>1. \A b, c \in Actors :
          place'[b] = "push" /\ place'[c] = "push" /\ handling'[b] = handling'[c] => b = c
    BY <1>1 DEF PoolInv, PoolShape, InOnePlace
  <2>2. \A v, w \in PoolThreads :
          place'[v] \in Busy /\ place'[w] \in Busy /\ running'[v] = running'[w] => v = w
    BY <1>1 DEF PoolInv, PoolShape, InOnePlace
  <2>3. \A i \in DOMAIN jobs : jobs[i] # j
    BY <1>6 DEF Queued
  <2>4. \A i, k \in DOMAIN jobs' : jobs'[i] = jobs'[k] => i = k
    BY <1>4, <2>3 DEF PoolInv, InOnePlace
  <2> QED
    BY <1>5, <1>6, <2>1, <2>2, <2>4 DEF PoolInv, InOnePlace
<1>8. Pending' = Pending
  BY <1>5 DEF Pending
<1> QED
  BY <1>1, <1>3, <1>7, <1>8, MovesKeep DEF counters, PoolInv, PoolShape, SeenIdle

LEMMA TakesKeeps ==
  ASSUME PoolInv, NEW w \in PoolThreads, TakesJob(w)
  PROVE  PoolInv'
<1> USE WorkersAre DEF Busy
<1> DEFINE j == Head(jobs)
<1>1. /\ place[w] \in {"pop", "drain"} /\ jobs # <<>> /\ place' = [place EXCEPT ![w] = "body"]
      /\ running' = [running EXCEPT ![w] = j] /\ home' = [home EXCEPT ![w] = place[w]]
      /\ jobs' = Tail(jobs) /\ UNCHANGED <<counters, handling, submitted, slot>>
  BY DEF TakesJob
<1>2. jobs \in Seq(Closures) /\ j \in Closures /\ jobs' \in Seq(Closures)
  BY <1>1, HeadTailProperties DEF PoolInv, PoolShape
<1>3. PoolShape'
  BY <1>1, <1>2 DEF PoolInv, PoolShape
<1>4. /\ Len(jobs) \in Nat \ {0} /\ Len(jobs') = Len(jobs) - 1 /\ j = jobs[1]
      /\ DOMAIN jobs = 1 .. Len(jobs) /\ DOMAIN jobs' = 1 .. Len(jobs')
      /\ \A i \in DOMAIN jobs' : jobs'[i] = jobs[i + 1]
  BY <1>1, <1>2
<1>5. Handed' = Handed /\ Queued' = Queued \ {j} /\ j \in Queued /\ Taken' = Taken \cup {j}
  <2>1. Handed' = Handed
    BY <1>1 DEF Handed, PoolInv, PoolShape
  <2>2. j \in Queued
    BY <1>4 DEF Queued
  <2>3. Queued' = Queued \ {j}
    <3>1. ASSUME NEW i \in DOMAIN jobs' PROVE jobs'[i] \in Queued \ {j}
      BY <1>4, i + 1 \in DOMAIN jobs, i + 1 # 1, 1 \in DOMAIN jobs DEF Queued, PoolInv, InOnePlace
    <3>2. ASSUME NEW i \in DOMAIN jobs, jobs[i] # j PROVE jobs[i] \in Queued'
      <4>1. i - 1 \in DOMAIN jobs' /\ jobs'[i - 1] = jobs[i]
        BY <1>4, <3>2
      <4> QED
        BY <4>1 DEF Queued
    <3> QED
      BY <3>1, <3>2 DEF Queued
  <2>4. Taken' = Taken \cup {j}
    BY <1>1 DEF Taken, PoolInv, PoolShape
  <2> QED
    BY <2>1, <2>2, <2>3, <2>4
<1>6. j \notin Handed /\ j \notin Taken
  BY <1>5 DEF PoolInv, InOnePlace
<1>7. InOnePlace'
  <2>1. \A b, c \in Actors :
          place'[b] = "push" /\ place'[c] = "push" /\ handling'[b] = handling'[c] => b = c
    BY <1>1 DEF PoolInv, PoolShape, InOnePlace
  <2>2. \A v \in PoolThreads : place[v] \in Busy => running[v] # j
    BY <1>6 DEF Taken
  <2>3. \A u, v \in PoolThreads :
          place'[u] \in Busy /\ place'[v] \in Busy /\ running'[u] = running'[v] => u = v
    BY <1>1, <2>2 DEF PoolInv, PoolShape, InOnePlace
  <2>4. \A i, k \in DOMAIN jobs' : jobs'[i] = jobs'[k] => i = k
    <3> SUFFICES ASSUME NEW i \in DOMAIN jobs', NEW k \in DOMAIN jobs', jobs'[i] = jobs'[k] PROVE i = k
      OBVIOUS
    <3>1. i + 1 \in DOMAIN jobs /\ k + 1 \in DOMAIN jobs /\ jobs[i + 1] = jobs[k + 1]
      BY <1>4
    <3>2. i + 1 = k + 1
      BY <3>1 DEF PoolInv, InOnePlace
    <3> QED
      BY <1>4, <3>2
  <2> QED
    BY <1>5, <1>6, <2>1, <2>3, <2>4 DEF PoolInv, InOnePlace
<1>8. Pending' = Pending
  BY <1>5 DEF Pending
<1> QED
  BY <1>1, <1>3, <1>7, <1>8, MovesKeep DEF counters, PoolInv, PoolShape, SeenIdle

LEMMA FinishesKeeps ==
  ASSUME PoolInv, NEW w \in PoolThreads, Finishes(w)
  PROVE  PoolInv'
<1> USE WorkersAre DEF Busy
<1> DEFINE j == running[w]
<1>1. /\ place[w] = "finish" /\ j \in Closures
      /\ place' = [place EXCEPT ![w] = IF unfinished = 1 THEN "tell idle" ELSE home[w]]
      /\ running' = [running EXCEPT ![w] = IF unfinished = 1 THEN @ ELSE Nothing]
      /\ unfinished' = unfinished - 1 /\ completed' = completed + 1
      /\ UNCHANGED <<jobs, shutdown, handling, home, submitted, slot>>
  <2>1. place[w] = "finish" /\ j \in Closures
    BY DEF Finishes, Goes, PoolInv, PoolShape
  <2>2. StepAfter(j, "finish") = "end"
    BY EpilogueIs
  <2>3. Onward(w, "finish") = home[w]
    BY <2>2 DEF Onward, Job
  <2> QED
    BY <2>1, <2>2, <2>3 DEF Finishes, Goes, Closes, Job, PoolInv, PoolShape
<1>2. PoolShape'
  BY <1>1 DEF PoolInv, PoolShape
<1>3. place'[w] \notin Busy /\ place'[w] # "push"
  BY <1>1 DEF PoolInv, PoolShape
<1>4. Handed' = Handed /\ Queued' = Queued /\ Taken' = Taken \ {j} /\ j \in Taken
  <2>1. Handed' = Handed
    BY <1>1, <1>3 DEF Handed, PoolInv, PoolShape
  <2>2. Queued' = Queued
    BY <1>1 DEF Queued
  <2>3. j \in Taken
    BY <1>1 DEF Taken
  <2>4. \A v \in PoolThreads : /\ place'[v] \in Busy <=> place[v] \in Busy /\ v # w
                               /\ v # w => running'[v] = running[v]
    <3>1. \A v \in PoolThreads : v # w => place'[v] = place[v] /\ running'[v] = running[v]
      BY <1>1 DEF PoolInv, PoolShape
    <3> QED
      BY <1>3, <3>1
  <2>5. \A v \in PoolThreads : place[v] \in Busy /\ v # w => running[v] # j
    BY <1>1 DEF PoolInv, InOnePlace
  <2>6. Taken' = Taken \ {j}
    <3>1. \A x \in Taken' : x \in Taken \ {j}
      BY <2>4, <2>5 DEF Taken
    <3>2. \A x \in Taken : x # j => x \in Taken'
      BY <2>4 DEF Taken
    <3>3. j \notin Taken'
      BY <3>1
    <3> QED
      BY <3>1, <3>2, <3>3
  <2> QED
    BY <2>1, <2>2, <2>3, <2>6
<1>5. j \in Pending /\ Pending' = Pending \ {j}
  BY <1>4 DEF Pending, PoolInv, InOnePlace
<1>6. InOnePlace'
  BY <1>1, <1>3, <1>4 DEF PoolInv, PoolShape, InOnePlace
<1>7. AllCounted'
  <2>1. Cardinality(Pending') = Cardinality(Pending) - 1
    BY <1>5, PendingIsFinite, FS_RemoveElement DEF PoolInv
  <2>2. Pending' \subseteq submitted'
    BY <1>1, <1>5 DEF PoolInv, AllCounted
  <2>3. /\ unfinished = Cardinality(Pending) /\ Cardinality(Pending) \in Nat
        /\ completed + unfinished = Cardinality(submitted) /\ completed \in Nat
    BY PendingIsFinite DEF PoolInv, AllCounted
  <2>4. unfinished' = unfinished - 1 /\ completed' = completed + 1
    BY <1>1
  <2>5. unfinished' = Cardinality(Pending') /\ completed' + unfinished' = completed + unfinished /\ completed' \in Nat
    BY <2>1, <2>3, <2>4
  <2> QED
    BY <1>1, <2>2, <2>3, <2>5 DEF AllCounted
<1>8. ResultsFirst'
  <2>1. \A i \in submitted' \cap Spawned : slot'[i] = "empty" => i \in Pending'
    BY <1>1, <1>5 DEF PoolInv, ResultsFirst
  <2>2. \A v \in PoolThreads : place'[v] \in {"done", "finish"} =>
          place[v] \in {"done", "finish"} /\ running'[v] = running[v]
    BY <1>1, <1>3 DEF PoolInv, PoolShape
  <2> QED
    BY <1>1, <2>1, <2>2 DEF PoolInv, ResultsFirst
<1>9. StaysIdle'
  <2>1. unfinished # 0 /\ place'[Owner] = place[Owner]
    BY <1>1, <1>5, PendingIsFinite DEF PoolInv, PoolShape, AllCounted
  <2> QED
    BY <2>1 DEF PoolInv, StaysIdle
<1> QED
  BY <1>2, <1>6, <1>7, <1>8, <1>9 DEF PoolInv

LEMMA NotifiesKeeps ==
  ASSUME PoolInv, NEW a \in Actors, Notifies(a)
  PROVE  PoolInv'
<1> USE WorkersAre DEF Busy
<1>1. PICK woken \in SUBSET AsleepAt("asleep") :
        place' = [b \in Actors |-> IF b = a THEN Base(a) ELSE IF b \in woken THEN "pop" ELSE place[b]]
  BY DEF Notifies, GoesAndWakes
<1>2. /\ place[a] = "notify" /\ handling' = [handling EXCEPT ![a] = Nothing]
      /\ UNCHANGED <<jobs, counters, running, home, submitted, slot>>
  BY DEF Notifies, GoesAndWakes
<1>3. \A b \in woken : place[b] = "asleep"
  BY DEF AsleepAt
<1>4. place'[a] = Base(a) /\ \A b \in Actors : b # a => place'[b] = place[b] \/ (place'[b] = "pop" /\ place[b] = "asleep")
  BY <1>1, <1>3
<1>5. Base(a) = IF a = Owner THEN "open" ELSE "body"
  BY DEF Base
<1>6. PoolShape'
  BY <1>1, <1>2, <1>4, <1>5 DEF PoolInv, PoolShape
<1>7. \A b \in Actors : /\ place'[b] = "push" <=> place[b] = "push"
                        /\ place[b] = "push" => handling'[b] = handling[b]
  BY <1>2, <1>4, <1>5 DEF PoolInv, PoolShape
<1>8. \A w \in PoolThreads : /\ place'[w] \in Busy <=> place[w] \in Busy
                             /\ place'[w] \in {"done", "finish"} => place[w] \in {"done", "finish"}
  BY <1>2, <1>4, <1>5
<1>9. place'[Owner] \in SeenIdle => place[Owner] \in SeenIdle
  BY <1>2, <1>4, <1>5 DEF SeenIdle
<1> HIDE DEF Busy
<1> QED
  BY <1>2, <1>6, <1>7, <1>8, <1>9, PoolStepQuiet DEF counters

LEMMA WorkerKeeps ==
  ASSUME PoolInv, NEW w \in PoolThreads,
         \/ FindsNoJob(w) \/ ChecksShutdown(w) \/ ParksWorker(w) \/ WorkerLooksAgain(w)
         \/ BodyEnds(w) \/ WorkerDies(w)
  PROVE  PoolInv'
<1> USE WorkersAre
<1>1. PICK to : /\ place' = [place EXCEPT ![w] = to]
                /\ \/ /\ place[w] \in {"pop", "drain", "check", "park", "asleep"}
                      /\ to \in {"check", "exited", "drain", "park", "asleep", "pop"}
                   \/ /\ place[w] = "body"
                      /\ \/ to = "value" /\ running[w] \in Spawned
                         \/ to = "finish" /\ running[w] \notin Spawned
                         \/ to = "dead"
  <2>1. CASE BodyEnds(w)
    BY <2>1, EpilogueIs DEF BodyEnds, Goes, Job
  <2> QED
    BY <2>1 DEF FindsNoJob, ChecksShutdown, ParksWorker, WorkerLooksAgain, WorkerDies, Goes
<1>2. UNCHANGED <<jobs, counters, handling, running, home, submitted, slot>>
  BY DEF FindsNoJob, ChecksShutdown, ParksWorker, WorkerLooksAgain, BodyEnds, WorkerDies
<1>3. place'[w] = to /\ \A a \in Actors : a # w => place'[a] = place[a]
  BY <1>1 DEF PoolInv, PoolShape
<1>4. PoolShape'
  BY <1>1, <1>2, <1>3 DEF PoolInv, PoolShape, Busy
<1>5. \A a \in Actors : place'[a] = "push" <=> place[a] = "push"
  BY <1>1, <1>3
<1>6. \A v \in PoolThreads :
        /\ place'[v] \in Busy <=> place[v] \in Busy
        /\ place'[v] \in {"done", "finish"} /\ running[v] \in Spawned => place[v] \in {"done", "finish"}
  BY <1>1, <1>3 DEF Busy
<1>7. place'[Owner] = place[Owner]
  BY <1>3
<1> QED
  BY <1>2, <1>4, <1>5, <1>6, <1>7, PoolStepQuiet DEF counters

LEMMA StoresKeeps ==
  ASSUME PoolInv, NEW w \in PoolThreads, StoresValue(w)
  PROVE  PoolInv'
<1> USE WorkersAre
<1> DEFINE j == running[w]
<1>1. place[w] = "value" /\ j \in Spawned /\ j \in Closures
  BY PoolAssumption DEF StoresValue, Goes, PoolInv, PoolShape
<1>2. StepAfter(j, "value") = "done"
  BY <1>1, EpilogueIs
<1>3. place' = [place EXCEPT ![w] = "done"] /\ running' = running
  BY <1>2 DEF StoresValue, Goes, Onward, Closes, Job, PoolInv, PoolShape
<1>4. PICK result \in {"ok", "panic"} : slot' = [slot EXCEPT ![j] = result]
  BY DEF StoresValue, Job
<1>5. UNCHANGED <<jobs, counters, handling, home, submitted>>
  BY DEF StoresValue
<1>6. place'[w] = "done" /\ \A a \in Actors : a # w => place'[a] = place[a]
  BY <1>3 DEF PoolInv, PoolShape
<1>7. slot'[j] # "empty" /\ \A i \in Closures : slot'[i] = "empty" => slot[i] = "empty"
  BY <1>1, <1>4 DEF PoolInv, PoolShape
<1>8. PoolShape'
  BY <1>1, <1>3, <1>4, <1>5, <1>6 DEF PoolInv, PoolShape, Busy
<1>9. \A v \in PoolThreads :
        /\ place'[v] \in Busy <=> place[v] \in Busy
        /\ place'[v] \in {"done", "finish"} => place[v] \in {"done", "finish"} \/ v = w
  BY <1>1, <1>6 DEF Busy
<1>10. \A a \in Actors : place'[a] = "push" <=> place[a] = "push"
  BY <1>1, <1>6
<1>11. place'[Owner] = place[Owner]
  BY <1>6
<1> QED
  BY <1>3, <1>5, <1>7, <1>8, <1>9, <1>10, <1>11, PoolStepQuiet DEF counters

LEMMA NotifiesJoinerKeeps ==
  ASSUME PoolInv, NEW w \in PoolThreads, NotifiesJoiner(w)
  PROVE  PoolInv'
<1> USE WorkersAre
<1> DEFINE j == running[w]
<1>1. place[w] = "done" /\ j \in Spawned /\ j \in Closures
  BY PoolAssumption DEF NotifiesJoiner, GoesAndWakes, PoolInv, PoolShape
<1>2. StepAfter(j, "done") = "finish"
  BY <1>1, EpilogueIs
<1>3. running' = running /\ UNCHANGED <<jobs, counters, handling, home, submitted, slot>>
  BY <1>2 DEF NotifiesJoiner, Closes, Job, PoolInv, PoolShape
<1>4. PICK joiner \in SUBSET AsleepAt("join asleep") :
        place' = [a \in Actors |-> IF a = w THEN "finish" ELSE IF a \in joiner THEN "join" ELSE place[a]]
  BY <1>2 DEF NotifiesJoiner, GoesAndWakes, Onward, Job
<1>5. /\ place'[w] = "finish" /\ DOMAIN place' = Actors
      /\ \A a \in Actors : a # w => place'[a] = place[a] \/ (place'[a] = "join" /\ place[a] = "join asleep")
  BY <1>4 DEF AsleepAt
<1>6. PoolShape'
  BY <1>1, <1>3, <1>5 DEF PoolInv, PoolShape, Busy
<1>7. \A v \in PoolThreads :
        /\ place'[v] \in Busy <=> place[v] \in Busy
        /\ place'[v] \in {"done", "finish"} => place[v] \in {"done", "finish"}
  BY <1>1, <1>5 DEF Busy
<1>8. \A a \in Actors : place'[a] = "push" <=> place[a] = "push"
  BY <1>1, <1>5
<1>9. place'[Owner] \in SeenIdle => place[Owner] \in SeenIdle
  BY <1>5 DEF SeenIdle
<1> QED
  BY <1>3, <1>6, <1>7, <1>8, <1>9, PoolStepQuiet DEF counters

LEMMA TellsIdleKeeps ==
  ASSUME PoolInv, NEW w \in PoolThreads, TellsIdle(w)
  PROVE  PoolInv'
<1> USE WorkersAre
<1>1. StepAfter(running[w], "finish") = "end"
  BY EpilogueIs
<1>2. place[w] = "tell idle" /\ home[w] \in {"pop", "drain"}
  BY DEF TellsIdle, GoesAndWakes, PoolInv, PoolShape
<1>3. running' = [running EXCEPT ![w] = Nothing] /\ UNCHANGED <<jobs, counters, handling, home, submitted, slot>>
  BY <1>1 DEF TellsIdle, Closes, Job
<1>4. PICK woken \in SUBSET AsleepAt("idle asleep") :
        place' = [a \in Actors |-> IF a = w THEN home[w] ELSE IF a \in woken THEN "idle?" ELSE place[a]]
  BY <1>1 DEF TellsIdle, GoesAndWakes, Onward, Job
<1>5. /\ place'[w] = home[w] /\ DOMAIN place' = Actors
      /\ \A a \in Actors : a # w => place'[a] = place[a] \/ (place'[a] = "idle?" /\ place[a] = "idle asleep")
  BY <1>4 DEF AsleepAt
<1>6. PoolShape'
  BY <1>2, <1>3, <1>5 DEF PoolInv, PoolShape, Busy
<1>7. \A v \in PoolThreads :
        /\ place'[v] \in Busy <=> place[v] \in Busy
        /\ place[v] \in Busy => running'[v] = running[v]
        /\ place'[v] \in {"done", "finish"} => place[v] \in {"done", "finish"}
  BY <1>2, <1>3, <1>5 DEF PoolInv, PoolShape, Busy
<1>8. \A a \in Actors : place'[a] = "push" <=> place[a] = "push"
  BY <1>2, <1>5
<1>9. place'[Owner] \in SeenIdle => place[Owner] \in SeenIdle
  BY <1>5 DEF SeenIdle
<1> QED
  BY <1>3, <1>6, <1>7, <1>8, <1>9, PoolStepQuiet DEF counters

\* wait_for_idle returns on a counter that is zero; nothing runs that could
\* count another job.
LEMMA OwnerKeeps ==
  ASSUME PoolInv,
         \/ JoinTakes \/ JoinWaits \/ IdleLooks \/ IdleLooksAgain \/ IdleReturns \/ ShutsDown
         \/ TellsAll \/ JoinsWorkers \/ (\E j \in Closures : CallsJoin(j)) \/ JoinGivesUp \/ CallsIdle
  PROVE  PoolInv'
<1> USE WorkersAre
<1> DEFINE CallPlaces ==
                    {"open", "join", "join asleep", "idle?", "idle asleep", "idle", "tell all",
                     "join workers", "dropped"}
<1>1. UNCHANGED <<jobs, running, home, submitted, unfinished, completed>>
  BY DEF JoinTakes, JoinWaits, IdleLooks, IdleLooksAgain, IdleReturns, ShutsDown, TellsAll, JoinsWorkers,
         CallsJoin, JoinGivesUp, CallsIdle, ownerStays, counters
<1>2. /\ place[Owner] \in CallPlaces /\ place'[Owner] \in CallPlaces /\ DOMAIN place' = Actors
      /\ \A w \in PoolThreads : place'[w] = place[w] \/ (place'[w] = "pop" /\ place[w] = "asleep")
  <2>1. CASE TellsAll
    BY <2>1 DEF TellsAll, GoesAndWakes, AsleepAt, Actors
  <2>2. CASE ~TellsAll
    BY <2>2 DEF JoinTakes, JoinWaits, IdleLooks, IdleLooksAgain, IdleReturns, ShutsDown, JoinsWorkers,
                CallsJoin, JoinGivesUp, CallsIdle, Goes, PoolInv, PoolShape, Actors
  <2> QED
    BY <2>1, <2>2
<1>3. place'[Owner] \in SeenIdle => place[Owner] \in SeenIdle \/ unfinished = 0
  <2>1. CASE IdleLooks
    <3>1. unfinished \in Nat
      BY PendingIsFinite DEF PoolInv, AllCounted
    <3>2. CASE unfinished > 0
      <4>1. place' = [place EXCEPT ![Owner] = "idle asleep"]
        BY <2>1, <3>2 DEF IdleLooks, Goes
      <4> QED
        BY <4>1 DEF SeenIdle, PoolInv, PoolShape
    <3> QED
      BY <3>1, <3>2
  <2>2. CASE TellsAll
    BY <2>2 DEF TellsAll, GoesAndWakes, SeenIdle
  <2>3. CASE ~IdleLooks /\ ~TellsAll
    BY <2>3 DEF JoinTakes, JoinWaits, IdleLooksAgain, IdleReturns, ShutsDown, JoinsWorkers, CallsJoin,
                JoinGivesUp, CallsIdle, Goes, SeenIdle, PoolInv, PoolShape
  <2> QED
    BY <2>1, <2>2, <2>3
<1>4. /\ handling' \in [Actors -> Closures \cup {Nothing}]
      /\ \A w \in PoolThreads : handling'[w] = handling[w]
  BY DEF JoinTakes, JoinWaits, IdleLooks, IdleLooksAgain, IdleReturns, ShutsDown, TellsAll, JoinsWorkers,
         CallsJoin, JoinGivesUp, CallsIdle, PoolInv, PoolShape
<1>5. /\ slot' \in [Closures -> {"empty", "ok", "panic", "taken"}]
      /\ \A j \in Closures : slot'[j] = "empty" => slot[j] = "empty"
  <2>1. CASE JoinTakes
    BY <2>1 DEF JoinTakes, PoolInv, PoolShape
  <2>2. CASE ~JoinTakes
    BY <2>2 DEF JoinWaits, IdleLooks, IdleLooksAgain, IdleReturns, ShutsDown, TellsAll, JoinsWorkers,
                CallsJoin, JoinGivesUp, CallsIdle, PoolInv, PoolShape
  <2> QED
    BY <2>1, <2>2
<1>6. \A a \in Actors : a = Owner \/ a \in PoolThreads
  BY DEF Actors
<1>7. PoolShape'
  BY <1>1, <1>2, <1>4, <1>5, <1>6 DEF PoolInv, PoolShape, Busy
<1>8. \A a \in Actors : /\ place'[a] = "push" <=> place[a] = "push"
                        /\ place[a] = "push" => handling'[a] = handling[a]
  BY <1>2, <1>4, <1>6
<1>9. \A w \in PoolThreads : /\ place'[w] \in Busy <=> place[w] \in Busy
                             /\ place'[w] \in {"done", "finish"} => place[w] \in {"done", "finish"}
  BY <1>2 DEF Busy
<1> QED
  BY <1>1, <1>3, <1>5, <1>7, <1>8, <1>9, PoolStepQuiet

LEMMA PoolKept == PoolInv /\ [PoolNext]_poolVars => PoolInv'
<1> SUFFICES ASSUME PoolInv, [PoolNext]_poolVars PROVE PoolInv'
  OBVIOUS
<1> USE WorkersAre
<1>1. ASSUME NEW a \in Actors, Submits(a) \/ \E j \in Closures : Counts(a, j) PROVE PoolInv'
  BY <1>1, PushesKeeps, NotifiesKeeps, CountsKeeps DEF Submits
<1>2. ASSUME NEW w \in PoolThreads, Works(w) \/ WorkerDies(w) PROVE PoolInv'
  BY <1>1, <1>2, TakesKeeps, WorkerKeeps, StoresKeeps, NotifiesJoinerKeeps, FinishesKeeps, TellsIdleKeeps
     DEF Works
<1>3. ASSUME OwnerGoesOn \/ OwnerChooses PROVE PoolInv'
  BY <1>1, <1>3, OwnerKeeps DEF OwnerGoesOn, OwnerChooses
<1>4. CASE UNCHANGED poolVars
  <2>1. UNCHANGED <<jobs, unfinished, completed, place, handling, running, home, submitted, slot>>
    BY <1>4 DEF poolVars
  <2>2. PoolShape'
    BY <2>1 DEF PoolInv, PoolShape
  <2> QED
    BY <2>1, <2>2, PoolStepQuiet
<1> QED
  BY <1>2, <1>3, <1>4 DEF PoolNext

\* When wait_for_idle returns, and until the owner calls something else, all
\* that was submitted is done with: for any number of workers, and jobs that
\* submit jobs, panic and are joined meanwhile.
THEOREM IdleMeansDone == PoolSpec => []IdleIsIdle
<1>1. PoolInv => IdleIsIdle
  <2> SUFFICES ASSUME PoolInv, place[Owner] \in SeenIdle
               PROVE  /\ jobs = <<>> /\ completed = Cardinality(submitted)
                      /\ \A w \in PoolThreads : place[w] # "body"
                      /\ \A j \in submitted \cap Spawned : slot[j] # "empty"
    BY DEF IdleIsIdle, SeenIdle
  <2>1. unfinished = 0 /\ Pending = {}
    BY PendingIsFinite DEF PoolInv, StaysIdle, AllCounted
  <2>2. jobs = <<>>
    <3>1. DOMAIN jobs = {}
      BY <2>1 DEF Pending, Queued
    <3>2. jobs \in Seq(Closures) /\ DOMAIN jobs = 1 .. Len(jobs) /\ Len(jobs) \in Nat
      BY DEF PoolInv, PoolShape
    <3>3. Len(jobs) = 0
      BY <3>1, <3>2
    <3> QED
      BY <3>2, <3>3, EmptySeq
  <2>3. completed = Cardinality(submitted)
    BY <2>1, PendingIsFinite DEF PoolInv, AllCounted
  <2>4. \A w \in PoolThreads : place[w] \notin Busy
    BY <2>1 DEF Pending, Taken
  <2> QED
    BY <2>1, <2>2, <2>3, <2>4 DEF Busy, PoolInv, ResultsFirst
<1> QED
  BY PoolStarts, PoolKept, <1>1, PTL DEF PoolSpec

\* What the owner sleeps for is still to come: the job it joins has no value,
\* or its worker is about to notify; and idleness is not there, or a worker is
\* about to tell.
AtDone(j) == \E w \in PoolThreads : place[w] = "done" /\ running[w] = j
TellingIdle == \E w \in PoolThreads : place[w] = "tell idle"

JoinsItsOwn == place[Owner] \in {"join", "join asleep"} => handling[Owner] \in submitted \cap Spawned
JoinAwaited ==
  place[Owner] = "join asleep" => slot[handling[Owner]] = "empty" \/ AtDone(handling[Owner])
IdleAwaited == place[Owner] = "idle asleep" => unfinished > 0 \/ TellingIdle

OwnerInv == JoinsItsOwn /\ JoinAwaited /\ IdleAwaited

OwnerIsAwaited ==
  /\ place[Owner] = "join asleep" =>
       \/ handling[Owner] \in Pending /\ slot[handling[Owner]] = "empty"
       \/ AtDone(handling[Owner])
  /\ place[Owner] = "idle asleep" => Pending # {} \/ TellingIdle

\* Steps that neither end a job nor touch a result leave what is awaited.
LEMMA OwnerSleepsOn ==
  ASSUME OwnerInv, place'[Owner] = place[Owner], handling'[Owner] = handling[Owner],
         submitted \subseteq submitted', slot' = slot,
         unfinished > 0 => unfinished' > 0 \/ TellingIdle',
         \A w \in PoolThreads :
           /\ place[w] = "done" => place'[w] = "done" /\ running'[w] = running[w]
           /\ place[w] = "tell idle" => place'[w] = "tell idle"
  PROVE  OwnerInv'
BY DEF OwnerInv, JoinsItsOwn, JoinAwaited, IdleAwaited, AtDone, TellingIdle

LEMMA OwnerAwake ==
  ASSUME place'[Owner] \notin {"join", "join asleep", "idle asleep"}
  PROVE  OwnerInv'
BY DEF OwnerInv, JoinsItsOwn, JoinAwaited, IdleAwaited

LEMMA OwnerSubmits ==
  ASSUME PoolInv, Submits(Owner) \/ \E j \in Closures : Counts(Owner, j)
  PROVE  OwnerInv'
<1> USE WorkersAre
<1>1. place'[Owner] \in {"push", "notify", "open"}
  BY DEF Submits, Counts, Pushes, Notifies, Goes, GoesAndWakes, Base, PoolInv, PoolShape
<1> QED
  BY <1>1, OwnerAwake

LEMMA WorkerSubmits ==
  ASSUME PoolInv, OwnerInv, NEW w \in PoolThreads, Submits(w) \/ \E j \in Closures : Counts(w, j)
  PROVE  OwnerInv'
<1> USE WorkersAre DEF PoolInv, PoolShape
<1>1. unfinished \in Nat
  BY PendingIsFinite DEF AllCounted
<1>2. CASE \E j \in Closures : Counts(w, j)
  <2>1. PICK j \in Closures : Counts(w, j)
    BY <1>2
  <2>2. /\ place[w] = "body" /\ place' = [place EXCEPT ![w] = "push"]
        /\ handling' = [handling EXCEPT ![w] = j] /\ submitted' = submitted \cup {j}
        /\ unfinished' = unfinished + 1 /\ UNCHANGED <<running, slot>>
    BY <2>1 DEF Counts, Goes, Base
  <2>3. /\ place'[Owner] = place[Owner] /\ handling'[Owner] = handling[Owner]
        /\ \A v \in PoolThreads : v # w => place'[v] = place[v]
    BY <2>2
  <2>4. unfinished' > 0
    BY <1>1, <2>2
  <2> QED
    BY <2>2, <2>3, <2>4, OwnerSleepsOn
<1>3. CASE Pushes(w)
  BY <1>3, OwnerSleepsOn DEF Pushes, Goes, counters
<1>4. CASE Notifies(w)
  <2>1. PICK woken \in SUBSET AsleepAt("asleep") :
          place' = [b \in Actors |-> IF b = w THEN Base(w) ELSE IF b \in woken THEN "pop" ELSE place[b]]
    BY <1>4 DEF Notifies, GoesAndWakes
  <2>2. /\ place[w] = "notify" /\ handling' = [handling EXCEPT ![w] = Nothing]
        /\ UNCHANGED <<jobs, counters, running, home, submitted, slot>>
    BY <1>4 DEF Notifies, GoesAndWakes
  <2>3. \A b \in Actors : b # w => place'[b] = place[b] \/ (place'[b] = "pop" /\ place[b] = "asleep")
    BY <2>1 DEF AsleepAt
  <2>4. CASE place'[Owner] = "pop"
    BY <2>4, OwnerAwake
  <2>5. CASE place'[Owner] # "pop"
    BY <2>2, <2>3, <2>5, OwnerSleepsOn DEF counters
  <2> QED
    BY <2>4, <2>5
<1> QED
  BY <1>2, <1>3, <1>4 DEF Submits

LEMMA WorkerGoesRound ==
  ASSUME PoolInv, OwnerInv, NEW w \in PoolThreads,
         \/ TakesJob(w) \/ FindsNoJob(w) \/ ChecksShutdown(w) \/ ParksWorker(w) \/ WorkerLooksAgain(w)
         \/ BodyEnds(w) \/ WorkerDies(w)
  PROVE  OwnerInv'
<1> USE WorkersAre DEF PoolInv, PoolShape
<1>1. place[w] \in {"pop", "drain", "check", "park", "asleep", "body"}
  BY DEF TakesJob, FindsNoJob, ChecksShutdown, ParksWorker, WorkerLooksAgain, BodyEnds, WorkerDies, Goes
<1>2. \A a \in Actors : a # w => place'[a] = place[a]
  BY DEF TakesJob, FindsNoJob, ChecksShutdown, ParksWorker, WorkerLooksAgain, BodyEnds, WorkerDies, Goes
<1>3. /\ UNCHANGED <<handling, submitted, slot, unfinished>>
      /\ \A v \in PoolThreads : v # w => running'[v] = running[v]
  BY DEF TakesJob, FindsNoJob, ChecksShutdown, ParksWorker, WorkerLooksAgain, BodyEnds, WorkerDies, counters
<1> QED
  BY <1>1, <1>2, <1>3, OwnerSleepsOn

LEMMA StoredForOwner ==
  ASSUME PoolInv, OwnerInv, NEW w \in PoolThreads, StoresValue(w)
  PROVE  OwnerInv'
<1> USE WorkersAre
<1> DEFINE j == running[w]
<1>1. place[w] = "value" /\ j \in Spawned /\ j \in Closures
  BY PoolAssumption DEF StoresValue, Goes, PoolInv, PoolShape
<1>2. StepAfter(j, "value") = "done"
  BY <1>1, EpilogueIs
<1>3. place' = [place EXCEPT ![w] = "done"] /\ running' = running
  BY <1>2 DEF StoresValue, Goes, Onward, Closes, Job, PoolInv, PoolShape
<1>4. PICK result : slot' = [slot EXCEPT ![j] = result]
  BY DEF StoresValue, Job
<1>5. UNCHANGED <<unfinished, handling, submitted>>
  BY DEF StoresValue, counters
<1>6. place'[w] = "done" /\ \A a \in Actors : a # w => place'[a] = place[a]
  BY <1>3 DEF PoolInv, PoolShape
<1>7. JoinsItsOwn' /\ IdleAwaited'
  BY <1>1, <1>5, <1>6 DEF OwnerInv, JoinsItsOwn, IdleAwaited, TellingIdle
<1>8. JoinAwaited'
  <2> SUFFICES ASSUME place'[Owner] = "join asleep"
               PROVE  slot'[handling[Owner]] = "empty" \/ AtDone(handling[Owner])'
    BY <1>5 DEF JoinAwaited, AtDone
  <2>1. CASE handling[Owner] = j
    BY <1>3, <1>5, <1>6, <2>1 DEF AtDone
  <2>2. CASE handling[Owner] # j
    <3>1. slot'[handling[Owner]] = slot[handling[Owner]]
      BY <1>4, <1>6, <2>2 DEF PoolInv, PoolShape, OwnerInv, JoinsItsOwn
    <3>2. AtDone(handling[Owner]) => AtDone(handling[Owner])'
      BY <1>1, <1>3, <1>5, <1>6 DEF AtDone
    <3> QED
      BY <1>6, <3>1, <3>2 DEF OwnerInv, JoinAwaited
  <2> QED
    BY <2>1, <2>2
<1> QED
  BY <1>7, <1>8 DEF OwnerInv

LEMMA JoinerIsNotified ==
  ASSUME PoolInv, OwnerInv, NEW w \in PoolThreads, NotifiesJoiner(w)
  PROVE  OwnerInv'
<1> USE WorkersAre
<1> DEFINE j == running[w]
           joiner == {a \in AsleepAt("join asleep") : handling[a] = j}
<1>1. place[w] = "done" /\ j \in Spawned
  BY DEF NotifiesJoiner, GoesAndWakes, PoolInv, PoolShape
<1>2. StepAfter(j, "done") = "finish"
  BY <1>1, EpilogueIs
<1>3. running' = running /\ UNCHANGED <<unfinished, handling, submitted, slot>>
  BY <1>2 DEF NotifiesJoiner, Closes, Job, counters, PoolInv, PoolShape
<1>4. place' = [a \in Actors |-> IF a = w THEN "finish" ELSE IF a \in joiner THEN "join" ELSE place[a]]
  BY <1>2 DEF NotifiesJoiner, GoesAndWakes, Onward, Job
<1>5. CASE place[Owner] = "join asleep" /\ handling[Owner] = j
  <2>1. place'[Owner] = "join"
    BY <1>4, <1>5 DEF AsleepAt
  <2> QED
    BY <1>3, <1>5, <2>1 DEF OwnerInv, JoinsItsOwn, JoinAwaited, IdleAwaited
<1>6. CASE ~(place[Owner] = "join asleep" /\ handling[Owner] = j)
  <2>1. place'[Owner] = place[Owner] /\ \A a \in Actors : place[a] # "join asleep" /\ a # w => place'[a] = place[a]
    BY <1>4, <1>6 DEF AsleepAt
  <2>2. JoinsItsOwn' /\ IdleAwaited'
    BY <1>1, <1>3, <2>1 DEF OwnerInv, JoinsItsOwn, IdleAwaited, TellingIdle
  <2>3. JoinAwaited'
    BY <1>3, <1>6, <2>1 DEF OwnerInv, JoinAwaited, AtDone
  <2> QED
    BY <2>2, <2>3 DEF OwnerInv
<1> QED
  BY <1>5, <1>6

LEMMA FinishedForOwner ==
  ASSUME PoolInv, OwnerInv, NEW w \in PoolThreads, Finishes(w)
  PROVE  OwnerInv'
<1> USE WorkersAre
<1>1. unfinished \in Nat
  BY PendingIsFinite DEF PoolInv, AllCounted
<1>2. /\ place[w] = "finish" /\ UNCHANGED <<handling, submitted, slot>>
      /\ unfinished' = unfinished - 1
      /\ \A v \in PoolThreads : v # w => running'[v] = running[v]
  BY DEF Finishes, Goes, Closes, PoolInv, PoolShape
<1>3. /\ \A a \in Actors : a # w => place'[a] = place[a]
      /\ unfinished = 1 => place'[w] = "tell idle"
  BY DEF Finishes, Goes, PoolInv, PoolShape
<1>4. unfinished > 0 => unfinished' > 0 \/ TellingIdle'
  <2>1. CASE unfinished = 1
    BY <1>3, <2>1 DEF TellingIdle
  <2>2. CASE unfinished # 1
    BY <1>1, <1>2, <2>2
  <2> QED
    BY <2>1, <2>2
<1> QED
  BY <1>2, <1>3, <1>4, OwnerSleepsOn

LEMMA OwnerIsTold ==
  ASSUME PoolInv, OwnerInv, NEW w \in PoolThreads, TellsIdle(w)
  PROVE  OwnerInv'
<1> USE WorkersAre
<1>1. StepAfter(running[w], "finish") = "end"
  BY EpilogueIs
<1>2. /\ place[w] = "tell idle" /\ running' = [running EXCEPT ![w] = Nothing]
      /\ UNCHANGED <<unfinished, handling, submitted, slot>>
  BY <1>1 DEF TellsIdle, GoesAndWakes, Closes, Job, counters
<1>3. place' = [a \in Actors |-> IF a = w THEN home[w] ELSE IF a \in AsleepAt("idle asleep") THEN "idle?" ELSE place[a]]
  BY <1>1 DEF TellsIdle, GoesAndWakes, Onward, Job
<1>4. CASE place[Owner] = "idle asleep"
  <2>1. place'[Owner] = "idle?"
    BY <1>3, <1>4 DEF AsleepAt
  <2> QED
    BY <2>1, OwnerAwake
<1>5. CASE place[Owner] # "idle asleep"
  <2>1. place'[Owner] = place[Owner]
    BY <1>3, <1>5 DEF AsleepAt
  <2>2. \A v \in PoolThreads : place[v] = "done" => place'[v] = "done" /\ running'[v] = running[v]
    BY <1>2, <1>3 DEF AsleepAt, PoolInv, PoolShape
  <2> QED
    BY <1>2, <1>5, <2>1, <2>2 DEF OwnerInv, JoinsItsOwn, JoinAwaited, IdleAwaited, AtDone
<1> QED
  BY <1>4, <1>5

LEMMA OwnerCalls ==
  ASSUME PoolInv, OwnerInv,
         \/ JoinTakes \/ JoinWaits \/ IdleLooks \/ IdleLooksAgain \/ IdleReturns \/ ShutsDown
         \/ TellsAll \/ JoinsWorkers \/ (\E j \in Closures : CallsJoin(j)) \/ JoinGivesUp \/ CallsIdle
  PROVE  OwnerInv'
<1> USE WorkersAre
<1>1. CASE \E j \in Closures : CallsJoin(j)
  <2>1. place'[Owner] = "join" /\ handling'[Owner] \in submitted' \cap Spawned
    BY <1>1 DEF CallsJoin, Goes, ownerStays, PoolInv, PoolShape
  <2> QED
    BY <2>1 DEF OwnerInv, JoinsItsOwn, JoinAwaited, IdleAwaited
<1>2. CASE JoinWaits
  <2>1. /\ place[Owner] = "join" /\ place'[Owner] = "join asleep" /\ slot'[handling'[Owner]] = "empty"
        /\ UNCHANGED <<handling, submitted>>
    BY <1>2 DEF JoinWaits, Goes, ownerStays, PoolInv, PoolShape
  <2> QED
    BY <2>1 DEF OwnerInv, JoinsItsOwn, JoinAwaited, IdleAwaited
<1>3. CASE IdleLooks
  <2>1. /\ unfinished' = unfinished
        /\ place'[Owner] = IF unfinished > 0 THEN "idle asleep" ELSE "idle"
    BY <1>3 DEF IdleLooks, Goes, counters, PoolInv, PoolShape
  <2> QED
    BY <2>1 DEF OwnerInv, JoinsItsOwn, JoinAwaited, IdleAwaited
<1>4. CASE \/ JoinTakes \/ IdleLooksAgain \/ IdleReturns \/ ShutsDown
           \/ TellsAll \/ JoinsWorkers \/ JoinGivesUp \/ CallsIdle
  <2>1. place'[Owner] \in {"open", "idle?", "tell all", "join workers", "dropped"}
    BY <1>4 DEF JoinTakes, IdleLooksAgain, IdleReturns, ShutsDown, TellsAll, JoinsWorkers, JoinGivesUp,
                CallsIdle, Goes, GoesAndWakes, PoolInv, PoolShape
  <2> QED
    BY <2>1, OwnerAwake
<1> QED
  BY <1>1, <1>2, <1>3, <1>4

LEMMA OwnerKept == PoolInv /\ OwnerInv /\ [PoolNext]_poolVars => OwnerInv'
<1> SUFFICES ASSUME PoolInv, OwnerInv, [PoolNext]_poolVars PROVE OwnerInv'
  OBVIOUS
<1>1. ASSUME NEW w \in PoolThreads, Works(w) \/ WorkerDies(w) PROVE OwnerInv'
  BY <1>1, WorkerSubmits, WorkerGoesRound, StoredForOwner, JoinerIsNotified, FinishedForOwner, OwnerIsTold
     DEF Works
<1>2. ASSUME OwnerGoesOn \/ OwnerChooses PROVE OwnerInv'
  BY <1>2, OwnerSubmits, OwnerCalls DEF OwnerGoesOn, OwnerChooses
<1>3. ASSUME UNCHANGED poolVars PROVE OwnerInv'
  BY <1>3 DEF poolVars, OwnerInv, JoinsItsOwn, JoinAwaited, IdleAwaited, AtDone, TellingIdle
<1> QED
  BY <1>1, <1>2, <1>3 DEF PoolNext

\* No notification is missing to the pool's owner: it sleeps in join only while
\* the job has no result and is queued or with a thread, or its worker is about
\* to notify; and in wait_for_idle only while a job is pending, or the worker
\* that counted the last one down is about to tell.  For any number of workers
\* and jobs, timed-out joins and panics included.
THEOREM OwnerIsWoken == PoolSpec => []OwnerIsAwaited
<1>1. PoolInit => OwnerInv
  BY WorkersAre DEF PoolInit, OwnerInv, JoinsItsOwn, JoinAwaited, IdleAwaited
<1>2. PoolInv /\ OwnerInv => OwnerIsAwaited
  <2> SUFFICES ASSUME PoolInv, OwnerInv PROVE OwnerIsAwaited
    OBVIOUS
  <2>1. unfinished > 0 => Pending # {}
    BY PendingIsFinite DEF PoolInv, AllCounted
  <2>2. place[Owner] = "join asleep" /\ slot[handling[Owner]] = "empty" => handling[Owner] \in Pending
    BY DEF PoolInv, ResultsFirst, OwnerInv, JoinsItsOwn
  <2> QED
    BY <2>1, <2>2 DEF OwnerIsAwaited, OwnerInv, JoinAwaited, IdleAwaited
<1> QED
  BY PoolStarts, PoolKept, OwnerKept, <1>1, <1>2, PTL DEF PoolSpec

=============================================================================
