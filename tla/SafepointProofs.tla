--------------------------- MODULE SafepointProofs ---------------------------
(***************************************************************************)
(* The safety of the safe-point protocol, for any number of threads and    *)
(* objects.  SafetyInv is inductive: the counters are exact, so the        *)
(* collector's comparison of counts is a statement about every thread.     *)
(***************************************************************************)
EXTENDS Safepoint, FiniteSetTheorems, TLAPS

\* The registry mutex is held across steps only by a collector, and always by
\* one that is collecting.
LockHeld ==
  /\ lock # Free => pc[lock] \in {"deciding", "stopping", "collecting"}
  /\ \A t \in At({"collecting"}) : lock = t

\* A collector that has not begun its round carries its own frames.
OwnRootsKept == \A t \in At({"deciding", "queued"}) : frames[t] \subseteq ownRoots[t]

\* At most one thread is between the start of a round and its end, and a
\* round is marked by `stopping`.
OneCollector ==
  /\ stopping <=> At({"stopping", "collecting"}) # {}
  /\ \A s, t \in At({"stopping", "collecting"}) : s = t

\* During a round the gathered roots hold the frames of the collector and of
\* every thread parked at a poll, and what a blocked thread left behind covers
\* its frames for as long as it is away.
PublishedRootsKept ==
  /\ stopping =>
       \A t \in At({"polling", "stopping", "collecting"}) : frames[t] \subseteq roots
  /\ \A t \in At({"away"}) : frames[t] \subseteq blockedRoots[t]

SafetyInv ==
  /\ TypeOK
  /\ CountersExact
  /\ LockHeld
  /\ OwnRootsKept
  /\ ParkedForThisRound
  /\ OneCollector
  /\ WorldStopped
  /\ PublishedRootsKept

----------------------------------------------------------------------------
\* The threads standing at a set of places are finitely many.
LEMMA AtFinite ==
  ASSUME NEW S
  PROVE  IsFiniteSet(At(S)) /\ Cardinality(At(S)) \in Nat
<1>1. IsFiniteSet(Threads) BY ThreadsAssumption
<1>2. At(S) \subseteq Threads BY DEF At
<1> QED BY <1>1, <1>2, FS_Subset, FS_CardinalityType

LEMMA AtFinitePrime ==
  ASSUME NEW S
  PROVE  IsFiniteSet(At(S)') /\ Cardinality(At(S)') \in Nat
<1>1. IsFiniteSet(Threads) BY ThreadsAssumption
<1>2. At(S)' \subseteq Threads BY DEF At
<1> QED BY <1>1, <1>2, FS_Subset, FS_CardinalityType

\* One thread moves: the number of threads at a set of places changes by what
\* that thread contributes.
LEMMA AtMoves ==
  ASSUME NEW S, NEW t \in Threads, NEW q, TypeOK,
         pc' = [pc EXCEPT ![t] = q]
  PROVE  /\ q \in S /\ pc[t] \notin S => Cardinality(At(S)') = Cardinality(At(S)) + 1
         /\ q \notin S /\ pc[t] \in S => Cardinality(At(S)') = Cardinality(At(S)) - 1
         /\ (q \in S <=> pc[t] \in S) => Cardinality(At(S)') = Cardinality(At(S))
<1>1. CASE q \in S /\ pc[t] \notin S
  <2>1. At(S)' = At(S) \cup {t} /\ t \notin At(S) BY <1>1 DEF At, TypeOK
  <2> QED BY <2>1, <1>1, AtFinite, FS_AddElement
<1>2. CASE q \notin S /\ pc[t] \in S
  <2>1. At(S)' = At(S) \ {t} /\ t \in At(S) BY <1>2 DEF At, TypeOK
  <2> QED BY <2>1, <1>2, AtFinite, FS_RemoveElement
<1>3. CASE q \in S <=> pc[t] \in S
  <2>1. At(S)' = At(S) BY <1>3 DEF At, TypeOK
  <2> QED BY <2>1, <1>3
<1> QED BY <1>1, <1>2, <1>3

\* What a thread standing at a place contributes to each counter.
CountsAsRegistered(p) == IF p # "gone" THEN 1 ELSE 0
CountsAsParked(p) == IF p \in ParkedAt THEN 1 ELSE 0
CountsAsBlocked(p) == IF p = "away" THEN 1 ELSE 0

LEMMA Contributions ==
  /\ CountsAsRegistered("gone") = 0
  /\ \A p \in PC \ {"gone"} : CountsAsRegistered(p) = 1
  /\ \A p \in ParkedAt : CountsAsParked(p) = 1
  /\ \A p \in PC \ ParkedAt : CountsAsParked(p) = 0
  /\ CountsAsBlocked("away") = 1
  /\ \A p \in PC \ {"away"} : CountsAsBlocked(p) = 0
  /\ ParkedAt = {"polling", "returning", "queued"}
  /\ PC = {"gone", "running", "polling", "away", "returning", "deciding",
           "queued", "stopping", "collecting"}
BY DEF CountsAsRegistered, CountsAsParked, CountsAsBlocked, ParkedAt, PC

\* What a move does to the three counters, in the terms the actions use.
Moves(t, q) ==
  /\ q \in PC
  /\ pc' = [pc EXCEPT ![t] = q]
  /\ registered' = registered + CountsAsRegistered(q) - CountsAsRegistered(pc[t])
  /\ parked' = parked + CountsAsParked(q) - CountsAsParked(pc[t])
  /\ blocked' = blocked + CountsAsBlocked(q) - CountsAsBlocked(pc[t])

LEMMA CountersMove ==
  ASSUME TypeOK, CountersExact, NEW t \in Threads, NEW q, Moves(t, q)
  PROVE  /\ CountersExact'
         /\ registered' \in Nat /\ parked' \in Nat /\ blocked' \in Nat
<1> USE DEF Moves, CountsAsRegistered, CountsAsParked, CountsAsBlocked
<1>1. registered' = Cardinality(At(PC \ {"gone"})')
  <2> DEFINE S == PC \ {"gone"}
  <2>1. pc[t] \in PC BY DEF TypeOK
  <2>2. (q \in S <=> q # "gone") /\ (pc[t] \in S <=> pc[t] # "gone") BY <2>1
  <2>3. registered = Cardinality(At(S)) BY DEF CountersExact
  <2> HIDE DEF S
  <2>4. /\ q \in S /\ pc[t] \notin S => Cardinality(At(S)') = Cardinality(At(S)) + 1
        /\ q \notin S /\ pc[t] \in S => Cardinality(At(S)') = Cardinality(At(S)) - 1
        /\ (q \in S <=> pc[t] \in S) => Cardinality(At(S)') = Cardinality(At(S))
    BY AtMoves
  <2>5. Cardinality(At(S)) \in Nat BY AtFinite
  <2>6. registered' = Cardinality(At(S)') BY <2>2, <2>3, <2>4, <2>5
  <2> QED BY <2>6 DEF S
<1>2. parked' = Cardinality(At(ParkedAt)')
  <2>1. parked = Cardinality(At(ParkedAt)) BY DEF CountersExact
  <2>2. /\ q \in ParkedAt /\ pc[t] \notin ParkedAt
             => Cardinality(At(ParkedAt)') = Cardinality(At(ParkedAt)) + 1
        /\ q \notin ParkedAt /\ pc[t] \in ParkedAt
             => Cardinality(At(ParkedAt)') = Cardinality(At(ParkedAt)) - 1
        /\ (q \in ParkedAt <=> pc[t] \in ParkedAt)
             => Cardinality(At(ParkedAt)') = Cardinality(At(ParkedAt))
    BY AtMoves
  <2>3. Cardinality(At(ParkedAt)) \in Nat BY AtFinite
  <2> QED BY <2>1, <2>2, <2>3
<1>3. blocked' = Cardinality(At({"away"})')
  <2> DEFINE S == {"away"}
  <2>1. (q \in S <=> q = "away") /\ (pc[t] \in S <=> pc[t] = "away") OBVIOUS
  <2>2. blocked = Cardinality(At(S)) BY DEF CountersExact
  <2> HIDE DEF S
  <2>3. /\ q \in S /\ pc[t] \notin S => Cardinality(At(S)') = Cardinality(At(S)) + 1
        /\ q \notin S /\ pc[t] \in S => Cardinality(At(S)') = Cardinality(At(S)) - 1
        /\ (q \in S <=> pc[t] \in S) => Cardinality(At(S)') = Cardinality(At(S))
    BY AtMoves
  <2>4. Cardinality(At(S)) \in Nat BY AtFinite
  <2>5. blocked' = Cardinality(At(S)') BY <2>1, <2>2, <2>3, <2>4
  <2> QED BY <2>5 DEF S
<1> QED BY <1>1, <1>2, <1>3, AtFinitePrime DEF CountersExact

\* No thread is parked when the counter says so.
LEMMA NobodyParked ==
  ASSUME TypeOK, CountersExact, parked = 0
  PROVE  At(ParkedAt) = {}
BY AtFinite, FS_EmptySet DEF CountersExact

\* The collector's comparison of counts covers every other registered thread.
LEMMA EveryoneStopped ==
  ASSUME TypeOK, CountersExact, EveryoneElseStopped,
         NEW c \in Threads, pc[c] = "stopping"
  PROVE  \A t \in Threads \ {c} : pc[t] \in ParkedAt \cup {"gone", "away"}
<1> DEFINE R == At(PC \ {"gone"})
           S == At(ParkedAt)
           B == At({"away"})
<1>1. IsFiniteSet(R) /\ IsFiniteSet(S) /\ IsFiniteSet(B) BY AtFinite
<1>2. S \cap B = {} BY DEF At, ParkedAt
<1>3. c \in R /\ c \notin S \cup B BY DEF At, ParkedAt, PC
<1>4. S \cup B \subseteq R \ {c} BY <1>3 DEF At, ParkedAt, PC
<1>5. Cardinality(R \ {c}) = Cardinality(R) - 1 /\ IsFiniteSet(R \ {c})
  BY <1>1, <1>3, FS_RemoveElement
<1>6. IsFiniteSet(S \cup B) /\ Cardinality(S \cup B) = Cardinality(S) + Cardinality(B)
  <2>1. IsFiniteSet(S \cup B) BY <1>1, FS_Union
  <2>2. Cardinality(S \cup B) = Cardinality(S) + Cardinality(B) - Cardinality(S \cap B)
    BY <1>1, FS_Union
  <2>3. Cardinality(S \cap B) = 0 BY <1>2, FS_EmptySet
  <2>4. Cardinality(S) \in Nat /\ Cardinality(B) \in Nat BY AtFinite
  <2> QED BY <2>1, <2>2, <2>3, <2>4
<1>7. Cardinality(S \cup B) >= Cardinality(R \ {c})
  <2>1. registered = Cardinality(R) /\ parked = Cardinality(S) /\ blocked = Cardinality(B)
    BY DEF CountersExact
  <2>2. parked + blocked >= registered - 1 BY DEF EveryoneElseStopped
  <2> QED BY <2>1, <2>2, <1>5, <1>6
<1>8. S \cup B = R \ {c}
  <2>1. Cardinality(S \cup B) <= Cardinality(R \ {c}) BY <1>4, <1>5, FS_Subset
  <2>2. Cardinality(S \cup B) = Cardinality(R \ {c})
    BY <2>1, <1>7, <1>5, <1>6, FS_CardinalityType
  <2> QED BY <2>2, <1>4, <1>5, FS_Subset
<1>9. ASSUME NEW t \in Threads \ {c}, pc[t] # "gone" PROVE t \in S \cup B
  BY <1>8, <1>9 DEF At, TypeOK
<1>10. \A t \in S \cup B : pc[t] \in ParkedAt \cup {"away"} BY DEF At
<1> QED BY <1>9, <1>10

----------------------------------------------------------------------------
\* Every step keeps the counters exact.
LEMMA CountersStep ==
  ASSUME TypeOK, CountersExact, NEW t \in Threads, Step(t)
  PROVE  /\ CountersExact'
         /\ registered' \in Nat /\ parked' \in Nat /\ blocked' \in Nat
<1>0. ASSUME UNCHANGED <<registered, parked, blocked, pc>>
      PROVE  /\ CountersExact'
             /\ registered' \in Nat /\ parked' \in Nat /\ blocked' \in Nat
  BY <1>0 DEF CountersExact, TypeOK, At
<1>a. registered \in Nat /\ parked \in Nat /\ blocked \in Nat BY DEF TypeOK
<1>1. CASE Mutate(t)
  BY <1>0, <1>1 DEF Mutate, Allocate, DropLocal, LoadStatic, StoreStatic, ClearStatic,
                    registry, threadState
<1>2. CASE Spawn(t)
  <2>1. PICK c \in Threads, captured \in SUBSET frames[t] : Register(t, c, captured)
    BY <1>2 DEF Spawn
  <2>a. Moves(c, "running") BY <2>1, <1>a, Contributions DEF Moves, Register
  <2> QED BY <2>a, CountersMove
<1>3. CASE Unregister(t)
  <2>a. Moves(t, "gone") BY <1>3, <1>a, Contributions DEF Moves, Unregister, LeaveRegistry
  <2> QED BY <2>a, CountersMove
<1>4. CASE Poll(t)
  <2>a. Moves(t, "polling") BY <1>4, <1>a, Contributions DEF Moves, Poll, Park
  <2> QED BY <2>a, CountersMove
<1>5. CASE SleepAgain(t)
  BY <1>0, <1>5 DEF SleepAgain, registry
<1>6. CASE Resume(t)
  <2>a. Moves(t, "running") BY <1>6, <1>a, Contributions DEF Moves, Resume, Depart
  <2> QED BY <2>a, CountersMove
<1>7. CASE EnterBlocked(t)
  <2>a. Moves(t, "away") BY <1>7, <1>a, Contributions DEF Moves, EnterBlocked, Block
  <2> QED BY <2>a, CountersMove
<1>8. CASE EnterIdle(t)
  <2>a. Moves(t, "away") BY <1>8, <1>a, Contributions DEF Moves, EnterIdle, Block
  <2> QED BY <2>a, CountersMove
<1>9. CASE Return(t)
  <2>1. CASE stopping
    <3>a. Moves(t, "returning") BY <1>9, <2>1, <1>a, Contributions DEF Moves, Return, LeaveBlocked, Park
    <3> QED BY <3>a, CountersMove
  <2>2. CASE ~stopping
    <3>a. Moves(t, "running") BY <1>9, <2>2, <1>a, Contributions DEF Moves, Return, LeaveBlocked
    <3> QED BY <3>a, CountersMove
  <2> QED BY <2>1, <2>2
<1>10. CASE RequestCollection(t)
  <2>a. Moves(t, "deciding") BY <1>10, <1>a, Contributions DEF Moves, RequestCollection, registry
  <2> QED BY <2>a, CountersMove
<1>11. CASE Collect(t)
  <2>1. CASE QueueBehind(t)
    <3>a. Moves(t, "queued") BY <2>1, <1>a, Contributions DEF Moves, QueueBehind, Deciding, Park
    <3> QED BY <3>a, CountersMove
  <2>2. CASE StopQueueing(t)
    <3>a. Moves(t, "deciding") BY <2>2, <1>a, Contributions DEF Moves, StopQueueing, Depart
    <3> QED BY <3>a, CountersMove
  <2>3. CASE AwaitDrain(t)
    BY <1>0, <2>3 DEF AwaitDrain, registry
  <2>4. CASE BeginRound(t)
    <3>a. Moves(t, "stopping") BY <2>4, <1>a, Contributions DEF Moves, BeginRound, Deciding
    <3> QED BY <3>a, CountersMove
  <2>5. CASE AwaitOthers(t)
    BY <1>0, <2>5 DEF AwaitOthers, registry
  <2>6. CASE StartCollecting(t)
    <3>a. Moves(t, "collecting") BY <2>6, <1>a, Contributions DEF Moves, StartCollecting, Stopping, registry
    <3> QED BY <3>a, CountersMove
  <2>7. CASE FinishCollecting(t)
    <3>a. Moves(t, "running") BY <2>7, <1>a, Contributions DEF Moves, FinishCollecting
    <3> QED BY <3>a, CountersMove
  <2> QED BY <1>11, <2>1, <2>2, <2>3, <2>4, <2>5, <2>6, <2>7 DEF Collect
<1>12. CASE SpuriousWake(t)
  BY <1>0, <1>12 DEF SpuriousWake, registry
<1> QED BY <1>1, <1>2, <1>3, <1>4, <1>5, <1>6, <1>7, <1>8, <1>9, <1>10, <1>11,
           <1>12 DEF Step

\* Every step keeps the types; the counters are CountersStep's.
LEMMA TypeStep ==
  ASSUME TypeOK, CountersExact, NEW t \in Threads, Step(t)
  PROVE  TypeOK'
<1> USE EpochAssumption DEF TypeOK, PC
<1>0. registered' \in Nat /\ parked' \in Nat /\ blocked' \in Nat BY CountersStep
<1>1. CASE Mutate(t)
  BY <1>1 DEF Mutate, Allocate, DropLocal, LoadStatic, StoreStatic, ClearStatic,
              registry, threadState
<1>2. CASE Spawn(t)
  BY <1>0, <1>2 DEF Spawn, Register
<1>3. CASE Unregister(t)
  BY <1>0, <1>3 DEF Unregister, LeaveRegistry
<1>4. CASE Poll(t)
  BY <1>0, <1>4 DEF Poll, PublishedByPoll, RootsOf, Park, memory
<1>5. CASE SleepAgain(t)
  BY <1>5 DEF SleepAgain, registry, memory
<1>6. CASE Resume(t)
  BY <1>0, <1>6 DEF Resume, Depart, memory
<1>7. CASE EnterBlocked(t)
  BY <1>0, <1>7 DEF EnterBlocked, Block, RootsOf, memory
<1>8. CASE EnterIdle(t)
  BY <1>0, <1>8 DEF EnterIdle, Block, memory
<1>9. CASE Return(t)
  BY <1>0, <1>9 DEF Return, LeaveBlocked, Park, memory
<1>10. CASE RequestCollection(t)
  BY <1>10 DEF RequestCollection, RootsOf, registry, memory
<1>11. CASE Collect(t)
  <2>1. CASE QueueBehind(t)
    BY <1>0, <2>1 DEF QueueBehind, Park, memory
  <2>2. CASE StopQueueing(t)
    BY <1>0, <2>2 DEF StopQueueing, Depart, memory
  <2>3. CASE AwaitDrain(t)
    BY <2>3 DEF AwaitDrain, registry, memory
  <2>4. CASE BeginRound(t)
    BY <2>4 DEF BeginRound, GatheredAtStart, memory
  <2>5. CASE AwaitOthers(t)
    BY <2>5 DEF AwaitOthers, registry, memory
  <2>6. CASE StartCollecting(t)
    BY <2>6 DEF StartCollecting, registry, memory
  <2>7. CASE FinishCollecting(t)
    <3>1. (epoch + 1) % EpochMod \in 0 .. EpochMod - 1 OBVIOUS
    <3> QED BY <2>7, <3>1 DEF FinishCollecting, ReleaseTheWorld
  <2> QED BY <1>11, <2>1, <2>2, <2>3, <2>4, <2>5, <2>6, <2>7 DEF Collect
<1>12. CASE SpuriousWake(t)
  BY <1>12 DEF SpuriousWake, registry, memory
<1> QED BY <1>1, <1>2, <1>3, <1>4, <1>5, <1>6, <1>7, <1>8, <1>9, <1>10, <1>11,
           <1>12 DEF Step

----------------------------------------------------------------------------
\* Who holds the mutex, which round is on and what has been handed in.
ProtocolInv == /\ LockHeld
               /\ OwnRootsKept
               /\ ParkedForThisRound
               /\ OneCollector
               /\ WorldStopped
               /\ PublishedRootsKept

LEMMA ProtocolStep ==
  ASSUME SafetyInv, NEW t \in Threads, Step(t)
  PROVE  ProtocolInv'
<1> USE ThreadsAssumption
    DEF SafetyInv, TypeOK, ProtocolInv, LockHeld, OwnRootsKept, ParkedForThisRound,
        OneCollector, WorldStopped, PublishedRootsKept, At, ParkedAt
<1>1. CASE Mutate(t)
  BY <1>1 DEF Mutate, Allocate, DropLocal, LoadStatic, StoreStatic, ClearStatic,
              registry, threadState
<1>2. CASE Spawn(t)
  BY <1>2 DEF Spawn, Register
<1>3. CASE Unregister(t)
  BY <1>3 DEF Unregister
<1>4. CASE Poll(t)
  BY <1>4 DEF Poll, PublishedByPoll, RootsOf, Park, memory
<1>5. CASE SleepAgain(t)
  BY <1>5 DEF SleepAgain, registry, memory
<1>6. CASE Resume(t)
  BY <1>6 DEF Resume, memory
<1>7. CASE EnterBlocked(t)
  BY <1>7 DEF EnterBlocked, Block, RootsOf, memory
<1>8. CASE EnterIdle(t)
  BY <1>8 DEF EnterIdle, Block, memory
<1>9. CASE Return(t)
  BY <1>9 DEF Return, LeaveBlocked, Park, memory
<1>10. CASE RequestCollection(t)
  BY <1>10 DEF RequestCollection, RootsOf, registry, memory
<1>11. CASE Collect(t)
  <2>1. CASE QueueBehind(t)
    BY <2>1 DEF QueueBehind, Deciding, Park, memory
  <2>2. CASE StopQueueing(t)
    BY <2>2 DEF StopQueueing, RoundIsOver, memory
  <2>3. CASE AwaitDrain(t)
    BY <2>3 DEF AwaitDrain, Deciding, registry, memory
  <2>4. CASE BeginRound(t)
    <3>1. At(ParkedAt) = {}
      BY <2>4, NobodyParked DEF BeginRound, RoundMayStart, EarlierRoundDraining
    <3> QED BY <2>4, <3>1 DEF BeginRound, Deciding, RoundMayStart, GatheredAtStart, memory
  <2>5. CASE AwaitOthers(t)
    BY <2>5 DEF AwaitOthers, Stopping, registry, memory
  <2>6. CASE StartCollecting(t)
    <3>1. \A s \in Threads \ {t} : pc[s] \in ParkedAt \cup {"gone", "away"}
      BY <2>6, EveryoneStopped DEF StartCollecting, Stopping
    <3> QED BY <2>6, <3>1 DEF StartCollecting, Stopping, registry, memory
  <2>7. CASE FinishCollecting(t)
    BY <2>7 DEF FinishCollecting
  <2> QED BY <1>11, <2>1, <2>2, <2>3, <2>4, <2>5, <2>6, <2>7 DEF Collect
<1>12. CASE SpuriousWake(t)
  BY <1>12 DEF SpuriousWake, registry, memory
<1> QED BY <1>1, <1>2, <1>3, <1>4, <1>5, <1>6, <1>7, <1>8, <1>9, <1>10, <1>11,
           <1>12 DEF Step

----------------------------------------------------------------------------
LEMMA InitSafety == Init => SafetyInv
<1> SUFFICES ASSUME Init PROVE SafetyInv OBVIOUS
<1>1. TypeOK
  <2>1. 0 \in 0 .. EpochMod - 1 BY EpochAssumption
  <2>2. waitingFor \in [Threads -> 0 .. EpochMod - 1] BY <2>1 DEF Init
  <2>3. pc \in [Threads -> PC] BY DEF Init, PC
  <2> QED BY <2>1, <2>2, <2>3 DEF Init, TypeOK
<1>2. CountersExact
  <2>1. At(PC \ {"gone"}) = {Main} /\ At(ParkedAt) = {} /\ At({"away"}) = {}
    BY ThreadsAssumption DEF Init, At, PC, ParkedAt
  <2> QED BY <2>1, FS_Singleton, FS_EmptySet DEF Init, CountersExact
<1>3. ProtocolInv
  BY ThreadsAssumption DEF Init, ProtocolInv, LockHeld, OwnRootsKept, ParkedForThisRound,
     OneCollector, WorldStopped, PublishedRootsKept, At
<1> QED BY <1>1, <1>2, <1>3 DEF SafetyInv, ProtocolInv

LEMMA StepSafety == SafetyInv /\ [Next]_vars => SafetyInv'
<1> SUFFICES ASSUME SafetyInv, [Next]_vars PROVE SafetyInv' OBVIOUS
<1>1. CASE Next
  <2>1. PICK t \in Threads : Step(t) BY <1>1 DEF Next
  <2>2. TypeOK' /\ CountersExact' BY <2>1, TypeStep, CountersStep DEF SafetyInv
  <2>3. ProtocolInv' BY <2>1, ProtocolStep
  <2> QED BY <2>2, <2>3 DEF SafetyInv, ProtocolInv
<1>2. CASE UNCHANGED vars
  BY <1>2 DEF vars, registry, threadState, memory, SafetyInv, TypeOK, CountersExact,
     LockHeld, OwnRootsKept, ParkedForThisRound, OneCollector, WorldStopped,
     PublishedRootsKept, At
<1> QED BY <1>1, <1>2

\* For every number of threads and objects: the registry's counters are exact,
\* rounds do not mix, at most one collector works, no other registered thread
\* runs while it does, and what a parked or blocked thread handed in covers
\* its frames.
THEOREM ProtocolSafety == Spec => []SafetyInv
<1>1. Init => SafetyInv BY InitSafety
<1>2. SafetyInv /\ [Next]_vars => SafetyInv' BY StepSafety
<1> QED BY <1>1, <1>2, PTL DEF Spec

\* safepoint.rs: "It runs with the registry locked, which is what keeps a
\* mutator from leaving its safe point while the collector is working".
THEOREM WorldIsStopped == Spec => []WorldStopped
BY ProtocolSafety, PTL DEF SafetyInv

\* The three counters always equal the number of threads they stand for.
THEOREM CountersAreExact == Spec => []CountersExact
BY ProtocolSafety, PTL DEF SafetyInv

\* safepoint.rs: no thread still counted as parked is one that an earlier
\* round parked and that has not been rescheduled since.
THEOREM RoundsDoNotMix == Spec => []ParkedForThisRound
BY ProtocolSafety, PTL DEF SafetyInv

\* Types, the counters' lower bounds among them.
THEOREM SafepointTypes == Spec => []TypeOK
BY ProtocolSafety, PTL DEF SafetyInv

----------------------------------------------------------------------------
\* Why nothing live is swept when callers do not overlap a collection.

\* One collector at a time, even among those still asking for the round.
CollectorAlone ==
  /\ \A s, t \in At(CollectorAt) : s = t
  /\ At({"queued"}) = {}

\* Whatever a stopped thread holds has been handed in.
FramesHandedIn ==
  /\ \A t \in At({"gone"}) : frames[t] = {}
  /\ stopping => \A t \in Threads : pc[t] # "running" => frames[t] \subseteq roots

\* What the round in progress (or about to begin) will treat as roots.
HandedIn(c) ==
  IF stopping THEN roots
  ELSE ownRoots[c] \cup UNION {blockedRoots[b] : b \in Threads}

\* The statics change as long as somebody runs; the last one to stop hands in
\* their final value.
StaticsHandedIn ==
  \A c \in At(CollectorAt) :
    At({"running"}) # {} \/ statics \subseteq HandedIn(c)

HandoverInv == /\ CollectorAlone
               /\ FramesHandedIn
               /\ StaticsHandedIn
               /\ NoLiveObjectSwept

LEMMA HandoverStep ==
  ASSUME Races = {}, SafetyInv, HandoverInv, NEW t \in Threads, Step(t)
  PROVE  HandoverInv'
<1> USE DEF SafetyInv, TypeOK, LockHeld, OwnRootsKept, OneCollector, PublishedRootsKept,
        HandoverInv, CollectorAlone, FramesHandedIn, StaticsHandedIn, HandedIn,
        NoLiveObjectSwept, At, ParkedAt, CollectorAt
<1>1. CASE Mutate(t)
  BY <1>1 DEF Mutate, Allocate, DropLocal, LoadStatic, StoreStatic, ClearStatic,
              registry, threadState
<1>2. CASE Spawn(t)
  BY <1>2 DEF Spawn, Register
<1>3. CASE Unregister(t)
  BY <1>3 DEF Unregister, MayOverlap, CollectionUnderWay
<1>4. CASE Poll(t)
  BY <1>4 DEF Poll, PublishedByPoll, RootsOf, Park, memory
<1>5. CASE SleepAgain(t)
  BY <1>5 DEF SleepAgain, registry, memory
<1>6. CASE Resume(t)
  BY <1>6 DEF Resume, memory
<1>7. CASE EnterBlocked(t)
  BY <1>7 DEF EnterBlocked, Block, RootsOf, MayOverlap, CollectionUnderWay, memory
<1>8. CASE EnterIdle(t)
  BY <1>8 DEF EnterIdle, Block, MayOverlap, CollectionUnderWay, memory
<1>9. CASE Return(t)
  BY <1>9 DEF Return, LeaveBlocked, Park, memory
<1>10. CASE RequestCollection(t)
  BY <1>10 DEF RequestCollection, RootsOf, MayOverlap, CollectionUnderWay, registry, memory
<1>11. CASE Collect(t)
  <2>1. CASE QueueBehind(t)
    BY <2>1 DEF QueueBehind, Deciding
  <2>2. CASE StopQueueing(t)
    BY <2>2 DEF StopQueueing
  <2>3. CASE AwaitDrain(t)
    BY <2>3 DEF AwaitDrain, registry, memory
  <2>4. CASE BeginRound(t)
    <3>1. At(ParkedAt) = {}
      BY <2>4, NobodyParked DEF BeginRound, RoundMayStart, EarlierRoundDraining
    <3>2. /\ ownRoots[t] \subseteq roots'
          /\ \A b \in Threads : blockedRoots[b] \subseteq roots'
      BY <2>4 DEF BeginRound, GatheredAtStart
    <3>3. roots' = HandedIn(t) BY <2>4 DEF BeginRound, RoundMayStart, GatheredAtStart
    <3>4. \A s \in Threads : pc'[s] # "running" => frames[s] \subseteq roots'
      BY <2>4, <3>1, <3>2 DEF BeginRound, Deciding, PC
    <3> QED
      BY <2>4, <3>3, <3>4 DEF BeginRound, Deciding, memory
  <2>5. CASE AwaitOthers(t)
    BY <2>5 DEF AwaitOthers, registry, memory
  <2>6. CASE StartCollecting(t)
    BY <2>6 DEF StartCollecting, Stopping, registry, memory
  <2>7. CASE FinishCollecting(t)
    <3>1. \A s \in Threads \ {t} : pc[s] \in ParkedAt \cup {"gone", "away"}
      BY <2>7 DEF FinishCollecting, WorldStopped
    <3> QED BY <2>7, <3>1 DEF FinishCollecting
  <2> QED BY <1>11, <2>1, <2>2, <2>3, <2>4, <2>5, <2>6, <2>7 DEF Collect
<1>12. CASE SpuriousWake(t)
  BY <1>12 DEF SpuriousWake, registry, memory
<1> QED BY <1>1, <1>2, <1>3, <1>4, <1>5, <1>6, <1>7, <1>8, <1>9, <1>10, <1>11,
           <1>12 DEF Step

\* "The closure receives every root in the process" (safepoint.rs): it does,
\* for every number of threads and objects, as long as no second request, no
\* blocking call and no exit overlaps a collection.
THEOREM NothingLiveIsSwept ==
  ASSUME Races = {}
  PROVE  Spec => []NoLiveObjectSwept
<1>1. Init => SafetyInv /\ HandoverInv
  BY InitSafety DEF Init, HandoverInv, CollectorAlone, FramesHandedIn, StaticsHandedIn,
     NoLiveObjectSwept, At, CollectorAt
<1>2. SafetyInv /\ HandoverInv /\ [Next]_vars => SafetyInv' /\ HandoverInv'
  <2> SUFFICES ASSUME SafetyInv, HandoverInv, [Next]_vars PROVE SafetyInv' /\ HandoverInv'
    OBVIOUS
  <2>1. CASE Next
    <3>1. PICK t \in Threads : Step(t) BY <2>1 DEF Next
    <3> QED BY <3>1, <2>1, StepSafety, HandoverStep
  <2>2. CASE UNCHANGED vars
    <3>1. SafetyInv' BY <2>2, StepSafety
    <3>2. HandoverInv'
      BY <2>2 DEF vars, registry, threadState, memory, HandoverInv, CollectorAlone,
         FramesHandedIn, StaticsHandedIn, HandedIn, NoLiveObjectSwept, At
    <3> QED BY <3>1, <3>2
  <2> QED BY <2>1, <2>2
<1>3. HandoverInv => NoLiveObjectSwept BY DEF HandoverInv
<1> QED BY <1>1, <1>2, <1>3, PTL DEF Spec

----------------------------------------------------------------------------
\* Nobody sleeps through the end of what it waits for.

Asleep == onParked \cup onResumed

\* A parked thread sleeps only for the round that is on; a collector sleeps
\* only while a thread of an earlier round has not left, or, its own round
\* begun, while the counters say that a thread has not stopped; and who has
\* the mutex is awake.
SleepInv ==
  /\ \A t \in onResumed : pc[t] \in ParkedAt /\ stopping /\ epoch = waitingFor[t]
  /\ \A t \in onParked : \/ pc[t] = "deciding" /\ ~stopping /\ parked > 0
                         \/ pc[t] = "stopping" /\ ~EveryoneElseStopped
  /\ lock \notin Asleep

\* For each sleeper somebody is awake, and not in a blocking call, whose next
\* steps are what it waits for.
SleepersAreAwaited ==
  /\ \A t \in onResumed : \E c \in Threads : pc[c] \in {"stopping", "collecting"}
  /\ \A c \in onParked :
       \/ pc[c] = "deciding" /\ \E t \in At(ParkedAt) \ Asleep : RoundIsOver(t)
       \/ pc[c] = "stopping" /\ At({"running", "deciding"}) \ Asleep # {}
  /\ Asleep # {} => At(PC \ {"gone", "away"}) \ Asleep # {}
  /\ lock \notin Asleep

LEMMA SleepStep ==
  ASSUME SafetyInv, SleepInv, NEW t \in Threads, Step(t)
  PROVE  SleepInv'
<1> USE ThreadsAssumption
    DEF SafetyInv, TypeOK, LockHeld, ParkedForThisRound, OneCollector,
        SleepInv, Asleep, EveryoneElseStopped, At, ParkedAt
<1>1. CASE Mutate(t)
  BY <1>1 DEF Mutate, Allocate, DropLocal, LoadStatic, StoreStatic, ClearStatic,
              registry, threadState
<1>2. CASE Spawn(t)
  BY <1>2 DEF Spawn, Register
<1>3. CASE Unregister(t)
  BY <1>3 DEF Unregister, LeaveRegistry
<1>4. CASE Poll(t)
  BY <1>4 DEF Poll, Park
<1>5. CASE SleepAgain(t)
  BY <1>5 DEF SleepAgain, RoundIsOver, registry
<1>6. CASE Resume(t)
  BY <1>6 DEF Resume, Depart
<1>7. CASE EnterBlocked(t)
  BY <1>7 DEF EnterBlocked, Block
<1>8. CASE EnterIdle(t)
  BY <1>8 DEF EnterIdle, Block
<1>9. CASE Return(t)
  BY <1>9 DEF Return, LeaveBlocked, Park
<1>10. CASE RequestCollection(t)
  BY <1>10 DEF RequestCollection, registry
<1>11. CASE Collect(t)
  <2>1. CASE QueueBehind(t)
    BY <2>1 DEF QueueBehind, Deciding, Park
  <2>2. CASE StopQueueing(t)
    BY <2>2 DEF StopQueueing, Depart
  <2>3. CASE AwaitDrain(t)
    BY <2>3 DEF AwaitDrain, Deciding, EarlierRoundDraining, registry
  <2>4. CASE BeginRound(t)
    BY <2>4 DEF BeginRound, Deciding, RoundMayStart, EarlierRoundDraining
  <2>5. CASE AwaitOthers(t)
    BY <2>5 DEF AwaitOthers, Stopping, registry
  <2>6. CASE StartCollecting(t)
    BY <2>6 DEF StartCollecting, Stopping, registry
  <2>7. CASE FinishCollecting(t)
    BY <2>7 DEF FinishCollecting, ReleaseTheWorld
  <2> QED BY <1>11, <2>1, <2>2, <2>3, <2>4, <2>5, <2>6, <2>7 DEF Collect
<1>12. CASE SpuriousWake(t)
  BY <1>12 DEF SpuriousWake, registry
<1> QED BY <1>1, <1>2, <1>3, <1>4, <1>5, <1>6, <1>7, <1>8, <1>9, <1>10, <1>11,
           <1>12 DEF Step

\* What the counters do not cover is a thread that has not stopped.
LEMMA SomeoneStillRuns ==
  ASSUME TypeOK, CountersExact, ~EveryoneElseStopped, NEW c \in Threads, pc[c] = "stopping"
  PROVE  \E t \in Threads \ {c} : pc[t] \notin ParkedAt \cup {"gone", "away"}
<1> DEFINE R == At(PC \ {"gone"})
           S == At(ParkedAt)
           B == At({"away"})
<1>1. SUFFICES ASSUME \A t \in Threads \ {c} : pc[t] \in ParkedAt \cup {"gone", "away"} PROVE FALSE
  OBVIOUS
<1>2. IsFiniteSet(R) /\ IsFiniteSet(S) /\ IsFiniteSet(B) BY AtFinite
<1>3. R \ {c} \subseteq S \cup B /\ c \in R BY <1>1 DEF At, ParkedAt, PC
<1>4. IsFiniteSet(S \cup B) /\ S \cap B = {} BY <1>2, FS_Union DEF At, ParkedAt
<1>5. Cardinality(R \ {c}) <= Cardinality(S \cup B) BY <1>3, <1>4, FS_Subset
<1>6. Cardinality(R \ {c}) = Cardinality(R) - 1 BY <1>2, <1>3, FS_RemoveElement
<1>7. Cardinality(S \cup B) = Cardinality(S) + Cardinality(B) - Cardinality(S \cap B)
  BY <1>2, FS_Union
<1>8. Cardinality(S \cap B) = 0 BY <1>4, FS_EmptySet
<1>9. registered = Cardinality(R) /\ parked = Cardinality(S) /\ blocked = Cardinality(B)
  BY DEF CountersExact
<1>10. Cardinality(R) \in Nat /\ Cardinality(S) \in Nat /\ Cardinality(B) \in Nat
  BY AtFinite
<1>11. parked + blocked >= registered - 1
  BY <1>5, <1>6, <1>7, <1>8, <1>9, <1>10
<1> QED BY <1>11 DEF EveryoneElseStopped

LEMMA SomeoneIsParked ==
  ASSUME TypeOK, CountersExact, parked > 0
  PROVE  At(ParkedAt) # {}
BY FS_EmptySet DEF CountersExact

LEMMA AwakeForEachSleeper ==
  ASSUME SafetyInv, SleepInv
  PROVE  SleepersAreAwaited
<1>1. ASSUME NEW t \in onResumed PROVE \E c \in Threads : pc[c] \in {"stopping", "collecting"}
  BY <1>1 DEF SleepInv, SafetyInv, OneCollector, At
<1>2. ASSUME NEW c \in onParked, pc[c] = "deciding"
      PROVE  \E t \in At(ParkedAt) \ Asleep : RoundIsOver(t)
  <2>1. ~stopping /\ parked > 0 BY <1>2 DEF SleepInv
  <2>2. PICK t \in At(ParkedAt) : TRUE BY <2>1, SomeoneIsParked DEF SafetyInv
  <2>3. t \notin Asleep BY <2>1, <2>2 DEF SleepInv, Asleep, At, ParkedAt
  <2> QED BY <2>1, <2>2, <2>3 DEF RoundIsOver
<1>3. ASSUME NEW c \in onParked, pc[c] = "stopping"
      PROVE  At({"running", "deciding"}) \ Asleep # {}
  <2>1. c \in Threads /\ stopping /\ ~EveryoneElseStopped
    BY <1>3 DEF SleepInv, SafetyInv, TypeOK, OneCollector, At
  <2>2. PICK t \in Threads \ {c} : pc[t] \notin ParkedAt \cup {"gone", "away"}
    BY <1>3, <2>1, SomeoneStillRuns DEF SafetyInv
  <2>3. pc[t] \notin {"stopping", "collecting"}
    BY <1>3, <2>1, <2>2 DEF SafetyInv, OneCollector, At
  <2>4. pc[t] \in {"running", "deciding"}
    BY <2>2, <2>3 DEF SafetyInv, TypeOK, PC, ParkedAt
  <2>5. t \notin Asleep BY <2>1, <2>4 DEF SleepInv, Asleep, ParkedAt
  <2> QED BY <2>4, <2>5 DEF At
<1>4. \A c \in onParked : pc[c] \in {"deciding", "stopping"} BY DEF SleepInv
<1>5. ASSUME onParked # {} PROVE At(PC \ {"gone", "away"}) \ Asleep # {}
  BY <1>2, <1>3, <1>4, <1>5 DEF At, PC, ParkedAt
<1>6. ASSUME onParked = {}, onResumed # {} PROVE At(PC \ {"gone", "away"}) \ Asleep # {}
  <2>1. PICK c \in Threads : pc[c] \in {"stopping", "collecting"} BY <1>1, <1>6
  <2>2. c \notin Asleep BY <1>6, <2>1 DEF SleepInv, Asleep, ParkedAt
  <2> QED BY <2>1, <2>2 DEF At, PC
<1>7. lock \notin Asleep BY DEF SleepInv
<1> QED BY <1>1, <1>2, <1>3, <1>4, <1>5, <1>6, <1>7 DEF SleepersAreAwaited, Asleep

\* No notify_all is missing, whatever the callers overlap: a thread parked for
\* a round sleeps only while a collector is at it; a collector sleeps only
\* while a thread that has not stopped, or not left the last round, is awake;
\* and the registry mutex is never kept by a sleeper.
THEOREM NobodyOversleeps == Spec => []SleepersAreAwaited
<1>1. Init => SleepInv
  BY ThreadsAssumption DEF Init, SleepInv, Asleep
<1>2. SafetyInv /\ SleepInv /\ [Next]_vars => SleepInv'
  <2>1. ASSUME SafetyInv, SleepInv, UNCHANGED vars PROVE SleepInv'
    BY <2>1 DEF vars, registry, threadState, SleepInv, Asleep, EveryoneElseStopped
  <2> QED BY <2>1, SleepStep DEF Next
<1> QED BY <1>1, <1>2, ProtocolSafety, AwakeForEachSleeper, PTL DEF Spec

=============================================================================
