------------------------------ MODULE Safepoint ------------------------------
(***************************************************************************)
(* Stop-the-world protocol of rustclr-gc/src/safepoint.rs (std_impl) with  *)
(* the callers that drive it: Interpreter::maybe_collect, force_collect,   *)
(* worker, blocking and blocked_now in rustclr-core/src/interp.rs, and the *)
(* compiled-code safe point of rustclr-jit/src/alloc.rs.                   *)
(*                                                                         *)
(* One action is one stretch of code under the registry mutex.  `lock` is  *)
(* the holder when a stretch spans several actions (the collection itself  *)
(* runs under the mutex).  Condition variables are the sets of the threads *)
(* asleep on them, so a missing notify_all is visible; a sleeper may also  *)
(* wake spuriously.                                                        *)
(*                                                                         *)
(* An object stands for itself and everything reachable only through it.   *)
(* A thread's roots are its frames plus the statics all threads share      *)
(* (Interpreter::roots calls loader.static_roots).                         *)
(***************************************************************************)
EXTENDS Integers, FiniteSets

CONSTANTS Threads,     \* threads that may ever be mutators
          Main,        \* the thread registered from the start
          Objects,     \* handles
          Free,        \* nobody holds the registry mutex
          EpochMod,    \* the epoch is a counter that wraps: wrapping_add
          Races        \* what callers may do while a collection is under way

(***************************************************************************)
(* The source lets a caller start any operation at any time.  `Races` says *)
(* which of them the environment overlaps with another thread's            *)
(* collection; with all four it is unrestricted.                           *)
(***************************************************************************)
AllRaces == {"collect", "block", "idle", "exit"}

ASSUME ThreadsAssumption == /\ IsFiniteSet(Threads)
                            /\ Main \in Threads
                            /\ Free \notin Threads
ASSUME EpochAssumption == EpochMod \in Nat /\ EpochMod > 1
ASSUME RacesAssumption == Races \subseteq AllRaces

VARIABLES
  registered, parked, blocked,  \* State: the three counters
  blockedRoots,                 \* State: roots handed over by blocked threads
  stopping, epoch,              \* State
  roots,                        \* State: roots gathered for the current round
  lock,                         \* holder of the registry mutex, or Free
  onParked, onResumed,          \* threads asleep on the two condvars
  pc,                           \* where each thread stands in the protocol
  waitingFor,                   \* poll/drop/stop_the_world: `waiting_for`
  ownRoots,                     \* stop_the_world: its `own_roots` argument
  frames, statics, heap         \* what the mutators hold; what is allocated

registry == <<registered, parked, blocked, blockedRoots, stopping, epoch, roots>>
threadState == <<lock, onParked, onResumed, pc, waitingFor, ownRoots>>
memory == <<frames, statics, heap>>
vars == <<registry, threadState, memory>>

PC == { "gone",       \* not registered
        "running",    \* executing managed code
        "polling",    \* parked in poll
        "away",       \* holds a Blocked guard
        "returning",  \* parked in Blocked::drop
        "deciding",   \* in stop_the_world, before its round starts
        "queued",     \* in stop_the_world, parked behind another collector
        "stopping",   \* its round has started; waiting for the others
        "collecting" }\* runs the collect closure

ParkedAt == {"polling", "returning", "queued"}
CollectorAt == {"deciding", "queued", "stopping", "collecting"}

At(S) == {t \in Threads : pc[t] \in S}
RootsOf(t) == frames[t] \cup statics
CollectionUnderWay == At(CollectorAt) # {}
MayOverlap(race) == race \in Races \/ ~CollectionUnderWay

TypeOK ==
  /\ registered \in Nat /\ parked \in Nat /\ blocked \in Nat
  /\ blockedRoots \in [Threads -> SUBSET Objects]
  /\ stopping \in BOOLEAN
  /\ epoch \in 0 .. EpochMod - 1
  /\ roots \subseteq Objects
  /\ lock \in Threads \cup {Free}
  /\ onParked \subseteq Threads /\ onResumed \subseteq Threads
  /\ pc \in [Threads -> PC]
  /\ waitingFor \in [Threads -> 0 .. EpochMod - 1]
  /\ ownRoots \in [Threads -> SUBSET Objects]
  /\ frames \in [Threads -> SUBSET Objects]
  /\ statics \subseteq Objects /\ heap \subseteq Objects

Init ==
  /\ registered = 1 /\ parked = 0 /\ blocked = 0
  /\ blockedRoots = [t \in Threads |-> {}]
  /\ stopping = FALSE /\ epoch = 0 /\ roots = {}
  /\ lock = Free /\ onParked = {} /\ onResumed = {}
  /\ pc = [t \in Threads |-> IF t = Main THEN "running" ELSE "gone"]
  /\ waitingFor = [t \in Threads |-> 0]
  /\ ownRoots = [t \in Threads |-> {}]
  /\ frames = [t \in Threads |-> {}] /\ statics = {} /\ heap = {}

----------------------------------------------------------------------------
\* Managed code: what a running thread does to the object graph.  None of it
\* takes the registry mutex.

Allocate(t, o) ==
  /\ pc[t] = "running" /\ o \notin heap
  /\ heap' = heap \cup {o}
  /\ frames' = [frames EXCEPT ![t] = @ \cup {o}]
  /\ UNCHANGED <<registry, threadState, statics>>

DropLocal(t, o) ==
  /\ pc[t] = "running" /\ o \in frames[t]
  /\ frames' = [frames EXCEPT ![t] = @ \ {o}]
  /\ UNCHANGED <<registry, threadState, statics, heap>>

LoadStatic(t, o) ==
  /\ pc[t] = "running" /\ o \in statics
  /\ frames' = [frames EXCEPT ![t] = @ \cup {o}]
  /\ UNCHANGED <<registry, threadState, statics, heap>>

StoreStatic(t, o) ==
  /\ pc[t] = "running" /\ o \in frames[t]
  /\ statics' = statics \cup {o}
  /\ UNCHANGED <<registry, threadState, frames, heap>>

ClearStatic(t, o) ==
  /\ pc[t] = "running" /\ o \in statics
  /\ statics' = statics \ {o}
  /\ UNCHANGED <<registry, threadState, frames, heap>>

----------------------------------------------------------------------------
\* Joining and leaving the registry.

\* Interpreter::spawn: the parent registers the worker before the thread runs.
Register(p, t, captured) ==
  /\ pc[p] = "running" /\ pc[t] = "gone" /\ lock = Free
  /\ captured \subseteq frames[p]
  /\ registered' = registered + 1
  /\ pc' = [pc EXCEPT ![t] = "running"]
  /\ frames' = [frames EXCEPT ![t] = captured]
  /\ UNCHANGED <<parked, blocked, blockedRoots, stopping, epoch, roots, lock,
                 onParked, onResumed, waitingFor, ownRoots, statics, heap>>

UnregisterSilently(t) ==   \* mutant: no notify_all after unregistering
  /\ registered' = registered - 1
  /\ UNCHANGED onParked

UnregisterTwice(t) ==      \* mutant: the count goes down twice
  /\ registered' = registered - 2
  /\ onParked' = {}

\* Body of Registration::drop: the count goes down and a collector is woken.
LeaveRegistry(t) ==
  /\ registered' = registered - 1
  /\ onParked' = {}

\* The process ends with Main, so Main stays registered as long as there is one.
Unregister(t) ==
  /\ pc[t] = "running" /\ t # Main /\ lock = Free /\ MayOverlap("exit")
  /\ LeaveRegistry(t)
  /\ pc' = [pc EXCEPT ![t] = "gone"]
  /\ frames' = [frames EXCEPT ![t] = {}]
  /\ UNCHANGED <<parked, blocked, blockedRoots, stopping, epoch, roots, lock,
                 onResumed, waitingFor, ownRoots, statics, heap>>

----------------------------------------------------------------------------
\* Parking: poll, Blocked::drop and a competing collector share these steps.

\* Counted as parked, collector woken, asleep until the round is over.
Park(t, where) ==
  /\ parked' = parked + 1
  /\ onParked' = {}
  /\ onResumed' = onResumed \cup {t}
  /\ waitingFor' = [waitingFor EXCEPT ![t] = epoch]
  /\ pc' = [pc EXCEPT ![t] = where]

RoundIsOver(t) == ~(stopping /\ epoch = waitingFor[t])

PublishedByPoll(t) == RootsOf(t)

Poll(t) ==
  /\ pc[t] = "running" /\ lock = Free /\ stopping
  /\ roots' = roots \cup PublishedByPoll(t)
  /\ Park(t, "polling")
  /\ UNCHANGED <<registered, blocked, blockedRoots, stopping, epoch, lock,
                 ownRoots, memory>>

\* Awake under the mutex, but the round it parked for is still on.
SleepAgain(t) ==
  /\ pc[t] \in ParkedAt /\ t \notin onResumed /\ lock = Free
  /\ ~RoundIsOver(t)
  /\ onResumed' = onResumed \cup {t}
  /\ UNCHANGED <<registry, lock, onParked, pc, waitingFor, ownRoots, memory>>

DepartStillCounted(t) == UNCHANGED parked /\ onParked' = {}   \* mutant
Depart(t) == parked' = parked - 1 /\ onParked' = {}

Resume(t) ==
  /\ pc[t] \in {"polling", "returning"} /\ t \notin onResumed /\ lock = Free
  /\ RoundIsOver(t)
  /\ Depart(t)
  /\ pc' = [pc EXCEPT ![t] = "running"]
  /\ UNCHANGED <<registered, blocked, blockedRoots, stopping, epoch, roots,
                 lock, onResumed, waitingFor, ownRoots, memory>>

----------------------------------------------------------------------------
\* Blocking calls.

Block(t, kept) ==
  /\ pc[t] = "running" /\ lock = Free
  /\ blocked' = blocked + 1
  /\ blockedRoots' = [blockedRoots EXCEPT ![t] = kept]
  /\ onParked' = {}
  /\ pc' = [pc EXCEPT ![t] = "away"]
  /\ UNCHANGED <<registered, parked, stopping, epoch, roots, lock, onResumed,
                 waitingFor, ownRoots, memory>>

\* blocked_with: Join, Monitor.Enter, Monitor.Wait, native calls.
EnterBlocked(t) == (stopping => MayOverlap("block")) /\ Block(t, RootsOf(t))

\* blocked: an idle pool worker, whose frames are empty.
EnterIdle(t) == frames[t] = {} /\ MayOverlap("idle") /\ Block(t, {})

\* The tail of Blocked::drop: back to managed code, or parked until the round
\* in progress is over.
LeaveBlocked(t) ==
  \/ /\ stopping
     /\ Park(t, "returning")
  \/ /\ ~stopping
     /\ pc' = [pc EXCEPT ![t] = "running"]
     /\ UNCHANGED <<parked, onParked, onResumed, waitingFor>>

Return(t) ==
  /\ pc[t] = "away" /\ lock = Free
  /\ blocked' = blocked - 1
  /\ blockedRoots' = [blockedRoots EXCEPT ![t] = {}]
  /\ LeaveBlocked(t)
  /\ UNCHANGED <<registered, stopping, epoch, roots, lock, ownRoots, memory>>

----------------------------------------------------------------------------
\* stop_the_world.

\* force_collect takes its roots before it asks for the registry mutex.
RequestCollection(t) ==
  /\ pc[t] = "running" /\ MayOverlap("collect")
  /\ ownRoots' = [ownRoots EXCEPT ![t] = RootsOf(t)]
  /\ pc' = [pc EXCEPT ![t] = "deciding"]
  /\ UNCHANGED <<registry, lock, onParked, onResumed, waitingFor, memory>>

\* At the head of the outer loop, holding (or taking) the mutex.
Deciding(t) == pc[t] = "deciding" /\ t \notin onParked /\ lock \in {Free, t}

QueueBehind(t) ==
  /\ Deciding(t) /\ stopping
  /\ Park(t, "queued")
  /\ lock' = Free
  /\ UNCHANGED <<registered, blocked, blockedRoots, stopping, epoch, roots,
                 ownRoots, memory>>

\* The competitor's round is over; it keeps the mutex for the loop's head.
StopQueueing(t) ==
  /\ pc[t] = "queued" /\ t \notin onResumed /\ lock = Free
  /\ RoundIsOver(t)
  /\ Depart(t)
  /\ pc' = [pc EXCEPT ![t] = "deciding"]
  /\ lock' = t
  /\ UNCHANGED <<registered, blocked, blockedRoots, stopping, epoch, roots,
                 onResumed, waitingFor, ownRoots, memory>>

NothingToDrain == FALSE           \* mutant: rounds start back to back
EarlierRoundDraining == parked > 0

AwaitDrain(t) ==
  /\ Deciding(t) /\ ~stopping /\ EarlierRoundDraining
  /\ onParked' = onParked \cup {t}
  /\ lock' = Free
  /\ UNCHANGED <<registry, onResumed, pc, waitingFor, ownRoots, memory>>

RoundMayStart == ~stopping /\ ~EarlierRoundDraining

GatheredWithoutBlocked(t) == ownRoots[t]                       \* mutant
GatheredAtStart(t) == ownRoots[t] \cup UNION {blockedRoots[b] : b \in Threads}

BeginRound(t) ==
  /\ Deciding(t) /\ RoundMayStart
  /\ stopping' = TRUE
  /\ roots' = GatheredAtStart(t)
  /\ ownRoots' = [ownRoots EXCEPT ![t] = {}]   \* moved into `roots`
  /\ pc' = [pc EXCEPT ![t] = "stopping"]
  /\ lock' = t
  /\ UNCHANGED <<registered, parked, blocked, blockedRoots, epoch, onParked,
                 onResumed, waitingFor, memory>>

EveryoneButTwoStopped == parked + blocked >= registered - 2    \* mutant
EveryoneElseStopped == parked + blocked >= registered - 1

Stopping(t) == pc[t] = "stopping" /\ t \notin onParked /\ lock \in {Free, t}

AwaitOthers(t) ==
  /\ Stopping(t) /\ ~EveryoneElseStopped
  /\ onParked' = onParked \cup {t}
  /\ lock' = Free
  /\ UNCHANGED <<registry, onResumed, pc, waitingFor, ownRoots, memory>>

StartCollecting(t) ==
  /\ Stopping(t) /\ EveryoneElseStopped
  /\ pc' = [pc EXCEPT ![t] = "collecting"]
  /\ lock' = t
  /\ UNCHANGED <<registry, onParked, onResumed, waitingFor, ownRoots, memory>>

ReleaseTheWorld == onResumed' = {}

\* The sweep keeps what the gathered roots reach, then the round ends.
FinishCollecting(t) ==
  /\ pc[t] = "collecting"
  /\ heap' = heap \cap roots
  /\ roots' = {}
  /\ stopping' = FALSE
  /\ epoch' = (epoch + 1) % EpochMod
  /\ ReleaseTheWorld
  /\ pc' = [pc EXCEPT ![t] = "running"]
  /\ lock' = Free
  /\ UNCHANGED <<registered, parked, blocked, blockedRoots, onParked,
                 waitingFor, ownRoots, frames, statics>>

\* A condition variable may wake a sleeper for no reason.
SpuriousWake(t) ==
  /\ t \in onParked \cup onResumed
  /\ onParked' = onParked \ {t} /\ onResumed' = onResumed \ {t}
  /\ UNCHANGED <<registry, lock, pc, waitingFor, ownRoots, memory>>

----------------------------------------------------------------------------
Mutate(t) == \E o \in Objects : \/ Allocate(t, o) \/ DropLocal(t, o)
                                \/ LoadStatic(t, o) \/ StoreStatic(t, o)
                                \/ ClearStatic(t, o)

Spawn(p) == \E t \in Threads, captured \in SUBSET frames[p] : Register(p, t, captured)

Collect(t) == \/ QueueBehind(t) \/ StopQueueing(t) \/ AwaitDrain(t)
              \/ BeginRound(t) \/ AwaitOthers(t) \/ StartCollecting(t)
              \/ FinishCollecting(t)

Step(t) == \/ Mutate(t) \/ Spawn(t) \/ Unregister(t)
           \/ Poll(t) \/ SleepAgain(t) \/ Resume(t)
           \/ EnterBlocked(t) \/ EnterIdle(t) \/ Return(t)
           \/ RequestCollection(t) \/ Collect(t) \/ SpuriousWake(t)

Next == \E t \in Threads : Step(t)

Spec == Init /\ [][Next]_vars

(***************************************************************************)
(* Fairness: a running thread reaches a poll (the interpreter polls when a *)
(* method returns and when it creates an array or a class instance,        *)
(* compiled code on every back-edge; strong, because `Threads` reuses the  *)
(* names of threads that exited, and a new thread returns from a method    *)
(* before it exits), a thread woken under the mutex goes on, and a         *)
(* collector finishes its sweep.  Nothing says that a blocked thread       *)
(* returns, that a thread exits or that anybody asks for a collection.     *)
(***************************************************************************)
Fairness == \A t \in Threads : /\ SF_vars(Poll(t))
                               /\ WF_vars(SleepAgain(t))
                               /\ WF_vars(Resume(t))
                               /\ WF_vars(Collect(t))

FairSpec == Spec /\ Fairness

----------------------------------------------------------------------------
\* Properties.

\* The counters are what the collector decides on: each one is exactly the
\* number of threads in the states it counts (a registered thread is counted
\* once, a departing one is counted until it says so).
CountersExact ==
  /\ registered = Cardinality(At(PC \ {"gone"}))
  /\ parked = Cardinality(At(ParkedAt))
  /\ blocked = Cardinality(At({"away"}))

\* "a collector starting immediately afterwards mistakes it for a thread that
\* has arrived at this safe point": during a round every thread counted as
\* parked parked for this round, not an earlier one.
ParkedForThisRound ==
  stopping => \A t \in At(ParkedAt) : waitingFor[t] = epoch

\* While the collect closure runs, no other registered thread can touch the
\* heap: each is parked or blocked, and the collector holds the mutex.
WorldStopped ==
  \A c \in At({"collecting"}) :
    /\ lock = c
    /\ \A t \in Threads \ {c} : pc[t] \in ParkedAt \cup {"gone", "away"}

\* "The closure receives every root in the process": no object some thread's
\* frame or a static still names is ever swept.
NoLiveObjectSwept ==
  /\ statics \subseteq heap
  /\ \A t \in Threads : frames[t] \subseteq heap

\* A round that has started ends, the collector never being left waiting for
\* a thread that parked, blocked, exited or came back; and a thread that
\* parked for it, or came back during it, runs again.
EveryoneRunsAgain ==
  \A t \in Threads :
    pc[t] \in {"stopping", "polling", "returning"} ~> pc[t] = "running"

=============================================================================
