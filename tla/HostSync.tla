------------------------------ MODULE HostSync ------------------------------
(***************************************************************************)
(* rustclr-thread without std: Mutex, Condvar and JoinHandle over the      *)
(* embedder's futex (hooks::wait and hooks::wake on a 32-bit word).  The   *)
(* threads use them as the runtime does: takers wait for a token under the *)
(* mutex, givers add one and notify, again and again, and Main joins all.  *)
(***************************************************************************)
EXTENDS Integers, FiniteSets

CONSTANTS Takers, Givers,
          Gifts,                   \* tokens each giver adds
          SeqLimit,                \* 2^32, as far as Condvar::seq can count
          MaxEarly                 \* bound: early returns of hooks::wait

ASSUME SeqAssumption == SeqLimit \in Nat \ {0}
ASSUME GiftsAssumption == Gifts \in Nat \ {0}
ASSUME CrewAssumption == Takers \cap Givers = {}

VARIABLES word,                    \* Mutex::state
          seq,                     \* Condvar::seq
          tokens, given,           \* what the mutex protects; tokens each giver has added
          stage,                   \* where each thread stands
          onward,                  \* where it goes on once the mutex is free
          seen,                    \* the sequence number it has read
          packet,                  \* what it has stored: its result, and `done`
          joining,                 \* the thread Main joins, and whether it sleeps
          unjoined, results,       \* threads left to join; results Main has got
          early

hostVars == <<word, seq, tokens, given, stage, onward, seen, packet, joining, unjoined, results, early>>

Crew == Takers \cup Givers

UNLOCKED == 0
LOCKED == 1
CONTENDED == 2

Nobody == "nobody"

HostInit ==
  /\ word = UNLOCKED /\ seq = 0 /\ tokens = 0 /\ given = [g \in Givers |-> 0]
  /\ stage = [t \in Crew |-> "lock"] /\ onward = [t \in Crew |-> "leave"]
  /\ seen = [t \in Crew |-> 0]
  /\ packet = [t \in Crew |-> {}]
  /\ joining = [thread |-> Nobody, asleep |-> FALSE]
  /\ unjoined = Crew /\ results = {}
  /\ early = 0

GoTo(t, there) == stage' = [stage EXCEPT ![t] = there]
Sleepers(place) == {t \in Crew : stage[t] = place}

\* hooks::wake: t goes on to `there`, and those of `woken` to `up`.
Wake(t, there, woken, up) ==
  stage' = [u \in Crew |-> IF u = t THEN there ELSE IF u \in woken THEN up ELSE stage[u]]

OneOf(S) == IF S = {} THEN {{}} ELSE {{u} : u \in S}

mainVars == <<joining, unjoined, results>>
condVars == <<seq, tokens, given, seen>>

----------------------------------------------------------------------------
\* Mutex.

Acquires(t) == word = UNLOCKED /\ word' = LOCKED /\ GoTo(t, "held")

\* lock and the further attempts of lock_contended.
Lock(t) ==
  /\ stage[t] = "lock"
  /\ \/ Acquires(t)
     \/ word # UNLOCKED /\ GoTo(t, "swap") /\ UNCHANGED word
  /\ UNCHANGED <<condVars, onward, packet, early, mainVars>>

SawUncontended(w) == w # CONTENDED \* mutant: a lock held quietly is taken too
SawFree(w) == w = UNLOCKED

Swap(t) ==
  /\ stage[t] = "swap"
  /\ word' = CONTENDED
  /\ GoTo(t, IF SawFree(word) THEN "held" ELSE "futex")
  /\ UNCHANGED <<condVars, onward, packet, early, mainVars>>

\* hooks::wait compares the word and falls asleep in one step.
FutexWait(t) ==
  /\ stage[t] = "futex"
  /\ GoTo(t, IF word = CONTENDED THEN "asleep" ELSE "swap")
  /\ UNCHANGED <<word, condVars, onward, packet, early, mainVars>>

Unlock(t) ==
  /\ stage[t] = "unlock"
  /\ word' = UNLOCKED
  /\ GoTo(t, IF word = CONTENDED THEN "wake" ELSE onward[t])
  /\ UNCHANGED <<condVars, onward, packet, early, mainVars>>

WakeWaiter(t) ==
  /\ stage[t] = "wake"
  /\ \E woken \in OneOf(Sleepers("asleep")) : Wake(t, onward[t], woken, "swap")
  /\ UNCHANGED <<word, condVars, onward, packet, early, mainVars>>

----------------------------------------------------------------------------
\* Condvar, and what the threads do while they hold the mutex.

Releases(t, there) == GoTo(t, "unlock") /\ onward' = [onward EXCEPT ![t] = there]

Take(t) ==
  /\ t \in Takers /\ stage[t] = "held" /\ tokens > 0
  /\ tokens' = tokens - 1
  /\ Releases(t, "leave")
  /\ UNCHANGED <<word, seq, given, seen, packet, early, mainVars>>

\* wait reads the sequence number, and only then frees the mutex.
CondWait(t) ==
  /\ t \in Takers /\ stage[t] = "held" /\ tokens = 0
  /\ seen' = [seen EXCEPT ![t] = seq]
  /\ Releases(t, "cond")
  /\ UNCHANGED <<word, seq, tokens, given, packet, early, mainVars>>

Unconditionally(t) == TRUE         \* mutant: the wait does not compare
StillUnnotified(t) == seq = seen[t]

CondSleep(t) ==
  /\ stage[t] = "cond"
  /\ GoTo(t, IF StillUnnotified(t) THEN "condAsleep" ELSE "lock")
  /\ UNCHANGED <<word, condVars, onward, packet, early, mainVars>>

Give(t) ==
  /\ t \in Givers /\ stage[t] = "held"
  /\ tokens' = tokens + 1 /\ given' = [given EXCEPT ![t] = @ + 1]
  /\ Releases(t, "notify")
  /\ UNCHANGED <<word, seq, seen, packet, early, mainVars>>

Notify(t) ==
  /\ stage[t] = "notify"
  /\ seq' = (seq + 1) % SeqLimit
  /\ GoTo(t, "wakeCond")
  /\ UNCHANGED <<word, tokens, given, seen, onward, packet, early, mainVars>>

\* notify_one or notify_all.
WakeNotified(t) ==
  /\ stage[t] = "wakeCond"
  /\ LET all == Sleepers("condAsleep")
         proceed == IF given[t] < Gifts THEN "lock" ELSE "leave"
     IN  \E woken \in OneOf(all) \cup {all} : Wake(t, proceed, woken, "lock")
  /\ UNCHANGED <<word, condVars, onward, packet, early, mainVars>>

\* hooks::wait may return early, and wait_timeout lets it.
EarlyReturn(t) ==
  /\ early < MaxEarly /\ early' = early + 1
  /\ \/ stage[t] = "asleep" /\ GoTo(t, "swap")
     \/ stage[t] = "condAsleep" /\ GoTo(t, "lock")
  /\ UNCHANGED <<word, condVars, onward, packet, mainVars>>

----------------------------------------------------------------------------
\* Threads end, and are joined.

DoneFirst == <<"done", "result">>  \* mutant: the flag before the result
ResultFirst == <<"result", "done">>

Stores(t, what) == packet' = [packet EXCEPT ![t] = @ \cup {what}]

\* trampoline, after the body: the result, the flag, and the wake-up.
Leave(t) ==
  /\ stage[t] = "leave"
  /\ Stores(t, ResultFirst[1]) /\ GoTo(t, "left")
  /\ UNCHANGED <<word, condVars, onward, early, mainVars>>

SetDone(t) ==
  /\ stage[t] = "left"
  /\ Stores(t, ResultFirst[2]) /\ GoTo(t, "tell")
  /\ UNCHANGED <<word, condVars, onward, early, mainVars>>

Tell(t) ==
  /\ stage[t] = "tell"
  /\ joining' = [joining EXCEPT !.asleep = @ /\ joining.thread # t]
  /\ GoTo(t, "ended")
  /\ UNCHANGED <<word, condVars, onward, packet, early, unjoined, results>>

\* JoinHandle::join, of one thread after the other.
Join(t) ==
  /\ joining.thread = Nobody /\ t \in unjoined
  /\ joining' = [thread |-> t, asleep |-> FALSE]
  /\ UNCHANGED <<word, condVars, stage, onward, packet, early, unjoined, results>>

Awaits(t) == joining = [thread |-> t, asleep |-> FALSE]

JoinSleeps(t) ==
  /\ Awaits(t) /\ "done" \notin packet[t]
  /\ joining' = [joining EXCEPT !.asleep = TRUE]
  /\ UNCHANGED <<word, condVars, stage, onward, packet, early, unjoined, results>>

JoinReturns(t) ==
  /\ Awaits(t) /\ "done" \in packet[t]
  /\ joining' = [thread |-> Nobody, asleep |-> FALSE]
  /\ unjoined' = unjoined \ {t}
  /\ results' = results \cup {u \in {t} : "result" \in packet[t]}
  /\ UNCHANGED <<word, condVars, stage, onward, packet, early>>

----------------------------------------------------------------------------

ThreadStep(t) ==
  \/ Lock(t) \/ Swap(t) \/ FutexWait(t) \/ Unlock(t) \/ WakeWaiter(t)
  \/ Take(t) \/ CondWait(t) \/ CondSleep(t) \/ Give(t) \/ Notify(t) \/ WakeNotified(t)
  \/ Leave(t) \/ SetDone(t) \/ Tell(t)
MainJoins == \E t \in Crew : Join(t) \/ JoinSleeps(t) \/ JoinReturns(t)

HostNext == MainJoins \/ \E t \in Crew : ThreadStep(t) \/ EarlyReturn(t)

HostOver == unjoined = {} /\ \A t \in Crew : stage[t] = "ended"

\* The host schedules every thread.
HostFairness == WF_hostVars(MainJoins) /\ \A t \in Crew : WF_hostVars(ThreadStep(t))
HostSpec == HostInit /\ [][HostNext]_hostVars /\ HostFairness

----------------------------------------------------------------------------
Stages == {"lock", "swap", "futex", "asleep", "held", "unlock", "wake", "cond", "condAsleep",
           "notify", "wakeCond", "leave", "left", "tell", "ended"}

HostTypeOK ==
  /\ word \in {UNLOCKED, LOCKED, CONTENDED}
  /\ seq \in 0 .. SeqLimit - 1 /\ seen \in [Crew -> 0 .. SeqLimit - 1]
  /\ tokens \in Nat /\ given \in [Givers -> 0 .. Gifts]
  /\ stage \in [Crew -> Stages] /\ onward \in [Crew -> Stages]
  /\ packet \in [Crew -> SUBSET {"result", "done"}]
  /\ joining \in [thread : Crew \cup {Nobody}, asleep : BOOLEAN]
  /\ unjoined \subseteq Crew /\ results \subseteq Crew
  /\ early \in 0 .. MaxEarly

\* Properties.

Inside == {t \in Crew : stage[t] \in {"held", "unlock"}}

\* Mutex::lock excludes, whichever of its three ways in a thread took.
MutexExcludes == \A t, u \in Inside : t = u

\* No wake-up is lost between the word, the sequence number and `done`, and
\* join finds what it waited for: Main gets every thread's result.
EveryoneIsJoined == <>(results = Crew)

=============================================================================
