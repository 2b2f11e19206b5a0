----------------------------- MODULE ThreadPool -----------------------------
(***************************************************************************)
(* ThreadPool of rustclr-sched: workers over one queue, handles to join,   *)
(* wait_for_idle and the drop that ends them.  A region under a lock is    *)
(* one step; the queue is what LockFreeQueue implements.                   *)
(***************************************************************************)
EXTENDS Integers, Sequences, FiniteSets

CONSTANTS Owner, PoolThreads,      \* the thread that has the pool, and its workers
          Nothing,
          Closures, Roots,         \* all jobs; those the owner submits
          Children,                \* the jobs that a job submits
          Spawned,                 \* those submitted with spawn, the rest with queue
          MayPanic                 \* those that may panic

ASSUME PoolAssumption ==
  /\ IsFiniteSet(Closures) /\ Nothing \notin Closures /\ Owner \notin PoolThreads
  /\ Roots \subseteq Closures /\ Spawned \subseteq Closures /\ MayPanic \subseteq Closures
  /\ Children \in [Closures -> SUBSET Closures]

VARIABLES jobs,                    \* PoolShared::queue
          unfinished,              \* PoolShared::outstanding
          completed, shutdown,
          place,                   \* where the owner and each worker stands
          handling,                \* the job it submits or joins
          running,                 \* the job a worker runs
          home,                    \* which of the worker's two loops it is in
          submitted,
          slot                     \* Completion::value

poolVars == <<jobs, unfinished, completed, shutdown, place, handling, running, home,
              submitted, slot>>
counters == <<unfinished, completed, shutdown>>

Actors == {Owner} \cup PoolThreads

PoolInit ==
  /\ jobs = <<>> /\ unfinished = 0 /\ completed = 0 /\ shutdown = FALSE
  /\ place = [a \in Actors |-> IF a = Owner THEN "open" ELSE "pop"]
  /\ handling = [a \in Actors |-> Nothing]
  /\ running = [w \in PoolThreads |-> Nothing]
  /\ home = [w \in PoolThreads |-> "pop"]
  /\ submitted = {}
  /\ slot = [j \in Closures |-> "empty"]

Goes(a, from, to) == place[a] = from /\ place' = [place EXCEPT ![a] = to]

\* ... and wakes those of `woken`, which go on to `up`.
GoesAndWakes(a, from, to, woken, up) ==
  /\ place[a] = from
  /\ place' = [b \in Actors |-> IF b = a THEN to ELSE IF b \in woken THEN up ELSE place[b]]

AsleepAt(where) == {a \in Actors : place[a] = where}

----------------------------------------------------------------------------
\* queue and spawn, by the owner or by a job.

Mine(a) == IF a = Owner THEN Roots
           ELSE IF running[a] = Nothing THEN {} ELSE Children[running[a]]
Base(a) == IF a = Owner THEN "open" ELSE "body"

Counts(a, j) ==
  /\ j \in Mine(a) \ submitted
  /\ Goes(a, Base(a), "push")
  /\ handling' = [handling EXCEPT ![a] = j]
  /\ submitted' = submitted \cup {j}
  /\ unfinished' = unfinished + 1
  /\ UNCHANGED <<jobs, completed, shutdown, running, home, slot>>

Pushes(a) ==
  /\ Goes(a, "push", "notify")
  /\ jobs' = Append(jobs, handling[a])
  /\ UNCHANGED <<counters, handling, running, home, submitted, slot>>

Notifies(a) ==
  /\ \E woken \in {W \in SUBSET AsleepAt("asleep") : Cardinality(W) = 1 \/ AsleepAt("asleep") = {}} :
       GoesAndWakes(a, "notify", Base(a), woken, "pop")
  /\ handling' = [handling EXCEPT ![a] = Nothing]
  /\ UNCHANGED <<jobs, counters, running, home, submitted, slot>>

----------------------------------------------------------------------------
\* worker_loop.

TakesJob(w) ==
  /\ place[w] \in {"pop", "drain"} /\ jobs # <<>>
  /\ running' = [running EXCEPT ![w] = Head(jobs)]
  /\ jobs' = Tail(jobs)
  /\ home' = [home EXCEPT ![w] = place[w]]
  /\ place' = [place EXCEPT ![w] = "body"]
  /\ UNCHANGED <<counters, handling, submitted, slot>>

FindsNoJob(w) ==
  /\ jobs = <<>>
  /\ \/ Goes(w, "pop", "check")
     \/ Goes(w, "drain", "exited")
  /\ UNCHANGED <<jobs, counters, handling, running, home, submitted, slot>>

ChecksShutdown(w) ==
  /\ Goes(w, "check", IF shutdown THEN "drain" ELSE "park")
  /\ UNCHANGED <<jobs, counters, handling, running, home, submitted, slot>>

ParksWorker(w) ==
  /\ Goes(w, "park", "asleep")
  /\ UNCHANGED <<jobs, counters, handling, running, home, submitted, slot>>

WaitsForNotify(w) == FALSE         \* mutant: a wait without a limit
WaitsAtMost10ms(w) == TRUE

WorkerLooksAgain(w) ==
  /\ WaitsAtMost10ms(w) /\ Goes(w, "asleep", "pop")
  /\ UNCHANGED <<jobs, counters, handling, running, home, submitted, slot>>

----------------------------------------------------------------------------
\* What the queued closure does once its work is done.

FinishFirst(j) ==                  \* mutant: counted down before the value is there
  IF j \in Spawned THEN <<"finish", "value", "done">> ELSE <<"finish">>
Epilogue(j) == IF j \in Spawned THEN <<"value", "done", "finish">> ELSE <<"finish">>

StepAfter(j, step) ==
  LET steps == Epilogue(j)
      later == {i \in 1 .. Len(steps) : i > 1 /\ steps[i - 1] = step}
  IN  IF later = {} THEN "end" ELSE steps[CHOOSE i \in later : TRUE]

Job(w) == running[w]

\* The work returns, or panics and is caught: it goes on with the epilogue.
BodyEnds(w) ==
  /\ Mine(w) \subseteq submitted
  /\ Goes(w, "body", Epilogue(Job(w))[1])
  /\ UNCHANGED <<jobs, counters, handling, running, home, submitted, slot>>

\* Nothing catches the panic of a job that was only queued.
WorkerDies(w) ==
  /\ Job(w) \in MayPanic \ Spawned
  /\ Goes(w, "body", "dead")
  /\ UNCHANGED <<jobs, counters, handling, running, home, submitted, slot>>

Onward(w, from) ==
  LET to == StepAfter(Job(w), from)
  IN  IF to = "end" THEN home[w] ELSE to

Closes(w, from) ==
  running' = [running EXCEPT ![w] = IF StepAfter(Job(w), from) = "end" THEN Nothing ELSE @]

StoresValue(w) ==
  /\ Goes(w, "value", Onward(w, "value")) /\ Closes(w, "value")
  /\ \E result \in {"ok"} \cup {"panic" : p \in MayPanic \cap {Job(w)}} :
       slot' = [slot EXCEPT ![Job(w)] = result]
  /\ UNCHANGED <<jobs, counters, handling, home, submitted>>

NotifiesJoiner(w) ==
  /\ LET joiner == {a \in AsleepAt("join asleep") : handling[a] = Job(w)}
     IN  GoesAndWakes(w, "done", Onward(w, "done"), joiner, "join")
  /\ Closes(w, "done")
  /\ UNCHANGED <<jobs, counters, handling, home, submitted, slot>>

Finishes(w) ==
  /\ Goes(w, "finish", IF unfinished = 1 THEN "tell idle" ELSE Onward(w, "finish"))
  /\ unfinished' = unfinished - 1 /\ completed' = completed + 1
  /\ IF unfinished = 1 THEN UNCHANGED running ELSE Closes(w, "finish")
  /\ UNCHANGED <<jobs, shutdown, handling, home, submitted, slot>>

TellsIdle(w) ==
  /\ GoesAndWakes(w, "tell idle", Onward(w, "finish"), AsleepAt("idle asleep"), "idle?")
  /\ Closes(w, "finish")
  /\ UNCHANGED <<jobs, counters, handling, home, submitted, slot>>

----------------------------------------------------------------------------
\* The owner: join and join_timeout, wait_for_idle, and the drop of the pool.

ownerStays == <<jobs, running, home, submitted>>

CallsJoin(j) ==
  /\ j \in submitted \cap Spawned \cap Roots /\ slot[j] # "taken"
  /\ Goes(Owner, "open", "join")
  /\ handling' = [handling EXCEPT ![Owner] = j]
  /\ UNCHANGED <<ownerStays, counters, slot>>

JoinTakes ==
  /\ Goes(Owner, "join", "open") /\ slot[handling[Owner]] # "empty"
  /\ slot' = [slot EXCEPT ![handling[Owner]] = "taken"]
  /\ handling' = [handling EXCEPT ![Owner] = Nothing]
  /\ UNCHANGED <<ownerStays, counters>>

JoinWaits ==
  /\ Goes(Owner, "join", "join asleep") /\ slot[handling[Owner]] = "empty"
  /\ UNCHANGED <<ownerStays, counters, handling, slot>>

\* join_timeout is called again, or not.
JoinGivesUp ==
  /\ Goes(Owner, "join asleep", "open")
  /\ handling' = [handling EXCEPT ![Owner] = Nothing]
  /\ UNCHANGED <<ownerStays, counters, slot>>

\* wait_for_idle, on its own or as the first thing drop does.
CallsIdle ==
  /\ Goes(Owner, "open", "idle?")
  /\ UNCHANGED <<ownerStays, counters, handling, slot>>

IdleLooks ==
  /\ Goes(Owner, "idle?", IF unfinished > 0 THEN "idle asleep" ELSE "idle")
  /\ UNCHANGED <<ownerStays, counters, handling, slot>>

IdleLooksAgain ==
  /\ Goes(Owner, "idle asleep", "idle?")
  /\ UNCHANGED <<ownerStays, counters, handling, slot>>

IdleReturns ==
  /\ Goes(Owner, "idle", "open")
  /\ UNCHANGED <<ownerStays, counters, handling, slot>>

ShutsDown ==
  /\ Goes(Owner, "idle", "tell all") /\ shutdown' = TRUE
  /\ UNCHANGED <<ownerStays, unfinished, completed, handling, slot>>

TellsAll ==
  /\ GoesAndWakes(Owner, "tell all", "join workers", AsleepAt("asleep"), "pop")
  /\ UNCHANGED <<ownerStays, counters, handling, slot>>

JoinsWorkers ==
  /\ \A w \in PoolThreads : place[w] \in {"exited", "dead"}
  /\ Goes(Owner, "join workers", "dropped")
  /\ UNCHANGED <<ownerStays, counters, handling, slot>>

----------------------------------------------------------------------------

Submits(a) == Pushes(a) \/ Notifies(a)
Works(w) ==
  \/ Submits(w) \/ \E j \in Closures : Counts(w, j)
  \/ TakesJob(w) \/ FindsNoJob(w) \/ ChecksShutdown(w) \/ ParksWorker(w) \/ WorkerLooksAgain(w)
  \/ BodyEnds(w) \/ StoresValue(w) \/ NotifiesJoiner(w) \/ Finishes(w) \/ TellsIdle(w)
OwnerGoesOn ==
  \/ Submits(Owner) \/ JoinTakes \/ JoinWaits
  \/ IdleLooks \/ IdleLooksAgain \/ IdleReturns \/ ShutsDown \/ TellsAll \/ JoinsWorkers
OwnerChooses ==
  \/ \E j \in Closures : Counts(Owner, j) \/ CallsJoin(j)
  \/ JoinGivesUp \/ CallsIdle

PoolNext ==
  \/ \E w \in PoolThreads : Works(w) \/ WorkerDies(w)
  \/ OwnerGoesOn \/ OwnerChooses

PoolOver == place[Owner] = "dropped"

\* Threads run on; what the owner calls next is its own choice.
PoolFairness == WF_poolVars(OwnerGoesOn) /\ \A w \in PoolThreads : WF_poolVars(Works(w))
PoolSpec == PoolInit /\ [][PoolNext]_poolVars /\ PoolFairness

----------------------------------------------------------------------------
PoolTypeOK ==
  /\ jobs \in Seq(Closures) /\ submitted \subseteq Closures
  /\ unfinished \in Nat /\ completed \in Nat /\ shutdown \in BOOLEAN
  /\ DOMAIN place = Actors /\ handling \in [Actors -> Closures \cup {Nothing}]
  /\ running \in [PoolThreads -> Closures \cup {Nothing}]
  /\ home \in [PoolThreads -> {"pop", "drain"}]
  /\ slot \in [Closures -> {"empty", "ok", "panic", "taken"}]

\* Properties.

\* When wait_for_idle returns, and while the pool is dropped, everything that
\* was submitted, by jobs too, is done with, and its result is there.
IdleIsIdle ==
  place[Owner] \in {"idle", "tell all", "join workers", "dropped"} =>
    /\ jobs = <<>> /\ completed = Cardinality(submitted)
    /\ \A w \in PoolThreads : place[w] # "body"
    /\ \A j \in submitted \cap Spawned : slot[j] # "empty"

\* Every call of the owner's returns, the drop included, unless a job that was
\* queued without a handle has panicked and taken its worker with it.
PoolCallsReturn ==
  place[Owner] # "open" ~> \/ place[Owner] \in {"open", "dropped"}
                          \/ \E w \in PoolThreads : place[w] = "dead"

=============================================================================
