--------------------------------- MODULE Tasks ---------------------------------
(***************************************************************************)
(* Tasks, await and the pool that runs them: rustclr-bcl's tasks.rs over   *)
(* rustclr-core's pool.rs.                                                 *)
(*                                                                         *)
(* An activity is a body of managed code: Main's, a job's (the delegate of *)
(* Task.Run, or what a timer completes) or an async method's.  Each thread *)
(* has a stack of them, because starting an async method, resuming one and *)
(* helping with queued work while waiting all nest.  Every activity but    *)
(* Main has a task, and so has every completion source; `script` says     *)
(* what the activities do, one of Scripts, chosen at the start.           *)
(***************************************************************************)
EXTENDS Integers, SequencesExt

CONSTANTS Main, Jobs, Asyncs, Sources,
          MainThread, Workers,
          Scripts,
          GivingUp            \* IDLE_SAMPLES_BEFORE_GIVING_UP

Threads == {MainThread} \cup Workers
Activities == {Main} \cup Jobs \cup Asyncs
Tasks == Jobs \cup Asyncs \cup Sources

Ops == [op : {"run", "delay"}, on : Jobs] \cup [op : {"call"}, on : Asyncs]
       \cup [op : {"wait", "await"}, on : Tasks] \cup [op : {"set", "fail", "tryset", "tryfail"}, on : Sources]
       \cup [op : {"throw"}, on : {Main}]

ASSUME ActivitiesAssumption ==
  /\ Main \notin Jobs \cup Asyncs /\ Jobs \cap Asyncs = {}
  /\ Sources \cap (Jobs \cup Asyncs) = {}
  /\ MainThread \notin Workers /\ IsFiniteSet(Jobs)
ASSUME ScriptsAssumption == Scripts \subseteq [Activities -> Seq(Ops)]
ASSUME GivingUpAssumption == GivingUp \in Nat \ {0}

(* Task.Run, a timer and the call of an async method each make a task of    *)
(* their own: no two operations of a script begin the same activity.        *)
Begins == {"run", "delay", "call"}
ASSUME FreshAssumption ==
  \A s \in Scripts : \A a, b \in Activities : \A i \in DOMAIN s[a], k \in DOMAIN s[b] :
    s[a][i].op \in Begins /\ s[b][k].op \in Begins /\ s[a][i].on = s[b][k].on => a = b /\ i = k

VARIABLES
  script,
  at,            \* the next operation of every activity
  phase,         \* where in it the activity is
  stack,         \* of every thread: activities, the running one last
  progress, waiting,     \* of every task: STATUS, CONTINUATIONS
  taken,         \* of every activity: continuations it took and has yet to resume
  queue, timers, outstanding,       \* the pool's
  idle,          \* of every activity: samples in a row that found nothing to wait for
  givenUp        \* history: the tasks a wait was given up on

tasks == <<progress, waiting, taken>>
pool == <<queue, timers, outstanding>>
waits == <<idle, givenUp>>
vars == <<script, at, phase, stack, tasks, pool, waits>>

-----------------------------------------------------------------------------
Busy(t) == stack[t] # <<>>
Running(t) == Last(stack[t])
Instr(a) == script[a][at[a]]
AtEnd(a) == at[a] > Len(script[a])

(* Thread t runs activity a, which is at this phase.                        *)
Runs(t, a, p) == Busy(t) /\ Running(t) = a /\ phase[a] = p
Executes(t, a, op) == Runs(t, a, "ready") /\ ~AtEnd(a) /\ Instr(a).op = op

Becomes(a, p) == phase' = [phase EXCEPT ![a] = p]
Advances(a) == at' = [at EXCEPT ![a] = @ + 1] /\ Becomes(a, "ready")
Nests(t, a) == stack' = [stack EXCEPT ![t] = Append(@, a)]
Departs(t) == stack' = [stack EXCEPT ![t] = Front(@)]

Pending(k) == progress[k] = "PENDING"

(* Err(exception) in an activity: Main catches it, an async method and a    *)
(* job fault their task.                                                    *)
Throws(a) == IF a = Main THEN Advances(a)
             ELSE Becomes(a, "throwing") /\ UNCHANGED at

(* result_of a settled task                                                 *)
GetsResult(a, k) == IF progress[k] = "FAULTED" THEN Throws(a) ELSE Advances(a)

Init ==
  /\ script \in Scripts
  /\ at = [a \in Activities |-> 1]
  /\ phase = [a \in Activities |-> IF a = Main THEN "ready" ELSE "unstarted"]
  /\ stack = [t \in Threads |-> IF t = MainThread THEN <<Main>> ELSE <<>>]
  /\ progress = [k \in Tasks |-> "PENDING"]
  /\ waiting = [k \in Tasks |-> <<>>] /\ taken = [a \in Activities |-> <<>>]
  /\ queue = <<>> /\ timers = {} /\ outstanding = 0
  /\ idle = [a \in Activities |-> 0] /\ givenUp = {}

-----------------------------------------------------------------------------
(* The pool *)

(* submit, and schedule: the job is counted before anybody can run it.      *)
Count(t, a) ==
  /\ Executes(t, a, "run") \/ Executes(t, a, "delay")
  /\ outstanding' = outstanding + 1
  /\ Becomes(a, "submitting")
  /\ UNCHANGED <<script, at, stack, tasks, queue, timers, waits>>

Submit(t, a) ==
  /\ Runs(t, a, "submitting")
  /\ IF Instr(a).op = "run"
     THEN queue' = Append(queue, Instr(a).on) /\ UNCHANGED timers
     ELSE timers' = timers \cup {Instr(a).on} /\ UNCHANGED queue
  /\ Advances(a)
  /\ UNCHANGED <<script, stack, tasks, outstanding, waits>>

(* run_timers: a deadline passes                                            *)
TimerFires(j) ==
  /\ j \in timers
  /\ timers' = timers \ {j} /\ queue' = Append(queue, j)
  /\ UNCHANGED <<script, at, phase, stack, tasks, outstanding, waits>>

TooEarly == outstanding' = outstanding - 1                           \* mutant
StillOutstanding == UNCHANGED outstanding

(* run_one: pop a job and run it here, on top of whatever this thread does  *)
RunOne(t) ==
  /\ queue # <<>>
  /\ queue' = Tail(queue) /\ Nests(t, Head(queue))
  /\ StillOutstanding /\ UNCHANGED timers

WorkerTakes(t) ==
  /\ t \in Workers /\ ~Busy(t)
  /\ RunOne(t)
  /\ Becomes(Head(queue), "ready")
  /\ UNCHANGED <<script, at, tasks, waits>>

-----------------------------------------------------------------------------
(* Settling a task: the progress and the waiting list together, interlocked   *)

(* Activity a does it, and resumes what it took after the lock is released. *)
TakeContinuations(a, k) ==
  /\ taken' = [taken EXCEPT ![a] = waiting[k]]
  /\ waiting' = [waiting EXCEPT ![k] = <<>>]

Settles(a, k, how) == /\ progress' = [progress EXCEPT ![k] = how]
                      /\ TakeContinuations(a, k)
                      /\ Becomes(a, "resuming")

Unguarded(k) == TRUE                                                 \* mutant
MayComplete(k) == Pending(k)

(* complete refuses a task that is settled; fault does not look.            *)
Completes(a, k) == \/ MayComplete(k) /\ Settles(a, k, "COMPLETED") /\ UNCHANGED at
                   \/ ~MayComplete(k) /\ Throws(a) /\ UNCHANGED tasks
Faults(a, k) == Settles(a, k, "FAULTED") /\ UNCHANGED at

(* The end of a job or of an async method, with no exception or with one    *)
Complete(t, a) ==
  /\ Runs(t, a, "ready") /\ AtEnd(a) /\ a # Main
  /\ Completes(a, a)
  /\ UNCHANGED <<script, stack, pool, waits>>

Fault(t, a) ==
  /\ Runs(t, a, "throwing")
  /\ Settles(a, a, "FAULTED")
  /\ at' = [at EXCEPT ![a] = Len(script[a]) + 1]
  /\ UNCHANGED <<script, stack, pool, waits>>

(* TaskCompletionSource: SetResult, SetException, and the Try forms, which  *)
(* look at the progress first and not under the lock                          *)
Set(t, a) ==
  /\ \/ Executes(t, a, "set") /\ Completes(a, Instr(a).on)
     \/ Executes(t, a, "fail") /\ Faults(a, Instr(a).on)
  /\ UNCHANGED <<script, stack, pool, waits>>

TrySet(t, a) ==
  /\ Executes(t, a, "tryset") \/ Executes(t, a, "tryfail")
  /\ IF MayComplete(Instr(a).on) THEN Becomes(a, "trying") /\ UNCHANGED at ELSE Advances(a)
  /\ UNCHANGED <<script, stack, tasks, pool, waits>>

TryGoesOn(t, a) ==
  /\ Runs(t, a, "trying")
  /\ \/ Instr(a).op = "tryset" /\ Completes(a, Instr(a).on)
     \/ Instr(a).op = "tryfail" /\ Faults(a, Instr(a).on)
  /\ UNCHANGED <<script, stack, pool, waits>>

BodyThrows(t, a) ==
  /\ Executes(t, a, "throw") /\ Throws(a)
  /\ UNCHANGED <<script, stack, tasks, pool, waits>>

(* resume_all, one MoveNext after the other                                 *)
Resume(t, a) ==
  /\ Runs(t, a, "resuming") /\ taken[a] # <<>>
  /\ Nests(t, Head(taken[a])) /\ Becomes(Head(taken[a]), "ready")
  /\ taken' = [taken EXCEPT ![a] = Tail(@)]
  /\ UNCHANGED <<script, at, progress, waiting, pool, waits>>

(* ... and back, out of the activity or to what follows in it.  A job is    *)
(* outstanding until here.                                                  *)
Return(t, a) ==
  /\ Runs(t, a, "resuming") /\ taken[a] = <<>>
  /\ IF AtEnd(a)
     THEN /\ Departs(t) /\ Becomes(a, "over") /\ UNCHANGED at
          /\ outstanding' = IF a \in Jobs THEN outstanding - 1 ELSE outstanding
     ELSE Advances(a) /\ UNCHANGED <<stack, outstanding>>
  /\ UNCHANGED <<script, tasks, queue, timers, waits>>

MainReturn(t) ==
  /\ Runs(t, Main, "ready") /\ AtEnd(Main)
  /\ Departs(t) /\ Becomes(Main, "over")
  /\ UNCHANGED <<script, at, tasks, pool, waits>>

-----------------------------------------------------------------------------
(* async and await *)

(* start_state_machine: the body runs here until it suspends or ends        *)
Start(t, a) ==
  /\ Executes(t, a, "call")
  /\ LET m == Instr(a).on IN
     /\ Nests(t, m)
     /\ at' = [at EXCEPT ![a] = @ + 1]
     /\ Becomes(m, "ready")
  /\ UNCHANGED <<script, tasks, pool, waits>>

(* IsCompleted: go on if it answers true, else to AwaitOnCompleted          *)
Await(t, a) ==
  /\ Executes(t, a, "await")
  /\ IF Pending(Instr(a).on) THEN Becomes(a, "registering") /\ UNCHANGED at
     ELSE GetsResult(a, Instr(a).on)
  /\ UNCHANGED <<script, stack, tasks, pool, waits>>

SeenPending(k) == TRUE                                               \* mutant
StillPending(k) == Pending(k)

(* await_on_completed: the progress is looked at again under the lock         *)
AwaitOnCompleted(t, a) ==
  /\ Runs(t, a, "registering")
  /\ LET k == Instr(a).on IN
     \/ /\ StillPending(k)
        /\ waiting' = [waiting EXCEPT ![k] = Append(@, a)]
        /\ Becomes(a, "suspended") /\ Departs(t)
        /\ UNCHANGED at
     \/ /\ ~StillPending(k)
        /\ GetsResult(a, k) /\ UNCHANGED <<waiting, stack>>
  /\ UNCHANGED <<script, progress, taken, pool, waits>>

-----------------------------------------------------------------------------
(* Wait, Result: settle, then result_of *)

Wait(t, a) ==
  /\ Executes(t, a, "wait")
  /\ idle' = [idle EXCEPT ![a] = 0]
  /\ Becomes(a, "settling")
  /\ UNCHANGED <<script, at, stack, tasks, pool, givenUp>>

Settle(t, a) ==
  /\ Runs(t, a, "settling")
  /\ IF Pending(Instr(a).on) THEN Becomes(a, "helping") /\ UNCHANGED at
     ELSE GetsResult(a, Instr(a).on)
  /\ UNCHANGED <<script, stack, tasks, pool, waits>>

JustWaits == FALSE                                                   \* mutant
HelpsHere == queue # <<>>

(* help_with_queued_work: any job, not only the one waited for              *)
Help(t, a) ==
  /\ Runs(t, a, "helping")
  /\ IF HelpsHere
     THEN /\ RunOne(t)
          /\ phase' = [phase EXCEPT ![a] = "settling", ![Head(queue)] = "ready"]
          /\ idle' = [idle EXCEPT ![a] = 0]
     ELSE /\ Becomes(a, "sampling")
          /\ UNCHANGED <<stack, pool, idle>>
  /\ UNCHANGED <<script, at, tasks, givenUp>>

WorkMayStillArrive == outstanding > 0

Sample(t, a) ==
  /\ Runs(t, a, "sampling")
  /\ idle' = [idle EXCEPT ![a] = IF WorkMayStillArrive THEN 0 ELSE @ + 1]
  /\ IF idle'[a] >= GivingUp
     THEN givenUp' = givenUp \cup {Instr(a).on} /\ Throws(a)
     ELSE Becomes(a, "settling") /\ UNCHANGED <<at, givenUp>>
  /\ UNCHANGED <<script, stack, tasks, pool>>

-----------------------------------------------------------------------------
Step(t) ==
  \/ WorkerTakes(t)
  \/ MainReturn(t)
  \/ \E a \in Activities :
       \/ Count(t, a) \/ Submit(t, a)
       \/ Complete(t, a) \/ Fault(t, a) \/ BodyThrows(t, a)
       \/ Set(t, a) \/ TrySet(t, a) \/ TryGoesOn(t, a)
       \/ Resume(t, a) \/ Return(t, a)
       \/ Start(t, a) \/ Await(t, a) \/ AwaitOnCompleted(t, a)
       \/ Wait(t, a) \/ Settle(t, a) \/ Help(t, a) \/ Sample(t, a)

Next == \/ \E t \in Threads : Step(t)
        \/ \E j \in Jobs : TimerFires(j)

Spec == Init /\ [][Next]_vars

(* Every thread is scheduled, and every deadline passes.                    *)
Fairness == /\ \A t \in Threads : WF_vars(Step(t))
            /\ \A j \in Jobs : WF_vars(TimerFires(j))
FairSpec == Spec /\ Fairness

-----------------------------------------------------------------------------
Phases == {"unstarted", "ready", "submitting", "throwing", "trying", "resuming", "registering",
           "suspended", "settling", "helping", "sampling", "over"}

TypeOK ==
  /\ script \in Scripts
  /\ at \in [Activities -> Nat \ {0}] /\ phase \in [Activities -> Phases]
  /\ stack \in [Threads -> Seq(Activities)]
  /\ progress \in [Tasks -> {"PENDING", "COMPLETED", "FAULTED"}]
  /\ waiting \in [Tasks -> Seq(Asyncs)] /\ taken \in [Activities -> Seq(Asyncs)]
  /\ queue \in Seq(Jobs) /\ timers \subseteq Jobs /\ outstanding \in Nat
  /\ idle \in [Activities -> 0 .. GivingUp] /\ givenUp \subseteq Tasks

(* An await is never lost and never resumed twice (complete and             *)
(* await_on_completed, "loses that continuation", tasks.rs:361): what is    *)
(* suspended is on exactly one list, of a task that is pending or in the    *)
(* hands of whoever is completing it, and what runs is on exactly one stack.*)
Occurs(a) ==
  Cardinality(UNION {{<<t, i>> : i \in {i \in DOMAIN stack[t] : stack[t][i] = a}} : t \in Threads})
Listed(a) ==
  Cardinality(UNION {{<<k, i>> : i \in {i \in DOMAIN waiting[k] : waiting[k][i] = a}} : k \in Tasks})
  + Cardinality(UNION {{<<k, i>> : i \in {i \in DOMAIN taken[k] : taken[k][i] = a}} : k \in Activities})

EveryAwaitIsHeld ==
  /\ \A a \in Activities :
       /\ Occurs(a) = (IF phase[a] \in {"unstarted", "suspended", "over"} THEN 0 ELSE 1)
       /\ Listed(a) = (IF phase[a] = "suspended" THEN 1 ELSE 0)
  /\ \A k \in Tasks : ~Pending(k) => waiting[k] = <<>>
  /\ \A a \in Activities : taken[a] # <<>> => phase[a] = "resuming"

(* A task is settled once (complete's "already completed").                 *)
SettledOnce == [][\A k \in Tasks : ~Pending(k) => progress'[k] = progress[k]]_vars

(* settle gives up only when nothing can complete the task (tasks.rs:766,   *)
(* "nothing ever will, and saying so beats hanging"): a task given up on    *)
(* never completes.                                                         *)
GivenUpInVain == \A k \in givenUp : Pending(k)

(* Waiting threads help, so waits end: Main comes to its end, its waits     *)
(* answered or refused.                                                     *)
MainReturns == <>(phase[Main] = "over")
==============================================================================
