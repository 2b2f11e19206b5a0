-------------------------------- MODULE MCTasks --------------------------------
(* Instances of Tasks for TLC: small programs that use the operations       *)
(* together.                                                                *)
EXTENDS Tasks, TLC
CONSTANTS j1, j2, j3, a1, a2, s, w1, w2

Do(op, on) == [op |-> op, on |-> on]
Programme(main, rest) ==
  [a \in Activities |-> IF a = Main THEN main
                        ELSE IF a \in DOMAIN rest THEN rest[a] ELSE <<>>]

(* Two jobs race to set one source; a1 awaits it and a job, a2 awaits a1.   *)
Sourced == Programme(
  <<Do("run", j1), Do("run", j2), Do("call", a1), Do("call", a2), Do("wait", a2)>>,
  j1 :> <<Do("set", s)>> @@ j2 :> <<Do("tryset", s), Do("tryfail", s)>>
  @@ a1 :> <<Do("await", s), Do("await", j2)>> @@ a2 :> <<Do("await", a1)>>)

(* The same, and the source fails.                                          *)
Failed == Programme(
  <<Do("call", a1), Do("run", j1), Do("run", j2), Do("wait", s), Do("wait", j1)>>,
  j1 :> <<Do("wait", j2), Do("wait", s)>> @@ j2 :> <<Do("fail", s), Do("tryfail", s)>>
  @@ a1 :> <<Do("await", s)>>)

(* A wait inside a wait, deeper than there are workers.                     *)
Nested == Programme(
  <<Do("run", j1), Do("wait", j1)>>,
  j1 :> <<Do("run", j2), Do("wait", j2)>> @@ j2 :> <<Do("run", j3), Do("wait", j3)>>)

(* Fork and join; a branch throws.                                          *)
ForkJoin == Programme(
  <<Do("run", j1), Do("wait", j1)>>,
  j1 :> <<Do("run", j2), Do("run", j3), Do("wait", j2), Do("wait", j3)>>
  @@ j2 :> <<Do("throw", Main)>>)

(* Task.Run(async ...): the job waits for the method it called; the method  *)
(* awaits a delay, and then throws.                                         *)
Delayed == Programme(
  <<Do("delay", j1), Do("run", j2), Do("wait", j2)>>,
  j2 :> <<Do("call", a1), Do("wait", a1)>> @@ a1 :> <<Do("await", j1), Do("throw", Main)>>)

(* Nobody sets the source: Main's wait has to be refused, and not while a   *)
(* job that completes something else is still about.                        *)
Unset == Programme(
  <<Do("run", j1), Do("call", a1), Do("wait", j1), Do("wait", a1)>>,
  a1 :> <<Do("await", s)>>)

Sound == {Sourced, Failed, Nested, ForkJoin, Delayed, Unset}

(* SetException, in either form, against another completion.                *)
Contended == {Programme(
  <<Do("run", j1), Do("run", j2), Do("wait", j1)>>,
  j1 :> <<Do("tryset", s)>> @@ j2 :> <<Do("tryfail", s)>>)}

(* j1 waits for j2, and j3 for j1: no cycle.                                *)
Crossed == {Programme(
  <<Do("run", j1), Do("run", j2), Do("run", j3), Do("wait", j1)>>,
  j1 :> <<Do("wait", j2)>> @@ j3 :> <<Do("wait", j1)>>)}
==============================================================================
