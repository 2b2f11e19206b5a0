----------------------------- MODULE FifoQueue -----------------------------
(***************************************************************************)
(* What LockFreeQueue promises: each push and each pop takes effect at one *)
(* moment between its call and its return, on one first-in first-out       *)
(* queue; a pop answers None only if the queue has been empty meanwhile.   *)
(***************************************************************************)
EXTENDS Sequences

CONSTANTS Threads, Values, None

VARIABLES items,                   \* the queue
          call,                    \* what each thread is doing
          sawEmpty                 \* threads in a pop, since whose call the queue has been empty

fifoVars == <<items, call, sawEmpty>>

Idle == [op |-> "idle", value |-> None]
Call(op, v) == [op |-> op, value |-> v]

Popping(calls) == {t \in Threads : calls[t].op = "pop"}

FifoInit ==
  /\ items = <<>>
  /\ call = [t \in Threads |-> Idle]
  /\ sawEmpty = {}

\* The pops under way see the queue as it is now.
Watched == sawEmpty' = {t \in Popping(call') : t \in sawEmpty \/ items' = <<>>}

Moves(t, c) == call' = [call EXCEPT ![t] = c]

CallPush(t, v) ==
  /\ call[t].op = "idle" /\ Moves(t, Call("push", v)) /\ UNCHANGED items /\ Watched
CallPop(t) ==
  /\ call[t].op = "idle" /\ Moves(t, Call("pop", None)) /\ UNCHANGED items /\ Watched

TakesEffect(t) ==
  /\ call[t].op = "push"
  /\ items' = Append(items, call[t].value)
  /\ Moves(t, Call("done", None)) /\ Watched

Remove(t) ==
  /\ call[t].op = "pop" /\ items # <<>>
  /\ items' = Tail(items)
  /\ Moves(t, Call("done", Head(items))) /\ Watched

AnswerNone(t) ==
  /\ call[t].op = "pop" /\ t \in sawEmpty
  /\ Moves(t, Call("done", None)) /\ UNCHANGED items /\ Watched

Return(t) ==
  /\ call[t].op = "done" /\ Moves(t, Idle) /\ UNCHANGED items /\ Watched

FifoNext ==
  \E t \in Threads :
    \/ CallPop(t) \/ TakesEffect(t) \/ Remove(t) \/ AnswerNone(t) \/ Return(t)
    \/ \E v \in Values : CallPush(t, v)

FifoSpec == FifoInit /\ [][FifoNext]_fifoVars

=============================================================================
