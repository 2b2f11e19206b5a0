--------------------------- MODULE LockFreeQueue ---------------------------
(***************************************************************************)
(* LockFreeQueue of rustclr-sched: the Michael-Scott queue, one atomic     *)
(* load or compare-exchange per step.  Nodes are numbered in the order in  *)
(* which they are linked: nobody but its pusher reaches one before that,   *)
(* and none is freed while a call is under way.  Node 0 is the dummy.      *)
(***************************************************************************)
EXTENDS Integers, Sequences

CONSTANTS Pushers, Poppers,        \* threads, which may be both
          Brings,                  \* the values each of them pushes
          None,
          LenMod,                  \* 2^w for usize
          MaxLinked                \* bound: nodes linked

ASSUME QueueAssumption == LenMod \in Nat \ {0} /\ MaxLinked \in Nat

VARIABLES chain,                   \* the values of nodes 1, 2, ...; None once taken
          head, tail, len,
          pc,                      \* where each thread stands
          value,                   \* what it pushes, or has popped
          oldHead, oldTail, oldNext, \* what it has loaded
          sawEmpty                 \* history: as in FifoQueue

shared == <<chain, head, tail, len>>
loaded == <<oldHead, oldTail, oldNext>>
queueVars == <<shared, pc, value, loaded, sawEmpty>>

Clients == Pushers \cup Poppers
Values == UNION {Brings[t] : t \in Pushers}

Null == 0                          \* no link leads to the dummy
NextOf(n) == IF n < Len(chain) THEN n + 1 ELSE Null

QueueInit ==
  /\ chain = <<>> /\ head = 0 /\ tail = 0 /\ len = 0
  /\ pc = [t \in Clients |-> "idle"]
  /\ value = [t \in Clients |-> None]
  /\ oldHead = [t \in Clients |-> 0]
  /\ oldTail = [t \in Clients |-> 0]
  /\ oldNext = [t \in Clients |-> Null]
  /\ sawEmpty = {}

Steps(t, from, to) == pc[t] = from /\ pc' = [pc EXCEPT ![t] = to]
Chooses(t, from, choice) == pc[t] = from /\ pc' = [pc EXCEPT ![t] = choice]

SwingTail(old, new) == tail' = IF tail = old THEN new ELSE tail

----------------------------------------------------------------------------
\* push.

CallPush(t, v) ==
  /\ t \in Pushers /\ v \in Brings[t] /\ Steps(t, "idle", "pushTail")
  /\ value' = [value EXCEPT ![t] = v]
  /\ UNCHANGED <<shared, loaded>>

PushLoadTail(t) ==
  /\ Steps(t, "pushTail", "pushNext")
  /\ oldTail' = [oldTail EXCEPT ![t] = tail]
  /\ UNCHANGED <<shared, value, oldHead, oldNext>>

PushLoadNext(t) ==
  /\ Steps(t, "pushNext", "pushCheck")
  /\ oldNext' = [oldNext EXCEPT ![t] = NextOf(oldTail[t])]
  /\ UNCHANGED <<shared, value, oldHead, oldTail>>

PushCheck(t) ==
  /\ Chooses(t, "pushCheck", IF oldTail[t] # tail THEN "pushTail"
                              ELSE IF oldNext[t] = Null THEN "pushLink" ELSE "pushHelp")
  /\ UNCHANGED <<shared, value, loaded>>

WasLast(t) == oldNext[t] = Null    \* mutant: a store, not a compare-exchange
StillLast(t) == NextOf(oldTail[t]) = Null

\* The compare-exchange on the last node's link: the push takes effect.
PushLink(t) ==
  /\ Steps(t, "pushLink", "pushSwing")
  /\ StillLast(t) /\ Len(chain) < MaxLinked
  /\ chain' = Append(SubSeq(chain, 1, oldTail[t]), value[t])
  /\ UNCHANGED <<head, tail, len, value, loaded>>

PushLoses(t) ==
  /\ Steps(t, "pushLink", "pushTail")
  /\ ~StillLast(t)
  /\ UNCHANGED <<shared, value, loaded>>

PushSwing(t) ==
  /\ Steps(t, "pushSwing", "pushCount")
  /\ SwingTail(oldTail[t], oldTail[t] + 1)
  /\ UNCHANGED <<chain, head, len, value, loaded>>

PushHelp(t) ==
  /\ Steps(t, "pushHelp", "pushTail")
  /\ SwingTail(oldTail[t], oldNext[t])
  /\ UNCHANGED <<chain, head, len, value, loaded>>

\* What a call has loaded dies with it.
Forgets(t) ==
  /\ value' = [value EXCEPT ![t] = None]
  /\ oldHead' = [oldHead EXCEPT ![t] = 0]
  /\ oldTail' = [oldTail EXCEPT ![t] = 0]
  /\ oldNext' = [oldNext EXCEPT ![t] = Null]

PushCount(t) ==
  /\ Steps(t, "pushCount", "idle") /\ Forgets(t)
  /\ len' = (len + 1) % LenMod
  /\ UNCHANGED <<chain, head, tail>>

----------------------------------------------------------------------------
\* pop.

CallPop(t) ==
  /\ t \in Poppers /\ Steps(t, "idle", "popHead")
  /\ UNCHANGED <<shared, value, loaded>>

PopLoadHead(t) ==
  /\ Steps(t, "popHead", "popTail")
  /\ oldHead' = [oldHead EXCEPT ![t] = head]
  /\ UNCHANGED <<shared, value, oldTail, oldNext>>

PopLoadTail(t) ==
  /\ Steps(t, "popTail", "popNext")
  /\ oldTail' = [oldTail EXCEPT ![t] = tail]
  /\ UNCHANGED <<shared, value, oldHead, oldNext>>

PopLoadNext(t) ==
  /\ Steps(t, "popNext", "popCheck")
  /\ oldNext' = [oldNext EXCEPT ![t] = NextOf(oldHead[t])]
  /\ UNCHANGED <<shared, value, oldHead, oldTail>>

PopCheck(t) ==
  /\ Chooses(t, "popCheck", IF oldHead[t] # head THEN "popHead"
                             ELSE IF oldNext[t] = Null THEN "none"
                             ELSE IF oldHead[t] = oldTail[t] THEN "popHelp" ELSE "popSwing")
  /\ UNCHANGED <<shared, value, loaded>>

PopHelp(t) ==
  /\ Steps(t, "popHelp", "popHead")
  /\ SwingTail(oldTail[t], oldNext[t])
  /\ UNCHANGED <<chain, head, len, value, loaded>>

Regardless(t) == TRUE              \* mutant: a store, not a compare-exchange
StillFirst(t) == head = oldHead[t]

\* The compare-exchange on head: the pop takes effect.
PopWins(t) ==
  /\ Steps(t, "popSwing", "popTake")
  /\ StillFirst(t)
  /\ head' = oldNext[t]
  /\ UNCHANGED <<chain, tail, len, value, loaded>>

PopLoses(t) ==
  /\ Steps(t, "popSwing", "popHead")
  /\ ~StillFirst(t)
  /\ UNCHANGED <<shared, value, loaded>>

\* Only now is the value taken out of the new first node.
PopTake(t) ==
  /\ Steps(t, "popTake", "popCount")
  /\ value' = [value EXCEPT ![t] = chain[oldNext[t]]]
  /\ chain' = [chain EXCEPT ![oldNext[t]] = None]
  /\ UNCHANGED <<head, tail, len, loaded>>

PopCount(t) ==
  /\ Steps(t, "popCount", "idle") /\ Forgets(t)
  /\ len' = (len - 1) % LenMod
  /\ UNCHANGED <<chain, head, tail>>

PopNone(t) ==
  /\ Steps(t, "none", "idle") /\ Forgets(t)
  /\ UNCHANGED shared

----------------------------------------------------------------------------

Push(t) ==
  \/ \E v \in Values : CallPush(t, v)
  \/ PushLoadTail(t) \/ PushLoadNext(t) \/ PushCheck(t) \/ PushLink(t) \/ PushLoses(t)
  \/ PushSwing(t) \/ PushHelp(t) \/ PushCount(t)
Pop(t) ==
  \/ CallPop(t) \/ PopLoadHead(t) \/ PopLoadTail(t) \/ PopLoadNext(t) \/ PopCheck(t)
  \/ PopHelp(t) \/ PopWins(t) \/ PopLoses(t) \/ PopTake(t) \/ PopCount(t) \/ PopNone(t)

\* The refinement: where a call has taken effect, and what is left to pop.
Items == SubSeq(chain, head + 1, Len(chain))

Pushing == {"pushTail", "pushNext", "pushCheck", "pushLink", "pushHelp"}
Popping == {"popHead", "popTail", "popNext", "popCheck", "popHelp", "popSwing"}

CallOf(t) ==
  CASE pc[t] = "idle" -> [op |-> "idle", value |-> None]
    [] pc[t] \in Pushing -> [op |-> "push", value |-> value[t]]
    [] pc[t] \in Popping -> [op |-> "pop", value |-> None]
    [] pc[t] = "popTake" -> [op |-> "done", value |-> chain[oldNext[t]]]
    [] pc[t] = "popCount" -> [op |-> "done", value |-> value[t]]
    [] OTHER -> [op |-> "done", value |-> None]

Watched ==
  sawEmpty' = {t \in Clients : /\ pc'[t] \in Popping
                               /\ t \in sawEmpty \/ Items' = <<>>}

QueueNext == (\E t \in Clients : Push(t) \/ Pop(t)) /\ Watched

QueueSpec == QueueInit /\ [][QueueNext]_queueVars

Fifo == INSTANCE FifoQueue WITH Threads <- Clients, items <- Items, call <- [t \in Clients |-> CallOf(t)]

----------------------------------------------------------------------------
Places == {"idle", "none", "pushSwing", "pushCount", "popTake", "popCount"} \cup Pushing \cup Popping

QueueTypeOK ==
  /\ chain \in Seq(Values \cup {None})
  /\ head \in Nat /\ tail \in Nat /\ len \in 0 .. LenMod - 1
  /\ pc \in [Clients -> Places]
  /\ value \in [Clients -> Values \cup {None}]
  /\ oldHead \in [Clients -> Nat] /\ oldTail \in [Clients -> Nat] /\ oldNext \in [Clients -> Nat]
  /\ sawEmpty \subseteq Clients

\* Properties.

\* However their steps interleave, pushes and pops act one at a time on a
\* first-in first-out queue: no value is lost, delivered twice or overtaken,
\* and None is answered only by a pop that could have found nothing.
ImplementsFifo == Fifo!FifoSpec

=============================================================================
