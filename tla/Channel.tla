------------------------------ MODULE Channel ------------------------------
(***************************************************************************)
(* channel of rustclr-sched: many senders, many receivers, and a condition *)
(* variable a receiver that finds nothing waits on.  The queue is what     *)
(* LockFreeQueue implements, counted; a region under Shared::lock is one   *)
(* step, for it looks at nothing but the condition variable.               *)
(***************************************************************************)
EXTENDS Integers, FiniteSets

CONSTANTS Senders, Receivers,      \* threads that hold, or are handed, an end
          MaxSends                 \* bound: values sent

ASSUME ChannelAssumption == MaxSends \in Nat /\ IsFiniteSet(Senders)

VARIABLES queued,                  \* values in the queue
          senders, receivers,      \* Shared::senders, Shared::receivers
          sAt, sends,              \* where each sender stands; values pushed so far
          rAt, timed,              \* where each receiver stands; in recv_timeout?
          told                     \* receivers told that the channel is closed

channelVars == <<queued, senders, receivers, sAt, sends, rAt, timed, told>>
senderVars == <<senders, sAt, sends>>
receiverVars == <<receivers, rAt, timed, told>>

\* channel(): one end of each kind; the rest are clones.
ChannelInit ==
  /\ queued = 0 /\ senders = 1 /\ receivers = 1
  /\ \E s \in Senders : sAt = [u \in Senders |-> IF u = s THEN "ready" ELSE "none"]
  /\ \E r \in Receivers : rAt = [u \in Receivers |-> IF u = r THEN "ready" ELSE "none"]
  /\ sends = 0
  /\ timed = [r \in Receivers |-> FALSE]
  /\ told = {}

SenderGoes(s, from, to) == sAt[s] = from /\ sAt' = [sAt EXCEPT ![s] = to]
ReceiverGoes(r, from, to) == rAt[r] = from /\ rAt' = [rAt EXCEPT ![r] = to]

\* The receivers of `woken` look again.
WakeUp(woken) == rAt' = [r \in Receivers |-> IF r \in woken THEN "look" ELSE rAt[r]]
Asleep == {r \in Receivers : rAt[r] = "asleep"}

----------------------------------------------------------------------------
\* Sender.

CloneSender(s, u) ==
  /\ sAt[s] = "ready" /\ SenderGoes(u, "none", "ready")
  /\ senders' = senders + 1
  /\ UNCHANGED <<queued, sends, receiverVars>>

SendLooks(s) ==
  /\ SenderGoes(s, "ready", IF receivers = 0 THEN "refused" ELSE "push")
  /\ UNCHANGED <<queued, senders, sends, receiverVars>>

SendPushes(s) ==
  /\ SenderGoes(s, "push", "notify")
  /\ sends < MaxSends /\ sends' = sends + 1
  /\ queued' = queued + 1
  /\ UNCHANGED <<senders, receiverVars>>

SendNotifies(s) ==
  /\ SenderGoes(s, "notify", "ready")
  /\ \E woken \in IF Asleep = {} THEN {{}} ELSE {{r} : r \in Asleep} : WakeUp(woken)
  /\ UNCHANGED <<queued, senders, sends, receivers, timed, told>>

\* Drop: the last one tells everybody.
DropSender(s) ==
  /\ sAt[s] \in {"ready", "refused"}
  /\ sAt' = [sAt EXCEPT ![s] = IF senders = 1 THEN "last" ELSE "gone"]
  /\ senders' = senders - 1
  /\ UNCHANGED <<queued, sends, receiverVars>>

LastNotifies(s) ==
  /\ SenderGoes(s, "last", "gone")
  /\ WakeUp(Asleep)
  /\ UNCHANGED <<queued, senders, sends, receivers, timed, told>>

----------------------------------------------------------------------------
\* Receiver.

CloneReceiver(r, u) ==
  /\ rAt[r] = "ready" /\ ReceiverGoes(u, "none", "ready")
  /\ receivers' = receivers + 1
  /\ UNCHANGED <<queued, senderVars, timed, told>>

DropReceiver(r) ==
  /\ ReceiverGoes(r, "ready", "gone")
  /\ receivers' = receivers - 1
  /\ UNCHANGED <<queued, senderVars, timed, told>>

\* recv, or recv_timeout.
CallRecv(r, withTimeout) ==
  /\ r \notin told /\ ReceiverGoes(r, "ready", "look")
  /\ timed' = [timed EXCEPT ![r] = withTimeout]
  /\ UNCHANGED <<queued, senderVars, receivers, told>>

Answers(r, from) ==
  /\ ReceiverGoes(r, from, "ready")
  /\ timed' = [timed EXCEPT ![r] = FALSE]

\* recv's first look, its last one, or try_recv.
Pops(r) ==
  /\ queued > 0 /\ queued' = queued - 1
  /\ \E from \in {"look", "last look", "ready"} : Answers(r, from)
  /\ UNCHANGED <<senderVars, receivers, told>>

FindsNothing(r) ==
  /\ queued = 0 /\ ReceiverGoes(r, "look", "senders")
  /\ UNCHANGED <<queued, senderVars, receivers, timed, told>>

LooksForSenders(r) ==
  /\ ReceiverGoes(r, "senders", IF senders = 0 THEN "last look" ELSE "park")
  /\ UNCHANGED <<queued, senderVars, receivers, timed, told>>

NotLooked == TRUE                  \* mutant: no second look
NothingLeft == queued = 0

Disconnected(r) ==
  /\ NothingLeft /\ Answers(r, "last look")
  /\ told' = told \cup {r}
  /\ UNCHANGED <<queued, senderVars, receivers>>

TimesOut(r) ==
  /\ timed[r] /\ Answers(r, "park")
  /\ UNCHANGED <<queued, senderVars, receivers, told>>

\* wait_timeout: nothing is looked at under the lock.
Parks(r) ==
  /\ ReceiverGoes(r, "park", "asleep")
  /\ UNCHANGED <<queued, senderVars, receivers, timed, told>>

NeverUp(r) == FALSE                \* mutant: a wait without a limit
TimeIsUp(r) == TRUE

\* After 50 ms, or what is left of the timeout; or a spurious wake-up.
WakesByItself(r) ==
  /\ TimeIsUp(r) /\ ReceiverGoes(r, "asleep", "look")
  /\ UNCHANGED <<queued, senderVars, receivers, timed, told>>

----------------------------------------------------------------------------

Sends(s) == SendPushes(s) \/ SendNotifies(s) \/ LastNotifies(s)
Uses(s) == SendLooks(s) \/ DropSender(s) \/ \E u \in Senders : CloneSender(s, u)

Receives(r) ==
  \/ Pops(r) /\ rAt[r] # "ready"
  \/ FindsNothing(r) \/ LooksForSenders(r) \/ Disconnected(r) \/ TimesOut(r)
  \/ Parks(r) \/ WakesByItself(r)
Asks(r) ==
  \/ \E withTimeout \in BOOLEAN : CallRecv(r, withTimeout)
  \/ Pops(r) /\ rAt[r] = "ready"
  \/ DropReceiver(r) \/ \E u \in Receivers : CloneReceiver(r, u)

ChannelNext ==
  \/ \E s \in Senders : Sends(s) \/ Uses(s)
  \/ \E r \in Receivers : Receives(r) \/ Asks(r)

\* A receive under way goes on; whether anything is sent, dropped or asked
\* for is the program's choice.
ChannelFairness == \A r \in Receivers : WF_channelVars(Receives(r))
ChannelSpec == ChannelInit /\ [][ChannelNext]_channelVars /\ ChannelFairness

----------------------------------------------------------------------------
ChannelTypeOK ==
  /\ queued \in Nat
  /\ senders \in 0 .. Cardinality(Senders) /\ receivers \in 0 .. Cardinality(Receivers)
  /\ sAt \in [Senders -> {"none", "ready", "refused", "push", "notify", "last", "gone"}]
  /\ sends \in 0 .. MaxSends
  /\ rAt \in [Receivers -> {"none", "ready", "look", "senders", "last look", "park", "asleep", "gone"}]
  /\ timed \in [Receivers -> BOOLEAN] /\ told \subseteq Receivers

\* Properties.

\* recv answers Disconnected only when no sender is left and every value that
\* was sent has been received, although it looks at the two in turn.
NothingLeftBehind ==
  told # {} => /\ queued = 0
               /\ \A s \in Senders : sAt[s] \in {"none", "last", "gone"}

Receiving(r) == rAt[r] \notin {"none", "ready", "gone"}

\* A receiver sleeps through neither a value nor the end of the channel, even
\* if the one or the other came between its look and its wait.
Concerned == queued > 0 \/ senders = 0
ReceiversReturn == \A r \in Receivers :
  Receiving(r) /\ Concerned ~> ~(Receiving(r) /\ Concerned)

=============================================================================
