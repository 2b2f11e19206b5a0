---------------------------- MODULE MCScheduling ----------------------------
(***************************************************************************)
(* What carries the runtime's threads, for TLC: the portability layer's    *)
(* mutex, condition variable and join, the lock-free queue, the channel    *)
(* and the pool over it.  They share no state, so a behaviour moves one.   *)
(***************************************************************************)
EXTENDS HostSync, LockFreeQueue, Channel, ThreadPool, TLC

CONSTANTS x, y, q1, q2, s1, r1, p1, p2, p3

Brought == q1 :> {x} @@ q2 :> {y}
Submitted == p1 :> {p3} @@ p2 :> {} @@ p3 :> {}

VARIABLE part

schedulingVars == <<hostVars, queueVars, channelVars, poolVars, part>>

SchedulingInit ==
  /\ part \in {"host", "queue", "channel", "pool"}
  /\ HostInit /\ QueueInit /\ ChannelInit /\ PoolInit
  /\ part # "channel" => sAt[s1] = "ready" /\ rAt[r1] = "ready"

\* Steps of part p alone.
Only(p, steps) ==
  /\ part = p /\ steps /\ UNCHANGED part
  /\ p # "host" => UNCHANGED hostVars
  /\ p # "queue" => UNCHANGED queueVars
  /\ p # "channel" => UNCHANGED channelVars
  /\ p # "pool" => UNCHANGED poolVars

SchedulingNext ==
  \/ Only("host", HostNext)
  \/ Only("queue", QueueNext)
  \/ Only("channel", ChannelNext)
  \/ Only("pool", PoolNext)

\* The fairness of each part, in the behaviours that move it.
SchedulingFairness ==
  /\ WF_hostVars(part = "host" /\ MainJoins) /\ \A t \in Crew : WF_hostVars(part = "host" /\ ThreadStep(t))
  /\ \A r \in Receivers : WF_channelVars(part = "channel" /\ Receives(r))
  /\ WF_poolVars(part = "pool" /\ OwnerGoesOn) /\ \A w \in PoolThreads : WF_poolVars(part = "pool" /\ Works(w))

SchedulingSpec ==
  SchedulingInit /\ [][SchedulingNext]_schedulingVars /\ SchedulingFairness

----------------------------------------------------------------------------
\* EveryoneIsJoined, of the behaviours that move the threads of the host.
JoinsEnd == part = "host" => EveryoneIsJoined

=============================================================================
