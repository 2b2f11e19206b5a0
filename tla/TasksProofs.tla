----------------------------- MODULE TasksProofs -----------------------------
(***************************************************************************)
(* Tasks, for any number of threads, jobs, methods and sources and any     *)
(* scripts in which every Task.Run, timer and call begins an activity of   *)
(* its own: an await is held until it is resumed, once; a task settles     *)
(* once, if nothing contends with SetException or TrySetException; a wait  *)
(* is given up only when nothing is queued, due or under way; and what     *)
(* such a wait was for never completes.                                    *)
(***************************************************************************)
EXTENDS Tasks, SequenceTheorems, FiniteSetTheorems, TLAPS

(* Phases in which an activity is on no stack.                              *)
Off == {"unstarted", "suspended", "over"}
(* Phases in which it is at an operation of its script.                     *)
Within == {"submitting", "throwing", "trying", "registering", "settling", "helping", "sampling", "suspended"}

Shapes ==
  /\ script \in Scripts
  /\ at \in [Activities -> Nat \ {0}] /\ phase \in [Activities -> Phases]
  /\ stack \in [Threads -> Seq(Activities)]
  /\ progress \in [Tasks -> {"PENDING", "COMPLETED", "FAULTED"}]
  /\ waiting \in [Tasks -> Seq(Activities)] /\ taken \in [Activities -> Seq(Activities)]
  /\ queue \in Seq(Jobs) /\ timers \subseteq Jobs

(* What runs is on one stack, once; what does not is on none.               *)
StacksExact ==
  /\ \A t, u \in Threads : \A i \in DOMAIN stack[t], k \in DOMAIN stack[u] :
       stack[t][i] = stack[u][k] => t = u /\ i = k
  /\ \A t \in Threads : \A i \in DOMAIN stack[t] : phase[stack[t][i]] \notin Off
  /\ \A a \in Activities : phase[a] \notin Off => \E t \in Threads : \E i \in DOMAIN stack[t] : stack[t][i] = a

(* What is suspended is on one list, once.                                  *)
ListsExact ==
  /\ \A k, l \in Tasks : \A i \in DOMAIN waiting[k], j \in DOMAIN waiting[l] :
       waiting[k][i] = waiting[l][j] => k = l /\ i = j
  /\ \A a, b \in Activities : \A i \in DOMAIN taken[a], j \in DOMAIN taken[b] :
       taken[a][i] = taken[b][j] => a = b /\ i = j
  /\ \A k \in Tasks, b \in Activities : \A i \in DOMAIN waiting[k], j \in DOMAIN taken[b] :
       waiting[k][i] # taken[b][j]
  /\ \A k \in Tasks : \A i \in DOMAIN waiting[k] : phase[waiting[k][i]] = "suspended"
  /\ \A b \in Activities : \A i \in DOMAIN taken[b] : phase[taken[b][i]] = "suspended"
  /\ \A a \in Activities : phase[a] = "suspended" =>
       \/ \E k \in Tasks : \E i \in DOMAIN waiting[k] : waiting[k][i] = a
       \/ \E b \in Activities : \E i \in DOMAIN taken[b] : taken[b][i] = a

SettledHaveNoList == \A k \in Tasks : ~Pending(k) => waiting[k] = <<>>
TakenWhileResuming == \A a \in Activities : taken[a] # <<>> => phase[a] = "resuming"

(* A script has not come to what has not begun, and a job is handed over    *)
(* once.                                                                    *)
NotYetBegun ==
  /\ \A a \in Activities : \A i \in DOMAIN script[a] :
       i >= at[a] /\ script[a][i].op \in Begins =>
         /\ phase[script[a][i].on] = "unstarted"
         /\ script[a][i].on \notin timers
         /\ \A n \in DOMAIN queue : queue[n] # script[a][i].on
  /\ \A n \in DOMAIN queue : phase[queue[n]] = "unstarted" /\ queue[n] \notin timers
  /\ \A n, m \in DOMAIN queue : queue[n] = queue[m] => n = m
  /\ \A j \in timers : phase[j] = "unstarted"

(* The phases of an operation.                                              *)
Serves(p, o) ==
  /\ p = "submitting" => o \in {"run", "delay"}
  /\ p = "trying" => o \in {"tryset", "tryfail"}
  /\ p = "registering" => o = "await"
  /\ p \in {"settling", "helping", "sampling"} => o = "wait"

PhasesFit ==
  \A a \in Activities :
    /\ phase[a] \in Within => ~AtEnd(a)
    /\ Serves(phase[a], Instr(a).op)
    /\ phase[a] = "throwing" => a # Main

(* Who settles its own task is at its end.                                  *)
OwnTaskLast ==
  \A a \in Jobs \cup Asyncs : ~Pending(a) => AtEnd(a) /\ phase[a] \in {"resuming", "over"}

AwaitInv ==
  /\ Shapes /\ StacksExact /\ ListsExact /\ SettledHaveNoList /\ TakenWhileResuming
  /\ NotYetBegun /\ PhasesFit /\ OwnTaskLast

-----------------------------------------------------------------------------
(* Sequences as stacks.                                                     *)
LEMMA Pushed ==
  ASSUME NEW S, NEW s \in Seq(S), NEW x \in S
  PROVE  /\ Append(s, x) \in Seq(S) /\ Append(s, x) # <<>>
         /\ DOMAIN Append(s, x) = DOMAIN s \cup {Len(s) + 1} /\ Len(s) + 1 \notin DOMAIN s
         /\ \A i \in DOMAIN s : Append(s, x)[i] = s[i]
         /\ Append(s, x)[Len(s) + 1] = x
         /\ s # <<>> => Append(s, x)[1] = s[1]
         /\ s = <<>> => Append(s, x)[1] = x
<1>1. /\ Append(s, x) \in Seq(S) /\ Append(s, x) # <<>>
      /\ Len(s) \in Nat /\ Len(Append(s, x)) = Len(s) + 1
      /\ (\A i \in 1 .. Len(s) : Append(s, x)[i] = s[i]) /\ Append(s, x)[Len(s) + 1] = x
  BY AppendProperties, LenProperties
<1>2. DOMAIN s = 1 .. Len(s) /\ DOMAIN Append(s, x) = 1 .. Len(s) + 1
  BY <1>1, LenProperties
<1>3. s # <<>> => 1 \in 1 .. Len(s)
  BY <1>1, EmptySeq
<1>4. s = <<>> => Len(s) + 1 = 1
  BY EmptySeq
<1> QED
  BY <1>1, <1>2, <1>3, <1>4

LEMMA Popped ==
  ASSUME NEW S, NEW s \in Seq(S), s # <<>>
  PROVE  /\ Front(s) \in Seq(S)
         /\ Len(s) \in DOMAIN s /\ Last(s) = s[Len(s)] /\ Last(s) \in S
         /\ DOMAIN Front(s) = DOMAIN s \ {Len(s)}
         /\ \A i \in DOMAIN Front(s) : Front(s)[i] = s[i]
<1>1. Len(s) \in Nat \ {0} /\ DOMAIN s = 1 .. Len(s) /\ \A i \in 1 .. Len(s) : s[i] \in S
  BY LenProperties, EmptySeq, ElementOfSeq
<1>2. /\ SubSeq(s, 1, Len(s) - 1) \in Seq(S)
      /\ Len(SubSeq(s, 1, Len(s) - 1)) = IF 1 <= Len(s) - 1 THEN Len(s) - 1 - 1 + 1 ELSE 0
      /\ \A i \in 1 .. Len(s) - 1 - 1 + 1 : SubSeq(s, 1, Len(s) - 1)[i] = s[1 + i - 1]
  BY <1>1, SubSeqProperties
<1>3. Len(Front(s)) = Len(s) - 1 /\ \A i \in 1 .. Len(s) - 1 : Front(s)[i] = s[i]
  BY <1>1, <1>2 DEF Front
<1>4. Front(s) \in Seq(S) /\ DOMAIN Front(s) = 1 .. Len(s) - 1
  BY <1>1, <1>2, <1>3, LenProperties DEF Front
<1> QED
  BY <1>1, <1>3, <1>4 DEF Last

LEMMA Beheaded ==
  ASSUME NEW S, NEW s \in Seq(S), s # <<>>
  PROVE  /\ Tail(s) \in Seq(S) /\ Head(s) = s[1] /\ 1 \in DOMAIN s /\ Head(s) \in S
         /\ \A i \in DOMAIN Tail(s) : i + 1 \in DOMAIN s /\ i + 1 # 1 /\ Tail(s)[i] = s[i + 1]
         /\ \A i \in DOMAIN s : i # 1 => i - 1 \in DOMAIN Tail(s) /\ Tail(s)[i - 1] = s[i]
         /\ DOMAIN s \subseteq Int /\ DOMAIN Tail(s) \subseteq Int
<1>1. /\ Tail(s) \in Seq(S) /\ Len(Tail(s)) = Len(s) - 1 /\ Len(s) \in Nat \ {0}
      /\ \A i \in 1 .. Len(Tail(s)) : Tail(s)[i] = s[i + 1]
      /\ Head(s) = s[1] /\ Head(s) \in S
  BY HeadTailProperties, LenProperties, EmptySeq
<1>2. DOMAIN s = 1 .. Len(s) /\ DOMAIN Tail(s) = 1 .. Len(s) - 1
  BY <1>1, LenProperties
<1>3. \A i \in 2 .. Len(s) : Tail(s)[i - 1] = s[i]
  <2> SUFFICES ASSUME NEW i \in 2 .. Len(s) PROVE Tail(s)[i - 1] = s[i]
    OBVIOUS
  <2>1. i - 1 \in 1 .. Len(Tail(s)) /\ (i - 1) + 1 = i
    BY <1>1
  <2> QED
    BY <1>1, <2>1
<1> QED
  BY <1>1, <1>2, <1>3

-----------------------------------------------------------------------------
(* What an action does to the stacks, apart from the phases it may change   *)
(* of those that stay on one.                                               *)
SameOff(A) == \A b \in A : phase'[b] \in Off <=> phase[b] \in Off

LEMMA StacksStay ==
  ASSUME StacksExact, Shapes, UNCHANGED stack, SameOff(Activities)
  PROVE  StacksExact'
<1>1. \A t \in Threads : \A i \in DOMAIN stack[t] : stack[t][i] \in Activities
  BY DEF Shapes
<1> QED
  BY <1>1 DEF StacksExact, SameOff

LEMMA StacksPushed ==
  ASSUME StacksExact, Shapes, NEW t \in Threads, NEW a \in Activities, Nests(t, a),
         phase[a] \in Off, phase'[a] \notin Off, SameOff(Activities \ {a})
  PROVE  StacksExact' /\ stack' \in [Threads -> Seq(Activities)]
<1>1. /\ stack' = [stack EXCEPT ![t] = Append(stack[t], a)] /\ stack \in [Threads -> Seq(Activities)]
      /\ stack[t] \in Seq(Activities)
  BY DEF Nests, Shapes
<1>2. /\ stack'[t] = Append(stack[t], a) /\ \A u \in Threads \ {t} : stack'[u] = stack[u]
  BY <1>1
<1>3. /\ Append(stack[t], a) \in Seq(Activities)
      /\ DOMAIN Append(stack[t], a) = DOMAIN stack[t] \cup {Len(stack[t]) + 1}
      /\ Len(stack[t]) + 1 \notin DOMAIN stack[t]
      /\ \A i \in DOMAIN stack[t] : Append(stack[t], a)[i] = stack[t][i]
      /\ Append(stack[t], a)[Len(stack[t]) + 1] = a
  BY <1>1, Pushed
<1>4. \A u \in Threads : \A i \in DOMAIN stack[u] : stack[u][i] \in Activities /\ stack[u][i] # a
  BY <1>1 DEF StacksExact
<1> DEFINE top == Len(stack[t]) + 1
<1>5. \A u \in Threads : \A i \in DOMAIN stack'[u] :
        \/ i \in DOMAIN stack[u] /\ stack'[u][i] = stack[u][i]
        \/ u = t /\ i = top /\ stack'[u][i] = a
  BY <1>2, <1>3
<1>6. \A u \in Threads : \A i \in DOMAIN stack[u] : i \in DOMAIN stack'[u] /\ stack'[u][i] = stack[u][i]
  BY <1>2, <1>3
<1>7. top \in DOMAIN stack'[t] /\ stack'[t][top] = a
  BY <1>2, <1>3
<1> HIDE DEF top
<1>8. \A u, v \in Threads : \A i \in DOMAIN stack'[u], k \in DOMAIN stack'[v] :
        stack'[u][i] = stack'[v][k] => u = v /\ i = k
  BY <1>4, <1>5 DEF StacksExact
<1>9. \A u \in Threads : \A i \in DOMAIN stack'[u] : phase'[stack'[u][i]] \notin Off
  BY <1>4, <1>5 DEF StacksExact, SameOff
<1>10. \A b \in Activities : phase'[b] \notin Off =>
         \E u \in Threads : \E i \in DOMAIN stack'[u] : stack'[u][i] = b
  <2> SUFFICES ASSUME NEW b \in Activities, phase'[b] \notin Off
               PROVE  \E u \in Threads : \E i \in DOMAIN stack'[u] : stack'[u][i] = b
    OBVIOUS
  <2>1. CASE b = a
    BY <1>7, <2>1
  <2>2. CASE b # a
    BY <1>6, <2>2 DEF StacksExact, SameOff
  <2> QED
    BY <2>1, <2>2
<1>11. stack' \in [Threads -> Seq(Activities)]
  BY <1>1, <1>3
<1> QED
  BY <1>8, <1>9, <1>10, <1>11 DEF StacksExact

LEMMA StacksPopped ==
  ASSUME StacksExact, Shapes, NEW t \in Threads, NEW a \in Activities, Busy(t), Running(t) = a,
         Departs(t), phase'[a] \in Off, SameOff(Activities \ {a})
  PROVE  StacksExact' /\ stack' \in [Threads -> Seq(Activities)]
<1>1. /\ stack' = [stack EXCEPT ![t] = Front(stack[t])] /\ stack \in [Threads -> Seq(Activities)]
      /\ stack[t] \in Seq(Activities) /\ stack[t] # <<>>
  BY DEF Departs, Shapes, Busy
<1>2. /\ stack'[t] = Front(stack[t]) /\ \A u \in Threads \ {t} : stack'[u] = stack[u]
  BY <1>1
<1> DEFINE top == Len(stack[t])
<1>3. /\ Front(stack[t]) \in Seq(Activities)
      /\ top \in DOMAIN stack[t] /\ stack[t][top] = a
      /\ DOMAIN Front(stack[t]) = DOMAIN stack[t] \ {top}
      /\ \A i \in DOMAIN Front(stack[t]) : Front(stack[t])[i] = stack[t][i]
  BY <1>1, Popped DEF Running
<1> HIDE DEF top
<1>4. \A u \in Threads : \A i \in DOMAIN stack[u] : stack[u][i] \in Activities
  BY <1>1
<1>5. \A u \in Threads : \A i \in DOMAIN stack'[u] :
        i \in DOMAIN stack[u] /\ stack'[u][i] = stack[u][i] /\ stack[u][i] # a
  BY <1>2, <1>3 DEF StacksExact
<1>6. \A u \in Threads : \A i \in DOMAIN stack[u] :
        stack[u][i] # a => i \in DOMAIN stack'[u] /\ stack'[u][i] = stack[u][i]
  BY <1>2, <1>3
<1>7. \A u, v \in Threads : \A i \in DOMAIN stack'[u], k \in DOMAIN stack'[v] :
        stack'[u][i] = stack'[v][k] => u = v /\ i = k
  BY <1>5 DEF StacksExact
<1>8. \A u \in Threads : \A i \in DOMAIN stack'[u] : phase'[stack'[u][i]] \notin Off
  BY <1>4, <1>5 DEF StacksExact, SameOff
<1>9. \A b \in Activities : phase'[b] \notin Off =>
         \E u \in Threads : \E i \in DOMAIN stack'[u] : stack'[u][i] = b
  BY <1>6 DEF StacksExact, SameOff
<1>10. stack' \in [Threads -> Seq(Activities)]
  BY <1>1, <1>3
<1> QED
  BY <1>7, <1>8, <1>9, <1>10 DEF StacksExact

(* ... and to the lists of continuations.                                   *)
SameSuspended(A) == \A b \in A : phase'[b] = "suspended" <=> phase[b] = "suspended"

LEMMA ListsStay ==
  ASSUME ListsExact, Shapes, UNCHANGED <<waiting, taken>>, SameSuspended(Activities)
  PROVE  ListsExact'
<1>1. /\ \A k \in Tasks : \A i \in DOMAIN waiting[k] : waiting[k][i] \in Activities
      /\ \A b \in Activities : \A i \in DOMAIN taken[b] : taken[b][i] \in Activities
  BY DEF Shapes
<1> QED
  BY <1>1 DEF ListsExact, SameSuspended

LEMMA ListsGrow ==
  ASSUME ListsExact, Shapes, NEW k \in Tasks, NEW a \in Activities,
         waiting' = [waiting EXCEPT ![k] = Append(@, a)], UNCHANGED taken,
         phase[a] # "suspended", phase'[a] = "suspended", SameSuspended(Activities \ {a})
  PROVE  ListsExact' /\ waiting' \in [Tasks -> Seq(Activities)]
<1>1. waiting \in [Tasks -> Seq(Activities)] /\ waiting[k] \in Seq(Activities)
  BY DEF Shapes
<1>2. waiting'[k] = Append(waiting[k], a) /\ \A l \in Tasks \ {k} : waiting'[l] = waiting[l]
  BY <1>1
<1> DEFINE new == Len(waiting[k]) + 1
<1>3. /\ Append(waiting[k], a) \in Seq(Activities)
      /\ DOMAIN Append(waiting[k], a) = DOMAIN waiting[k] \cup {new} /\ new \notin DOMAIN waiting[k]
      /\ \A i \in DOMAIN waiting[k] : Append(waiting[k], a)[i] = waiting[k][i]
      /\ Append(waiting[k], a)[new] = a
  BY <1>1, Pushed
<1> HIDE DEF new
<1>4. /\ \A l \in Tasks : \A i \in DOMAIN waiting[l] : waiting[l][i] \in Activities /\ waiting[l][i] # a
      /\ \A b \in Activities : \A i \in DOMAIN taken[b] : taken[b][i] \in Activities /\ taken[b][i] # a
  BY DEF Shapes, ListsExact
<1>5. \A l \in Tasks : \A i \in DOMAIN waiting'[l] :
        \/ i \in DOMAIN waiting[l] /\ waiting'[l][i] = waiting[l][i]
        \/ l = k /\ i = new /\ waiting'[l][i] = a
  BY <1>2, <1>3
<1>6. \A l \in Tasks : \A i \in DOMAIN waiting[l] : i \in DOMAIN waiting'[l] /\ waiting'[l][i] = waiting[l][i]
  BY <1>2, <1>3
<1>7. new \in DOMAIN waiting'[k] /\ waiting'[k][new] = a
  BY <1>2, <1>3
<1>8. \A l, m \in Tasks : \A i \in DOMAIN waiting'[l], j \in DOMAIN waiting'[m] :
        waiting'[l][i] = waiting'[m][j] => l = m /\ i = j
  BY <1>4, <1>5 DEF ListsExact
<1>9. \A l \in Tasks, b \in Activities : \A i \in DOMAIN waiting'[l], j \in DOMAIN taken[b] :
        waiting'[l][i] # taken[b][j]
  BY <1>4, <1>5 DEF ListsExact
<1>10. /\ \A l \in Tasks : \A i \in DOMAIN waiting'[l] : phase'[waiting'[l][i]] = "suspended"
       /\ \A b \in Activities : \A i \in DOMAIN taken[b] : phase'[taken[b][i]] = "suspended"
  BY <1>4, <1>5 DEF ListsExact, SameSuspended
<1>11. \A b \in Activities : phase'[b] = "suspended" =>
         \/ \E l \in Tasks : \E i \in DOMAIN waiting'[l] : waiting'[l][i] = b
         \/ \E c \in Activities : \E i \in DOMAIN taken[c] : taken[c][i] = b
  <2> SUFFICES ASSUME NEW b \in Activities, phase'[b] = "suspended"
               PROVE  \/ \E l \in Tasks : \E i \in DOMAIN waiting'[l] : waiting'[l][i] = b
                      \/ \E c \in Activities : \E i \in DOMAIN taken[c] : taken[c][i] = b
    OBVIOUS
  <2>1. CASE b = a
    BY <1>7, <2>1
  <2>2. CASE b # a
    BY <1>6, <2>2 DEF ListsExact, SameSuspended
  <2> QED
    BY <2>1, <2>2
<1>12. waiting' \in [Tasks -> Seq(Activities)]
  BY <1>1, <1>3
<1>13. \A b, c \in Activities : \A i \in DOMAIN taken'[b], j \in DOMAIN taken'[c] :
        taken'[b][i] = taken'[c][j] => b = c /\ i = j
  BY DEF ListsExact
<1>14. /\ \A l \in Tasks, b \in Activities : \A i \in DOMAIN waiting'[l], j \in DOMAIN taken'[b] :
           waiting'[l][i] # taken'[b][j]
       /\ \A b \in Activities : \A i \in DOMAIN taken'[b] : phase'[taken'[b][i]] = "suspended"
       /\ \A b \in Activities : phase'[b] = "suspended" =>
            \/ \E l \in Tasks : \E i \in DOMAIN waiting'[l] : waiting'[l][i] = b
            \/ \E c \in Activities : \E i \in DOMAIN taken'[c] : taken'[c][i] = b
  BY <1>9, <1>10, <1>11
<1>15. ListsExact'
  BY <1>8, <1>10, <1>13, <1>14 DEF ListsExact
<1> QED
  BY <1>12, <1>15

LEMMA ListsTaken ==
  ASSUME ListsExact, Shapes, NEW k \in Tasks, NEW a \in Activities, TakeContinuations(a, k),
         taken[a] = <<>>, SameSuspended(Activities)
  PROVE  /\ ListsExact' /\ waiting' \in [Tasks -> Seq(Activities)] /\ taken' \in [Activities -> Seq(Activities)]
<1>1. /\ waiting \in [Tasks -> Seq(Activities)] /\ waiting[k] \in Seq(Activities)
      /\ taken \in [Activities -> Seq(Activities)]
  BY DEF Shapes
<1>2. /\ waiting'[k] = <<>> /\ \A l \in Tasks \ {k} : waiting'[l] = waiting[l]
      /\ taken'[a] = waiting[k] /\ \A b \in Activities \ {a} : taken'[b] = taken[b]
  BY <1>1 DEF TakeContinuations
<1>3. /\ waiting' \in [Tasks -> Seq(Activities)] /\ taken' \in [Activities -> Seq(Activities)]
  BY <1>1 DEF TakeContinuations
<1>4. DOMAIN taken[a] = {} /\ DOMAIN waiting'[k] = {}
  BY <1>2
<1>5. /\ \A l \in Tasks : \A i \in DOMAIN waiting[l] : waiting[l][i] \in Activities
      /\ \A b \in Activities : \A i \in DOMAIN taken[b] : taken[b][i] \in Activities
  BY <1>1
<1>6. /\ \A l \in Tasks : \A i \in DOMAIN waiting'[l] :
           l # k /\ i \in DOMAIN waiting[l] /\ waiting'[l][i] = waiting[l][i]
      /\ \A b \in Activities : \A i \in DOMAIN taken'[b] :
           \/ b # a /\ i \in DOMAIN taken[b] /\ taken'[b][i] = taken[b][i]
           \/ b = a /\ i \in DOMAIN waiting[k] /\ taken'[b][i] = waiting[k][i]
  BY <1>2, <1>4
<1>7. \A l, m \in Tasks : \A i \in DOMAIN waiting'[l], j \in DOMAIN waiting'[m] :
        waiting'[l][i] = waiting'[m][j] => l = m /\ i = j
  BY <1>6 DEF ListsExact
<1>8. \A b, c \in Activities : \A i \in DOMAIN taken'[b], j \in DOMAIN taken'[c] :
        taken'[b][i] = taken'[c][j] => b = c /\ i = j
  BY <1>6 DEF ListsExact
<1>9. \A l \in Tasks, b \in Activities : \A i \in DOMAIN waiting'[l], j \in DOMAIN taken'[b] :
        waiting'[l][i] # taken'[b][j]
  BY <1>6 DEF ListsExact
<1>10. /\ \A l \in Tasks : \A i \in DOMAIN waiting'[l] : phase'[waiting'[l][i]] = "suspended"
       /\ \A b \in Activities : \A i \in DOMAIN taken'[b] : phase'[taken'[b][i]] = "suspended"
  BY <1>5, <1>6 DEF ListsExact, SameSuspended
<1>11. \A b \in Activities : phase'[b] = "suspended" =>
         \/ \E l \in Tasks : \E i \in DOMAIN waiting'[l] : waiting'[l][i] = b
         \/ \E c \in Activities : \E i \in DOMAIN taken'[c] : taken'[c][i] = b
  <2> SUFFICES ASSUME NEW b \in Activities, phase'[b] = "suspended"
               PROVE  \/ \E l \in Tasks : \E i \in DOMAIN waiting'[l] : waiting'[l][i] = b
                      \/ \E c \in Activities : \E i \in DOMAIN taken'[c] : taken'[c][i] = b
    OBVIOUS
  <2>1. phase[b] = "suspended"
    BY DEF SameSuspended
  <2>2. CASE \E l \in Tasks : \E i \in DOMAIN waiting[l] : waiting[l][i] = b
    <3>1. PICK l \in Tasks : \E i \in DOMAIN waiting[l] : waiting[l][i] = b
      BY <2>2
    <3>2. CASE l = k
      BY <1>2, <3>1, <3>2
    <3>3. CASE l # k
      BY <1>2, <3>1, <3>3
    <3> QED
      BY <3>2, <3>3
  <2>3. CASE \E c \in Activities : \E i \in DOMAIN taken[c] : taken[c][i] = b
    <3>1. PICK c \in Activities : \E i \in DOMAIN taken[c] : taken[c][i] = b
      BY <2>3
    <3> QED
      BY <1>2, <1>4, <3>1
  <2> QED
    BY <2>1, <2>2, <2>3 DEF ListsExact
<1> QED
  BY <1>3, <1>7, <1>8, <1>9, <1>10, <1>11 DEF ListsExact

LEMMA ListsResumed ==
  ASSUME ListsExact, Shapes, NEW a \in Activities, taken[a] # <<>>,
         taken' = [taken EXCEPT ![a] = Tail(@)], UNCHANGED waiting,
         phase'[Head(taken[a])] # "suspended", SameSuspended(Activities \ {Head(taken[a])})
  PROVE  /\ ListsExact' /\ taken' \in [Activities -> Seq(Activities)]
         /\ Head(taken[a]) \in Activities /\ phase[Head(taken[a])] = "suspended"
<1> DEFINE h == Head(taken[a])
<1>1. taken \in [Activities -> Seq(Activities)] /\ taken[a] \in Seq(Activities)
  BY DEF Shapes
<1>2. taken'[a] = Tail(taken[a]) /\ \A b \in Activities \ {a} : taken'[b] = taken[b]
  BY <1>1
<1>3. /\ Tail(taken[a]) \in Seq(Activities) /\ h = taken[a][1] /\ 1 \in DOMAIN taken[a] /\ h \in Activities
      /\ \A i \in DOMAIN Tail(taken[a]) : i + 1 \in DOMAIN taken[a] /\ i + 1 # 1 /\ Tail(taken[a])[i] = taken[a][i + 1]
      /\ \A i \in DOMAIN taken[a] : i # 1 => i - 1 \in DOMAIN Tail(taken[a]) /\ Tail(taken[a])[i - 1] = taken[a][i]
      /\ DOMAIN taken[a] \subseteq Int /\ DOMAIN Tail(taken[a]) \subseteq Int
  BY <1>1, Beheaded
<1> HIDE DEF h
<1>4. /\ \A l \in Tasks : \A i \in DOMAIN waiting[l] : waiting[l][i] \in Activities /\ waiting[l][i] # h
      /\ \A b \in Activities : \A i \in DOMAIN taken[b] : taken[b][i] \in Activities
      /\ \A b \in Activities : \A i \in DOMAIN taken[b] : taken[b][i] = h => b = a /\ i = 1
      /\ phase[h] = "suspended"
  BY <1>3 DEF Shapes, ListsExact
<1>5. \A b \in Activities : \A i \in DOMAIN taken'[b] :
        \/ b # a /\ i \in DOMAIN taken[b] /\ taken'[b][i] = taken[b][i]
        \/ b = a /\ i \in Int /\ i + 1 \in DOMAIN taken[b] /\ i + 1 # 1 /\ taken'[b][i] = taken[b][i + 1]
  BY <1>2, <1>3
<1>6. \A b, c \in Activities : \A i \in DOMAIN taken'[b], j \in DOMAIN taken'[c] :
        taken'[b][i] = taken'[c][j] => b = c /\ i = j
  <2> SUFFICES ASSUME NEW b \in Activities, NEW c \in Activities, NEW i \in DOMAIN taken'[b],
                      NEW j \in DOMAIN taken'[c], taken'[b][i] = taken'[c][j]
               PROVE  b = c /\ i = j
    OBVIOUS
  <2>1. CASE b = a /\ c = a
    <3>1. i + 1 = j + 1 /\ i \in Int /\ j \in Int
      BY <1>5, <2>1 DEF ListsExact
    <3> QED
      BY <2>1, <3>1
  <2>2. CASE ~(b = a /\ c = a)
    BY <1>5, <2>2 DEF ListsExact
  <2> QED
    BY <2>1, <2>2
<1>7. \A b \in Activities : \A i \in DOMAIN taken'[b] :
        /\ taken'[b][i] \in Activities /\ taken'[b][i] # h /\ phase[taken'[b][i]] = "suspended"
        /\ \A l \in Tasks : \A j \in DOMAIN waiting[l] : waiting[l][j] # taken'[b][i]
  BY <1>4, <1>5 DEF ListsExact
<1>8. /\ \A l \in Tasks : \A i \in DOMAIN waiting[l] : phase'[waiting[l][i]] = "suspended"
      /\ \A b \in Activities : \A i \in DOMAIN taken'[b] : phase'[taken'[b][i]] = "suspended"
  BY <1>4, <1>7 DEF ListsExact, SameSuspended, h
<1>9. \A b \in Activities : phase'[b] = "suspended" =>
         \/ \E l \in Tasks : \E i \in DOMAIN waiting[l] : waiting[l][i] = b
         \/ \E c \in Activities : \E i \in DOMAIN taken'[c] : taken'[c][i] = b
  <2> SUFFICES ASSUME NEW b \in Activities, phase'[b] = "suspended",
                      NEW c \in Activities, NEW i \in DOMAIN taken[c], taken[c][i] = b
               PROVE  \E d \in Activities : \E j \in DOMAIN taken'[d] : taken'[d][j] = b
    BY DEF ListsExact, SameSuspended, h
  <2>1. b # h
    BY DEF h
  <2>2. CASE c = a
    <3>1. i # 1
      BY <1>3, <2>1, <2>2
    <3>2. i - 1 \in DOMAIN taken'[a] /\ taken'[a][i - 1] = b
      BY <1>2, <1>3, <2>2, <3>1
    <3> QED
      BY <3>2
  <2>3. CASE c # a
    BY <1>2, <2>3
  <2> QED
    BY <2>2, <2>3
<1>10. taken' \in [Activities -> Seq(Activities)]
  BY <1>1, <1>3
<1>11. \A k, l \in Tasks : \A i \in DOMAIN waiting'[k], j \in DOMAIN waiting'[l] :
        waiting'[k][i] = waiting'[l][j] => k = l /\ i = j
  BY DEF ListsExact
<1>12. \A k \in Tasks, b \in Activities : \A i \in DOMAIN waiting'[k], j \in DOMAIN taken'[b] :
        waiting'[k][i] # taken'[b][j]
  BY <1>7
<1>13. \A k \in Tasks : \A i \in DOMAIN waiting'[k] : phase'[waiting'[k][i]] = "suspended"
  BY <1>8
<1>14. \A b \in Activities : phase'[b] = "suspended" =>
         \/ \E l \in Tasks : \E i \in DOMAIN waiting'[l] : waiting'[l][i] = b
         \/ \E c \in Activities : \E i \in DOMAIN taken'[c] : taken'[c][i] = b
  BY <1>9
<1>15. ListsExact'
  BY <1>6, <1>8, <1>11, <1>12, <1>13, <1>14 DEF ListsExact
<1> QED
  BY <1>3, <1>4, <1>10, <1>15 DEF h

-----------------------------------------------------------------------------
(* What an operation is about.                                              *)
LEMMA Operands ==
  ASSUME Shapes, NEW a \in Activities, ~AtEnd(a)
  PROVE  /\ at[a] \in DOMAIN script[a] /\ Instr(a) = script[a][at[a]]
         /\ Instr(a).op \in {"run", "delay"} => Instr(a).on \in Jobs
         /\ Instr(a).op = "call" => Instr(a).on \in Asyncs
         /\ Instr(a).op \in {"wait", "await"} => Instr(a).on \in Tasks
         /\ Instr(a).op \in {"set", "fail", "tryset", "tryfail"} => Instr(a).on \in Sources
<1>1. script[a] \in Seq(Ops) /\ at[a] \in Nat \ {0}
  BY ScriptsAssumption DEF Shapes
<1>2. at[a] \in 1 .. Len(script[a]) /\ DOMAIN script[a] = 1 .. Len(script[a])
  BY <1>1, LenProperties DEF AtEnd
<1>3. script[a][at[a]] \in Ops
  BY <1>1, <1>2, ElementOfSeq
<1> QED
  BY <1>2, <1>3 DEF Instr, Ops

(* What an activity is about to begin is begun nowhere else.                *)
LEMMA AboutToBegin ==
  ASSUME Shapes, NotYetBegun, NEW a \in Activities, ~AtEnd(a), Instr(a).op \in Begins
  PROVE  /\ phase[Instr(a).on] = "unstarted" /\ Instr(a).on \notin timers
         /\ \A n \in DOMAIN queue : queue[n] # Instr(a).on
         /\ \A b \in Activities : \A i \in DOMAIN script[b] :
              script[b][i].op \in Begins /\ script[b][i].on = Instr(a).on => b = a /\ i = at[a]
<1>1. at[a] \in DOMAIN script[a] /\ Instr(a) = script[a][at[a]] /\ at[a] \in Nat /\ script \in Scripts
  BY Operands DEF Shapes
<1>2. at[a] >= at[a]
  BY <1>1
<1>3. \A b \in Activities : \A i \in DOMAIN script[b] :
        script[b][i].op \in Begins /\ script[b][i].on = script[a][at[a]].on => b = a /\ i = at[a]
  BY <1>1, FreshAssumption
<1> QED
  BY <1>1, <1>2, <1>3 DEF NotYetBegun

LEMMA Indices ==
  ASSUME Shapes
  PROVE  /\ \A b \in Activities : DOMAIN script[b] \subseteq Nat /\ at[b] \in Nat
         /\ \A b \in Activities : \A i \in DOMAIN script[b] :
              script[b][i].op \in Begins => script[b][i].on \in Activities
         /\ \A n \in DOMAIN queue : queue[n] \in Jobs
<1>1. \A b \in Activities : script[b] \in Seq(Ops) /\ at[b] \in Nat
  BY ScriptsAssumption DEF Shapes
<1>2. \A b \in Activities : DOMAIN script[b] = 1 .. Len(script[b]) /\ Len(script[b]) \in Nat
  BY <1>1, LenProperties
<1>3. \A n \in DOMAIN queue : queue[n] \in Jobs
  BY DEF Shapes
<1>4. \A b \in Activities : \A i \in DOMAIN script[b] : script[b][i] \in Ops
  BY <1>1
<1>5. \A o \in Ops : o.op \in Begins => o.on \in Activities
  BY DEF Ops, Begins, Activities
<1> QED
  BY <1>1, <1>2, <1>3, <1>4, <1>5

-----------------------------------------------------------------------------
(* What has begun and what has been handed over.                            *)
LEMMA BegunStays ==
  ASSUME Shapes, NotYetBegun, UNCHANGED <<script, queue, timers>>,
         \A b \in Activities : at'[b] \in Nat /\ at'[b] >= at[b],
         \A b \in Activities : phase[b] = "unstarted" => phase'[b] = "unstarted"
  PROVE  NotYetBegun'
<1>1. \A b \in Activities : \A i \in DOMAIN script[b] :
        /\ i \in Nat /\ at[b] \in Nat
        /\ script[b][i].op \in Begins => script[b][i].on \in Activities
  BY Indices
<1>2. \A n \in DOMAIN queue : queue[n] \in Activities
  BY Indices DEF Activities
<1>3. timers \subseteq Activities
  BY DEF Shapes, Activities
<1>4. \A b \in Activities : \A i \in DOMAIN script'[b] :
       i >= at'[b] /\ script'[b][i].op \in Begins =>
         /\ phase'[script'[b][i].on] = "unstarted"
         /\ script'[b][i].on \notin timers'
         /\ \A n \in DOMAIN queue' : queue'[n] # script'[b][i].on
  <2> SUFFICES ASSUME NEW b \in Activities, NEW i \in DOMAIN script[b], i >= at'[b], script[b][i].op \in Begins
               PROVE  /\ phase'[script[b][i].on] = "unstarted"
                      /\ script[b][i].on \notin timers
                      /\ \A n \in DOMAIN queue : queue[n] # script[b][i].on
    OBVIOUS
  <2>1. i >= at[b]
    BY <1>1
  <2> QED
    BY <1>1, <2>1 DEF NotYetBegun
<1> QED
  BY <1>2, <1>3, <1>4 DEF NotYetBegun

(* The operation at which a is has begun m, which is neither queued nor     *)
(* waits for a timer.                                                       *)
LEMMA BegunByCall ==
  ASSUME Shapes, NotYetBegun, NEW a \in Activities, ~AtEnd(a), Instr(a).op \in Begins,
         UNCHANGED <<script, queue, timers>>, at' = [at EXCEPT ![a] = @ + 1],
         \A b \in Activities \ {Instr(a).on} : phase[b] = "unstarted" => phase'[b] = "unstarted"
  PROVE  NotYetBegun'
<1> DEFINE m == Instr(a).on
<1>1. /\ at \in [Activities -> Nat \ {0}]
      /\ at[a] \in Nat /\ at'[a] = at[a] + 1 /\ \A b \in Activities \ {a} : at'[b] = at[b]
  BY DEF Shapes
<1>2. \A b \in Activities : \A i \in DOMAIN script[b] :
        /\ i \in Nat /\ at[b] \in Nat
        /\ script[b][i].op \in Begins => script[b][i].on \in Activities
  BY Indices
<1>3. (\A n \in DOMAIN queue : queue[n] \in Activities) /\ timers \subseteq Activities
  BY Indices DEF Activities, Shapes
<1>4. /\ m \notin timers /\ \A n \in DOMAIN queue : queue[n] # m
      /\ \A b \in Activities : \A i \in DOMAIN script[b] :
              script[b][i].op \in Begins /\ script[b][i].on = m => b = a /\ i = at[a]
  BY AboutToBegin
<1> HIDE DEF m
<1>5. \A b \in Activities : \A i \in DOMAIN script'[b] :
       i >= at'[b] /\ script'[b][i].op \in Begins =>
         /\ phase'[script'[b][i].on] = "unstarted"
         /\ script'[b][i].on \notin timers'
         /\ \A n \in DOMAIN queue' : queue'[n] # script'[b][i].on
  <2> SUFFICES ASSUME NEW b \in Activities, NEW i \in DOMAIN script[b], i >= at'[b], script[b][i].op \in Begins
               PROVE  /\ phase'[script[b][i].on] = "unstarted"
                      /\ script[b][i].on \notin timers
                      /\ \A n \in DOMAIN queue : queue[n] # script[b][i].on
    OBVIOUS
  <2>1. i >= at[b] /\ script[b][i].on # m
    BY <1>1, <1>2, <1>4
  <2>2. /\ phase[script[b][i].on] = "unstarted" /\ script[b][i].on \notin timers
        /\ \A n \in DOMAIN queue : queue[n] # script[b][i].on
    BY <2>1 DEF NotYetBegun
  <2>3. phase'[script[b][i].on] = "unstarted"
    BY <1>2, <2>1, <2>2 DEF m
  <2> QED
    BY <2>2, <2>3
<1>6. \A n \in DOMAIN queue : phase'[queue[n]] = "unstarted"
  BY <1>3, <1>4 DEF NotYetBegun, m
<1>7. \A j \in timers : phase'[j] = "unstarted"
  BY <1>3, <1>4 DEF NotYetBegun, m
<1> QED
  BY <1>5, <1>6, <1>7 DEF NotYetBegun

(* The first job of the queue is begun.                                     *)
LEMMA BegunFromQueue ==
  ASSUME Shapes, NotYetBegun, queue # <<>>, queue' = Tail(queue), UNCHANGED <<script, timers, at>>,
         \A b \in Activities \ {Head(queue)} : phase[b] = "unstarted" => phase'[b] = "unstarted"
  PROVE  /\ NotYetBegun' /\ queue' \in Seq(Jobs)
         /\ Head(queue) \in Jobs /\ phase[Head(queue)] = "unstarted"
<1> DEFINE h == Head(queue)
<1>1. /\ Tail(queue) \in Seq(Jobs) /\ h = queue[1] /\ 1 \in DOMAIN queue /\ h \in Jobs
      /\ \A i \in DOMAIN Tail(queue) : i + 1 \in DOMAIN queue /\ i + 1 # 1 /\ Tail(queue)[i] = queue[i + 1]
      /\ DOMAIN Tail(queue) \subseteq Int
  <2>1. queue \in Seq(Jobs)
    BY DEF Shapes
  <2> QED
    BY <2>1, Beheaded
<1>2. /\ phase[h] = "unstarted" /\ h \notin timers
      /\ \A b \in Activities : \A i \in DOMAIN script[b] :
           i >= at[b] /\ script[b][i].op \in Begins => script[b][i].on # h
  BY <1>1 DEF NotYetBegun
<1>3. \A n \in DOMAIN queue' :
        /\ n \in Int /\ n + 1 \in DOMAIN queue /\ queue'[n] = queue[n + 1] /\ queue'[n] # h
        /\ queue'[n] \in Activities
  BY <1>1, Indices DEF NotYetBegun, Activities
<1>4. timers \subseteq Activities
  BY DEF Shapes, Activities
<1> HIDE DEF h
<1>5. \A b \in Activities : \A i \in DOMAIN script'[b] :
       i >= at'[b] /\ script'[b][i].op \in Begins =>
         /\ phase'[script'[b][i].on] = "unstarted"
         /\ script'[b][i].on \notin timers'
         /\ \A n \in DOMAIN queue' : queue'[n] # script'[b][i].on
  <2> SUFFICES ASSUME NEW b \in Activities, NEW i \in DOMAIN script[b], i >= at[b], script[b][i].op \in Begins
               PROVE  /\ phase'[script[b][i].on] = "unstarted"
                      /\ script[b][i].on \notin timers
                      /\ \A n \in DOMAIN queue' : queue'[n] # script[b][i].on
    OBVIOUS
  <2>1. /\ phase[script[b][i].on] = "unstarted" /\ script[b][i].on \notin timers
        /\ \A n \in DOMAIN queue : queue[n] # script[b][i].on
        /\ script[b][i].on # h /\ script[b][i].on \in Activities
    BY <1>2, Indices DEF NotYetBegun
  <2>2. phase'[script[b][i].on] = "unstarted"
    BY <2>1 DEF h
  <2> QED
    BY <1>3, <2>1, <2>2
<1>6. \A n \in DOMAIN queue' : phase'[queue'[n]] = "unstarted" /\ queue'[n] \notin timers'
  BY <1>3 DEF NotYetBegun, h
<1>7. \A n, m \in DOMAIN queue' : queue'[n] = queue'[m] => n = m
  <2> SUFFICES ASSUME NEW n \in DOMAIN queue', NEW m \in DOMAIN queue', queue'[n] = queue'[m]
               PROVE  n = m
    OBVIOUS
  <2>1. n + 1 = m + 1
    BY <1>3 DEF NotYetBegun
  <2> QED
    BY <1>3, <2>1
<1>8. \A j \in timers : phase'[j] = "unstarted"
  BY <1>2, <1>4 DEF NotYetBegun, h
<1>9. NotYetBegun'
  BY <1>5, <1>6, <1>7, <1>8 DEF NotYetBegun
<1> QED
  BY <1>1, <1>2, <1>9 DEF h

(* A job is handed over: nothing later begins it again.                     *)
LEMMA BegunHandedOver ==
  ASSUME Shapes, NotYetBegun, NEW j \in Jobs, UNCHANGED script,
         phase[j] = "unstarted", \A n \in DOMAIN queue : queue[n] # j,
         \A b \in Activities : \A i \in DOMAIN script[b] :
           i >= at'[b] /\ script[b][i].op \in Begins => i >= at[b] /\ script[b][i].on # j,
         \A b \in Activities : phase[b] = "unstarted" => phase'[b] = "unstarted",
         \/ queue' = Append(queue, j) /\ timers' = timers \ {j}
         \/ queue' = queue /\ timers' = timers \cup {j}
  PROVE  NotYetBegun' /\ queue' \in Seq(Jobs) /\ timers' \subseteq Jobs
<1> DEFINE new == Len(queue) + 1
<1>1. queue \in Seq(Jobs) /\ timers \subseteq Jobs /\ j \in Activities /\ Jobs \subseteq Activities
  BY DEF Shapes, Activities
<1>2. /\ Append(queue, j) \in Seq(Jobs)
      /\ DOMAIN Append(queue, j) = DOMAIN queue \cup {new} /\ new \notin DOMAIN queue
      /\ (\A i \in DOMAIN queue : Append(queue, j)[i] = queue[i]) /\ Append(queue, j)[new] = j
  BY <1>1, Pushed
<1> HIDE DEF new
<1>3. \A n \in DOMAIN queue' :
        \/ n \in DOMAIN queue /\ queue'[n] = queue[n]
        \/ n = new /\ queue'[n] = j /\ timers' = timers \ {j}
  BY <1>2
<1>4. \A k \in timers' : k \in timers \cup {j}
  OBVIOUS
<1>5. \A n \in DOMAIN queue : queue[n] \in Activities
  BY Indices DEF Activities
<1>6. \A b \in Activities : \A i \in DOMAIN script'[b] :
       i >= at'[b] /\ script'[b][i].op \in Begins =>
         /\ phase'[script'[b][i].on] = "unstarted"
         /\ script'[b][i].on \notin timers'
         /\ \A n \in DOMAIN queue' : queue'[n] # script'[b][i].on
  <2> SUFFICES ASSUME NEW b \in Activities, NEW i \in DOMAIN script[b], i >= at'[b], script[b][i].op \in Begins
               PROVE  /\ phase'[script[b][i].on] = "unstarted"
                      /\ script[b][i].on \notin timers'
                      /\ \A n \in DOMAIN queue' : queue'[n] # script[b][i].on
    OBVIOUS
  <2>1. /\ phase[script[b][i].on] = "unstarted" /\ script[b][i].on \notin timers
        /\ \A n \in DOMAIN queue : queue[n] # script[b][i].on
        /\ script[b][i].on # j /\ script[b][i].on \in Activities
    BY Indices DEF NotYetBegun
  <2> QED
    BY <1>3, <1>4, <2>1
<1>7. \A n \in DOMAIN queue' : phase'[queue'[n]] = "unstarted" /\ queue'[n] \notin timers'
  BY <1>1, <1>3, <1>4, <1>5 DEF NotYetBegun
<1>8. \A n, m \in DOMAIN queue' : queue'[n] = queue'[m] => n = m
  BY <1>3 DEF NotYetBegun
<1>9. \A k \in timers' : phase'[k] = "unstarted"
  BY <1>1, <1>4 DEF NotYetBegun
<1>10. queue' \in Seq(Jobs) /\ timers' \subseteq Jobs
  BY <1>1, <1>2
<1> QED
  BY <1>6, <1>7, <1>8, <1>9, <1>10 DEF NotYetBegun

-----------------------------------------------------------------------------
(* A step of the activity that runs, which touches neither a list nor a     *)
(* stack.                                                                   *)
LEMMA Quiet ==
  ASSUME AwaitInv, NEW a \in Activities, NEW p \in Phases \ Off,
         phase[a] \notin Off, phase[a] = "resuming" => taken[a] = <<>> /\ ~AtEnd(a),
         Becomes(a, p), UNCHANGED <<script, stack, tasks, queue, timers>>,
         \/ /\ UNCHANGED at /\ phase[a] # "resuming"
            /\ p \in Within => ~AtEnd(a)
            /\ Serves(p, Instr(a).op)
            /\ p = "throwing" => a # Main
         \/ at' = [at EXCEPT ![a] = @ + 1] /\ p = "ready"
  PROVE  AwaitInv'
<1> USE DEF AwaitInv
<1>1. /\ phase' = [phase EXCEPT ![a] = p] /\ phase \in [Activities -> Phases]
      /\ at \in [Activities -> Nat \ {0}]
  BY DEF Becomes, Shapes
<1>2. /\ phase'[a] = p /\ \A b \in Activities \ {a} : phase'[b] = phase[b]
      /\ at' \in [Activities -> Nat \ {0}] /\ phase' \in [Activities -> Phases]
      /\ \A b \in Activities \ {a} : at'[b] = at[b]
      /\ \A b \in Activities : at'[b] \in Nat /\ at'[b] >= at[b]
  BY <1>1
<1>3. Shapes'
  BY <1>2 DEF Shapes, tasks
<1>4. StacksExact'
  BY <1>2, StacksStay DEF SameOff
<1>5. SameSuspended(Activities)
  BY <1>2 DEF SameSuspended, Off
<1>6. ListsExact'
  BY <1>5, ListsStay DEF tasks
<1>7. SettledHaveNoList'
  BY DEF SettledHaveNoList, Pending, tasks
<1>8. TakenWhileResuming'
  BY <1>2 DEF TakenWhileResuming, tasks
<1>9. NotYetBegun'
  <2>1. \A b \in Activities : phase[b] = "unstarted" => phase'[b] = "unstarted"
    BY <1>2 DEF Off
  <2> QED
    BY <1>2, <2>1, BegunStays
<1>10. PhasesFit'
  <2>1. \A b \in Activities \ {a} : AtEnd(b)' = AtEnd(b) /\ Instr(b)' = Instr(b)
    BY <1>2 DEF AtEnd, Instr
  <2>2. phase'[a] \in Within => ~AtEnd(a)'
    BY <1>2 DEF AtEnd, Within
  <2>3. Serves(phase'[a], Instr(a)'.op) /\ (phase'[a] = "throwing" => a # Main)
    BY <1>2 DEF Instr, Serves
  <2> QED
    BY <1>2, <2>1, <2>2, <2>3 DEF PhasesFit, Serves
<1>11. OwnTaskLast'
  <2>1. \A b \in Activities \ {a} : AtEnd(b)' = AtEnd(b)
    BY <1>2 DEF AtEnd
  <2>2. a \in Jobs \cup Asyncs => Pending(a)
    BY DEF OwnTaskLast, Off
  <2> QED
    BY <1>2, <2>1, <2>2 DEF OwnTaskLast, Pending, tasks, Activities
<1> QED
  BY <1>3, <1>4, <1>6, <1>7, <1>8, <1>9, <1>10, <1>11

(* A task is settled by the activity that runs, which takes its list.       *)
LEMMA Settling ==
  ASSUME AwaitInv, NEW a \in Activities, NEW k \in Tasks, NEW how \in {"COMPLETED", "FAULTED"},
         phase[a] \notin Off \cup {"resuming"},
         Settles(a, k, how), UNCHANGED <<script, stack, queue, timers>>,
         \/ UNCHANGED at
         \/ at' = [at EXCEPT ![a] = Len(script[a]) + 1] /\ ~AtEnd(a),
         \/ k \in Sources
         \/ k = a /\ AtEnd(a)'
  PROVE  AwaitInv'
<1> USE DEF AwaitInv
<1>1. /\ phase' = [phase EXCEPT ![a] = "resuming"] /\ phase \in [Activities -> Phases]
      /\ at \in [Activities -> Nat \ {0}]
      /\ progress' = [progress EXCEPT ![k] = how]
      /\ progress \in [Tasks -> {"PENDING", "COMPLETED", "FAULTED"}]
      /\ TakeContinuations(a, k) /\ taken[a] = <<>>
  BY DEF Settles, Becomes, Shapes, TakenWhileResuming
<1>2. /\ phase'[a] = "resuming" /\ \A b \in Activities \ {a} : phase'[b] = phase[b]
      /\ phase' \in [Activities -> Phases]
      /\ \A l \in Tasks \ {k} : progress'[l] = progress[l]
      /\ progress' \in [Tasks -> {"PENDING", "COMPLETED", "FAULTED"}]
  BY <1>1 DEF Phases
<1>3. /\ at' \in [Activities -> Nat \ {0}]
      /\ \A b \in Activities \ {a} : at'[b] = at[b]
      /\ \A b \in Activities : at'[b] \in Nat /\ at'[b] >= at[b]
  <2>1. script[a] \in Seq(Ops)
    BY ScriptsAssumption DEF Shapes
  <2>2. Len(script[a]) \in Nat
    BY <2>1, LenProperties
  <2> QED
    BY <1>1, <2>2 DEF AtEnd
<1>4. SameSuspended(Activities)
  BY <1>2 DEF SameSuspended, Off
<1>5. ListsExact' /\ waiting' \in [Tasks -> Seq(Activities)] /\ taken' \in [Activities -> Seq(Activities)]
  BY <1>1, <1>4, ListsTaken
<1>6. Shapes'
  BY <1>2, <1>3, <1>5 DEF Shapes
<1>7. StacksExact'
  BY <1>2, StacksStay DEF SameOff, Off
<1>8. /\ waiting'[k] = <<>> /\ \A l \in Tasks \ {k} : waiting'[l] = waiting[l]
      /\ \A b \in Activities \ {a} : taken'[b] = taken[b]
  BY <1>1 DEF TakeContinuations, Shapes
<1>9. SettledHaveNoList'
  BY <1>2, <1>8 DEF SettledHaveNoList, Pending
<1>10. TakenWhileResuming'
  BY <1>2, <1>8 DEF TakenWhileResuming
<1>11. NotYetBegun'
  <2>1. \A b \in Activities : phase[b] = "unstarted" => phase'[b] = "unstarted"
    BY <1>2 DEF Off
  <2> QED
    BY <1>3, <2>1, BegunStays
<1>12. PhasesFit'
  <2>1. \A b \in Activities \ {a} : AtEnd(b)' = AtEnd(b) /\ Instr(b)' = Instr(b)
    BY <1>3 DEF AtEnd, Instr
  <2> QED
    BY <1>2, <2>1 DEF PhasesFit, Serves, Within
<1>13. OwnTaskLast'
  <2>1. \A b \in Activities \ {a} : AtEnd(b)' = AtEnd(b)
    BY <1>3 DEF AtEnd
  <2>2. a \in Jobs \cup Asyncs => Pending(a)
    BY DEF OwnTaskLast, Off
  <2> SUFFICES ASSUME NEW b \in Jobs \cup Asyncs, ~Pending(b)'
               PROVE  AtEnd(b)' /\ phase'[b] \in {"resuming", "over"}
    BY DEF OwnTaskLast
  <2>3. b \in Activities /\ b \in Tasks /\ b \notin Sources
    BY ActivitiesAssumption DEF Activities, Tasks
  <2>4. CASE b = k
    BY <1>2, <2>3, <2>4
  <2>5. CASE b # k
    BY <1>2, <2>1, <2>2, <2>3, <2>5 DEF OwnTaskLast, Pending
  <2> QED
    BY <2>4, <2>5
<1> QED
  BY <1>5, <1>6, <1>7, <1>9, <1>10, <1>11, <1>12, <1>13

(* A job is taken from the queue and run on top of what its thread does.    *)
LEMMA JobRuns ==
  ASSUME AwaitInv, NEW t \in Threads, RunOne(t), UNCHANGED <<script, at, tasks>>,
         NEW A \in SUBSET Activities, NEW p \in {"settling", "ready"},
         \A b \in A : phase[b] \notin Off \cup {"resuming"} /\ ~AtEnd(b) /\ Instr(b).op = "wait",
         phase' = [b \in Activities |-> IF b = Head(queue) THEN "ready" ELSE IF b \in A THEN p ELSE phase[b]]
  PROVE  AwaitInv'
<1> USE DEF AwaitInv
<1> DEFINE h == Head(queue)
<1>1. /\ queue # <<>> /\ queue' = Tail(queue) /\ Nests(t, h) /\ UNCHANGED timers
      /\ phase \in [Activities -> Phases]
  BY DEF RunOne, Shapes
<1>2. phase' \in [Activities -> Phases] /\ \A b \in Activities \ {h} : phase[b] = "unstarted" => phase'[b] = "unstarted"
  BY <1>1 DEF Phases, Off
<1>3. NotYetBegun' /\ queue' \in Seq(Jobs) /\ h \in Jobs /\ phase[h] = "unstarted"
  BY <1>1, <1>2, BegunFromQueue
<1>4. h \in Activities /\ phase'[h] = "ready" /\ h \notin A /\ \A b \in Activities \ ({h} \cup A) : phase'[b] = phase[b]
  BY <1>3 DEF Activities, Off
<1>5. \A b \in A : phase'[b] = p
  BY <1>4
<1> HIDE DEF h
<1>6. StacksExact' /\ stack' \in [Threads -> Seq(Activities)]
  <2>1. SameOff(Activities \ {h})
    BY <1>4, <1>5 DEF SameOff, Off
  <2>2. phase[h] \in Off /\ phase'[h] \notin Off
    BY <1>3, <1>4 DEF Off
  <2> QED
    BY <1>1, <1>4, <2>1, <2>2, StacksPushed
<1>7. Shapes'
  BY <1>1, <1>2, <1>3, <1>6 DEF Shapes, tasks
<1>8. SameSuspended(Activities)
  BY <1>3, <1>4, <1>5 DEF SameSuspended, Off
<1>9. ListsExact'
  BY <1>8, ListsStay DEF tasks
<1>10. SettledHaveNoList' /\ TakenWhileResuming'
  BY <1>3, <1>4, <1>5 DEF SettledHaveNoList, TakenWhileResuming, Pending, tasks
<1>11. PhasesFit'
  BY <1>4, <1>5 DEF PhasesFit, Serves, AtEnd, Instr, Within
<1>12. OwnTaskLast'
  BY <1>3, <1>4, <1>5 DEF OwnTaskLast, Pending, AtEnd, tasks, Activities, Off
<1> QED
  BY <1>3, <1>6, <1>7, <1>9, <1>10, <1>11, <1>12
LEMMA Throwing ==
  ASSUME AwaitInv, NEW a \in Activities, ~AtEnd(a), phase[a] \notin Off \cup {"resuming"},
         Throws(a), UNCHANGED <<script, stack, tasks, queue, timers>>
  PROVE  AwaitInv'
<1>1. CASE a = Main
  <2>1. at' = [at EXCEPT ![a] = @ + 1] /\ Becomes(a, "ready") /\ "ready" \in Phases \ Off
    BY <1>1 DEF Throws, Advances, Phases, Off
  <2> QED
    BY <2>1, Quiet
<1>2. CASE a # Main
  <2>1. UNCHANGED at /\ Becomes(a, "throwing") /\ "throwing" \in Phases \ Off /\ a # Main
        /\ Serves("throwing", Instr(a).op)
    BY <1>2 DEF Throws, Phases, Off, Serves
  <2> QED
    BY <2>1, Quiet
<1> QED
  BY <1>1, <1>2

LEMMA Answered ==
  ASSUME AwaitInv, NEW a \in Activities, ~AtEnd(a), phase[a] \notin Off \cup {"resuming"},
         NEW k, GetsResult(a, k), UNCHANGED <<script, stack, tasks, queue, timers>>
  PROVE  AwaitInv'
<1>1. CASE Throws(a)
  BY <1>1, Throwing
<1>2. CASE Advances(a)
  <2>1. at' = [at EXCEPT ![a] = @ + 1] /\ Becomes(a, "ready") /\ "ready" \in Phases \ Off
    BY <1>2 DEF Advances, Phases, Off
  <2> QED
    BY <2>1, Quiet
<1> QED
  BY <1>1, <1>2 DEF GetsResult

LEMMA Stays ==
  ASSUME AwaitInv, NEW a \in Activities, ~AtEnd(a), phase[a] \notin Off \cup {"resuming"},
         NEW p \in Phases \ (Off \cup {"throwing"}), Becomes(a, p), Serves(p, Instr(a).op),
         UNCHANGED <<script, at, stack, tasks, queue, timers>>
  PROVE  AwaitInv'
BY Quiet

(* Completing or faulting a source                                          *)
LEMMA CompletingSource ==
  ASSUME AwaitInv, NEW a \in Activities, ~AtEnd(a), phase[a] \notin Off \cup {"resuming"},
         NEW k \in Sources, Completes(a, k) \/ Faults(a, k), UNCHANGED <<script, stack, pool>>
  PROVE  AwaitInv'
<1>1. k \in Tasks /\ UNCHANGED <<queue, timers>>
  BY DEF Tasks, pool
<1>2. CASE Throws(a) /\ UNCHANGED tasks
  BY <1>1, <1>2, Throwing
<1>3. CASE Settles(a, k, "COMPLETED") /\ UNCHANGED at
  BY <1>1, <1>3, Settling
<1>4. CASE Settles(a, k, "FAULTED") /\ UNCHANGED at
  BY <1>1, <1>4, Settling
<1> QED
  BY <1>2, <1>3, <1>4 DEF Completes, Faults

LEMMA QuietSteps ==
  ASSUME AwaitInv, NEW t \in Threads, NEW a \in Activities,
         \/ Count(t, a) \/ BodyThrows(t, a) \/ TrySet(t, a) \/ Await(t, a)
         \/ Wait(t, a) \/ Settle(t, a) \/ Sample(t, a)
  PROVE  AwaitInv'
<1> USE DEF Off
<1>1. CASE Count(t, a)
  <2>1. /\ phase[a] = "ready" /\ ~AtEnd(a) /\ Instr(a).op \in {"run", "delay"}
        /\ Becomes(a, "submitting") /\ UNCHANGED <<script, at, stack, tasks, queue, timers>>
    BY <1>1 DEF Count, Executes, Runs
  <2> QED
    BY <2>1, Quiet DEF Phases, Serves
<1>2. CASE BodyThrows(t, a)
  <2>1. /\ phase[a] = "ready" /\ ~AtEnd(a) /\ Throws(a)
        /\ UNCHANGED <<script, stack, tasks, queue, timers>>
    BY <1>2 DEF BodyThrows, Executes, Runs, pool
  <2> QED
    BY <2>1, Throwing
<1>3. CASE TrySet(t, a)
  <2>1. /\ phase[a] = "ready" /\ ~AtEnd(a) /\ Instr(a).op \in {"tryset", "tryfail"}
        /\ UNCHANGED <<script, stack, tasks, queue, timers>>
    BY <1>3 DEF TrySet, Executes, Runs, pool
  <2>2. CASE Becomes(a, "trying") /\ UNCHANGED at
    BY <2>1, <2>2, Stays DEF Phases, Serves
  <2>3. CASE Advances(a)
    BY <2>1, <2>3, Quiet DEF Advances, Phases, Serves
  <2> QED
    BY <1>3, <2>2, <2>3 DEF TrySet
<1>4. CASE Await(t, a)
  <2>1. /\ phase[a] = "ready" /\ ~AtEnd(a) /\ Instr(a).op = "await"
        /\ UNCHANGED <<script, stack, tasks, queue, timers>>
    BY <1>4 DEF Await, Executes, Runs, pool
  <2>2. CASE Becomes(a, "registering") /\ UNCHANGED at
    BY <2>1, <2>2, Quiet DEF Phases, Serves
  <2>3. CASE GetsResult(a, Instr(a).on)
    BY <2>1, <2>3, Answered
  <2> QED
    BY <1>4, <2>2, <2>3 DEF Await
<1>5. CASE Wait(t, a)
  <2>1. /\ phase[a] = "ready" /\ ~AtEnd(a) /\ Becomes(a, "settling") /\ Instr(a).op = "wait"
        /\ UNCHANGED <<script, at, stack, tasks, queue, timers>>
    BY <1>5 DEF Wait, Executes, Runs, pool
  <2> QED
    BY <2>1, Stays DEF Phases, Serves
<1>6. CASE Settle(t, a)
  <2>1. /\ phase[a] = "settling" /\ ~AtEnd(a) /\ Instr(a).op = "wait"
        /\ UNCHANGED <<script, stack, tasks, queue, timers>>
    BY <1>6 DEF Settle, Runs, pool, AwaitInv, PhasesFit, Serves, Within
  <2>2. CASE Becomes(a, "helping") /\ UNCHANGED at
    BY <2>1, <2>2, Stays DEF Phases, Serves
  <2>3. CASE GetsResult(a, Instr(a).on)
    BY <2>1, <2>3, Answered
  <2> QED
    BY <1>6, <2>2, <2>3 DEF Settle
<1>7. CASE Sample(t, a)
  <2>1. /\ phase[a] = "sampling" /\ ~AtEnd(a) /\ Instr(a).op = "wait"
        /\ UNCHANGED <<script, stack, tasks, queue, timers>>
    BY <1>7 DEF Sample, Runs, pool, AwaitInv, PhasesFit, Serves, Within
  <2>2. CASE Becomes(a, "settling") /\ UNCHANGED at
    BY <2>1, <2>2, Stays DEF Phases, Serves
  <2>3. CASE Throws(a)
    BY <2>1, <2>3, Throwing
  <2> QED
    BY <1>7, <2>2, <2>3 DEF Sample
<1> QED
  BY <1>1, <1>2, <1>3, <1>4, <1>5, <1>6, <1>7

LEMMA SettlingSteps ==
  ASSUME AwaitInv, NEW t \in Threads, NEW a \in Activities,
         Complete(t, a) \/ Fault(t, a) \/ Set(t, a) \/ TryGoesOn(t, a)
  PROVE  AwaitInv'
<1> USE DEF Off
<1>1. CASE Complete(t, a)
  <2>1. /\ phase[a] = "ready" /\ AtEnd(a) /\ a \in Jobs \cup Asyncs /\ Completes(a, a)
        /\ UNCHANGED <<script, stack, queue, timers>>
    BY <1>1 DEF Complete, Runs, pool, Activities
  <2>2. Pending(a) /\ a \in Tasks
    BY <2>1 DEF AwaitInv, OwnTaskLast, Tasks
  <2>3. Settles(a, a, "COMPLETED") /\ UNCHANGED at
    BY <2>1, <2>2 DEF Completes, MayComplete
  <2>4. AtEnd(a)'
    BY <2>1, <2>3 DEF AtEnd
  <2> QED
    BY <2>1, <2>2, <2>3, <2>4, Settling
<1>2. CASE Fault(t, a)
  <2>1. /\ phase[a] = "throwing" /\ ~AtEnd(a) /\ a \in Tasks /\ Settles(a, a, "FAULTED")
        /\ at' = [at EXCEPT ![a] = Len(script[a]) + 1]
        /\ UNCHANGED <<script, stack, queue, timers>>
    BY <1>2 DEF Fault, Runs, pool, AwaitInv, PhasesFit, Serves, Within, Activities, Tasks
  <2>2. AtEnd(a)'
    <3>1. script[a] \in Seq(Ops) /\ at \in [Activities -> Nat \ {0}]
      BY ScriptsAssumption DEF AwaitInv, Shapes
    <3>2. Len(script[a]) \in Nat
      BY <3>1, LenProperties
    <3> QED
      BY <2>1, <3>1, <3>2 DEF AtEnd
  <2> QED
    BY <2>1, <2>2, Settling
<1>3. CASE Set(t, a)
  <2>1. /\ phase[a] = "ready" /\ ~AtEnd(a) /\ Instr(a).op \in {"set", "fail"}
        /\ Completes(a, Instr(a).on) \/ Faults(a, Instr(a).on)
        /\ UNCHANGED <<script, stack, pool>>
    BY <1>3 DEF Set, Executes, Runs
  <2>2. Instr(a).on \in Sources
    BY <2>1, Operands DEF AwaitInv
  <2> QED
    BY <2>1, <2>2, CompletingSource
<1>4. CASE TryGoesOn(t, a)
  <2>1. /\ phase[a] = "trying" /\ ~AtEnd(a) /\ Instr(a).op \in {"tryset", "tryfail"}
        /\ Completes(a, Instr(a).on) \/ Faults(a, Instr(a).on)
        /\ UNCHANGED <<script, stack, pool>>
    BY <1>4 DEF TryGoesOn, Runs, AwaitInv, PhasesFit, Serves, Within
  <2>2. Instr(a).on \in Sources
    BY <2>1, Operands DEF AwaitInv
  <2> QED
    BY <2>1, <2>2, CompletingSource
<1> QED
  BY <1>1, <1>2, <1>3, <1>4
LEMMA PoolSteps ==
  ASSUME AwaitInv, NEW t \in Threads, NEW a \in Activities,
         Submit(t, a) \/ WorkerTakes(t) \/ Help(t, a)
  PROVE  AwaitInv'
<1> USE DEF Off
<1>1. CASE Submit(t, a)
  <2> DEFINE j == Instr(a).on
  <2>1. /\ phase[a] = "submitting" /\ ~AtEnd(a) /\ Instr(a).op \in {"run", "delay"}
        /\ UNCHANGED <<script, stack, tasks>>
        /\ at' = [at EXCEPT ![a] = @ + 1] /\ Becomes(a, "ready")
        /\ \/ queue' = Append(queue, j) /\ UNCHANGED timers
           \/ timers' = timers \cup {j} /\ UNCHANGED queue
    BY <1>1 DEF Submit, Runs, AwaitInv, PhasesFit, Serves, Within, Advances
  <2>2. /\ phase[j] = "unstarted" /\ j \notin timers /\ j \in Jobs
        /\ \A n \in DOMAIN queue : queue[n] # j
        /\ \A b \in Activities : \A i \in DOMAIN script[b] :
              script[b][i].op \in Begins /\ script[b][i].on = j => b = a /\ i = at[a]
    BY <2>1, AboutToBegin, Operands DEF AwaitInv, Begins
  <2> HIDE DEF j
  <2>3. /\ at \in [Activities -> Nat \ {0}] /\ phase \in [Activities -> Phases]
        /\ phase' = [phase EXCEPT ![a] = "ready"]
    BY <2>1 DEF AwaitInv, Shapes, Becomes
  <2>4. /\ at'[a] = at[a] + 1 /\ at[a] \in Nat /\ at' \in [Activities -> Nat \ {0}]
        /\ phase'[a] = "ready" /\ phase' \in [Activities -> Phases]
        /\ \A b \in Activities \ {a} : at'[b] = at[b] /\ phase'[b] = phase[b]
    BY <2>1, <2>3 DEF Phases
  <2>5. \A b \in Activities : \A i \in DOMAIN script[b] :
           i >= at'[b] /\ script[b][i].op \in Begins => i >= at[b] /\ script[b][i].on # j
    <3> SUFFICES ASSUME NEW b \in Activities, NEW i \in DOMAIN script[b],
                        i >= at'[b], script[b][i].op \in Begins
                 PROVE  i >= at[b] /\ script[b][i].on # j
      OBVIOUS
    <3>1. i \in Nat
      BY Indices DEF AwaitInv
    <3> QED
      BY <2>2, <2>4, <3>1
  <2>6. /\ \/ queue' = Append(queue, j) /\ timers' = timers \ {j}
           \/ queue' = queue /\ timers' = timers \cup {j}
        /\ \A b \in Activities : phase[b] = "unstarted" => phase'[b] = "unstarted"
    BY <2>1, <2>2, <2>4
  <2>7. NotYetBegun' /\ queue' \in Seq(Jobs) /\ timers' \subseteq Jobs
    BY <2>1, <2>2, <2>5, <2>6, BegunHandedOver DEF AwaitInv
  <2>8. Shapes'
    BY <2>1, <2>4, <2>7 DEF AwaitInv, Shapes, tasks
  <2>9. StacksExact'
    BY <2>1, <2>4, StacksStay DEF AwaitInv, SameOff
  <2>10. ListsExact'
    <3>1. SameSuspended(Activities)
      BY <2>1, <2>4 DEF SameSuspended
    <3> QED
      BY <2>1, <3>1, ListsStay DEF AwaitInv, tasks
  <2>11. SettledHaveNoList' /\ TakenWhileResuming'
    BY <2>1, <2>4 DEF AwaitInv, SettledHaveNoList, TakenWhileResuming, Pending, tasks
  <2>12. PhasesFit'
    BY <2>1, <2>4 DEF AwaitInv, PhasesFit, Serves, AtEnd, Instr, Within
  <2>13. OwnTaskLast'
    BY <2>1, <2>4 DEF AwaitInv, OwnTaskLast, AtEnd, Pending, tasks, Activities
  <2> QED
    BY <2>7, <2>8, <2>9, <2>10, <2>11, <2>12, <2>13 DEF AwaitInv
<1>2. CASE WorkerTakes(t)
  <2>1. /\ RunOne(t) /\ UNCHANGED <<script, at, tasks>>
        /\ phase' = [phase EXCEPT ![Head(queue)] = "ready"] /\ phase \in [Activities -> Phases]
    BY <1>2 DEF WorkerTakes, Becomes, AwaitInv, Shapes
  <2>2. phase' = [b \in Activities |-> IF b = Head(queue) THEN "ready"
                                       ELSE IF b \in {} THEN "ready" ELSE phase[b]]
    BY <2>1
  <2>3. /\ {} \in SUBSET Activities /\ "ready" \in {"settling", "ready"}
        /\ \A b \in {} : phase[b] \notin Off \cup {"resuming"} /\ ~AtEnd(b) /\ Instr(b).op = "wait"
    OBVIOUS
  <2> QED
    BY <2>1, <2>2, <2>3, JobRuns
<1>3. CASE Help(t, a)
  <2>1. /\ phase[a] = "helping" /\ ~AtEnd(a) /\ Instr(a).op = "wait" /\ UNCHANGED <<script, at, tasks>>
        /\ phase \in [Activities -> Phases]
    BY <1>3 DEF Help, Runs, AwaitInv, PhasesFit, Serves, Within, Shapes
  <2>2. CASE HelpsHere
    <3>1. /\ RunOne(t)
          /\ phase' = [phase EXCEPT ![a] = "settling", ![Head(queue)] = "ready"]
      BY <1>3, <2>2 DEF Help
    <3>2. phase' = [b \in Activities |-> IF b = Head(queue) THEN "ready"
                                         ELSE IF b \in {a} THEN "settling" ELSE phase[b]]
      BY <2>1, <3>1
    <3>3. /\ {a} \in SUBSET Activities /\ "settling" \in {"settling", "ready"}
          /\ \A b \in {a} : phase[b] \notin Off \cup {"resuming"} /\ ~AtEnd(b) /\ Instr(b).op = "wait"
      BY <2>1
    <3> QED
      BY <2>1, <3>1, <3>2, <3>3, JobRuns
  <2>3. CASE ~HelpsHere
    <3>1. Becomes(a, "sampling") /\ UNCHANGED <<stack, queue, timers>>
      BY <1>3, <2>3 DEF Help, pool
    <3> QED
      BY <2>1, <3>1, Stays DEF Phases, Serves
  <2> QED
    BY <2>2, <2>3
<1> QED
  BY <1>1, <1>2, <1>3

LEMMA TimerStep ==
  ASSUME AwaitInv, NEW j \in Jobs, TimerFires(j)
  PROVE  AwaitInv'
<1>1. /\ j \in timers /\ timers' = timers \ {j} /\ queue' = Append(queue, j)
      /\ UNCHANGED <<script, at, phase, stack, tasks>>
  BY DEF TimerFires
<1>2. /\ phase[j] = "unstarted" /\ \A n \in DOMAIN queue : queue[n] # j
      /\ \A b \in Activities : \A i \in DOMAIN script[b] :
           i >= at[b] /\ script[b][i].op \in Begins => script[b][i].on # j
  BY <1>1 DEF AwaitInv, NotYetBegun
<1>3. NotYetBegun' /\ queue' \in Seq(Jobs) /\ timers' \subseteq Jobs
  BY <1>1, <1>2, BegunHandedOver DEF AwaitInv
<1>4. Shapes'
  BY <1>1, <1>3 DEF AwaitInv, Shapes, tasks
<1>5. StacksExact'
  BY <1>1, StacksStay DEF AwaitInv, SameOff
<1>6. ListsExact'
  <2>1. SameSuspended(Activities)
    BY <1>1 DEF SameSuspended
  <2> QED
    BY <1>1, <2>1, ListsStay DEF AwaitInv, tasks
<1>7. SettledHaveNoList' /\ TakenWhileResuming' /\ PhasesFit' /\ OwnTaskLast'
  BY <1>1 DEF AwaitInv, SettledHaveNoList, TakenWhileResuming, PhasesFit, Serves, OwnTaskLast, Pending, tasks, AtEnd, Instr
<1> QED
  BY <1>3, <1>4, <1>5, <1>6, <1>7 DEF AwaitInv
LEMMA StartStep ==
  ASSUME AwaitInv, NEW t \in Threads, NEW a \in Activities, Start(t, a)
  PROVE  AwaitInv'
<1> DEFINE m == Instr(a).on
<1>1. /\ phase[a] = "ready" /\ ~AtEnd(a) /\ Instr(a).op = "call"
      /\ Nests(t, m) /\ at' = [at EXCEPT ![a] = @ + 1] /\ phase' = [phase EXCEPT ![m] = "ready"]
      /\ UNCHANGED <<script, tasks, queue, timers>>
  BY DEF Start, Executes, Runs, Becomes, pool
<1>2. m \in Asyncs /\ m \in Activities /\ phase[m] = "unstarted"
  BY <1>1, Operands, AboutToBegin DEF AwaitInv, Begins, Activities
<1>3. /\ phase' \in [Activities -> Phases] /\ phase'[m] = "ready"
      /\ \A b \in Activities \ {m} : phase'[b] = phase[b]
      /\ at' \in [Activities -> Nat \ {0}] /\ \A b \in Activities \ {a} : at'[b] = at[b]
  BY <1>1, <1>2 DEF AwaitInv, Shapes, Phases
<1>4. NotYetBegun'
  <2>1. Instr(a).op \in Begins /\ UNCHANGED <<script, queue, timers>>
    BY <1>1 DEF Begins
  <2>2. \A b \in Activities \ {Instr(a).on} : phase[b] = "unstarted" => phase'[b] = "unstarted"
    BY <1>3
  <2> QED
    BY <1>1, <2>1, <2>2, BegunByCall DEF AwaitInv
<1> HIDE DEF m
<1>5. StacksExact' /\ stack' \in [Threads -> Seq(Activities)]
  <2>1. SameOff(Activities \ {m}) /\ phase[m] \in Off /\ phase'[m] \notin Off
    BY <1>2, <1>3 DEF SameOff, Off
  <2> QED
    BY <1>1, <1>2, <2>1, StacksPushed DEF AwaitInv
<1>6. ListsExact'
  <2>1. SameSuspended(Activities)
    BY <1>2, <1>3 DEF SameSuspended
  <2> QED
    BY <1>1, <2>1, ListsStay DEF AwaitInv, tasks
<1>7. Shapes'
  BY <1>1, <1>3, <1>5 DEF AwaitInv, Shapes, tasks
<1>8. SettledHaveNoList' /\ TakenWhileResuming'
  BY <1>1, <1>2, <1>3 DEF AwaitInv, SettledHaveNoList, TakenWhileResuming, Pending, tasks
<1>9. PhasesFit'
  <2>1. phase'[a] = "ready"
    BY <1>1, <1>2, <1>3
  <2> QED
    BY <1>1, <1>2, <1>3, <2>1 DEF AwaitInv, PhasesFit, Serves, AtEnd, Instr, Within
<1>10. OwnTaskLast'
  <2>1. \A b \in {a, m} \cap (Jobs \cup Asyncs) : Pending(b)
    BY <1>1, <1>2 DEF AwaitInv, OwnTaskLast
  <2> QED
    BY <1>1, <1>2, <1>3, <2>1 DEF AwaitInv, OwnTaskLast, Pending, AtEnd, tasks, Activities
<1> QED
  BY <1>4, <1>5, <1>6, <1>7, <1>8, <1>9, <1>10 DEF AwaitInv

LEMMA AwaitOnCompletedStep ==
  ASSUME AwaitInv, NEW t \in Threads, NEW a \in Activities, AwaitOnCompleted(t, a)
  PROVE  AwaitInv'
<1> DEFINE k == Instr(a).on
<1>1. /\ Busy(t) /\ Running(t) = a /\ phase[a] = "registering" /\ ~AtEnd(a)
      /\ UNCHANGED <<script, progress, taken, queue, timers>>
  BY DEF AwaitOnCompleted, Runs, AwaitInv, PhasesFit, Serves, Within, pool
<1>2. k \in Tasks
  BY <1>1, Operands DEF AwaitInv, PhasesFit, Serves
<1>3. CASE GetsResult(a, k) /\ UNCHANGED <<waiting, stack>>
  <2>1. UNCHANGED <<script, stack, tasks, queue, timers>>
    BY <1>1, <1>3 DEF tasks
  <2> QED
    BY <1>1, <1>3, <2>1, Answered DEF Off
<1>4. CASE /\ Pending(k) /\ k \in Tasks
           /\ waiting' = [waiting EXCEPT ![k] = Append(@, a)]
           /\ Becomes(a, "suspended") /\ Departs(t) /\ UNCHANGED at
  <2> HIDE DEF k
  <2>1. /\ phase' \in [Activities -> Phases] /\ phase'[a] = "suspended"
        /\ \A b \in Activities \ {a} : phase'[b] = phase[b]
    BY <1>4 DEF AwaitInv, Shapes, Phases, Becomes
  <2>2. StacksExact' /\ stack' \in [Threads -> Seq(Activities)]
    <3>1. SameOff(Activities \ {a}) /\ phase'[a] \in Off
      BY <2>1 DEF SameOff, Off
    <3> QED
      BY <1>1, <1>4, <3>1, StacksPopped DEF AwaitInv
  <2>3. ListsExact' /\ waiting' \in [Tasks -> Seq(Activities)]
    <3>1. SameSuspended(Activities \ {a}) /\ phase[a] # "suspended"
      BY <1>1, <2>1 DEF SameSuspended
    <3> QED
      BY <1>1, <1>4, <2>1, <3>1, ListsGrow DEF AwaitInv
  <2>4. Shapes'
    BY <1>1, <1>4, <2>1, <2>2, <2>3 DEF AwaitInv, Shapes
  <2>5. SettledHaveNoList'
    BY <1>1, <1>4 DEF AwaitInv, SettledHaveNoList, Pending, Shapes
  <2>6. TakenWhileResuming'
    BY <1>1, <2>1 DEF AwaitInv, TakenWhileResuming
  <2>7. NotYetBegun'
    <3>1. /\ UNCHANGED <<script, queue, timers>>
          /\ \A b \in Activities : phase[b] = "unstarted" => phase'[b] = "unstarted"
          /\ \A b \in Activities : at'[b] \in Nat /\ at'[b] >= at[b]
      BY <1>1, <1>4, <2>1 DEF AwaitInv, Shapes
    <3> QED
      BY <3>1, BegunStays DEF AwaitInv
  <2>8. PhasesFit'
    BY <1>1, <1>4, <2>1 DEF AwaitInv, PhasesFit, Serves, AtEnd, Instr, Within
  <2>9. OwnTaskLast'
    BY <1>1, <1>4, <2>1 DEF AwaitInv, OwnTaskLast, Pending, AtEnd, Activities
  <2> QED
    BY <2>2, <2>3, <2>4, <2>5, <2>6, <2>7, <2>8, <2>9 DEF AwaitInv
<1> QED
  <2>1. CASE StillPending(k)
    BY <1>4, <1>2, <2>1 DEF AwaitOnCompleted, StillPending
  <2>2. CASE ~StillPending(k)
    BY <1>3, <2>2 DEF AwaitOnCompleted
  <2> QED
    BY <2>1, <2>2

LEMMA ResumeStep ==
  ASSUME AwaitInv, NEW t \in Threads, NEW a \in Activities, Resume(t, a)
  PROVE  AwaitInv'
<1> DEFINE h == Head(taken[a])
<1>1. /\ phase[a] = "resuming" /\ taken[a] # <<>> /\ Nests(t, h) /\ phase' = [phase EXCEPT ![h] = "ready"]
      /\ taken' = [taken EXCEPT ![a] = Tail(@)]
      /\ UNCHANGED <<script, at, progress, waiting, queue, timers>>
  BY DEF Resume, Runs, Becomes, pool
<1>2. phase \in [Activities -> Phases] /\ h \in Activities
  <2>1. taken[a] \in Seq(Activities)
    BY DEF AwaitInv, Shapes
  <2> QED
    BY <1>1, <2>1, Beheaded DEF AwaitInv, Shapes
<1>3. phase'[h] # "suspended" /\ SameSuspended(Activities \ {h})
  BY <1>1, <1>2 DEF SameSuspended
<1>4. ListsExact' /\ taken' \in [Activities -> Seq(Activities)] /\ h \in Activities /\ phase[h] = "suspended"
  BY <1>1, <1>3, ListsResumed DEF AwaitInv
<1> HIDE DEF h
<1>5. /\ phase' \in [Activities -> Phases] /\ phase'[h] = "ready" /\ h # a
      /\ \A b \in Activities \ {h} : phase'[b] = phase[b]
  BY <1>1, <1>2, <1>4 DEF Phases
<1>6. StacksExact' /\ stack' \in [Threads -> Seq(Activities)]
  <2>1. SameOff(Activities \ {h}) /\ phase[h] \in Off /\ phase'[h] \notin Off
    BY <1>4, <1>5 DEF SameOff, Off
  <2> QED
    BY <1>1, <1>4, <2>1, StacksPushed DEF AwaitInv
<1>7. Shapes'
  BY <1>1, <1>4, <1>5, <1>6 DEF AwaitInv, Shapes
<1>8. SettledHaveNoList'
  BY <1>1 DEF AwaitInv, SettledHaveNoList, Pending
<1>9. TakenWhileResuming'
  <2>1. \A b \in Activities \ {a} : taken'[b] = taken[b]
    BY <1>1 DEF AwaitInv, Shapes
  <2> QED
    BY <1>1, <1>4, <1>5, <2>1 DEF AwaitInv, TakenWhileResuming
<1>10. NotYetBegun'
  <2>1. /\ UNCHANGED <<script, queue, timers>>
        /\ \A b \in Activities : phase[b] = "unstarted" => phase'[b] = "unstarted"
        /\ \A b \in Activities : at'[b] \in Nat /\ at'[b] >= at[b]
    BY <1>1, <1>4, <1>5 DEF AwaitInv, Shapes
  <2> QED
    BY <2>1, BegunStays DEF AwaitInv
<1>11. PhasesFit'
  BY <1>1, <1>5 DEF AwaitInv, PhasesFit, Serves, AtEnd, Instr, Within
<1>12. OwnTaskLast'
  BY <1>1, <1>4, <1>5 DEF AwaitInv, OwnTaskLast, Pending, AtEnd, Activities
<1> QED
  BY <1>4, <1>6, <1>7, <1>8, <1>9, <1>10, <1>11, <1>12 DEF AwaitInv

LEMMA ReturnSteps ==
  ASSUME AwaitInv, NEW t \in Threads, NEW a \in Activities,
         Return(t, a) \/ (a = Main /\ MainReturn(t))
  PROVE  AwaitInv'
<1>1. CASE Return(t, a) /\ ~AtEnd(a)
  <2>1. /\ phase[a] = "resuming" /\ taken[a] = <<>> /\ at' = [at EXCEPT ![a] = @ + 1] /\ Becomes(a, "ready")
        /\ UNCHANGED <<script, stack, tasks, queue, timers>>
    BY <1>1 DEF Return, Runs, Advances
  <2> QED
    BY <1>1, <2>1, Quiet DEF Phases, Off, Serves
<1>2. CASE (Return(t, a) /\ AtEnd(a)) \/ (a = Main /\ MainReturn(t))
  <2>1. /\ Busy(t) /\ Running(t) = a /\ phase[a] \in {"resuming", "ready"} /\ AtEnd(a) /\ taken[a] = <<>>
        /\ a \in Jobs \cup Asyncs => phase[a] = "resuming"
        /\ Departs(t) /\ Becomes(a, "over")
        /\ UNCHANGED <<script, at, tasks, queue, timers>>
    BY <1>2, ActivitiesAssumption DEF Return, MainReturn, Runs, pool, AwaitInv, TakenWhileResuming
  <2>2. /\ phase' \in [Activities -> Phases] /\ phase'[a] = "over"
        /\ \A b \in Activities \ {a} : phase'[b] = phase[b]
    BY <2>1 DEF AwaitInv, Shapes, Phases, Becomes
  <2>3. StacksExact' /\ stack' \in [Threads -> Seq(Activities)]
    <3>1. SameOff(Activities \ {a}) /\ phase'[a] \in Off
      BY <2>2 DEF SameOff, Off
    <3> QED
      BY <2>1, <3>1, StacksPopped DEF AwaitInv
  <2>4. ListsExact'
    <3>1. SameSuspended(Activities)
      BY <2>1, <2>2 DEF SameSuspended
    <3> QED
      BY <2>1, <3>1, ListsStay DEF AwaitInv, tasks
  <2>5. Shapes'
    BY <2>1, <2>2, <2>3 DEF AwaitInv, Shapes, tasks
  <2>6. SettledHaveNoList' /\ TakenWhileResuming'
    BY <2>1, <2>2 DEF AwaitInv, SettledHaveNoList, TakenWhileResuming, Pending, tasks
  <2>7. NotYetBegun'
    <3>1. /\ UNCHANGED <<script, queue, timers>>
          /\ \A b \in Activities : phase[b] = "unstarted" => phase'[b] = "unstarted"
          /\ \A b \in Activities : at'[b] \in Nat /\ at'[b] >= at[b]
      BY <2>1, <2>2 DEF AwaitInv, Shapes
    <3> QED
      BY <3>1, BegunStays DEF AwaitInv
  <2>8. PhasesFit'
    BY <2>1, <2>2 DEF AwaitInv, PhasesFit, Serves, AtEnd, Instr, Within
  <2>9. OwnTaskLast'
    BY <2>1, <2>2 DEF AwaitInv, OwnTaskLast, Pending, AtEnd, tasks, Activities
  <2> QED
    BY <2>3, <2>4, <2>5, <2>6, <2>7, <2>8, <2>9 DEF AwaitInv
<1> QED
  BY <1>1, <1>2
-----------------------------------------------------------------------------
LEMMA AwaitInvInit == Init => AwaitInv
<1> SUFFICES ASSUME Init PROVE AwaitInv
  OBVIOUS
<1>1. Shapes
  <2>1. Main \in Activities /\ <<Main>> \in Seq(Activities) /\ <<>> \in Seq(Activities) /\ <<>> \in Seq(Jobs)
    BY DEF Activities
  <2>2. /\ script \in Scripts /\ at \in [Activities -> Nat \ {0}] /\ phase \in [Activities -> Phases]
        /\ progress \in [Tasks -> {"PENDING", "COMPLETED", "FAULTED"}] /\ timers \subseteq Jobs
    BY DEF Init, Phases
  <2>3. /\ stack \in [Threads -> Seq(Activities)] /\ queue \in Seq(Jobs)
        /\ waiting \in [Tasks -> Seq(Activities)] /\ taken \in [Activities -> Seq(Activities)]
    BY <2>1 DEF Init
  <2> QED
    BY <2>2, <2>3 DEF Shapes
<1>2. StacksExact
  <2>1. /\ MainThread \in Threads /\ stack[MainThread] = <<Main>> /\ MainThread \notin Workers
        /\ \A t \in Threads \ {MainThread} : stack[t] = <<>>
    BY ActivitiesAssumption DEF Init, Threads
  <2>2. /\ DOMAIN stack[MainThread] = {1} /\ stack[MainThread][1] = Main
        /\ \A t \in Threads \ {MainThread} : DOMAIN stack[t] = {}
    BY <2>1
  <2>3. \A a \in Activities : phase[a] \notin Off <=> a = Main
    BY DEF Init, Off
  <2>4. Main \in Activities
    BY DEF Activities
  <2> HIDE DEF Off
  <2> QED
    BY <2>1, <2>2, <2>3, <2>4 DEF StacksExact
<1>3. ListsExact
  BY DEF Init, ListsExact
<1>4. SettledHaveNoList /\ TakenWhileResuming
  BY DEF Init, SettledHaveNoList, TakenWhileResuming
<1>5. NotYetBegun
  <2>1. \A b \in Activities : \A i \in DOMAIN script[b] :
         script[b][i].op \in Begins => script[b][i].on \in Jobs \cup Asyncs
    <3>1. \A b \in Activities : \A i \in DOMAIN script[b] : script[b][i] \in Ops
      BY ScriptsAssumption DEF Init
    <3>2. \A o \in Ops : o.op \in Begins => o.on \in Jobs \cup Asyncs
      BY DEF Ops, Begins
    <3> QED
      BY <3>1, <3>2
  <2>2. \A b \in Jobs \cup Asyncs : phase[b] = "unstarted"
    BY ActivitiesAssumption DEF Init, Activities
  <2>3. DOMAIN queue = {} /\ timers = {}
    BY DEF Init
  <2> QED
    BY <2>1, <2>2, <2>3 DEF NotYetBegun
<1>6. PhasesFit
  BY DEF Init, PhasesFit, Serves, Within
<1>7. OwnTaskLast
  BY DEF Init, OwnTaskLast, Pending, Tasks
<1> QED
  BY <1>1, <1>2, <1>3, <1>4, <1>5, <1>6, <1>7 DEF AwaitInv

LEMMA AwaitInvNext == AwaitInv /\ [Next]_vars => AwaitInv'
<1> SUFFICES ASSUME AwaitInv, [Next]_vars PROVE AwaitInv'
  OBVIOUS
<1>1. CASE UNCHANGED vars
  <2>1. UNCHANGED <<script, at, phase, stack, progress, waiting, taken, queue, timers>>
    BY <1>1 DEF vars, tasks, pool
  <2>2. Shapes' /\ StacksExact' /\ SettledHaveNoList' /\ TakenWhileResuming'
    BY <2>1 DEF AwaitInv, Shapes, StacksExact, SettledHaveNoList, TakenWhileResuming, Pending
  <2>3. ListsExact'
    BY <2>1 DEF AwaitInv, ListsExact
  <2>4. NotYetBegun' /\ PhasesFit' /\ OwnTaskLast'
    BY <2>1 DEF AwaitInv, NotYetBegun, PhasesFit, Serves, OwnTaskLast, Pending, AtEnd, Instr
  <2> QED
    BY <2>2, <2>3, <2>4 DEF AwaitInv
<1>2. CASE \E j \in Jobs : TimerFires(j)
  BY <1>2, TimerStep
<1>3. ASSUME NEW t \in Threads, Step(t) PROVE AwaitInv'
  <2>1. Main \in Activities
    BY DEF Activities
  <2>2. CASE WorkerTakes(t)
    BY <2>1, <2>2, PoolSteps
  <2>3. CASE MainReturn(t)
    BY <2>1, <2>3, ReturnSteps
  <2>4. ASSUME NEW a \in Activities,
               \/ Count(t, a) \/ BodyThrows(t, a) \/ TrySet(t, a) \/ Await(t, a)
               \/ Wait(t, a) \/ Settle(t, a) \/ Sample(t, a)
        PROVE  AwaitInv'
    BY <2>4, QuietSteps
  <2>5. ASSUME NEW a \in Activities, Complete(t, a) \/ Fault(t, a) \/ Set(t, a) \/ TryGoesOn(t, a)
        PROVE  AwaitInv'
    BY <2>5, SettlingSteps
  <2>6. ASSUME NEW a \in Activities, Submit(t, a) \/ Help(t, a)
        PROVE  AwaitInv'
    <3>1. Submit(t, a) \/ WorkerTakes(t) \/ Help(t, a)
      BY <2>6
    <3> QED
      BY <3>1, PoolSteps
  <2>7. ASSUME NEW a \in Activities, Start(t, a) PROVE AwaitInv'
    BY <2>7, StartStep
  <2>8. ASSUME NEW a \in Activities, AwaitOnCompleted(t, a) PROVE AwaitInv'
    BY <2>8, AwaitOnCompletedStep
  <2>9. ASSUME NEW a \in Activities, Resume(t, a) PROVE AwaitInv'
    BY <2>9, ResumeStep
  <2>10. ASSUME NEW a \in Activities, Return(t, a) PROVE AwaitInv'
    <3>1. Return(t, a) \/ (a = Main /\ MainReturn(t))
      BY <2>10
    <3> QED
      BY <3>1, ReturnSteps
  <2> QED
    BY <1>3, <2>2, <2>3, <2>4, <2>5, <2>6, <2>7, <2>8, <2>9, <2>10 DEF Step
<1> QED
  BY <1>1, <1>2, <1>3 DEF Next

LEMMA AwaitInvHolds == Spec => []AwaitInv
BY AwaitInvInit, AwaitInvNext, PTL DEF Spec

-----------------------------------------------------------------------------
(* Where an activity is, counted.                                           *)
Places(a) == UNION {{<<t, i>> : i \in {i \in DOMAIN stack[t] : stack[t][i] = a}} : t \in Threads}
Waits(a) == UNION {{<<k, i>> : i \in {i \in DOMAIN waiting[k] : waiting[k][i] = a}} : k \in Tasks}
Takes(a) == UNION {{<<k, i>> : i \in {i \in DOMAIN taken[k] : taken[k][i] = a}} : k \in Activities}

LEMMA OnOneStack ==
  ASSUME AwaitInv, NEW a \in Activities
  PROVE  Occurs(a) = (IF phase[a] \in Off THEN 0 ELSE 1)
<1>1. Occurs(a) = Cardinality(Places(a))
  BY DEF Occurs, Places
<1>2. CASE phase[a] \in Off
  <2>1. Places(a) = {}
    BY <1>2 DEF Places, AwaitInv, StacksExact
  <2> QED
    BY <1>1, <1>2, <2>1, FS_EmptySet
<1>3. CASE phase[a] \notin Off
  <2>1. PICK t \in Threads : \E i \in DOMAIN stack[t] : stack[t][i] = a
    BY <1>3 DEF AwaitInv, StacksExact
  <2>2. PICK i \in DOMAIN stack[t] : stack[t][i] = a
    BY <2>1
  <2>3. \A u \in Threads : \A k \in DOMAIN stack[u] : stack[u][k] = a => u = t /\ k = i
    BY <2>2 DEF AwaitInv, StacksExact
  <2>4. Places(a) = {<<t, i>>}
    BY <2>2, <2>3 DEF Places
  <2> QED
    BY <1>1, <1>3, <2>4, FS_Singleton
<1> QED
  BY <1>2, <1>3

LEMMA OnOneList ==
  ASSUME AwaitInv, NEW a \in Activities
  PROVE  Listed(a) = (IF phase[a] = "suspended" THEN 1 ELSE 0)
<1>1. Listed(a) = Cardinality(Waits(a)) + Cardinality(Takes(a))
  BY DEF Listed, Waits, Takes
<1>2. CASE phase[a] # "suspended"
  <2>1. Waits(a) = {}
    BY <1>2 DEF Waits, AwaitInv, ListsExact
  <2>2. Takes(a) = {}
    BY <1>2 DEF Takes, AwaitInv, ListsExact
  <2> QED
    BY <1>1, <1>2, <2>1, <2>2, FS_EmptySet
<1>3. ASSUME NEW k \in Tasks, NEW i \in DOMAIN waiting[k], waiting[k][i] = a, phase[a] = "suspended"
      PROVE  Listed(a) = 1
  <2>1. /\ \A l \in Tasks : \A j \in DOMAIN waiting[l] : waiting[l][j] = a => l = k /\ j = i
        /\ \A b \in Activities : \A j \in DOMAIN taken[b] : taken[b][j] # a
    BY <1>3 DEF AwaitInv, ListsExact
  <2>2. Waits(a) = {<<k, i>>}
    BY <1>3, <2>1 DEF Waits
  <2>3. Takes(a) = {}
    BY <2>1 DEF Takes
  <2>4. Cardinality(Waits(a)) = 1
    BY <2>2, FS_Singleton
  <2>5. Cardinality(Takes(a)) = 0
    BY <2>3, FS_EmptySet
  <2> QED
    BY <1>1, <2>4, <2>5
<1>4. ASSUME NEW k \in Activities, NEW i \in DOMAIN taken[k], taken[k][i] = a, phase[a] = "suspended"
      PROVE  Listed(a) = 1
  <2>1. /\ \A l \in Activities : \A j \in DOMAIN taken[l] : taken[l][j] = a => l = k /\ j = i
        /\ \A b \in Tasks : \A j \in DOMAIN waiting[b] : waiting[b][j] # a
    BY <1>4 DEF AwaitInv, ListsExact
  <2>2. Takes(a) = {<<k, i>>}
    BY <1>4, <2>1 DEF Takes
  <2>3. Waits(a) = {}
    BY <2>1 DEF Waits
  <2>4. Cardinality(Takes(a)) = 1
    BY <2>2, FS_Singleton
  <2>5. Cardinality(Waits(a)) = 0
    BY <2>3, FS_EmptySet
  <2> QED
    BY <1>1, <2>4, <2>5
<1> QED
  BY <1>2, <1>3, <1>4 DEF AwaitInv, ListsExact

(* No await is lost and none is resumed twice: what is suspended is on      *)
(* exactly one list, of a pending task or in the hands of whoever completes *)
(* it, and what runs is on exactly one stack (complete and                  *)
(* await_on_completed look at the progress and the list under one lock).    *)
THEOREM AwaitsAreHeld == Spec => []EveryAwaitIsHeld
<1>1. AwaitInv => EveryAwaitIsHeld
  BY OnOneStack, OnOneList
     DEF EveryAwaitIsHeld, AwaitInv, SettledHaveNoList, TakenWhileResuming, Off
<1> QED
  BY <1>1, AwaitInvHolds, PTL
-----------------------------------------------------------------------------
(* Who settles a source.                                                    *)
SettleOps == {"set", "fail", "tryset", "tryfail"}

(* fault does not look at the progress.  Where a program calls SetException *)
(* or TrySetException, either the same activity has settled or tried to     *)
(* settle the source before, and it is TrySetException, which looks first;  *)
(* or no other activity settles that source, nor this one before.           *)
FaultsUncontested ==
  \A s \in Scripts : \A a \in Activities : \A i \in DOMAIN s[a] :
    s[a][i].op \in {"fail", "tryfail"} =>
      \/ /\ s[a][i].op = "tryfail"
         /\ \E j \in DOMAIN s[a] : j < i /\ s[a][j].op \in SettleOps /\ s[a][j].on = s[a][i].on
      \/ \A b \in Activities : \A j \in DOMAIN s[b] :
           s[b][j].op \in SettleOps /\ s[b][j].on = s[a][i].on => b = a /\ j >= i

(* What an activity has gone past is settled,                               *)
Past(a, i) == i < at[a] \/ (i = at[a] /\ phase[a] = "resuming")
PastIsSettled ==
  \A a \in Activities : ~AtEnd(a) => \A i \in DOMAIN script[a] :
    script[a][i].op \in SettleOps /\ Past(a, i) => ~Pending(script[a][i].on)

(* and what is settled some activity has gone past.                         *)
SettledIsPast ==
  \A k \in Sources : ~Pending(k) =>
    \E a \in Activities : \E i \in DOMAIN script[a] :
      script[a][i].op \in SettleOps /\ script[a][i].on = k /\ Past(a, i)

(* TrySetResult and TrySetException go on only where the activity has not   *)
(* settled the source before.                                               *)
SettledBefore(a) ==
  \E i \in DOMAIN script[a] :
    i < at[a] /\ script[a][i].op \in SettleOps /\ script[a][i].on = Instr(a).on
TryingIsFirst == \A a \in Activities : phase[a] = "trying" => ~SettledBefore(a)

SettleInv == PastIsSettled /\ SettledIsPast /\ TryingIsFirst

(* How a step moves activity b, and that no task gets pending again.        *)
Settled(b) == Instr(b).op \in SettleOps => ~Pending(Instr(b).on)
Moves(b) ==
  \/ at'[b] = at[b] /\ (phase'[b] = "resuming" <=> phase[b] = "resuming")
  \/ at'[b] = at[b] /\ phase'[b] = "resuming" /\ (~AtEnd(b) => Settled(b)')
  \/ at'[b] = at[b] /\ phase[b] = "resuming" /\ AtEnd(b)
  \/ at'[b] = at[b] + 1 /\ (phase[b] # "resuming" => Settled(b)) /\ ~AtEnd(b) /\ phase'[b] # "resuming"
  \/ AtEnd(b)' /\ at'[b] \in Nat /\ at'[b] > at[b]
Tries(b) ==
  phase'[b] = "trying" => at'[b] = at[b] /\ (phase[b] = "trying" \/ (~AtEnd(b) /\ Pending(Instr(b).on)))
Goes(b) == Moves(b) /\ Tries(b)
Remains == \A k \in Tasks : ~Pending(k) => ~Pending(k)'
ByWhom ==
  \A k \in Sources : Pending(k) /\ ~Pending(k)' =>
    \E b \in Activities : /\ phase'[b] = "resuming" /\ at'[b] = at[b] /\ ~AtEnd(b)
                          /\ Instr(b).op \in SettleOps /\ Instr(b).on = k

LEMMA SettleInvKept ==
  ASSUME Shapes, SettleInv, UNCHANGED script, \A b \in Activities : Goes(b), Remains, ByWhom
  PROVE  SettleInv'
<1>1. \A b \in Activities : DOMAIN script[b] \subseteq Nat /\ at[b] \in Nat
  BY Indices
<1>2. \A b \in Activities : \A i \in DOMAIN script[b] :
        script[b][i].op \in SettleOps => script[b][i].on \in Tasks
  <2>1. \A b \in Activities : \A i \in DOMAIN script[b] : script[b][i] \in Ops
    <3>1. \A b \in Activities : script[b] \in Seq(Ops)
      BY ScriptsAssumption DEF Shapes
    <3> QED
      BY <3>1
  <2>2. \A o \in Ops : o.op \in SettleOps => o.on \in Tasks
    BY DEF Ops, SettleOps, Tasks
  <2> QED
    BY <2>1, <2>2
<1>3. PastIsSettled'
  <2> SUFFICES ASSUME NEW b \in Activities, ~AtEnd(b)', NEW i \in DOMAIN script[b],
                      script[b][i].op \in SettleOps, Past(b, i)'
               PROVE  ~Pending(script[b][i].on)'
    BY DEF PastIsSettled
  <2>1. CASE ~AtEnd(b) /\ Past(b, i)
    BY <1>2, <2>1 DEF SettleInv, PastIsSettled, Remains
  <2>2. CASE at'[b] = at[b] /\ (phase'[b] = "resuming" <=> phase[b] = "resuming")
    BY <2>1, <2>2 DEF AtEnd, Past
  <2>3. CASE at'[b] = at[b] /\ phase'[b] = "resuming" /\ (~AtEnd(b) => Settled(b)')
    <3>1. ~AtEnd(b)
      BY <2>3 DEF AtEnd
    <3>2. i < at[b] \/ i = at[b]
      BY <2>3 DEF Past
    <3>3. CASE i = at[b]
      BY <2>3, <3>1, <3>3 DEF Settled, Instr
    <3>4. CASE i < at[b]
      BY <2>1, <3>1, <3>4 DEF Past
    <3> QED
      BY <3>2, <3>3, <3>4
  <2>4. CASE at'[b] = at[b] /\ phase[b] = "resuming" /\ AtEnd(b)
    BY <2>4 DEF AtEnd
  <2>5. CASE at'[b] = at[b] + 1 /\ (phase[b] # "resuming" => Settled(b)) /\ ~AtEnd(b) /\ phase'[b] # "resuming"
    <3>1. i < at[b] \/ i = at[b]
      BY <1>1, <2>5 DEF Past
    <3>2. CASE i < at[b] \/ phase[b] = "resuming"
      BY <2>1, <2>5, <3>1, <3>2 DEF Past
    <3>3. CASE i = at[b] /\ phase[b] # "resuming"
      BY <1>2, <2>5, <3>3 DEF Settled, Instr, Remains
    <3> QED
      BY <3>1, <3>2, <3>3
  <2> QED
    BY <2>2, <2>3, <2>4, <2>5 DEF Goes, Moves, Tries
<1>4. SettledIsPast'
  <2> SUFFICES ASSUME NEW k \in Sources, ~Pending(k)'
               PROVE  \E b \in Activities : \E i \in DOMAIN script[b] :
                        script[b][i].op \in SettleOps /\ script[b][i].on = k /\ Past(b, i)'
    BY DEF SettledIsPast
  <2>1. CASE Pending(k)
    <3>1. PICK b \in Activities : /\ phase'[b] = "resuming" /\ at'[b] = at[b] /\ ~AtEnd(b)
                                 /\ Instr(b).op \in SettleOps /\ Instr(b).on = k
      BY <2>1 DEF ByWhom
    <3>2. at[b] \in DOMAIN script[b] /\ Instr(b) = script[b][at[b]]
      BY <3>1, Operands
    <3> QED
      BY <3>1, <3>2 DEF Past
  <2>2. CASE ~Pending(k)
    <3>1. PICK b \in Activities : \E i \in DOMAIN script[b] :
                 script[b][i].op \in SettleOps /\ script[b][i].on = k /\ Past(b, i)
      BY <2>2 DEF SettleInv, SettledIsPast
    <3>2. PICK i \in DOMAIN script[b] : script[b][i].op \in SettleOps /\ script[b][i].on = k /\ Past(b, i)
      BY <3>1
    <3>3. i \in Nat /\ at[b] \in Nat /\ i <= at[b] /\ (i = at[b] => phase[b] = "resuming")
      BY <1>1, <3>2 DEF Past
    <3>4. i <= Len(script[b])
      <4>1. script[b] \in Seq(Ops)
        BY ScriptsAssumption DEF Shapes
      <4> QED
        BY <4>1, LenProperties
    <3>5. CASE at'[b] = at[b] /\ (phase'[b] = "resuming" <=> phase[b] = "resuming")
      BY <3>2, <3>5 DEF Past
    <3>6. CASE at'[b] = at[b] /\ phase'[b] = "resuming"
      BY <3>2, <3>6 DEF Past
    <3>7. CASE at'[b] = at[b] /\ AtEnd(b)
      <4>1. i < at[b]
        <5>1. script[b] \in Seq(Ops)
          BY ScriptsAssumption DEF Shapes
        <5>2. Len(script[b]) \in Nat
          BY <5>1, LenProperties
        <5> QED
          BY <3>3, <3>4, <3>7, <5>2 DEF AtEnd
      <4> QED
        BY <3>2, <3>7, <4>1 DEF Past
    <3>8. CASE at'[b] = at[b] + 1
      BY <3>2, <3>3, <3>8 DEF Past
    <3>9. CASE at'[b] \in Nat /\ at'[b] > at[b]
      <4>1. i < at'[b]
        BY <3>3, <3>9
      <4> QED
        BY <3>2, <4>1 DEF Past
    <3> QED
      BY <3>5, <3>6, <3>7, <3>8, <3>9 DEF Goes, Moves, Tries
  <2> QED
    BY <2>1, <2>2
<1>5. TryingIsFirst'
  <2> SUFFICES ASSUME NEW b \in Activities, phase'[b] = "trying" PROVE ~SettledBefore(b)'
    BY DEF TryingIsFirst
  <2>1. at'[b] = at[b] /\ (phase[b] = "trying" \/ (~AtEnd(b) /\ Pending(Instr(b).on)))
    BY DEF Goes, Tries
  <2>2. SettledBefore(b)' = SettledBefore(b)
    BY <2>1 DEF SettledBefore, Instr
  <2>3. CASE phase[b] = "trying"
    BY <2>2, <2>3 DEF SettleInv, TryingIsFirst
  <2>4. CASE ~AtEnd(b) /\ Pending(Instr(b).on)
    BY <2>2, <2>4 DEF SettleInv, PastIsSettled, SettledBefore, Past
  <2> QED
    BY <2>1, <2>3, <2>4
<1> QED
  BY <1>3, <1>4, <1>5 DEF SettleInv
(* Activity a is the one that moves.                                        *)
LEMMA OthersStand ==
  ASSUME Shapes, NEW a \in Activities, NEW p, NEW n,
         Becomes(a, p),
         \/ at' = at
         \/ at' = [at EXCEPT ![a] = n]
  PROVE  /\ \A b \in Activities \ {a} : Goes(b)
         /\ phase'[a] = p /\ (at' # at => at'[a] = n)
BY DEF Shapes, Becomes, Goes, Moves, Tries

LEMMA NothingSettles ==
  ASSUME UNCHANGED progress
  PROVE  Remains /\ ByWhom
BY DEF Remains, ByWhom, Pending

(* Steps that settle nothing                                                *)
LEMMA GoesOn ==
  ASSUME Shapes, NEW a \in Activities, ~AtEnd(a), phase[a] # "resuming", Settled(a),
         UNCHANGED progress, Advances(a) \/ Throws(a)
  PROVE  (\A b \in Activities : Goes(b)) /\ Remains /\ ByWhom
<1>1. at \in [Activities -> Nat \ {0}]
  BY DEF Shapes
<1>2. CASE Advances(a)
  <2>1. at' = [at EXCEPT ![a] = at[a] + 1] /\ Becomes(a, "ready")
    BY <1>2 DEF Advances
  <2>2. at'[a] = at[a] + 1
    BY <1>1, <2>1
  <2>3. (\A b \in Activities \ {a} : Goes(b)) /\ phase'[a] = "ready"
    BY <2>1, OthersStand
  <2>4. Goes(a)
    BY <2>2, <2>3 DEF Goes, Moves, Tries
  <2> QED
    BY <2>3, <2>4, NothingSettles
<1>3. CASE Becomes(a, "throwing") /\ UNCHANGED at
  <2>1. (\A b \in Activities \ {a} : Goes(b)) /\ phase'[a] = "throwing"
    BY <1>3, OthersStand
  <2>2. Goes(a)
    BY <1>3, <2>1 DEF Goes, Moves, Tries
  <2> QED
    BY <2>1, <2>2, NothingSettles
<1> QED
  BY <1>2, <1>3 DEF Throws

LEMMA StandsStill ==
  ASSUME Shapes, NEW a \in Activities, phase[a] # "resuming", NEW p, p # "resuming",
         p = "trying" => ~AtEnd(a) /\ Pending(Instr(a).on),
         UNCHANGED <<progress, at>>, Becomes(a, p)
  PROVE  (\A b \in Activities : Goes(b)) /\ Remains /\ ByWhom
<1>1. (\A b \in Activities \ {a} : Goes(b)) /\ phase'[a] = p
  BY OthersStand
<1>2. Goes(a)
  BY <1>1 DEF Goes, Moves, Tries
<1> QED
  BY <1>1, <1>2, NothingSettles

(* A step that settles                                                      *)
LEMMA SettlesNow ==
  ASSUME Shapes, NEW a \in Activities, NEW k \in Tasks, NEW how \in {"COMPLETED", "FAULTED"},
         Settles(a, k, how), UNCHANGED <<script, at>>,
         \/ AtEnd(a) /\ k \notin Sources
         \/ ~AtEnd(a) /\ Instr(a).op \in SettleOps /\ Instr(a).on = k
  PROVE  (\A b \in Activities : Goes(b)) /\ Remains /\ ByWhom
<1>1. /\ progress' = [progress EXCEPT ![k] = how] /\ Becomes(a, "resuming")
      /\ progress \in [Tasks -> {"PENDING", "COMPLETED", "FAULTED"}]
  BY DEF Settles, Shapes
<1>2. progress'[k] = how /\ \A l \in Tasks \ {k} : progress'[l] = progress[l]
  BY <1>1
<1>3. (\A b \in Activities \ {a} : Goes(b)) /\ phase'[a] = "resuming"
  BY <1>1, OthersStand
<1>4. AtEnd(a)' = AtEnd(a) /\ Instr(a)' = Instr(a)
  BY DEF AtEnd, Instr
<1>5. Goes(a)
  BY <1>2, <1>3, <1>4 DEF Goes, Moves, Tries, Settled, Pending
<1>6. Remains
  BY <1>2 DEF Remains, Pending
<1>7. ByWhom
  <2> SUFFICES ASSUME NEW l \in Sources, Pending(l), ~Pending(l)'
               PROVE  \E b \in Activities : /\ phase'[b] = "resuming" /\ at'[b] = at[b] /\ ~AtEnd(b)
                                            /\ Instr(b).op \in SettleOps /\ Instr(b).on = l
    BY DEF ByWhom
  <2>1. l = k
    BY <1>2 DEF Pending, Tasks
  <2> QED
    BY <1>3, <2>1
<1> QED
  BY <1>3, <1>5, <1>6, <1>7
LEMMA HeadsAreSuspended ==
  ASSUME AwaitInv, NEW a \in Activities, taken[a] # <<>>
  PROVE  Head(taken[a]) \in Activities /\ phase[Head(taken[a])] = "suspended"
<1>1. taken[a] \in Seq(Activities)
  BY DEF AwaitInv, Shapes
<1>2. Head(taken[a]) = taken[a][1] /\ 1 \in DOMAIN taken[a] /\ Head(taken[a]) \in Activities
  BY <1>1, Beheaded
<1> QED
  BY <1>2 DEF AwaitInv, ListsExact

LEMMA QueuedAreUnstarted ==
  ASSUME AwaitInv, queue # <<>>
  PROVE  Head(queue) \in Activities /\ phase[Head(queue)] = "unstarted"
<1>1. queue \in Seq(Jobs)
  BY DEF AwaitInv, Shapes
<1>2. Head(queue) = queue[1] /\ 1 \in DOMAIN queue /\ Head(queue) \in Jobs
  BY <1>1, Beheaded
<1> QED
  BY <1>2 DEF AwaitInv, NotYetBegun, Activities

Well == (\A b \in Activities : Goes(b)) /\ Remains /\ ByWhom

LEMMA WellSettled ==
  ASSUME AwaitInv, NEW t \in Threads, NEW a \in Activities,
         Complete(t, a) \/ Fault(t, a) \/ Set(t, a) \/ TryGoesOn(t, a)
  PROVE  Well
<1> USE DEF Well, AwaitInv
<1>1. CASE Complete(t, a)
  <2>1. /\ phase[a] = "ready" /\ AtEnd(a) /\ a \in Jobs \cup Asyncs /\ Completes(a, a) /\ UNCHANGED script
    BY <1>1 DEF Complete, Runs, Activities
  <2>2. Pending(a) /\ a \in Tasks /\ a \notin Sources
    BY <2>1, ActivitiesAssumption DEF OwnTaskLast, Tasks
  <2>3. Settles(a, a, "COMPLETED") /\ UNCHANGED at
    BY <2>1, <2>2 DEF Completes, MayComplete
  <2> QED
    BY <2>1, <2>2, <2>3, SettlesNow
<1>2. CASE Fault(t, a)
  <2>1. /\ phase[a] = "throwing" /\ ~AtEnd(a) /\ a \in Tasks /\ a \notin Sources /\ Settles(a, a, "FAULTED")
        /\ at' = [at EXCEPT ![a] = Len(script[a]) + 1] /\ UNCHANGED script
    BY <1>2, ActivitiesAssumption DEF Fault, Runs, PhasesFit, Within, Activities, Tasks
  <2>2. Len(script[a]) \in Nat /\ at \in [Activities -> Nat \ {0}]
    <3>1. script[a] \in Seq(Ops)
      BY ScriptsAssumption DEF Shapes
    <3> QED
      BY <3>1, LenProperties DEF Shapes
  <2>3. at'[a] = Len(script[a]) + 1
    BY <2>1, <2>2
  <2>4. (\A b \in Activities \ {a} : Goes(b)) /\ phase'[a] = "resuming"
    BY <2>1, OthersStand DEF Settles
  <2>5. Goes(a)
    BY <2>1, <2>2, <2>3, <2>4 DEF Goes, Moves, Tries, AtEnd
  <2>6. /\ progress' = [progress EXCEPT ![a] = "FAULTED"]
        /\ progress \in [Tasks -> {"PENDING", "COMPLETED", "FAULTED"}]
    BY <2>1 DEF Settles, Shapes
  <2>7. progress'[a] = "FAULTED" /\ \A l \in Tasks \ {a} : progress'[l] = progress[l]
    BY <2>1, <2>6
  <2>8. Remains /\ ByWhom
    BY <2>1, <2>7 DEF Remains, ByWhom, Pending, Tasks
  <2> QED
    BY <2>4, <2>5, <2>8
<1>3. ASSUME NEW k \in Sources, ~AtEnd(a), Instr(a).op \in SettleOps, Instr(a).on = k,
             phase[a] # "resuming", Completes(a, k) \/ Faults(a, k), UNCHANGED script
      PROVE  Well
  <2>1. k \in Tasks
    BY DEF Tasks
  <2>2. CASE Settles(a, k, "COMPLETED") /\ UNCHANGED at
    BY <1>3, <2>1, <2>2, SettlesNow
  <2>3. CASE Settles(a, k, "FAULTED") /\ UNCHANGED at
    BY <1>3, <2>1, <2>3, SettlesNow
  <2>4. CASE ~Pending(k) /\ Throws(a) /\ UNCHANGED tasks
    <3>1. Settled(a) /\ UNCHANGED progress
      BY <1>3, <2>4 DEF Settled, tasks
    <3> QED
      BY <1>3, <2>4, <3>1, GoesOn
  <2> QED
    BY <1>3, <2>2, <2>3, <2>4 DEF Completes, Faults, MayComplete
<1>4. CASE Set(t, a)
  <2>1. /\ phase[a] = "ready" /\ ~AtEnd(a) /\ Instr(a).op \in {"set", "fail"} /\ UNCHANGED script
        /\ Completes(a, Instr(a).on) \/ Faults(a, Instr(a).on)
    BY <1>4 DEF Set, Executes, Runs
  <2>2. Instr(a).on \in Sources /\ Instr(a).op \in SettleOps
    BY <2>1, Operands DEF SettleOps
  <2> QED
    BY <1>3, <2>1, <2>2
<1>5. CASE TryGoesOn(t, a)
  <2>1. /\ phase[a] = "trying" /\ ~AtEnd(a) /\ Instr(a).op \in {"tryset", "tryfail"} /\ UNCHANGED script
        /\ Completes(a, Instr(a).on) \/ Faults(a, Instr(a).on)
    BY <1>5 DEF TryGoesOn, Runs, PhasesFit, Within
  <2>2. Instr(a).on \in Sources /\ Instr(a).op \in SettleOps
    BY <2>1, Operands DEF SettleOps
  <2> QED
    BY <1>3, <2>1, <2>2
<1> QED
  BY <1>1, <1>2, <1>4, <1>5

LEMMA WellByItself ==
  ASSUME AwaitInv, NEW t \in Threads, NEW a \in Activities,
         \/ Count(t, a) \/ Submit(t, a) \/ BodyThrows(t, a) \/ TrySet(t, a) \/ Await(t, a)
         \/ AwaitOnCompleted(t, a) \/ Wait(t, a) \/ Settle(t, a) \/ Sample(t, a)
  PROVE  Well
<1> USE DEF Well, AwaitInv
<1>1. ASSUME NEW p, phase[a] # "resuming", p # "resuming", Becomes(a, p), UNCHANGED <<progress, at>>,
             p = "trying" => ~AtEnd(a) /\ Pending(Instr(a).on)
      PROVE  Well
  BY <1>1, StandsStill
<1>2. ASSUME phase[a] # "resuming", ~AtEnd(a), Settled(a), UNCHANGED progress, Advances(a) \/ Throws(a)
      PROVE  Well
  BY <1>2, GoesOn
<1>3. ASSUME phase[a] # "resuming", ~AtEnd(a), Settled(a), UNCHANGED progress, NEW k, GetsResult(a, k)
      PROVE  Well
  BY <1>2, <1>3 DEF GetsResult
<1>4. CASE Count(t, a)
  BY <1>1, <1>4 DEF Count, Executes, Runs, tasks
<1>5. CASE Submit(t, a)
  <2>1. phase[a] = "submitting" /\ ~AtEnd(a) /\ Settled(a)
    BY <1>5 DEF Submit, Runs, PhasesFit, Serves, Within, Settled, SettleOps
  <2> QED
    BY <1>2, <1>5, <2>1 DEF Submit, tasks
<1>6. CASE BodyThrows(t, a)
  BY <1>2, <1>6 DEF BodyThrows, Executes, Runs, Settled, SettleOps, tasks
<1>7. CASE TrySet(t, a)
  <2>1. phase[a] = "ready" /\ ~AtEnd(a) /\ UNCHANGED progress
    BY <1>7 DEF TrySet, Executes, Runs, tasks
  <2>2. CASE MayComplete(Instr(a).on)
    BY <1>1, <1>7, <2>1, <2>2 DEF TrySet, MayComplete
  <2>3. CASE ~MayComplete(Instr(a).on)
    <3>1. Settled(a) /\ Advances(a)
      BY <1>7, <2>3 DEF TrySet, MayComplete, Settled
    <3> QED
      BY <1>2, <2>1, <3>1
  <2> QED
    BY <2>2, <2>3
<1>8. CASE Await(t, a)
  <2>1. phase[a] = "ready" /\ ~AtEnd(a) /\ Settled(a) /\ UNCHANGED progress
    BY <1>8 DEF Await, Executes, Runs, Settled, SettleOps, tasks
  <2> QED
    BY <1>1, <1>3, <1>8, <2>1 DEF Await
<1>9. CASE AwaitOnCompleted(t, a)
  <2>1. phase[a] = "registering" /\ ~AtEnd(a) /\ Settled(a) /\ UNCHANGED progress
    BY <1>9 DEF AwaitOnCompleted, Runs, PhasesFit, Serves, Within, Settled, SettleOps
  <2> QED
    BY <1>1, <1>3, <1>9, <2>1 DEF AwaitOnCompleted
<1>10. CASE Wait(t, a)
  BY <1>1, <1>10 DEF Wait, Executes, Runs, tasks
<1>11. CASE Settle(t, a)
  <2>1. phase[a] = "settling" /\ ~AtEnd(a) /\ Settled(a) /\ UNCHANGED progress
    BY <1>11 DEF Settle, Runs, PhasesFit, Serves, Within, Settled, SettleOps, tasks
  <2> QED
    BY <1>1, <1>3, <1>11, <2>1 DEF Settle
<1>12. CASE Sample(t, a)
  <2>1. phase[a] = "sampling" /\ ~AtEnd(a) /\ Settled(a) /\ UNCHANGED progress
    BY <1>12 DEF Sample, Runs, PhasesFit, Serves, Within, Settled, SettleOps, tasks
  <2> QED
    BY <1>1, <1>2, <1>12, <2>1 DEF Sample
<1> QED
  BY <1>4, <1>5, <1>6, <1>7, <1>8, <1>9, <1>10, <1>11, <1>12

LEMMA WellNested ==
  ASSUME AwaitInv, NEW t \in Threads, NEW a \in Activities,
         WorkerTakes(t) \/ MainReturn(t) \/ Resume(t, a) \/ Return(t, a) \/ Start(t, a) \/ Help(t, a)
  PROVE  Well
<1> USE DEF Well, AwaitInv
<1>1. phase \in [Activities -> Phases] /\ at \in [Activities -> Nat \ {0}]
  BY DEF Shapes
<1>2. CASE WorkerTakes(t)
  <2>1. queue # <<>> /\ Becomes(Head(queue), "ready") /\ UNCHANGED <<progress, at>>
    BY <1>2 DEF WorkerTakes, RunOne, tasks
  <2> QED
    BY <2>1, QueuedAreUnstarted, StandsStill
<1>3. CASE MainReturn(t)
  <2>1. Main \in Activities /\ phase[Main] = "ready" /\ Becomes(Main, "over") /\ UNCHANGED <<progress, at>>
    BY <1>3 DEF MainReturn, Runs, tasks, Activities
  <2> QED
    BY <2>1, StandsStill
<1>4. CASE Resume(t, a)
  <2>1. taken[a] # <<>> /\ Becomes(Head(taken[a]), "ready") /\ UNCHANGED <<progress, at>>
    BY <1>4 DEF Resume
  <2> QED
    BY <2>1, HeadsAreSuspended, StandsStill
<1>5. CASE Return(t, a)
  <2>1. phase[a] = "resuming" /\ UNCHANGED progress
    BY <1>5 DEF Return, Runs, tasks
  <2>2. CASE AtEnd(a)
    <3>1. Becomes(a, "over") /\ UNCHANGED at
      BY <1>5, <2>2 DEF Return
    <3>2. (\A b \in Activities \ {a} : Goes(b)) /\ phase'[a] = "over"
      BY <3>1, OthersStand
    <3>3. Goes(a)
      BY <2>1, <2>2, <3>1, <3>2 DEF Goes, Moves, Tries
    <3> QED
      BY <2>1, <3>2, <3>3, NothingSettles
  <2>3. CASE ~AtEnd(a)
    <3>1. Becomes(a, "ready") /\ at' = [at EXCEPT ![a] = at[a] + 1]
      BY <1>5, <2>3 DEF Return, Advances
    <3>2. (\A b \in Activities \ {a} : Goes(b)) /\ phase'[a] = "ready"
      BY <3>1, OthersStand
    <3>3. at'[a] = at[a] + 1
      BY <1>1, <3>1
    <3>4. Goes(a)
      BY <2>1, <2>3, <3>2, <3>3 DEF Goes, Moves, Tries
    <3> QED
      BY <2>1, <3>2, <3>4, NothingSettles
  <2> QED
    BY <2>2, <2>3
<1>6. CASE Start(t, a)
  <2> DEFINE m == Instr(a).on
  <2>1. /\ phase[a] = "ready" /\ ~AtEnd(a) /\ Instr(a).op = "call" /\ UNCHANGED progress
        /\ at' = [at EXCEPT ![a] = @ + 1] /\ phase' = [phase EXCEPT ![m] = "ready"]
    BY <1>6 DEF Start, Executes, Runs, Becomes, tasks
  <2>2. m \in Activities /\ phase[m] = "unstarted"
    BY <2>1, Operands, AboutToBegin DEF Begins, Activities
  <2> HIDE DEF m
  <2>3. /\ at'[a] = at[a] + 1 /\ \A b \in Activities \ {a} : at'[b] = at[b]
        /\ phase'[m] = "ready" /\ \A b \in Activities \ {m} : phase'[b] = phase[b]
    BY <1>1, <2>1, <2>2
  <2>4. \A b \in Activities \ {a} : Goes(b)
    BY <2>2, <2>3 DEF Goes, Moves, Tries
  <2>5. Goes(a)
    BY <2>1, <2>2, <2>3 DEF Goes, Moves, Tries, Settled, SettleOps
  <2> QED
    BY <2>1, <2>4, <2>5, NothingSettles
<1>7. CASE Help(t, a)
  <2>1. phase[a] = "helping" /\ UNCHANGED <<progress, at>>
    BY <1>7 DEF Help, Runs, tasks
  <2>2. CASE HelpsHere
    <3>1. queue # <<>> /\ phase' = [phase EXCEPT ![a] = "settling", ![Head(queue)] = "ready"]
      BY <1>7, <2>2 DEF Help, HelpsHere
    <3>2. Head(queue) \in Activities /\ phase[Head(queue)] = "unstarted"
      BY <3>1, QueuedAreUnstarted
    <3>3. \A b \in Activities : /\ phase'[b] = "resuming" <=> phase[b] = "resuming"
                                /\ phase'[b] = "trying" => phase[b] = "trying"
      BY <1>1, <2>1, <3>1, <3>2
    <3>4. \A b \in Activities : Goes(b)
      BY <2>1, <3>3 DEF Goes, Moves, Tries
    <3> QED
      BY <2>1, <3>4, NothingSettles
  <2>3. CASE ~HelpsHere
    BY <1>7, <2>1, <2>3, StandsStill DEF Help
  <2> QED
    BY <2>2, <2>3
<1> QED
  BY <1>2, <1>3, <1>4, <1>5, <1>6, <1>7
LEMMA ScriptStays == [Next]_vars => UNCHANGED script
<1> SUFFICES ASSUME [Next]_vars PROVE UNCHANGED script
  OBVIOUS
<1>1. CASE UNCHANGED vars
  BY <1>1 DEF vars
<1>2. CASE \E j \in Jobs : TimerFires(j)
  BY <1>2 DEF TimerFires
<1>3. CASE \E t \in Threads : WorkerTakes(t) \/ MainReturn(t)
  BY <1>3 DEF WorkerTakes, MainReturn
<1>4. ASSUME NEW t \in Threads, NEW a \in Activities,
             \/ Count(t, a) \/ Submit(t, a) \/ Complete(t, a) \/ Fault(t, a) \/ BodyThrows(t, a)
             \/ Set(t, a) \/ TrySet(t, a) \/ TryGoesOn(t, a)
      PROVE  UNCHANGED script
  BY <1>4 DEF Count, Submit, Complete, Fault, BodyThrows, Set, TrySet, TryGoesOn
<1>5. ASSUME NEW t \in Threads, NEW a \in Activities,
             \/ Resume(t, a) \/ Return(t, a) \/ Start(t, a) \/ Await(t, a) \/ AwaitOnCompleted(t, a)
             \/ Wait(t, a) \/ Settle(t, a) \/ Help(t, a) \/ Sample(t, a)
      PROVE  UNCHANGED script
  BY <1>5 DEF Resume, Return, Start, Await, AwaitOnCompleted, Wait, Settle, Help, Sample
<1> QED
  BY <1>1, <1>2, <1>3, <1>4, <1>5 DEF Next, Step

LEMMA AllWell ==
  ASSUME AwaitInv, Next
  PROVE  Well
<1>1. ASSUME NEW j \in Jobs, TimerFires(j) PROVE Well
  <2>1. UNCHANGED <<at, phase, progress>>
    BY <1>1 DEF TimerFires, tasks
  <2> QED
    BY <2>1, NothingSettles DEF Well, Goes, Moves, Tries
<1>2. ASSUME NEW t \in Threads, Step(t) PROVE Well
  <2>1. ASSUME NEW a \in Activities,
               \/ Count(t, a) \/ Submit(t, a) \/ BodyThrows(t, a) \/ TrySet(t, a) \/ Await(t, a)
               \/ AwaitOnCompleted(t, a) \/ Wait(t, a) \/ Settle(t, a) \/ Sample(t, a)
        PROVE  Well
    BY <2>1, WellByItself
  <2>2. ASSUME NEW a \in Activities, Complete(t, a) \/ Fault(t, a) \/ Set(t, a) \/ TryGoesOn(t, a)
        PROVE  Well
    BY <2>2, WellSettled
  <2>3. ASSUME NEW a \in Activities,
               WorkerTakes(t) \/ MainReturn(t) \/ Resume(t, a) \/ Return(t, a) \/ Start(t, a) \/ Help(t, a)
        PROVE  Well
    BY <2>3, WellNested
  <2>4. Main \in Activities
    BY DEF Activities
  <2>5. CASE WorkerTakes(t) \/ MainReturn(t)
    BY <2>3, <2>4, <2>5
  <2>6. ASSUME NEW a \in Activities, Resume(t, a) \/ Return(t, a) \/ Start(t, a) \/ Help(t, a)
        PROVE  Well
    BY <2>3, <2>6
  <2> QED
    BY <1>2, <2>1, <2>2, <2>5, <2>6 DEF Step
<1> QED
  BY <1>1, <1>2 DEF Next

LEMMA SettleInvInit == Init => SettleInv
<1> SUFFICES ASSUME Init PROVE SettleInv
  OBVIOUS
<1>1. PastIsSettled
  <2>1. \A a \in Activities : DOMAIN script[a] \subseteq Nat \ {0} /\ at[a] = 1 /\ phase[a] # "resuming"
    <3>1. \A a \in Activities : script[a] \in Seq(Ops)
      BY ScriptsAssumption DEF Init
    <3>2. \A a \in Activities : DOMAIN script[a] = 1 .. Len(script[a])
      BY <3>1, LenProperties
    <3> QED
      BY <3>2 DEF Init
  <2> QED
    BY <2>1 DEF PastIsSettled, Past
<1>2. SettledIsPast
  BY DEF Init, SettledIsPast, Pending, Tasks
<1>3. TryingIsFirst
  BY DEF Init, TryingIsFirst
<1> QED
  BY <1>1, <1>2, <1>3 DEF SettleInv

LEMMA SettleInvNext == AwaitInv /\ SettleInv /\ [Next]_vars => SettleInv'
<1> SUFFICES ASSUME AwaitInv, SettleInv, [Next]_vars PROVE SettleInv'
  OBVIOUS
<1>1. CASE UNCHANGED vars
  BY <1>1 DEF vars, tasks, SettleInv, PastIsSettled, SettledIsPast, TryingIsFirst, SettledBefore, Past, Pending, AtEnd, Instr
<1>2. CASE Next
  <2>1. (\A b \in Activities : Goes(b)) /\ Remains /\ ByWhom
    BY <1>2, AllWell DEF Well
  <2> QED
    BY <2>1, ScriptStays, SettleInvKept DEF AwaitInv
<1> QED
  BY <1>1, <1>2

LEMMA SettleInvHolds == Spec => []SettleInv
<1>1. Spec => []AwaitInv
  BY AwaitInvHolds
<1> QED
  BY <1>1, SettleInvInit, SettleInvNext, PTL DEF Spec

(* Who faults a source is the first to settle it.                           *)
LEMMA FaultsFirst ==
  ASSUME FaultsUncontested, AwaitInv, SettleInv, NEW a \in Activities, ~AtEnd(a),
         Instr(a).op \in {"fail", "tryfail"},
         phase[a] = "trying" \/ (phase[a] = "ready" /\ Instr(a).op = "fail")
  PROVE  Instr(a).on \in Sources /\ Pending(Instr(a).on)
<1>1. at[a] \in DOMAIN script[a] /\ Instr(a) = script[a][at[a]] /\ script \in Scripts /\ Instr(a).on \in Sources
  BY Operands DEF AwaitInv, Shapes
<1>2. \A b \in Activities : \A i \in DOMAIN script[b] :
        script[b][i].op \in SettleOps /\ script[b][i].on = Instr(a).on => b = a /\ i >= at[a]
  <2>1. ~(Instr(a).op = "tryfail" /\ SettledBefore(a))
    BY DEF SettleInv, TryingIsFirst
  <2> QED
    BY <1>1, <2>1 DEF FaultsUncontested, SettledBefore
<1>3. \A b \in Activities : \A i \in DOMAIN script[b] :
        ~(script[b][i].op \in SettleOps /\ script[b][i].on = Instr(a).on /\ Past(b, i))
  <2> SUFFICES ASSUME NEW b \in Activities, NEW i \in DOMAIN script[b], script[b][i].op \in SettleOps,
                      script[b][i].on = Instr(a).on, Past(b, i)
               PROVE  FALSE
    OBVIOUS
  <2>1. b = a /\ i >= at[a]
    BY <1>2
  <2>2. i \in Nat /\ at[a] \in Nat
    BY <2>1, Indices DEF AwaitInv
  <2> QED
    BY <2>1, <2>2 DEF Past
<1> QED
  BY <1>1, <1>3 DEF SettleInv, SettledIsPast

LEMMA SettledOnceStep ==
  ASSUME FaultsUncontested, AwaitInv, SettleInv, Next, NEW k \in Tasks, ~Pending(k)
  PROVE  progress'[k] = progress[k]
<1>1. CASE UNCHANGED progress
  BY <1>1
<1>2. ASSUME NEW a \in Activities, NEW l \in Tasks, NEW how, Settles(a, l, how), Pending(l)
      PROVE  progress'[k] = progress[k]
  BY <1>2 DEF Settles, AwaitInv, Shapes
<1>3. ASSUME NEW a \in Activities, NEW l \in Tasks, Completes(a, l) PROVE progress'[k] = progress[k]
  BY <1>1, <1>2, <1>3 DEF Completes, MayComplete, tasks
<1>4. ASSUME NEW t \in Threads, NEW a \in Activities, Complete(t, a) PROVE progress'[k] = progress[k]
  BY <1>3, <1>4 DEF Complete, Activities, Tasks
<1>5. ASSUME NEW t \in Threads, NEW a \in Activities, Fault(t, a) PROVE progress'[k] = progress[k]
  <2>1. phase[a] = "throwing" /\ a \in Jobs \cup Asyncs /\ Settles(a, a, "FAULTED")
    BY <1>5 DEF Fault, Runs, AwaitInv, PhasesFit, Activities
  <2>2. Pending(a) /\ a \in Tasks
    BY <2>1 DEF AwaitInv, OwnTaskLast, Tasks
  <2> QED
    BY <1>2, <2>1, <2>2
<1>6. ASSUME NEW a \in Activities, ~AtEnd(a), Instr(a).op \in {"fail", "tryfail"}, Faults(a, Instr(a).on),
             phase[a] = "trying" \/ (phase[a] = "ready" /\ Instr(a).op = "fail")
      PROVE  progress'[k] = progress[k]
  <2>1. Instr(a).on \in Tasks /\ Pending(Instr(a).on)
    BY <1>6, FaultsFirst DEF Tasks
  <2> QED
    BY <1>2, <1>6, <2>1 DEF Faults
<1>7. ASSUME NEW t \in Threads, NEW a \in Activities, Set(t, a) PROVE progress'[k] = progress[k]
  <2>1. phase[a] = "ready" /\ ~AtEnd(a) /\ Instr(a).op \in {"set", "fail"}
    BY <1>7 DEF Set, Executes, Runs
  <2>2. Instr(a).on \in Tasks
    BY <2>1, Operands DEF AwaitInv, Tasks
  <2>3. CASE Instr(a).op = "set"
    BY <1>3, <1>7, <2>2, <2>3 DEF Set, Executes
  <2>4. CASE Instr(a).op = "fail"
    BY <1>6, <1>7, <2>1, <2>4 DEF Set, Executes
  <2> QED
    BY <2>1, <2>3, <2>4
<1>8. ASSUME NEW t \in Threads, NEW a \in Activities, TryGoesOn(t, a) PROVE progress'[k] = progress[k]
  <2>1. phase[a] = "trying" /\ ~AtEnd(a) /\ Instr(a).op \in {"tryset", "tryfail"}
    BY <1>8 DEF TryGoesOn, Runs, AwaitInv, PhasesFit, Within
  <2>2. Instr(a).on \in Tasks
    BY <2>1, Operands DEF AwaitInv, Tasks
  <2>3. CASE Instr(a).op = "tryset"
    BY <1>3, <1>8, <2>2, <2>3 DEF TryGoesOn
  <2>4. CASE Instr(a).op = "tryfail"
    BY <1>6, <1>8, <2>1, <2>4 DEF TryGoesOn
  <2> QED
    BY <2>1, <2>3, <2>4
<1>9. ASSUME NEW j \in Jobs, TimerFires(j) PROVE progress'[k] = progress[k]
  BY <1>9 DEF TimerFires, tasks
<1>10. ASSUME NEW t \in Threads, WorkerTakes(t) \/ MainReturn(t) PROVE progress'[k] = progress[k]
  BY <1>10 DEF WorkerTakes, MainReturn, tasks
<1>11. ASSUME NEW t \in Threads, NEW a \in Activities,
              \/ Count(t, a) \/ Submit(t, a) \/ BodyThrows(t, a) \/ TrySet(t, a)
              \/ Return(t, a) \/ Start(t, a) \/ Await(t, a)
              \/ Wait(t, a) \/ Settle(t, a) \/ Help(t, a) \/ Sample(t, a)
       PROVE  progress'[k] = progress[k]
  BY <1>11 DEF Count, Submit, BodyThrows, TrySet, Return, Start, Await, Wait, Settle, Help, Sample, tasks
<1>12. ASSUME NEW t \in Threads, NEW a \in Activities, Resume(t, a) \/ AwaitOnCompleted(t, a)
       PROVE  progress'[k] = progress[k]
  BY <1>12 DEF Resume, AwaitOnCompleted
<1> QED
  BY <1>4, <1>5, <1>7, <1>8, <1>9, <1>10, <1>11, <1>12 DEF Next, Step

(* A task is settled once (complete's "already completed"), in every program *)
(* in which SetException and TrySetException are not contended: fault does  *)
(* not look.                                                                *)
THEOREM TasksSettleOnce == ASSUME FaultsUncontested PROVE Spec => SettledOnce
<1>1. AwaitInv /\ SettleInv /\ [Next]_vars => [\A k \in Tasks : ~Pending(k) => progress'[k] = progress[k]]_vars
  BY SettledOnceStep
<1> QED
  BY <1>1, AwaitInvHolds, SettleInvHolds, PTL DEF Spec, SettledOnce
-----------------------------------------------------------------------------
(* What is outstanding: the jobs that are being handed over, that wait for  *)
(* a thread or a deadline, or that have not come back yet.                  *)
IsAlive(j) ==
  \/ phase[j] \notin {"unstarted", "over"}
  \/ \E n \in DOMAIN queue : queue[n] = j
  \/ j \in timers
  \/ \E a \in Activities : phase[a] = "submitting" /\ Instr(a).on = j
Alive == {j \in Jobs : IsAlive(j)}

OutstandingExact == outstanding = Cardinality(Alive)
WorkersRunJobs == \A t \in Workers : stack[t] # <<>> => stack[t][1] \in Jobs
IdleCounts == idle \in [Activities -> Int]

OutstandingInv == OutstandingExact /\ WorkersRunJobs /\ IdleCounts

LEMMA AliveIsFinite == IsFiniteSet(Alive) /\ Cardinality(Alive) \in Nat
<1>1. Alive \subseteq Jobs
  BY DEF Alive
<1> QED
  BY <1>1, ActivitiesAssumption, FS_Subset, FS_CardinalityType

LEMMA AliveStays ==
  ASSUME UNCHANGED <<script, queue, timers>>,
         \A b \in Activities : phase'[b] = "submitting" <=> phase[b] = "submitting",
         \A b \in Activities : phase[b] = "submitting" => at'[b] = at[b],
         \A j \in Jobs : phase'[j] \in {"unstarted", "over"} <=> phase[j] \in {"unstarted", "over"}
  PROVE  Alive' = Alive
<1>1. ASSUME NEW j \in Jobs PROVE IsAlive(j)' <=> IsAlive(j)
  <2>1. \A a \in Activities : phase[a] = "submitting" => Instr(a)' = Instr(a)
    BY DEF Instr
  <2>2. (\E a \in Activities : phase'[a] = "submitting" /\ Instr(a)'.on = j)
        <=> (\E a \in Activities : phase[a] = "submitting" /\ Instr(a).on = j)
    BY <2>1
  <2> QED
    BY <2>2 DEF IsAlive
<1> QED
  BY <1>1 DEF Alive

LEMMA AliveWhile ==
  ASSUME Shapes, NEW a \in Activities, NEW p, NEW n, Becomes(a, p),
         \/ at' = at
         \/ at' = [at EXCEPT ![a] = n],
         UNCHANGED <<script, queue, timers>>, phase[a] # "submitting", p # "submitting",
         a \in Jobs => (phase[a] \in {"unstarted", "over"} <=> p \in {"unstarted", "over"})
  PROVE  Alive' = Alive
<1>1. phase \in [Activities -> Phases] /\ at \in [Activities -> Nat \ {0}]
  BY DEF Shapes
<1>2. /\ phase'[a] = p /\ \A b \in Activities \ {a} : phase'[b] = phase[b] /\ at'[b] = at[b]
  BY <1>1 DEF Becomes
<1>3. Jobs \subseteq Activities
  BY DEF Activities
<1> QED
  BY <1>2, <1>3, AliveStays

(* A job is counted when it is handed over, and until it has come back.     *)
LEMMA CountedOnce ==
  ASSUME AwaitInv, NEW t \in Threads, NEW a \in Activities, Count(t, a), OutstandingExact
  PROVE  OutstandingExact'
<1> DEFINE j == Instr(a).on
<1>1. /\ phase[a] = "ready" /\ ~AtEnd(a) /\ Instr(a).op \in {"run", "delay"}
      /\ outstanding' = outstanding + 1 /\ phase' = [phase EXCEPT ![a] = "submitting"]
      /\ phase \in [Activities -> Phases] /\ UNCHANGED <<script, at, queue, timers>>
  BY DEF Count, Executes, Runs, Becomes, AwaitInv, Shapes
<1>2. /\ phase[j] = "unstarted" /\ j \notin timers /\ j \in Jobs
      /\ \A n \in DOMAIN queue : queue[n] # j
      /\ \A b \in Activities : \A i \in DOMAIN script[b] :
              script[b][i].op \in Begins /\ script[b][i].on = j => b = a /\ i = at[a]
  BY <1>1, AboutToBegin, Operands DEF AwaitInv, Begins
<1>3. \A b \in Activities : phase[b] = "submitting" => Instr(b).on # j
  <2> SUFFICES ASSUME NEW b \in Activities, phase[b] = "submitting", Instr(b).on = j PROVE FALSE
    OBVIOUS
  <2>1. ~AtEnd(b) /\ Instr(b).op \in Begins
    BY DEF AwaitInv, PhasesFit, Within, Serves, Begins
  <2>2. at[b] \in DOMAIN script[b] /\ Instr(b) = script[b][at[b]]
    BY <2>1, Operands DEF AwaitInv
  <2>3. b = a
    BY <1>2, <2>1, <2>2
  <2> QED
    BY <1>1, <2>3
<1> HIDE DEF j
<1>4. j \notin Alive
  BY <1>2, <1>3 DEF Alive, IsAlive
<1>5. phase'[a] = "submitting" /\ \A b \in Activities \ {a} : phase'[b] = phase[b]
  BY <1>1
<1>6. \A b \in Activities : Instr(b)' = Instr(b)
  BY <1>1 DEF Instr
<1>7. ASSUME NEW l \in Jobs PROVE IsAlive(l)' <=> IsAlive(l) \/ l = j
  <2>1. l \in Activities
    BY DEF Activities
  <2>2. phase'[l] \notin {"unstarted", "over"} <=> phase[l] \notin {"unstarted", "over"}
    BY <1>1, <1>5, <2>1
  <2>3. (\E b \in Activities : phase'[b] = "submitting" /\ Instr(b)'.on = l)
        <=> (\E b \in Activities : phase[b] = "submitting" /\ Instr(b).on = l) \/ l = j
    BY <1>1, <1>5, <1>6 DEF j
  <2> QED
    BY <1>1, <2>2, <2>3 DEF IsAlive
<1>8. Alive' = Alive \cup {j}
  BY <1>2, <1>7 DEF Alive
<1>9. Cardinality(Alive \cup {j}) = Cardinality(Alive) + 1
  BY <1>4, AliveIsFinite, FS_AddElement
<1> QED
  BY <1>1, <1>8, <1>9 DEF OutstandingExact

LEMMA UncountedOnce ==
  ASSUME AwaitInv, NEW t \in Threads, NEW a \in Activities, Return(t, a), AtEnd(a), a \in Jobs, OutstandingExact
  PROVE  OutstandingExact'
<1>1. /\ phase[a] = "resuming" /\ outstanding' = outstanding - 1 /\ phase' = [phase EXCEPT ![a] = "over"]
      /\ phase \in [Activities -> Phases] /\ UNCHANGED <<script, at, queue, timers>>
  BY DEF Return, Runs, Becomes, AwaitInv, Shapes
<1>2. phase'[a] = "over" /\ \A b \in Activities \ {a} : phase'[b] = phase[b]
  BY <1>1
<1>3. \A b \in Activities : Instr(b)' = Instr(b)
  BY <1>1 DEF Instr
<1>4. a \in Alive
  BY <1>1 DEF Alive, IsAlive
<1>5. \A b \in Activities : phase[b] = "submitting" => Instr(b).on # a
  <2> SUFFICES ASSUME NEW b \in Activities, phase[b] = "submitting", Instr(b).on = a PROVE FALSE
    OBVIOUS
  <2>1. ~AtEnd(b) /\ Instr(b).op \in Begins
    BY DEF AwaitInv, PhasesFit, Within, Serves, Begins
  <2>2. phase[a] = "unstarted"
    BY <2>1, AboutToBegin DEF AwaitInv
  <2> QED
    BY <1>1, <2>2
<1>6. ~IsAlive(a)'
  <2>1. a \notin timers /\ \A n \in DOMAIN queue : queue[n] # a
    BY <1>1 DEF AwaitInv, NotYetBegun
  <2>2. ~\E b \in Activities : phase'[b] = "submitting" /\ Instr(b)'.on = a
    BY <1>2, <1>3, <1>5
  <2> QED
    BY <1>1, <1>2, <2>1, <2>2 DEF IsAlive
<1>7. ASSUME NEW l \in Jobs \ {a} PROVE IsAlive(l)' <=> IsAlive(l)
  <2>1. (\E b \in Activities : phase'[b] = "submitting" /\ Instr(b)'.on = l)
        <=> (\E b \in Activities : phase[b] = "submitting" /\ Instr(b).on = l)
    BY <1>1, <1>2, <1>3
  <2> QED
    BY <1>1, <1>2, <2>1 DEF IsAlive, Activities
<1>8. Alive' = Alive \ {a}
  BY <1>6, <1>7 DEF Alive
<1>9. Cardinality(Alive \ {a}) = Cardinality(Alive) - 1
  BY <1>4, AliveIsFinite, FS_RemoveElement
<1> QED
  BY <1>1, <1>8, <1>9 DEF OutstandingExact
LEMMA QueueGrown ==
  ASSUME Shapes, NEW j \in Jobs, queue' = Append(queue, j)
  PROVE  \A l \in Jobs : (\E n \in DOMAIN queue' : queue'[n] = l) <=> (\E n \in DOMAIN queue : queue[n] = l) \/ l = j
<1> DEFINE new == Len(queue) + 1
<1>1. queue \in Seq(Jobs)
  BY DEF Shapes
<1>2. /\ DOMAIN queue' = DOMAIN queue \cup {new} /\ queue'[new] = j
      /\ \A i \in DOMAIN queue : queue'[i] = queue[i]
  BY <1>1, Pushed
<1> HIDE DEF new
<1> QED
  BY <1>2

LEMMA QueueShrunk ==
  ASSUME Shapes, queue # <<>>, queue' = Tail(queue)
  PROVE  \A l \in Jobs \ {Head(queue)} :
           (\E n \in DOMAIN queue' : queue'[n] = l) <=> (\E n \in DOMAIN queue : queue[n] = l)
<1>1. queue \in Seq(Jobs)
  BY DEF Shapes
<1>2. /\ Head(queue) = queue[1]
      /\ \A i \in DOMAIN queue' : i + 1 \in DOMAIN queue /\ queue'[i] = queue[i + 1]
      /\ \A i \in DOMAIN queue : i # 1 => i - 1 \in DOMAIN queue' /\ queue'[i - 1] = queue[i]
  BY <1>1, Beheaded
<1> SUFFICES ASSUME NEW l \in Jobs \ {Head(queue)}
             PROVE  (\E n \in DOMAIN queue' : queue'[n] = l) <=> (\E n \in DOMAIN queue : queue[n] = l)
  OBVIOUS
<1>3. ASSUME NEW n \in DOMAIN queue', queue'[n] = l PROVE \E m \in DOMAIN queue : queue[m] = l
  BY <1>2, <1>3
<1>4. ASSUME NEW n \in DOMAIN queue, queue[n] = l PROVE \E m \in DOMAIN queue' : queue'[m] = l
  <2>1. n - 1 \in DOMAIN queue' /\ queue'[n - 1] = l
    BY <1>2, <1>4
  <2> QED
    BY <2>1
<1> QED
  BY <1>3, <1>4

LEMMA AliveHandedOver ==
  ASSUME AwaitInv, NEW t \in Threads, NEW a \in Activities, Submit(t, a)
  PROVE  Alive' = Alive
<1> DEFINE j == Instr(a).on
<1>1. /\ phase[a] = "submitting" /\ ~AtEnd(a) /\ Instr(a).op \in {"run", "delay"} /\ UNCHANGED script
      /\ at' = [at EXCEPT ![a] = @ + 1] /\ phase' = [phase EXCEPT ![a] = "ready"]
      /\ \/ queue' = Append(queue, j) /\ UNCHANGED timers
         \/ timers' = timers \cup {j} /\ UNCHANGED queue
  BY DEF Submit, Runs, AwaitInv, PhasesFit, Serves, Within, Advances, Becomes
<1>2. j \in Jobs
  BY <1>1, Operands DEF AwaitInv
<1>3. /\ phase'[a] = "ready"
      /\ \A b \in Activities \ {a} : phase'[b] = phase[b] /\ at'[b] = at[b]
  BY <1>1 DEF AwaitInv, Shapes
<1>4. \A b \in Activities \ {a} : Instr(b)' = Instr(b)
  BY <1>1, <1>3 DEF Instr
<1>5. \A l \in Jobs : ((\E n \in DOMAIN queue' : queue'[n] = l) \/ l \in timers')
                     <=> (\E n \in DOMAIN queue : queue[n] = l) \/ l \in timers \/ l = j
  <2>1. CASE queue' = Append(queue, j) /\ UNCHANGED timers
    BY <1>2, <2>1, QueueGrown DEF AwaitInv
  <2>2. CASE timers' = timers \cup {j} /\ UNCHANGED queue
    BY <2>2
  <2> QED
    BY <1>1, <2>1, <2>2
<1> HIDE DEF j
<1>6. ASSUME NEW l \in Jobs PROVE IsAlive(l)' <=> IsAlive(l)
  <2>1. phase'[l] \notin {"unstarted", "over"} <=> phase[l] \notin {"unstarted", "over"}
    BY <1>1, <1>3 DEF Activities
  <2>2. (\E b \in Activities : phase'[b] = "submitting" /\ Instr(b)'.on = l) \/ l = j
        <=> (\E b \in Activities : phase[b] = "submitting" /\ Instr(b).on = l)
    <3>1. phase[a] = "submitting" /\ phase'[a] # "submitting" /\ Instr(a).on = j
      BY <1>1, <1>3 DEF j
    <3> QED
      BY <1>3, <1>4, <3>1
  <2> QED
    BY <1>5, <2>1, <2>2 DEF IsAlive
<1> QED
  BY <1>6 DEF Alive

LEMMA AliveRun ==
  ASSUME AwaitInv, queue # <<>>, queue' = Tail(queue), UNCHANGED <<script, at, timers>>,
         phase'[Head(queue)] = "ready",
         \A b \in Activities \ {Head(queue)} :
           /\ phase'[b] \in {"unstarted", "over"} <=> phase[b] \in {"unstarted", "over"}
           /\ phase'[b] = "submitting" <=> phase[b] = "submitting"
  PROVE  Alive' = Alive
<1>0. PICK h : h = Head(queue)
  OBVIOUS
<1>1. queue \in Seq(Jobs)
  BY DEF AwaitInv, Shapes
<1>2. h \in Jobs /\ h \in Activities /\ \E n \in DOMAIN queue : queue[n] = h
  BY <1>0, <1>1, Beheaded DEF Activities
<1>3. phase[h] = "unstarted"
  BY <1>0, QueuedAreUnstarted
<1>4. \A l \in Jobs \ {h} :
           (\E n \in DOMAIN queue' : queue'[n] = l) <=> (\E n \in DOMAIN queue : queue[n] = l)
  BY <1>0, QueueShrunk DEF AwaitInv
<1>5. \A b \in Activities : /\ Instr(b)' = Instr(b)
                            /\ phase'[b] = "submitting" <=> phase[b] = "submitting"
  BY <1>0, <1>3 DEF Instr
<1>6. ASSUME NEW l \in Jobs \ {h} PROVE IsAlive(l)' <=> IsAlive(l)
  <2>1. phase'[l] \notin {"unstarted", "over"} <=> phase[l] \notin {"unstarted", "over"}
    BY <1>0 DEF Activities
  <2>2. (\E b \in Activities : phase'[b] = "submitting" /\ Instr(b)'.on = l)
        <=> (\E b \in Activities : phase[b] = "submitting" /\ Instr(b).on = l)
    BY <1>5
  <2> QED
    BY <1>4, <2>1, <2>2 DEF IsAlive
<1>7. IsAlive(h)
  BY <1>2 DEF IsAlive
<1>8. IsAlive(h)'
  BY <1>0 DEF IsAlive
<1> QED
  BY <1>6, <1>7, <1>8 DEF Alive

LEMMA AliveFired ==
  ASSUME AwaitInv, NEW j \in Jobs, TimerFires(j)
  PROVE  Alive' = Alive
<1>1. /\ j \in timers /\ timers' = timers \ {j} /\ queue' = Append(queue, j)
      /\ UNCHANGED <<script, at, phase>>
  BY DEF TimerFires
<1>2. \A l \in Jobs : ((\E n \in DOMAIN queue' : queue'[n] = l) \/ l \in timers')
                     <=> (\E n \in DOMAIN queue : queue[n] = l) \/ l \in timers
  BY <1>1, QueueGrown DEF AwaitInv
<1>3. ASSUME NEW l \in Jobs PROVE IsAlive(l)' <=> IsAlive(l)
  <2>1. \A b \in Activities : Instr(b)' = Instr(b)
    BY <1>1 DEF Instr
  <2>2. (\E b \in Activities : phase'[b] = "submitting" /\ Instr(b)'.on = l)
        <=> (\E b \in Activities : phase[b] = "submitting" /\ Instr(b).on = l)
    BY <1>1, <2>1
  <2> QED
    BY <1>1, <1>2, <2>2 DEF IsAlive
<1> QED
  BY <1>3 DEF Alive

(* The stacks of the workers.                                               *)
LEMMA WorkersPush ==
  ASSUME Shapes, WorkersRunJobs, NEW t \in Threads, NEW a \in Activities, Nests(t, a),
         a \in Jobs \/ Busy(t)
  PROVE  WorkersRunJobs'
<1>1. stack \in [Threads -> Seq(Activities)] /\ stack' = [stack EXCEPT ![t] = Append(stack[t], a)]
  BY DEF Shapes, Nests
<1>2. stack'[t] = Append(stack[t], a) /\ \A u \in Threads \ {t} : stack'[u] = stack[u]
  BY <1>1
<1>3. /\ stack[t] # <<>> => Append(stack[t], a)[1] = stack[t][1]
      /\ stack[t] = <<>> => Append(stack[t], a)[1] = a
  BY <1>1, Pushed
<1> QED
  BY <1>2, <1>3 DEF WorkersRunJobs, Busy, Threads

LEMMA WorkersPop ==
  ASSUME Shapes, WorkersRunJobs, NEW t \in Threads, Busy(t), Departs(t)
  PROVE  WorkersRunJobs'
<1>1. stack \in [Threads -> Seq(Activities)] /\ stack' = [stack EXCEPT ![t] = Front(stack[t])] /\ stack[t] # <<>>
  BY DEF Shapes, Departs, Busy
<1>2. stack'[t] = Front(stack[t]) /\ \A u \in Threads \ {t} : stack'[u] = stack[u]
  BY <1>1
<1>3. /\ Front(stack[t]) \in Seq(Activities)
      /\ \A i \in DOMAIN Front(stack[t]) : Front(stack[t])[i] = stack[t][i]
  BY <1>1, Popped
<1>4. Front(stack[t]) # <<>> => 1 \in DOMAIN Front(stack[t])
  BY <1>3, LenProperties, EmptySeq
<1>5. stack'[t] # <<>> => stack'[t][1] = stack[t][1]
  BY <1>2, <1>3, <1>4
<1> SUFFICES ASSUME NEW u \in Workers, stack'[u] # <<>> PROVE stack'[u][1] \in Jobs
  BY DEF WorkersRunJobs
<1>6. CASE u = t
  BY <1>1, <1>5, <1>6 DEF WorkersRunJobs
<1>7. CASE u # t
  BY <1>2, <1>7 DEF WorkersRunJobs, Threads
<1> QED
  BY <1>6, <1>7
(* Steps of an activity that stays on its stack and hands nothing over.     *)
LEMMA OutstandingStays ==
  ASSUME AwaitInv, OutstandingInv, NEW a \in Activities, NEW p, NEW n, Becomes(a, p),
         \/ at' = at
         \/ at' = [at EXCEPT ![a] = n],
         UNCHANGED <<script, stack, pool>>, phase[a] \notin {"unstarted", "submitting", "over"},
         p \notin {"unstarted", "submitting", "over"}, idle' \in [Activities -> Int]
  PROVE  OutstandingInv'
<1>1. Alive' = Alive
  BY AliveWhile DEF AwaitInv, pool
<1> QED
  BY <1>1 DEF OutstandingInv, OutstandingExact, WorkersRunJobs, IdleCounts, pool

LEMMA OutstandingThrows ==
  ASSUME AwaitInv, OutstandingInv, NEW a \in Activities, Advances(a) \/ Throws(a),
         UNCHANGED <<script, stack, pool>>, phase[a] \notin {"unstarted", "submitting", "over"},
         idle' \in [Activities -> Int]
  PROVE  OutstandingInv'
<1>1. CASE Advances(a)
  <2>1. at' = [at EXCEPT ![a] = at[a] + 1] /\ Becomes(a, "ready")
    BY <1>1 DEF Advances
  <2> QED
    BY <2>1, OutstandingStays
<1>2. CASE Becomes(a, "throwing") /\ UNCHANGED at
  BY <1>2, OutstandingStays
<1> QED
  BY <1>1, <1>2 DEF Throws

LEMMA OutstandingByItself ==
  ASSUME AwaitInv, OutstandingInv, NEW t \in Threads, NEW a \in Activities,
         \/ Complete(t, a) \/ Fault(t, a) \/ BodyThrows(t, a) \/ Set(t, a) \/ TrySet(t, a) \/ TryGoesOn(t, a)
         \/ Await(t, a) \/ Wait(t, a) \/ Settle(t, a) \/ Sample(t, a)
  PROVE  OutstandingInv'
<1>1. idle \in [Activities -> Int]
  BY DEF OutstandingInv, IdleCounts
<1>2. ASSUME NEW k, Completes(a, k) \/ Faults(a, k), UNCHANGED <<script, stack, pool, waits>>,
             phase[a] \notin {"unstarted", "submitting", "over"}
      PROVE  OutstandingInv'
  <2>1. idle' \in [Activities -> Int]
    BY <1>1, <1>2 DEF waits
  <2>2. CASE Becomes(a, "resuming") /\ UNCHANGED at
    BY <1>2, <2>1, <2>2, OutstandingStays
  <2>3. CASE Throws(a)
    BY <1>2, <2>1, <2>3, OutstandingThrows
  <2> QED
    BY <1>2, <2>2, <2>3 DEF Completes, Faults, Settles
<1>3. ASSUME NEW k, GetsResult(a, k), UNCHANGED <<script, stack, pool, waits>>,
             phase[a] \notin {"unstarted", "submitting", "over"}
      PROVE  OutstandingInv'
  <2>1. idle' \in [Activities -> Int]
    BY <1>1, <1>3 DEF waits
  <2> QED
    BY <1>3, <2>1, OutstandingThrows DEF GetsResult
<1>4. ASSUME NEW p, Becomes(a, p), UNCHANGED <<script, at, stack, pool, waits>>,
             phase[a] \notin {"unstarted", "submitting", "over"}, p \notin {"unstarted", "submitting", "over"}
      PROVE  OutstandingInv'
  <2>1. idle' \in [Activities -> Int]
    BY <1>1, <1>4 DEF waits
  <2> QED
    BY <1>4, <2>1, OutstandingStays
<1>5. CASE Complete(t, a)
  BY <1>2, <1>5 DEF Complete, Runs
<1>6. CASE Fault(t, a)
  <2>1. /\ phase[a] = "throwing" /\ Becomes(a, "resuming") /\ at' = [at EXCEPT ![a] = Len(script[a]) + 1]
        /\ UNCHANGED <<script, stack, pool>> /\ idle' \in [Activities -> Int]
    BY <1>1, <1>6 DEF Fault, Settles, Runs, waits
  <2> QED
    BY <2>1, OutstandingStays
<1>7. CASE BodyThrows(t, a)
  <2>1. phase[a] = "ready" /\ Throws(a) /\ UNCHANGED <<script, stack, pool>> /\ idle' \in [Activities -> Int]
    BY <1>1, <1>7 DEF BodyThrows, Executes, Runs, waits
  <2> QED
    BY <2>1, OutstandingThrows
<1>8. CASE Set(t, a)
  BY <1>2, <1>8 DEF Set, Executes, Runs
<1>9. CASE TrySet(t, a)
  <2>1. phase[a] = "ready" /\ UNCHANGED <<script, stack, pool, waits>> /\ idle' \in [Activities -> Int]
    BY <1>1, <1>9 DEF TrySet, Executes, Runs, waits
  <2>2. CASE Becomes(a, "trying") /\ UNCHANGED at
    BY <1>4, <2>1, <2>2
  <2>3. CASE Advances(a)
    BY <2>1, <2>3, OutstandingThrows
  <2> QED
    BY <1>9, <2>2, <2>3 DEF TrySet
<1>10. CASE TryGoesOn(t, a)
  BY <1>2, <1>10 DEF TryGoesOn, Runs
<1>11. CASE Await(t, a)
  BY <1>3, <1>4, <1>11 DEF Await, Executes, Runs
<1>12. CASE Wait(t, a)
  <2>1. phase[a] = "ready" /\ Becomes(a, "settling") /\ UNCHANGED <<script, at, stack, pool>>
    BY <1>12 DEF Wait, Executes, Runs
  <2>2. idle' \in [Activities -> Int]
    BY <1>1, <1>12 DEF Wait
  <2> QED
    BY <2>1, <2>2, OutstandingStays
<1>13. CASE Settle(t, a)
  BY <1>3, <1>4, <1>13 DEF Settle, Runs
<1>14. CASE Sample(t, a)
  <2>1. /\ phase[a] = "sampling" /\ UNCHANGED <<script, stack, pool>>
        /\ Throws(a) \/ (Becomes(a, "settling") /\ UNCHANGED at)
    BY <1>14 DEF Sample, Runs
  <2>2. idle' \in [Activities -> Int]
    BY <1>1, <1>14 DEF Sample
  <2>3. CASE Throws(a)
    BY <2>1, <2>2, <2>3, OutstandingThrows
  <2>4. CASE Becomes(a, "settling") /\ UNCHANGED at
    BY <2>1, <2>2, <2>4, OutstandingStays
  <2> QED
    BY <1>14, <2>3, <2>4 DEF Sample
<1> QED
  BY <1>5, <1>6, <1>7, <1>8, <1>9, <1>10, <1>11, <1>12, <1>13, <1>14

LEMMA OutstandingHandover ==
  ASSUME AwaitInv, OutstandingInv, NEW t \in Threads, NEW a \in Activities,
         Count(t, a) \/ Submit(t, a) \/ WorkerTakes(t) \/ Help(t, a)
  PROVE  OutstandingInv'
<1>1. idle \in [Activities -> Int] /\ phase \in [Activities -> Phases]
  BY DEF OutstandingInv, IdleCounts, AwaitInv, Shapes
<1>2. CASE Count(t, a)
  <2>1. OutstandingExact'
    BY <1>2, CountedOnce DEF OutstandingInv
  <2>2. UNCHANGED <<stack, idle>>
    BY <1>2 DEF Count, waits
  <2> QED
    BY <2>1, <2>2 DEF OutstandingInv, WorkersRunJobs, IdleCounts
<1>3. CASE Submit(t, a)
  <2>1. UNCHANGED <<stack, outstanding, idle>>
    BY <1>3 DEF Submit, waits
  <2>2. Alive' = Alive
    BY <1>3, AliveHandedOver
  <2> QED
    BY <2>1, <2>2 DEF OutstandingInv, OutstandingExact, WorkersRunJobs, IdleCounts
<1>4. ASSUME RunOne(t), UNCHANGED <<script, at>>, Head(queue) \in Jobs, phase'[Head(queue)] = "ready",
             idle' \in [Activities -> Int],
             \A b \in Activities \ {Head(queue)} :
               /\ phase'[b] \in {"unstarted", "over"} <=> phase[b] \in {"unstarted", "over"}
               /\ phase'[b] = "submitting" <=> phase[b] = "submitting"
      PROVE  OutstandingInv'
  <2>1. queue # <<>> /\ queue' = Tail(queue) /\ Nests(t, Head(queue)) /\ UNCHANGED <<outstanding, timers>>
    BY <1>4 DEF RunOne, StillOutstanding
  <2>2. Alive' = Alive
    BY <1>4, <2>1, AliveRun
  <2>3. WorkersRunJobs'
    BY <1>4, <2>1, WorkersPush DEF OutstandingInv, AwaitInv, Activities
  <2> QED
    BY <1>4, <2>1, <2>2, <2>3 DEF OutstandingInv, OutstandingExact, IdleCounts
<1>5. queue # <<>> => Head(queue) \in Jobs /\ Head(queue) \in Activities /\ phase[Head(queue)] = "unstarted"
  <2>1. queue \in Seq(Jobs)
    BY DEF AwaitInv, Shapes
  <2> QED
    BY <2>1, Beheaded, QueuedAreUnstarted
<1>6. CASE WorkerTakes(t)
  <2>1. /\ RunOne(t) /\ queue # <<>> /\ phase' = [phase EXCEPT ![Head(queue)] = "ready"]
        /\ UNCHANGED <<script, at, idle>>
    BY <1>6 DEF WorkerTakes, RunOne, Becomes, waits
  <2>2. phase'[Head(queue)] = "ready" /\ \A b \in Activities \ {Head(queue)} : phase'[b] = phase[b]
    BY <1>1, <1>5, <2>1
  <2> QED
    BY <1>1, <1>4, <1>5, <2>1, <2>2
<1>7. CASE Help(t, a)
  <2>1. phase[a] = "helping" /\ UNCHANGED <<script, at>>
    BY <1>7 DEF Help, Runs
  <2>2. CASE HelpsHere
    <3>1. /\ RunOne(t) /\ queue # <<>> /\ phase' = [phase EXCEPT ![a] = "settling", ![Head(queue)] = "ready"]
          /\ idle' = [idle EXCEPT ![a] = 0]
      BY <1>7, <2>2 DEF Help, HelpsHere
    <3>2. /\ phase'[Head(queue)] = "ready"
          /\ \A b \in Activities \ {Head(queue)} :
               /\ phase'[b] \in {"unstarted", "over"} <=> phase[b] \in {"unstarted", "over"}
               /\ phase'[b] = "submitting" <=> phase[b] = "submitting"
      BY <1>1, <1>5, <2>1, <3>1
    <3>3. idle' \in [Activities -> Int]
      BY <1>1, <3>1
    <3> QED
      BY <1>4, <1>5, <2>1, <3>1, <3>2, <3>3
  <2>3. CASE ~HelpsHere
    <3>1. Becomes(a, "sampling") /\ UNCHANGED <<stack, pool, idle>>
      BY <1>7, <2>3 DEF Help
    <3> QED
      BY <1>1, <2>1, <3>1, OutstandingStays
  <2> QED
    BY <2>2, <2>3
<1> QED
  BY <1>2, <1>3, <1>6, <1>7
LEMMA OutstandingNested ==
  ASSUME AwaitInv, OutstandingInv, NEW t \in Threads, NEW a \in Activities,
         MainReturn(t) \/ AwaitOnCompleted(t, a) \/ Resume(t, a) \/ Return(t, a) \/ Start(t, a)
  PROVE  OutstandingInv'
<1>1. idle \in [Activities -> Int] /\ phase \in [Activities -> Phases] /\ WorkersRunJobs /\ Shapes
      /\ at \in [Activities -> Nat \ {0}]
  BY DEF OutstandingInv, IdleCounts, AwaitInv, Shapes
<1>2. ASSUME Alive' = Alive, WorkersRunJobs', UNCHANGED <<outstanding, idle>> PROVE OutstandingInv'
  BY <1>2 DEF OutstandingInv, OutstandingExact, IdleCounts
<1>3. CASE MainReturn(t)
  <2>1. /\ Busy(t) /\ phase[Main] = "ready" /\ Departs(t) /\ Becomes(Main, "over")
        /\ UNCHANGED <<script, at, queue, timers, outstanding, idle>> /\ Main \in Activities /\ Main \notin Jobs
    BY <1>3, ActivitiesAssumption DEF MainReturn, Runs, pool, waits, Activities
  <2>2. Alive' = Alive
    BY <1>1, <2>1, AliveWhile
  <2>3. WorkersRunJobs'
    BY <1>1, <2>1, WorkersPop
  <2> QED
    BY <1>2, <2>1, <2>2, <2>3
<1>4. CASE AwaitOnCompleted(t, a)
  <2>1. /\ Busy(t) /\ phase[a] = "registering" /\ UNCHANGED <<script, pool, waits>>
    BY <1>4 DEF AwaitOnCompleted, Runs
  <2>2. CASE Becomes(a, "suspended") /\ Departs(t) /\ UNCHANGED at
    <3>1. Alive' = Alive
      BY <1>1, <2>1, <2>2, AliveWhile DEF pool
    <3>2. WorkersRunJobs'
      BY <1>1, <2>1, <2>2, WorkersPop
    <3> QED
      BY <1>2, <2>1, <3>1, <3>2 DEF pool, waits
  <2>3. CASE GetsResult(a, Instr(a).on) /\ UNCHANGED stack
    BY <1>1, <2>1, <2>3, OutstandingThrows DEF GetsResult, waits
  <2> QED
    BY <1>4, <2>2, <2>3 DEF AwaitOnCompleted
<1>5. CASE Resume(t, a)
  <2>1. /\ Busy(t) /\ taken[a] # <<>> /\ Nests(t, Head(taken[a])) /\ Becomes(Head(taken[a]), "ready")
        /\ UNCHANGED <<script, at, pool, waits>>
    BY <1>5 DEF Resume, Runs
  <2>2. Head(taken[a]) \in Activities /\ phase[Head(taken[a])] = "suspended"
    BY <2>1, HeadsAreSuspended
  <2>3. Alive' = Alive
    BY <1>1, <2>1, <2>2, AliveWhile DEF pool
  <2>4. WorkersRunJobs'
    BY <1>1, <2>1, <2>2, WorkersPush
  <2> QED
    BY <1>2, <2>1, <2>3, <2>4 DEF pool, waits
<1>6. CASE Return(t, a)
  <2>1. /\ Busy(t) /\ phase[a] = "resuming" /\ UNCHANGED <<script, queue, timers, idle>>
    BY <1>6 DEF Return, Runs, waits
  <2>2. CASE ~AtEnd(a)
    <3>1. Advances(a) /\ UNCHANGED <<script, stack, pool>> /\ idle' \in [Activities -> Int]
      BY <1>1, <1>6, <2>1, <2>2 DEF Return, pool
    <3> QED
      BY <2>1, <3>1, OutstandingThrows
  <2>3. CASE AtEnd(a)
    <3>1. Departs(t) /\ Becomes(a, "over") /\ UNCHANGED at
      BY <1>6, <2>3 DEF Return
    <3>2. WorkersRunJobs'
      BY <1>1, <2>1, <3>1, WorkersPop
    <3>3. CASE a \in Jobs
      <4>1. OutstandingExact'
        BY <1>6, <2>3, <3>3, UncountedOnce DEF OutstandingInv
      <4> QED
        BY <1>1, <2>1, <3>2, <4>1 DEF OutstandingInv, IdleCounts
    <3>4. CASE a \notin Jobs
      <4>1. Alive' = Alive
        BY <1>1, <2>1, <3>1, <3>4, AliveWhile
      <4>2. UNCHANGED outstanding
        BY <1>6, <2>3, <3>4 DEF Return
      <4> QED
        BY <1>2, <2>1, <3>2, <4>1, <4>2
    <3> QED
      BY <3>3, <3>4
  <2> QED
    BY <2>2, <2>3
<1>7. CASE Start(t, a)
  <2> DEFINE m == Instr(a).on
  <2>1. /\ Busy(t) /\ phase[a] = "ready" /\ ~AtEnd(a) /\ Instr(a).op = "call" /\ Nests(t, m)
        /\ at' = [at EXCEPT ![a] = @ + 1] /\ phase' = [phase EXCEPT ![m] = "ready"]
        /\ UNCHANGED <<script, pool, waits>>
    BY <1>7 DEF Start, Executes, Runs, Becomes
  <2>2. m \in Activities /\ phase[m] = "unstarted" /\ m \in Asyncs /\ m \notin Jobs
    BY <1>1, <2>1, Operands, AboutToBegin, ActivitiesAssumption DEF Begins, Activities, AwaitInv
  <2> HIDE DEF m
  <2>3. /\ \A b \in Activities \ {a} : at'[b] = at[b]
        /\ phase'[m] = "ready" /\ \A b \in Activities \ {m} : phase'[b] = phase[b]
    BY <1>1, <2>1, <2>2
  <2>4. Alive' = Alive
    <3>1. \A b \in Activities : phase'[b] = "submitting" <=> phase[b] = "submitting"
      BY <2>2, <2>3
    <3>2. \A b \in Activities : phase[b] = "submitting" => at'[b] = at[b]
      BY <2>1, <2>3
    <3>3. \A j \in Jobs : phase'[j] \in {"unstarted", "over"} <=> phase[j] \in {"unstarted", "over"}
      BY <2>2, <2>3 DEF Activities
    <3> QED
      BY <2>1, <3>1, <3>2, <3>3, AliveStays DEF pool
  <2>5. WorkersRunJobs'
    BY <1>1, <2>1, <2>2, WorkersPush
  <2> QED
    BY <1>2, <2>1, <2>4, <2>5 DEF pool, waits
<1> QED
  BY <1>3, <1>4, <1>5, <1>6, <1>7

LEMMA OutstandingInit == Init => OutstandingInv
<1> SUFFICES ASSUME Init PROVE OutstandingInv
  OBVIOUS
<1>1. Alive = {}
  <2>1. DOMAIN queue = {} /\ timers = {}
    BY DEF Init
  <2>2. \A j \in Jobs : phase[j] = "unstarted"
    BY ActivitiesAssumption DEF Init, Activities
  <2>3. \A a \in Activities : phase[a] # "submitting"
    BY DEF Init
  <2> QED
    BY <2>1, <2>2, <2>3 DEF Alive, IsAlive
<1>2. Cardinality({}) = 0
  BY FS_EmptySet
<1>3. OutstandingExact
  BY <1>1, <1>2 DEF Init, OutstandingExact
<1>4. WorkersRunJobs /\ IdleCounts
  BY ActivitiesAssumption DEF Init, WorkersRunJobs, IdleCounts, Threads
<1> QED
  BY <1>3, <1>4 DEF OutstandingInv

LEMMA OutstandingNext == AwaitInv /\ OutstandingInv /\ [Next]_vars => OutstandingInv'
<1> SUFFICES ASSUME AwaitInv, OutstandingInv, [Next]_vars PROVE OutstandingInv'
  OBVIOUS
<1>1. CASE UNCHANGED vars
  <2>1. UNCHANGED <<script, at, phase, stack, queue, timers, outstanding, idle>>
    BY <1>1 DEF vars, pool, waits
  <2>2. Alive' = Alive
    BY <2>1, AliveStays
  <2> QED
    BY <2>1, <2>2 DEF OutstandingInv, OutstandingExact, WorkersRunJobs, IdleCounts
<1>2. ASSUME NEW j \in Jobs, TimerFires(j) PROVE OutstandingInv'
  <2>1. UNCHANGED <<stack, outstanding, idle>>
    BY <1>2 DEF TimerFires, waits
  <2>2. Alive' = Alive
    BY <1>2, AliveFired
  <2> QED
    BY <2>1, <2>2 DEF OutstandingInv, OutstandingExact, WorkersRunJobs, IdleCounts
<1>3. ASSUME NEW t \in Threads, Step(t) PROVE OutstandingInv'
  <2>1. Main \in Activities
    BY DEF Activities
  <2>2. CASE WorkerTakes(t)
    BY <2>1, <2>2, OutstandingHandover
  <2>3. CASE MainReturn(t)
    BY <2>1, <2>3, OutstandingNested
  <2>4. ASSUME NEW a \in Activities, Count(t, a) \/ Submit(t, a) \/ Help(t, a) PROVE OutstandingInv'
    <3>1. Count(t, a) \/ Submit(t, a) \/ WorkerTakes(t) \/ Help(t, a)
      BY <2>4
    <3> QED
      BY <3>1, OutstandingHandover
  <2>5. ASSUME NEW a \in Activities,
               \/ Complete(t, a) \/ Fault(t, a) \/ BodyThrows(t, a) \/ Set(t, a) \/ TrySet(t, a) \/ TryGoesOn(t, a)
               \/ Await(t, a) \/ Wait(t, a) \/ Settle(t, a) \/ Sample(t, a)
        PROVE  OutstandingInv'
    BY <2>5, OutstandingByItself
  <2>6. ASSUME NEW a \in Activities, AwaitOnCompleted(t, a) \/ Resume(t, a) \/ Return(t, a) \/ Start(t, a)
        PROVE  OutstandingInv'
    <3>1. MainReturn(t) \/ AwaitOnCompleted(t, a) \/ Resume(t, a) \/ Return(t, a) \/ Start(t, a)
      BY <2>6
    <3> QED
      BY <3>1, OutstandingNested
  <2> QED
    BY <1>3, <2>2, <2>3, <2>4, <2>5, <2>6 DEF Step
<1> QED
  BY <1>1, <1>2, <1>3 DEF Next

LEMMA OutstandingHolds == Spec => []OutstandingInv
<1>1. Spec => []AwaitInv
  BY AwaitInvHolds
<1> QED
  BY <1>1, OutstandingInit, OutstandingNext, PTL DEF Spec

(* settle gives up only when the thread that waits is the only one with     *)
(* anything to do: no job is queued, waits for its deadline, is being       *)
(* handed over or has yet to come back, and every worker is idle            *)
(* (tasks.rs:766, "nothing ever will").  So what gives up is on Main's      *)
(* thread, and only what it does next could complete the task.              *)
GivesUpAlone ==
  [][givenUp' # givenUp =>
       /\ queue = <<>> /\ timers = {}
       /\ \A t \in Workers : ~Busy(t)
       /\ \A j \in Jobs : phase[j] \in {"unstarted", "over"}
       /\ \A a \in Activities : phase[a] # "submitting"]_vars

LEMMA NothingOutstanding ==
  ASSUME AwaitInv, OutstandingInv, ~(outstanding > 0)
  PROVE  /\ queue = <<>> /\ timers = {}
         /\ \A t \in Workers : ~Busy(t)
         /\ \A j \in Jobs : phase[j] \in {"unstarted", "over"}
         /\ \A a \in Activities : phase[a] # "submitting"
<1>1. Alive = {}
  <2>1. Cardinality(Alive) = 0
    BY AliveIsFinite DEF OutstandingInv, OutstandingExact
  <2> QED
    BY <2>1, AliveIsFinite, FS_EmptySet
<1>2. \A j \in Jobs : ~IsAlive(j)
  BY <1>1 DEF Alive
<1>3. queue = <<>>
  <2>1. queue \in Seq(Jobs)
    BY DEF AwaitInv, Shapes
  <2>2. queue # <<>> => 1 \in DOMAIN queue /\ queue[1] \in Jobs
    BY <2>1, Beheaded
  <2> QED
    BY <1>2, <2>2 DEF IsAlive
<1>4. timers = {} /\ \A j \in Jobs : phase[j] \in {"unstarted", "over"}
  BY <1>2 DEF IsAlive, AwaitInv, Shapes
<1>5. \A a \in Activities : phase[a] # "submitting"
  <2> SUFFICES ASSUME NEW a \in Activities, phase[a] = "submitting" PROVE FALSE
    OBVIOUS
  <2>1. Instr(a).on \in Jobs
    BY Operands DEF AwaitInv, PhasesFit, Within, Serves
  <2> QED
    BY <1>2, <2>1 DEF IsAlive
<1>6. \A t \in Workers : ~Busy(t)
  <2> SUFFICES ASSUME NEW t \in Workers, stack[t] # <<>> PROVE FALSE
    BY DEF Busy
  <2>1. stack[t][1] \in Jobs
    BY DEF OutstandingInv, WorkersRunJobs
  <2>2. stack[t] \in Seq(Activities) /\ t \in Threads
    BY DEF AwaitInv, Shapes, Threads
  <2>3. 1 \in DOMAIN stack[t]
    BY <2>2, Beheaded
  <2>4. phase[stack[t][1]] \notin Off
    BY <2>2, <2>3 DEF AwaitInv, StacksExact
  <2> QED
    BY <1>4, <2>1, <2>4 DEF Off
<1> QED
  BY <1>3, <1>4, <1>5, <1>6

LEMMA GivesUpStep ==
  ASSUME AwaitInv, OutstandingInv, Next, givenUp' # givenUp
  PROVE  ~(outstanding > 0)
<1>1. ASSUME NEW t \in Threads, NEW a \in Activities, Sample(t, a) PROVE ~(outstanding > 0)
  <2> SUFFICES ASSUME outstanding > 0 PROVE FALSE
    OBVIOUS
  <2>1. idle'[a] = 0
    BY <1>1 DEF Sample, WorkMayStillArrive, OutstandingInv, IdleCounts
  <2>2. ~(idle'[a] >= GivingUp)
    BY <2>1, GivingUpAssumption
  <2> QED
    BY <1>1, <2>2 DEF Sample
<1>2. ASSUME NEW j \in Jobs, TimerFires(j) PROVE FALSE
  BY <1>2 DEF TimerFires, waits
<1>3. ASSUME NEW t \in Threads, WorkerTakes(t) \/ MainReturn(t) PROVE FALSE
  BY <1>3 DEF WorkerTakes, MainReturn, waits
<1>4. ASSUME NEW t \in Threads, NEW a \in Activities,
             \/ Count(t, a) \/ Submit(t, a) \/ Complete(t, a) \/ Fault(t, a) \/ BodyThrows(t, a)
             \/ Set(t, a) \/ TrySet(t, a) \/ TryGoesOn(t, a)
      PROVE  FALSE
  BY <1>4 DEF Count, Submit, Complete, Fault, BodyThrows, Set, TrySet, TryGoesOn, waits
<1>5. ASSUME NEW t \in Threads, NEW a \in Activities,
             \/ Resume(t, a) \/ Return(t, a) \/ Start(t, a) \/ Await(t, a) \/ AwaitOnCompleted(t, a)
             \/ Wait(t, a) \/ Settle(t, a) \/ Help(t, a)
      PROVE  FALSE
  BY <1>5 DEF Resume, Return, Start, Await, AwaitOnCompleted, Wait, Settle, Help, waits
<1> QED
  BY <1>1, <1>2, <1>3, <1>4, <1>5 DEF Next, Step

(* For any scripts, workers and deadlines: the count that settle samples is *)
(* never behind what a job may still complete (pool.rs run_one).            *)
THEOREM WaitersGiveUpAlone == Spec => GivesUpAlone
<1>1. AwaitInv /\ OutstandingInv /\ [Next]_vars =>
        [givenUp' # givenUp =>
           /\ queue = <<>> /\ timers = {}
           /\ \A t \in Workers : ~Busy(t)
           /\ \A j \in Jobs : phase[j] \in {"unstarted", "over"}
           /\ \A a \in Activities : phase[a] # "submitting"]_vars
  BY GivesUpStep, NothingOutstanding
<1> QED
  BY <1>1, AwaitInvHolds, OutstandingHolds, PTL DEF Spec, GivesUpAlone

-----------------------------------------------------------------------------
(* Only Main and jobs block in a wait, Main awaits nothing, and after its   *)
(* first wait Main does nothing that begins or settles a task.              *)
MainWaitsLast ==
  \A s \in Scripts :
    /\ \A a \in Asyncs : \A i \in DOMAIN s[a] : s[a][i].op # "wait"
    /\ \A i \in DOMAIN s[Main] : s[Main][i].op # "await"
    /\ \A i, k \in DOMAIN s[Main] : s[Main][i].op = "wait" /\ i < k => s[Main][k].op \in {"wait", "throw"}

AtTheBottom == \A t \in Threads : \A i \in DOMAIN stack[t] : stack[t][i] = Main => i = 1
MainBeneath == phase[Main] # "suspended" /\ AtTheBottom

(* Nobody but Main has anything to do, now or later.                        *)
Alone == /\ queue = <<>> /\ timers = {}
         /\ \A t \in Threads : \A i \in DOMAIN stack[t] : stack[t][i] = Main

InAWait == {"settling", "helping", "sampling"}
PastWait == \E i \in DOMAIN script[Main] : i <= at[Main] /\ script[Main][i].op = "wait"

(* One idle sample of Main's is enough to be alone, and the task that the   *)
(* next look finds pending stays so.                                        *)
HopelessInv ==
  /\ MainBeneath
  /\ phase[Main] \in InAWait /\ idle[Main] > 0 =>
       Alone /\ (phase[Main] # "settling" => Pending(Instr(Main).on))
  /\ givenUp # {} => Alone /\ PastWait /\ phase[Main] \in InAWait \cup {"ready", "over"}
  /\ GivenUpInVain

LEMMA OnlyMainRuns ==
  ASSUME AwaitInv, Alone, NEW t \in Threads, Busy(t)
  PROVE  Running(t) = Main
<1>1. stack[t] \in Seq(Activities) /\ stack[t] # <<>>
  BY DEF AwaitInv, Shapes, Busy
<1>2. Len(stack[t]) \in DOMAIN stack[t] /\ Last(stack[t]) = stack[t][Len(stack[t])]
  BY <1>1, Popped
<1> QED
  BY <1>2 DEF Alone, Running

LEMMA AfterTheWait ==
  ASSUME AwaitInv, MainWaitsLast, PastWait, ~AtEnd(Main)
  PROVE  Instr(Main).op \in {"wait", "throw"}
<1>1. Main \in Activities /\ script \in Scripts
  BY DEF Activities, AwaitInv, Shapes
<1>2. at[Main] \in DOMAIN script[Main] /\ Instr(Main) = script[Main][at[Main]]
  BY <1>1, Operands DEF AwaitInv
<1>3. PICK i \in DOMAIN script[Main] : i <= at[Main] /\ script[Main][i].op = "wait"
  BY DEF PastWait
<1>4. DOMAIN script[Main] \subseteq Nat /\ at[Main] \in Nat
  BY <1>1, Indices DEF AwaitInv
<1>5. CASE i = at[Main]
  BY <1>2, <1>3, <1>5
<1>6. CASE i < at[Main]
  BY <1>1, <1>2, <1>3, <1>6 DEF MainWaitsLast
<1> QED
  BY <1>3, <1>4, <1>5, <1>6

LEMMA MainAwaitsNothing ==
  ASSUME AwaitInv, MainWaitsLast, ~AtEnd(Main)
  PROVE  Instr(Main).op # "await"
<1>1. Main \in Activities /\ script \in Scripts
  BY DEF Activities, AwaitInv, Shapes
<1>2. at[Main] \in DOMAIN script[Main] /\ Instr(Main) = script[Main][at[Main]]
  BY <1>1, Operands DEF AwaitInv
<1> QED
  BY <1>1, <1>2 DEF MainWaitsLast

LEMMA BottomPushed ==
  ASSUME AwaitInv, AtTheBottom, NEW t \in Threads, NEW m \in Activities \ {Main}, Nests(t, m)
  PROVE  AtTheBottom'
<1>1. stack \in [Threads -> Seq(Activities)] /\ stack' = [stack EXCEPT ![t] = Append(stack[t], m)]
  BY DEF AwaitInv, Shapes, Nests
<1> SUFFICES ASSUME NEW u \in Threads, NEW i \in DOMAIN stack'[u], stack'[u][i] = Main PROVE i = 1
  BY DEF AtTheBottom
<1>2. CASE u # t
  BY <1>1, <1>2 DEF AtTheBottom
<1>3. CASE u = t
  <2>1. stack'[u] = Append(stack[t], m)
    BY <1>1, <1>3
  <2>2. i \in DOMAIN stack[t] /\ stack[t][i] = Main
    BY <1>1, <2>1, Pushed
  <2> QED
    BY <2>2 DEF AtTheBottom
<1> QED
  BY <1>2, <1>3

LEMMA BottomPopped ==
  ASSUME AwaitInv, NEW t \in Threads, Busy(t), Departs(t)
  PROVE  /\ AtTheBottom => AtTheBottom'
         /\ \A u \in Threads : \A i \in DOMAIN stack'[u] : i \in DOMAIN stack[u] /\ stack'[u][i] = stack[u][i]
<1>1. stack \in [Threads -> Seq(Activities)] /\ stack' = [stack EXCEPT ![t] = Front(stack[t])] /\ stack[t] # <<>>
  BY DEF AwaitInv, Shapes, Departs, Busy
<1>2. \A u \in Threads : \A i \in DOMAIN stack'[u] : i \in DOMAIN stack[u] /\ stack'[u][i] = stack[u][i]
  <2> SUFFICES ASSUME NEW u \in Threads, NEW i \in DOMAIN stack'[u]
               PROVE  i \in DOMAIN stack[u] /\ stack'[u][i] = stack[u][i]
    OBVIOUS
  <2>1. CASE u # t
    BY <1>1, <2>1
  <2>2. CASE u = t
    <3>1. stack'[u] = Front(stack[t])
      BY <1>1, <2>2
    <3>2. stack[t] \in Seq(Activities)
      BY <1>1
    <3>3. \A k \in DOMAIN Front(stack[t]) : k \in DOMAIN stack[t] /\ Front(stack[t])[k] = stack[t][k]
      BY <1>1, <3>2, Popped
    <3> QED
      BY <2>2, <3>1, <3>3
  <2> QED
    BY <2>1, <2>2
<1> QED
  BY <1>2 DEF AtTheBottom

(* Whoever else moves leaves Main where it is, and shows that it is not     *)
(* alone.                                                                   *)
LeavesMain == phase'[Main] = phase[Main] /\ idle'[Main] = idle[Main] /\ AtTheBottom'

LEMMA OthersMove ==
  ASSUME AwaitInv, HopelessInv, ~Alone, LeavesMain, givenUp' = givenUp
  PROVE  HopelessInv'
BY DEF HopelessInv, LeavesMain, MainBeneath, GivenUpInVain

LEMMA OthersAlone ==
  ASSUME AwaitInv, AtTheBottom, NEW a \in Activities \ {Main}, NEW p, Becomes(a, p), UNCHANGED <<stack, idle>>
  PROVE  LeavesMain
<1>1. phase' = [phase EXCEPT ![a] = p] /\ phase \in [Activities -> Phases] /\ Main \in Activities
  BY DEF Becomes, AwaitInv, Shapes, Activities
<1> QED
  BY <1>1 DEF LeavesMain, AtTheBottom

LEMMA OthersThrow ==
  ASSUME AwaitInv, AtTheBottom, NEW a \in Activities \ {Main}, UNCHANGED <<stack, idle>>,
         \/ Throws(a)
         \/ Advances(a)
         \/ \E k : Completes(a, k) \/ Faults(a, k) \/ GetsResult(a, k)
         \/ \E k : \E how : Settles(a, k, how)
  PROVE  LeavesMain
<1>1. Throws(a) => \E p : Becomes(a, p)
  BY DEF Throws, Advances
<1>2. Advances(a) => \E p : Becomes(a, p)
  BY DEF Advances
<1>3. \A k, how : Settles(a, k, how) => \E p : Becomes(a, p)
  BY DEF Settles
<1>4. \A k : Completes(a, k) \/ Faults(a, k) \/ GetsResult(a, k) => \E p : Becomes(a, p)
  BY <1>1, <1>2, <1>3 DEF Completes, Faults, GetsResult
<1> QED
  BY <1>1, <1>2, <1>3, <1>4, OthersAlone

LEMMA OthersByThemselves ==
  ASSUME AwaitInv, AtTheBottom, NEW t \in Threads, NEW a \in Activities \ {Main},
         \/ Count(t, a) \/ Submit(t, a) \/ Complete(t, a) \/ Fault(t, a) \/ BodyThrows(t, a)
         \/ Set(t, a) \/ TrySet(t, a) \/ TryGoesOn(t, a) \/ Await(t, a) \/ Settle(t, a)
  PROVE  LeavesMain
<1>1. CASE Count(t, a)
  BY <1>1, OthersAlone DEF Count, waits
<1>2. CASE Submit(t, a)
  BY <1>2, OthersThrow DEF Submit, waits
<1>3. CASE Complete(t, a)
  BY <1>3, OthersThrow DEF Complete, waits
<1>4. CASE Fault(t, a)
  BY <1>4, OthersThrow DEF Fault, waits
<1>5. CASE BodyThrows(t, a)
  BY <1>5, OthersThrow DEF BodyThrows, waits
<1>6. CASE Set(t, a)
  BY <1>6, OthersThrow DEF Set, waits
<1>7. CASE TrySet(t, a)
  BY <1>7, OthersThrow, OthersAlone DEF TrySet, waits
<1>8. CASE TryGoesOn(t, a)
  BY <1>8, OthersThrow DEF TryGoesOn, waits
<1>9. CASE Await(t, a)
  BY <1>9, OthersThrow, OthersAlone DEF Await, waits
<1>10. CASE Settle(t, a)
  BY <1>10, OthersThrow, OthersAlone DEF Settle, waits
<1> QED
  BY <1>1, <1>2, <1>3, <1>4, <1>5, <1>6, <1>7, <1>8, <1>9, <1>10
LEMMA HeadIsAJob ==
  ASSUME AwaitInv, queue # <<>>
  PROVE  Head(queue) \in Jobs
<1>1. queue \in Seq(Jobs)
  BY DEF AwaitInv, Shapes
<1> QED
  BY <1>1, Beheaded

LEMMA OthersNested ==
  ASSUME AwaitInv, IdleCounts, MainBeneath, NEW t \in Threads, NEW a \in Activities \ {Main},
         \/ Resume(t, a) \/ Return(t, a) \/ Start(t, a) \/ AwaitOnCompleted(t, a) \/ Wait(t, a) \/ Help(t, a)
  PROVE  LeavesMain
<1>1. /\ phase \in [Activities -> Phases] /\ Main \in Activities /\ idle \in [Activities -> Int]
      /\ phase[Main] # "suspended" /\ AtTheBottom
  BY DEF AwaitInv, Shapes, Activities, IdleCounts, MainBeneath
<1>2. CASE Resume(t, a)
  <2>1. /\ Head(taken[a]) \in Activities /\ phase[Head(taken[a])] = "suspended" /\ Nests(t, Head(taken[a]))
        /\ phase' = [phase EXCEPT ![Head(taken[a])] = "ready"] /\ idle' = idle
    BY <1>2, HeadsAreSuspended DEF Resume, Becomes, waits
  <2>2. Head(taken[a]) # Main
    BY <1>1, <2>1
  <2> QED
    BY <1>1, <2>1, <2>2, BottomPushed DEF LeavesMain
<1>3. CASE Return(t, a)
  <2>1. Busy(t) /\ idle' = idle /\ (Departs(t) \/ stack' = stack) /\ \E p : Becomes(a, p)
    BY <1>3 DEF Return, Runs, Advances, waits
  <2>2. AtTheBottom'
    BY <1>1, <2>1, BottomPopped DEF AtTheBottom
  <2> QED
    BY <1>1, <2>1, <2>2 DEF LeavesMain, Becomes
<1>4. CASE Start(t, a)
  <2>1. phase[a] = "ready" /\ ~AtEnd(a) /\ Instr(a).op = "call" /\ Nests(t, Instr(a).on)
        /\ phase' = [phase EXCEPT ![Instr(a).on] = "ready"] /\ idle' = idle
    BY <1>4 DEF Start, Executes, Runs, Becomes, waits
  <2>2. Instr(a).on \in Activities \ {Main}
    BY <2>1, Operands, ActivitiesAssumption DEF AwaitInv, Activities
  <2> QED
    BY <1>1, <2>1, <2>2, BottomPushed DEF LeavesMain
<1>5. CASE AwaitOnCompleted(t, a)
  <2>1. Busy(t) /\ idle' = idle /\ (Departs(t) \/ stack' = stack) /\ \E p : Becomes(a, p)
    BY <1>5 DEF AwaitOnCompleted, Runs, GetsResult, Throws, Advances, waits
  <2>2. AtTheBottom'
    BY <1>1, <2>1, BottomPopped DEF AtTheBottom
  <2> QED
    BY <1>1, <2>1, <2>2 DEF LeavesMain, Becomes
<1>6. CASE Wait(t, a)
  <2>1. idle' = [idle EXCEPT ![a] = 0] /\ phase' = [phase EXCEPT ![a] = "settling"] /\ stack' = stack
    BY <1>6 DEF Wait, Becomes
  <2> QED
    BY <1>1, <2>1 DEF LeavesMain, AtTheBottom
<1>7. CASE Help(t, a)
  <2>1. CASE HelpsHere
    <3>1. /\ queue # <<>> /\ Nests(t, Head(queue)) /\ idle' = [idle EXCEPT ![a] = 0]
          /\ phase' = [phase EXCEPT ![a] = "settling", ![Head(queue)] = "ready"]
      BY <1>7, <2>1 DEF Help, HelpsHere, RunOne
    <3>2. Head(queue) \in Activities \ {Main}
      BY <3>1, HeadIsAJob, ActivitiesAssumption DEF Activities
    <3> QED
      BY <1>1, <3>1, <3>2, BottomPushed DEF LeavesMain
  <2>2. CASE ~HelpsHere
    <3>1. Becomes(a, "sampling") /\ stack' = stack /\ idle' = idle
      BY <1>7, <2>2 DEF Help
    <3> QED
      BY <1>1, <3>1 DEF LeavesMain, AtTheBottom, Becomes
  <2> QED
    BY <2>1, <2>2
<1> QED
  BY <1>2, <1>3, <1>4, <1>5, <1>6, <1>7

(* Nobody else's wait is refused.                                           *)
LEMMA OthersSample ==
  ASSUME AwaitInv, OutstandingInv, MainWaitsLast, NEW t \in Threads, NEW a \in Activities \ {Main}, Sample(t, a)
  PROVE  givenUp' = givenUp
<1>1. /\ phase[a] = "sampling" /\ ~AtEnd(a) /\ Instr(a).op = "wait" /\ script \in Scripts
  BY DEF Sample, Runs, AwaitInv, PhasesFit, Serves, Within, Shapes
<1>2. at[a] \in DOMAIN script[a] /\ Instr(a) = script[a][at[a]]
  BY <1>1, Operands DEF AwaitInv
<1>3. a \in Jobs
  BY <1>1, <1>2 DEF MainWaitsLast, Activities
<1>4. outstanding > 0
  BY <1>1, <1>3, NothingOutstanding
<1>5. idle'[a] = 0
  BY <1>4 DEF Sample, WorkMayStillArrive, OutstandingInv, IdleCounts
<1>6. ~(idle'[a] >= GivingUp)
  BY <1>5, GivingUpAssumption
<1> QED
  BY <1>6 DEF Sample

LEMMA OthersSampling ==
  ASSUME AwaitInv, IdleCounts, MainBeneath, NEW t \in Threads, NEW a \in Activities \ {Main}, Sample(t, a)
  PROVE  LeavesMain
<1>1. /\ phase \in [Activities -> Phases] /\ Main \in Activities /\ idle \in [Activities -> Int]
      /\ AtTheBottom
  BY DEF AwaitInv, Shapes, Activities, IdleCounts, MainBeneath
<1>2. stack' = stack /\ idle'[Main] = idle[Main] /\ \E p : Becomes(a, p)
  BY <1>1 DEF Sample, Throws, Advances
<1> QED
  BY <1>1, <1>2 DEF LeavesMain, AtTheBottom, Becomes

-----------------------------------------------------------------------------
(* Main's own steps.                                                        *)

(* None of those that could matter to others comes after a wait.            *)
LEMMA MainActs ==
  ASSUME AwaitInv, MainWaitsLast, HopelessInv, NEW t \in Threads,
         \/ Count(t, Main) \/ Submit(t, Main) \/ Set(t, Main) \/ TrySet(t, Main) \/ TryGoesOn(t, Main)
         \/ Resume(t, Main) \/ Return(t, Main) \/ Start(t, Main) \/ Await(t, Main)
         \/ AwaitOnCompleted(t, Main) \/ Complete(t, Main) \/ Fault(t, Main)
  PROVE  HopelessInv'
<1> DEFINE a == Main
<1>1. /\ phase \in [Activities -> Phases] /\ Main \in Activities
      /\ phase[Main] # "suspended" /\ AtTheBottom
  BY DEF AwaitInv, Shapes, Activities, HopelessInv, MainBeneath
<1>2. /\ phase[Main] \in {"ready", "submitting", "trying", "resuming", "registering", "throwing"}
      /\ phase[Main] = "ready" =>
           ~AtEnd(Main) /\ Instr(Main).op \in {"run", "delay", "set", "fail", "tryset", "tryfail", "call", "await"}
  BY DEF Count, Submit, Set, TrySet, TryGoesOn, Resume, Return, Start, Await, AwaitOnCompleted, Complete,
         Fault, Executes, Runs
<1>3. givenUp = {}
  <2> SUFFICES ASSUME givenUp # {} PROVE FALSE
    OBVIOUS
  <2>1. PastWait /\ phase[Main] = "ready"
    BY <1>2 DEF HopelessInv, InAWait
  <2> QED
    BY <1>2, <2>1, AfterTheWait
<1>4. givenUp' = {}
  BY <1>3 DEF Count, Submit, Set, TrySet, TryGoesOn, Resume, Return, Start, Await, AwaitOnCompleted, Complete,
         Fault, waits
<1>5. phase[Main] # "registering" /\ ~Await(t, Main)
  <2>1. phase[Main] = "registering" \/ Await(t, Main) => ~AtEnd(Main) /\ Instr(Main).op = "await"
    BY <1>1 DEF Await, Executes, AwaitInv, PhasesFit, Serves, Within
  <2> QED
    BY <2>1, MainAwaitsNothing
<1>6. phase'[Main] \notin InAWait \cup {"suspended"} /\ AtTheBottom'
  <2>1. ASSUME UNCHANGED stack, NEW p, Becomes(Main, p), p \notin InAWait \cup {"suspended"}
        PROVE  phase'[Main] \notin InAWait \cup {"suspended"} /\ AtTheBottom'
    BY <1>1, <2>1 DEF Becomes, AtTheBottom
  <2>2. ASSUME UNCHANGED stack, \/ Throws(Main) \/ Advances(Main)
                                \/ \E k : Completes(Main, k) \/ Faults(Main, k)
        PROVE  phase'[Main] \notin InAWait \cup {"suspended"} /\ AtTheBottom'
    <3>1. Becomes(Main, "ready") \/ Becomes(Main, "resuming")
      BY <2>2 DEF Throws, Advances, Completes, Faults, Settles
    <3> QED
      BY <2>1, <2>2, <3>1 DEF InAWait
  <2>3. CASE Count(t, Main)
    BY <2>1, <2>3 DEF Count, InAWait
  <2>4. CASE Submit(t, Main)
    BY <2>2, <2>4 DEF Submit
  <2>5. CASE Set(t, Main)
    BY <2>2, <2>5 DEF Set
  <2>6. CASE TrySet(t, Main)
    BY <2>1, <2>2, <2>6 DEF TrySet, InAWait
  <2>7. CASE TryGoesOn(t, Main)
    BY <2>2, <2>7 DEF TryGoesOn
  <2>8. CASE Resume(t, Main)
    <3>1. /\ Head(taken[Main]) \in Activities /\ phase[Head(taken[Main])] = "suspended" /\ Nests(t, Head(taken[Main]))
          /\ phase' = [phase EXCEPT ![Head(taken[Main])] = "ready"] /\ phase[Main] = "resuming"
      BY <2>8, <1>1, HeadsAreSuspended DEF Resume, Becomes, Runs
    <3>2. Head(taken[Main]) # Main
      BY <1>1, <3>1
    <3>3. AtTheBottom'
      BY <1>1, <3>1, <3>2, BottomPushed
    <3> QED
      BY <1>1, <3>1, <3>2, <3>3 DEF InAWait
  <2>9. CASE Return(t, Main)
    <3>1. Becomes(Main, "over") \/ Becomes(Main, "ready")
      BY <2>9 DEF Return, Advances
    <3>2. Busy(t) /\ (Departs(t) \/ stack' = stack)
      BY <2>9 DEF Return, Runs
    <3>3. AtTheBottom'
      BY <1>1, <3>2, BottomPopped DEF AtTheBottom
    <3> QED
      BY <1>1, <3>1, <3>3 DEF Becomes, InAWait
  <2>10. CASE Start(t, Main)
    <3>1. phase[Main] = "ready" /\ ~AtEnd(Main) /\ Instr(Main).op = "call" /\ Nests(t, Instr(Main).on)
          /\ phase' = [phase EXCEPT ![Instr(Main).on] = "ready"]
      BY <2>10 DEF Start, Executes, Runs, Becomes
    <3>2. Instr(Main).on \in Activities \ {Main}
      BY <1>1, <3>1, Operands, ActivitiesAssumption DEF AwaitInv, Activities
    <3>3. AtTheBottom'
      BY <1>1, <3>1, <3>2, BottomPushed
    <3> QED
      BY <1>1, <3>1, <3>2, <3>3 DEF InAWait
  <2>11. CASE AwaitOnCompleted(t, Main)
    BY <1>5, <2>11 DEF AwaitOnCompleted, Runs
  <2>12. CASE Complete(t, Main)
    BY <2>12 DEF Complete
  <2>13. CASE Fault(t, Main)
    BY <1>1, <2>13 DEF Fault, Runs, AwaitInv, PhasesFit
  <2> QED
    BY <1>5, <2>3, <2>4, <2>5, <2>6, <2>7, <2>8, <2>9, <2>10, <2>11, <2>12, <2>13
<1> QED
  BY <1>4, <1>6 DEF HopelessInv, MainBeneath, GivenUpInVain

(* Main goes on to its next operation.                                      *)
LEMMA MainGoesOn ==
  ASSUME AwaitInv, HopelessInv, Advances(Main), UNCHANGED <<script, stack, progress, queue, timers>>,
         givenUp' # {} => Alone /\ PastWait, \A k \in givenUp' : Pending(k)
  PROVE  HopelessInv'
<1>1. /\ phase \in [Activities -> Phases] /\ at \in [Activities -> Nat \ {0}] /\ Main \in Activities
      /\ DOMAIN script[Main] \subseteq Nat
  BY Indices DEF AwaitInv, Shapes, Activities
<1>2. phase'[Main] = "ready" /\ at'[Main] = at[Main] + 1 /\ at[Main] \in Nat
  BY <1>1 DEF Advances, Becomes
<1>3. PastWait => PastWait'
  BY <1>1, <1>2 DEF PastWait
<1>4. Alone => Alone'
  BY DEF Alone
<1>5. MainBeneath'
  BY <1>2 DEF HopelessInv, MainBeneath, AtTheBottom
<1> QED
  BY <1>2, <1>3, <1>4, <1>5 DEF HopelessInv, InAWait, GivenUpInVain, Pending

LEMMA MainThrows ==
  ASSUME AwaitInv, HopelessInv, NEW t \in Threads, BodyThrows(t, Main)
  PROVE  HopelessInv'
<1>1. Advances(Main) /\ UNCHANGED <<script, stack, progress, queue, timers, givenUp>>
  BY DEF BodyThrows, Throws, tasks, pool, waits
<1> QED
  BY <1>1, MainGoesOn DEF HopelessInv, GivenUpInVain

LEMMA MainWaits ==
  ASSUME AwaitInv, IdleCounts, HopelessInv, NEW t \in Threads, Wait(t, Main)
  PROVE  HopelessInv'
<1>1. /\ phase \in [Activities -> Phases] /\ idle \in [Activities -> Int] /\ Main \in Activities
  BY DEF AwaitInv, Shapes, Activities, IdleCounts
<1>2. /\ phase' = [phase EXCEPT ![Main] = "settling"] /\ idle' = [idle EXCEPT ![Main] = 0]
      /\ UNCHANGED <<script, at, stack, progress, queue, timers, givenUp>>
  BY DEF Wait, Becomes, tasks, pool
<1>3. phase'[Main] = "settling" /\ idle'[Main] = 0
  BY <1>1, <1>2
<1>4. MainBeneath' /\ (Alone => Alone') /\ (PastWait => PastWait') /\ GivenUpInVain'
  BY <1>2, <1>3 DEF HopelessInv, MainBeneath, AtTheBottom, Alone, PastWait, GivenUpInVain, Pending
<1> QED
  BY <1>2, <1>3, <1>4 DEF HopelessInv, InAWait

LEMMA MainSettles ==
  ASSUME AwaitInv, HopelessInv, NEW t \in Threads, Settle(t, Main)
  PROVE  HopelessInv'
<1>1. /\ phase \in [Activities -> Phases] /\ Main \in Activities /\ phase[Main] = "settling"
      /\ UNCHANGED <<script, stack, progress, queue, timers, idle, givenUp>>
  BY DEF AwaitInv, Shapes, Activities, Settle, Runs, tasks, pool, waits
<1>2. CASE Pending(Instr(Main).on) /\ Becomes(Main, "helping") /\ UNCHANGED at
  <2>1. phase'[Main] = "helping" /\ Pending(Instr(Main).on)'
    BY <1>1, <1>2 DEF Becomes, Pending, Instr
  <2>2. MainBeneath' /\ (Alone => Alone') /\ (PastWait => PastWait') /\ GivenUpInVain'
    BY <1>1, <1>2, <2>1 DEF HopelessInv, MainBeneath, AtTheBottom, Alone, PastWait, GivenUpInVain, Pending
  <2> QED
    BY <1>1, <2>1, <2>2 DEF HopelessInv, InAWait
<1>3. CASE GetsResult(Main, Instr(Main).on)
  <2>1. Advances(Main)
    BY <1>3 DEF GetsResult, Throws
  <2> QED
    BY <1>1, <2>1, MainGoesOn DEF HopelessInv, GivenUpInVain
<1> QED
  BY <1>2, <1>3 DEF Settle

LEMMA MainHelps ==
  ASSUME AwaitInv, IdleCounts, HopelessInv, NEW t \in Threads, Help(t, Main)
  PROVE  HopelessInv'
<1>1. /\ phase \in [Activities -> Phases] /\ Main \in Activities /\ phase[Main] = "helping"
      /\ idle \in [Activities -> Int] /\ UNCHANGED <<script, at, progress, givenUp>>
  BY DEF AwaitInv, Shapes, Activities, IdleCounts, Help, Runs, tasks
<1>2. CASE HelpsHere
  <2>1. /\ queue # <<>> /\ Nests(t, Head(queue)) /\ idle' = [idle EXCEPT ![Main] = 0]
        /\ phase' = [phase EXCEPT ![Main] = "settling", ![Head(queue)] = "ready"]
    BY <1>2 DEF Help, HelpsHere, RunOne
  <2>2. Head(queue) \in Activities \ {Main}
    BY <2>1, HeadIsAJob, ActivitiesAssumption DEF Activities
  <2>3. phase'[Main] = "settling" /\ idle'[Main] = 0
    BY <1>1, <2>1, <2>2
  <2>4. givenUp = {}
    BY <2>1 DEF HopelessInv, Alone
  <2>5. AtTheBottom'
    BY <2>1, <2>2, BottomPushed DEF HopelessInv, MainBeneath
  <2> QED
    BY <1>1, <2>3, <2>4, <2>5 DEF HopelessInv, MainBeneath, GivenUpInVain
<1>3. CASE ~HelpsHere
  <2>1. Becomes(Main, "sampling") /\ UNCHANGED <<stack, queue, timers, idle>>
    BY <1>3 DEF Help, pool
  <2>2. phase'[Main] = "sampling" /\ (Pending(Instr(Main).on) => Pending(Instr(Main).on)')
    BY <1>1, <2>1 DEF Becomes, Pending, Instr
  <2>3. MainBeneath' /\ (Alone => Alone') /\ (PastWait => PastWait') /\ GivenUpInVain'
    BY <1>1, <2>1, <2>2 DEF HopelessInv, MainBeneath, AtTheBottom, Alone, PastWait, GivenUpInVain, Pending
  <2> QED
    BY <1>1, <2>1, <2>2, <2>3 DEF HopelessInv, InAWait
<1> QED
  BY <1>2, <1>3

(* An idle sample: Main is alone, because it is the only activity of its    *)
(* thread that could have been beneath.                                     *)
LEMMA MainIsAlone ==
  ASSUME AwaitInv, OutstandingInv, AtTheBottom, NEW t \in Threads, Busy(t), Running(t) = Main,
         ~(outstanding > 0)
  PROVE  Alone
<1>1. queue = <<>> /\ timers = {} /\ \A u \in Workers : ~Busy(u)
  BY NothingOutstanding
<1>2. stack[t] \in Seq(Activities) /\ stack[t] # <<>> /\ t = MainThread
  BY <1>1 DEF AwaitInv, Shapes, Busy, Threads
<1>3. Len(stack[t]) \in DOMAIN stack[t] /\ stack[t][Len(stack[t])] = Main
  BY <1>2, Popped DEF Running
<1>4. Len(stack[t]) = 1 /\ DOMAIN stack[t] = 1 .. Len(stack[t])
  BY <1>2, <1>3, LenProperties DEF AtTheBottom
<1>5. \A i \in DOMAIN stack[t] : stack[t][i] = Main
  BY <1>3, <1>4
<1>6. \A u \in Threads : u # t => stack[u] = <<>>
  BY <1>1, <1>2 DEF Threads, Busy
<1>7. DOMAIN <<>> = {}
  OBVIOUS
<1> QED
  BY <1>1, <1>5, <1>6, <1>7 DEF Alone

LEMMA MainSamples ==
  ASSUME AwaitInv, OutstandingInv, HopelessInv, GivingUp > 1, NEW t \in Threads, Sample(t, Main)
  PROVE  HopelessInv'
<1>1. /\ phase \in [Activities -> Phases] /\ Main \in Activities /\ phase[Main] = "sampling"
      /\ idle \in [Activities -> Int] /\ Busy(t) /\ Running(t) = Main
      /\ UNCHANGED <<script, stack, progress, queue, timers>>
  BY DEF AwaitInv, Shapes, Activities, OutstandingInv, IdleCounts, Sample, Runs, tasks, pool
<1>2. /\ ~AtEnd(Main) /\ Instr(Main).op = "wait" /\ at[Main] \in DOMAIN script[Main]
      /\ Instr(Main) = script[Main][at[Main]] /\ at[Main] \in Nat
  BY <1>1, Operands, Indices DEF AwaitInv, PhasesFit, Serves, Within
<1>3. PastWait
  BY <1>2 DEF PastWait
<1>4. idle'[Main] = IF outstanding > 0 THEN 0 ELSE idle[Main] + 1
  BY <1>1 DEF Sample, WorkMayStillArrive
<1>5. ~(outstanding > 0) => Alone
  BY <1>1, MainIsAlone DEF HopelessInv, MainBeneath
<1>6. CASE idle'[Main] >= GivingUp
  <2>1. ~(outstanding > 0) /\ idle[Main] > 0
    BY <1>1, <1>4, <1>6, GivingUpAssumption
  <2>2. givenUp' = givenUp \cup {Instr(Main).on} /\ Advances(Main)
    BY <1>6 DEF Sample, Throws
  <2>3. Pending(Instr(Main).on)
    BY <1>1, <2>1 DEF HopelessInv, InAWait
  <2> QED
    BY <1>1, <1>3, <1>5, <2>1, <2>2, <2>3, MainGoesOn DEF HopelessInv, GivenUpInVain
<1>7. CASE ~(idle'[Main] >= GivingUp)
  <2>1. phase' = [phase EXCEPT ![Main] = "settling"] /\ UNCHANGED <<at, givenUp>>
    BY <1>7 DEF Sample, Becomes
  <2>2. phase'[Main] = "settling"
    BY <1>1, <2>1
  <2>3. MainBeneath' /\ (Alone => Alone') /\ (PastWait => PastWait') /\ GivenUpInVain'
    BY <1>1, <2>1, <2>2 DEF HopelessInv, MainBeneath, AtTheBottom, Alone, PastWait, GivenUpInVain, Pending
  <2> QED
    BY <1>4, <1>5, <2>1, <2>2, <2>3 DEF HopelessInv, InAWait
<1> QED
  BY <1>6, <1>7

LEMMA MainEnds ==
  ASSUME AwaitInv, HopelessInv, NEW t \in Threads, MainReturn(t)
  PROVE  HopelessInv'
<1>1. /\ phase \in [Activities -> Phases] /\ Main \in Activities /\ Busy(t) /\ Departs(t)
      /\ phase' = [phase EXCEPT ![Main] = "over"]
      /\ UNCHANGED <<script, at, progress, queue, timers, givenUp>>
  BY DEF AwaitInv, Shapes, Activities, MainReturn, Runs, Becomes, tasks, pool, waits
<1>2. phase'[Main] = "over"
  BY <1>1
<1>3. AtTheBottom' /\ (Alone => Alone')
  BY <1>1, BottomPopped DEF HopelessInv, MainBeneath, Alone
<1> QED
  BY <1>1, <1>2, <1>3 DEF HopelessInv, MainBeneath, InAWait, PastWait, GivenUpInVain, Pending

-----------------------------------------------------------------------------
LEMMA HopelessInit == Init => HopelessInv
<1> SUFFICES ASSUME Init PROVE HopelessInv
  OBVIOUS
<1>1. Main \in Activities /\ givenUp = {} /\ phase[Main] = "ready"
  BY DEF Init, Activities
<1>2. AtTheBottom
  <2> SUFFICES ASSUME NEW t \in Threads, NEW i \in DOMAIN stack[t] PROVE i = 1
    BY DEF AtTheBottom
  <2>1. stack[t] = <<Main>> \/ stack[t] = <<>>
    BY DEF Init
  <2> QED
    BY <2>1
<1> QED
  BY <1>1, <1>2 DEF HopelessInv, MainBeneath, InAWait, GivenUpInVain

LEMMA HopelessNext ==
  ASSUME MainWaitsLast, GivingUp > 1, AwaitInv, OutstandingInv, HopelessInv, [Next]_vars
  PROVE  HopelessInv'
<1>1. CASE UNCHANGED vars
  BY <1>1 DEF vars, tasks, pool, waits, HopelessInv, MainBeneath, AtTheBottom, Alone, PastWait, GivenUpInVain,
              Pending, Instr
<1>2. MainBeneath /\ AtTheBottom /\ IdleCounts
  BY DEF HopelessInv, MainBeneath, OutstandingInv
<1>3. ASSUME NEW j \in Jobs, TimerFires(j) PROVE HopelessInv'
  <2>1. ~Alone /\ LeavesMain /\ givenUp' = givenUp
    BY <1>2, <1>3 DEF TimerFires, Alone, LeavesMain, AtTheBottom, waits
  <2> QED
    BY <2>1, OthersMove
<1>4. ASSUME NEW t \in Threads, WorkerTakes(t) PROVE HopelessInv'
  <2>1. /\ queue # <<>> /\ Nests(t, Head(queue)) /\ phase' = [phase EXCEPT ![Head(queue)] = "ready"]
        /\ UNCHANGED <<idle, givenUp>>
    BY <1>4 DEF WorkerTakes, RunOne, Becomes, waits
  <2>2. Head(queue) \in Activities \ {Main} /\ phase \in [Activities -> Phases] /\ Main \in Activities
    BY <2>1, HeadIsAJob, ActivitiesAssumption DEF Activities, AwaitInv, Shapes
  <2>3. AtTheBottom'
    BY <1>2, <2>1, <2>2, BottomPushed
  <2> QED
    BY <2>1, <2>2, <2>3, OthersMove DEF Alone, LeavesMain
<1>5. ASSUME NEW t \in Threads, MainReturn(t) PROVE HopelessInv'
  BY <1>5, MainEnds
<1>6. ASSUME NEW t \in Threads, NEW a \in Activities \ {Main},
             \/ Count(t, a) \/ Submit(t, a) \/ Complete(t, a) \/ Fault(t, a) \/ BodyThrows(t, a)
             \/ Set(t, a) \/ TrySet(t, a) \/ TryGoesOn(t, a)
             \/ Resume(t, a) \/ Return(t, a) \/ Start(t, a) \/ Await(t, a) \/ AwaitOnCompleted(t, a)
             \/ Wait(t, a) \/ Settle(t, a) \/ Help(t, a) \/ Sample(t, a)
      PROVE  HopelessInv'
  <2>1. ~Alone
    <3>1. Busy(t) /\ Running(t) = a
      BY <1>6 DEF Count, Submit, Complete, Fault, BodyThrows, Set, TrySet, TryGoesOn, Resume, Return, Start, Await,
                  AwaitOnCompleted, Wait, Settle, Help, Sample, Executes, Runs
    <3> QED
      BY <3>1, OnlyMainRuns
  <2>2. CASE Sample(t, a)
    BY <1>2, <2>1, <2>2, OthersSample, OthersSampling, OthersMove
  <2>3. CASE \/ Count(t, a) \/ Submit(t, a) \/ Complete(t, a) \/ Fault(t, a) \/ BodyThrows(t, a)
             \/ Set(t, a) \/ TrySet(t, a) \/ TryGoesOn(t, a) \/ Await(t, a) \/ Settle(t, a)
    <3>1. LeavesMain
      BY <1>2, <2>3, OthersByThemselves
    <3>2. givenUp' = givenUp
      BY <2>3 DEF Count, Submit, Complete, Fault, BodyThrows, Set, TrySet, TryGoesOn, Await, Settle, waits
    <3> QED
      BY <2>1, <3>1, <3>2, OthersMove
  <2>4. CASE \/ Resume(t, a) \/ Return(t, a) \/ Start(t, a) \/ AwaitOnCompleted(t, a) \/ Wait(t, a) \/ Help(t, a)
    <3>1. LeavesMain
      BY <1>2, <2>4, OthersNested
    <3>2. givenUp' = givenUp
      BY <2>4 DEF Resume, Return, Start, AwaitOnCompleted, Wait, Help, waits
    <3> QED
      BY <2>1, <3>1, <3>2, OthersMove
  <2> QED
    BY <1>6, <2>2, <2>3, <2>4
<1>7. ASSUME NEW t \in Threads,
             \/ Count(t, Main) \/ Submit(t, Main) \/ Complete(t, Main) \/ Fault(t, Main) \/ BodyThrows(t, Main)
             \/ Set(t, Main) \/ TrySet(t, Main) \/ TryGoesOn(t, Main)
             \/ Resume(t, Main) \/ Return(t, Main) \/ Start(t, Main) \/ Await(t, Main) \/ AwaitOnCompleted(t, Main)
             \/ Wait(t, Main) \/ Settle(t, Main) \/ Help(t, Main) \/ Sample(t, Main)
      PROVE  HopelessInv'
  BY <1>2, <1>7, MainActs, MainThrows, MainWaits, MainSettles, MainHelps, MainSamples
<1>8. ASSUME NEW t \in Threads, Step(t) PROVE HopelessInv'
  BY <1>4, <1>5, <1>6, <1>7, <1>8 DEF Step
<1> QED
  BY <1>1, <1>3, <1>8 DEF Next

(* A wait is refused only in vain (settle, tasks.rs:766): where Main and    *)
(* jobs are the ones to block, and Main, refused, neither begins nor        *)
(* settles anything, what was given up on never completes.  One sample      *)
(* would not do: the task may settle between the look and the sample.       *)
THEOREM RefusedInVain ==
  ASSUME MainWaitsLast, GivingUp > 1
  PROVE  Spec => []GivenUpInVain
<1>1. AwaitInv /\ OutstandingInv /\ HopelessInv /\ [Next]_vars => HopelessInv'
  BY HopelessNext
<1>2. HopelessInv => GivenUpInVain
  BY DEF HopelessInv
<1> QED
  BY <1>1, <1>2, HopelessInit, AwaitInvHolds, OutstandingHolds, PTL DEF Spec
=============================================================================
