------------------------------ MODULE ObjectSpace ------------------------------
(***************************************************************************)
(* rustclr-gc space.rs, handle.rs and collector.rs: the slot table, its    *)
(* generation-checked handles, and mark-and-sweep over it.                 *)
(*                                                                         *)
(* The heap sits behind one mutex (shared.rs) and a collection keeps it    *)
(* from start to end, so the program moves only while `phase` is "idle".   *)
(* A collection is taken apart into the iterations of its two loops.  The  *)
(* worklist is a set: MarkSweep::collect's order and repetitions change    *)
(* nothing, since marking a slot twice is refused.                         *)
(***************************************************************************)
EXTENDS Integers, Sequences, FiniteSets

CONSTANTS Roots,      \* places the root set publishes: frames, statics, handles
          Strays,     \* places it does not: native code, a queued closure
          Fields,     \* reference fields of an object
          MaxSlots,   \* ObjectSpace::limit
          MaxGen,     \* largest generation, 2^32 - 1 in the code
          MaxPins,    \* largest pin count, 2^32 - 1 in the code
          MaxBirths   \* bound on the objects one slot has held

ASSUME BoundsAssumption ==
  /\ MaxSlots \in Nat /\ MaxGen \in Nat \ {0} /\ MaxPins \in Nat
  /\ MaxBirths \in Nat /\ Roots \cap Strays = {}

VARIABLES
  size,        \* slots.len()
  generation,  \* Slot::generation, by slot
  live,        \* the slots whose object is Some
  fields,      \* the references an object holds
  marked,      \* the slots with Slot::marked
  pins,        \* Slot::pins
  free,        \* free_list, popped at its end
  liveCount,   \* live_count
  reg,         \* the handles the program holds, by place
  phase, worklist, at,   \* MarkSweep::collect: loop, worklist, sweep cursor
  births       \* history: objects each slot has held

table == <<size, generation, live, fields, pins, free, liveCount, births>>
collection == <<phase, worklist, at, marked>>
vars == <<table, reg, collection>>

Slots == 1 .. MaxSlots
Places == Roots \cup Strays

(* A handle is an index and a generation.  `birth` is history: which of    *)
(* the slot's objects the handle was made for.  The code has no such field *)
(* and no guard below reads it.                                            *)
Refs == [index : 0 .. MaxSlots, generation : 0 .. MaxGen, birth : 0 .. MaxBirths]
Null == [index |-> 0, generation |-> 0, birth |-> 0]
HandleTo(i) == [index |-> i, generation |-> generation[i], birth |-> births[i]]

TableTypeOK ==
  /\ size \in 0 .. MaxSlots
  /\ generation \in [Slots -> 1 .. MaxGen]
  /\ live \subseteq 1 .. size
  /\ fields \in [Slots -> [Fields -> Refs]]
  /\ pins \in [Slots -> 0 .. MaxPins]
  /\ free \in Seq(1 .. size)
  /\ liveCount \in 0 .. MaxSlots
  /\ births \in [Slots -> 0 .. MaxBirths]

CollectionTypeOK ==
  /\ phase \in {"idle", "marking", "sweeping"}
  /\ worklist \subseteq Refs
  /\ at \in 1 .. MaxSlots + 1
  /\ marked \subseteq Slots

TypeOK == TableTypeOK /\ reg \in [Places -> Refs] /\ CollectionTypeOK

Init ==
  /\ size = 0 /\ live = {} /\ free = <<>> /\ liveCount = 0 /\ marked = {}
  /\ generation = [i \in Slots |-> 1]
  /\ fields = [i \in Slots |-> [f \in Fields |-> Null]]
  /\ pins = [i \in Slots |-> 0] /\ births = [i \in Slots |-> 0]
  /\ reg = [p \in Places |-> Null]
  /\ phase = "idle" /\ worklist = {} /\ at = 1

(* slot(): the handle's slot exists, its generation agrees, it is occupied. *)
Resolves(h) == /\ h.index \in 1 .. size
               /\ generation[h.index] = h.generation
               /\ h.index \in live

-----------------------------------------------------------------------------
(* Allocation *)

(* checked_add(1), falling back to 1 *)
GenerationSaturates(g) == IF g = MaxGen THEN g ELSE g + 1     \* mutant
NextGeneration(g) == IF g = MaxGen THEN 1 ELSE g + 1

Occupy(i, g, p) ==
  /\ generation' = [generation EXCEPT ![i] = g]
  /\ live' = live \cup {i}
  /\ marked' = marked \ {i}
  /\ pins' = [pins EXCEPT ![i] = 0]
  /\ fields' = [fields EXCEPT ![i] = [f \in Fields |-> Null]]
  /\ births' = [births EXCEPT ![i] = @ + 1]
  /\ liveCount' = liveCount + 1
  /\ reg' = [reg EXCEPT ![p] = [index |-> i, generation |-> g, birth |-> births[i] + 1]]

AllocReused(p) ==
  /\ phase = "idle" /\ free # <<>>
  /\ LET i == free[Len(free)] IN
       /\ births[i] < MaxBirths
       /\ free' = SubSeq(free, 1, Len(free) - 1)
       /\ Occupy(i, NextGeneration(generation[i]), p)
  /\ UNCHANGED <<size, phase, worklist, at>>

AllocFresh(p) ==
  /\ phase = "idle" /\ free = <<>> /\ size < MaxSlots /\ births[size + 1] < MaxBirths
  /\ size' = size + 1
  /\ Occupy(size + 1, 1, p)
  /\ UNCHANGED <<free, phase, worklist, at>>

(* try_alloc on a full fixed heap: None *)
AllocFails(p) ==
  /\ phase = "idle" /\ free = <<>> /\ size = MaxSlots
  /\ reg' = [reg EXCEPT ![p] = Null]
  /\ UNCHANGED <<table, collection>>

-----------------------------------------------------------------------------
(* The program: copying handles about, stale ones included, and reaching    *)
(* objects through them.                                                    *)

Copy(p, q) ==
  /\ phase = "idle" /\ reg' = [reg EXCEPT ![q] = reg[p]]
  /\ UNCHANGED <<table, collection>>

Forget(p) ==
  /\ phase = "idle" /\ reg' = [reg EXCEPT ![p] = Null]
  /\ UNCHANGED <<table, collection>>

Load(p, f, q) ==
  /\ phase = "idle" /\ Resolves(reg[p])
  /\ reg' = [reg EXCEPT ![q] = fields[reg[p].index][f]]
  /\ UNCHANGED <<table, collection>>

Store(p, f, q) ==
  /\ phase = "idle" /\ Resolves(reg[p])
  /\ fields' = [fields EXCEPT ![reg[p].index][f] = reg[q]]
  /\ UNCHANGED <<size, generation, live, pins, free, liveCount, births, reg, collection>>

SetPins(i, n) ==
  /\ pins' = [pins EXCEPT ![i] = n]
  /\ UNCHANGED <<size, generation, live, fields, free, liveCount, births, reg, collection>>

(* saturating_add(1), saturating_sub(1) *)
OneMore(n) == IF n = MaxPins THEN n ELSE n + 1
PlainMinus(n) == n - 1                                        \* mutant
OneLess(n) == IF n = 0 THEN 0 ELSE n - 1

Pin(p) == /\ phase = "idle" /\ Resolves(reg[p])
          /\ SetPins(reg[p].index, OneMore(pins[reg[p].index]))

Unpin(p) == /\ phase = "idle" /\ Resolves(reg[p])
            /\ SetPins(reg[p].index, OneLess(pins[reg[p].index]))

-----------------------------------------------------------------------------
(* MarkSweep::collect *)

NoHandles == {}                                               \* mutant
PinnedHandles == {HandleTo(i) : i \in {j \in live : pins[j] > 0}}

StaleMarks == marked                                          \* mutant
ClearedMarks == {}

StartCollect ==
  /\ phase = "idle" /\ phase' = "marking"
  /\ marked' = ClearedMarks
  /\ worklist' = {reg[p] : p \in Roots} \cup PinnedHandles
  /\ UNCHANGED <<table, reg, at>>

FirstMark(h) == Resolves(h) /\ h.index \notin marked

Children(i) == {fields[i][f] : f \in Fields}

MarkOne(h) ==
  /\ phase = "marking" /\ h \in worklist
  /\ IF FirstMark(h)
     THEN /\ marked' = marked \cup {h.index}
          /\ worklist' = (worklist \ {h}) \cup Children(h.index)
     ELSE /\ worklist' = worklist \ {h} /\ marked' = marked
  /\ UNCHANGED <<table, reg, phase, at>>

MarkDone ==
  /\ phase = "marking" /\ worklist = {}
  /\ phase' = "sweeping" /\ at' = 1
  /\ UNCHANGED <<table, reg, worklist, marked>>

FreeEveryUnmarked(i) == i \notin marked                       \* mutant
Unreached(i) == i \in live /\ i \notin marked

SweepOne ==
  /\ phase = "sweeping" /\ at <= size
  /\ IF Unreached(at)
     THEN /\ live' = live \ {at}
          /\ free' = Append(free, at)
          /\ liveCount' = OneLess(liveCount)
     ELSE UNCHANGED <<live, free, liveCount>>
  /\ at' = at + 1
  /\ UNCHANGED <<size, generation, fields, pins, births, reg, phase, worklist, marked>>

SweepDone ==
  /\ phase = "sweeping" /\ at = size + 1
  /\ phase' = "idle" /\ at' = 1
  /\ UNCHANGED <<table, reg, worklist, marked>>

CollectorStep == \/ \E h \in worklist : MarkOne(h)
                 \/ MarkDone \/ SweepOne \/ SweepDone

Next ==
  \/ \E p \in Places : \/ AllocReused(p) \/ AllocFresh(p) \/ AllocFails(p)
                       \/ Forget(p) \/ Pin(p) \/ Unpin(p)
  \/ \E p, q \in Places : \/ Copy(p, q)
                          \/ \E f \in Fields : Load(p, f, q) \/ Store(p, f, q)
  \/ StartCollect \/ CollectorStep

Spec == Init /\ [][Next]_vars

-----------------------------------------------------------------------------
(* Properties *)

RootSlots == {reg[p].index : p \in {r \in Roots : Resolves(reg[r])}}
             \cup {i \in live : pins[i] > 0}
Successors(i) == {fields[i][f].index : f \in {g \in Fields : Resolves(fields[i][g])}}
Closed(S) == RootSlots \subseteq S /\ \A i \in S : Successors(i) \subseteq S

(* The occupied slots in every set that holds the roots and is closed under *)
(* following references.                                                    *)
Reachable == {i \in live : \A S \in SUBSET live : Closed(S) => i \in S}

(* The free list holds every empty slot of the table once and nothing else, *)
(* and live_count counts the rest: alloc_unchecked reuses whatever the list *)
(* ends with, unasked, and live_count is what the slot trigger of           *)
(* should_collect compares with the limit.                                  *)
SlotsAccounted ==
  /\ \A n \in 1 .. Len(free) : free[n] \notin live
  /\ \A m, n \in 1 .. Len(free) : free[m] = free[n] => m = n
  /\ \A i \in (1 .. size) \ live : \E n \in 1 .. Len(free) : free[n] = i
  /\ liveCount = Cardinality(live)

(* A stale handle, from wherever it was kept, is refused: it can name an    *)
(* object other than the one it was made for only once its slot has been    *)
(* reused as many times as there are generations (handle.rs).               *)
AliasOnlyAfterWrap ==
  \A h \in {reg[p] : p \in Places} \cup UNION {Children(i) : i \in live} :
    Resolves(h) /\ births[h.index] - h.birth < MaxGen => h.birth = births[h.index]

(* No step, of a collection or of the program, frees an object the program  *)
(* can reach from a root or a pin, or gives its slot another generation.    *)
ReachableSurvive ==
  [][\A i \in Reachable : i \in live' /\ generation'[i] = generation[i]]_vars

(* A collection that ends has freed everything else: pins and roots are all *)
(* that keeps an object, and a cycle of garbage does not.                   *)
GarbageReclaimed == [][phase = "sweeping" /\ phase' = "idle" => live \subseteq Reachable]_vars
=============================================================================
