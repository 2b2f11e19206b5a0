--------------------------- MODULE ObjectSpaceProofs ---------------------------
(***************************************************************************)
(* Proofs about ObjectSpace, for every number of slots, generations and    *)
(* places, and every object graph.                                         *)
(***************************************************************************)
EXTENDS ObjectSpace, FiniteSetTheorems, SequenceTheorems, TLAPS

(* The places a handle can be stored in, registers and objects.            *)
Held == {reg[p] : p \in Places} \cup {fields[i][f] : i \in Slots, f \in Fields}

(* The generation a handle's slot shows d reuses later, for d < MaxGen.    *)
Later(g, d) == IF g + d <= MaxGen THEN g + d ELSE g + d - MaxGen

(* A stored handle is at most as young as its slot, and the slot's          *)
(* generation has moved on by as many steps as it was reused.               *)
AgesAgree ==
  \A h \in Held : h.index # 0 =>
    /\ h.index <= size /\ h.generation > 0 /\ h.birth <= births[h.index]
    /\ births[h.index] - h.birth < MaxGen =>
         generation[h.index] = Later(h.generation, births[h.index] - h.birth)

(* During the mark loop whatever a root or a marked object refers to is     *)
(* marked or waiting; during the sweep it is marked.                        *)
NothingMissed ==
  /\ phase = "marking" =>
       \A i \in RootSlots \cup UNION {Successors(j) : j \in marked} :
         i \in marked \/ \E h \in worklist : h.index = i /\ Resolves(h)
  /\ phase = "sweeping" => Closed(marked)

IInv == TypeOK /\ SlotsAccounted /\ NothingMissed /\ AgesAgree

LEMMA NullIsRef == Null \in Refs /\ [f \in Fields |-> Null] \in [Fields -> Refs]
  BY BoundsAssumption DEF Null, Refs

LEMMA InitHolds == Init => IInv
<1> SUFFICES ASSUME Init PROVE IInv
  OBVIOUS
<1> USE BoundsAssumption DEF Init
<1>1. TypeOK
  BY NullIsRef DEF TypeOK, TableTypeOK, CollectionTypeOK, Slots
<1>2. SlotsAccounted
  BY FS_EmptySet DEF SlotsAccounted
<1>3. NothingMissed
  BY DEF NothingMissed
<1>4. AgesAgree
  BY DEF AgesAgree, Held, Null
<1> QED
  BY <1>1, <1>2, <1>3, <1>4 DEF IInv

-----------------------------------------------------------------------------
(* Types *)

LEMMA SlotsOfTable == TypeOK => 1 .. size \subseteq Slots /\ live \subseteq Slots
<1> SUFFICES ASSUME TypeOK PROVE 1 .. size \subseteq Slots
  BY DEF TypeOK, TableTypeOK
<1>1. size \in 0 .. MaxSlots /\ MaxSlots \in Nat
  BY BoundsAssumption DEF TypeOK, TableTypeOK
<1> QED
  BY <1>1 DEF Slots

LEMMA SameTable == TableTypeOK /\ UNCHANGED table => TableTypeOK'
  BY DEF TableTypeOK, table

LEMMA SameCollection == CollectionTypeOK /\ UNCHANGED collection => CollectionTypeOK'
  BY DEF CollectionTypeOK, collection

LEMMA LiveIsFinite ==
  ASSUME TableTypeOK, liveCount = Cardinality(live), NEW i \in Slots, i \notin live,
         NEW n \in 0 .. MaxSlots, n >= size, i <= n
  PROVE  IsFiniteSet(live) /\ liveCount + 1 <= n /\ Cardinality(live \cup {i}) = liveCount + 1
<1> USE BoundsAssumption DEF TableTypeOK
<1>1. IsFiniteSet(1 .. n) /\ Cardinality(1 .. n) = n
  BY FS_Interval
<1>2. live \subseteq 1 .. n /\ live \cup {i} \subseteq 1 .. n
  BY DEF Slots
<1>3. IsFiniteSet(live) /\ Cardinality(live \cup {i}) <= n
  BY <1>1, <1>2, FS_Subset
<1>4. Cardinality(live \cup {i}) = Cardinality(live) + 1
  BY <1>3, FS_AddElement
<1> QED
  BY <1>3, <1>4

(* Occupying an empty slot within the table keeps the types.                *)
LEMMA OccupyTypes ==
  ASSUME TypeOK, SlotsAccounted, NEW i \in Slots, NEW g \in 1 .. MaxGen, NEW p \in Places,
         Occupy(i, g, p), i \notin live, births[i] < MaxBirths,
         size' \in 0 .. MaxSlots, size' >= size, i <= size', free' \in Seq(1 .. size'),
         UNCHANGED <<phase, worklist, at>>
  PROVE  TypeOK'
<1> USE BoundsAssumption
<1>1. births[i] + 1 \in 0 .. MaxBirths
  BY DEF TypeOK, TableTypeOK
<1>2. [index |-> i, generation |-> g, birth |-> births[i] + 1] \in Refs
  BY <1>1 DEF Refs, Slots
<1>3. liveCount' \in 0 .. MaxSlots
  <2>1. liveCount + 1 <= size'
    BY LiveIsFinite DEF TypeOK, SlotsAccounted
  <2>2. liveCount' = liveCount + 1
    BY DEF Occupy
  <2> QED
    BY <2>1, <2>2 DEF TypeOK, TableTypeOK
<1>4. generation' \in [Slots -> 1 .. MaxGen] /\ births' \in [Slots -> 0 .. MaxBirths]
  BY <1>1 DEF Occupy, TypeOK, TableTypeOK
<1>5. fields' \in [Slots -> [Fields -> Refs]] /\ pins' \in [Slots -> 0 .. MaxPins]
  BY NullIsRef DEF Occupy, TypeOK, TableTypeOK
<1>6. live' \subseteq 1 .. size'
  <2>1. live \subseteq 1 .. size /\ size \in 0 .. MaxSlots /\ live' = live \cup {i}
    BY DEF Occupy, TypeOK, TableTypeOK
  <2>2. 1 .. size \subseteq 1 .. size' /\ i \in 1 .. size'
    BY <2>1 DEF Slots
  <2> QED
    BY <2>1, <2>2
<1>7. reg' \in [Places -> Refs]
  BY <1>2 DEF Occupy, TypeOK
<1>8. CollectionTypeOK'
  BY DEF Occupy, TypeOK, CollectionTypeOK
<1> QED
  BY <1>3, <1>4, <1>5, <1>6, <1>7, <1>8 DEF TypeOK, TableTypeOK

LEMMA TypeStep == IInv /\ [Next]_vars => TypeOK'
<1> SUFFICES ASSUME IInv, [Next]_vars PROVE TypeOK'
  OBVIOUS
<1> USE BoundsAssumption
<1>t. TypeOK /\ SlotsAccounted
  BY DEF IInv
<1>a. ASSUME NEW p \in Places, AllocReused(p) PROVE TypeOK'
  <2> DEFINE i == free[Len(free)]
  <2>0. size \in 0 .. MaxSlots /\ free \in Seq(1 .. size) /\ generation \in [Slots -> 1 .. MaxGen]
    BY <1>t DEF TypeOK, TableTypeOK
  <2>1. i \in 1 .. size /\ Len(free) \in Nat \ {0} /\ Len(free) \in 1 .. Len(free)
    BY <1>a, <2>0 DEF AllocReused
  <2>2. NextGeneration(generation[i]) \in 1 .. MaxGen
    <3>1. generation[i] \in 1 .. MaxGen
      BY <2>0, <2>1 DEF Slots
    <3> HIDE DEF i
    <3> QED
      BY <3>1 DEF NextGeneration
  <2>3. free' \in Seq(1 .. size)
    <3>1. Len(free) - 1 \in 0 .. Len(free)
      BY <2>1
    <3> QED
      BY <1>a, <2>0, <2>1, <3>1 DEF AllocReused
  <2>4. i \notin live
    BY <1>t, <2>1 DEF SlotsAccounted
  <2>5. size' = size /\ UNCHANGED <<phase, worklist, at>> /\ births[i] < MaxBirths
        /\ Occupy(i, NextGeneration(generation[i]), p)
    BY <1>a DEF AllocReused
  <2>6. i \in Slots /\ i <= size' /\ size' >= size /\ size' \in 0 .. MaxSlots
    BY <2>0, <2>1, <2>5 DEF Slots
  <2> HIDE DEF i
  <2> QED
    BY <1>t, <2>2, <2>3, <2>4, <2>5, <2>6, OccupyTypes
<1>b. ASSUME NEW p \in Places, AllocFresh(p) PROVE TypeOK'
  <2>1. size \in 0 .. MaxSlots /\ live \subseteq 1 .. size /\ births \in [Slots -> 0 .. MaxBirths]
    BY <1>t DEF TypeOK, TableTypeOK
  <2>2. /\ size < MaxSlots /\ size' = size + 1 /\ free' = <<>>
        /\ Occupy(size + 1, 1, p) /\ UNCHANGED <<phase, worklist, at>>
    BY <1>b DEF AllocFresh
  <2>3. /\ size + 1 \in Slots /\ size + 1 \notin live /\ 1 \in 1 .. MaxGen
        /\ size' \in 0 .. MaxSlots /\ size' >= size /\ size + 1 <= size' /\ free' \in Seq(1 .. size')
    BY <2>1, <2>2 DEF Slots
  <2>4. births[size + 1] < MaxBirths
    BY <1>b DEF AllocFresh
  <2> QED
    BY <1>t, <2>2, <2>3, <2>4, OccupyTypes
<1>c. ASSUME NEW p \in Places, NEW h \in Refs, reg' = [reg EXCEPT ![p] = h],
             UNCHANGED <<table, collection>>
      PROVE  TypeOK'
  BY <1>c, <1>t, SameTable, SameCollection DEF TypeOK
<1>d. ASSUME NEW p \in Places, AllocFails(p) \/ Forget(p) PROVE TypeOK'
  BY <1>c, <1>d, NullIsRef DEF AllocFails, Forget
<1>e. ASSUME NEW p \in Places, NEW q \in Places, Copy(p, q) PROVE TypeOK'
  BY <1>c, <1>e, <1>t DEF Copy, TypeOK
<1>f. ASSUME NEW p \in Places, NEW q \in Places, NEW f \in Fields, Load(p, f, q) PROVE TypeOK'
  <2>1. reg[p].index \in Slots
    BY <1>f, <1>t DEF Load, Resolves, TypeOK, TableTypeOK, Slots
  <2>2. fields[reg[p].index][f] \in Refs
    BY <2>1, <1>t DEF TypeOK, TableTypeOK
  <2> QED
    BY <1>c, <1>f, <2>2 DEF Load
<1>g. ASSUME NEW p \in Places, NEW q \in Places, NEW f \in Fields, Store(p, f, q) PROVE TypeOK'
  <2>1. fields' \in [Slots -> [Fields -> Refs]]
    BY <1>g, <1>t DEF Store, TypeOK, TableTypeOK
  <2> QED
    BY <1>g, <1>t, <2>1, SameCollection DEF Store, TypeOK, TableTypeOK
<1>h. ASSUME NEW p \in Places, Pin(p) \/ Unpin(p) PROVE TypeOK'
  <2>1. reg[p].index \in Slots
    BY <1>h, <1>t DEF Pin, Unpin, Resolves, TypeOK, TableTypeOK, Slots
  <2>2. pins[reg[p].index] \in 0 .. MaxPins
    BY <2>1, <1>t DEF TypeOK, TableTypeOK
  <2>3. /\ OneMore(pins[reg[p].index]) \in 0 .. MaxPins
        /\ OneLess(pins[reg[p].index]) \in 0 .. MaxPins
    BY <2>2 DEF OneMore, OneLess
  <2>4. PICK n \in 0 .. MaxPins : SetPins(reg[p].index, n)
    BY <1>h, <2>3 DEF Pin, Unpin
  <2>5. pins' \in [Slots -> 0 .. MaxPins]
    BY <2>4, <1>t DEF SetPins, TypeOK, TableTypeOK
  <2> QED
    BY <1>t, <2>4, <2>5, SameCollection DEF SetPins, TypeOK, TableTypeOK
<1>i. ASSUME UNCHANGED <<table, reg>>, CollectionTypeOK' PROVE TypeOK'
  BY <1>i, <1>t, SameTable DEF TypeOK
<1>j. ASSUME StartCollect PROVE TypeOK'
  <2>0. ASSUME NEW i \in live PROVE HandleTo(i) \in Refs
    <3>1. i \in Slots /\ generation[i] \in 1..MaxGen /\ births[i] \in 0..MaxBirths
      BY <1>t DEF TypeOK, TableTypeOK, Slots
    <3>2. i \in 0..MaxSlots /\ generation[i] \in 0..MaxGen
      BY <3>1 DEF Slots
    <3> QED
      BY <3>1, <3>2 DEF HandleTo, Refs
  <2>1. PinnedHandles \subseteq Refs
    BY <2>0 DEF PinnedHandles
  <2>2. {reg[p] : p \in Roots} \subseteq Refs
    BY <1>t DEF TypeOK, Places
  <2> QED
    BY <1>i, <1>j, <1>t, <2>1, <2>2 DEF StartCollect, ClearedMarks, TypeOK, CollectionTypeOK
<1>k. ASSUME NEW h \in worklist, MarkOne(h) PROVE TypeOK'
  <2>1. Resolves(h) => h.index \in Slots
    BY <1>t DEF Resolves, TypeOK, TableTypeOK, Slots
  <2>2. Resolves(h) => Children(h.index) \subseteq Refs
    BY <2>1, <1>t DEF Children, TypeOK, TableTypeOK
  <2> QED
    BY <1>i, <1>k, <1>t, <2>1, <2>2 DEF MarkOne, FirstMark, TypeOK, CollectionTypeOK
<1>l. ASSUME MarkDone \/ SweepDone PROVE TypeOK'
  BY <1>i, <1>l, <1>t DEF MarkDone, SweepDone, TypeOK, CollectionTypeOK
<1>m. ASSUME SweepOne PROVE TypeOK'
  <2>0. size \in 0 .. MaxSlots /\ liveCount \in 0 .. MaxSlots /\ free \in Seq(1 .. size)
    BY <1>t DEF TypeOK, TableTypeOK
  <2>1. at \in 1 .. size /\ at + 1 \in 1 .. MaxSlots + 1
    BY <1>m, <1>t, <2>0 DEF SweepOne, TypeOK, CollectionTypeOK
  <2>2. OneLess(liveCount) \in 0 .. MaxSlots
    BY <2>0 DEF OneLess
  <2>3. Append(free, at) \in Seq(1 .. size)
    BY <2>0, <2>1
  <2>4. /\ size' = size /\ liveCount' \in 0 .. MaxSlots
        /\ live' \subseteq live /\ free' \in Seq(1 .. size)
    BY <1>m, <2>0, <2>2, <2>3 DEF SweepOne
  <2>5. TableTypeOK'
    BY <1>m, <1>t, <2>4 DEF SweepOne, TypeOK, TableTypeOK
  <2>6. CollectionTypeOK'
    BY <1>m, <1>t, <2>1 DEF SweepOne, TypeOK, CollectionTypeOK
  <2> QED
    BY <1>m, <1>t, <2>5, <2>6 DEF SweepOne, TypeOK
<1>n. CASE UNCHANGED vars
  BY <1>n, <1>t, SameTable, SameCollection DEF TypeOK, vars
<1> QED
  BY <1>a, <1>b, <1>d, <1>e, <1>f, <1>g, <1>h, <1>j, <1>k, <1>l, <1>m, <1>n DEF Next, CollectorStep

-----------------------------------------------------------------------------
(* The free list *)

LEMMA SlotsStep == IInv /\ [Next]_vars => SlotsAccounted'
<1> SUFFICES ASSUME IInv, [Next]_vars PROVE SlotsAccounted'
  OBVIOUS
<1> USE BoundsAssumption
<1>t. TypeOK /\ SlotsAccounted
  BY DEF IInv
<1>s. IsFiniteSet(live)
  <2>1. IsFiniteSet(1 .. size)
    BY <1>t, FS_Interval DEF TypeOK, TableTypeOK
  <2> QED
    BY <1>t, <2>1, FS_Subset DEF TypeOK, TableTypeOK
<1>a. ASSUME NEW p \in Places, AllocReused(p) PROVE SlotsAccounted'
  <2> DEFINE i == free[Len(free)]
  <2>1. Len(free) \in Nat \ {0} /\ free \in Seq(1 .. size)
    BY <1>a, <1>t DEF AllocReused, TypeOK, TableTypeOK, CollectionTypeOK
  <2>2. /\ Len(free') = Len(free) - 1
        /\ \A n \in 1 .. Len(free') : free'[n] = free[n]
    <3>1. Len(free) - 1 \in 0 .. Len(free) /\ free' = SubSeq(free, 1, Len(free) - 1)
      BY <1>a, <2>1 DEF AllocReused
    <3>2. /\ Len(SubSeq(free, 1, Len(free) - 1)) = Len(free) - 1
          /\ \A n \in 1 .. Len(free) - 1 : SubSeq(free, 1, Len(free) - 1)[n] = free[n]
      <4>0. \A n \in 1 .. Len(free) : free[n] \in 1 .. size
        BY <2>1, ElementOfSeq
      <4>1. \A n \in 1 .. Len(free) - 1 : free[n] \in 1 .. size
        BY <2>1, <4>0
      <4>2. 1 \in Int /\ Len(free) - 1 \in Int /\ Len(free) - 1 >= 0
        BY <2>1
      <4>3. \A n \in 1 .. (Len(free) - 1) - 1 + 1 : SubSeq(free, 1, Len(free) - 1)[n] = free[1 + n - 1]
        BY <4>1, <4>2, SubSeqProperties
      <4>4. Len(SubSeq(free, 1, Len(free) - 1))
              = IF 1 <= Len(free) - 1 THEN Len(free) - 1 - 1 + 1 ELSE 0
        BY <4>1, <4>2, SubSeqProperties
      <4>5. \A n \in 1 .. Len(free) - 1 : n \in 1 .. (Len(free) - 1) - 1 + 1 /\ 1 + n - 1 = n
        BY <2>1
      <4>6. \A n \in 1 .. Len(free) - 1 : SubSeq(free, 1, Len(free) - 1)[n] = free[n]
        BY <4>3, <4>5
      <4>7. Len(SubSeq(free, 1, Len(free) - 1)) = Len(free) - 1
        <5>1. \A k \in Nat \ {0} : (IF 1 <= k - 1 THEN k - 1 - 1 + 1 ELSE 0) = k - 1
          OBVIOUS
        <5> QED
          BY <2>1, <4>4, <5>1
      <4> QED
        BY <4>6, <4>7
    <3> QED
      BY <3>1, <3>2
  <2>3. live' = live \cup {i} /\ size' = size /\ i \notin live /\ liveCount' = liveCount + 1
    BY <1>a, <1>t, <2>1 DEF AllocReused, Occupy, SlotsAccounted
  <2>4. \A n \in 1 .. Len(free') : n \in 1 .. Len(free) /\ free[n] # i
    BY <2>1, <2>2, <1>t DEF SlotsAccounted
  <2>5. \A k \in (1 .. size) \ live' : \E n \in 1 .. Len(free') : free'[n] = k
    <3> SUFFICES ASSUME NEW k \in (1 .. size) \ live, k # i
                 PROVE  \E n \in 1 .. Len(free') : free'[n] = k
      BY <2>3
    <3>1. PICK n \in 1 .. Len(free) : free[n] = k
      BY <1>t DEF SlotsAccounted
    <3>2. n \in 1 .. Len(free')
      BY <3>1, <2>1, <2>2
    <3> QED
      BY <3>1, <3>2, <2>2
  <2>6. liveCount' = Cardinality(live')
    BY <1>t, <1>s, <2>3, FS_AddElement DEF SlotsAccounted
  <2>7. \A n \in 1 .. Len(free') : free'[n] \notin live'
    BY <1>t, <2>2, <2>3, <2>4 DEF SlotsAccounted
  <2>8. \A m, n \in 1 .. Len(free') : free'[m] = free'[n] => m = n
    BY <1>t, <2>2, <2>4 DEF SlotsAccounted
  <2> QED
    BY <2>3, <2>5, <2>6, <2>7, <2>8 DEF SlotsAccounted
<1>b. ASSUME NEW p \in Places, AllocFresh(p) PROVE SlotsAccounted'
  <2>1. /\ size' = size + 1 /\ free' = <<>> /\ free = <<>>
        /\ live' = live \cup {size + 1} /\ liveCount' = liveCount + 1
    BY <1>b DEF AllocFresh, Occupy
  <2>2. size + 1 \notin live /\ (1 .. size) \ live = {}
    BY <1>t, <2>1 DEF TypeOK, TableTypeOK, SlotsAccounted
  <2>3. (1 .. size') \ live' = {}
    BY <1>t, <2>1, <2>2 DEF TypeOK, TableTypeOK
  <2>4. liveCount' = Cardinality(live')
    BY <1>t, <1>s, <2>1, <2>2, FS_AddElement DEF SlotsAccounted
  <2> QED
    BY <2>1, <2>3, <2>4 DEF SlotsAccounted
<1>c. ASSUME SweepOne PROVE SlotsAccounted'
  <2>1. at \in 1 .. size /\ free \in Seq(1 .. size)
    BY <1>c, <1>t DEF SweepOne, TypeOK, TableTypeOK, CollectionTypeOK
  <2>2. CASE ~Unreached(at)
    BY <1>c, <1>t, <2>2 DEF SweepOne, SlotsAccounted
  <2>3. CASE Unreached(at)
    <3>1. /\ live' = live \ {at} /\ at \in live /\ size' = size
          /\ free' = Append(free, at) /\ liveCount' = OneLess(liveCount)
      BY <1>c, <2>3 DEF SweepOne, Unreached
    <3>2. liveCount' = Cardinality(live')
      <4>1. Cardinality(live') = Cardinality(live) - 1
        BY <3>1, <1>s, FS_RemoveElement
      <4>2. Cardinality(live') \in Nat
        BY <3>1, <1>s, FS_RemoveElement, FS_CardinalityType
      <4> QED
        BY <4>1, <4>2, <3>1, <1>t DEF SlotsAccounted, OneLess, TypeOK, TableTypeOK, CollectionTypeOK
    <3>3. /\ Len(free') = Len(free) + 1
          /\ free'[Len(free) + 1] = at
          /\ \A n \in 1 .. Len(free) : free'[n] = free[n]
      BY <3>1, <2>1
    <3>4. \A n \in 1 .. Len(free) : free[n] # at
      BY <3>1, <1>t DEF SlotsAccounted
    <3>5. \A n \in 1 .. Len(free') : free'[n] \notin live'
      BY <3>1, <3>3, <2>1, <1>t DEF SlotsAccounted
    <3>6. \A m, n \in 1 .. Len(free') : free'[m] = free'[n] => m = n
      BY <3>3, <3>4, <2>1, <1>t DEF SlotsAccounted
    <3>7. \A k \in (1 .. size) \ live' : \E n \in 1 .. Len(free') : free'[n] = k
      <4> SUFFICES ASSUME NEW k \in (1 .. size) \ live'
                   PROVE  \E n \in 1 .. Len(free') : free'[n] = k
        OBVIOUS
      <4>1. CASE k = at
        BY <4>1, <3>3, <2>1
      <4>2. CASE k # at
        <5>1. PICK n \in 1 .. Len(free) : free[n] = k
          BY <4>2, <3>1, <1>t DEF SlotsAccounted
        <5> QED
          BY <5>1, <3>3, <2>1
      <4> QED
        BY <4>1, <4>2
    <3> QED
      BY <3>1, <3>2, <3>5, <3>6, <3>7 DEF SlotsAccounted
  <2> QED
    BY <2>2, <2>3
<1>d. ASSUME UNCHANGED <<size, live, free, liveCount>> PROVE SlotsAccounted'
  BY <1>d, <1>t DEF SlotsAccounted
<1> QED
  BY <1>a, <1>b, <1>c, <1>d DEF Next, CollectorStep, AllocFails, Forget, Pin, Unpin, SetPins, Copy,
     Load, Store, StartCollect, MarkOne, MarkDone, SweepDone, vars, table, collection

-----------------------------------------------------------------------------
(* Ages *)

(* Reusing a slot moves its generation one step on, so what a stored handle *)
(* is told apart by is the number of reuses since, up to a full wrap.       *)
LEMMA OneLater ==
  ASSUME NEW g \in 1 .. MaxGen, NEW d \in Nat, d + 1 < MaxGen
  PROVE  Later(g, d + 1) = NextGeneration(Later(g, d))
  BY BoundsAssumption DEF Later, NextGeneration

LEMMA HeldIsTyped == TypeOK => Held \subseteq Refs
  BY DEF TypeOK, TableTypeOK, Held

(* Handles move about, or are dropped, but no slot is reused.               *)
LEMMA AgesWhenMoved ==
  ASSUME AgesAgree, UNCHANGED <<size, generation, births>>, Held' \subseteq Held \cup {Null}
  PROVE  AgesAgree'
  BY DEF AgesAgree, Null

LEMMA AgesWhenOccupied ==
  ASSUME TypeOK, AgesAgree, NEW i \in Slots, NEW p \in Places, i <= size',
         size' >= size, size' \in Nat,
         NEW g \in 1 .. MaxGen, i <= size => g = NextGeneration(generation[i]),
         Occupy(i, g, p)
  PROVE  AgesAgree'
<1> USE BoundsAssumption
<1> DEFINE new == [index |-> i, generation |-> g, birth |-> births[i] + 1]
<1>1. Held' \subseteq Held \cup {Null, new}
  <2>1. reg' = [reg EXCEPT ![p] = new] /\ fields' = [fields EXCEPT ![i] = [f \in Fields |-> Null]]
    BY DEF Occupy
  <2>2. reg \in [Places -> Refs] /\ fields \in [Slots -> [Fields -> Refs]]
    BY DEF TypeOK, TableTypeOK
  <2>3. \A q \in Places : reg'[q] \in {reg[q], new}
    BY <2>1, <2>2
  <2>4. \A j \in Slots, f \in Fields : fields'[j][f] \in {fields[j][f], Null}
    BY <2>1, <2>2
  <2> HIDE DEF new
  <2> QED
    BY <2>3, <2>4 DEF Held
<1>2. /\ births[i] \in Nat /\ births' = [births EXCEPT ![i] = @ + 1]
      /\ generation' = [generation EXCEPT ![i] = g]
      /\ births \in [Slots -> 0 .. MaxBirths] /\ generation \in [Slots -> 1 .. MaxGen]
      /\ size \in 0 .. MaxSlots
  BY DEF Occupy, TypeOK, TableTypeOK
<1>3. births'[i] = births[i] + 1 /\ generation'[i] = g
  BY <1>2
<1> SUFFICES ASSUME NEW h \in Held', h.index # 0
             PROVE  /\ h.index <= size' /\ h.generation > 0 /\ h.birth <= births'[h.index]
                    /\ births'[h.index] - h.birth < MaxGen =>
                       generation'[h.index] = Later(h.generation, births'[h.index] - h.birth)
  BY DEF AgesAgree
<1>4. CASE h = new
  BY <1>4, <1>2, <1>3 DEF Later
<1>5. CASE h = Null
  BY <1>5 DEF Null
<1>6. CASE h \in Held
  <2>1. h \in Refs /\ h.index \in 1 .. size /\ h.generation \in 1 .. MaxGen /\ h.birth \in Nat
    BY <1>2, <1>6, HeldIsTyped DEF AgesAgree, Refs
  <2>2. h.index \in Slots /\ h.index <= size' /\ h.birth <= births[h.index] /\ births[h.index] \in Nat
    <3>0. h.index \in Slots
      BY <2>1, SlotsOfTable
    <3>1. h.index \in Slots /\ h.index <= size'
      BY <1>2, <2>1, <3>0
    <3>2. h.birth <= births[h.index]
      BY <1>6, <2>1 DEF AgesAgree
    <3>3. births[h.index] \in 0 .. MaxBirths
      BY <1>2, <3>1
    <3> QED
      BY <3>1, <3>2, <3>3
  <2>3. births[h.index] - h.birth < MaxGen =>
          generation[h.index] = Later(h.generation, births[h.index] - h.birth)
    BY <1>6, <2>1 DEF AgesAgree
  <2>4. CASE h.index # i
    BY <1>2, <2>1, <2>2, <2>3, <2>4
  <2>5. CASE h.index = i
    <3> DEFINE d == births[i] - h.birth
    <3>1. d \in Nat /\ births'[i] - h.birth = d + 1
      BY <1>3, <2>1, <2>2, <2>5
    <3>2. d + 1 < MaxGen => g = Later(h.generation, d + 1)
      <4>1. SUFFICES ASSUME d + 1 < MaxGen PROVE g = Later(h.generation, d + 1)
        OBVIOUS
      <4>2. d < MaxGen
        BY <3>1, <4>1
      <4>3. generation[i] = Later(h.generation, d)
        BY <2>3, <2>5, <4>2
      <4>4. g = NextGeneration(generation[i])
        BY <2>1, <2>5
      <4> HIDE DEF d
      <4> QED
        BY <3>1, <4>1, <4>3, <4>4, <2>1, OneLater
    <3>3. h.birth <= births'[i]
      BY <1>3, <2>1, <2>2, <2>5
    <3> QED
      BY <1>3, <2>1, <2>2, <2>5, <3>1, <3>2, <3>3
  <2> QED
    BY <2>4, <2>5
<1> QED
  BY <1>1, <1>4, <1>5, <1>6

LEMMA AgesStep == IInv /\ [Next]_vars => AgesAgree'
<1> SUFFICES ASSUME IInv, [Next]_vars PROVE AgesAgree'
  OBVIOUS
<1> USE BoundsAssumption
<1>t. TypeOK /\ SlotsAccounted /\ AgesAgree
  BY DEF IInv
<1>a. ASSUME NEW p \in Places, AllocReused(p) PROVE AgesAgree'
  <2> DEFINE i == free[Len(free)]
  <2>0. size \in 0 .. MaxSlots /\ free \in Seq(1 .. size) /\ generation \in [Slots -> 1 .. MaxGen]
    BY <1>t DEF TypeOK, TableTypeOK
  <2>1. i \in 1 .. size
    BY <1>a, <2>0 DEF AllocReused
  <2>2. NextGeneration(generation[i]) \in 1 .. MaxGen
    <3>1. generation[i] \in 1 .. MaxGen
      BY <2>0, <2>1 DEF Slots
    <3> HIDE DEF i
    <3> QED
      BY <3>1 DEF NextGeneration
  <2>3. size' = size /\ Occupy(i, NextGeneration(generation[i]), p)
    BY <1>a DEF AllocReused
  <2>4. i \in Slots /\ i <= size' /\ size' >= size /\ size' \in Nat
    BY <2>0, <2>1, <2>3 DEF Slots
  <2> HIDE DEF i
  <2> QED
    BY <1>t, <2>2, <2>3, <2>4, AgesWhenOccupied
<1>b. ASSUME NEW p \in Places, AllocFresh(p) PROVE AgesAgree'
  <2>1. size \in 0 .. MaxSlots
    BY <1>t DEF TypeOK, TableTypeOK
  <2>2. size < MaxSlots /\ size' = size + 1 /\ Occupy(size + 1, 1, p)
    BY <1>b DEF AllocFresh
  <2>3. /\ size + 1 \in Slots /\ size + 1 <= size' /\ size' >= size /\ size' \in Nat
        /\ 1 \in 1 .. MaxGen /\ ~(size + 1 <= size)
    BY <2>1, <2>2 DEF Slots
  <2> QED
    BY <1>t, <2>2, <2>3, AgesWhenOccupied
<1>c. ASSUME NEW p \in Places, AllocFails(p) \/ Forget(p) PROVE AgesAgree'
  <2>1. Held' \subseteq Held \cup {Null} /\ UNCHANGED <<size, generation, births>>
    BY <1>c, <1>t DEF AllocFails, Forget, Held, TypeOK, table
  <2> QED
    BY <1>t, <2>1, AgesWhenMoved
<1>d. ASSUME NEW p \in Places, NEW q \in Places, Copy(p, q) PROVE AgesAgree'
  <2>1. Held' \subseteq Held \cup {Null} /\ UNCHANGED <<size, generation, births>>
    BY <1>d, <1>t DEF Copy, Held, TypeOK, table
  <2> QED
    BY <1>t, <2>1, AgesWhenMoved
<1>e. ASSUME NEW p \in Places, NEW q \in Places, NEW f \in Fields, Load(p, f, q) PROVE AgesAgree'
  <2>0. reg[p].index \in Slots
    BY <1>e, <1>t DEF Load, Resolves, TypeOK, TableTypeOK, Slots
  <2>1. Held' \subseteq Held \cup {Null} /\ UNCHANGED <<size, generation, births>>
    BY <1>e, <1>t, <2>0 DEF Load, Held, TypeOK, table
  <2> QED
    BY <1>t, <2>1, AgesWhenMoved
<1>f. ASSUME NEW p \in Places, NEW q \in Places, NEW f \in Fields, Store(p, f, q) PROVE AgesAgree'
  <2>1. Held' \subseteq Held \cup {Null} /\ UNCHANGED <<size, generation, births>>
    BY <1>f, <1>t DEF Store, Held, TypeOK, TableTypeOK
  <2> QED
    BY <1>t, <2>1, AgesWhenMoved
<1>g. ASSUME UNCHANGED <<size, generation, births, fields, reg>> PROVE AgesAgree'
  BY <1>g, <1>t DEF AgesAgree, Held
<1> QED
  BY <1>a, <1>b, <1>c, <1>d, <1>e, <1>f, <1>g DEF Next, CollectorStep, Pin, Unpin, SetPins,
     StartCollect, MarkOne, MarkDone, SweepOne, SweepDone, vars, table, collection

-----------------------------------------------------------------------------
(* Marking *)

LEMMA MissedStep == IInv /\ [Next]_vars => NothingMissed'
<1> SUFFICES ASSUME IInv, [Next]_vars PROVE NothingMissed'
  OBVIOUS
<1>t. TypeOK /\ NothingMissed
  BY DEF IInv
<1>a. ASSUME phase' = "idle" PROVE NothingMissed'
  BY <1>a DEF NothingMissed
<1>b. ASSUME UNCHANGED <<table, reg>>
      PROVE  /\ RootSlots' = RootSlots
             /\ \A i : Successors(i)' = Successors(i)
             /\ \A h : Resolves(h)' <=> Resolves(h)
  BY <1>b DEF RootSlots, Successors, Resolves, table
<1>c. ASSUME StartCollect PROVE NothingMissed'
  <2>1. phase' = "marking" /\ marked' = {} /\ UNCHANGED <<table, reg>>
        /\ worklist' = {reg[p] : p \in Roots} \cup PinnedHandles
    BY <1>c DEF StartCollect, ClearedMarks
  <2>2. \A i \in RootSlots : \E h \in worklist' : h.index = i /\ Resolves(h)
    <3> SUFFICES ASSUME NEW i \in RootSlots PROVE \E h \in worklist' : h.index = i /\ Resolves(h)
      OBVIOUS
    <3>1. CASE i \in {reg[p].index : p \in {r \in Roots : Resolves(reg[r])}}
      BY <3>1, <2>1
    <3>2. CASE i \in {j \in live : pins[j] > 0}
      <4>1. HandleTo(i) \in worklist'
        BY <3>2, <2>1 DEF PinnedHandles
      <4>2. HandleTo(i).index = i /\ Resolves(HandleTo(i))
        BY <3>2, <1>t DEF HandleTo, Resolves, TypeOK, TableTypeOK
      <4> QED
        BY <4>1, <4>2
    <3> QED
      BY <3>1, <3>2 DEF RootSlots
  <2>3. UNION {Successors(j) : j \in marked'} = {}
    BY <2>1
  <2> QED
    BY <1>b, <2>1, <2>2, <2>3 DEF NothingMissed
<1>d. ASSUME NEW h \in worklist, MarkOne(h) PROVE NothingMissed'
  <2>1. phase = "marking" /\ phase' = "marking" /\ UNCHANGED <<table, reg>>
    BY <1>d DEF MarkOne
  <2>2. CASE FirstMark(h)
    <3>1. marked' = marked \cup {h.index} /\ worklist' = (worklist \ {h}) \cup Children(h.index)
      BY <1>d, <2>2 DEF MarkOne
    <3>2. \A i \in Successors(h.index) : \E k \in worklist' : k.index = i /\ Resolves(k)
      BY <3>1 DEF Successors, Children
    <3>3. \A i \in RootSlots \cup UNION {Successors(j) : j \in marked} :
             i \in marked' \/ \E k \in worklist' : k.index = i /\ Resolves(k)
      BY <1>t, <2>1, <3>1 DEF NothingMissed
    <3> QED
      BY <1>b, <2>1, <3>1, <3>2, <3>3 DEF NothingMissed
  <2>3. CASE ~FirstMark(h)
    <3>1. marked' = marked /\ worklist' = worklist \ {h}
      BY <1>d, <2>3 DEF MarkOne
    <3>2. Resolves(h) => h.index \in marked
      BY <2>3 DEF FirstMark
    <3> QED
      BY <1>b, <1>t, <2>1, <3>1, <3>2 DEF NothingMissed
  <2> QED
    BY <2>2, <2>3
<1>e. ASSUME MarkDone PROVE NothingMissed'
  <2>1. Closed(marked)
    BY <1>e, <1>t DEF MarkDone, NothingMissed, Closed
  <2> QED
    BY <1>b, <1>e, <2>1 DEF MarkDone, NothingMissed, Closed
<1>f. ASSUME SweepOne PROVE NothingMissed'
  <2>1. phase = "sweeping" /\ phase' = "sweeping" /\ live' \subseteq live
        /\ UNCHANGED <<size, generation, fields, pins, reg, marked>>
    BY <1>f DEF SweepOne
  <2>2. \A h : Resolves(h)' => Resolves(h)
    BY <2>1 DEF Resolves
  <2>3. RootSlots' \subseteq RootSlots /\ \A i : Successors(i)' \subseteq Successors(i)
    BY <2>1, <2>2 DEF RootSlots, Successors
  <2> QED
    BY <1>t, <2>1, <2>3 DEF NothingMissed, Closed
<1>g. ASSUME UNCHANGED vars PROVE NothingMissed'
  BY <1>b, <1>g, <1>t DEF NothingMissed, Closed, vars, collection
<1> QED
  BY <1>a, <1>c, <1>d, <1>e, <1>f, <1>g DEF Next, CollectorStep, AllocReused, AllocFresh, AllocFails,
     Forget, Pin, Unpin, SetPins, Copy, Load, Store, SweepDone, collection

-----------------------------------------------------------------------------
(* The theorems *)

LEMMA Invariance == Spec => []IInv
<1>1. IInv /\ [Next]_vars => IInv'
  BY TypeStep, SlotsStep, AgesStep, MissedStep DEF IInv
<1> QED
  BY <1>1, InitHolds, PTL DEF Spec

(* The types hold. *)
THEOREM TypesHold == Spec => []TypeOK
  BY Invariance, PTL DEF IInv

(* The free list is the empty slots, once each, and the live count is right. *)
THEOREM FreeListIsExact == Spec => []SlotsAccounted
  BY Invariance, PTL DEF IInv

(* A stale handle is refused until its slot has been reused MaxGen times.    *)
THEOREM StaleHandlesAreRefused == Spec => []AliasOnlyAfterWrap
<1>1. IInv => AliasOnlyAfterWrap
  <2> SUFFICES ASSUME IInv, NEW h \in {reg[p] : p \in Places} \cup UNION {Children(i) : i \in live},
                      Resolves(h), births[h.index] - h.birth < MaxGen
               PROVE  h.birth = births[h.index]
    BY DEF AliasOnlyAfterWrap
  <2>1. TypeOK /\ AgesAgree
    BY DEF IInv
  <2>2. h \in Held
    <3>1. live \subseteq Slots
      BY <2>1, SlotsOfTable
    <3> QED
      BY <3>1 DEF Held, Children
  <2>3. h \in Refs /\ h.index \in Slots /\ h.index # 0
    <3>1. h \in Refs
      BY <2>1, <2>2, HeldIsTyped
    <3>2. h.index \in 1 .. size /\ h.index # 0
      BY <2>1 DEF Resolves, TypeOK, TableTypeOK
    <3> QED
      BY <2>1, <3>1, <3>2, SlotsOfTable
  <2>4. births[h.index] \in Nat /\ h.birth \in Nat /\ h.generation \in 0 .. MaxGen
    BY <2>1, <2>3 DEF TypeOK, TableTypeOK, Refs
  <2>5. h.birth <= births[h.index]
        /\ h.generation = Later(h.generation, births[h.index] - h.birth)
    BY <2>1, <2>2, <2>3 DEF AgesAgree, Resolves
  <2> QED
    BY <2>4, <2>5, BoundsAssumption DEF Later
<1> QED
  BY <1>1, Invariance, PTL

(* A reachable slot is occupied and, while the sweep runs, marked. *)
LEMMA ReachableIsMarked == IInv /\ phase = "sweeping" => Reachable \subseteq marked
<1> SUFFICES ASSUME IInv, phase = "sweeping", NEW i \in Reachable PROVE i \in marked
  OBVIOUS
<1>1. Closed(marked)
  BY DEF IInv, NothingMissed
<1>2. RootSlots \subseteq live /\ \A j : Successors(j) \subseteq live
  BY DEF RootSlots, Successors, Resolves
<1>3. Closed(marked \cap live)
  BY <1>1, <1>2 DEF Closed
<1> QED
  BY <1>3 DEF Reachable

(* No object the program can reach from a root or a pin is freed, or has its *)
(* slot given another generation, by any step.                               *)
THEOREM ReachableObjectsSurvive == Spec => ReachableSurvive
<1>1. ASSUME IInv, [Next]_vars
      PROVE  \A i \in Reachable : i \in live' /\ generation'[i] = generation[i]
  <2> SUFFICES ASSUME NEW i \in Reachable PROVE i \in live' /\ generation'[i] = generation[i]
    OBVIOUS
  <2>1. TypeOK /\ SlotsAccounted
    BY <1>1 DEF IInv
  <2>2. i \in live /\ i \in 1 .. size /\ size \in 0 .. MaxSlots
    BY <2>1 DEF Reachable, TypeOK, TableTypeOK
  <2>3. ASSUME NEW p \in Places, AllocReused(p) PROVE i \in live' /\ generation'[i] = generation[i]
    <3>1. Len(free) \in 1 .. Len(free)
      BY <2>1, <2>3 DEF AllocReused, TypeOK, TableTypeOK
    <3>2. free[Len(free)] # i
      BY <2>1, <2>2, <3>1 DEF SlotsAccounted
    <3>3. live' = live \cup {free[Len(free)]}
      BY <2>3 DEF AllocReused, Occupy
    <3>4. \E g : generation' = [generation EXCEPT ![free[Len(free)]] = g]
      BY <2>3 DEF AllocReused, Occupy
    <3>5. generation'[i] = generation[i]
      BY <2>1, <2>2, <3>2, <3>4 DEF TypeOK, TableTypeOK, Slots
    <3> QED
      BY <2>2, <3>3, <3>5
  <2>4. ASSUME NEW p \in Places, AllocFresh(p) PROVE i \in live' /\ generation'[i] = generation[i]
    BY <2>1, <2>2, <2>4 DEF AllocFresh, Occupy, TypeOK, TableTypeOK, Slots
  <2>5. ASSUME SweepOne PROVE i \in live' /\ generation'[i] = generation[i]
    <3>1. i \in marked
      BY <1>1, <2>5, ReachableIsMarked DEF SweepOne
    <3> QED
      BY <2>2, <2>5, <3>1 DEF SweepOne, Unreached
  <2>6. ASSUME UNCHANGED <<live, generation>> PROVE i \in live' /\ generation'[i] = generation[i]
    BY <2>2, <2>6
  <2> QED
    BY <1>1, <2>3, <2>4, <2>5, <2>6 DEF Next, CollectorStep, AllocFails, Forget, Pin, Unpin, SetPins,
       Copy, Load, Store, StartCollect, MarkOne, MarkDone, SweepDone, vars, table
<1> QED
  BY <1>1, Invariance, PTL DEF Spec, ReachableSurvive

-----------------------------------------------------------------------------
(* Nothing else survives: what is marked is reachable, and what the sweep    *)
(* has passed is marked.                                                     *)
NothingExtra ==
  /\ phase = "marking" =>
       /\ marked \subseteq Reachable
       /\ \A h \in worklist : Resolves(h) => h.index \in Reachable
  /\ phase = "sweeping" =>
       /\ marked \subseteq Reachable
       /\ \A i \in live : i < at => i \in marked

LEMMA ReachableIsClosed ==
  RootSlots \subseteq Reachable /\ \A i \in Reachable : Successors(i) \subseteq Reachable
<1>1. RootSlots \subseteq live /\ \A i : Successors(i) \subseteq live
  BY DEF RootSlots, Successors, Resolves
<1> QED
  BY <1>1 DEF Reachable, Closed

(* Freeing what is not reachable leaves reachable what was.                  *)
LEMMA FreeingKeepsReachable ==
  ASSUME NEW a, a \notin Reachable, live' = live \ {a},
         UNCHANGED <<size, generation, fields, pins, reg>>
  PROVE  Reachable \subseteq Reachable'
<1>1. \A h : Resolves(h) /\ h.index # a => Resolves(h)'
  BY DEF Resolves
<1>2. RootSlots \subseteq RootSlots'
  <2> SUFFICES ASSUME NEW j \in RootSlots PROVE j \in RootSlots'
    OBVIOUS
  <2>1. j # a
    BY ReachableIsClosed
  <2>2. CASE j \in {reg[p].index : p \in {r \in Roots : Resolves(reg[r])}}
    BY <1>1, <2>1, <2>2 DEF RootSlots
  <2>3. CASE j \in {i \in live : pins[i] > 0}
    BY <2>1, <2>3 DEF RootSlots
  <2> QED
    BY <2>2, <2>3 DEF RootSlots
<1>3. \A j \in Reachable : Successors(j) \subseteq Successors(j)'
  <2> SUFFICES ASSUME NEW j \in Reachable, NEW f \in Fields, Resolves(fields[j][f])
               PROVE  fields[j][f].index \in Successors(j)'
    BY DEF Successors
  <2>1. fields[j][f].index \in Successors(j)
    BY DEF Successors
  <2>2. fields[j][f].index # a
    BY <2>1, ReachableIsClosed
  <2> QED
    BY <1>1, <2>2 DEF Successors
<1>4. ASSUME NEW S \in SUBSET live', Closed(S)', NEW i \in Reachable
      PROVE  i \in S
  <2>1. Closed(S \cap Reachable)
    <3>1. RootSlots \subseteq S \cap Reachable
      BY <1>2, <1>4, ReachableIsClosed DEF Closed
    <3>2. ASSUME NEW j \in S \cap Reachable PROVE Successors(j) \subseteq S \cap Reachable
      BY <1>3, <1>4, <3>2, ReachableIsClosed DEF Closed
    <3> QED
      BY <3>1, <3>2 DEF Closed
  <2>2. S \cap Reachable \in SUBSET live
    BY DEF Reachable
  <2> QED
    BY <2>1, <2>2 DEF Reachable
<1>5. Reachable \subseteq live'
  BY DEF Reachable
<1> QED
  BY <1>4, <1>5 DEF Reachable

LEMMA ExtraStep == IInv /\ NothingExtra /\ [Next]_vars => NothingExtra'
<1> SUFFICES ASSUME IInv, NothingExtra, [Next]_vars PROVE NothingExtra'
  OBVIOUS
<1>t. TypeOK
  BY DEF IInv
<1>n. live \subseteq Nat /\ at \in Nat
  BY <1>t, BoundsAssumption DEF TypeOK, TableTypeOK, CollectionTypeOK
<1>a. ASSUME phase' = "idle" PROVE NothingExtra'
  BY <1>a DEF NothingExtra
<1>b. ASSUME UNCHANGED <<table, reg>>
      PROVE  Reachable' = Reachable /\ \A h : Resolves(h)' <=> Resolves(h)
  BY <1>b DEF Reachable, Closed, RootSlots, Successors, Resolves, table
<1>c. ASSUME StartCollect PROVE NothingExtra'
  <2>1. phase' = "marking" /\ marked' = {} /\ UNCHANGED <<table, reg>>
        /\ worklist' = {reg[p] : p \in Roots} \cup PinnedHandles
    BY <1>c DEF StartCollect, ClearedMarks
  <2>2. \A h \in worklist' : Resolves(h) => h.index \in RootSlots
    BY <2>1 DEF PinnedHandles, HandleTo, RootSlots
  <2> QED
    BY <1>b, <2>1, <2>2, ReachableIsClosed DEF NothingExtra
<1>d. ASSUME NEW h \in worklist, MarkOne(h) PROVE NothingExtra'
  <2>1. phase = "marking" /\ phase' = "marking" /\ UNCHANGED <<table, reg>>
    BY <1>d DEF MarkOne
  <2>2. CASE FirstMark(h)
    <3>1. marked' = marked \cup {h.index} /\ worklist' = (worklist \ {h}) \cup Children(h.index)
      BY <1>d, <2>2 DEF MarkOne
    <3>2. h.index \in Reachable
      BY <2>1, <2>2 DEF NothingExtra, FirstMark
    <3>3. \A k \in Children(h.index) : Resolves(k) => k.index \in Reachable
      BY <3>2, ReachableIsClosed DEF Children, Successors
    <3> QED
      BY <1>b, <2>1, <3>1, <3>2, <3>3 DEF NothingExtra
  <2>3. CASE ~FirstMark(h)
    BY <1>b, <1>d, <2>1, <2>3 DEF MarkOne, NothingExtra
  <2> QED
    BY <2>2, <2>3
<1>e. ASSUME MarkDone PROVE NothingExtra'
  <2>1. \A i \in live : ~(i < 1)
    BY <1>t DEF TypeOK, TableTypeOK
  <2> QED
    BY <1>b, <1>e, <2>1 DEF MarkDone, NothingExtra, table
<1>f. ASSUME SweepOne PROVE NothingExtra'
  <2>1. /\ phase = "sweeping" /\ phase' = "sweeping" /\ at' = at + 1
        /\ UNCHANGED <<size, generation, fields, pins, reg, marked>>
    BY <1>f DEF SweepOne
  <2>2. marked \subseteq Reachable /\ Reachable \subseteq marked
    BY <2>1, ReachableIsMarked DEF NothingExtra
  <2>3. CASE Unreached(at)
    <3>1. live' = live \ {at} /\ at \notin Reachable
      BY <1>f, <2>2, <2>3 DEF SweepOne, Unreached
    <3>2. Reachable \subseteq Reachable'
      BY <2>1, <3>1, FreeingKeepsReachable
    <3>3. \A i \in live' : i < at + 1 => i < at
      BY <1>n, <3>1
    <3> QED
      BY <2>1, <2>2, <3>1, <3>2, <3>3 DEF NothingExtra
  <2>4. CASE ~Unreached(at)
    <3>1. live' = live
      BY <1>f, <2>4 DEF SweepOne
    <3>2. Reachable' = Reachable
      BY <2>1, <3>1 DEF Reachable, Closed, RootSlots, Successors, Resolves
    <3>3. \A i \in live : i < at + 1 => i < at \/ i = at
      BY <1>n
    <3> QED
      BY <2>1, <2>2, <2>4, <3>1, <3>2, <3>3 DEF NothingExtra, Unreached
  <2> QED
    BY <2>3, <2>4
<1>g. ASSUME UNCHANGED vars PROVE NothingExtra'
  BY <1>b, <1>g DEF NothingExtra, vars, collection, table
<1> QED
  BY <1>a, <1>c, <1>d, <1>e, <1>f, <1>g DEF Next, CollectorStep, AllocReused, AllocFresh, AllocFails,
     Forget, Pin, Unpin, SetPins, Copy, Load, Store, SweepDone, collection

(* A collection that ends has freed whatever no root and no pin reaches,     *)
(* cycles included, for any heap size and any graph.                         *)
THEOREM CollectionsAreComplete == Spec => GarbageReclaimed
<1>1. Init => NothingExtra
  BY DEF Init, NothingExtra
<1>2. IInv /\ NothingExtra /\ [Next]_vars
        => [phase = "sweeping" /\ phase' = "idle" => live \subseteq Reachable]_vars
  <2> SUFFICES ASSUME IInv, NothingExtra, Next, phase = "sweeping", phase' = "idle"
               PROVE  live \subseteq Reachable
    OBVIOUS
  <2>1. SweepDone
    BY DEF Next, CollectorStep, AllocReused, AllocFresh, AllocFails, Forget, Pin, Unpin, SetPins,
       Copy, Load, Store, StartCollect, MarkOne, MarkDone, SweepOne, collection
  <2>2. \A i \in live : i < at
    BY <2>1, BoundsAssumption DEF SweepDone, IInv, TypeOK, TableTypeOK
  <2> QED
    BY <2>2 DEF NothingExtra
<1> QED
  BY <1>1, <1>2, ExtraStep, Invariance, PTL DEF Spec, GarbageReclaimed
=============================================================================
