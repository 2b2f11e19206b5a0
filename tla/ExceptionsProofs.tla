-------------------------- MODULE ExceptionsProofs --------------------------
(***************************************************************************)
(* No exception object is lost to a collection in interpreted code, for    *)
(* any program, and any depth of filters run during dispatches; and a      *)
(* search goes through the clauses of a frame in the order of its table    *)
(* and passes none over, also when a filter it asked has come back to it.  *)
(***************************************************************************)
EXTENDS Exceptions, SequenceTheorems, TLAPS

Fields == {"method", "at", "stack", "filter", "pending", "resume", "inFlight"}
IsFrame(f) == DOMAIN f = Fields /\ f = [k \in Fields |-> f[k]]
IsSearch(d) == d = [object |-> d.object, clause |-> d.clause, finallies |-> d.finallies]

SafeFrame(f, objects) == IsFrame(f) /\ Held(f) \cup Carried(f) \subseteq objects
SafeSearch(d, objects) == IsSearch(d) /\ d.object \in objects

Sequences == (\E F : frames \in Seq(F)) /\ (\E D : dispatching \in Seq(D))

FramesSafe == \A i \in 1..Len(frames) : SafeFrame(frames[i], live)
SearchesSafe == \A i \in 1..Len(dispatching) : SafeSearch(dispatching[i], live)

\* The dispatches in progress are one for each filter being run, in order, and
\* the one that is searching.
Pending == IF searching THEN 1 ELSE 0
FiltersNest ==
  /\ \A i \in 1..Len(frames) : frames[i].filter \in Nat
  /\ \A i \in 1..Len(frames) : frames[i].filter + Pending <= Len(dispatching)
  /\ \A i, j \in 1..Len(frames) :
       i < j /\ frames[j].filter > 0 => frames[i].filter < frames[j].filter
  /\ frames # <<>> => frames[1].filter = 0
  /\ status = "running" => frames # <<>>

EhInv == Sequences /\ FramesSafe /\ SearchesSafe /\ FiltersNest

----------------------------------------------------------------------------
\* t is s up to position n, and x there.
To(s, t, n, x) ==
  /\ \E T : t \in Seq(T)
  /\ Len(t) = n
  /\ \A i \in 1..(n - 1) : t[i] = s[i]
  /\ n > 0 => t[n] = x

LEMMA ToAppend ==
  ASSUME NEW S, NEW s \in Seq(S), NEW x
  PROVE  To(s, Append(s, x), Len(s) + 1, x)
<1>1. S \subseteq S \cup {x}
  OBVIOUS
<1>2. s \in Seq(S \cup {x}) /\ Len(s) \in Nat
  BY <1>1, SeqMonotonic, LenProperties
<1>3. /\ Append(s, x) \in Seq(S \cup {x})
      /\ Len(Append(s, x)) = Len(s) + 1
      /\ \A i \in 1..Len(s) : Append(s, x)[i] = s[i]
      /\ Append(s, x)[Len(s) + 1] = x
  BY <1>2, AppendProperties
<1> QED
  BY <1>2, <1>3 DEF To

LEMMA ToCut ==
  ASSUME NEW S, NEW s \in Seq(S), NEW n \in 0..Len(s)
  PROVE  To(s, SubSeq(s, 1, n), n, s[n])
<1>1. n \in Int /\ n >= 0 /\ \A i \in 1..n : s[i] \in S
  BY ElementOfSeq, LenProperties
<1>2. /\ SubSeq(s, 1, n) \in Seq(S)
      /\ Len(SubSeq(s, 1, n)) = n
      /\ \A i \in 1..n : SubSeq(s, 1, n)[i] = s[i]
  BY <1>1, SubSeqProperties
<1>3. \E T : SubSeq(s, 1, n) \in Seq(T)
  BY <1>2
<1>4. n > 0 => SubSeq(s, 1, n)[n] = s[n]
  BY <1>1, <1>2
<1> QED
  BY <1>1, <1>2, <1>3, <1>4 DEF To

LEMMA ToCutAndAppend ==
  ASSUME NEW S, NEW s \in Seq(S), NEW n \in 0..Len(s), NEW x
  PROVE  To(s, Append(SubSeq(s, 1, n), x), n + 1, x)
<1> DEFINE c == SubSeq(s, 1, n)
<1>1. To(s, c, n, s[n])
  BY ToCut
<1>2. PICK T : c \in Seq(T)
  BY <1>1 DEF To
<1>3. To(c, Append(c, x), n + 1, x)
  BY <1>1, <1>2, ToAppend DEF To
<1> QED
  BY <1>1, <1>3 DEF To

LEMMA ToReplace ==
  ASSUME NEW S, NEW s \in Seq(S), Len(s) > 0, NEW x
  PROVE  To(s, [s EXCEPT ![Len(s)] = x], Len(s), x)
<1>1. S \subseteq S \cup {x}
  OBVIOUS
<1>2. s \in Seq(S \cup {x}) /\ Len(s) \in 1..Len(s)
  BY <1>1, SeqMonotonic, LenProperties
<1> QED
  BY <1>2, ExceptSeq DEF To

LEMMA ToSame ==
  ASSUME NEW S, NEW s \in Seq(S)
  PROVE  To(s, s, Len(s), s[Len(s)])
<1>1. Len(s) \in Nat
  BY LenProperties
<1> QED
  BY <1>1 DEF To

\* What every step has to show.
LEMMA Preserved ==
  ASSUME EhInv,
         NEW n \in 0..(Len(frames) + 1), NEW f, To(frames, frames', n, f),
         NEW m \in 0..(Len(dispatching) + 1), NEW d, To(dispatching, dispatching', m, d),
         live \subseteq live',
         n > 0 => SafeFrame(f, live'), m > 0 => SafeSearch(d, live'),
         n > 0 => f.filter \in Nat /\ f.filter + Pending' <= m,
         \A i \in 1..(n - 1) : frames[i].filter + Pending' <= m,
         n > 0 /\ f.filter > 0 => \A i \in 1..(n - 1) : frames[i].filter < f.filter,
         n = 1 => f.filter = 0,
         status' = "running" => n > 0
  PROVE  EhInv'
<1>1. Sequences'
  BY DEF To, Sequences
<1>2. /\ Len(frames') = n /\ Len(dispatching') = m /\ n \in Nat /\ m \in Nat
      /\ \A i \in 1..n : frames'[i] = IF i = n THEN f ELSE frames[i]
      /\ \A i \in 1..m : dispatching'[i] = IF i = m THEN d ELSE dispatching[i]
      /\ Len(frames) \in Nat /\ Len(dispatching) \in Nat
  <2>1. Len(frames) \in Nat /\ Len(dispatching) \in Nat
    BY LenProperties DEF EhInv, Sequences
  <2> QED
    BY <2>1 DEF To
<1>3. FramesSafe'
  <2> SUFFICES ASSUME NEW i \in 1..n PROVE SafeFrame(frames'[i], live')
    BY <1>2 DEF FramesSafe
  <2>1. CASE i = n
    BY <2>1, <1>2
  <2>2. CASE i # n
    <3>1. SafeFrame(frames[i], live) /\ frames'[i] = frames[i]
      BY <2>2, <1>2 DEF EhInv, FramesSafe
    <3> QED
      BY <3>1 DEF SafeFrame
  <2> QED
    BY <2>1, <2>2
<1>4. SearchesSafe'
  <2> SUFFICES ASSUME NEW i \in 1..m PROVE SafeSearch(dispatching'[i], live')
    BY <1>2 DEF SearchesSafe
  <2>1. CASE i = m
    BY <2>1, <1>2
  <2>2. CASE i # m
    <3>1. SafeSearch(dispatching[i], live) /\ dispatching'[i] = dispatching[i]
      BY <2>2, <1>2 DEF EhInv, SearchesSafe
    <3> QED
      BY <3>1 DEF SafeSearch
  <2> QED
    BY <2>1, <2>2
<1>5. FiltersNest'
  <2> USE DEF EhInv, FiltersNest
  <2>1. \A i \in 1..n : frames'[i].filter \in Nat /\ frames'[i].filter + Pending' <= m
    BY <1>2
  <2>2. ASSUME NEW i \in 1..n, NEW j \in 1..n, i < j, frames'[j].filter > 0
        PROVE  frames'[i].filter < frames'[j].filter
    BY <1>2, <2>2
  <2>3. frames' # <<>> => frames'[1].filter = 0
    <3> SUFFICES ASSUME frames' # <<>> PROVE frames'[1].filter = 0
      OBVIOUS
    <3>1. n > 0
      BY <1>1, <1>2, EmptySeq DEF Sequences
    <3>2. CASE n = 1
      BY <3>2, <1>2
    <3>3. CASE n > 1
      <4>1. frames # <<>> /\ frames'[1] = frames[1]
        BY <3>3, <1>2
      <4> QED
        BY <4>1
    <3> QED
      BY <3>1, <3>2, <3>3
  <2>4. status' = "running" => frames' # <<>>
    BY <1>2
  <2> QED
    BY <1>2, <2>1, <2>2, <2>3, <2>4
<1> QED
  BY <1>1, <1>3, <1>4, <1>5 DEF EhInv

----------------------------------------------------------------------------
\* The running frame and the innermost dispatch.
LEMMA Running ==
  ASSUME EhInv, status = "running"
  PROVE  /\ Depth \in Nat \ {0} /\ Len(dispatching) \in Nat
         /\ \E F : frames \in Seq(F)
         /\ \E D : dispatching \in Seq(D)
         /\ SafeFrame(Top, live) /\ Top.filter \in Nat
         /\ To(frames, frames, Depth, Top)
         /\ To(dispatching, dispatching, Len(dispatching), Current)
         /\ Len(dispatching) > 0 => SafeSearch(Current, live)
         /\ \A i \in 1..Depth : frames[i].filter + Pending <= Len(dispatching)
         /\ Top.filter > 0 => \A i \in 1..(Depth - 1) : frames[i].filter < Top.filter
         /\ Depth = 1 => Top.filter = 0
<1> USE DEF EhInv, Sequences
<1>1. PICK F, D : frames \in Seq(F) /\ dispatching \in Seq(D)
  OBVIOUS
<1>2. Depth \in Nat \ {0} /\ Len(dispatching) \in Nat
  BY <1>1, LenProperties, EmptySeq DEF Depth, FiltersNest
<1>3. To(frames, frames, Depth, Top) /\ To(dispatching, dispatching, Len(dispatching), Current)
  BY <1>1, ToSame DEF Depth, Top, Current
<1>4. SafeFrame(Top, live) /\ Top.filter \in Nat
  BY <1>2 DEF FramesSafe, FiltersNest, Depth, Top
<1>5. Len(dispatching) > 0 => SafeSearch(Current, live)
  BY <1>2 DEF SearchesSafe, Current
<1>6. /\ \A i \in 1..Depth : frames[i].filter + Pending <= Len(dispatching)
      /\ Top.filter > 0 => \A i \in 1..(Depth - 1) : frames[i].filter < Top.filter
      /\ Depth = 1 => Top.filter = 0
  BY <1>2 DEF FiltersNest, Depth, Top
<1> QED
  BY <1>1, <1>2, <1>3, <1>4, <1>5, <1>6

LEMMA TopTo ==
  ASSUME EhInv, status = "running", NEW f, frames' = WithTop(f)
  PROVE  To(frames, frames', Depth, f)
<1>1. PICK F : frames \in Seq(F)
  BY DEF EhInv, Sequences
<1>2. Len(frames) > 0 /\ frames' = [frames EXCEPT ![Len(frames)] = f]
  BY Running DEF WithTop, Depth
<1> QED
  BY <1>1, <1>2, ToReplace DEF Depth

\* Steps that change the running frame alone.
LEMMA SameDispatches ==
  ASSUME EhInv, status = "running",
         NEW f, To(frames, frames', Depth, f), f.filter = Top.filter,
         live \subseteq live', SafeFrame(f, live'),
         UNCHANGED <<dispatching, searching>>
  PROVE  EhInv'
<1>1. Pending' = Pending
  BY DEF Pending
<1> DEFINE m == Len(dispatching)
<1>2. Depth \in 0..(Len(frames) + 1) /\ m \in 0..(m + 1) /\ Depth > 0
  BY Running DEF Depth
<1>3. To(dispatching, dispatching', m, Current)
  BY Running
<1>4. m > 0 => SafeSearch(Current, live')
  BY Running DEF SafeSearch
<1>5. f.filter \in Nat /\ f.filter + Pending' <= m
  BY <1>1, <1>2, Running DEF Top
<1>6. \A i \in 1..(Depth - 1) : frames[i].filter + Pending' <= m
  BY <1>1, <1>2, Running
<1>7. f.filter > 0 => \A i \in 1..(Depth - 1) : frames[i].filter < f.filter
  BY Running
<1>8. Depth = 1 => f.filter = 0
  BY Running
<1> QED
  BY <1>2, <1>3, <1>4, <1>5, <1>6, <1>7, <1>8, Preserved

\* Steps that raise an exception.
LEMMA OneMoreDispatch ==
  ASSUME EhInv, status = "running", ~searching,
         NEW f, To(frames, frames', Depth, f), f.filter = Top.filter,
         live \subseteq live', SafeFrame(f, live'),
         NEW object \in live', Raise(object)
  PROVE  EhInv'
<1> DEFINE m == Len(dispatching) + 1
<1>1. PICK D : dispatching \in Seq(D)
  BY Running
<1>2. To(dispatching, dispatching', m, Search(object))
  BY <1>1, ToAppend DEF Raise
<1>3. SafeSearch(Search(object), live')
  BY DEF SafeSearch, IsSearch, Search
<1>4. Pending = 0 /\ Pending' = 1
  BY DEF Pending, Raise
<1>5. \A i \in 1..Depth : frames[i].filter \in Nat /\ frames[i].filter + Pending' <= m
  BY <1>4, Running DEF EhInv, FiltersNest, Depth
<1>6. Depth \in 0..(Len(frames) + 1) /\ m \in 0..m /\ Depth > 0 /\ m > 0
  BY Running DEF Depth
<1>7. f.filter \in Nat /\ f.filter + Pending' <= m
  BY <1>5, <1>6, Running DEF Top
<1>8. \A i \in 1..(Depth - 1) : frames[i].filter + Pending' <= m
  BY <1>5, <1>6
<1>9. f.filter > 0 => \A i \in 1..(Depth - 1) : frames[i].filter < f.filter
  BY Running
<1>10. Depth = 1 => f.filter = 0
  BY Running
<1> QED
  BY <1>2, <1>3, <1>6, <1>7, <1>8, <1>9, <1>10, Preserved

\* Steps that look at the next clause.
LEMMA NextClauseTo ==
  ASSUME EhInv, status = "running", Len(dispatching) > 0, NEW fs, NextClause(fs)
  PROVE  To(dispatching, dispatching', Len(dispatching), Onward(Current, fs))
<1>1. PICK D : dispatching \in Seq(D)
  BY Running
<1> QED
  BY <1>1, ToReplace DEF NextClause

LEMMA OnwardIsSafe ==
  ASSUME NEW d, NEW fs, SafeSearch(d, live), live' = live
  PROVE  SafeSearch(Onward(d, fs), live')
BY DEF SafeSearch, IsSearch, Onward

LEMMA SearchIsUnderWay ==
  ASSUME EhInv, Searching
  PROVE  Len(dispatching) > 0 /\ SafeSearch(Current, live) /\ Current.object \in live
<1>1. frames[Depth].filter \in Nat /\ frames[Depth].filter + 1 <= Len(dispatching)
  BY Running DEF Searching, Pending, Top
<1> QED
  BY <1>1, Running DEF Searching, SafeSearch

LEMMA SameFrames ==
  ASSUME EhInv, Searching, NEW fs, NextClause(fs), UNCHANGED <<frames, searching, live>>
  PROVE  EhInv'
<1> DEFINE m == Len(dispatching)
           c == Onward(Current, fs)
<1>1. status = "running" /\ Pending' = Pending
  BY DEF Searching, Pending
<1>2. m > 0 /\ SafeSearch(c, live')
  BY SearchIsUnderWay, OnwardIsSafe
<1>3. To(dispatching, dispatching', m, c)
  BY <1>1, <1>2, NextClauseTo
<1>4. To(frames, frames', Depth, Top) /\ SafeFrame(Top, live')
  BY <1>1, Running
<1>5. Depth \in 0..(Len(frames) + 1) /\ m \in 0..(m + 1) /\ Depth > 0
  BY <1>1, Running DEF Depth
<1>6. Top.filter \in Nat /\ Top.filter + Pending' <= m
  BY <1>1, <1>5, Running DEF Top
<1>7. \A i \in 1..(Depth - 1) : frames[i].filter + Pending' <= m
  BY <1>1, <1>5, Running
<1>8. /\ Top.filter > 0 => \A i \in 1..(Depth - 1) : frames[i].filter < Top.filter
      /\ Depth = 1 => Top.filter = 0
  BY <1>1, Running
<1>9. live \subseteq live'
  OBVIOUS
<1> HIDE DEF c
<1> QED
  BY <1>2, <1>3, <1>4, <1>5, <1>6, <1>7, <1>8, <1>9, Preserved

----------------------------------------------------------------------------
\* The invariant holds initially.

LEMMA InitHolds == EhInit => EhInv
<1> SUFFICES ASSUME EhInit PROVE EhInv
  OBVIOUS
<1> DEFINE f == NewFrame(1, 1, <<>>, 0)
<1>1. frames \in Seq({f}) /\ dispatching \in Seq({})
  BY DEF EhInit
<1>2. Len(frames) = 1 /\ frames[1] = f /\ Len(dispatching) = 0
  BY DEF EhInit
<1>3. SafeFrame(f, live) /\ f.filter = 0
  BY DEF SafeFrame, IsFrame, Fields, NewFrame, Held, Carried
<1>4. Pending = 0 /\ frames # <<>>
  BY <1>2 DEF EhInit, Pending
<1> HIDE DEF f
<1> QED
  BY <1>1, <1>2, <1>3, <1>4 DEF EhInv, Sequences, FramesSafe, SearchesSafe, FiltersNest

\* What a frame holds after it was given control, or gave some up.
LEMMA EmptyFrame ==
  ASSUME NEW method, NEW at, NEW filter, NEW objects
  PROVE  SafeFrame(NewFrame(method, at, <<>>, filter), objects)
BY DEF SafeFrame, IsFrame, Fields, NewFrame, Held, Carried

Lighter(g, f) ==
  /\ IsFrame(g) /\ g.filter = f.filter
  /\ g.inFlight = NoObject \/ g.inFlight = f.inFlight
  /\ \/ g.stack = <<>> \/ g.stack = f.stack
     \/ g.stack = <<f.inFlight>> /\ f.inFlight # NoObject

LEMMA HeldFewer ==
  ASSUME NEW f, NEW g, NEW objects, SafeFrame(f, objects), Lighter(g, f)
  PROVE  SafeFrame(g, objects)
<1>1. Carried(g) \subseteq Carried(f)
  BY DEF Carried, Lighter
<1>2. Held(g) \subseteq Held(f) \cup Carried(f)
  <2>1. CASE g.stack = <<>>
    BY <2>1 DEF Held
  <2>2. CASE g.stack = f.stack
    BY <2>2 DEF Held
  <2>3. CASE g.stack = <<f.inFlight>> /\ f.inFlight # NoObject
    BY <2>3 DEF Held, Carried
  <2> QED
    BY <2>1, <2>2, <2>3 DEF Lighter
<1> QED
  BY <1>1, <1>2 DEF SafeFrame, Lighter

\* A step of one frame, which it leaves with no more than it held.
LEMMA FrameStep ==
  ASSUME EhInv, status = "running",
         NEW f, frames' = WithTop(f), Lighter(f, Top),
         UNCHANGED <<dispatching, searching, live>>
  PROVE  EhInv'
<1>1. To(frames, frames', Depth, f)
  BY TopTo
<1>2. SafeFrame(f, live')
  BY Running, HeldFewer
<1>3. live \subseteq live' /\ f.filter = Top.filter
  BY DEF Lighter
<1> QED
  BY <1>1, <1>2, <1>3, SameDispatches

LEMMA LeaveHolds == ASSUME EhInv, Leave PROVE EhInv'
<1> DEFINE queue == FinalliesLeft(Top.at, Instruction.target)
           f == [Top EXCEPT !.inFlight = NoObject, !.stack = <<>>]
           g == IF queue = <<>>
                  THEN [f EXCEPT !.at = Instruction.target]
                  ELSE [f EXCEPT !.at = queue[1], !.pending = Tail(queue),
                                 !.resume = Instruction.target]
<1>1. status = "running" /\ frames' = WithTop(g) /\ UNCHANGED <<dispatching, searching, live>>
  BY DEF Leave, Executing
<1>2. IsFrame(Top)
  BY <1>1, Running DEF SafeFrame
<1>3. Lighter(g, Top)
  BY <1>2 DEF IsFrame, Fields, Lighter
<1> HIDE DEF g
<1> QED
  BY <1>1, <1>3, FrameStep

LEMMA EndfinallyHolds ==
  ASSUME EhInv, NextFinally \/ ResumeAtTarget \/ FallThrough PROVE EhInv'
<1>1. status = "running" /\ UNCHANGED <<dispatching, searching, live>>
  BY DEF NextFinally, ResumeAtTarget, FallThrough, LastFinally, Executing
<1>2. IsFrame(Top)
  BY <1>1, Running DEF SafeFrame
<1>3. CASE NextFinally
  <2> DEFINE g == [Top EXCEPT !.at = Head(Top.pending), !.pending = Tail(Top.pending), !.stack = <<>>]
  <2>1. frames' = WithTop(g)
    BY <1>3 DEF NextFinally
  <2>2. Lighter(g, Top)
    BY <1>2 DEF IsFrame, Fields, Lighter
  <2> HIDE DEF g
  <2> QED
    BY <1>1, <2>1, <2>2, FrameStep
<1>4. CASE ResumeAtTarget
  <2> DEFINE g == [Top EXCEPT !.at = Top.resume, !.resume = Nowhere,
                              !.stack = IF Top.inFlight = NoObject
                                          THEN <<>> ELSE <<Top.inFlight>>]
  <2>1. frames' = WithTop(g)
    BY <1>4 DEF ResumeAtTarget
  <2>2. Lighter(g, Top)
    BY <1>2 DEF IsFrame, Fields, Lighter
  <2> HIDE DEF g
  <2> QED
    BY <1>1, <2>1, <2>2, FrameStep
<1>5. CASE FallThrough
  <2> DEFINE g == [Top EXCEPT !.resume = Nowhere, !.at = Top.at + 1]
  <2>1. frames' = WithTop(g)
    BY <1>5 DEF FallThrough
  <2>2. Lighter(g, Top)
    BY <1>2 DEF IsFrame, Fields, Lighter
  <2> HIDE DEF g
  <2> QED
    BY <1>1, <2>1, <2>2, FrameStep
<1> QED
  BY <1>3, <1>4, <1>5

\* The thread, or the program, ends.
LEMMA EndHolds ==
  ASSUME EhInv, frames' = <<>>, status' # "running", UNCHANGED live,
         dispatching' \in {dispatching, <<>>}
  PROVE  EhInv'
<1>1. FramesSafe' /\ FiltersNest'
  BY DEF FramesSafe, FiltersNest
<1>2. CASE dispatching' = dispatching
  <2>1. Sequences' /\ SearchesSafe'
    BY <1>2 DEF EhInv, Sequences, SearchesSafe, SafeSearch
  <2> QED
    BY <1>1, <2>1 DEF EhInv
<1>3. CASE dispatching' = <<>>
  <2>1. Sequences' /\ SearchesSafe'
    BY <1>3 DEF Sequences, SearchesSafe
  <2> QED
    BY <1>1, <2>1 DEF EhInv
<1> QED
  BY <1>2, <1>3

LEMMA PopHolds == ASSUME EhInv, Pop PROVE EhInv'
<1>1. status = "running" /\ UNCHANGED <<dispatching, searching, live>>
  BY DEF Pop, Executing
<1>2. CASE Top.stack # <<>>
  <2> DEFINE g == [Top EXCEPT !.stack = <<>>, !.at = Top.at + 1]
  <2>1. frames' = WithTop(g)
    BY <1>2 DEF Pop
  <2>2. Lighter(g, Top)
    BY <1>1, Running DEF SafeFrame, IsFrame, Fields, Lighter
  <2> HIDE DEF g
  <2> QED
    BY <1>1, <2>1, <2>2, FrameStep
<1>3. CASE Top.stack = <<>>
  <2>1. frames' = <<>> /\ status' # "running"
    BY <1>3 DEF Pop
  <2> QED
    BY <1>1, <2>1, EndHolds
<1> QED
  BY <1>2, <1>3

----------------------------------------------------------------------------
\* A collection, while a leaf runs.

LEMMA WhatIsRooted ==
  ASSUME EhInv
  PROVE  /\ \A i \in 1..Len(frames) : Held(frames[i]) \cup Carried(frames[i]) \subseteq Roots
         /\ \A i \in 1..Len(dispatching) : dispatching[i].object \in Roots
<1>1. Len(frames) \in Nat /\ Len(dispatching) \in Nat
      /\ DOMAIN dispatching = 1..Len(dispatching)
  BY LenProperties DEF EhInv, Sequences
<1>2. \A i \in 1..Len(frames) : Held(frames[i]) \cup Carried(frames[i]) \subseteq Roots
  <2> DEFINE H(i) == Held(frames[i]) \cup Carried(frames[i])
  <2>1. FrameRoots = UNION {H(i) : i \in 1..Len(frames)}
    BY DEF FrameRoots, Depth
  <2> HIDE DEF H
  <2>2. \A i \in 1..Len(frames) : H(i) \subseteq Roots
    BY <2>1 DEF Roots
  <2> QED
    BY <2>2 DEF H
<1>3. \A i \in 1..Len(dispatching) : dispatching[i].object \in Dispatched
  BY <1>1 DEF Dispatched
<1> QED
  BY <1>2, <1>3 DEF Roots

LEMMA MarkHolds ==
  ASSUME EhInv, "compiled" \notin Tiers, Mark PROVE EhInv'
<1> DEFINE g == [Top EXCEPT !.at = @ + 1]
<1>1. /\ status = "running" /\ UNCHANGED <<dispatching, searching, status>>
      /\ frames' = WithTop(g) /\ live' \in {live, live \cap Roots}
  BY DEF Mark, Executing, Advance
<1>2. IsFrame(g) /\ g.filter = Top.filter /\ g.stack = Top.stack /\ g.inFlight = Top.inFlight
  BY <1>1, Running DEF SafeFrame, IsFrame, Fields
<1> HIDE DEF g
<1>3. To(frames, frames', Depth, g)
  BY <1>1, TopTo
<1>4. PICK F, D : frames \in Seq(F) /\ dispatching \in Seq(D)
  BY DEF EhInv, Sequences
<1>5. /\ Depth \in Nat \ {0} /\ Len(frames) = Depth /\ Len(frames') = Depth
      /\ \A i \in 1..Depth : frames'[i] = IF i = Depth THEN g ELSE frames[i]
      /\ \E T : frames' \in Seq(T)
  BY <1>1, <1>3, Running DEF To, Depth
<1>6. \A i \in 1..Depth : SafeFrame(frames[i], live')
  BY <1>1, <1>5, WhatIsRooted DEF EhInv, FramesSafe, SafeFrame
<1>7. FramesSafe'
  BY <1>2, <1>5, <1>6 DEF FramesSafe, SafeFrame, Held, Carried, Top
<1>8. SearchesSafe'
  BY <1>1, WhatIsRooted DEF EhInv, SearchesSafe, SafeSearch
<1>9. Pending' = Pending
  BY <1>1 DEF Pending
<1>10. \A i \in 1..Depth : frames'[i].filter = frames[i].filter
  BY <1>2, <1>5 DEF Top
<1>11. frames' # <<>> /\ frames # <<>>
  BY <1>5
<1>12. FiltersNest'
  BY <1>1, <1>5, <1>9, <1>10, <1>11 DEF EhInv, FiltersNest
<1>13. Sequences'
  BY <1>1, <1>4, <1>5 DEF Sequences
<1> QED
  BY <1>7, <1>8, <1>12, <1>13 DEF EhInv

----------------------------------------------------------------------------
\* Raising.

LEMMA ThrowHolds == ASSUME EhInv, Throw PROVE EhInv'
<1> DEFINE object == [type |-> Instruction.type, id |-> born + 1]
<1>1. status = "running" /\ ~searching /\ live' = live \cup {object} /\ Raise(object)
  BY DEF Throw, Executing, RaiseNew
<1>2. To(frames, frames', Depth, Top)
  BY <1>1, Running DEF Throw
<1>3. live \subseteq live' /\ object \in live'
  BY <1>1
<1>4. SafeFrame(Top, live')
  BY <1>1, <1>3, Running DEF SafeFrame
<1> HIDE DEF object
<1> QED
  BY <1>1, <1>2, <1>3, <1>4, OneMoreDispatch

LEMMA RethrowHolds == ASSUME EhInv, Rethrow PROVE EhInv'
<1> DEFINE new == [type |-> "InvalidOperation", id |-> born + 1]
           object == IF Top.inFlight = NoObject THEN new ELSE Top.inFlight
           g == [Top EXCEPT !.inFlight = NoObject]
<1>1. /\ status = "running" /\ ~searching /\ frames' = WithTop(g) /\ Raise(object)
      /\ live' = IF Top.inFlight = NoObject THEN live \cup {new} ELSE live
  BY DEF Rethrow, Executing, RaiseNew
<1>2. To(frames, frames', Depth, g)
  BY <1>1, TopTo
<1>3. SafeFrame(Top, live)
  BY <1>1, Running
<1>4. Lighter(g, Top)
  BY <1>3 DEF SafeFrame, IsFrame, Fields, Lighter
<1>5. live \subseteq live' /\ object \in live'
  BY <1>1, <1>3 DEF SafeFrame, Carried
<1>6. SafeFrame(Top, live')
  BY <1>3, <1>5 DEF SafeFrame
<1>7. SafeFrame(g, live') /\ g.filter = Top.filter
  BY <1>4, <1>6, HeldFewer DEF Lighter
<1> HIDE DEF object, g
<1> QED
  BY <1>1, <1>2, <1>5, <1>7, OneMoreDispatch

LEMMA ResumePropagatingHolds == ASSUME EhInv, ResumePropagating PROVE EhInv'
<1> DEFINE g == [Top EXCEPT !.resume = Nowhere, !.inFlight = NoObject]
<1>1. /\ status = "running" /\ ~searching /\ frames' = WithTop(g) /\ Raise(Top.inFlight)
      /\ Top.inFlight # NoObject /\ live' = live
  BY DEF ResumePropagating, LastFinally, Executing
<1>2. To(frames, frames', Depth, g)
  BY <1>1, TopTo
<1>3. SafeFrame(Top, live)
  BY <1>1, Running
<1>4. Lighter(g, Top)
  BY <1>3 DEF SafeFrame, IsFrame, Fields, Lighter
<1>5. live \subseteq live' /\ Top.inFlight \in live'
  BY <1>1, <1>3 DEF SafeFrame, Carried
<1>6. SafeFrame(g, live') /\ g.filter = Top.filter
  BY <1>1, <1>3, <1>4, HeldFewer DEF Lighter
<1> HIDE DEF g
<1> QED
  BY <1>1, <1>2, <1>5, <1>6, OneMoreDispatch

----------------------------------------------------------------------------
\* The search.

LEMMA ClauseHolds == ASSUME EhInv, SkipClause \/ QueueFinally PROVE EhInv'
<1>1. Searching /\ UNCHANGED <<frames, searching, live>> /\ \E fs : NextClause(fs)
  BY DEF SkipClause, QueueFinally
<1> QED
  BY <1>1, SameFrames

LEMMA TakesIsSafe ==
  ASSUME NEW f, SafeFrame(f, live), SafeSearch(Current, live), NEW target
  PROVE  SafeFrame(Takes(f, target), live) /\ Takes(f, target).filter = f.filter
<1> DEFINE g == Takes(f, target)
<1>1. IsFrame(g) /\ g.filter = f.filter /\ g.inFlight = Current.object
  BY DEF Takes, SafeFrame, IsFrame, Fields
<1>2. g.stack = <<>> \/ g.stack = <<Current.object>>
  BY DEF Takes, SafeFrame, IsFrame, Fields
<1> HIDE DEF g
<1>3. Held(g) \cup Carried(g) \subseteq live
  BY <1>1, <1>2 DEF Held, Carried, SafeSearch
<1>4. SafeFrame(g, live) /\ g.filter = f.filter
  BY <1>1, <1>3 DEF SafeFrame
<1> QED
  BY <1>4 DEF g

LEMMA TakeControlHolds ==
  ASSUME EhInv, status = "running", Len(dispatching) > 0, live' = live,
         NEW n \in 1..Depth, \A i \in 1..n : frames[i].filter < Len(dispatching),
         NEW target, TakeControl(SubSeq(frames, 1, n - 1), frames[n], target)
  PROVE  EhInv'
<1> DEFINE m == Len(dispatching) - 1
           f == Takes(frames[n], target)
<1>1. PICK F, D : frames \in Seq(F) /\ dispatching \in Seq(D)
  BY DEF EhInv, Sequences
<1>2. /\ Depth \in Nat /\ Depth = Len(frames) /\ Len(dispatching) \in Nat
      /\ n \in Nat \ {0} /\ m \in Nat
  BY Running DEF Depth
<1>3. n - 1 \in 0..Len(frames) /\ m \in 0..Len(dispatching) /\ (n - 1) + 1 = n
  BY <1>2
<1>4. To(frames, frames', n, f)
  BY <1>1, <1>3, ToCutAndAppend DEF TakeControl
<1>5. To(dispatching, dispatching', m, dispatching[m])
  BY <1>1, <1>3, ToCut DEF TakeControl, AllButLast
<1>6. SafeFrame(frames[n], live)
  BY <1>2 DEF EhInv, FramesSafe
<1>7. SafeFrame(f, live') /\ f.filter = frames[n].filter
  BY <1>6, Running, TakesIsSafe
<1>8. m > 0 => SafeSearch(dispatching[m], live')
  BY <1>2 DEF EhInv, SearchesSafe
<1>9. Pending' = 0
  BY DEF Pending, TakeControl
<1>10. \A i \in 1..n : frames[i].filter \in Nat /\ frames[i].filter + Pending' <= m
  BY <1>2, <1>9 DEF EhInv, FiltersNest
<1>11. /\ f.filter > 0 => \A i \in 1..(n - 1) : frames[i].filter < f.filter
       /\ n = 1 => f.filter = 0
  BY <1>2, <1>7 DEF EhInv, FiltersNest
<1>12. n \in 0..(Len(frames) + 1) /\ m \in 0..(Len(dispatching) + 1) /\ n > 0
  BY <1>2
<1>13. /\ n > 0 => SafeFrame(f, live')
       /\ n > 0 => f.filter \in Nat /\ f.filter + Pending' <= m
       /\ \A i \in 1..(n - 1) : frames[i].filter + Pending' <= m
  BY <1>2, <1>7, <1>10
<1>14. live \subseteq live'
  OBVIOUS
<1> HIDE DEF f, m
<1> QED
  BY <1>4, <1>5, <1>8, <1>11, <1>12, <1>13, <1>14, Preserved

LEMMA HandlerHolds == ASSUME EhInv, CatchFound \/ FinallyFirst PROVE EhInv'
<1>1. /\ Searching /\ live' = live
      /\ \E target : TakeControl(SubSeq(frames, 1, Depth - 1), frames[Depth], target)
  BY DEF CatchFound, FinallyFirst, AllButLast, Top, Depth
<1>2. status = "running" /\ Len(dispatching) > 0 /\ Depth \in 1..Depth
  BY <1>1, SearchIsUnderWay, Running DEF Searching
<1>3. \A i \in 1..Depth : frames[i].filter < Len(dispatching)
  BY <1>1, <1>2, Running DEF Searching, Pending, EhInv, FiltersNest, Depth
<1> QED
  BY <1>1, <1>2, <1>3, TakeControlHolds

LEMMA Nesting ==
  ASSUME EhInv, NEW n \in 1..Len(frames)
  PROVE  /\ SafeFrame(frames[n], live)
         /\ frames[n].filter \in Nat /\ frames[n].filter + Pending <= Len(dispatching)
         /\ frames[n].filter > 0 => \A i \in 1..(n - 1) : frames[i].filter < frames[n].filter
         /\ n = 1 => frames[n].filter = 0
<1>1. Len(frames) \in Nat
  BY LenProperties DEF EhInv, Sequences
<1>2. frames # <<>>
  BY <1>1
<1> QED
  BY <1>1, <1>2 DEF EhInv, FiltersNest, FramesSafe

\* The caller is searched, or the frame a filter was asked for by.
LEMMA UnwindHolds == ASSUME EhInv, Unwind PROVE EhInv'
<1> DEFINE n == Depth - 1
           m == Len(dispatching)
           c == Search(Current.object)
<1>1. /\ Searching /\ status = "running" /\ Depth > 1 /\ live' = live /\ searching' = searching
      /\ frames' = SubSeq(frames, 1, n) /\ dispatching' = Append(SubSeq(dispatching, 1, m - 1), c)
  BY DEF Unwind, Popped, AllButLast, Searching, Depth
<1>2. PICK F, D : frames \in Seq(F) /\ dispatching \in Seq(D)
  BY DEF EhInv, Sequences
<1>3. Depth \in Nat /\ Depth = Len(frames) /\ m \in Nat \ {0}
  BY <1>1, Running, SearchIsUnderWay DEF Depth
<1>4. n \in 0..Len(frames) /\ m - 1 \in 0..Len(dispatching) /\ (m - 1) + 1 = m
  BY <1>1, <1>3
<1>5. To(frames, frames', n, frames[n])
  BY <1>1, <1>2, <1>4, ToCut
<1>6. To(dispatching, dispatching', m, c)
  BY <1>1, <1>2, <1>4, ToCutAndAppend
<1>7. SafeSearch(c, live')
  BY <1>1, SearchIsUnderWay DEF SafeSearch, IsSearch, Search
<1>8. SafeFrame(frames[n], live')
  BY <1>1, <1>3 DEF EhInv, FramesSafe
<1>9. \A i \in 1..n : frames[i].filter \in Nat /\ frames[i].filter + Pending' <= m
  BY <1>1, <1>3 DEF Pending, EhInv, FiltersNest
<1>10. /\ frames[n].filter > 0 => \A i \in 1..(n - 1) : frames[i].filter < frames[n].filter
       /\ n = 1 => frames[n].filter = 0
  <2>1. n \in 1..Len(frames)
    BY <1>1, <1>3
  <2> HIDE DEF n
  <2> QED
    BY <2>1, Nesting
<1>11. n \in 0..(Len(frames) + 1) /\ m \in 0..(Len(dispatching) + 1) /\ n > 0
  BY <1>1, <1>3
<1>12. /\ n > 0 => frames[n].filter \in Nat /\ frames[n].filter + Pending' <= m
       /\ \A i \in 1..(n - 1) : frames[i].filter + Pending' <= m
  BY <1>3, <1>9, <1>11
<1>13. live \subseteq live'
  BY <1>1
<1> HIDE DEF n, m, c
<1> QED
  BY <1>5, <1>6, <1>7, <1>8, <1>10, <1>11, <1>12, <1>13, Preserved

\* Below the frame of a filter are the frame it is asked for and those of
\* filters of dispatches further out.
LEMMA BelowAFilter ==
  ASSUME EhInv, status = "running", Top.filter > 0
  PROVE  /\ Depth \in Nat /\ Depth > 1 /\ Depth = Len(frames)
         /\ Top.filter \in Nat /\ Top.filter + Pending <= Len(dispatching)
         /\ \A i \in 1..(Depth - 1) : frames[i].filter \in Nat /\ frames[i].filter < Top.filter
<1>1. Depth \in Nat \ {0} /\ Depth = Len(frames) /\ Top = frames[Depth]
  BY Running DEF Depth, Top
<1>2. Depth \in 1..Len(frames)
  BY <1>1
<1>3. /\ Top.filter \in Nat /\ Top.filter + Pending <= Len(dispatching)
      /\ Top.filter > 0 => \A i \in 1..(Depth - 1) : frames[i].filter < Top.filter
      /\ Depth = 1 => Top.filter = 0
  <2> HIDE DEF Depth
  <2> QED
    BY <1>1, <1>2, Nesting
<1>4. Depth # 1
  BY <1>3
<1>5. \A i \in 1..(Depth - 1) : frames[i].filter \in Nat
  BY <1>1 DEF EhInv, FiltersNest
<1> QED
  BY <1>1, <1>3, <1>4, <1>5

LEMMA OneLess ==
  ASSUME NEW k \in Nat, k >= 2
  PROVE  k - 1 \in Nat \ {0} /\ k - 1 \in 1..k
OBVIOUS

LEMMA FilterFailsHolds == ASSUME EhInv, FilterFails PROVE EhInv'
<1> DEFINE n == Depth - 1
           m == Len(dispatching) - 1
           outer == dispatching[m]
           c == Onward(outer, outer.finallies)
<1>1. /\ Searching /\ status = "running" /\ Top.filter > 0 /\ live' = live
      /\ searching' = searching /\ frames' = SubSeq(frames, 1, n)
  BY DEF FilterFails, AllButLast, Searching, Depth
<1>2. PICK F, D : frames \in Seq(F) /\ dispatching \in Seq(D)
  BY DEF EhInv, Sequences
<1>3. Depth \in Nat /\ Depth = Len(frames) /\ m \in Nat \ {0} /\ Depth > 1
      /\ Len(dispatching) \in Nat /\ Pending = 1 /\ Pending' = 1
      /\ m \in 1..Len(dispatching)
  <2>1. Pending = 1 /\ Pending' = 1 /\ Len(dispatching) \in Nat
    BY <1>1, Running DEF Searching, Pending
  <2>2. Depth \in Nat /\ Depth = Len(frames) /\ Depth > 1 /\ Len(dispatching) >= 2
    BY <1>1, <2>1, BelowAFilter
  <2>3. m \in Nat \ {0} /\ m \in 1..Len(dispatching)
    BY <2>1, <2>2, OneLess
  <2> QED
    BY <2>1, <2>2, <2>3
<1>4. n \in 0..Len(frames) /\ m - 1 \in 0..Len(dispatching) /\ (m - 1) + 1 = m
  <2>1. n \in 0..Len(frames)
    BY <1>3
  <2>2. m - 1 \in 0..Len(dispatching) /\ (m - 1) + 1 = m
    BY <1>3
  <2> QED
    BY <2>1, <2>2
<1>5. dispatching' = Append(SubSeq(dispatching, 1, m - 1), c)
  <2>1. Len(dispatching) - 2 = m - 1
    BY <1>3
  <2> QED
    BY <2>1 DEF FilterFails
<1>6. To(frames, frames', n, frames[n])
  BY <1>1, <1>2, <1>4, ToCut
<1>7. To(dispatching, dispatching', m, c)
  BY <1>2, <1>4, <1>5, ToCutAndAppend
<1>8. SafeSearch(c, live')
  <2>1. m \in 1..Len(dispatching)
    BY <1>3
  <2>2. SafeSearch(outer, live)
    <3> HIDE DEF m
    <3> QED
      BY <2>1 DEF EhInv, SearchesSafe
  <2> QED
    BY <1>1, <2>2, OnwardIsSafe
<1>9. SafeFrame(frames[n], live')
  BY <1>1, <1>3, Nesting
<1>10. \A i \in 1..n : frames[i].filter \in Nat /\ frames[i].filter + Pending' <= m
  BY <1>1, <1>3, BelowAFilter
<1>11. /\ frames[n].filter > 0 => \A i \in 1..(n - 1) : frames[i].filter < frames[n].filter
       /\ n = 1 => frames[n].filter = 0
  <2>1. n \in 1..Len(frames)
    BY <1>3
  <2> HIDE DEF n
  <2> QED
    BY <2>1, Nesting
<1>12. n \in 0..(Len(frames) + 1) /\ m \in 0..(Len(dispatching) + 1) /\ n > 0
  BY <1>3
<1>13. /\ n > 0 => frames[n].filter \in Nat /\ frames[n].filter + Pending' <= m
       /\ \A i \in 1..(n - 1) : frames[i].filter + Pending' <= m
  BY <1>3, <1>10, <1>12
<1>14. live \subseteq live'
  BY <1>1
<1> HIDE DEF n, m, c
<1> QED
  BY <1>6, <1>7, <1>8, <1>9, <1>11, <1>12, <1>13, <1>14, Preserved

LEMMA EndfilterHolds == ASSUME EhInv, Endfilter PROVE EhInv'
<1> DEFINE n == Depth - 1
           m == Len(dispatching)
           c == Onward(Current, Current.finallies)
<1>1. status = "running" /\ Top.filter > 0 /\ live' = live
  BY DEF Endfilter, Executing
<1>2. PICK F, D : frames \in Seq(F) /\ dispatching \in Seq(D)
  BY DEF EhInv, Sequences
<1>3. /\ Depth \in Nat /\ Depth = Len(frames) /\ m \in Nat \ {0} /\ Depth > 1
      /\ \A i \in 1..n : frames[i].filter \in Nat /\ frames[i].filter < m
      /\ Pending \in {0, 1}
  BY <1>1, Running, BelowAFilter DEF Depth, Pending
<1>4. CASE Instruction.accepts
  <2>1. n \in 1..Depth /\ n - 1 = Depth - 2
    BY <1>3
  <2>2. TakeControl(SubSeq(frames, 1, n - 1), frames[n], Clause.handler)
    BY <1>4, <2>1 DEF Endfilter
  <2> HIDE DEF n
  <2>3. Len(dispatching) > 0 /\ \A i \in 1..n : frames[i].filter < Len(dispatching)
    BY <1>3
  <2> QED
    BY <1>1, <2>1, <2>2, <2>3, TakeControlHolds
<1>5. CASE ~Instruction.accepts
  <2>1. /\ frames' = SubSeq(frames, 1, n) /\ searching' = TRUE
        /\ NextClause(Current.finallies)
    BY <1>5 DEF Endfilter, AllButLast, Depth
  <2>2. To(frames, frames', n, frames[n])
    BY <1>2, <1>3, <2>1, ToCut
  <2>3. To(dispatching, dispatching', m, c)
    BY <1>1, <1>3, <2>1, NextClauseTo
  <2>4. SafeSearch(c, live')
    BY <1>1, <1>3, Running, OnwardIsSafe
  <2>5. SafeFrame(frames[n], live')
    BY <1>1, <1>3, Nesting
  <2>6. Pending' = 1
    BY <2>1 DEF Pending
  <2>7. /\ frames[n].filter > 0 => \A i \in 1..(n - 1) : frames[i].filter < frames[n].filter
        /\ n = 1 => frames[n].filter = 0
    <3>1. n \in 1..Len(frames)
      BY <1>3
    <3> HIDE DEF n
    <3> QED
      BY <3>1, Nesting
  <2>8. n \in 0..(Len(frames) + 1) /\ m \in 0..(Len(dispatching) + 1) /\ n > 0
    BY <1>3
  <2>9. /\ n > 0 => frames[n].filter \in Nat /\ frames[n].filter + Pending' <= m
        /\ \A i \in 1..(n - 1) : frames[i].filter + Pending' <= m
    BY <1>3, <2>6, <2>8
  <2>10. live \subseteq live'
    BY <1>1
  <2> HIDE DEF n, m, c
  <2> QED
    BY <2>2, <2>3, <2>4, <2>5, <2>7, <2>8, <2>9, <2>10, Preserved
<1> QED
  BY <1>4, <1>5

LEMMA RunFilterHolds == ASSUME EhInv, RunFilter PROVE EhInv'
<1> DEFINE n == Depth + 1
           m == Len(dispatching)
           f == NewFrame(Top.method, Clause.filter, <<Current.object>>, m)
<1>1. Searching /\ status = "running" /\ live' = live
  BY DEF RunFilter, Searching
<1>2. CASE Depth >= MaxFrames
  BY <1>1, <1>2, SameFrames DEF RunFilter
<1>3. CASE ~(Depth >= MaxFrames)
  <2>1. frames' = Append(frames, f) /\ searching' = FALSE /\ dispatching' = dispatching
    BY <1>3 DEF RunFilter
  <2>2. PICK F : frames \in Seq(F)
    BY DEF EhInv, Sequences
  <2>3. Depth \in Nat \ {0} /\ Depth = Len(frames) /\ m \in Nat \ {0} /\ Pending = 1 /\ Pending' = 0
    BY <1>1, <2>1, Running, SearchIsUnderWay DEF Depth, Searching, Pending
  <2>4. To(frames, frames', n, f)
    BY <2>1, <2>2, <2>3, ToAppend
  <2>5. To(dispatching, dispatching', m, Current)
    BY <1>1, <2>1, Running
  <2>6. SafeSearch(Current, live')
    BY <1>1, SearchIsUnderWay
  <2>7. IsFrame(f) /\ f.stack = <<Current.object>> /\ f.inFlight = NoObject /\ f.filter = m
    BY DEF NewFrame, IsFrame, Fields
  <2> HIDE DEF f
  <2>8. SafeFrame(f, live')
    BY <1>1, <2>7, SearchIsUnderWay DEF SafeFrame, Held, Carried
  <2>9. \A i \in 1..Depth : frames[i].filter \in Nat /\ frames[i].filter < m
    BY <2>3 DEF EhInv, FiltersNest
  <2>10. n \in 0..(Len(frames) + 1) /\ m \in 0..(m + 1) /\ n > 0 /\ n # 1 /\ n - 1 = Depth
    BY <2>3
  <2> HIDE DEF n, m
  <2>11. /\ f.filter \in Nat /\ f.filter + Pending' <= m
         /\ \A i \in 1..(n - 1) : frames[i].filter + Pending' <= m
         /\ \A i \in 1..(n - 1) : frames[i].filter < f.filter
    BY <2>3, <2>7, <2>9, <2>10
  <2>12. live \subseteq live'
    BY <1>1
  <2> QED
    BY <2>4, <2>5, <2>6, <2>8, <2>10, <2>11, <2>12, Preserved DEF m
<1> QED
  BY <1>2, <1>3

----------------------------------------------------------------------------
\* Calls and returns.

LEMMA CallHolds == ASSUME EhInv, Call PROVE EhInv'
<1>1. status = "running" /\ ~searching
  BY DEF Call, Executing
<1>2. CASE Depth >= MaxFrames
  <2> DEFINE object == [type |-> "StackOverflow", id |-> born + 1]
  <2>1. frames' = frames /\ live' = live \cup {object} /\ Raise(object)
    BY <1>2 DEF Call, RaiseNew
  <2>2. To(frames, frames', Depth, Top)
    BY <1>1, <2>1, Running
  <2>3. live \subseteq live' /\ object \in live'
    BY <2>1
  <2>4. SafeFrame(Top, live')
    BY <1>1, <2>3, Running DEF SafeFrame
  <2> HIDE DEF object
  <2> QED
    BY <1>1, <2>1, <2>2, <2>3, <2>4, OneMoreDispatch
<1>3. CASE ~(Depth >= MaxFrames)
  <2> DEFINE n == Depth + 1
             m == Len(dispatching)
             f == NewFrame(Instruction.method, 1, <<>>, 0)
  <2>1. /\ frames' = Append(frames, f) /\ searching' = searching
        /\ dispatching' = dispatching /\ live' = live
    BY <1>3 DEF Call
  <2>2. PICK F : frames \in Seq(F)
    BY DEF EhInv, Sequences
  <2>3. Depth \in Nat \ {0} /\ Depth = Len(frames) /\ m \in Nat /\ Pending = 0 /\ Pending' = 0
    BY <1>1, <2>1, Running DEF Depth, Pending
  <2>4. To(frames, frames', n, f)
    BY <2>1, <2>2, <2>3, ToAppend
  <2>5. To(dispatching, dispatching', m, Current)
    BY <1>1, <2>1, Running
  <2>6. m > 0 => SafeSearch(Current, live')
    BY <1>1, <2>1, Running
  <2>7. SafeFrame(f, live') /\ f.filter = 0
    BY EmptyFrame DEF NewFrame
  <2> HIDE DEF f
  <2>8. \A i \in 1..Depth : frames[i].filter \in Nat /\ frames[i].filter <= m
    BY <2>3 DEF EhInv, FiltersNest
  <2>9. n \in 0..(Len(frames) + 1) /\ m \in 0..(m + 1) /\ n > 0 /\ n - 1 = Depth
    BY <2>3
  <2> HIDE DEF n, m
  <2>10. /\ f.filter \in Nat /\ f.filter + Pending' <= m
         /\ \A i \in 1..(n - 1) : frames[i].filter + Pending' <= m
         /\ ~(f.filter > 0)
    BY <2>3, <2>7, <2>8, <2>9
  <2>11. live \subseteq live'
    BY <2>1
  <2> QED
    BY <2>4, <2>5, <2>6, <2>7, <2>9, <2>10, <2>11, Preserved DEF m
<1> QED
  BY <1>2, <1>3

LEMMA UnhandledHolds == ASSUME EhInv, Unhandled PROVE EhInv'
<1>1. frames' = <<>> /\ status' # "running" /\ live' = live /\ dispatching' = <<>>
  BY DEF Unhandled
<1> QED
  BY <1>1, EndHolds

LEMMA RetHolds == ASSUME EhInv, Ret PROVE EhInv'
<1>1. status = "running" /\ UNCHANGED <<dispatching, searching, live>>
  BY DEF Ret, Executing
<1>2. CASE Depth = 1
  <2>1. frames' = <<>> /\ status' # "running"
    BY <1>2 DEF Ret
  <2> QED
    BY <1>1, <2>1, EndHolds
<1>3. CASE Depth # 1
  <2> DEFINE n == Depth - 1
             m == Len(dispatching)
             f == [frames[n] EXCEPT !.at = @ + 1]
  <2>1. frames' = Append(SubSeq(frames, 1, Depth - 2), f)
    BY <1>3 DEF Ret
  <2>2. PICK F : frames \in Seq(F)
    BY DEF EhInv, Sequences
  <2>3. Depth \in Nat /\ Depth > 1 /\ Depth = Len(frames) /\ m \in Nat /\ Pending' = Pending
        /\ Pending \in {0, 1}
    <3>1. Depth \in Nat \ {0} /\ Depth = Len(frames) /\ m \in Nat
      BY <1>1, Running DEF Depth
    <3>2. Pending' = Pending /\ Pending \in {0, 1}
      BY <1>1 DEF Pending
    <3> QED
      BY <1>3, <3>1, <3>2
  <2>4. /\ n \in 1..Len(frames) /\ Depth - 2 \in 0..Len(frames) /\ (Depth - 2) + 1 = n
        /\ n \in 0..(Len(frames) + 1) /\ m \in 0..(m + 1) /\ n > 0 /\ n \in Nat
    BY <2>3
  <2>5. To(frames, frames', n, f)
    BY <2>1, <2>2, <2>4, ToCutAndAppend
  <2>6. To(dispatching, dispatching', m, Current)
    BY <1>1, Running
  <2>7. m > 0 => SafeSearch(Current, live')
    BY <1>1, Running
  <2> HIDE DEF n
  <2>8. /\ SafeFrame(frames[n], live) /\ frames[n].filter \in Nat
        /\ frames[n].filter + Pending <= m
        /\ frames[n].filter > 0 => \A i \in 1..(n - 1) : frames[i].filter < frames[n].filter
        /\ n = 1 => frames[n].filter = 0
    BY <2>4, Nesting
  <2>9. Lighter(f, frames[n])
    BY <2>8 DEF SafeFrame, IsFrame, Fields, Lighter
  <2>10. SafeFrame(f, live') /\ f.filter = frames[n].filter
    BY <1>1, <2>8, <2>9, HeldFewer DEF Lighter
  <2>11. \A i \in 1..(n - 1) : frames[i].filter + Pending <= m
    BY <2>4 DEF EhInv, FiltersNest
  <2> HIDE DEF f, m
  <2>12. /\ f.filter \in Nat /\ f.filter + Pending' <= m
         /\ \A i \in 1..(n - 1) : frames[i].filter + Pending' <= m
         /\ f.filter > 0 => \A i \in 1..(n - 1) : frames[i].filter < f.filter
         /\ n = 1 => f.filter = 0
    BY <2>3, <2>8, <2>10, <2>11
  <2>13. live \subseteq live'
    BY <1>1
  <2> QED
    BY <2>4, <2>5, <2>6, <2>7, <2>10, <2>12, <2>13, Preserved DEF m
<1> QED
  BY <1>2, <1>3

----------------------------------------------------------------------------
LEMMA NextHolds ==
  ASSUME "compiled" \notin Tiers, EhInv, [EhNext]_ehVars PROVE EhInv'
<1>1. ASSUME UNCHANGED ehVars PROVE EhInv'
  BY <1>1 DEF ehVars, EhInv, Sequences, FramesSafe, SearchesSafe, FiltersNest, SafeFrame,
              SafeSearch, Pending
<1>2. CASE Mark
  BY <1>2, MarkHolds
<1>3. CASE Throw \/ Rethrow \/ ResumePropagating
  BY <1>3, ThrowHolds, RethrowHolds, ResumePropagatingHolds
<1>4. CASE Pop
  BY <1>4, PopHolds
<1>5. CASE Call \/ Ret
  BY <1>5, CallHolds, RetHolds
<1>6. CASE SkipClause \/ QueueFinally
  BY <1>6, ClauseHolds
<1>7. CASE CatchFound \/ FinallyFirst
  BY <1>7, HandlerHolds
<1>8. CASE RunFilter \/ FilterFails \/ Endfilter
  BY <1>8, RunFilterHolds, FilterFailsHolds, EndfilterHolds
<1>9. CASE Unwind \/ Unhandled
  BY <1>9, UnwindHolds, UnhandledHolds
<1>10. CASE Leave
  BY <1>10, LeaveHolds
<1>11. CASE NextFinally \/ ResumeAtTarget \/ FallThrough
  BY <1>11, EndfinallyHolds
<1>12. CASE Ended
  BY <1>1, <1>12 DEF Ended
<1> QED
  BY <1>1, <1>2, <1>3, <1>4, <1>5, <1>6, <1>7, <1>8, <1>9, <1>10, <1>11, <1>12 DEF EhNext

\* What a collection frees while a filter, a finally block or a callee runs is
\* never an exception object that a frame or a dispatch will come back to
\* (interp.rs, roots), as long as every frame is interpreted: for any program,
\* nested searches of any number and any depth of calls.
THEOREM NothingInFlightIsSwept ==
  ASSUME "compiled" \notin Tiers
  PROVE  EhSpec => []NoExceptionSwept
<1>1. EhInit => EhInv
  BY InitHolds
<1>2. EhInv /\ [EhNext]_ehVars => EhInv'
  BY NextHolds
<1>3. EhInv => NoExceptionSwept
  <2> SUFFICES ASSUME EhInv PROVE NoExceptionSwept
    OBVIOUS
  <2>1. /\ DOMAIN frames = 1..Len(frames) /\ DOMAIN dispatching = 1..Len(dispatching)
    BY LenProperties DEF EhInv, Sequences
  <2>2. \A i \in DOMAIN frames : Held(frames[i]) \cup Carried(frames[i]) \subseteq live
    BY <2>1 DEF EhInv, FramesSafe, SafeFrame
  <2>3. \A i \in DOMAIN dispatching : dispatching[i].object \in live
    BY <2>1 DEF EhInv, SearchesSafe, SafeSearch
  <2> QED
    BY <2>2, <2>3 DEF NoExceptionSwept, Dispatched
<1> QED
  BY <1>1, <1>2, <1>3, PTL DEF EhSpec

----------------------------------------------------------------------------
\* A search considers the clauses of a frame in the order of the table.

TableOf(p, f) == p.methods[f.method].clauses
IsBlock(c) == c.kind \in {"finally", "fault"}

\* The finally and fault blocks among the first n clauses of table that guard
\* where f stands, in the order of the table.
InTableOrder(finallies, f, table, n) ==
  \E place \in [1..Len(finallies) -> 1..n] :
    /\ \A i, j \in 1..Len(finallies) : i < j => place[i] < place[j]
    /\ \A i \in 1..Len(finallies) : finallies[i] = table[place[i]].handler
    /\ \A k \in 1..n :
         IsBlock(table[k]) /\ Guards(table[k], f.at) <=> \E i \in 1..Len(finallies) : place[i] = k

\* What d has found in f so far: no clause that takes the exception, and the
\* blocks to run first.
Looked(d, f, table) ==
  /\ d.clause \in 1..(Len(table) + 1)
  /\ \E S : d.finallies \in Seq(S)
  /\ \A k \in 1..(d.clause - 1) : ~(Guards(table[k], f.at) /\ Matches(table[k], d.object))
  /\ InTableOrder(d.finallies, f, table, d.clause - 1)

\* g runs a filter of f, for d.
AsksFor(g, d, f, table) ==
  /\ Looked(d, f, table)
  /\ g.method = f.method
  /\ d.clause <= Len(table) /\ table[d.clause].kind = "filter"

MethodsKnown ==
  /\ program \in Programs
  /\ \A i \in 1..Len(frames) : frames[i].method \in DOMAIN program.methods

\* A dispatch that does not search waits for the frame of its filter.
EachHasItsFrame ==
  status = "running" =>
    \A k \in 1..(Len(dispatching) - Pending) : \E j \in 2..Len(frames) : frames[j].filter = k
EachAsksFor ==
  \A j \in 2..Len(frames) : frames[j].filter > 0 =>
    AsksFor(frames[j], dispatching[frames[j].filter], frames[j - 1], TableOf(program, frames[j - 1]))

SearchesInOrder == Searching => Looked(Current, Top, Clauses)

OrderInv == MethodsKnown /\ EachHasItsFrame /\ EachAsksFor /\ SearchesInOrder

\* A call names a method, as the loader sees to, and nothing returns from the
\* frame of a filter: eh.rs lets the clauses of the method take an exception
\* raised in its filter, and their handlers run on there.
CodeVerified ==
  /\ Executing("ret") => Top.filter = 0
  /\ Executing("call") => Instruction.method \in DOMAIN program.methods

\* Of the clauses that guard where the frame stands: the first that catches is
\* the one that does; before the exception goes on, all the blocks have been
\* queued, in order; and the frame is given up only if there is no such clause
\* at all.
Taking(k) == Guards(Clauses[k], Top.at) /\ Matches(Clauses[k], Current.object)
PassesNothingOver ==
  /\ CatchFound => /\ \A k \in DOMAIN Clauses : Taking(k) => Current.clause <= k
                   /\ InTableOrder(Current.finallies, Top, Clauses, Current.clause - 1)
  /\ FinallyFirst => /\ \A k \in DOMAIN Clauses : ~Taking(k)
                     /\ InTableOrder(Current.finallies, Top, Clauses, Len(Clauses))
  /\ searching /\ Len(frames') < Len(frames) =>
       \A k \in DOMAIN Clauses :
         ~Taking(k) /\ ~(Guards(Clauses[k], Top.at) /\ IsBlock(Clauses[k]))

NothingPassedOver == [][PassesNothingOver]_ehVars

LEMMA SameLook ==
  ASSUME NEW d, NEW f, NEW g, NEW table, g.at = f.at, Looked(d, f, table)
  PROVE  Looked(d, g, table)
BY DEF Looked, InTableOrder

LEMMA LooksAtFirst ==
  ASSUME NEW o, NEW f, NEW table, Len(table) \in Nat
  PROVE  Looked(Search(o), f, table)
<1> DEFINE d == Search(o)
           place == [i \in {} |-> 0]
<1>1. d.clause = 1 /\ d.finallies = <<>>
  BY DEF Search
<1>2. 1..Len(<<>>) = {} /\ 1..(1 - 1) = {} /\ <<>> \in Seq({})
  OBVIOUS
<1>3. place \in [{} -> {}]
  OBVIOUS
<1>4. InTableOrder(<<>>, f, table, 1 - 1)
  BY <1>2, <1>3 DEF InTableOrder
<1>5. 1 \in 1..(Len(table) + 1)
  OBVIOUS
<1> HIDE DEF d
<1> QED
  BY <1>1, <1>2, <1>4, <1>5 DEF Looked, d

LEMMA InOrder ==
  ASSUME NEW fs, NEW f, NEW table, NEW n, NEW z, Len(fs) = z,
         NEW place \in [1..z -> 1..n],
         \A i, j \in 1..z : i < j => place[i] < place[j],
         \A i \in 1..z : fs[i] = table[place[i]].handler,
         \A k \in 1..n : IsBlock(table[k]) /\ Guards(table[k], f.at) <=> \E i \in 1..z : place[i] = k
  PROVE  InTableOrder(fs, f, table, n)
BY DEF InTableOrder

\* A clause that is no block that guards, or one that is and is queued.
LEMMA LooksOn ==
  ASSUME NEW d, NEW f, NEW table, Len(table) \in Nat,
         Looked(d, f, table), d.clause <= Len(table), NEW fs,
         LET c == table[d.clause]
         IN  \/ fs = d.finallies /\ (~Guards(c, f.at) \/ (~IsBlock(c) /\ ~Matches(c, d.object)))
             \/ fs = Append(d.finallies, c.handler) /\ Guards(c, f.at) /\ IsBlock(c)
  PROVE  Looked(Onward(d, fs), f, table)
<1> DEFINE n == d.clause
           e == Onward(d, fs)
<1>1. e.object = d.object /\ e.clause = n + 1 /\ e.finallies = fs
  BY DEF Onward
<1>2. n \in Nat \ {0} /\ n + 1 \in 1..(Len(table) + 1) /\ (n + 1) - 1 = n
  BY DEF Looked
<1>3. ASSUME NEW k \in 1..n PROVE ~(Guards(table[k], f.at) /\ Matches(table[k], d.object))
  <2>1. CASE k < n
    BY <1>2, <2>1 DEF Looked
  <2>2. CASE k = n
    BY <2>2 DEF IsBlock, Matches
  <2> QED
    BY <1>2, <2>1, <2>2
<1>4. PICK S : d.finallies \in Seq(S)
  BY DEF Looked
<1>5. Len(d.finallies) \in Nat
  BY <1>4, LenProperties
<1> DEFINE z == Len(d.finallies)
<1>6. PICK place \in [1..z -> 1..(n - 1)] :
        /\ \A i, j \in 1..z : i < j => place[i] < place[j]
        /\ \A i \in 1..z : d.finallies[i] = table[place[i]].handler
        /\ \A k \in 1..(n - 1) :
             IsBlock(table[k]) /\ Guards(table[k], f.at) <=> \E i \in 1..z : place[i] = k
  BY DEF Looked, InTableOrder
<1> HIDE DEF n, z
<1>7. CASE fs = d.finallies /\ ~(Guards(table[n], f.at) /\ IsBlock(table[n]))
  <2>1. place \in [1..z -> 1..n]
    BY <1>2, <1>6
  <2>2. \A i \in 1..z : place[i] # n
    BY <1>2, <1>6
  <2>3. \A k \in 1..n : IsBlock(table[k]) /\ Guards(table[k], f.at) <=> \E i \in 1..z : place[i] = k
    <3> SUFFICES ASSUME NEW k \in 1..n
                 PROVE  IsBlock(table[k]) /\ Guards(table[k], f.at) <=> \E i \in 1..z : place[i] = k
      OBVIOUS
    <3>1. CASE k = n
      BY <1>7, <2>2, <3>1
    <3>2. CASE k # n
      <4>1. k \in 1..(n - 1)
        BY <1>2, <3>2
      <4> QED
        BY <1>6, <4>1
    <3> QED
      BY <3>1, <3>2
  <2>4. InTableOrder(d.finallies, f, table, n)
    BY <1>2, <1>6, <2>1, <2>3 DEF InTableOrder, z
  <2>5. \E T : fs \in Seq(T)
    BY <1>4, <1>7
  <2> QED
    BY <1>1, <1>2, <1>3, <1>7, <2>4, <2>5 DEF Looked
<1>8. CASE fs = Append(d.finallies, table[n].handler) /\ Guards(table[n], f.at) /\ IsBlock(table[n])
  <2> DEFINE h == table[n].handler
             q == [i \in 1..(z + 1) |-> IF i = z + 1 THEN n ELSE place[i]]
  <2>1. S \subseteq S \cup {h}
    OBVIOUS
  <2>2. d.finallies \in Seq(S \cup {h}) /\ h \in S \cup {h}
    BY <1>4, <2>1, SeqMonotonic
  <2>3. /\ fs \in Seq(S \cup {h}) /\ Len(fs) = z + 1
        /\ \A i \in 1..z : fs[i] = d.finallies[i]
        /\ fs[z + 1] = h
    BY <1>8, <2>2, AppendProperties DEF z
  <2>4. z \in Nat
    BY <1>5 DEF z
  <2>5. q \in [1..(z + 1) -> 1..n]
    BY <1>2, <1>6, <2>4
  <2>6. q[z + 1] = n /\ \A i \in 1..z : q[i] = place[i] /\ place[i] \in 1..(n - 1)
    BY <1>6, <2>4
  <2> HIDE DEF q, h
  <2>7. \A i, j \in 1..(z + 1) : i < j => q[i] < q[j]
    <3> SUFFICES ASSUME NEW i \in 1..(z + 1), NEW j \in 1..(z + 1), i < j PROVE q[i] < q[j]
      OBVIOUS
    <3>1. i \in 1..z
      BY <2>4
    <3>2. CASE j = z + 1
      BY <1>2, <2>6, <3>1, <3>2
    <3>3. CASE j # z + 1
      BY <1>6, <2>4, <2>6, <3>1, <3>3
    <3> QED
      BY <3>2, <3>3
  <2>8. \A i \in 1..(z + 1) : fs[i] = table[q[i]].handler
    <3> SUFFICES ASSUME NEW i \in 1..(z + 1) PROVE fs[i] = table[q[i]].handler
      OBVIOUS
    <3>1. CASE i = z + 1
      BY <2>3, <2>6, <3>1 DEF h
    <3>2. CASE i # z + 1
      BY <1>6, <2>3, <2>4, <2>6, <3>2
    <3> QED
      BY <3>1, <3>2
  <2>9. \A k \in 1..n : IsBlock(table[k]) /\ Guards(table[k], f.at) <=> \E i \in 1..(z + 1) : q[i] = k
    <3> SUFFICES ASSUME NEW k \in 1..n
                 PROVE  IsBlock(table[k]) /\ Guards(table[k], f.at) <=> \E i \in 1..(z + 1) : q[i] = k
      OBVIOUS
    <3>1. CASE k = n
      <4>1. z + 1 \in 1..(z + 1)
        BY <2>4
      <4> QED
        BY <1>8, <2>6, <3>1, <4>1
    <3>2. CASE k # n
      <4>1. k \in 1..(n - 1)
        BY <1>2, <3>2
      <4>2. (\E i \in 1..(z + 1) : q[i] = k) <=> \E i \in 1..z : place[i] = k
        BY <2>4, <2>6, <3>2
      <4> QED
        BY <1>6, <4>1, <4>2
    <3> QED
      BY <3>1, <3>2
  <2>10. InTableOrder(fs, f, table, n)
    BY <2>3, <2>5, <2>7, <2>8, <2>9, InOrder
  <2> QED
    BY <1>1, <1>2, <1>3, <2>3, <2>10 DEF Looked
<1> QED
  BY <1>3, <1>7, <1>8 DEF n

\* A frame that runs a filter runs it for the innermost dispatch that waits.
LEMMA InnermostFilter ==
  ASSUME EhInv, OrderInv, status = "running", Top.filter > 0
  PROVE  Top.filter = Len(dispatching) - Pending
<1> DEFINE k == Len(dispatching) - Pending
<1>1. /\ Depth \in Nat /\ Depth > 1 /\ Depth = Len(frames) /\ Top.filter \in Nat
      /\ Top.filter + Pending <= Len(dispatching)
      /\ \A i \in 1..(Depth - 1) : frames[i].filter \in Nat /\ frames[i].filter < Top.filter
  BY BelowAFilter
<1>2. Pending \in {0, 1} /\ Len(dispatching) \in Nat
  BY Running DEF Pending
<1>3. k \in 1..k /\ Top.filter <= k
  BY <1>1, <1>2
<1>4. PICK j \in 2..Depth : frames[j].filter = k
  BY <1>1, <1>3 DEF OrderInv, EachHasItsFrame
<1>5. CASE j = Depth
  BY <1>4, <1>5 DEF Top
<1>6. CASE j # Depth
  <2>1. j \in 1..(Depth - 1)
    BY <1>1, <1>6
  <2> QED
    BY <1>1, <1>3, <1>4, <2>1
<1> QED
  BY <1>5, <1>6

LEMMA FilterAsks ==
  ASSUME EhInv, OrderInv, status = "running", Top.filter > 0
  PROVE  /\ Depth - 1 \in 1..Len(frames)
         /\ AsksFor(Top, dispatching[Len(dispatching) - Pending], frames[Depth - 1],
                    TableOf(program, frames[Depth - 1]))
<1>1. Depth \in Nat /\ Depth > 1 /\ Depth = Len(frames) /\ Top = frames[Depth]
  BY BelowAFilter DEF Top
<1>2. Depth \in 2..Len(frames) /\ Depth - 1 \in 1..Len(frames)
  BY <1>1
<1>3. AsksFor(frames[Depth], dispatching[frames[Depth].filter], frames[Depth - 1],
              TableOf(program, frames[Depth - 1]))
  BY <1>1, <1>2 DEF OrderInv, EachAsksFor
<1> QED
  BY <1>1, <1>2, <1>3, InnermostFilter

----------------------------------------------------------------------------

LEMMA NoneAdded == ASSUME NEW m \in Nat, NEW p \in {0, 1}, m + p <= m PROVE p = 0
OBVIOUS

\* What every step has to show that leaves the n-th frame on top, the filter
\* it runs and its method unchanged.
LEMMA OrderKept ==
  ASSUME EhInv, EhInv', OrderInv, program' = program, status = "running",
         NEW n \in 1..Len(frames), NEW f, To(frames, frames', n, f),
         f.filter = frames[n].filter, f.method = frames[n].method,
         NEW m \in 0..(Len(dispatching) + 1), NEW d, To(dispatching, dispatching', m, d),
         m - Pending' <= Len(dispatching) - Pending,
         Pending' = 0 /\ m > 0 => m <= Len(dispatching) /\ d = dispatching[m],
         \A j \in (n + 1)..Len(frames) : frames[j].filter = 0 \/ frames[j].filter > m - Pending',
         Searching' => Looked(d, f, TableOf(program, f))
  PROVE  OrderInv'
<1>1. /\ Len(frames') = n /\ Len(dispatching') = m /\ n \in Nat \ {0} /\ m \in Nat
      /\ \A i \in 1..n : frames'[i] = IF i = n THEN f ELSE frames[i]
      /\ \A i \in 1..m : dispatching'[i] = IF i = m THEN d ELSE dispatching[i]
      /\ Len(frames) \in Nat /\ Len(dispatching) \in Nat
      /\ Pending \in {0, 1} /\ Pending' \in {0, 1} /\ n <= Len(frames)
  <2>1. Len(frames) \in Nat /\ Len(dispatching) \in Nat
    BY LenProperties DEF EhInv, Sequences
  <2>2. Pending \in {0, 1} /\ Pending' \in {0, 1}
    BY DEF Pending
  <2> QED
    BY <2>1, <2>2 DEF To
<1>2. \A i \in 1..n : frames'[i].filter = frames[i].filter /\ frames'[i].method = frames[i].method
  BY <1>1
<1>3. \A i \in 1..n : frames[i].filter \in Nat /\ frames[i].filter + Pending' <= m
  <2>1. \A i \in 1..n : frames'[i].filter + Pending' <= m
    BY <1>1 DEF EhInv, FiltersNest
  <2>2. \A i \in 1..n : frames[i].filter \in Nat
    BY <1>1 DEF EhInv, FiltersNest
  <2> QED
    BY <1>2, <2>1, <2>2
<1>4. MethodsKnown'
  <2>1. \A i \in 1..n : i \in 1..Len(frames)
    BY <1>1
  <2>2. \A i \in 1..n : frames'[i].method \in DOMAIN program.methods
    BY <1>2, <2>1 DEF OrderInv, MethodsKnown
  <2>3. program \in Programs
    BY DEF OrderInv, MethodsKnown
  <2> QED
    BY <1>1, <2>2, <2>3 DEF MethodsKnown
<1>0. /\ m \in Nat /\ Len(dispatching) \in Nat
      /\ Pending = 0 \/ Pending = 1
      /\ Pending' = 0 \/ Pending' = 1
  BY <1>1
<1>5. EachHasItsFrame'
  <2> SUFFICES ASSUME NEW k \in 1..(m - Pending') PROVE \E j \in 2..n : frames'[j].filter = k
    BY <1>1 DEF EachHasItsFrame
  <2> DEFINE most == m - Pending'
             most0 == Len(dispatching) - Pending
  <2>1. most \in Int /\ most0 \in Int /\ most <= most0 /\ k \in 1..most
    BY <1>0
  <2> HIDE DEF most, most0
  <2>2. k \in 1..most0 /\ k <= most /\ k \in Nat \ {0}
    BY <2>1
  <2>3. PICK j \in 2..Len(frames) : frames[j].filter = k
    BY <2>2 DEF OrderInv, EachHasItsFrame, most0
  <2>4. ~(frames[j].filter = 0 \/ frames[j].filter > most)
    BY <2>1, <2>2, <2>3
  <2>5. j \notin (n + 1)..Len(frames)
    BY <2>4 DEF most
  <2>6. j \in 2..n /\ j \in 1..n
    BY <1>1, <2>5
  <2> QED
    BY <1>2, <2>3, <2>6
<1>6. EachAsksFor'
  <2> SUFFICES ASSUME NEW j \in 2..n, frames'[j].filter > 0
               PROVE  AsksFor(frames'[j], dispatching'[frames'[j].filter], frames'[j - 1],
                              TableOf(program, frames'[j - 1]))
    BY <1>1 DEF EachAsksFor
  <2> DEFINE k == frames[j].filter
             t == TableOf(program, frames[j - 1])
  <2>1. j \in 1..n /\ j - 1 \in 1..n /\ j - 1 # n /\ j \in 2..Len(frames)
    BY <1>1
  <2>2. frames'[j].filter = k /\ frames'[j].method = frames[j].method /\ frames'[j - 1] = frames[j - 1]
    BY <1>1, <1>2, <2>1
  <2>3. k \in 1..m /\ k + Pending' <= m
    BY <1>1, <1>3, <2>1, <2>2
  <2>4. dispatching'[k] = dispatching[k]
    <3>1. CASE k = m
      <4>1. m \in Nat /\ m + Pending' <= m /\ m > 0 /\ Pending' \in {0, 1}
        BY <1>0, <2>3, <3>1
      <4>3. Pending' = 0
        BY <4>1, NoneAdded
      <4>4. d = dispatching[m]
        BY <4>1, <4>3
      <4>5. dispatching'[m] = d
        BY <1>1, <4>1
      <4> QED
        BY <3>1, <4>4, <4>5
    <3>2. CASE k # m
      BY <1>1, <2>3, <3>2
    <3> QED
      BY <3>1, <3>2
  <2>5. AsksFor(frames[j], dispatching[k], frames[j - 1], t)
    BY <2>1, <2>2 DEF OrderInv, EachAsksFor
  <2>6. AsksFor(frames'[j], dispatching[k], frames[j - 1], t)
    BY <2>2, <2>5 DEF AsksFor
  <2> HIDE DEF k
  <2> QED
    BY <2>2, <2>4, <2>6
<1>7. SearchesInOrder'
  <2> SUFFICES ASSUME Searching' PROVE Looked(Current', Top', Clauses')
    BY DEF SearchesInOrder
  <2>1. m > 0
    <3>1. frames'[1].filter + 1 <= Len(dispatching') /\ frames'[1].filter \in Nat
      BY <1>1 DEF EhInv, FiltersNest, Pending, Searching
    <3> QED
      BY <1>1, <3>1
  <2>2. m \in 1..m /\ n \in 1..n
    BY <1>1, <2>1
  <2>3. Current' = d /\ Top' = f
    BY <1>1, <2>2 DEF Current, Top, Depth
  <2>4. Clauses' = TableOf(program, f)
    BY <2>3 DEF Clauses, Method, TableOf
  <2> QED
    BY <2>3, <2>4
<1> QED
  BY <1>4, <1>5, <1>6, <1>7 DEF OrderInv

\* What a step has to show that adds a frame, of a method or of a filter.
LEMMA OrderPushed ==
  ASSUME EhInv, EhInv', OrderInv, status = "running",
         program' = program, dispatching' = dispatching, ~searching',
         NEW g, frames' = Append(frames, g), g.method \in DOMAIN program.methods,
         \/ ~searching /\ g.filter = 0
         \/ /\ searching /\ g.filter = Len(dispatching)
            /\ AsksFor(g, Current, Top, TableOf(program, Top))
  PROVE  OrderInv'
<1> DEFINE n == Len(frames)
           m == Len(dispatching)
<1>1. PICK F : frames \in Seq(F)
  BY DEF EhInv, Sequences
<1>2. To(frames, frames', n + 1, g)
  BY <1>1, ToAppend
<1>3. /\ n \in Nat \ {0} /\ Depth = n /\ m \in Nat
      /\ Pending' = 0
      /\ \A i \in 1..n : frames'[i] = frames[i]
      /\ frames'[n + 1] = g /\ Len(frames') = n + 1
  BY <1>2, Running DEF To, Depth, Pending
<1>4. \A i \in 1..n : frames[i].filter \in Nat /\ frames[i].filter + Pending <= m
  BY Running, <1>3 DEF EhInv, FiltersNest
<1>5. MethodsKnown'
  BY <1>3 DEF OrderInv, MethodsKnown
<1>6. EachHasItsFrame'
  <2> SUFFICES ASSUME NEW k \in 1..m PROVE \E j \in 2..(n + 1) : frames'[j].filter = k
    BY <1>3 DEF EachHasItsFrame
  <2>1. CASE searching /\ k = m /\ g.filter = m
    BY <1>3, <2>1
  <2>2. CASE ~(searching /\ k = m)
    <3>1. k \in 1..(m - Pending)
      BY <1>3, <2>2 DEF Pending
    <3>2. PICK j \in 2..n : frames[j].filter = k
      BY <3>1 DEF OrderInv, EachHasItsFrame
    <3>3. j \in 1..n /\ j \in 2..(n + 1)
      BY <1>3
    <3> QED
      BY <1>3, <3>2, <3>3
  <2> QED
    BY <2>1, <2>2
<1>7. EachAsksFor'
  <2> SUFFICES ASSUME NEW j \in 2..(n + 1), frames'[j].filter > 0
               PROVE  AsksFor(frames'[j], dispatching[frames'[j].filter], frames'[j - 1],
                              TableOf(program, frames'[j - 1]))
    BY <1>3 DEF EachAsksFor
  <2>1. CASE j = n + 1
    <3>1. frames'[j] = g /\ frames'[j - 1] = Top /\ g.filter = m
      BY <1>3, <2>1 DEF Top
    <3> QED
      BY <3>1, <2>1, <1>3 DEF Current
  <2>2. CASE j # n + 1
    <3>1. j \in 2..n /\ j \in 1..n /\ j - 1 \in 1..n
      BY <1>3, <2>2
    <3> QED
      BY <1>3, <3>1 DEF OrderInv, EachAsksFor
  <2> QED
    BY <2>1, <2>2
<1>8. SearchesInOrder'
  BY DEF SearchesInOrder, Searching
<1> QED
  BY <1>5, <1>6, <1>7, <1>8 DEF OrderInv

\* A program that ends.
LEMMA OrderAtEnd ==
  ASSUME OrderInv, program' = program, frames' = <<>>, status' # "running"
  PROVE  OrderInv'
<1>1. Len(frames') = 0
  OBVIOUS
<1> QED
  BY <1>1 DEF OrderInv, MethodsKnown, EachHasItsFrame, EachAsksFor, SearchesInOrder, Searching

----------------------------------------------------------------------------
\* The tables are finite.
LEMMA Tables ==
  ASSUME MethodsKnown, NEW i \in 1..Len(frames)
  PROVE  LET table == TableOf(program, frames[i])
         IN  Len(table) \in Nat /\ DOMAIN table = 1..Len(table)
BY ProgramsAssumption DEF MethodsKnown, TableOf

\* Steps of the running frame that leave the dispatches alone.
LEMMA OrderSteady ==
  ASSUME EhInv, EhInv', OrderInv, status = "running", ~searching,
         UNCHANGED <<program, dispatching, searching>>,
         NEW f, To(frames, frames', Depth, f), f.filter = Top.filter, f.method = Top.method
  PROVE  OrderInv'
<1> DEFINE m == Len(dispatching)
<1>1. /\ Depth \in 1..Len(frames) /\ Depth = Len(frames) /\ Depth \in Nat
      /\ m \in 0..(m + 1) /\ m \in Nat
      /\ To(dispatching, dispatching', m, Current)
  BY Running DEF Depth
<1>2. Pending' = 0 /\ Pending = 0 /\ Current = dispatching[m]
  BY DEF Pending, Current
<1>3. ~Searching' /\ program' = program
  BY DEF Searching
<1>4. f.filter = frames[Depth].filter /\ f.method = frames[Depth].method
  BY DEF Top
<1>5. \A j \in (Depth + 1)..Len(frames) : frames[j].filter = 0 \/ frames[j].filter > m - Pending'
  BY <1>1
<1>6. m - Pending' <= Len(dispatching) - Pending
  BY <1>1, <1>2
<1>7. Pending' = 0 /\ m > 0 => m <= Len(dispatching) /\ Current = dispatching[m]
  BY <1>1, <1>2
<1> HIDE DEF Depth
<1> QED
  BY <1>1, <1>3, <1>4, <1>5, <1>6, <1>7, OrderKept

\* Steps that raise an exception.
LEMMA OrderRaised ==
  ASSUME EhInv, EhInv', OrderInv, status = "running", ~searching, program' = program,
         NEW object, Raise(object),
         NEW f, To(frames, frames', Depth, f), f.filter = Top.filter, f.method = Top.method
  PROVE  OrderInv'
<1> DEFINE m == Len(dispatching) + 1
           d == Search(object)
<1>1. PICK D : dispatching \in Seq(D)
  BY DEF EhInv, Sequences
<1>2. /\ Depth \in 1..Len(frames) /\ Depth = Len(frames) /\ Depth \in Nat
      /\ Len(dispatching) \in Nat /\ m \in 0..(Len(dispatching) + 1)
  BY Running DEF Depth
<1>3. To(dispatching, dispatching', m, d)
  BY <1>1, ToAppend DEF Raise
<1>4. Pending' = 1 /\ Pending = 0
  BY DEF Pending, Raise
<1>5. f.filter = frames[Depth].filter /\ f.method = frames[Depth].method
  BY DEF Top
<1>6. TableOf(program, f) = TableOf(program, frames[Depth])
  BY <1>5 DEF TableOf
<1> HIDE DEF Depth
<1>7. Len(TableOf(program, f)) \in Nat
  BY <1>2, <1>6, Tables DEF OrderInv
<1>8. Looked(d, f, TableOf(program, f))
  BY <1>7, LooksAtFirst
<1>9. \A j \in (Depth + 1)..Len(frames) : frames[j].filter = 0 \/ frames[j].filter > m - Pending'
  BY <1>2
<1>10. m - Pending' <= Len(dispatching) - Pending
  BY <1>2, <1>4
<1>11. Pending' = 0 /\ m > 0 => m <= Len(dispatching) /\ d = dispatching[m]
  BY <1>4
<1> HIDE DEF m, d
<1> QED
  BY <1>2, <1>3, <1>5, <1>8, <1>9, <1>10, <1>11, OrderKept

\* Steps that look at the next clause of the running frame.
LEMMA OrderOn ==
  ASSUME EhInv, EhInv', OrderInv, Searching, ClausesLeft, UNCHANGED <<program, frames, searching>>,
         NEW fs, NextClause(fs),
         \/ /\ fs = Current.finallies
            /\ ~Guards(Clause, Top.at) \/ (~IsBlock(Clause) /\ ~Matches(Clause, Current.object))
         \/ fs = Append(Current.finallies, Clause.handler) /\ Guards(Clause, Top.at) /\ IsBlock(Clause)
  PROVE  OrderInv'
<1> DEFINE m == Len(dispatching)
           d == Onward(Current, fs)
<1>1. status = "running" /\ searching /\ m > 0
  BY SearchIsUnderWay DEF Searching
<1>2. /\ Depth \in 1..Len(frames) /\ Depth = Len(frames) /\ Depth \in Nat
      /\ m \in 0..(Len(dispatching) + 1) /\ m \in Nat
      /\ To(frames, frames', Depth, Top)
  BY <1>1, Running DEF Depth
<1>3. To(dispatching, dispatching', m, d)
  BY <1>1, NextClauseTo
<1>4. Pending' = 1 /\ Pending = 1
  BY <1>1 DEF Pending
<1>5. Clauses = TableOf(program, Top) /\ Top = frames[Depth] /\ Clause = Clauses[Current.clause]
  BY DEF Clauses, Method, TableOf, Top, Clause
<1>6. Len(Clauses) \in Nat
  <2> HIDE DEF Depth
  <2> QED
    BY <1>2, <1>5, Tables DEF OrderInv
<1>7. Looked(Current, Top, Clauses) /\ Current.clause <= Len(Clauses)
  BY DEF OrderInv, SearchesInOrder, ClausesLeft
<1>8. Looked(d, Top, TableOf(program, Top))
  BY <1>5, <1>6, <1>7, LooksOn
<1>9. Top.filter = frames[Depth].filter /\ Top.method = frames[Depth].method /\ program' = program
  BY DEF Top
<1>10. \A j \in (Depth + 1)..Len(frames) : frames[j].filter = 0 \/ frames[j].filter > m - Pending'
  BY <1>2
<1>11. m - Pending' <= Len(dispatching) - Pending
  BY <1>2, <1>4
<1>12. Pending' = 0 /\ m > 0 => m <= Len(dispatching) /\ d = dispatching[m]
  BY <1>4
<1> HIDE DEF Depth, d
<1> QED
  BY <1>1, <1>2, <1>3, <1>8, <1>9, <1>10, <1>11, <1>12, OrderKept

\* A block of the n-th frame takes control.
LEMMA OrderTaken ==
  ASSUME EhInv, EhInv', OrderInv, status = "running", program' = program,
         Len(dispatching) > 0,
         NEW n \in 1..Len(frames), NEW target,
         TakeControl(SubSeq(frames, 1, n - 1), frames[n], target),
         \A j \in (n + 1)..Len(frames) : frames[j].filter >= Len(dispatching)
  PROVE  OrderInv'
<1> DEFINE m == Len(dispatching) - 1
           f == Takes(frames[n], target)
<1>1. PICK F, D : frames \in Seq(F) /\ dispatching \in Seq(D)
  BY DEF EhInv, Sequences
<1>2. /\ Len(frames) \in Nat /\ Len(dispatching) \in Nat \ {0}
      /\ n - 1 \in 0..Len(frames) /\ (n - 1) + 1 = n
      /\ m \in 0..Len(dispatching) /\ m \in 0..(Len(dispatching) + 1)
  BY <1>1, LenProperties
<1>3. To(frames, frames', n, f)
  BY <1>1, <1>2, ToCutAndAppend DEF TakeControl
<1>4. To(dispatching, dispatching', m, dispatching[m])
  BY <1>1, <1>2, ToCut DEF TakeControl, AllButLast
<1>5. f.filter = frames[n].filter /\ f.method = frames[n].method
  <2>1. IsFrame(frames[n])
    BY Nesting DEF SafeFrame
  <2> QED
    BY <2>1 DEF Takes, IsFrame, Fields
<1>6. Pending' = 0 /\ Pending \in {0, 1} /\ ~Searching'
  BY DEF Pending, TakeControl, Searching
<1>7. \A j \in (n + 1)..Len(frames) : frames[j].filter = 0 \/ frames[j].filter > m - Pending'
  <2> SUFFICES ASSUME NEW j \in (n + 1)..Len(frames) PROVE frames[j].filter > m - Pending'
    OBVIOUS
  <2>1. j \in 1..Len(frames)
    BY <1>2
  <2>2. frames[j].filter \in Nat /\ frames[j].filter >= Len(dispatching)
    BY <2>1, Nesting
  <2> QED
    BY <1>2, <1>6, <2>2
<1>8. m - Pending' <= Len(dispatching) - Pending
  BY <1>2, <1>6
<1>9. Pending' = 0 /\ m > 0 => m <= Len(dispatching)
  BY <1>2
<1> HIDE DEF m, f
<1> QED
  BY <1>2, <1>3, <1>4, <1>5, <1>6, <1>7, <1>8, <1>9, OrderKept

\* The frame below is searched, or its caller runs on: the top is given up.
LEMMA OrderBelow ==
  ASSUME EhInv, EhInv', OrderInv, status = "running", program' = program, Depth > 1,
         NEW f, To(frames, frames', Depth - 1, f),
         f.filter = frames[Depth - 1].filter, f.method = frames[Depth - 1].method,
         NEW m \in 0..Len(dispatching), NEW d, To(dispatching, dispatching', m, d),
         m - Pending' <= Len(dispatching) - Pending,
         Pending' = 0 /\ m > 0 => d = dispatching[m],
         Top.filter = 0 \/ Top.filter > m - Pending',
         Searching' => Looked(d, f, TableOf(program, f))
  PROVE  OrderInv'
<1> DEFINE n == Depth - 1
<1>1. Depth = Len(frames) /\ Len(frames) \in Nat /\ Len(dispatching) \in Nat
  BY Running DEF Depth
<1>2. n \in 1..Len(frames) /\ n + 1 = Len(frames) /\ Top = frames[Len(frames)]
  BY <1>1 DEF Top
<1>3. m \in 0..(Len(dispatching) + 1) /\ m <= Len(dispatching)
  BY <1>1
<1>4. \A j \in (n + 1)..Len(frames) : frames[j].filter = 0 \/ frames[j].filter > m - Pending'
  BY <1>1, <1>2
<1>5. To(frames, frames', n, f) /\ f.filter = frames[n].filter /\ f.method = frames[n].method
  OBVIOUS
<1>6. Pending' = 0 /\ m > 0 => m <= Len(dispatching) /\ d = dispatching[m]
  BY <1>3
<1> HIDE DEF n
<1> QED
  BY <1>2, <1>3, <1>4, <1>5, <1>6, OrderKept

\* The steps, as the lemmas need them.
LEMMA ClauseInOrder ==
  ASSUME EhInv, EhInv', OrderInv,
         SkipClause \/ QueueFinally \/ (RunFilter /\ Depth >= MaxFrames)
  PROVE  OrderInv'
<1>1. Searching /\ ClausesLeft /\ UNCHANGED <<program, frames, searching>>
  BY DEF SkipClause, QueueFinally, RunFilter
<1>2. CASE SkipClause
  <2>1. NextClause(Current.finallies)
    BY <1>2 DEF SkipClause
  <2>2. ~Guards(Clause, Top.at) \/ (~IsBlock(Clause) /\ ~Matches(Clause, Current.object))
    BY <1>2 DEF SkipClause, IsBlock
  <2> QED
    BY <1>1, <2>1, <2>2, OrderOn
<1>3. CASE QueueFinally
  <2>1. /\ NextClause(Append(Current.finallies, Clause.handler))
        /\ Guards(Clause, Top.at) /\ IsBlock(Clause)
    BY <1>3 DEF QueueFinally, IsBlock
  <2> QED
    BY <1>1, <2>1, OrderOn
<1>4. CASE RunFilter /\ Depth >= MaxFrames
  <2>1. NextClause(Current.finallies)
    BY <1>4 DEF RunFilter
  <2>2. ~IsBlock(Clause) /\ ~Matches(Clause, Current.object)
    BY <1>4 DEF RunFilter, IsBlock, Matches
  <2> QED
    BY <1>1, <2>1, <2>2, OrderOn
<1> QED
  BY <1>2, <1>3, <1>4

LEMMA FilterInOrder ==
  ASSUME EhInv, EhInv', OrderInv, RunFilter, ~(Depth >= MaxFrames)
  PROVE  OrderInv'
<1> DEFINE g == NewFrame(Top.method, Clause.filter, <<Current.object>>, Len(dispatching))
<1>1. /\ status = "running" /\ searching /\ ~searching' /\ Searching /\ ClausesLeft
      /\ program' = program /\ dispatching' = dispatching /\ frames' = Append(frames, g)
      /\ Clause.kind = "filter"
  BY DEF RunFilter, Searching
<1>2. Depth \in 1..Len(frames) /\ Top = frames[Depth]
  BY <1>1, Running DEF Depth, Top
<1>3. g.method = Top.method /\ g.filter = Len(dispatching)
  BY DEF NewFrame
<1>4. Clauses = TableOf(program, Top) /\ Clause = Clauses[Current.clause]
  BY DEF Clauses, Method, TableOf, Clause
<1>5. Looked(Current, Top, Clauses)
  BY <1>1 DEF OrderInv, SearchesInOrder
<1> HIDE DEF g
<1>6. AsksFor(g, Current, Top, TableOf(program, Top))
  BY <1>1, <1>3, <1>4, <1>5 DEF AsksFor, ClausesLeft
<1>7. g.method \in DOMAIN program.methods
  <2> HIDE DEF Depth
  <2> QED
    BY <1>2, <1>3 DEF OrderInv, MethodsKnown
<1> QED
  BY <1>1, <1>3, <1>6, <1>7, OrderPushed

LEMMA TakenInOrder == ASSUME EhInv, EhInv', OrderInv, CatchFound \/ FinallyFirst PROVE OrderInv'
<1>1. /\ Searching /\ program' = program
      /\ \E target : TakeControl(SubSeq(frames, 1, Depth - 1), frames[Depth], target)
  BY DEF CatchFound, FinallyFirst, AllButLast, Top, Depth
<1>2. status = "running" /\ Len(dispatching) > 0
  BY <1>1, SearchIsUnderWay DEF Searching
<1>3. Depth \in 1..Len(frames) /\ Depth = Len(frames) /\ Depth \in Nat
  BY <1>2, Running DEF Depth
<1>4. \A j \in (Depth + 1)..Len(frames) : frames[j].filter >= Len(dispatching)
  BY <1>3
<1> HIDE DEF Depth
<1> QED
  BY <1>1, <1>2, <1>3, <1>4, OrderTaken

LEMMA UnwoundInOrder == ASSUME EhInv, EhInv', OrderInv, Unwind PROVE OrderInv'
<1> DEFINE n == Depth - 1
           m == Len(dispatching)
           d == Search(Current.object)
<1>1. /\ Searching /\ status = "running" /\ Depth > 1 /\ Top.filter = 0
      /\ program' = program /\ searching /\ searching'
      /\ frames' = SubSeq(frames, 1, n) /\ dispatching' = Append(SubSeq(dispatching, 1, m - 1), d)
  BY DEF Unwind, Popped, AllButLast, Searching, Depth
<1>2. PICK F, D : frames \in Seq(F) /\ dispatching \in Seq(D)
  BY DEF EhInv, Sequences
<1>3. Depth \in Nat /\ Depth = Len(frames) /\ m \in Nat \ {0} /\ Pending = 1 /\ Pending' = 1
  BY <1>1, Running, SearchIsUnderWay DEF Depth, Pending
<1>4. n \in 0..Len(frames) /\ n \in 1..Len(frames) /\ m - 1 \in 0..Len(dispatching) /\ (m - 1) + 1 = m
  BY <1>1, <1>3
<1>5. To(frames, frames', Depth - 1, frames[n])
  BY <1>1, <1>2, <1>4, ToCut
<1>6. To(dispatching, dispatching', m, d)
  BY <1>1, <1>2, <1>4, ToCutAndAppend
<1>7. Looked(d, frames[n], TableOf(program, frames[n]))
  <2> HIDE DEF n
  <2>1. Len(TableOf(program, frames[n])) \in Nat
    BY <1>4, Tables DEF OrderInv
  <2> QED
    BY <2>1, LooksAtFirst
<1>8. /\ m - Pending' <= Len(dispatching) - Pending
      /\ Pending' = 0 /\ m > 0 => d = dispatching[m]
      /\ m \in 0..Len(dispatching)
  BY <1>3
<1> HIDE DEF d
<1> QED
  BY <1>1, <1>5, <1>6, <1>7, <1>8, OrderBelow

\* What a filter that declines, or fails, leaves the search with.
LEMMA Declined ==
  ASSUME EhInv, OrderInv, status = "running", Top.filter > 0,
         NEW d, d = dispatching[Len(dispatching) - Pending]
  PROVE  Looked(Onward(d, d.finallies), frames[Depth - 1], TableOf(program, frames[Depth - 1]))
<1> DEFINE n == Depth - 1
           table == TableOf(program, frames[n])
<1>1. n \in 1..Len(frames) /\ AsksFor(Top, d, frames[n], table)
  BY FilterAsks
<1>2. Looked(d, frames[n], table) /\ d.clause <= Len(table) /\ table[d.clause].kind = "filter"
  BY <1>1 DEF AsksFor
<1> HIDE DEF n
<1>3. Len(table) \in Nat
  BY <1>1, Tables DEF OrderInv
<1>4. ~IsBlock(table[d.clause]) /\ ~Matches(table[d.clause], d.object)
  BY <1>2 DEF IsBlock, Matches
<1> HIDE DEF table
<1>5. Looked(Onward(d, d.finallies), frames[n], table)
  BY <1>2, <1>3, <1>4, LooksOn
<1> QED
  BY <1>5 DEF n, table

LEMMA FailedInOrder == ASSUME EhInv, EhInv', OrderInv, FilterFails PROVE OrderInv'
<1> DEFINE n == Depth - 1
           m == Len(dispatching) - 1
           outer == dispatching[m]
           d == Onward(outer, outer.finallies)
<1>1. /\ Searching /\ status = "running" /\ Top.filter > 0 /\ program' = program
      /\ searching /\ searching' /\ frames' = SubSeq(frames, 1, n)
  BY DEF FilterFails, AllButLast, Searching, Depth
<1>2. PICK F, D : frames \in Seq(F) /\ dispatching \in Seq(D)
  BY DEF EhInv, Sequences
<1>3. Pending = 1 /\ Pending' = 1 /\ Len(dispatching) \in Nat
  BY <1>1, Running DEF Pending
<1>4. Depth \in Nat /\ Depth = Len(frames) /\ Depth > 1 /\ Len(dispatching) >= 2
  BY <1>1, <1>3, BelowAFilter
<1>5. /\ m \in Nat /\ m - 1 \in 0..Len(dispatching) /\ (m - 1) + 1 = m /\ Len(dispatching) - 2 = m - 1
      /\ m \in 0..Len(dispatching) /\ m <= Len(dispatching)
  BY <1>3, <1>4
<1>6. n \in 0..Len(frames)
  BY <1>4
<1>7. To(frames, frames', Depth - 1, frames[n])
  BY <1>1, <1>2, <1>6, ToCut
<1>8. To(dispatching, dispatching', m, d)
  <2>1. dispatching' = Append(SubSeq(dispatching, 1, m - 1), d)
    BY <1>5 DEF FilterFails
  <2> QED
    BY <2>1, <1>2, <1>5, ToCutAndAppend
<1>9. Looked(d, frames[n], TableOf(program, frames[n]))
  BY <1>1, <1>3, Declined
<1>10. Top.filter = m
  BY <1>1, <1>3, InnermostFilter
<1>11. Top.filter > m - Pending' /\ m - Pending' <= Len(dispatching) - Pending
  BY <1>3, <1>5, <1>10
<1>12. Pending' = 0 /\ m > 0 => d = dispatching[m]
  BY <1>3
<1> HIDE DEF d, m
<1> QED
  BY <1>1, <1>4, <1>5, <1>7, <1>8, <1>9, <1>11, <1>12, OrderBelow

LEMMA EndedInOrder == ASSUME EhInv, EhInv', OrderInv, Endfilter PROVE OrderInv'
<1> DEFINE n == Depth - 1
           m == Len(dispatching)
           d == Onward(Current, Current.finallies)
<1>1. status = "running" /\ ~searching /\ Top.filter > 0 /\ program' = program /\ Pending = 0
  BY DEF Endfilter, Executing, Pending
<1>2. PICK F, D : frames \in Seq(F) /\ dispatching \in Seq(D)
  BY DEF EhInv, Sequences
<1>3. m \in Nat /\ Depth \in Nat /\ Depth = Len(frames) /\ Depth > 1 /\ Top = frames[Depth]
  BY <1>1, Running, BelowAFilter DEF Top
<1>4. Top.filter = m
  BY <1>1, <1>3, InnermostFilter
<1>5. m > 0 /\ n \in 1..Len(frames) /\ n \in 0..Len(frames) /\ n - 1 = Depth - 2
  BY <1>1, <1>3, <1>4
<1>6. CASE Instruction.accepts
  <2>1. TakeControl(SubSeq(frames, 1, n - 1), frames[n], Clause.handler)
    BY <1>5, <1>6 DEF Endfilter
  <2>2. \A j \in (n + 1)..Len(frames) : frames[j].filter >= Len(dispatching)
    BY <1>3, <1>4
  <2> HIDE DEF n
  <2> QED
    BY <1>1, <1>5, <2>1, <2>2, OrderTaken
<1>7. CASE ~Instruction.accepts
  <2>1. /\ frames' = SubSeq(frames, 1, n) /\ searching' = TRUE
        /\ NextClause(Current.finallies)
    BY <1>7 DEF Endfilter, AllButLast, Depth
  <2>2. To(frames, frames', Depth - 1, frames[n])
    BY <1>2, <1>5, <2>1, ToCut
  <2>3. To(dispatching, dispatching', m, d)
    BY <1>1, <1>5, <2>1, NextClauseTo
  <2>4. Pending' = 1
    BY <2>1 DEF Pending
  <2>5. Current = dispatching[Len(dispatching) - Pending]
    BY <1>1, <1>3 DEF Current
  <2>6. Looked(d, frames[n], TableOf(program, frames[n]))
    BY <1>1, <2>5, Declined
  <2>7. /\ Top.filter > m - Pending' /\ m - Pending' <= Len(dispatching) - Pending
        /\ m \in 0..Len(dispatching)
    BY <1>1, <1>3, <1>4, <2>4
  <2>8. Pending' = 0 /\ m > 0 => d = dispatching[m]
    BY <2>4
  <2> HIDE DEF d
  <2> QED
    BY <1>1, <1>3, <2>2, <2>3, <2>6, <2>7, <2>8, OrderBelow
<1> QED
  BY <1>6, <1>7

LEMMA ReturnedInOrder == ASSUME EhInv, EhInv', OrderInv, CodeVerified, Ret PROVE OrderInv'
<1>1. /\ status = "running" /\ ~searching /\ program' = program
      /\ dispatching' = dispatching /\ searching' = searching /\ Pending = 0 /\ Pending' = 0
      /\ Top.filter = 0
  BY DEF Ret, Executing, Pending, CodeVerified
<1>2. CASE Depth = 1
  BY <1>1, <1>2, OrderAtEnd DEF Ret
<1>3. CASE Depth # 1
  <2> DEFINE n == Depth - 1
             m == Len(dispatching)
             f == [frames[n] EXCEPT !.at = @ + 1]
  <2>1. frames' = Append(SubSeq(frames, 1, Depth - 2), f)
    BY <1>3 DEF Ret
  <2>2. PICK F : frames \in Seq(F)
    BY DEF EhInv, Sequences
  <2>3. Depth \in Nat /\ Depth > 1 /\ Depth = Len(frames) /\ m \in Nat /\ m \in 0..Len(dispatching)
    <3>1. Depth \in Nat \ {0} /\ Depth = Len(frames) /\ m \in Nat
      BY <1>1, Running DEF Depth
    <3> QED
      BY <1>3, <3>1
  <2>4. n \in 1..Len(frames) /\ Depth - 2 \in 0..Len(frames) /\ (Depth - 2) + 1 = n
    BY <2>3
  <2>5. To(frames, frames', n, f)
    BY <2>1, <2>2, <2>4, ToCutAndAppend
  <2>6. To(dispatching, dispatching', m, dispatching[m])
    BY <1>1, Running DEF Current
  <2>7. f.filter = frames[n].filter /\ f.method = frames[n].method
    <3> HIDE DEF n
    <3>1. IsFrame(frames[n])
      BY <2>4, Nesting DEF SafeFrame
    <3> QED
      BY <3>1 DEF IsFrame, Fields
  <2>8. m - Pending' <= Len(dispatching) - Pending /\ ~Searching'
    BY <1>1, <2>3 DEF Searching
  <2> HIDE DEF f
  <2> QED
    BY <1>1, <2>3, <2>5, <2>6, <2>7, <2>8, OrderBelow
<1> QED
  BY <1>2, <1>3

LEMMA CalledInOrder == ASSUME EhInv, EhInv', OrderInv, CodeVerified, Call PROVE OrderInv'
<1>1. status = "running" /\ ~searching /\ program' = program /\ Instruction.method \in DOMAIN program.methods
  BY DEF Call, Executing, CodeVerified
<1>2. CASE Depth >= MaxFrames
  <2>1. frames' = frames /\ \E object : Raise(object)
    BY <1>2 DEF Call, RaiseNew
  <2>2. To(frames, frames', Depth, Top)
    BY <1>1, <2>1, Running
  <2> QED
    BY <1>1, <2>1, <2>2, OrderRaised
<1>3. CASE ~(Depth >= MaxFrames)
  <2> DEFINE g == NewFrame(Instruction.method, 1, <<>>, 0)
  <2>1. frames' = Append(frames, g) /\ searching' = searching /\ dispatching' = dispatching
    BY <1>3 DEF Call
  <2>2. g.method = Instruction.method /\ g.filter = 0
    BY DEF NewFrame
  <2> HIDE DEF g
  <2> QED
    BY <1>1, <2>1, <2>2, OrderPushed
<1> QED
  BY <1>2, <1>3

\* The running frame stays on top, and the frame of the filter it was.
StaysOnTop ==
  \E f : frames' = WithTop(f) /\ f.filter = Top.filter /\ f.method = Top.method

LEMMA Stays ==
  ASSUME EhInv,
         \/ Mark \/ Leave \/ NextFinally \/ ResumeAtTarget \/ FallThrough
         \/ Pop /\ status' = "running"
         \/ Rethrow \/ ResumePropagating
  PROVE  StaysOnTop
<1>1. status = "running"
  BY DEF Mark, Leave, NextFinally, ResumeAtTarget, FallThrough, Pop, Rethrow, ResumePropagating,
         LastFinally, Executing
<1>2. IsFrame(Top)
  BY <1>1, Running DEF SafeFrame
<1> USE DEF IsFrame, Fields
<1>3. CASE Mark
  <2> DEFINE g == [Top EXCEPT !.at = @ + 1]
  <2>1. frames' = WithTop(g)
    BY <1>3 DEF Mark, Advance
  <2>2. g.filter = Top.filter /\ g.method = Top.method
    BY <1>2
  <2> HIDE DEF g
  <2> QED
    BY <2>1, <2>2 DEF StaysOnTop
<1>4. CASE Leave
  <2> DEFINE queue == FinalliesLeft(Top.at, Instruction.target)
             f == [Top EXCEPT !.inFlight = NoObject, !.stack = <<>>]
             g == IF queue = <<>>
                    THEN [f EXCEPT !.at = Instruction.target]
                    ELSE [f EXCEPT !.at = queue[1], !.pending = Tail(queue),
                                   !.resume = Instruction.target]
  <2>1. frames' = WithTop(g)
    BY <1>4 DEF Leave
  <2>2. g.filter = Top.filter /\ g.method = Top.method
    BY <1>2
  <2> HIDE DEF g
  <2> QED
    BY <2>1, <2>2 DEF StaysOnTop
<1>5. CASE NextFinally
  <2> DEFINE g == [Top EXCEPT !.at = Head(Top.pending), !.pending = Tail(Top.pending), !.stack = <<>>]
  <2>1. frames' = WithTop(g)
    BY <1>5 DEF NextFinally
  <2>2. g.filter = Top.filter /\ g.method = Top.method
    BY <1>2
  <2> HIDE DEF g
  <2> QED
    BY <2>1, <2>2 DEF StaysOnTop
<1>6. CASE ResumeAtTarget
  <2> DEFINE g == [Top EXCEPT !.at = Top.resume, !.resume = Nowhere,
                              !.stack = IF Top.inFlight = NoObject
                                          THEN <<>> ELSE <<Top.inFlight>>]
  <2>1. frames' = WithTop(g)
    BY <1>6 DEF ResumeAtTarget
  <2>2. g.filter = Top.filter /\ g.method = Top.method
    BY <1>2
  <2> HIDE DEF g
  <2> QED
    BY <2>1, <2>2 DEF StaysOnTop
<1>7. CASE FallThrough
  <2> DEFINE g == [Top EXCEPT !.resume = Nowhere, !.at = Top.at + 1]
  <2>1. frames' = WithTop(g)
    BY <1>7 DEF FallThrough
  <2>2. g.filter = Top.filter /\ g.method = Top.method
    BY <1>2
  <2> HIDE DEF g
  <2> QED
    BY <2>1, <2>2 DEF StaysOnTop
<1>8. CASE Pop /\ status' = "running"
  <2> DEFINE g == [Top EXCEPT !.stack = <<>>, !.at = Top.at + 1]
  <2>1. frames' = WithTop(g)
    BY <1>8 DEF Pop
  <2>2. g.filter = Top.filter /\ g.method = Top.method
    BY <1>2
  <2> HIDE DEF g
  <2> QED
    BY <2>1, <2>2 DEF StaysOnTop
<1>9. CASE Rethrow
  <2> DEFINE g == [Top EXCEPT !.inFlight = NoObject]
  <2>1. frames' = WithTop(g)
    BY <1>9 DEF Rethrow
  <2>2. g.filter = Top.filter /\ g.method = Top.method
    BY <1>2
  <2> HIDE DEF g
  <2> QED
    BY <2>1, <2>2 DEF StaysOnTop
<1>10. CASE ResumePropagating
  <2> DEFINE g == [Top EXCEPT !.resume = Nowhere, !.inFlight = NoObject]
  <2>1. frames' = WithTop(g)
    BY <1>10 DEF ResumePropagating
  <2>2. g.filter = Top.filter /\ g.method = Top.method
    BY <1>2
  <2> HIDE DEF g
  <2> QED
    BY <2>1, <2>2 DEF StaysOnTop
<1> QED
  BY <1>3, <1>4, <1>5, <1>6, <1>7, <1>8, <1>9, <1>10

LEMMA SteadyInOrder ==
  ASSUME EhInv, EhInv', OrderInv,
         Mark \/ Leave \/ NextFinally \/ ResumeAtTarget \/ FallThrough \/ Pop
  PROVE  OrderInv'
<1>1. status = "running" /\ ~searching /\ UNCHANGED <<program, dispatching, searching>>
  BY DEF Mark, Leave, NextFinally, ResumeAtTarget, FallThrough, LastFinally, Pop, Executing
<1>2. CASE StaysOnTop
  <2>1. PICK f : frames' = WithTop(f) /\ f.filter = Top.filter /\ f.method = Top.method
    BY <1>2 DEF StaysOnTop
  <2>2. To(frames, frames', Depth, f)
    BY <1>1, <2>1, TopTo
  <2> QED
    BY <1>1, <2>1, <2>2, OrderSteady
<1>3. CASE Pop /\ status' # "running"
  <2>1. frames' = <<>>
    BY <1>1, <1>3 DEF Pop
  <2> QED
    BY <1>1, <1>3, <2>1, OrderAtEnd
<1> QED
  BY <1>2, <1>3, Stays

LEMMA RaisedInOrder ==
  ASSUME EhInv, EhInv', OrderInv, Throw \/ Rethrow \/ ResumePropagating
  PROVE  OrderInv'
<1>1. status = "running" /\ ~searching /\ program' = program /\ \E object : Raise(object)
  BY DEF Throw, Rethrow, ResumePropagating, LastFinally, Executing, RaiseNew
<1>2. PICK f : To(frames, frames', Depth, f) /\ f.filter = Top.filter /\ f.method = Top.method
  <2>1. CASE Throw
    <3>1. To(frames, frames', Depth, Top)
      BY <1>1, <2>1, Running DEF Throw
    <3> QED
      BY <3>1
  <2>2. CASE Rethrow \/ ResumePropagating
    <3>1. PICK f : frames' = WithTop(f) /\ f.filter = Top.filter /\ f.method = Top.method
      BY <2>2, Stays DEF StaysOnTop
    <3>2. To(frames, frames', Depth, f)
      BY <1>1, <3>1, TopTo
    <3> QED
      BY <3>1, <3>2
  <2> QED
    BY <2>1, <2>2
<1> QED
  BY <1>1, <1>2, OrderRaised

LEMMA OrderInitially == EhInit => OrderInv
<1> SUFFICES ASSUME EhInit PROVE OrderInv
  OBVIOUS
<1>1. /\ Len(frames) = 1 /\ frames[1].method = 1 /\ Len(dispatching) = 0
      /\ ~searching /\ program \in Programs
  BY DEF EhInit, NewFrame
<1>2. MethodsKnown
  BY <1>1, ProgramsAssumption DEF MethodsKnown
<1>3. EachHasItsFrame /\ EachAsksFor /\ SearchesInOrder
  BY <1>1 DEF EachHasItsFrame, EachAsksFor, SearchesInOrder, Searching, Pending
<1> QED
  BY <1>2, <1>3 DEF OrderInv

LEMMA OrderNext ==
  ASSUME EhInv, EhInv', OrderInv, CodeVerified, [EhNext]_ehVars PROVE OrderInv'
<1>1. ASSUME UNCHANGED ehVars PROVE OrderInv'
  BY <1>1 DEF ehVars, OrderInv, MethodsKnown, EachHasItsFrame, EachAsksFor, SearchesInOrder,
              Searching, Pending, Current, Top, Depth, Clauses, Method
<1>2. CASE Mark \/ Leave \/ NextFinally \/ ResumeAtTarget \/ FallThrough \/ Pop
  BY <1>2, SteadyInOrder
<1>3. CASE Throw \/ Rethrow \/ ResumePropagating
  BY <1>3, RaisedInOrder
<1>4. CASE Call \/ Ret
  BY <1>4, CalledInOrder, ReturnedInOrder
<1>5. CASE SkipClause \/ QueueFinally \/ RunFilter
  BY <1>5, ClauseInOrder, FilterInOrder
<1>6. CASE CatchFound \/ FinallyFirst
  BY <1>6, TakenInOrder
<1>7. CASE Unwind \/ FilterFails \/ Endfilter
  BY <1>7, UnwoundInOrder, FailedInOrder, EndedInOrder
<1>8. CASE Unhandled
  BY <1>8, OrderAtEnd DEF Unhandled
<1>9. CASE Ended
  BY <1>1, <1>9 DEF Ended
<1> QED
  BY <1>1, <1>2, <1>3, <1>4, <1>5, <1>6, <1>7, <1>8, <1>9 DEF EhNext

----------------------------------------------------------------------------
\* What the invariant says of the clauses of the running frame.
LEMMA LookedSoFar ==
  ASSUME EhInv, OrderInv, Searching
  PROVE  /\ Len(Clauses) \in Nat /\ DOMAIN Clauses = 1..Len(Clauses)
         /\ Current.clause \in 1..(Len(Clauses) + 1)
         /\ \A k \in 1..(Current.clause - 1) : ~Taking(k)
         /\ InTableOrder(Current.finallies, Top, Clauses, Current.clause - 1)
<1>1. Depth \in 1..Len(frames) /\ Top = frames[Depth]
  BY Running DEF Searching, Depth, Top
<1>2. Clauses = TableOf(program, Top)
  BY DEF Clauses, Method, TableOf
<1>3. Len(Clauses) \in Nat /\ DOMAIN Clauses = 1..Len(Clauses)
  <2> HIDE DEF Depth
  <2> QED
    BY <1>1, <1>2, Tables DEF OrderInv
<1>4. Looked(Current, Top, Clauses)
  BY DEF OrderInv, SearchesInOrder
<1> QED
  BY <1>3, <1>4 DEF Looked, Taking

LEMMA LookedAtAll ==
  ASSUME EhInv, OrderInv, Searching, ~ClausesLeft
  PROVE  /\ \A k \in DOMAIN Clauses : ~Taking(k)
         /\ InTableOrder(Current.finallies, Top, Clauses, Len(Clauses))
         /\ Current.finallies = <<>> =>
              \A k \in DOMAIN Clauses : ~(Guards(Clauses[k], Top.at) /\ IsBlock(Clauses[k]))
<1>1. Current.clause - 1 = Len(Clauses)
  BY LookedSoFar DEF ClausesLeft
<1>2. /\ \A k \in DOMAIN Clauses : ~Taking(k)
      /\ InTableOrder(Current.finallies, Top, Clauses, Len(Clauses))
  BY <1>1, LookedSoFar
<1>3. ASSUME Current.finallies = <<>>, NEW k \in DOMAIN Clauses
      PROVE  ~(Guards(Clauses[k], Top.at) /\ IsBlock(Clauses[k]))
  <2>1. k \in 1..Len(Clauses) /\ Len(Current.finallies) = 0
    BY <1>3, LookedSoFar
  <2> QED
    BY <1>2, <2>1 DEF InTableOrder
<1> QED
  BY <1>2, <1>3

\* A search ends only in a step of its own.
LEMMA FramesGivenUp ==
  ASSUME EhInv, [EhNext]_ehVars, searching, Len(frames') < Len(frames)
  PROVE  Unwind \/ FilterFails \/ Unhandled
<1>1. PICK F : frames \in Seq(F)
  BY DEF EhInv, Sequences
<1>2. Len(frames) \in Nat
  BY <1>1, LenProperties
<1>3. frames' # frames
  BY <1>2
<1>4. \/ CatchFound \/ FinallyFirst \/ RunFilter
      \/ Unwind \/ FilterFails \/ Unhandled
  BY <1>3 DEF EhNext, ehVars, Mark, Throw, Rethrow, Pop, Call, Ret, SkipClause, QueueFinally,
              Endfilter, Leave, NextFinally, ResumeAtTarget, ResumePropagating, FallThrough,
              LastFinally, Executing, Ended
<1>5. CASE CatchFound \/ FinallyFirst
  <2>1. status = "running" /\ \E target : TakeControl(SubSeq(frames, 1, Depth - 1), Top, target)
    BY <1>5 DEF CatchFound, FinallyFirst, AllButLast, Depth, Searching
  <2>2. PICK f : frames' = Append(SubSeq(frames, 1, Depth - 1), f)
    BY <2>1 DEF TakeControl
  <2>3. Depth = Len(frames) /\ Depth - 1 \in 0..Len(frames) /\ (Depth - 1) + 1 = Len(frames)
    BY <2>1, Running DEF Depth
  <2>4. Len(frames') = Len(frames)
    BY <1>1, <2>2, <2>3, ToCutAndAppend DEF To
  <2> QED
    BY <1>2, <2>4
<1>6. CASE RunFilter
  <2>1. PICK f : frames' = Append(frames, f)
    BY <1>3, <1>6 DEF RunFilter
  <2>2. Len(frames') = Len(frames) + 1
    BY <1>1, <2>1, ToAppend DEF To
  <2> QED
    BY <1>2, <2>2
<1> QED
  BY <1>4, <1>5, <1>6

LEMMA StepPassesNothingOver ==
  ASSUME EhInv, OrderInv, [EhNext]_ehVars PROVE PassesNothingOver
<1>1. ASSUME CatchFound
      PROVE  /\ \A k \in DOMAIN Clauses : Taking(k) => Current.clause <= k
             /\ InTableOrder(Current.finallies, Top, Clauses, Current.clause - 1)
  <2>1. Searching
    BY <1>1 DEF CatchFound
  <2> QED
    BY <2>1, LookedSoFar
<1>2. ASSUME FinallyFirst
      PROVE  /\ \A k \in DOMAIN Clauses : ~Taking(k)
             /\ InTableOrder(Current.finallies, Top, Clauses, Len(Clauses))
  <2>1. Searching /\ ~ClausesLeft
    BY <1>2 DEF FinallyFirst
  <2> QED
    BY <2>1, LookedAtAll
<1>3. ASSUME searching, Len(frames') < Len(frames)
      PROVE  \A k \in DOMAIN Clauses :
               ~Taking(k) /\ ~(Guards(Clauses[k], Top.at) /\ IsBlock(Clauses[k]))
  <2>1. Searching /\ ~ClausesLeft /\ Current.finallies = <<>>
    BY <1>3, FramesGivenUp DEF Unwind, FilterFails, Unhandled
  <2> QED
    BY <2>1, LookedAtAll
<1> QED
  BY <1>1, <1>2, <1>3 DEF PassesNothingOver

\* dispatch_exception goes through the clauses of a frame in the order of the
\* table, and through all of them (eh.rs): what it has queued when it looks at
\* a clause are the finally and fault blocks among those before it, in that
\* order, the first clause that catches is the one that gets the exception, and
\* a frame is given up only if no clause of it takes the exception or has to
\* run; also after a filter, and what it nested, has come back to the search.
\* For any program, unless a handler of its runs on the frame of a filter and
\* returns there.
THEOREM SearchesGoThroughTheTable ==
  ASSUME "compiled" \notin Tiers
  PROVE  EhSpec /\ []CodeVerified => []SearchesInOrder /\ NothingPassedOver
<1> DEFINE Inv == EhInv /\ OrderInv
<1>1. EhInit => Inv
  BY InitHolds, OrderInitially
<1>2. Inv /\ CodeVerified /\ [EhNext]_ehVars => Inv'
  BY NextHolds, OrderNext
<1>3. Inv => SearchesInOrder
  BY DEF OrderInv
<1>4. Inv /\ [EhNext]_ehVars => [PassesNothingOver]_ehVars
  BY StepPassesNothingOver
<1> QED
  BY <1>1, <1>2, <1>3, <1>4, PTL DEF EhSpec, NothingPassedOver

=============================================================================
