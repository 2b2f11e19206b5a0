---------------------------- MODULE CompiledFrames ----------------------------
(***************************************************************************)
(* One thread in compiled code: the chain of its compiled frames, what     *)
(* they hold, and the safe point that describes them to a collection       *)
(* (rustclr-jit alloc.rs, with the emitter x64.rs and the entry from the   *)
(* interpreter in tier.rs).                                                *)
(*                                                                         *)
(* A method is known by what the compiler decides about it: whether it     *)
(* polls at its loops' back-edges, what kind of local it has, whether it   *)
(* allocates.  A frame is one local, one argument and one place on the     *)
(* evaluation stack.  An array is held as the address of its descriptor,   *)
(* which lives in the sink of the call; an object is held as its handle.   *)
(* The interpreter below holds arrays and passes them in.                  *)
(*                                                                         *)
(* Habits are what real programs do and the compiler does not support:     *)
(*   "stack"     a value waits on the evaluation stack across a call,      *)
(*   "straight"  a method that never polls holds something across a call,  *)
(*   "argument"  an argument is all that holds what was passed in it,      *)
(*   "uncharted" a polling method runs under an entry that has no slots.   *)
(***************************************************************************)
EXTENDS Naturals, Sequences, FiniteSets, SequencesExt

CONSTANTS
  Instances, Arrays,  \* handles of class instances and of arrays
  Null,
  Methods,            \* the compiled methods, of those in Bodies
  MaxSteps,           \* calls, allocations and loads in a body without a loop
  MaxFrames,          \* the depth of the chain; the code allows 8192
  Trigger,            \* as many objects make the heap want a collection
  Habits

Handles == Instances \union Arrays

Bodies == [polls : BOOLEAN, local : {"none", "reference", "array"}, allocates : BOOLEAN]

ASSUME HandlesAssumption == Instances \intersect Arrays = {} /\ Null \notin Handles
ASSUME MethodsAssumption == Methods \subseteq Bodies
ASSUME DepthsAssumption == MaxSteps \in Nat /\ MaxFrames \in Nat /\ Trigger \in Nat
ASSUME HabitsAssumption == Habits \subseteq {"stack", "straight", "argument", "uncharted"}

VARIABLES
  heap,       \* the handles that name something
  fields,     \* the one reference in each object or array of references
  below,      \* what the interpreter's frames hold
  frames,     \* the compiled chain, the entry first
  sink,       \* whether the call has an allocation context
  charted,    \* whether the sink holds a safepoint state
  allocated,  \* what the sink has allocated and not yet pruned
  borrowed,   \* the array argument of the entry, which the tier pinned
  wanted,     \* the pressure flag of the call
  stopping    \* another thread asks everybody to stop

frameVars == <<heap, fields, below, frames, sink, charted, allocated, borrowed, wanted, stopping>>

context == <<sink, charted, borrowed>>

\* What is left to do of a body that runs through once; a loop has no end.
FrameOf(m, arg) == [body |-> m, local |-> Null, stack |-> Null, arg |-> arg,
                    left |-> IF m.polls THEN 0 ELSE MaxSteps]

InUse(f) == {f.local, f.stack, f.arg} \ {Null}

Top == Last(frames)

MayGoOn == Top.body.polls \/ Top.left > 0
Spent == IF Top.body.polls THEN 0 ELSE Top.left - 1

\* Values a local of the method may hold.
Fitting(m) == CASE m.local = "none" -> {}
                [] m.local = "reference" -> Instances
                [] m.local = "array" -> Arrays

-----------------------------------------------------------------------------
\* Tracing, and what a safe point knows of the frames.

\* What is in every set that holds the roots and whatever its members refer to.
ReachableFrom(roots) ==
  {h \in heap : \A S \in SUBSET heap :
     roots \intersect heap \subseteq S /\ {fields[g] : g \in S} \intersect heap \subseteq S => h \in S}

\* A method that does not poll has an empty map, and an argument is in none.
HasSlots(m) == m.polls /\ m.local # "none"

\* A walk that stops at the frame that polls.
Topmost == {Top}

\* The records the walk visits: the whole chain.
Walked == ToSet(frames)

Live == {f.local : f \in {g \in Walked : HasSlots(g.body)}} \ {Null}

Kept == allocated \intersect Live

PublishedRoots == Kept \union borrowed \union (Live \intersect Instances)

\* Taken out and forgotten.
NotPutBack == FALSE

\* The safepoint state is taken out for the duration and put back.
PutBack == charted

-----------------------------------------------------------------------------
\* From the interpreter into compiled code and back.

FrameInit ==
  /\ heap = {} /\ below = {} /\ frames = <<>>
  /\ fields = [h \in Handles |-> Null]
  /\ sink = FALSE /\ charted = FALSE
  /\ allocated = {} /\ borrowed = {}
  /\ wanted = FALSE /\ stopping = FALSE

NeedsContext(m, arg) == m.allocates \/ (HasSlots(m) /\ m.local = "reference") \/ arg # Null

Enter(m, arg) ==
  LET present == NeedsContext(m, arg)
  IN /\ frames = <<>>
     /\ arg \in (below \intersect heap) \union {Null}
     /\ m.polls => (present /\ HasSlots(m)) \/ "uncharted" \in Habits
     /\ frames' = <<FrameOf(m, arg)>>
     /\ sink' = present
     /\ charted' = (present /\ HasSlots(m))
     /\ borrowed' = {arg} \ {Null}
     /\ below' \in {below, below \ {arg}}
     /\ UNCHANGED <<heap, fields, allocated, wanted, stopping>>

\* The last frame is gone: the sink is dropped and with it every pin.
LeaveCompiledCode ==
  /\ frames' = <<>>
  /\ sink' = FALSE /\ charted' = FALSE
  /\ allocated' = {} /\ borrowed' = {} /\ wanted' = FALSE
  /\ UNCHANGED <<heap, fields, below, stopping>>

\* A failed bounds check, a full heap or too deep a recursion: every frame
\* of the chain gives up in turn and the tier raises the exception.
Trap == frames # <<>> /\ LeaveCompiledCode

Return ==
  /\ frames # <<>> /\ Top.stack = Null
  /\ IF Len(frames) = 1
     THEN LeaveCompiledCode
     ELSE /\ frames' = Front(frames)
          /\ UNCHANGED <<heap, fields, below, context, allocated, wanted, stopping>>

HoldsAcross(f) == f.body.polls \/ f.local = Null \/ "straight" \in Habits

\* What is held, whatever its callees do, by the entry's pin or by a local that
\* a map names.
Shelters(chain) ==
  borrowed \union {f.local : f \in {g \in ToSet(chain) : HasSlots(g.body)}}

\* An argument is taken off the evaluation stack, whatever put it there.
Call(m, passes) ==
  LET arg == IF passes THEN Top.stack ELSE Null
      caller == [Top EXCEPT !.stack = IF passes THEN Null ELSE Top.stack, !.left = Spent]
  IN /\ frames # <<>> /\ Len(frames) < MaxFrames
     /\ MayGoOn
     /\ passes => arg # Null
     /\ caller.stack = Null \/ "stack" \in Habits
     /\ HoldsAcross(caller)
     /\ m.polls => charted \/ "uncharted" \in Habits
     /\ arg \in Shelters(frames) \union {Null} \/ "argument" \in Habits
     /\ frames' = Append([frames EXCEPT ![Len(frames)] = caller], FrameOf(m, arg))
     /\ UNCHANGED <<heap, fields, below, context, allocated, wanted, stopping>>

-----------------------------------------------------------------------------
\* What compiled code does with references.

SetTop(field, value) == frames' = [frames EXCEPT ![Len(frames)][field] = value]

Push(value) == frames' = [frames EXCEPT ![Len(frames)].stack = value,
                                        ![Len(frames)].left = Spent]

Allocate(h) ==
  /\ frames # <<>> /\ Top.body.allocates /\ Top.stack = Null /\ MayGoOn
  /\ sink /\ h \in Handles \ heap
  /\ heap' = heap \union {h}
  /\ fields' = [fields EXCEPT ![h] = Null]
  /\ allocated' = allocated \union {h}
  /\ wanted' = (wanted \/ Cardinality(heap') >= Trigger)
  /\ Push(h)
  /\ UNCHANGED <<below, context, stopping>>

Working == frames # <<>> /\ UNCHANGED <<below, context, allocated, wanted, stopping, heap>>

Drop == Working /\ Top.stack # Null /\ SetTop("stack", Null) /\ UNCHANGED fields

StoreLocal ==
  /\ Working /\ Top.stack \in Fitting(Top.body)
  /\ frames' = [frames EXCEPT ![Len(frames)].local = Top.stack, ![Len(frames)].stack = Null]
  /\ UNCHANGED fields

ClearLocal == Working /\ Top.local # Null /\ SetTop("local", Null) /\ UNCHANGED fields

\* The argument is the callee's own copy, and no local of this frame keeps for
\* as long what is stored in it.
StoreArg ==
  /\ Working /\ Top.stack # Null
  /\ Top.stack \in Shelters(Front(frames)) \/ "argument" \in Habits
  /\ frames' = [frames EXCEPT ![Len(frames)].arg = Top.stack, ![Len(frames)].stack = Null]
  /\ UNCHANGED fields

ClearArg == Working /\ Top.arg # Null /\ SetTop("arg", Null) /\ UNCHANGED fields

Load(value) ==
  /\ Working /\ Top.stack = Null /\ MayGoOn /\ value # Null
  /\ Push(value)
  /\ UNCHANGED fields

LoadLocal == Load(Top.local)
LoadArg == Load(Top.arg)
LoadField == Working /\ Top.local \in heap /\ Load(fields[Top.local])

\* The compiled code can carry a reference in a field, an array it cannot.
StoreField ==
  /\ Working
  /\ \E target, value \in InUse(Top) :
       /\ Top.stack \in {target, value}
       /\ value \in Instances
       /\ target \in heap /\ target \notin borrowed
       /\ fields' = [fields EXCEPT ![target] = value]
  /\ SetTop("stack", Null)

-----------------------------------------------------------------------------
\* The safe point at a back-edge, where the polling frame's stack is empty.

Poll ==
  /\ frames # <<>> /\ Top.body.polls /\ Top.stack = Null
  /\ stopping \/ wanted
  /\ charted
  /\ allocated' = Kept
  /\ heap' = IF stopping \/ Cardinality(heap) >= Trigger
             THEN ReachableFrom(below \union PublishedRoots)
             ELSE heap
  /\ charted' = PutBack
  /\ wanted' = FALSE /\ stopping' = FALSE
  /\ UNCHANGED <<fields, below, frames, sink, borrowed>>

-----------------------------------------------------------------------------
\* The interpreter between two compiled calls, and the rest of the process.

Interpreting == frames = <<>> /\ UNCHANGED <<frames, context, allocated, wanted>>

NewBelow(h) ==
  /\ Interpreting /\ h \in Arrays \ heap
  /\ heap' = heap \union {h} /\ below' = below \union {h}
  /\ fields' = [fields EXCEPT ![h] = Null]
  /\ UNCHANGED stopping

ForgetBelow(h) ==
  /\ Interpreting /\ h \in below
  /\ below' = below \ {h}
  /\ UNCHANGED <<heap, fields, stopping>>

PollBelow ==
  /\ Interpreting /\ stopping
  /\ heap' = ReachableFrom(below)
  /\ stopping' = FALSE
  /\ UNCHANGED <<fields, below>>

RequestStop ==
  /\ ~stopping /\ stopping' = TRUE
  /\ UNCHANGED <<heap, fields, below, frames, context, allocated, wanted>>

\* One step of compiled code other than a call of the safe point.
CompiledStep ==
  \/ \E m \in Methods, passes \in BOOLEAN : Call(m, passes)
  \/ \E h \in Handles : Allocate(h)
  \/ Trap \/ Return \/ Drop \/ StoreLocal \/ ClearLocal \/ StoreArg \/ ClearArg
  \/ LoadLocal \/ LoadArg \/ LoadField \/ StoreField

FrameNext ==
  \/ \E m \in Methods, arg \in Arrays \union {Null} : Enter(m, arg)
  \/ CompiledStep \/ Poll
  \/ \E h \in Arrays : NewBelow(h) \/ ForgetBelow(h)
  \/ PollBelow \/ RequestStop

\* The thread is scheduled, and a loop that runs comes round to its
\* back-edge with an empty stack.
FrameFairness == WF_frameVars(CompiledStep \/ Poll) /\ SF_frameVars(Poll)

FrameSpec == FrameInit /\ [][FrameNext]_frameVars /\ FrameFairness

-----------------------------------------------------------------------------

FrameTypeOK ==
  /\ heap \subseteq Handles
  /\ fields \in [Handles -> Instances \union {Null}]
  /\ below \subseteq Arrays
  /\ frames \in BoundedSeq([body : Methods, local : Handles \union {Null},
                            stack : Handles \union {Null}, arg : Handles \union {Null},
                            left : 0..MaxSteps], MaxFrames)
  /\ {sink, charted, wanted, stopping} \subseteq BOOLEAN
  /\ allocated \subseteq Handles /\ borrowed \subseteq Arrays

(***************************************************************************)
(* Whatever a compiled frame still holds is there: no collection, whoever  *)
(* asked for it and in whichever frame it is met, frees an object or an    *)
(* array a frame of the chain names, and no pruning drops the descriptor   *)
(* an array is held by (alloc.rs safepoint and prune).                     *)
(***************************************************************************)
InUseIsKept ==
  \A f \in ToSet(frames) : \A h \in InUse(f) :
     /\ h \in heap
     /\ h \in Arrays => h \in allocated \union borrowed

(***************************************************************************)
(* A thread that is asked to stop while it runs compiled code stops, or is *)
(* through with it: every loop below every entry answers, time and again   *)
(* (alloc.rs safepoint, x64.rs safepoint).                                 *)
(***************************************************************************)
StopIsAnswered == (stopping /\ frames # <<>>) ~> (~stopping \/ frames = <<>>)

=============================================================================
