----------------------------- MODULE Exceptions -----------------------------
(***************************************************************************)
(* rustclr-core/src/interp/eh.rs with the exception instructions of        *)
(* exec.rs and the frames of interp.rs: how one thread searches for a      *)
(* handler, runs filters and finally blocks, and keeps the exception       *)
(* objects alive while managed code that allocates runs in between.        *)
(*                                                                         *)
(* A method is a list of instructions and a table of clauses, innermost    *)
(* first.  The position of a frame is the instruction being executed       *)
(* (executing_offset), in a caller its call.  The values of a frame other  *)
(* than exception objects are left out.                                    *)
(***************************************************************************)
EXTENDS Integers, Sequences

CONSTANTS Programs,     \* [methods, says, shape]: the code, what its source
                        \* says it does, and what is special about it
          MaxFrames,    \* limits.max_frames
          Tiers,        \* where a called leaf may run: "interpreted", "compiled"
          NoObject

\* A program has a first method, and every method a table of clauses.
ASSUME ProgramsAssumption ==
  \A p \in Programs :
    /\ 1 \in DOMAIN p.methods
    /\ \A m \in DOMAIN p.methods : LET table == p.methods[m].clauses
                                  IN  Len(table) \in Nat /\ DOMAIN table = 1 .. Len(table)
ASSUME TiersAssumption == Tiers \subseteq {"interpreted", "compiled"}

VARIABLES program,
          frames,       \* Interpreter::frames, the running one last
          dispatching,  \* dispatches in progress, innermost last
          searching,    \* is the innermost looking at clauses, or in a filter?
          live,         \* exception objects the heap holds
          born,         \* exceptions created so far, to tell them apart
          log,          \* what the program did that can be observed
          status        \* "running", or how the program ended

ehVars == <<program, frames, dispatching, searching, live, born, log, status>>

Propagate == 0                    \* the sentinel among finally_resume's offsets
Nowhere == -1                     \* finally_resume: None

\* The entry of a method (filter = 0), or the frame a dispatch runs a filter of
\* one in.
NewFrame(method, at, stack, filter) ==
  [method |-> method, at |-> at, stack |-> stack, filter |-> filter,
   pending |-> <<>>, resume |-> Nowhere, inFlight |-> NoObject]

EhInit ==
  /\ program \in Programs
  /\ frames = <<NewFrame(1, 1, <<>>, 0)>>
  /\ dispatching = <<>> /\ searching = FALSE
  /\ live = {} /\ born = 0 /\ log = <<>> /\ status = "running"

Depth == Len(frames)
Top == frames[Depth]
Method == program.methods[Top.method]
Instruction == Method.code[Top.at]
Current == dispatching[Len(dispatching)]

AllButLast(s) == SubSeq(s, 1, Len(s) - 1)
WithTop(f) == [frames EXCEPT ![Depth] = f]
Advance == WithTop([Top EXCEPT !.at = @ + 1])

Executing(op) == status = "running" /\ ~searching /\ Instruction.op = op

----------------------------------------------------------------------------
\* Roots.

Held(f) == {f.stack[i] : i \in DOMAIN f.stack}
Carried(f) == IF f.inFlight = NoObject THEN {} ELSE {f.inFlight}
Dispatched == {dispatching[i].object : i \in DOMAIN dispatching}

FrameRoots == UNION {Held(frames[i]) \cup Carried(frames[i]) : i \in 1..Depth}
Roots == FrameRoots \cup Dispatched

\* The list `enter` makes for the code generator is another one.
CompiledRoots == UNION {Held(frames[i]) : i \in 1..Depth}

\* A call of a leaf that allocates, and may collect, in either tier.
Mark ==
  /\ Executing("mark")
  /\ log' = Append(log, Instruction.label)
  /\ \/ UNCHANGED live
     \/ "interpreted" \in Tiers /\ live' = live \cap Roots
     \/ "compiled" \in Tiers /\ live' = live \cap CompiledRoots
  /\ frames' = Advance
  /\ UNCHANGED <<program, dispatching, searching, born, status>>

----------------------------------------------------------------------------
\* Raising: dispatch_exception starts, and looks at the clauses of the frame.

Search(object) == [object |-> object, clause |-> 1, finallies |-> <<>>]

Raise(object) ==
  /\ dispatching' = Append(dispatching, Search(object))
  /\ searching' = TRUE

\* A new object, of the type thrown or made by the runtime for its own error.
RaiseNew(type) ==
  LET object == [type |-> type, id |-> born + 1]
  IN  /\ born' = born + 1 /\ live' = live \cup {object}
      /\ Raise(object)

Throw ==
  /\ Executing("throw")
  /\ RaiseNew(Instruction.type)
  /\ UNCHANGED <<program, frames, log, status>>

Rethrow ==
  /\ Executing("rethrow")
  /\ frames' = WithTop([Top EXCEPT !.inFlight = NoObject])
  /\ IF Top.inFlight = NoObject
       THEN RaiseNew("InvalidOperation")
       ELSE Raise(Top.inFlight) /\ UNCHANGED <<born, live>>
  /\ UNCHANGED <<program, log, status>>

Clauses == Method.clauses
Clause == Clauses[Current.clause]
Guards(c, at) == c.from <= at /\ at < c.to

Matches(c, object) == c.kind = "catch" /\ c.type \in {"any", object.type}

Onward(search, finallies) ==
  [object |-> search.object, clause |-> search.clause + 1, finallies |-> finallies]
NextClause(finallies) ==
  dispatching' = [dispatching EXCEPT ![Len(dispatching)] = Onward(Current, finallies)]

HandlerFirst(target) == target = Propagate /\ Current.finallies # <<>>    \* mutant
FinalliesFirst(target) == Current.finallies # <<>>

\* The search in a frame is over and some block of it takes control: its
\* finally blocks first, and when they are done the handler found, or
\* Propagate.  A handler starts with the exception alone on the stack.
Takes(frame, target) ==
  IF FinalliesFirst(target)
    THEN [frame EXCEPT !.inFlight = Current.object, !.stack = <<>>,
                       !.at = Current.finallies[1],
                       !.pending = Tail(Current.finallies), !.resume = target]
    ELSE [frame EXCEPT !.inFlight = Current.object, !.stack = <<Current.object>>,
                       !.at = target]

TakeControl(below, frame, target) ==
  /\ frames' = Append(below, Takes(frame, target))
  /\ dispatching' = AllButLast(dispatching)
  /\ searching' = FALSE

Searching == status = "running" /\ searching
ClausesLeft == Current.clause <= Len(Clauses)

SkipClause ==
  /\ Searching /\ ClausesLeft
  /\ \/ ~Guards(Clause, Top.at)
     \/ Clause.kind = "catch" /\ ~Matches(Clause, Current.object)
  /\ NextClause(Current.finallies)
  /\ UNCHANGED <<program, frames, searching, live, born, log, status>>

QueueFinally ==
  /\ Searching /\ ClausesLeft /\ Guards(Clause, Top.at)
  /\ Clause.kind \in {"finally", "fault"}
  /\ NextClause(Append(Current.finallies, Clause.handler))
  /\ UNCHANGED <<program, frames, searching, live, born, log, status>>

CatchFound ==
  /\ Searching /\ ClausesLeft /\ Guards(Clause, Top.at)
  /\ Matches(Clause, Current.object)
  /\ TakeControl(AllButLast(frames), Top, Clause.handler)
  /\ UNCHANGED <<program, live, born, log, status>>

\* run_filter: a frame of its own above the one being searched; without room
\* for it the filter declines.
RunFilter ==
  /\ Searching /\ ClausesLeft /\ Guards(Clause, Top.at) /\ Clause.kind = "filter"
  /\ IF Depth >= MaxFrames
       THEN NextClause(Current.finallies) /\ UNCHANGED <<frames, searching>>
       ELSE /\ frames' = Append(frames, NewFrame(Top.method, Clause.filter,
                                                 <<Current.object>>, Len(dispatching)))
            /\ searching' = FALSE /\ UNCHANGED dispatching
  /\ UNCHANGED <<program, live, born, log, status>>

\* No clause takes the exception: finally blocks run and then it goes on.
FinallyFirst ==
  /\ Searching /\ ~ClausesLeft /\ Current.finallies # <<>>
  /\ TakeControl(AllButLast(frames), Top, Propagate)
  /\ UNCHANGED <<program, live, born, log, status>>

NotPopped == frames                  \* mutant: the same frame is searched again
Popped == AllButLast(frames)

\* Nothing in this frame is left to run: the caller is searched afresh.  The
\* frame of a filter is where its run_until stops.
Unwind ==
  /\ Searching /\ ~ClausesLeft /\ Current.finallies = <<>>
  /\ Depth > 1 /\ Top.filter = 0
  /\ frames' = Popped
  /\ dispatching' = Append(AllButLast(dispatching), Search(Current.object))
  /\ UNCHANGED <<program, searching, live, born, log, status>>

\* An exception escapes a filter: swallowed, and the filter declines.
FilterFails ==
  /\ Searching /\ ~ClausesLeft /\ Current.finallies = <<>>
  /\ Top.filter > 0
  /\ frames' = AllButLast(frames)
  /\ LET outer == dispatching[Len(dispatching) - 1]
     IN  dispatching' = Append(SubSeq(dispatching, 1, Len(dispatching) - 2),
                               Onward(outer, outer.finallies))
  /\ UNCHANGED <<program, searching, live, born, log, status>>

Unhandled ==
  /\ Searching /\ ~ClausesLeft /\ Current.finallies = <<>>
  /\ Depth = 1
  /\ status' = "unhandled" /\ log' = Append(log, Current.object.type)
  /\ dispatching' = <<>> /\ searching' = FALSE /\ frames' = <<>>
  /\ UNCHANGED <<program, live, born>>

\* endfilter hands its verdict to the search in the frame below.
Endfilter ==
  /\ Executing("endfilter") /\ Top.filter > 0
  /\ IF Instruction.accepts
       THEN TakeControl(SubSeq(frames, 1, Depth - 2), frames[Depth - 1], Clause.handler)
       ELSE /\ frames' = AllButLast(frames) /\ searching' = TRUE
            /\ NextClause(Current.finallies)
  /\ UNCHANGED <<program, live, born, log, status>>

----------------------------------------------------------------------------
\* Leaving a protected region.

FinalliesLeft(from, to) ==
  LET leaves(c) == c.kind = "finally" /\ Guards(c, from) /\ ~Guards(c, to)
      left == SelectSeq(Clauses, leaves)
  IN  [i \in DOMAIN left |-> left[i].handler]

\* do_leave: what was queued, or on its way, in this frame is replaced.
Leave ==
  /\ Executing("leave")
  /\ LET queue == FinalliesLeft(Top.at, Instruction.target)
         f == [Top EXCEPT !.inFlight = NoObject, !.stack = <<>>]
     IN  frames' = WithTop(
           IF queue = <<>>
             THEN [f EXCEPT !.at = Instruction.target]
             ELSE [f EXCEPT !.at = queue[1], !.pending = Tail(queue),
                            !.resume = Instruction.target])
  /\ UNCHANGED <<program, dispatching, searching, live, born, log, status>>

\* do_endfinally with more blocks queued.
NextFinally ==
  /\ Executing("endfinally") /\ Top.pending # <<>>
  /\ frames' = WithTop([Top EXCEPT !.at = Head(Top.pending), !.pending = Tail(Top.pending),
                                   !.stack = <<>>])
  /\ UNCHANGED <<program, dispatching, searching, live, born, log, status>>

LastFinally(resume) ==
  /\ Executing("endfinally") /\ Top.pending = <<>>
  /\ resume

\* ... on the way to a handler, or to where a leave goes.
ResumeAtTarget ==
  /\ LastFinally(Top.resume \notin {Propagate, Nowhere})
  /\ frames' = WithTop([Top EXCEPT !.at = Top.resume, !.resume = Nowhere,
                                   !.stack = IF Top.inFlight = NoObject
                                               THEN <<>> ELSE <<Top.inFlight>>])
  /\ UNCHANGED <<program, dispatching, searching, live, born, log, status>>

\* ... to go on propagating: as if raised again, here.
ResumePropagating ==
  /\ LastFinally(Top.resume = Propagate /\ Top.inFlight # NoObject)
  /\ frames' = WithTop([Top EXCEPT !.resume = Nowhere, !.inFlight = NoObject])
  /\ Raise(Top.inFlight)
  /\ UNCHANGED <<program, live, born, log, status>>

\* ... with nothing to resume: control falls through.
FallThrough ==
  /\ LastFinally(\/ Top.resume = Nowhere
                 \/ Top.resume = Propagate /\ Top.inFlight = NoObject)
  /\ frames' = WithTop([Top EXCEPT !.resume = Nowhere, !.at = Top.at + 1])
  /\ UNCHANGED <<program, dispatching, searching, live, born, log, status>>

----------------------------------------------------------------------------
\* The rest of a program.

\* The first instruction of a handler stores the exception.  An empty stack
\* is not an exception a program could catch: it ends.
Pop ==
  /\ Executing("pop")
  /\ IF Top.stack = <<>>
       THEN /\ status' = "broken" /\ frames' = <<>> /\ UNCHANGED log
       ELSE /\ frames' = WithTop([Top EXCEPT !.stack = <<>>, !.at = Top.at + 1])
            /\ log' = Append(log, Top.stack[1].type) /\ UNCHANGED status
  /\ UNCHANGED <<program, dispatching, searching, live, born>>

Call ==
  /\ Executing("call")
  /\ IF Depth >= MaxFrames
       THEN RaiseNew("StackOverflow") /\ UNCHANGED frames
       ELSE /\ frames' = Append(frames, NewFrame(Instruction.method, 1, <<>>, 0))
            /\ UNCHANGED <<dispatching, searching, live, born>>
  /\ UNCHANGED <<program, log, status>>

Ret ==
  /\ Executing("ret")
  /\ IF Depth = 1
       THEN frames' = <<>> /\ status' = "done"
       ELSE LET caller == frames[Depth - 1]
            IN  /\ frames' = Append(SubSeq(frames, 1, Depth - 2), [caller EXCEPT !.at = @ + 1])
                /\ UNCHANGED status
  /\ UNCHANGED <<program, dispatching, searching, live, born, log>>

Ended == status # "running" /\ UNCHANGED ehVars

EhNext == \/ Mark \/ Throw \/ Rethrow \/ Pop \/ Call \/ Ret
          \/ SkipClause \/ QueueFinally \/ CatchFound \/ RunFilter
          \/ FinallyFirst \/ Unwind \/ FilterFails \/ Unhandled \/ Endfilter
          \/ Leave \/ NextFinally \/ ResumeAtTarget \/ ResumePropagating
          \/ FallThrough \/ Ended

EhSpec == EhInit /\ [][EhNext]_ehVars

\* The interpreter goes on from one instruction to the next.
EhFairSpec == EhSpec /\ WF_ehVars(EhNext)

----------------------------------------------------------------------------
\* Properties.

\* Where an exception goes and which blocks run on its way, in which order, is
\* what the source says, for tries in tries and in handlers, rethrown and
\* replaced exceptions, filters, and calls in between.
AsWritten == status # "running" => <<status, log>> = program.says
BehavesAsWritten == program.shape = "regular" => AsWritten

\* docs/limitations.md: "`try`/`catch`/`finally` works alongside this, including
\* nesting, rethrow, and `finally` blocks running during unwind".
NestingWorks == AsWritten

\* "the symptom is a swept exception object" (interp.rs, roots): whatever a
\* collection during a filter or a finally block frees, no exception object
\* that a frame or a dispatch will come back to is among it.
NoExceptionSwept ==
  /\ \A i \in DOMAIN frames : Held(frames[i]) \cup Carried(frames[i]) \subseteq live
  /\ Dispatched \subseteq live

\* Whatever tries it nests, a program without loops ends: no block is entered
\* again and again on the way of an exception.
EveryProgramEnds == <>(status # "running")

=============================================================================
