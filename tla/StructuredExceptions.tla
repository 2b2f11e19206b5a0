------------------------ MODULE StructuredExceptions ------------------------
(***************************************************************************)
(* Programs with try statements as they are written, the code a compiler   *)
(* makes of them, and what they do.  A block is a sequence of statements:  *)
(*   mark, throw, rethrow (`throw;`), call (of the one other method) and   *)
(*   try with a catch, a filter or a finally.                              *)
(* What they do is told in two passes, as eh.rs says of itself and         *)
(* docs/limitations.md by pointing to ECMA-335: a throw first asks every   *)
(* filter on the way to the try that takes it, those of the callers too,   *)
(* and then the finally blocks on that way run.  They run as well when no  *)
(* try takes it, which the standard leaves open.                           *)
(***************************************************************************)
EXTENDS Integers, Sequences

MarkOf(label) == [k |-> "mark", label |-> label]
ThrowOf(type) == [k |-> "throw", type |-> type]
RethrowIt == [k |-> "rethrow"]
CallIt == [k |-> "call"]
CatchOf(body, type, handler) == [k |-> "catch", body |-> body, type |-> type, handler |-> handler]
FilterOf(body, verdict, handler) ==       \* "accepts", "declines" or "throws"
  [k |-> "filter", body |-> body, verdict |-> verdict, handler |-> handler]
FinallyOf(body, fin) == [k |-> "finally", body |-> body, fin |-> fin]

----------------------------------------------------------------------------
\* What a block does: [log, exc, to].  exc is the type of the exception that
\* leaves it, or "none"; `to` is the level of the try statement that takes it,
\* counted from the outermost of the program, 0 when none does.

Normally(l) == [log |-> l, exc |-> "none", to |-> 0]

Accepts(try, type) == IF try.k = "catch" THEN try.type \in {"any", type} ELSE try.verdict = "accepts"

\* The search through the tries around a throw, innermost first: the filters
\* on the way run, up to the first that accepts.
Raised(type, tries) ==
  LET takers == {i \in DOMAIN tries : Accepts(tries[i], type)}
      taker == CHOOSE i \in takers : \A j \in takers : i <= j
      asked == IF takers = {} THEN tries ELSE SubSeq(tries, 1, taker)
      isFilter(t) == t.k = "filter"
      filters == SelectSeq(asked, isFilter)
      logs == [i \in 1..2 * Len(filters) |-> IF i % 2 = 1 THEN type ELSE "filter"]
  IN  [log |-> logs, exc |-> type,
       to |-> IF takers = {} THEN 0 ELSE Len(tries) - taker + 1]

Then(first, second) == [second EXCEPT !.log = first.log \o @]

RECURSIVE Does(_, _, _, _)
\* In a program whose other method is `callee`, with `tries` around it, those
\* of the caller last, and the exception `caught` to rethrow.
Does(block, callee, tries, caught) ==
  IF block = <<>> THEN Normally(<<>>)
  ELSE
    LET stmt == Head(block)
        first ==
          CASE stmt.k = "mark" -> Normally(<<stmt.label>>)
            [] stmt.k = "throw" -> Raised(stmt.type, tries)
            [] stmt.k = "rethrow" -> Raised(caught, tries)
            [] stmt.k = "call" -> Does(callee, <<>>, tries, "none")
            [] stmt.k \in {"catch", "filter"} ->
                 LET r == Does(stmt.body, callee, <<stmt>> \o tries, caught)
                 IN  IF r.exc # "none" /\ r.to = Len(tries) + 1
                       THEN Then([r EXCEPT !.log = Append(@, r.exc)],
                                 Does(stmt.handler, callee, tries, r.exc))
                       ELSE r
            [] stmt.k = "finally" ->
                 LET r == Does(stmt.body, callee, tries, caught)
                     f == Does(stmt.fin, callee, tries, caught)
                 IN  IF f.exc # "none" THEN Then(r, f)
                                       ELSE [r EXCEPT !.log = @ \o f.log]
    IN  IF first.exc # "none" THEN first
        ELSE Then(first, Does(Tail(block), callee, tries, caught))

Says(main, callee) ==
  LET r == Does(main, callee, <<>>, "none")
  IN  IF r.exc = "none" THEN <<"done", r.log>>
                        ELSE <<"unhandled", Append(r.log, r.exc)>>

----------------------------------------------------------------------------
\* The code: instructions from position `at`, and clauses innermost first.

Op(op) == [op |-> op]
LeaveTo(target) == [op |-> "leave", target |-> target]

Verdict(v) == IF v = "throws" THEN [op |-> "throw", type |-> "F"]
                             ELSE [op |-> "endfilter", accepts |-> v = "accepts"]

RECURSIVE Compiled(_, _)
Compiled(block, at) ==
  IF block = <<>> THEN [code |-> <<>>, clauses |-> <<>>]
  ELSE
    LET stmt == Head(block)
        body == Compiled(stmt.body, at)
        leave == at + Len(body.code)              \* where the body leaves the try
        first ==
          CASE stmt.k = "mark" -> [code |-> <<[op |-> "mark", label |-> stmt.label]>>, clauses |-> <<>>]
            [] stmt.k = "throw" -> [code |-> <<[op |-> "throw", type |-> stmt.type]>>, clauses |-> <<>>]
            [] stmt.k = "rethrow" -> [code |-> <<Op("rethrow")>>, clauses |-> <<>>]
            [] stmt.k = "call" -> [code |-> <<[op |-> "call", method |-> 2]>>, clauses |-> <<>>]
            [] stmt.k = "catch" ->
                 LET h == Compiled(stmt.handler, leave + 2)
                     end == leave + 3 + Len(h.code)
                 IN  [code |-> body.code \o <<LeaveTo(end), Op("pop")>>
                                 \o h.code \o <<LeaveTo(end)>>,
                      clauses |-> body.clauses \o h.clauses \o
                        <<[kind |-> "catch", type |-> stmt.type,
                           from |-> at, to |-> leave + 1, handler |-> leave + 1]>>]
            [] stmt.k = "filter" ->
                 LET h == Compiled(stmt.handler, leave + 5)
                     end == leave + 6 + Len(h.code)
                 IN  [code |-> body.code
                        \o <<LeaveTo(end), Op("pop"), [op |-> "mark", label |-> "filter"],
                             Verdict(stmt.verdict), Op("pop")>>
                        \o h.code \o <<LeaveTo(end)>>,
                      clauses |-> body.clauses \o h.clauses \o
                        <<[kind |-> "filter", filter |-> leave + 1,
                           from |-> at, to |-> leave + 1, handler |-> leave + 4]>>]
            [] stmt.k = "finally" ->
                 LET f == Compiled(stmt.fin, leave + 1)
                     end == leave + 2 + Len(f.code)
                 IN  [code |-> body.code \o <<LeaveTo(end)>> \o f.code \o <<Op("endfinally")>>,
                      clauses |-> body.clauses \o f.clauses \o
                        <<[kind |-> "finally", from |-> at, to |-> leave + 1,
                           handler |-> leave + 1]>>]
        rest == Compiled(Tail(block), at + Len(first.code))
    IN  [code |-> first.code \o rest.code, clauses |-> first.clauses \o rest.clauses]

MethodOf(block) ==
  LET c == Compiled(block, 1) IN [code |-> Append(c.code, Op("ret")), clauses |-> c.clauses]

ProgramOf(main, callee, shape) ==
  [methods |-> <<MethodOf(main), MethodOf(callee)>>, says |-> Says(main, callee),
   shape |-> shape]

=============================================================================
