------------------------------- MODULE Tiering -------------------------------
(***************************************************************************)
(* When a method is compiled, and how compiled methods find each other     *)
(* (rustclr-jit tier.rs).  A compiled call goes through the caller's       *)
(* table, which holds for every callee its entry and the address of its    *)
(* own table.  A table is allocated when its method is first reached from  *)
(* one about to run, and filled when all that one reaches is compiled.     *)
(* What a body calls, whether it loops and whether code can be generated   *)
(* for it are chosen at the start.                                         *)
(***************************************************************************)
EXTENDS Integers, Sequences, FiniteSets, SequencesExt

CONSTANTS
  Callables,    \* the methods of the program
  Threshold,    \* calls before a body without a loop is worth compiling
  CallTables,   \* what a body may call: a sequence of methods, each once
  NoTable

ASSUME ThresholdAssumption == Threshold \in Nat
ASSUME CallablesAssumption == IsFiniteSet(Callables) /\ CallTables \subseteq Seq(Callables)

VARIABLES
  callees, loops, compilable,   \* the program, and what the backend can do
  counts, compiled, declined, \* the tier's bookkeeping
  resolved,                   \* whose tables have been filled
  tables                      \* the table of each method: address and slots

Tables == [address : Nat, slots : Seq([entry : Callables, table : Nat])]
ASSUME NoTableAssumption == NoTable \notin Tables

bodies == <<callees, loops, compilable>>
tierVars == <<bodies, counts, compiled, declined, resolved, tables>>

TierInit ==
  /\ callees \in [Callables -> CallTables]
  /\ \A m \in Callables : m \notin ToSet(callees[m])
  /\ loops \in SUBSET Callables /\ compilable \in SUBSET Callables
  /\ counts = [m \in Callables |-> 0]
  /\ compiled = {} /\ declined = {} /\ resolved = {}
  /\ tables = [m \in Callables |-> NoTable]

\* An empty table of the right size, at an address of its own; the address
\* counts the tables the method has had.
Fresh(old) == [address |-> IF old = NoTable THEN 1 ELSE old.address + 1, slots |-> <<>>]

AllocatedOnce(old) == IF old = NoTable THEN Fresh(old) ELSE old

-----------------------------------------------------------------------------
(* A pass over what a method reaches: what is compiled, declined and on    *)
(* the path, which tables there are, and whether all went well so far.     *)

CompileNow(s, m) ==
  IF m \in s.compiled \/ m \in s.declined THEN s
  ELSE IF m \in compilable THEN [s EXCEPT !.compiled = @ \union {m}]
  ELSE [s EXCEPT !.declined = @ \union {m}]

Passes ==
  [compiled : SUBSET Callables, declined : SUBSET Callables,
   tables : [Callables -> Tables \union {NoTable}],
   path : SUBSET Callables, found : SUBSET Callables, ok : BOOLEAN]

Entered(s, m) == [s EXCEPT !.path = @ \union {m}, !.found = @ \union {m},
                           !.tables[m] = AllocatedOnce(@)]

\* One callee after the other, by f, until one of them cannot be compiled.
Descend(f, s, m) ==
  LET done[i \in 0 .. Len(callees[m])] ==
        IF i = 0 THEN s
        ELSE LET u == done[i - 1] IN IF u.ok THEN f[<<u, callees[m][i]>>] ELSE u
  IN  done[Len(callees[m])]

ReachBy(f, s, m) ==
  LET t == CompileNow(s, m)
  IN  IF m \notin t.compiled THEN [t EXCEPT !.ok = FALSE]
      ELSE IF m \in t.path THEN t
      ELSE [Descend(f, Entered(t, m), m) EXCEPT !.path = @ \ {m}]

\* What is reached by paths shorter than n; a path meets no method twice.
Reaching ==
  LET reach[n \in 0 .. Cardinality(Callables) + 1] ==
        [p \in Passes \X Callables |->
           IF n = 0 THEN p[1] ELSE ReachBy(reach[n - 1], p[1], p[2])]
  IN  reach

Reach(s, m) == Reaching[Cardinality(Callables) + 1][<<s, m>>]

Tier == [compiled |-> compiled, declined |-> declined, tables |-> tables,
         path |-> {}, found |-> {}, ok |-> TRUE]

\* A callee's entry is the code of that method; its table is named by address.
Filled(s, m) ==
  [s.tables[m] EXCEPT !.slots =
     [i \in DOMAIN callees[m] |->
        [entry |-> callees[m][i], table |-> s.tables[callees[m][i]].address]]]

-----------------------------------------------------------------------------

\* Counted, and interpreted: not worth compiling yet.
Interpret(m) ==
  /\ m \notin compiled \union declined
  /\ counts[m] + 1 < Threshold /\ m \notin loops
  /\ counts' = [counts EXCEPT ![m] = @ + 1]
  /\ UNCHANGED <<bodies, compiled, declined, resolved, tables>>

Counted(m) ==
  IF m \in compiled THEN counts
  ELSE [counts EXCEPT ![m] = IF @ < Threshold THEN @ + 1 ELSE @]

Worth(m) == m \in compiled \/ counts[m] + 1 >= Threshold \/ m \in loops

Decline(m) ==
  /\ Worth(m) /\ m \notin compiled \union declined \union compilable
  /\ declined' = declined \union {m}
  /\ counts' = Counted(m)
  /\ UNCHANGED <<bodies, compiled, resolved, tables>>

\* The caller was emitted around a call that can never be filled in: it is
\* discarded, its table with it.
Discard(m) ==
  LET s == Reach(Tier, m)
  IN /\ Worth(m) /\ m \notin declined \union resolved
     /\ m \in compiled \union compilable
     /\ ~s.ok
     /\ compiled' = s.compiled \ {m}
     /\ declined' = s.declined \union {m}
     /\ tables' = [s.tables EXCEPT ![m] = NoTable]
     /\ counts' = Counted(m)
     /\ UNCHANGED <<bodies, resolved>>

Resolve(m) ==
  LET s == Reach(Tier, m)
  IN /\ Worth(m) /\ m \notin declined \union resolved
     /\ m \in compiled \union compilable
     /\ s.ok
     /\ compiled' = s.compiled /\ declined' = s.declined
     /\ tables' = [o \in Callables |-> IF o \in s.found THEN Filled(s, o) ELSE s.tables[o]]
     /\ resolved' = resolved \union s.found
     /\ counts' = Counted(m)
     /\ UNCHANGED bodies

\* Declined for good, or ready: the call is interpreted or runs as it is.
Settled(m) == m \in declined \union resolved /\ UNCHANGED tierVars

TierNext ==
  \E m \in Callables :
     Interpret(m) \/ Decline(m) \/ Discard(m) \/ Resolve(m) \/ Settled(m)

TierSpec == TierInit /\ [][TierNext]_tierVars

-----------------------------------------------------------------------------

TierTypeOK ==
  /\ compiled \union declined \union resolved \subseteq Callables
  /\ counts \in [Callables -> 0..Threshold]
  /\ \A m \in Callables : tables[m] # NoTable => tables[m].address \in Nat

(***************************************************************************)
(* A method that may run compiled only ever jumps to code that exists:     *)
(* each entry of its table is a method that is still compiled and may run  *)
(* itself, with the address of the table that method has now.  A table     *)
(* allocated a second time, an entry of a method that was discarded, or a  *)
(* body marked ready before its callees are, sends it through a dangling   *)
(* pointer (tier.rs resolve_call_table).                                   *)
(***************************************************************************)
CallsLand ==
  \A m \in resolved :
     /\ m \in compiled /\ tables[m] # NoTable
     /\ Len(tables[m].slots) = Len(callees[m])
     /\ \A i \in DOMAIN callees[m] :
          LET callee == callees[m][i]
          IN /\ callee \in resolved
             /\ tables[m].slots[i] = [entry |-> callee, table |-> tables[callee].address]

=============================================================================
