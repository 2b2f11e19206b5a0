-------------------------------- MODULE FlashFs --------------------------------
(***************************************************************************)
(* rustclr-flashfs: named blobs in a log on raw NOR flash, newest wins.    *)
(*                                                                         *)
(* One cell stands for a record's header and name, or for one unit of its  *)
(* data; programming a cell that is not erased spoils it, and only a whole *)
(* sector can be erased.  What a call will do to the flash is fixed by     *)
(* what it read into RAM, so a call is a list of flash steps, `todo`, and  *)
(* a reset may fall between any two of them or tear one.                   *)
(***************************************************************************)
EXTENDS Integers, Sequences, FiniteSets

CONSTANTS Names, Bytes, None,
          MaxLen,      \* bound on the length of a file
          Capacity,    \* cells in the window
          Sector,      \* cells in a sector
          Erased,      \* 0xFF throughout
          Torn,        \* a cell programmed badly or in part: no magic, no byte
          NoName,      \* a name that is not UTF-8, because its end is still 0xFF
          Faults       \* the stages a reset or a bad cell may strike in

ASSUME CapacityAssumption == Capacity \in Nat /\ Sector \in Nat \ {0}
ASSUME LengthAssumption == MaxLen \in Nat
ASSUME FaultsAssumption == Faults \subseteq {"compacting", "putting"}

VARIABLES
  cells,     \* the window
  call,      \* the call in progress, or None
  record,    \* the record it is about to append, in RAM
  stage,     \* "idle", "compacting", or "putting" the record in
  todo,      \* the flash steps still to do
  outcome,   \* how the last call ended
  files      \* history: what `read` answers, as of the last return

flashVars == <<cells, call, record, stage, todo, outcome, files>>

Addresses == 0 .. Capacity - 1
Flags == {"file", "deleted", "directory"}
Headers == [name : Names \cup {NoName}, flags : Flags, len : 0 .. MaxLen]
Cells == {Erased, Torn} \cup Bytes \cup Headers

Data == UNION {[1 .. k -> Bytes] : k \in 0 .. MaxLen}
Calls == [op : {"write", "append"}, name : Names, data : Data]
         \cup [op : {"delete", "mkdir"}, name : Names, data : {<<>>}]

ASSUME CellsAssumption == \A h \in Headers : h \notin {Erased, Torn} \cup Bytes
ASSUME NamesAssumption == NoName \notin Names
ASSUME NoneAssumption ==
  None \notin Calls /\ \A k \in 0 .. MaxLen : None \notin [1 .. k -> Cells]

-----------------------------------------------------------------------------
(* Reading the log *)

(* scan: the records one after the other from the start of the window, by   *)
(* the cell of their header, and where the log ends.  A cell without the    *)
(* magic, or a record past the end of the window, ends it.                  *)
IsRecord(c, at) == at < Capacity /\ c[at] \in Headers /\ at + 1 + c[at].len <= Capacity
Past(c, at) == at + 1 + c[at].len

Scan(c) ==
  LET from[at \in 0 .. Capacity] ==
        IF IsRecord(c, at)
        THEN LET rest == from[Past(c, at)]
             IN  [starts |-> {at} \cup rest.starts, end |-> rest.end]
        ELSE [starts |-> {}, end |-> at]
  IN  from

Starts(c) == Scan(c)[0].starts
End(c) == Scan(c)[0].end

DataOf(c, at) == [k \in 1 .. c[at].len |-> c[at + k]]

(* newest: the last match of a scan                                         *)
Matches(c, n) == {at \in Starts(c) : c[at].name = n}
Newest(c, n) == LET found == Matches(c, n) IN CHOOSE at \in found : \A b \in found : b <= at

Read(c, n) ==
  IF Matches(c, n) = {} THEN None
  ELSE LET at == Newest(c, n) IN IF c[at].flags = "deleted" THEN None ELSE DataOf(c, at)
Contents(c) == [n \in Names |-> Read(c, n)]

-----------------------------------------------------------------------------
(* Writing to it *)

RecordBytes(n, flags, data) == <<[name |-> n, flags |-> flags, len |-> Len(data)]>> \o data

(* put: program the cells one after the other, then read them back.         *)
Put(at, bytes) ==
  [k \in 1 .. Len(bytes) |-> [do |-> "program", at |-> at + k - 1, cells |-> <<bytes[k]>>]]
  \o <<[do |-> "verify", at |-> at, cells |-> bytes]>>

ShortProbe(c, at, n) == c[at] = Erased                               \* mutant
Blank(c, at, n) == \A a \in at .. at + n - 1 : c[a] = Erased

Fits(c, n) == End(c) + n <= Capacity

(* compact: erase what is used and what is coming, in whole sectors, and    *)
(* put the live records back from the start.                                *)
Wanted(used, incoming) == used + incoming

Erases(span) == [s \in 1 .. (span + Sector - 1) \div Sector |->
                  [do |-> "erase", at |-> (s - 1) * Sector, cells |-> <<>>]]

(* What is put back for a name, at its first record: the newest one, unless *)
(* that is a tombstone.  A name that cannot be read is not visited.         *)
IsFirst(c, at) == /\ at \in Starts(c) /\ c[at].name # NoName
                  /\ \A b \in Starts(c) : c[b].name = c[at].name => at <= b

OldestWins(c, at) == at                                              \* mutant
Superseding(c, at) == Newest(c, c[at].name)

WithTombstones(c, at) == IsFirst(c, at)                              \* mutant
IsLive(c, at) == IsFirst(c, at) /\ c[Superseding(c, at)].flags # "deleted"

Carried(c, at) ==
  LET r == Superseding(c, at) IN RecordBytes(c[r].name, c[r].flags, DataOf(c, r))

PutBack(c) ==
  LET back[k \in 0 .. Capacity] ==
        IF k = 0 THEN [at |-> 0, todo |-> <<>>]
        ELSE LET done == back[k - 1]  bytes == Carried(c, k - 1)
             IN  IF IsLive(c, k - 1)
                 THEN [at |-> done.at + Len(bytes), todo |-> done.todo \o Put(done.at, bytes)]
                 ELSE done
  IN  back

Compact(c, incoming) == Erases(Wanted(End(c), incoming)) \o PutBack(c)[Capacity].todo

Record(c, request) ==
  CASE request.op = "write"  -> RecordBytes(request.name, "file", request.data)
    [] request.op = "append" -> LET old == Read(c, request.name) IN
         RecordBytes(request.name, "file", (IF old = None THEN <<>> ELSE old) \o request.data)
    [] request.op = "delete" -> RecordBytes(request.name, "deleted", <<>>)
    [] request.op = "mkdir"  -> RecordBytes(request.name, "directory", <<>>)

-----------------------------------------------------------------------------
FlashInit ==
  /\ cells \in [Addresses -> {Erased, Torn}]   \* leftovers of an earlier image
  /\ call = None /\ record = <<>> /\ stage = "idle" /\ todo = <<>> /\ outcome = "ok"
  /\ files = Contents(cells)

(* delete of what is not there, mkdir of what is: nothing to do             *)
NothingToDo(c, request) == \/ request.op = "delete" /\ Read(c, request.name) = None
                           \/ request.op = "mkdir" /\ Read(c, request.name) # None

Begin(request) ==
  /\ call = None /\ ~NothingToDo(cells, request)
  /\ call' = request
  /\ record' = Record(cells, request)
  /\ Len(record') <= MaxLen + 1                    \* MAX_FILE
  /\ IF Fits(cells, Len(record')) /\ Blank(cells, End(cells), Len(record'))
     THEN stage' = "putting" /\ todo' = Put(End(cells), record')
     ELSE stage' = "compacting" /\ todo' = Compact(cells, Len(record'))
  /\ outcome' = "busy" /\ UNCHANGED <<cells, files>>

(* Programming clears bits: over anything but an erased cell it spoils it.  *)
Programmed(old, new) == IF old \in {Erased, new} THEN new ELSE Torn

CarryOn(how) == /\ outcome' = how /\ call' = None /\ record' = <<>>    \* mutant
                /\ stage' = "idle" /\ todo' = Tail(todo)
                /\ files' = Contents(cells')
Return(how) == /\ outcome' = how /\ call' = None /\ record' = <<>>
               /\ stage' = "idle" /\ todo' = <<>>
               /\ files' = Contents(cells')

EraseSector ==
  /\ todo # <<>> /\ Head(todo).do = "erase"
  /\ cells' = [a \in Addresses |->
                IF a \in Head(todo).at .. Head(todo).at + Sector - 1 THEN Erased ELSE cells[a]]
  /\ todo' = Tail(todo)
  /\ UNCHANGED <<call, record, stage, outcome, files>>

ProgramCell ==
  /\ todo # <<>> /\ Head(todo).do = "program"
  /\ cells' = [cells EXCEPT ![Head(todo).at] = Programmed(@, Head(todo).cells[1])]
  /\ todo' = Tail(todo)
  /\ UNCHANGED <<call, record, stage, outcome, files>>

Verified(step) == \A k \in DOMAIN step.cells : cells[step.at + k - 1] = step.cells[k]

VerifyRecord ==
  /\ todo # <<>> /\ Head(todo).do = "verify" /\ UNCHANGED cells
  /\ IF Verified(Head(todo))
     THEN IF Tail(todo) = <<>> /\ stage = "putting"
          THEN Return("ok")
          ELSE todo' = Tail(todo) /\ UNCHANGED <<call, record, stage, outcome, files>>
     ELSE Return("cut")

(* Compaction is over: append looks for the end again and has its room.     *)
Reappend ==
  /\ stage = "compacting" /\ todo = <<>> /\ UNCHANGED cells
  /\ IF Fits(cells, Len(record))
     THEN /\ stage' = "putting" /\ todo' = Put(End(cells), record)
          /\ UNCHANGED <<call, record, outcome, files>>
     ELSE Return("full")

(* What a cell being programmed may be left as: erased yet, spoilt, or -    *)
(* the lengths are down but not all of the name - a record without one.     *)
PartsOf(cell) == {Erased, Torn} \cup (IF cell \in Headers THEN {[cell EXCEPT !.name = NoName]} ELSE {})

(* The step at hand goes wrong in part: a sector half erased, or a cell     *)
(* half programmed.                                                         *)
HalfDone(step) ==
  \/ /\ step.do = "erase"
     /\ cells' = [a \in Addresses |->
                   IF a \in step.at .. step.at + Sector - 1 THEN Torn ELSE cells[a]]
  \/ /\ step.do = "program"
     /\ \E part \in PartsOf(step.cells[1]) :
          cells' = [cells EXCEPT ![step.at] = IF @ = Erased THEN part ELSE Torn]

BadCell ==
  /\ stage \in Faults /\ todo # <<>> /\ Head(todo).do = "program"
  /\ HalfDone(Head(todo)) /\ todo' = Tail(todo)
  /\ UNCHANGED <<call, record, stage, outcome, files>>

Reset ==
  /\ stage \in Faults
  /\ UNCHANGED cells \/ (todo # <<>> /\ HalfDone(Head(todo)))
  /\ Return("cut")

FlashNext == \/ \E request \in Calls : Begin(request)
        \/ EraseSector \/ ProgramCell \/ VerifyRecord \/ Reappend
        \/ BadCell \/ Reset

FlashSpec == FlashInit /\ [][FlashNext]_flashVars

-----------------------------------------------------------------------------
(* Properties *)

FlashTypeOK ==
  /\ cells \in [Addresses -> Cells]
  /\ call = None \/ call \in Calls
  /\ stage \in {"idle", "compacting", "putting"} /\ (stage = "idle" <=> call = None)
  /\ todo # <<>> => stage # "idle"
  /\ outcome \in {"ok", "busy", "full", "cut"}

(* Between calls `read` answers what the completed calls have left, through *)
(* compactions, dirty leftovers and torn records; a call cut short touches  *)
(* the file it was about and no other.                                      *)
Promise == INSTANCE FileStore WITH store <- files
ImplementsStore == Promise!Spec

(* No cell is programmed that is not erased, whatever lay in the window     *)
(* (lib.rs:30: the write would AND into live data).  A record is put where  *)
(* its whole span was blank, or where the compaction has just erased.       *)
NeverOverprograms ==
  todo # <<>> /\ Head(todo).do = "program" => cells[Head(todo).at] = Erased

(* A write is refused as "full" only when the files as they stand leave no  *)
(* room for it: superseded records, tombstones and torn tails never do.     *)
Occupied(contents) ==
  Cardinality(UNION {{n} \X (0 .. Len(contents[n])) : n \in {m \in Names : contents[m] # None}})
FullOnlyWhenFull ==
  [][outcome' = "full" /\ outcome # "full" =>
       Occupied(files) + Len(record) > Capacity]_flashVars

(* lib.rs:48: "a reset midway through an append does leave the previous     *)
(* version intact".                                                         *)
PreviousIntact ==
  [][Reset /\ files[call.name] # None =>
        Contents(cells')[call.name] \in {files[call.name], Promise!After(call, files[call.name])}]_flashVars
=============================================================================
