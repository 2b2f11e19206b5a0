------------------------------ MODULE Database ------------------------------
(***************************************************************************)
(* rustclr-db: one table with one indexed column, statements executed in   *)
(* memory and made durable by a write-ahead log that checkpoints fold into *)
(* a snapshot, or, when the backend has no log, by rewriting the snapshot  *)
(* after every statement.  Power may fail between any two calls of the     *)
(* storage backend, and a call may return an error that leaves its file as *)
(* it was: the statement it was for stays in memory.                       *)
(***************************************************************************)
EXTENDS Integers, Sequences, FiniteSets

CONSTANTS Values,                  \* what a cell can hold
          MaxRows,                 \* bound: rows the program keeps in the table
          Checkpoint,              \* WAL_CHECKPOINT: logged statements in a fold
          MaxLog,                  \* bound: a log this long is folded for sure
          Poison,                  \* values an expression fails on, see Fails
          Faults,                  \* what may go wrong, see Crash, Fails and AppendFails
          NoIndex, Nothing

ASSUME CheckpointAssumption == Checkpoint \in Nat \ {0}
ASSUME IndexAssumption == NoIndex \notin [Values -> SUBSET Nat]

VARIABLES table,                   \* is there one, and its Table::rows
          index,                   \* Index::map of the one index, or NoIndex
          walCount,                \* Database::wal_count
          logged,                  \* does the backend support a log?
          snapshot,                \* the backend's file: <<>>, or <<its content>>
          wal,                     \* the backend's log
          pc,                      \* where execute, or open, stands
          doing,                   \* the statement being executed
          replayed,                \* records of the log open has executed
          unsaved                  \* history: the backend refused the latest change

memory == <<table, index, walCount>>
disk == <<snapshot, wal>>
dbVars == <<memory, logged, disk, pc, doing, replayed, unsaved>>

----------------------------------------------------------------------------
\* Statements.  `where` is a value the column is compared with, or Anything.

Anything == "anything"
Wheres == Values \cup {Anything}

Statements ==
       [op : {"create table", "drop table", "create index", "drop index"},
        lenient : BOOLEAN]                       \* IF [NOT] EXISTS
  \cup [op : {"insert"}, row : UNION {[1..n -> Values] : n \in 1..2}]
  \cup [op : {"update"}, where : Wheres, to : Values]
  \cup [op : {"delete"}, where : Wheres]

ASSUME NothingAssumption == Nothing \notin Statements

\* An expression of the statement fails on this value: a literal that cannot
\* be coerced to the column, arithmetic on text.
Fails(v) == "statement" \in Faults /\ v \in Poison

Matches(v, where) == where = Anything \/ v = where

NoTable == [there |-> FALSE, rows |-> <<>>]
Table(rs) == [there |-> TRUE, rows |-> rs]

BuildIndexMap(rs) == [v \in Values |-> {p \in DOMAIN rs : rs[p] = v}]

NotRebuilt(rs, ix) == ix                      \* mutant: positions grow stale
RebuildIndexes(rs, ix) == IF ix = NoIndex THEN NoIndex ELSE BuildIndexMap(rs)

\* Positions to look at: the index when the condition is an equality, or all.
Candidates(rs, ix, where) ==
  IF ix # NoIndex /\ where # Anything THEN ix[where] ELSE DOMAIN rs

Selected(rs, ix, where) ==
  {p \in Candidates(rs, ix, where) \cap DOMAIN rs : Matches(rs[p], where)}

\* The outcome of a statement in memory: "log" changed something to be made
\* durable, "done" is an answer without one, "error" is an Err.
Outcome(t, ix, out) == [table |-> t, index |-> ix, out |-> out]
Failed(t, ix) == Outcome(t, ix, "error")

CreateTable(t, ix, s) ==
  IF t.there THEN Outcome(t, ix, IF s.lenient THEN "done" ELSE "error")
             ELSE Outcome(Table(<<>>), ix, "log")

IndexKept(ix) == ix                           \* mutant: the index outlives its table
IndexGone(ix) == NoIndex

DropTable(t, ix, s) ==
  IF ~t.there /\ ~s.lenient THEN Failed(t, ix)
                            ELSE Outcome(NoTable, IndexGone(ix), "log")

CreateIndex(t, ix, s) ==
  IF ix # NoIndex THEN Outcome(t, ix, IF s.lenient THEN "done" ELSE "error")
  ELSE IF ~t.there THEN Failed(t, ix)
  ELSE Outcome(t, BuildIndexMap(t.rows), "log")

DropIndex(t, ix, s) ==
  IF ix = NoIndex /\ ~s.lenient THEN Failed(t, ix)
                                ELSE Outcome(t, NoIndex, "log")

\* Rows go in one by one: a row that fails leaves the ones before it there,
\* and the index as it was.
GoodPrefix(row) ==
  CHOOSE n \in 0..Len(row) :
    /\ \A i \in 1..n : ~Fails(row[i])
    /\ n = Len(row) \/ Fails(row[n + 1])

Insert(t, ix, s) ==
  LET n == GoodPrefix(s.row)
      inserted == t.rows \o SubSeq(s.row, 1, n)
  IN  IF ~t.there THEN Failed(t, ix)
      ELSE IF n < Len(s.row) THEN Failed(Table(inserted), ix)
      ELSE Outcome(Table(inserted), RebuildIndexes(inserted, ix), "log")

\* Rows are updated in place in order of position, up to the first that fails.
Update(t, ix, s) ==
  LET chosen == Selected(t.rows, ix, s.where)
      bad == {p \in chosen : Fails(t.rows[p])}
      reached == {p \in chosen : \A q \in bad : p < q}
      updated == [p \in DOMAIN t.rows |-> IF p \in reached THEN s.to ELSE t.rows[p]]
  IN  IF ~t.there THEN Failed(t, ix)
      ELSE IF bad # {} THEN Failed(Table(updated), ix)
      ELSE Outcome(Table(updated), RebuildIndexes(updated, ix), "log")

\* Without a condition nothing is evaluated.
FailsOn(v, where) == where # Anything /\ Fails(v)

\* retain: a row on which the condition fails stays, and is reported.
Delete(t, ix, s) ==
  LET stays(v) == FailsOn(v, s.where) \/ ~Matches(v, s.where)
      kept == SelectSeq(t.rows, stays)
  IN  IF ~t.there THEN Failed(t, ix)
      ELSE IF \E p \in DOMAIN t.rows : FailsOn(t.rows[p], s.where) THEN Failed(Table(kept), ix)
      ELSE Outcome(Table(kept), RebuildIndexes(kept, ix), "log")

Run(t, ix, s) ==
  CASE s.op = "create table" -> CreateTable(t, ix, s)
    [] s.op = "drop table"   -> DropTable(t, ix, s)
    [] s.op = "create index" -> CreateIndex(t, ix, s)
    [] s.op = "drop index"   -> DropIndex(t, ix, s)
    [] s.op = "insert"       -> Insert(t, ix, s)
    [] s.op = "update"       -> Update(t, ix, s)
    [] s.op = "delete"       -> Delete(t, ix, s)

----------------------------------------------------------------------------
MemoryLost ==
  /\ table' = NoTable /\ index' = NoIndex /\ walCount' = 0
  /\ doing' = Nothing /\ replayed' = 0 /\ unsaved' = FALSE

\* A new file on a backend with or without a log, not yet opened.
DbInit ==
  /\ table = NoTable /\ index = NoIndex /\ walCount = 0
  /\ logged \in BOOLEAN
  /\ snapshot = <<>> /\ wal = <<>>
  /\ pc = "off" /\ doing = Nothing /\ replayed = 0 /\ unsaved = FALSE

\* Database::open: the snapshot and fresh index maps, then the log.
Open ==
  /\ pc = "off"
  /\ IF snapshot = <<>>
       THEN table' = NoTable /\ index' = NoIndex
       ELSE /\ table' = snapshot[1].table
            /\ index' = IF snapshot[1].indexed THEN BuildIndexMap(snapshot[1].table.rows) ELSE NoIndex
  /\ pc' = IF wal = <<>> THEN "ready" ELSE "replay"
  /\ UNCHANGED <<walCount, logged, disk, doing, replayed, unsaved>>

\* replay_wal executes a record, and gives up on the first that fails.
Replay ==
  /\ pc = "replay" /\ replayed < Len(wal)
  /\ LET r == Run(table, index, wal[replayed + 1])
     IN  /\ table' = r.table /\ index' = r.index
         /\ pc' = IF r.out = "error" THEN "refused" ELSE "replay"
  /\ replayed' = replayed + 1
  /\ UNCHANGED <<walCount, logged, disk, doing, unsaved>>

\* All of the log is in memory: fold it into a snapshot.
ReplayEnds ==
  /\ pc = "replay" /\ replayed = Len(wal)
  /\ pc' = "save"
  /\ UNCHANGED <<memory, logged, disk, doing, replayed, unsaved>>

RoomFor(s) == s.op = "insert" => Len(table.rows) + Len(s.row) <= MaxRows

\* execute: the statement takes effect in memory first.
Execute(s) ==
  /\ pc = "ready" /\ RoomFor(s)
  /\ LET r == Run(table, index, s)
     IN  /\ table' = r.table /\ index' = r.index
         /\ pc' = IF r.out # "log" THEN "ready"
                  ELSE IF logged THEN "append" ELSE "save"
         /\ doing' = IF r.out = "log" THEN s ELSE Nothing
  /\ UNCHANGED <<walCount, logged, disk, replayed, unsaved>>

NotLogged == UNCHANGED wal                    \* mutant: the record is forgotten
Logged == wal' = Append(wal, doing)

\* append_wal, and the decision to checkpoint.
AppendWal ==
  /\ pc = "append" /\ Logged
  /\ walCount' = walCount + 1 /\ unsaved' = FALSE
  /\ IF walCount' >= Checkpoint
       THEN pc' = "save" /\ UNCHANGED doing
       ELSE pc' = "ready" /\ doing' = Nothing
  /\ UNCHANGED <<table, index, logged, snapshot, replayed>>

\* It returns an error: so does execute, of a statement that has taken effect.
AppendFails ==
  /\ pc = "append" /\ "append" \in Faults
  /\ pc' = "ready" /\ doing' = Nothing /\ unsaved' = TRUE
  /\ UNCHANGED <<memory, logged, disk, replayed>>

IndexForgotten == [table |-> table, indexed |-> FALSE]   \* mutant: format v1
Encoded == [table |-> table, indexed |-> index # NoIndex]

\* persist: the snapshot is replaced.
Save ==
  /\ pc = "save"
  /\ snapshot' = <<Encoded>> /\ unsaved' = FALSE
  /\ IF logged THEN pc' = "truncate" /\ UNCHANGED <<doing, replayed>>
               ELSE pc' = "ready" /\ doing' = Nothing /\ replayed' = 0
  /\ UNCHANGED <<memory, logged, wal>>

\* A checkpoint that fails is tried again after the next statement.  When it
\* was to fold what open has replayed, there is no database.
NotWritten ==
  IF doing = Nothing
    THEN pc' = "off" /\ MemoryLost
    ELSE /\ Len(wal) < MaxLog
         /\ pc' = "ready" /\ doing' = Nothing /\ UNCHANGED <<memory, replayed>>
         /\ unsaved' = IF logged THEN unsaved ELSE TRUE

SaveFails ==
  /\ pc = "save" /\ "save" \in Faults
  /\ NotWritten
  /\ UNCHANGED <<logged, disk>>

LogCleared == wal' = <<>>

Truncate ==
  /\ pc = "truncate"
  /\ LogCleared
  /\ walCount' = 0 /\ doing' = Nothing /\ replayed' = 0
  /\ pc' = "ready"
  /\ UNCHANGED <<table, index, logged, snapshot, unsaved>>

TruncateFails ==
  /\ pc = "truncate" /\ "truncate" \in Faults
  /\ NotWritten
  /\ UNCHANGED <<logged, disk>>

\* A reset, or the program ends.  Without "checkpoint" in Faults none falls
\* between the two halves of a checkpoint.
Crash ==
  /\ pc # "off" /\ (pc = "truncate" => "checkpoint" \in Faults)
  /\ pc' = "off" /\ MemoryLost
  /\ UNCHANGED <<logged, disk>>

DbNext == \/ Open \/ Replay \/ ReplayEnds
          \/ \E s \in Statements : Execute(s)
          \/ AppendWal \/ Save \/ Truncate
          \/ AppendFails \/ SaveFails \/ TruncateFails
          \/ Crash

DbSpec == DbInit /\ [][DbNext]_dbVars

----------------------------------------------------------------------------
\* Properties.

Tables == {NoTable} \cup [there : {TRUE}, rows : Seq(Values)]
Snapshots == [table : Tables, indexed : BOOLEAN]

DbTypeOK ==
  /\ table \in Tables
  /\ index \in [Values -> SUBSET Nat] \cup {NoIndex}
  /\ walCount \in Nat /\ logged \in BOOLEAN
  /\ snapshot = <<>> \/ \E c \in Snapshots : snapshot = <<c>>
  /\ wal \in Seq(Statements)
  /\ pc \in {"off", "ready", "replay", "refused", "append", "save", "truncate"}
  /\ doing \in Statements \cup {Nothing}
  /\ replayed \in 0..Len(wal) /\ unsaved \in BOOLEAN

\* lib.rs of an index: "lookups are always consistent with the table".  A
\* lookup through the index finds the rows a scan finds, in whatever order
\* statements, checkpoints, resets and replays came.
IndexServes ==
  index # NoIndex =>
    /\ table.there
    /\ \A v \in Values :
         Selected(table.rows, index, v) = Selected(table.rows, NoIndex, v)

New == [table |-> NoTable, indexed |-> FALSE]
IndexOf(c) == IF c.indexed THEN BuildIndexMap(c.table.rows) ELSE NoIndex

\* What open makes of the snapshot ...
Loaded == LET c == IF snapshot = <<>> THEN New ELSE snapshot[1]
          IN  Outcome(c.table, IndexOf(c), "log")

\* ... and of a log, statement by statement: from one outcome to the next.
Following(r, s) == CHOOSE o \in {Run(b.table, b.index, s) : b \in {r}} : TRUE

Rerun(start, log) ==
  LET after[n \in 0..Len(log)] == IF n = 0 THEN start ELSE Following(after[n - 1], log[n])
  IN  after

\* What the next open makes of the backend's content.
Recovered ==
  LET end == Rerun(Loaded, wal)[Len(wal)]
  IN  [table |-> end.table, indexed |-> end.index # NoIndex]

\* Between the halves of a checkpoint the snapshot alone counts.
Durable == IF pc = "truncate" THEN snapshot[1] ELSE Recovered

Held == [table |-> table, indexed |-> index # NoIndex]

\* What a program reads is what it would find after a reset, unless it was
\* told that the latest change could not be written; and no reset leaves a
\* file that the next open refuses.
ReadsAreDurable ==
  /\ pc # "refused"
  /\ pc = "ready" /\ ~unsaved => Durable = Held

\* While open is at work nothing is read: what it will find stands in.
Read == IF pc \in {"off", "replay", "refused"} THEN Durable ELSE Held

InProgress == IF \/ pc = "append"
                 \/ pc = "save" /\ ~logged
              THEN doing ELSE Nothing

Asked(c, s) == Run(c.table, IndexOf(c), s)
Succeeds(c, s) == Asked(c, s).out = "log"
Result(c, s) == LET r == Asked(c, s) IN [table |-> r.table, indexed |-> r.index # NoIndex]

Promised == INSTANCE DurableTable WITH
  Empty <- New, Idle <- Nothing,
  Accepts <- Succeeds, Effect <- Result, MayFail <- "save" \in Faults,
  content <- Durable, read <- Read, call <- InProgress
ImplementsTable == Promised!TableSpec

=============================================================================
