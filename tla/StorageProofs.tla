---------------------------- MODULE StorageProofs ----------------------------
(***************************************************************************)
(* What survives a reset.  Ota: its slots implement a trial, for any       *)
(* images, any chunks and any number of attempts.  Database: an index is   *)
(* absent or what a fresh build would give, what has been read is never    *)
(* lost again, and the database implements a durable table, for any values *)
(* and any size of table, whatever statements, checkpoints, resets and     *)
(* replays came before.                                                    *)
(*                                                                         *)
(* Premises.  Of the first: begin and confirm_boot are called in turn      *)
(* (Strays = {}), without which the run ota_stray refutes it.  Of the      *)
(* second: no statement fails half-way, and for what outlives a reset, no  *)
(* checkpoint does either.                                                 *)
(***************************************************************************)
EXTENDS Ota, Database, SequenceTheorems, WellFoundedInduction, TLAPS

-----------------------------------------------------------------------------
(* Ota: the slots of an update implement a trial. *)

(* What the storage and the RAM owe each other.  Trial's variables are      *)
(* about the active and the pending slot, so the invariant must say that    *)
(* these are different slots, and that a reception, which writes to the     *)
(* slot that is not active, never meets a pending one.                      *)
ActiveWorks == Verify(slots[state.active]) \in Healthy
PendingIsWhole == state.pending # None =>
  /\ state.pending = Other(state.active)
  /\ Verify(slots[state.pending]) \in Images
AttemptsArePending == state.pending = None => state.boot_attempts = 0
ReceivesWhenSettled == receiving => state.pending = None /\ running = state.active
TriedBeforeRun == running = state.pending => state.boot_attempts > 0
IInv == /\ TypeOK
        /\ ActiveWorks /\ PendingIsWhole /\ AttemptsArePending
        /\ ReceivesWhenSettled /\ TriedBeforeRun

-----------------------------------------------------------------------------
LEMMA OthersDiffer ==
  ASSUME NEW s \in Slots
  PROVE  Other(s) \in Slots /\ Other(s) # s /\ s # None /\ s # Off /\ Off # None
  BY SlotsAssumption DEF Slots, Other

LEMMA ImagesAreChunks ==
  ASSUME NEW v \in Images
  PROVE  WholeImage(v) \in Seq(Chunks)
<1>1. WholeImage(v) \in [1 .. Parts -> Chunks]
  BY DEF WholeImage, Chunks
<1>2. Parts \in Nat
  BY SizesAssumption
<1> QED
  BY <1>1, <1>2

(* A whole image verifies as itself, and nothing verifies as two images.    *)
LEMMA WholeImagesVerify ==
  ASSUME NEW v \in Images
  PROVE  Verify(WholeImage(v)) = v
<1>1. 1 \in 1 .. Parts /\ Len(WholeImage(v)) = Parts
  <2>1. Parts \in Nat \ {0}
    BY SizesAssumption
  <2>2. DOMAIN WholeImage(v) = 1 .. Parts
    BY DEF WholeImage
  <2>3. Len(WholeImage(v)) \in Nat /\ 1 .. Len(WholeImage(v)) = 1 .. Parts
    BY <2>2, ImagesAreChunks, LenProperties
  <2> QED
    BY <2>1, <2>3
<1>2. Holds(WholeImage(v), v)
  <2>1. Parts <= Len(WholeImage(v))
    BY <1>1, SizesAssumption
  <2>2. \A k \in 1 .. Parts : WholeImage(v)[k] = [image |-> v, part |-> k]
    BY DEF WholeImage
  <2> QED
    BY <2>1, <2>2 DEF Holds
<1>3. ASSUME NEW w \in Images, Holds(WholeImage(v), w)
      PROVE  w = v
  <2>1. WholeImage(v)[1] = [image |-> w, part |-> 1]
    BY <1>1, <1>3 DEF Holds
  <2>2. WholeImage(v)[1] = [image |-> v, part |-> 1]
    BY <1>1 DEF WholeImage
  <2> QED
    BY <2>1, <2>2
<1> QED
  BY <1>2, <1>3 DEF Verify

LEMMA VerifiedAreImages ==
  ASSUME NEW c
  PROVE  Verify(c) \in Images \cup {NoImage}
  BY DEF Verify

(* Accepted contents are an image, and an image is not NoImage.             *)
LEMMA AcceptedAreImages ==
  ASSUME NEW c
  PROVE  Accepted(c) <=> Verify(c) \in Images
  BY VerifiedAreImages, ImagesAssumption DEF Accepted, Images

-----------------------------------------------------------------------------
LEMMA InitIInv == Init => IInv
<1> SUFFICES ASSUME Init PROVE IInv
  OBVIOUS
<1>1. PICK v \in Healthy : slots = [s \in Slots |-> IF s = A THEN WholeImage(v) ELSE <<>>]
  BY DEF Init
<1>2. v \in Images
  BY DEF Images
<1>3. A \in Slots /\ slots[A] = WholeImage(v)
  BY <1>1 DEF Slots
<1>4. Verify(slots[A]) = v
  BY <1>2, <1>3, WholeImagesVerify
<1>5. slots \in [Slots -> Seq(Chunks)]
  BY <1>1, <1>2, ImagesAreChunks
<1>6. TypeOK
  <2>1. 0 \in 0 .. MAX_ATTEMPTS
    BY SizesAssumption
  <2>2. state = [active |-> A, pending |-> None, boot_attempts |-> 0] /\ A \in Slots
    BY <1>3 DEF Init
  <2>3. receiving = FALSE /\ running = Off
    BY DEF Init
  <2>4. state \in [active : Slots, pending : Slots \cup {None}, boot_attempts : 0 .. MAX_ATTEMPTS]
    BY <2>1, <2>2
  <2> QED
    BY <1>5, <2>3, <2>4 DEF TypeOK
<1>7. ActiveWorks
  BY <1>4 DEF Init, ActiveWorks
<1> QED
  BY <1>6, <1>7, SlotsAssumption
  DEF Init, IInv, PendingIsWhole, AttemptsArePending, ReceivesWhenSettled, TriedBeforeRun, Slots

(* In turn, the running slot is the active one while anything is received.  *)
LEMMA WritesGoElsewhere ==
  ASSUME IInv, Strays = {}, NEW c \in Seq(Chunks),
         BeginInTurn \/ receiving,
         slots' = [slots EXCEPT ![TargetSlot] = c], UNCHANGED state
  PROVE  /\ slots' \in [Slots -> Seq(Chunks)]
         /\ slots'[state.active] = slots[state.active]
         /\ state.pending = None /\ running = state.active
<1>1. state.active \in Slots /\ slots \in [Slots -> Seq(Chunks)]
  BY DEF IInv, TypeOK
<1>2. TargetSlot \in Slots /\ TargetSlot # state.active
  BY <1>1, OthersDiffer DEF TargetSlot
<1> QED
  BY <1>1, <1>2 DEF IInv, ReceivesWhenSettled, BeginInTurn

LEMMA StepIInv ==
  ASSUME IInv, Strays = {}, [Next]_vars
  PROVE  IInv'
<1> USE DEF IInv
<1>0. /\ state.active \in Slots /\ state.pending \in Slots \cup {None}
      /\ state.boot_attempts \in 0 .. MAX_ATTEMPTS /\ MAX_ATTEMPTS \in Nat \ {0}
      /\ slots \in [Slots -> Seq(Chunks)]
      /\ state = [active |-> state.active, pending |-> state.pending,
                  boot_attempts |-> state.boot_attempts]
  BY SizesAssumption DEF TypeOK
<1>1. CASE Begin
  <2>1. BeginInTurn /\ slots' = [slots EXCEPT ![TargetSlot] = <<>>] /\ UNCHANGED <<state, running>>
    BY <1>1 DEF Begin
  <2>2. <<>> \in Seq(Chunks)
    OBVIOUS
  <2>3. /\ slots' \in [Slots -> Seq(Chunks)] /\ slots'[state.active] = slots[state.active]
        /\ state.pending = None /\ running = state.active
    BY <2>1, <2>2, WritesGoElsewhere
  <2> QED
    BY <1>0, <1>1, <2>1, <2>3, OthersDiffer
    DEF Begin, TypeOK, ActiveWorks, PendingIsWhole, AttemptsArePending,
        ReceivesWhenSettled, TriedBeforeRun
<1>2. CASE \E c \in Chunks : WriteChunk(c)
  <2>1. PICK c \in Chunks : WriteChunk(c)
    BY <1>2
  <2>2. Append(slots[TargetSlot], c) \in Seq(Chunks)
    BY <1>0, OthersDiffer DEF TargetSlot
  <2>3. /\ receiving /\ UNCHANGED <<state, receiving, running>>
        /\ slots' = [slots EXCEPT ![TargetSlot] = Append(slots[TargetSlot], c)]
    BY <2>1 DEF WriteChunk
  <2>4. /\ slots' \in [Slots -> Seq(Chunks)] /\ slots'[state.active] = slots[state.active]
        /\ state.pending = None /\ running = state.active
    BY <2>2, <2>3, WritesGoElsewhere
  <2> QED
    BY <1>0, <2>3, <2>4, OthersDiffer
    DEF TypeOK, ActiveWorks, PendingIsWhole, AttemptsArePending,
        ReceivesWhenSettled, TriedBeforeRun
<1>3. CASE Finish
  <2>1. /\ receiving' = FALSE /\ running = state.active /\ state.pending = None
        /\ UNCHANGED <<slots, running>>
    BY <1>3 DEF Finish, ReceivesWhenSettled
  <2>2. TargetSlot \in Slots /\ TargetSlot # state.active /\ TargetSlot # None
    BY <1>0, OthersDiffer DEF TargetSlot
  <2>3. CASE Accepted(slots[TargetSlot])
    <3>1. state' = [active |-> state.active, pending |-> TargetSlot, boot_attempts |-> 0]
      BY <1>0, <1>3, <2>3 DEF Finish
    <3>2. Verify(slots[TargetSlot]) \in Images
      BY <2>3, AcceptedAreImages
    <3> QED
      BY <1>0, <2>1, <2>2, <3>1, <3>2
      DEF TypeOK, ActiveWorks, PendingIsWhole, AttemptsArePending,
          ReceivesWhenSettled, TriedBeforeRun, TargetSlot
  <2>4. CASE ~Accepted(slots[TargetSlot])
    <3>1. state' = state
      BY <1>3, <2>4 DEF Finish
    <3> QED
      BY <1>0, <2>1, <3>1
      DEF TypeOK, ActiveWorks, PendingIsWhole, AttemptsArePending,
          ReceivesWhenSettled, TriedBeforeRun
  <2> QED
    BY <2>3, <2>4
<1>4. CASE PowerLoss
  BY <1>0, <1>4, SlotsAssumption
  DEF PowerLoss, TypeOK, ActiveWorks, PendingIsWhole, AttemptsArePending,
      ReceivesWhenSettled, TriedBeforeRun, Slots
<1>5. CASE OnBoot
  <2>1. running = Off /\ receiving = FALSE /\ UNCHANGED <<slots, receiving>>
    BY <1>0, <1>5, OthersDiffer DEF OnBoot, TypeOK, ReceivesWhenSettled
  <2>2. CASE state.pending # None /\ OutOfAttempts /\ GiveUp
    <3>1. state' = [active |-> state.active, pending |-> None, boot_attempts |-> 0]
      BY <1>0, <2>2 DEF GiveUp
    <3>2. running' \in {Off, state.active}
      BY <2>2 DEF GiveUp, Jump
    <3> QED
      BY <1>0, <2>1, <3>1, <3>2, OthersDiffer, SlotsAssumption
      DEF TypeOK, ActiveWorks, PendingIsWhole, AttemptsArePending,
          ReceivesWhenSettled, TriedBeforeRun
  <2>3. CASE state.pending # None /\ ~OutOfAttempts /\ TryPending
    <3>1. state' = [active |-> state.active, pending |-> state.pending,
                    boot_attempts |-> state.boot_attempts + 1]
      BY <1>0, <2>3 DEF TryPending
    <3>2. running' \in {Off, state.pending}
      BY <2>3 DEF TryPending, Jump
    <3>3. state.boot_attempts + 1 \in 0 .. MAX_ATTEMPTS /\ state.boot_attempts + 1 > 0
      BY <1>0, <2>3 DEF OutOfAttempts
    <3> QED
      BY <1>0, <2>1, <2>3, <3>1, <3>2, <3>3
      DEF TypeOK, ActiveWorks, PendingIsWhole, AttemptsArePending,
          ReceivesWhenSettled, TriedBeforeRun
  <2>4. CASE state.pending = None /\ Jump(state.active) /\ UNCHANGED state
    <3>1. running' \in {Off, state.active}
      BY <2>4 DEF Jump
    <3> QED
      BY <1>0, <2>1, <2>4, <3>1, OthersDiffer, SlotsAssumption
      DEF TypeOK, ActiveWorks, PendingIsWhole, AttemptsArePending,
          ReceivesWhenSettled, TriedBeforeRun
  <2> QED
    BY <1>5, <2>2, <2>3, <2>4 DEF OnBoot
<1>6. CASE ConfirmBoot
  <2>1. /\ running = state.pending /\ state.pending # None
        /\ state' = [active |-> state.pending, pending |-> None, boot_attempts |-> 0]
        /\ UNCHANGED <<slots, receiving, running>> /\ Verify(slots[state.pending]) \in Healthy
    BY <1>6 DEF ConfirmBoot, Works
  <2>2. state.pending \in Slots /\ state.pending # None /\ receiving = FALSE
    BY <1>0, <2>1 DEF TypeOK, ReceivesWhenSettled
  <2> QED
    BY <1>0, <2>1, <2>2
    DEF TypeOK, ActiveWorks, PendingIsWhole, AttemptsArePending,
        ReceivesWhenSettled, TriedBeforeRun
<1>7. CASE Rollback
  <2>1. /\ running # Off /\ state.pending # None
        /\ state' = [active |-> state.active, pending |-> None, boot_attempts |-> 0]
        /\ UNCHANGED <<slots, receiving, running>>
    BY <1>0, <1>7 DEF Rollback
  <2>2. running # None
    BY <2>1, OthersDiffer DEF TypeOK
  <2> QED
    BY <1>0, <2>1, <2>2
    DEF TypeOK, ActiveWorks, PendingIsWhole, AttemptsArePending,
        ReceivesWhenSettled, TriedBeforeRun
<1>8. CASE UNCHANGED vars
  BY <1>8
  DEF vars, TypeOK, ActiveWorks, PendingIsWhole, AttemptsArePending,
      ReceivesWhenSettled, TriedBeforeRun
<1> QED
  BY <1>1, <1>2, <1>3, <1>4, <1>5, <1>6, <1>7, <1>8 DEF Next

LEMMA AlwaysIInv ==
  ASSUME Strays = {}
  PROVE  Spec => []IInv
<1>1. IInv /\ [Next]_vars => IInv'
  BY StepIInv
<1> QED
  BY <1>1, InitIInv, PTL DEF Spec

-----------------------------------------------------------------------------
(* Types and the bound on the attempts: what on_boot counts never passes    *)
(* MAX_ATTEMPTS.                                                            *)
THEOREM TypesHold ==
  ASSUME Strays = {}
  PROVE  Spec => []TypeOK
<1>1. IInv => TypeOK
  BY DEF IInv
<1> QED
  BY <1>1, AlwaysIInv, PTL

(* What a step of Next does to the slots: nothing, or an update received    *)
(* while nothing is pending writes to the slot that does not run.           *)
LEMMA SlotsWritten ==
  ASSUME IInv, Strays = {}, Next
  PROVE  \/ UNCHANGED slots
         \/ /\ UNCHANGED state /\ state.pending = None /\ running = state.active
            /\ slots'[state.active] = slots[state.active]
<1>1. CASE Begin
  <2>1. BeginInTurn /\ slots' = [slots EXCEPT ![TargetSlot] = <<>>] /\ UNCHANGED state
    BY <1>1 DEF Begin
  <2>2. <<>> \in Seq(Chunks)
    OBVIOUS
  <2> QED
    BY <2>1, <2>2, WritesGoElsewhere
<1>2. CASE \E c \in Chunks : WriteChunk(c)
  <2>1. PICK c \in Chunks : WriteChunk(c)
    BY <1>2
  <2>2. Append(slots[TargetSlot], c) \in Seq(Chunks)
    BY OthersDiffer DEF TargetSlot, IInv, TypeOK
  <2>3. /\ receiving /\ UNCHANGED state
        /\ slots' = [slots EXCEPT ![TargetSlot] = Append(slots[TargetSlot], c)]
    BY <2>1 DEF WriteChunk
  <2> QED
    BY <2>2, <2>3, WritesGoElsewhere
<1>3. CASE ~Begin /\ ~(\E c \in Chunks : WriteChunk(c))
  BY <1>3 DEF Next, Finish, PowerLoss, OnBoot, ConfirmBoot, Rollback
<1> QED
  BY <1>1, <1>2, <1>3

(* No call of begin, write_chunk or finish changes the slot that executes.  *)
THEOREM UpdatesLandElsewhere ==
  ASSUME Strays = {}
  PROVE  Spec => RunningSlotUntouched
<1>1. IInv /\ [Next]_vars => [running # Off => slots'[running] = slots[running]]_vars
  BY SlotsWritten
<1> QED
  BY <1>1, AlwaysIInv, PTL DEF Spec, RunningSlotUntouched

(* The slots implement a trial: every step offers, tries, confirms or drops *)
(* an image, or changes nothing a trial is about.                           *)
THEOREM ImplementsATrial ==
  ASSUME Strays = {}
  PROVE  Spec => ImplementsTrial
<1>1. Init => Trial!Init
  <2> SUFFICES ASSUME Init PROVE Trial!Init
    OBVIOUS
  <2>1. IInv
    BY InitIInv
  <2> QED
    BY <2>1, SizesAssumption DEF Init, IInv, ActiveWorks, Trial!Init
<1>2. IInv /\ [Next]_vars => [Trial!Next]_(Trial!vars)
  <2> SUFFICES ASSUME IInv, [Next]_vars PROVE [Trial!Next]_(Trial!vars)
    OBVIOUS
  <2>0. /\ state.active \in Slots /\ state.pending \in Slots \cup {None}
        /\ state.boot_attempts \in 0 .. MAX_ATTEMPTS /\ MAX_ATTEMPTS \in Nat \ {0}
        /\ state = [active |-> state.active, pending |-> state.pending,
                    boot_attempts |-> state.boot_attempts]
        /\ NoImage \notin Images
    BY SizesAssumption, ImagesAssumption DEF IInv, TypeOK, Images
  <2>1. CASE UNCHANGED vars
    BY <2>1 DEF vars, Trial!vars
  <2>2. CASE Begin \/ \E c \in Chunks : WriteChunk(c)
    <3>1. UNCHANGED state
      BY <2>2 DEF Begin, WriteChunk
    <3>2. UNCHANGED slots \/ (state.pending = None /\ slots'[state.active] = slots[state.active])
      BY <2>2, SlotsWritten DEF Next
    <3> QED
      BY <3>1, <3>2 DEF Trial!vars
  <2>3. CASE Finish
    <3>1. state.pending = None /\ UNCHANGED slots
      BY <2>3 DEF Finish, IInv, ReceivesWhenSettled
    <3>2. TargetSlot # None
      BY <2>0, OthersDiffer DEF TargetSlot
    <3>3. CASE Accepted(slots[TargetSlot])
      <4>1. state' = [active |-> state.active, pending |-> TargetSlot, boot_attempts |-> 0]
        BY <2>0, <2>3, <3>3 DEF Finish
      <4>2. Verify(slots[TargetSlot]) \in Images
        BY <3>3, AcceptedAreImages
      <4> QED
        BY <2>0, <3>1, <3>2, <4>1, <4>2 DEF Trial!Next, Trial!Offer, Images
    <3>4. CASE ~Accepted(slots[TargetSlot])
      BY <2>3, <3>1, <3>4 DEF Finish, Trial!vars
    <3> QED
      BY <3>3, <3>4
  <2>4. CASE PowerLoss
    BY <2>4 DEF PowerLoss, Trial!vars
  <2>5. CASE OnBoot
    <3>1. UNCHANGED slots
      BY <2>5 DEF OnBoot
    <3>2. CASE state.pending # None /\ OutOfAttempts /\ GiveUp
      <4>1. state' = [active |-> state.active, pending |-> None, boot_attempts |-> 0]
        BY <2>0, <3>2 DEF GiveUp
      <4>2. Verify(slots[state.pending]) # NoImage
        BY <2>0, <3>2 DEF IInv, PendingIsWhole
      <4>3. MAX_ATTEMPTS - state.boot_attempts = 0
        BY <2>0, <3>2 DEF OutOfAttempts
      <4> QED
        BY <2>0, <3>1, <3>2, <4>1, <4>2, <4>3 DEF Trial!Next, Trial!TimeOut, Trial!Drop
    <3>3. CASE state.pending # None /\ ~OutOfAttempts /\ TryPending
      <4>1. state' = [active |-> state.active, pending |-> state.pending,
                      boot_attempts |-> state.boot_attempts + 1]
        BY <2>0, <3>3 DEF TryPending
      <4>2. Verify(slots[state.pending]) # NoImage
        BY <2>0, <3>3 DEF IInv, PendingIsWhole
      <4>3. MAX_ATTEMPTS - state.boot_attempts > 0
        BY <2>0, <3>3 DEF OutOfAttempts
      <4> QED
        BY <2>0, <3>1, <3>3, <4>1, <4>2, <4>3 DEF Trial!Next, Trial!Try
    <3>4. CASE state.pending = None /\ Jump(state.active) /\ UNCHANGED state
      BY <3>1, <3>4 DEF Trial!vars
    <3> QED
      BY <2>5, <3>2, <3>3, <3>4 DEF OnBoot
  <2>6. CASE ConfirmBoot
    <3>1. /\ running = state.pending /\ state.pending # None /\ UNCHANGED slots
          /\ state' = [active |-> state.pending, pending |-> None, boot_attempts |-> 0]
          /\ Verify(slots[state.pending]) \in Healthy
      BY <2>6 DEF ConfirmBoot, Works
    <3>2. MAX_ATTEMPTS - state.boot_attempts < MAX_ATTEMPTS
      BY <2>0, <3>1 DEF IInv, TriedBeforeRun
    <3> QED
      BY <2>0, <3>1, <3>2 DEF Trial!Next, Trial!Confirm
  <2>7. CASE Rollback
    <3>1. /\ state.pending # None /\ UNCHANGED slots
          /\ state' = [active |-> state.active, pending |-> None, boot_attempts |-> 0]
      BY <2>0, <2>7 DEF Rollback
    <3>2. Verify(slots[state.pending]) # NoImage
      BY <2>0, <3>1 DEF IInv, PendingIsWhole
    <3> QED
      BY <2>0, <3>1, <3>2 DEF Trial!Next, Trial!Withdraw, Trial!Drop
  <2> QED
    BY <2>1, <2>2, <2>3, <2>4, <2>5, <2>6, <2>7 DEF Next
<1> QED
  BY <1>1, <1>2, AlwaysIInv, PTL DEF Spec, ImplementsTrial, Trial!Spec

-----------------------------------------------------------------------------
(* Database: its index, and what outlives a reset. *)

Fresh(t, ix) == ix = NoIndex \/ (t.there /\ ix = BuildIndexMap(t.rows))

WalHoldsStatements == wal \in Seq(Statements)
DoingIsLogged == pc = "append" => doing \in Statements
SnapshotSound == snapshot # <<>> => (snapshot[1].indexed => snapshot[1].table.there)

IndexInv == /\ Fresh(table, index) /\ SnapshotSound
            /\ WalHoldsStatements /\ DoingIsLogged

\* Without faults in statements an expression fails on no value.
LEMMA NothingFails ==
  ASSUME "statement" \notin Faults, NEW v
  PROVE  ~Fails(v)
BY DEF Fails

\* Then every row of an INSERT goes in.
LEMMA WholeRowGoesIn ==
  ASSUME "statement" \notin Faults, NEW row, Len(row) \in Nat
  PROVE  GoodPrefix(row) = Len(row)
<1>1. \A i : ~Fails(row[i])
  BY NothingFails
<1>2. \E n \in 0..Len(row) : /\ \A i \in 1..n : ~Fails(row[i])
                             /\ n = Len(row) \/ Fails(row[n + 1])
  BY <1>1
<1> QED
  BY <1>1, <1>2 DEF GoodPrefix

\* Rebuilding keeps an index fresh, whatever the rows have become.
LEMMA RebuiltIsFresh ==
  ASSUME NEW rs, NEW ix, NEW out
  PROVE  LET r == Outcome(Table(rs), RebuildIndexes(rs, ix), out)
         IN  Fresh(r.table, r.index)
BY DEF Outcome, Table, Fresh, RebuildIndexes

\* A statement keeps the index fresh: what touches rows rebuilds it, and what
\* does not leaves both alone.
LEMMA RunKeepsFresh ==
  ASSUME "statement" \notin Faults,
         NEW t, NEW ix, Fresh(t, ix), NEW s \in Statements
  PROVE  Fresh(Run(t, ix, s).table, Run(t, ix, s).index)
<1> DEFINE IsFresh(r) == Fresh(r.table, r.index)
<1>1. s.op \in {"create table", "drop table", "create index", "drop index",
               "insert", "update", "delete"}
  BY DEF Statements
<1>2. \A out : IsFresh(Outcome(t, ix, out)) /\ IsFresh(Failed(t, ix))
  BY DEF Outcome, Failed
<1>3. IsFresh(CreateTable(t, ix, s))
  <2>1. CASE t.there
    BY <2>1, <1>2 DEF CreateTable
  <2>2. CASE ~t.there
    BY <2>2 DEF CreateTable, Outcome, Fresh
  <2> QED
    BY <2>1, <2>2
<1>4. IsFresh(DropTable(t, ix, s))
  BY <1>2 DEF DropTable, IndexGone, Outcome, Fresh
<1>5. IsFresh(CreateIndex(t, ix, s))
  <2>1. t.there => IsFresh(Outcome(t, BuildIndexMap(t.rows), "log"))
    BY DEF Outcome, Fresh
  <2> QED
    BY <2>1, <1>2 DEF CreateIndex
<1>6. IsFresh(DropIndex(t, ix, s))
  <2>1. IsFresh(Outcome(t, NoIndex, "log"))
    BY DEF Outcome, Fresh
  <2> QED
    BY <2>1, <1>2 DEF DropIndex
<1>7. s.op = "insert" => IsFresh(Insert(t, ix, s))
  <2> SUFFICES ASSUME s.op = "insert" PROVE IsFresh(Insert(t, ix, s))
    OBVIOUS
  <2>1. Len(s.row) \in Nat
    <3>1. s.row \in UNION {[1..n -> Values] : n \in 1..2}
      BY DEF Statements
    <3>2. PICK n \in 1..2 : s.row \in [1..n -> Values]
      BY <3>1
    <3>3. s.row \in Seq(Values)
      BY <3>2
    <3> QED
      BY <3>3
  <2>2. GoodPrefix(s.row) = Len(s.row)
    BY <2>1, WholeRowGoesIn
  <2>3. \A rs : IsFresh(Outcome(Table(rs), RebuildIndexes(rs, ix), "log"))
    BY RebuiltIsFresh
  <2> QED
    BY <2>1, <2>2, <2>3, <1>2 DEF Insert
<1>8. IsFresh(Update(t, ix, s))
  <2>1. \A p : ~Fails(t.rows[p])
    BY NothingFails
  <2>2. \A rs : IsFresh(Outcome(Table(rs), RebuildIndexes(rs, ix), "log"))
    BY RebuiltIsFresh
  <2> QED
    BY <2>1, <2>2, <1>2 DEF Update
<1>9. IsFresh(Delete(t, ix, s))
  <2>1. \A p : ~FailsOn(t.rows[p], s.where)
    <3>1. \A p : ~Fails(t.rows[p])
      BY NothingFails
    <3> QED
      BY <3>1, Zenon DEF FailsOn
  <2>2. \A rs : IsFresh(Outcome(Table(rs), RebuildIndexes(rs, ix), "log"))
    BY RebuiltIsFresh
  <2> QED
    BY <2>1, <2>2, <1>2 DEF Delete
<1> QED
  BY <1>1, <1>3, <1>4, <1>5, <1>6, <1>7, <1>8, <1>9 DEF Run

LEMMA InitFresh == DbInit => IndexInv
BY DEF DbInit, IndexInv, Fresh, SnapshotSound, WalHoldsStatements, DoingIsLogged

LEMMA OpenKeeps ==
  ASSUME IndexInv, Open
  PROVE  IndexInv'
<1>1. Fresh(table, index)'
  <2>1. CASE snapshot = <<>>
    BY <2>1 DEF Open, Fresh
  <2>2. CASE snapshot # <<>>
    BY <2>2 DEF Open, IndexInv, SnapshotSound, Fresh, BuildIndexMap
  <2> QED
    BY <2>1, <2>2
<1> QED
  BY <1>1 DEF Open, IndexInv, SnapshotSound, WalHoldsStatements, DoingIsLogged, disk

LEMMA ReplayKeeps ==
  ASSUME "statement" \notin Faults, IndexInv, Replay, replayed \in Nat
  PROVE  IndexInv'
<1>1. wal[replayed + 1] \in Statements
  BY DEF Replay, IndexInv, WalHoldsStatements
<1>2. Fresh(table, index)'
  BY <1>1, RunKeepsFresh DEF Replay, IndexInv
<1> QED
  BY <1>2 DEF Replay, IndexInv, SnapshotSound, WalHoldsStatements, DoingIsLogged, disk

LEMMA ExecuteKeeps ==
  ASSUME "statement" \notin Faults, IndexInv, NEW s \in Statements, Execute(s)
  PROVE  IndexInv'
<1>1. Fresh(table, index)'
  BY RunKeepsFresh DEF Execute, IndexInv
<1> QED
  BY <1>1 DEF Execute, IndexInv, SnapshotSound, WalHoldsStatements, DoingIsLogged, disk

LEMMA SaveKeeps ==
  ASSUME IndexInv, Save
  PROVE  IndexInv'
<1>1. snapshot'[1].indexed => snapshot'[1].table.there
  BY DEF Save, Encoded, IndexInv, Fresh
<1>2. Fresh(table, index)'
  BY DEF Save, memory, IndexInv, Fresh, BuildIndexMap
<1> QED
  BY <1>1, <1>2 DEF Save, IndexInv, SnapshotSound, WalHoldsStatements, DoingIsLogged

LEMMA IndexInvHolds ==
  ASSUME "statement" \notin Faults
  PROVE  DbSpec => [](IndexInv /\ replayed \in Nat)
<1> DEFINE Inv == IndexInv /\ replayed \in Nat
<1>1. DbInit => Inv
  BY InitFresh DEF DbInit
<1>2. Inv /\ [DbNext]_dbVars => Inv'
  <2> SUFFICES ASSUME Inv, [DbNext]_dbVars PROVE Inv'
    OBVIOUS
  <2>1. CASE Open
    BY <2>1, OpenKeeps DEF Open
  <2>2. CASE Replay
    BY <2>2, ReplayKeeps DEF Replay
  <2>3. CASE ReplayEnds
    BY <2>3 DEF ReplayEnds, memory, disk, IndexInv, Fresh, BuildIndexMap, SnapshotSound,
                WalHoldsStatements, DoingIsLogged
  <2>4. CASE \E s \in Statements : Execute(s)
    BY <2>4, ExecuteKeeps DEF Execute
  <2>5. CASE AppendWal
    <3>1. WalHoldsStatements'
      BY <2>5 DEF AppendWal, Logged, IndexInv, WalHoldsStatements, DoingIsLogged
    <3> QED
      BY <2>5, <3>1 DEF AppendWal, IndexInv, Fresh, BuildIndexMap, SnapshotSound, DoingIsLogged
  <2>6. CASE Save
    <3>1. replayed' \in Nat
      BY <2>6 DEF Save
    <3> QED
      BY <2>6, <3>1, SaveKeeps
  <2>7. CASE Truncate
    BY <2>7 DEF Truncate, LogCleared, IndexInv, Fresh, BuildIndexMap, SnapshotSound,
                WalHoldsStatements, DoingIsLogged
  <2>8. CASE Crash
    BY <2>8 DEF Crash, MemoryLost, disk, IndexInv, Fresh, SnapshotSound,
                WalHoldsStatements, DoingIsLogged
  <2>10. CASE AppendFails
    BY <2>10 DEF AppendFails, memory, disk, IndexInv, Fresh, BuildIndexMap, SnapshotSound,
                 WalHoldsStatements, DoingIsLogged
  <2>11. CASE SaveFails \/ TruncateFails
    <3>1. UNCHANGED disk /\ NotWritten
      BY <2>11 DEF SaveFails, TruncateFails
    <3>2. pc' # "append" /\ replayed' \in Nat
      <4>1. CASE doing = Nothing
        BY <3>1, <4>1 DEF NotWritten, MemoryLost
      <4>2. CASE doing # Nothing
        BY <3>1, <4>2 DEF NotWritten
      <4> QED
        BY <4>1, <4>2
    <3>3. Fresh(table, index)'
      <4>1. CASE doing = Nothing
        BY <3>1, <4>1 DEF NotWritten, MemoryLost, Fresh
      <4>2. CASE doing # Nothing
        BY <3>1, <4>2 DEF NotWritten, memory, IndexInv, Fresh, BuildIndexMap
      <4> QED
        BY <4>1, <4>2
    <3> QED
      BY <3>1, <3>2, <3>3 DEF disk, IndexInv, SnapshotSound, WalHoldsStatements, DoingIsLogged
  <2>9. CASE UNCHANGED dbVars
    BY <2>9 DEF dbVars, memory, disk, IndexInv, Fresh, BuildIndexMap, SnapshotSound,
                WalHoldsStatements, DoingIsLogged
  <2> QED
    BY <2>1, <2>2, <2>3, <2>4, <2>5, <2>6, <2>7, <2>8, <2>9, <2>10, <2>11 DEF DbNext
<1> QED
  BY <1>1, <1>2, PTL DEF DbSpec

\* For any values and any number of rows, while no statement fails half-way, a
\* lookup through the index (lib.rs, indexed_candidates) finds what a scan finds.
THEOREM IndexesServe ==
  ASSUME "statement" \notin Faults
  PROVE  DbSpec => []IndexServes
<1>1. IndexInv => IndexServes
  BY DEF IndexInv, Fresh, IndexServes, Selected, Candidates, Matches, BuildIndexMap
<1> QED
  BY <1>1, IndexInvHolds, PTL

----------------------------------------------------------------------------
\* Induction, for what a recursive function computes.

Below == {p \in Nat \X Nat : p[1] < p[2]}

LEMMA BelowIsWellFounded == IsWellFoundedOn(Below, Nat)
  BY NatLessThanWellFounded DEF OpToRel, Below

LEMMA SetInduction ==
  ASSUME NEW S, 0 \in S, \A n \in Nat : n \in S => n + 1 \in S
  PROVE  Nat \subseteq S
<1> DEFINE T == Nat \ S
<1>1. ASSUME T # {} PROVE FALSE
  <2>1. PICK x \in T : \A y \in T : ~(<<y, x>> \in Below)
    BY <1>1, BelowIsWellFounded, WFMin
  <2>2. x # 0 /\ x \in Nat
    OBVIOUS
  <2>3. x - 1 \in Nat /\ <<x - 1, x>> \in Below
    BY <2>2 DEF Below
  <2> QED
    BY <2>1, <2>2, <2>3
<1> QED
  BY <1>1

\* One outcome follows another.
LEMMA FollowingIs ==
  ASSUME NEW r, NEW s
  PROVE  Following(r, s) = Run(r.table, r.index, s)
<1>1. {Run(b.table, b.index, s) : b \in {r}} = {Run(r.table, r.index, s)}
  OBVIOUS
<1> QED
  BY <1>1 DEF Following

\* Rerunning a log: the equation of the definition, for every log.
RunsAs(f, start, log, m) ==
  f = [n \in 0..m |-> IF n = 0 THEN start ELSE Following(f[n - 1], log[n])]

LEMMA RerunExists ==
  ASSUME NEW start, NEW log, NEW m \in Nat
  PROVE  \E f : RunsAs(f, start, log, m)
<1> DEFINE S == {k \in Nat : \E f : RunsAs(f, start, log, k)}
<1>1. 0 \in S
  <2>1. RunsAs([n \in 0..0 |-> start], start, log, 0)
    BY DEF RunsAs
  <2> QED
    BY <2>1
<1>2. ASSUME NEW k \in Nat, k \in S PROVE k + 1 \in S
  <2>1. PICK f : RunsAs(f, start, log, k)
    BY <1>2
  <2> DEFINE g == [n \in 0..k + 1 |-> IF n <= k THEN f[n] ELSE Following(f[k], log[n])]
  <2>2. \A n \in 0..k + 1 :
          g[n] = IF n = 0 THEN start ELSE Following(g[n - 1], log[n])
    <3> SUFFICES ASSUME NEW n \in 0..k + 1
                 PROVE  g[n] = IF n = 0 THEN start ELSE Following(g[n - 1], log[n])
      OBVIOUS
    <3>1. CASE n = k + 1
      BY <3>1
    <3>2. CASE n # k + 1
      <4>1. g[n] = f[n] /\ (n # 0 => g[n - 1] = f[n - 1])
        BY <3>2
      <4>2. f[n] = IF n = 0 THEN start ELSE Following(f[n - 1], log[n])
        BY <2>1, <3>2 DEF RunsAs
      <4> HIDE DEF g
      <4> QED
        BY <4>1, <4>2
    <3> QED
      BY <3>1, <3>2
  <2>3. RunsAs(g, start, log, k + 1)
    <3>1. g = [n \in 0..k + 1 |-> g[n]]
      OBVIOUS
    <3> HIDE DEF g
    <3> QED
      BY <2>2, <3>1 DEF RunsAs
  <2> QED
    BY <2>3
<1> HIDE DEF S
<1>3. Nat \subseteq S
  BY <1>1, <1>2, SetInduction
<1> QED
  BY <1>3 DEF S

LEMMA RerunIs ==
  ASSUME NEW start, NEW log, Len(log) \in Nat
  PROVE  /\ Rerun(start, log)[0] = start
         /\ \A n \in 1..Len(log) :
              Rerun(start, log)[n] =
                Run(Rerun(start, log)[n - 1].table, Rerun(start, log)[n - 1].index, log[n])
<1>1. \E f : RunsAs(f, start, log, Len(log))
  BY RerunExists
<1> DEFINE r == CHOOSE f : RunsAs(f, start, log, Len(log))
<1>2. Rerun(start, log) = r
  BY DEF Rerun, RunsAs
<1>3. RunsAs(r, start, log, Len(log))
  BY <1>1
<1> HIDE DEF r
<1>4. \A n \in 0..Len(log) : r[n] = IF n = 0 THEN start ELSE Following(r[n - 1], log[n])
  BY <1>3 DEF RunsAs
<1> QED
  BY <1>2, <1>4, FollowingIs

\* A longer log reruns as the shorter one did, and goes on.
LEMMA RerunAppended ==
  ASSUME NEW S, NEW start, NEW log \in Seq(S), NEW s \in S
  PROVE  LET f == Rerun(start, log)  g == Rerun(start, Append(log, s)) IN
         /\ \A n \in 0..Len(log) : g[n] = f[n]
         /\ g[Len(log) + 1] = Run(f[Len(log)].table, f[Len(log)].index, s)
<1> DEFINE longer == Append(log, s)
           f == Rerun(start, log)
           g == Rerun(start, longer)
           Same == {n \in Nat : n <= Len(log) => g[n] = f[n]}
<1>1. /\ Len(log) \in Nat /\ Len(longer) = Len(log) + 1
      /\ longer[Len(log) + 1] = s /\ \A n \in 1..Len(log) : longer[n] = log[n]
  BY AppendProperties, LenProperties
<1> HIDE DEF longer
<1>2. /\ f[0] = start
      /\ \A n \in 1..Len(log) : f[n] = Run(f[n - 1].table, f[n - 1].index, log[n])
  BY <1>1, RerunIs
<1>3. /\ g[0] = start
      /\ \A n \in 1..Len(longer) : g[n] = Run(g[n - 1].table, g[n - 1].index, longer[n])
  BY <1>1, RerunIs
<1> HIDE DEF f, g
<1>4. 0 \in Same
  BY <1>2, <1>3
<1>5. ASSUME NEW n \in Nat, n \in Same PROVE n + 1 \in Same
  <2> SUFFICES ASSUME n + 1 <= Len(log) PROVE g[n + 1] = f[n + 1]
    OBVIOUS
  <2>1. g[n] = f[n]
    BY <1>1, <1>5
  <2>2. n + 1 \in 1..Len(log) /\ n + 1 \in 1..Len(longer) /\ (n + 1) - 1 = n
    BY <1>1
  <2>3. g[n + 1] = Run(g[n].table, g[n].index, longer[n + 1])
    BY <1>3, <2>2
  <2>4. f[n + 1] = Run(f[n].table, f[n].index, log[n + 1])
    BY <1>2, <2>2
  <2> QED
    BY <1>1, <2>1, <2>2, <2>3, <2>4
<1> HIDE DEF Same
<1>6. Nat \subseteq Same
  BY <1>4, <1>5, SetInduction
<1>7. \A n \in 0..Len(log) : g[n] = f[n]
  BY <1>1, <1>6 DEF Same
<1>8. g[Len(log) + 1] = Run(f[Len(log)].table, f[Len(log)].index, s)
  BY <1>1, <1>3, <1>7
<1> QED
  BY <1>7, <1>8 DEF f, g, longer

----------------------------------------------------------------------------
\* Durability.  After(n) is what open makes of the snapshot and the first n
\* records of the log: the invariant says where the memory stands among these.

After(n) == Rerun(Loaded, wal)[n]
InMemory(n) == table = After(n).table /\ index = After(n).index

\* The statement being executed has taken effect in memory, and only there.
OneAhead ==
  /\ doing \in Statements
  /\ Fresh(After(Len(wal)).table, After(Len(wal)).index)
  /\ Run(After(Len(wal)).table, After(Len(wal)).index, doing) = Outcome(table, index, "log")

GoodLog == \A n \in 1..Len(wal) : After(n).out = "log"

DurableInv ==
  /\ wal \in Seq(Statements) /\ logged \in BOOLEAN
  /\ pc \in {"off", "ready", "replay", "append", "save", "truncate"}
  /\ ~logged => wal = <<>> /\ pc \notin {"replay", "append", "truncate"}
  /\ pc # "truncate" => GoodLog
  /\ pc \in {"off", "ready", "append"} => replayed = 0
  /\ pc \in {"off", "ready", "replay"} => doing = Nothing
  /\ logged \/ pc = "off" => ~unsaved
  /\ pc = "replay" => replayed \in 0..Len(wal) /\ InMemory(replayed)
  /\ pc = "ready" /\ ~unsaved => InMemory(Len(wal))
  /\ pc = "append" => OneAhead
  /\ pc = "save" => IF logged THEN InMemory(Len(wal)) ELSE doing \in Statements
  /\ pc = "truncate" => snapshot = <<Encoded>>
  /\ pc \in {"save", "truncate"} /\ doing # Nothing => replayed = 0

\* The faults that what is read must be spared.
SoundBackend == Faults \cap {"statement", "checkpoint", "append", "truncate"} = {}

\* What is on disk decides what open finds.
LEMMA DiskDecides ==
  ASSUME UNCHANGED disk
  PROVE  /\ Loaded' = Loaded /\ wal' = wal
         /\ \A n : After(n)' = After(n)
         /\ GoodLog' = GoodLog
         /\ Recovered' = Recovered
BY DEF disk, Loaded, After, GoodLog, Recovered, IndexOf, New

LEMMA AfterIs ==
  ASSUME wal \in Seq(Statements)
  PROVE  /\ Len(wal) \in Nat
         /\ After(0) = Loaded
         /\ \A n \in 1..Len(wal) : After(n) = Run(After(n - 1).table, After(n - 1).index, wal[n])
BY RerunIs, LenProperties DEF After

\* A statement answers with an outcome that has three parts, and changes
\* nothing but when it is to be logged.
LEMMA RunAnswers ==
  ASSUME "statement" \notin Faults, NEW t, NEW ix, NEW s \in Statements
  PROVE  /\ Run(t, ix, s) = Outcome(Run(t, ix, s).table, Run(t, ix, s).index, Run(t, ix, s).out)
         /\ Run(t, ix, s).out \in {"log", "done", "error"}
         /\ Run(t, ix, s).out # "log" => Run(t, ix, s).table = t /\ Run(t, ix, s).index = ix
<1> DEFINE Good(r) == /\ r = Outcome(r.table, r.index, r.out)
                      /\ r.out \in {"log", "done", "error"}
                      /\ r.out # "log" => r.table = t /\ r.index = ix
<1>1. /\ \A out \in {"log", "done", "error"} : Good(Outcome(t, ix, out))
      /\ \A u, iy : Good(Outcome(u, iy, "log"))
      /\ Good(Failed(t, ix))
  BY DEF Outcome, Failed
<1> HIDE DEF Good
<1>2. s.op \in {"create table", "drop table", "create index", "drop index",
               "insert", "update", "delete"}
  BY DEF Statements
<1>3. Good(CreateTable(t, ix, s)) /\ Good(DropTable(t, ix, s))
  BY <1>1 DEF CreateTable, DropTable
<1>4. Good(CreateIndex(t, ix, s)) /\ Good(DropIndex(t, ix, s))
  BY <1>1 DEF CreateIndex, DropIndex
<1>5. s.op = "insert" => Good(Insert(t, ix, s))
  <2>1. s.op = "insert" => Len(s.row) \in Nat
    <3> SUFFICES ASSUME s.op = "insert" PROVE Len(s.row) \in Nat
      OBVIOUS
    <3>1. PICK n \in 1..2 : s.row \in [1..n -> Values]
      BY DEF Statements
    <3>2. s.row \in Seq(Values)
      BY <3>1
    <3> QED
      BY <3>2
  <2>2. s.op = "insert" => GoodPrefix(s.row) = Len(s.row)
    BY <2>1, WholeRowGoesIn
  <2> QED
    BY <1>1, <2>1, <2>2 DEF Insert
<1>6. Good(Update(t, ix, s))
  <2>1. \A p : ~Fails(t.rows[p])
    BY NothingFails
  <2> QED
    BY <1>1, <2>1 DEF Update
<1>7. Good(Delete(t, ix, s))
  <2>1. \A p : ~FailsOn(t.rows[p], s.where)
    <3>1. \A p : ~Fails(t.rows[p])
      BY NothingFails
    <3> QED
      BY <3>1, Zenon DEF FailsOn
  <2> QED
    BY <1>1, <2>1 DEF Delete
<1>8. Good(Run(t, ix, s))
  BY <1>2, <1>3, <1>4, <1>5, <1>6, <1>7 DEF Run
<1> QED
  BY <1>8 DEF Good

\* What is saved is loaded as it is in memory.
LEMMA LoadedIsSaved ==
  Fresh(table, index) /\ snapshot = <<Encoded>> => Loaded = Outcome(table, index, "log")
<1> SUFFICES ASSUME Fresh(table, index), snapshot = <<Encoded>>
             PROVE  Loaded = Outcome(table, index, "log")
  OBVIOUS
<1> QED
  BY IndexAssumption DEF Fresh, Encoded, Loaded, IndexOf

LEMMA LoadedIsFresh ==
  ASSUME IndexInv
  PROVE  Fresh(Loaded.table, Loaded.index) /\ Loaded.out = "log"
BY DEF IndexInv, SnapshotSound, Loaded, IndexOf, New, Outcome, Fresh

LEMMA InitDurable == DbInit => DurableInv
<1> SUFFICES ASSUME DbInit PROVE DurableInv
  OBVIOUS
<1>1. wal \in Seq(Statements) /\ Len(wal) = 0
  BY DEF DbInit
<1> QED
  BY <1>1 DEF DbInit, DurableInv, GoodLog

LEMMA OpenDurable ==
  ASSUME DurableInv, Open
  PROVE  DurableInv'
<1>1. UNCHANGED disk /\ pc = "off" /\ UNCHANGED <<logged, doing, replayed, unsaved>>
  BY DEF Open
<1>2. InMemory(0)'
  <2>1. table' = Loaded.table /\ index' = Loaded.index
    BY DEF Open, Loaded, IndexOf, New, Outcome
  <2>2. After(0) = Loaded
    BY AfterIs DEF DurableInv
  <2> QED
    BY <1>1, <2>1, <2>2, DiskDecides DEF InMemory
<1>3. wal = <<>> <=> Len(wal) = 0
  BY DEF DurableInv
<1>4. pc' = IF wal = <<>> THEN "ready" ELSE "replay"
  BY DEF Open
<1>5. /\ wal' = wal /\ GoodLog' = GoodLog /\ Len(wal) \in Nat
  BY <1>1, DiskDecides, AfterIs DEF DurableInv
<1>6. replayed' = 0
  BY <1>1 DEF DurableInv
<1> QED
  BY <1>1, <1>2, <1>3, <1>4, <1>5, <1>6 DEF DurableInv

LEMMA ReplayDurable ==
  ASSUME DurableInv, Replay
  PROVE  DurableInv'
<1>1. UNCHANGED disk /\ pc = "replay" /\ UNCHANGED <<logged, doing, unsaved>> /\ replayed' = replayed + 1
  BY DEF Replay
<1>2. /\ wal' = wal /\ Loaded' = Loaded /\ GoodLog' = GoodLog /\ Len(wal) \in Nat
  BY <1>1, DiskDecides, AfterIs DEF DurableInv
<1>3. replayed \in 0..Len(wal) - 1 /\ InMemory(replayed)
  BY <1>1, <1>2 DEF DurableInv, Replay
<1>4. After(replayed + 1) = Run(table, index, wal[replayed + 1])
  <2>1. replayed + 1 \in 1..Len(wal) /\ (replayed + 1) - 1 = replayed
    BY <1>2, <1>3
  <2> QED
    BY <1>3, <2>1, AfterIs DEF DurableInv, InMemory
<1>5. After(replayed + 1).out = "log"
  BY <1>1, <1>2, <1>3 DEF DurableInv, GoodLog
<1>6. pc' = "replay" /\ InMemory(replayed)'
  <2>1. /\ table' = After(replayed + 1).table /\ index' = After(replayed + 1).index
        /\ pc' = IF After(replayed + 1).out = "error" THEN "refused" ELSE "replay"
    BY <1>4 DEF Replay
  <2> QED
    BY <1>1, <1>2, <1>5, <2>1 DEF InMemory, After
<1>7. replayed' \in 0..Len(wal')
  BY <1>1, <1>2, <1>3
<1> QED
  BY <1>1, <1>2, <1>6, <1>7 DEF DurableInv

\* Saving, or forgetting, what is done with.
LEMMA ReplayEndsDurable ==
  ASSUME DurableInv, ReplayEnds
  PROVE  DurableInv'
<1>1. /\ UNCHANGED disk /\ pc = "replay" /\ pc' = "save" /\ replayed = Len(wal)
      /\ UNCHANGED <<logged, table, index, doing, unsaved>>
  BY DEF ReplayEnds, memory
<1>2. wal' = wal /\ Loaded' = Loaded /\ GoodLog' = GoodLog
  BY <1>1, DiskDecides
<1>3. logged /\ InMemory(Len(wal))
  BY <1>1 DEF DurableInv
<1>4. InMemory(Len(wal))'
  BY <1>1, <1>2, <1>3 DEF InMemory, After
<1> QED
  BY <1>1, <1>2, <1>3, <1>4 DEF DurableInv

\* A statement that is to be logged is one ahead; of any other the disk need
\* not hear.
LEMMA ExecuteDurable ==
  ASSUME "statement" \notin Faults, IndexInv, DurableInv, NEW s \in Statements, Execute(s)
  PROVE  DurableInv'
<1>1. /\ UNCHANGED disk /\ pc = "ready" /\ UNCHANGED <<logged, replayed, unsaved>>
  BY DEF Execute
<1>2. wal' = wal /\ Loaded' = Loaded /\ GoodLog' = GoodLog
  BY <1>1, DiskDecides
<1>3. GoodLog /\ replayed = 0 /\ (~unsaved => InMemory(Len(wal)))
  BY <1>1 DEF DurableInv
<1> DEFINE r == Run(table, index, s)
<1>4. /\ r = Outcome(r.table, r.index, r.out)
      /\ r.out # "log" => r.table = table /\ r.index = index
  BY RunAnswers
<1>5. /\ table' = r.table /\ index' = r.index
      /\ pc' = IF r.out # "log" THEN "ready" ELSE IF logged THEN "append" ELSE "save"
      /\ doing' = IF r.out = "log" THEN s ELSE Nothing
  BY DEF Execute
<1>6. ~unsaved => /\ Fresh(After(Len(wal)).table, After(Len(wal)).index)
                  /\ Run(After(Len(wal)).table, After(Len(wal)).index, s) = r
  BY <1>3 DEF InMemory, IndexInv
<1>7. logged => ~unsaved
  BY DEF DurableInv
<1> HIDE DEF r
<1>8. CASE r.out = "log" /\ logged
  <2>1. OneAhead'
    BY <1>2, <1>4, <1>5, <1>6, <1>7, <1>8 DEF OneAhead, After
  <2> QED
    BY <1>1, <1>2, <1>3, <1>5, <1>7, <1>8, <2>1 DEF DurableInv
<1>9. CASE r.out = "log" /\ ~logged
  BY <1>1, <1>2, <1>3, <1>5, <1>9 DEF DurableInv
<1>10. CASE r.out # "log"
  <2>1. (~unsaved => InMemory(Len(wal)))'
    BY <1>1, <1>2, <1>3, <1>4, <1>5, <1>10 DEF InMemory, After
  <2> QED
    BY <1>1, <1>2, <1>3, <1>5, <1>7, <1>10, <2>1 DEF DurableInv
<1> QED
  BY <1>8, <1>9, <1>10

\* What the log with one more record comes to.
LEMMA LogGrows ==
  ASSUME DurableInv, pc = "append", Logged, UNCHANGED snapshot
  PROVE  /\ wal' \in Seq(Statements) /\ Len(wal') = Len(wal) + 1 /\ Loaded' = Loaded
         /\ \A n \in 0..Len(wal) : After(n)' = After(n)
         /\ Rerun(Loaded', wal')[Len(wal')] = Outcome(table, index, "log")
         /\ GoodLog'
<1>1. wal \in Seq(Statements) /\ doing \in Statements /\ OneAhead /\ GoodLog /\ wal' = Append(wal, doing)
  BY DEF DurableInv, OneAhead, Logged
<1>2. /\ wal' \in Seq(Statements) /\ Len(wal') = Len(wal) + 1 /\ Len(wal) \in Nat
  BY <1>1, AppendProperties, LenProperties
<1>3. Loaded' = Loaded
  BY DEF Loaded, New, IndexOf
<1>4. /\ \A n \in 0..Len(wal) : After(n)' = After(n)
      /\ Rerun(Loaded', wal')[Len(wal) + 1] = Run(After(Len(wal)).table, After(Len(wal)).index, doing)
  BY <1>1, <1>3, RerunAppended DEF After
<1>5. Rerun(Loaded', wal')[Len(wal')] = Outcome(table, index, "log")
  BY <1>1, <1>2, <1>4 DEF OneAhead
<1>6. \A n \in 1..Len(wal') : Rerun(Loaded', wal')[n].out = "log"
  <2> SUFFICES ASSUME NEW n \in 1..Len(wal') PROVE Rerun(Loaded', wal')[n].out = "log"
    OBVIOUS
  <2>1. CASE n = Len(wal')
    BY <1>5, <2>1 DEF Outcome
  <2>2. CASE n # Len(wal')
    <3>1. n \in 1..Len(wal)
      BY <1>2, <2>2
    <3> QED
      BY <1>1, <1>2, <1>4, <3>1 DEF GoodLog, After
  <2> QED
    BY <2>1, <2>2
<1>7. GoodLog'
  BY <1>6 DEF GoodLog, After
<1> QED
  BY <1>2, <1>3, <1>4, <1>5, <1>7

LEMMA AppendDurable ==
  ASSUME DurableInv, AppendWal
  PROVE  DurableInv'
<1>1. /\ pc = "append" /\ Logged /\ UNCHANGED <<table, index, logged, snapshot, replayed>>
      /\ unsaved' = FALSE
      /\ \/ pc' = "save"
         \/ pc' = "ready" /\ doing' = Nothing
  BY DEF AppendWal
<1>2. /\ wal' \in Seq(Statements) /\ GoodLog'
      /\ Rerun(Loaded', wal')[Len(wal')] = Outcome(table, index, "log")
  BY <1>1, LogGrows
<1>3. logged /\ replayed = 0
  BY <1>1 DEF DurableInv
<1>4. InMemory(Len(wal))'
  BY <1>1, <1>2 DEF InMemory, After, Outcome
<1> QED
  BY <1>1, <1>2, <1>3, <1>4 DEF DurableInv

\* An empty log leaves what was loaded.
LEMMA EmptyLog ==
  wal = <<>> => wal \in Seq(Statements) /\ Len(wal) = 0 /\ GoodLog /\ After(Len(wal)) = Loaded
<1> SUFFICES ASSUME wal = <<>>
             PROVE  wal \in Seq(Statements) /\ Len(wal) = 0 /\ GoodLog /\ After(Len(wal)) = Loaded
  OBVIOUS
<1>1. wal \in Seq(Statements) /\ Len(wal) = 0
  OBVIOUS
<1> QED
  BY <1>1, AfterIs DEF GoodLog

LEMMA SaveDurable ==
  ASSUME IndexInv, DurableInv, Save
  PROVE  DurableInv'
<1>1. /\ pc = "save" /\ snapshot' = <<Encoded>> /\ unsaved' = FALSE
      /\ UNCHANGED <<memory, logged, wal>>
      /\ IF logged THEN pc' = "truncate" /\ UNCHANGED <<doing, replayed>>
                   ELSE pc' = "ready" /\ doing' = Nothing /\ replayed' = 0
  BY DEF Save
<1>2. wal' \in Seq(Statements) /\ logged' = logged /\ logged \in BOOLEAN
  BY <1>1 DEF DurableInv
<1>3. snapshot' = <<Encoded>>' /\ Fresh(table, index)'
  BY <1>1 DEF Encoded, memory, IndexInv, Fresh, BuildIndexMap
<1>4. CASE logged
  BY <1>1, <1>2, <1>3, <1>4 DEF DurableInv
<1>5. CASE ~logged
  <2>1. (wal = <<>>)'
    BY <1>1, <1>5 DEF DurableInv
  <2>2. (Loaded = Outcome(table, index, "log"))'
    <3>1. (Fresh(table, index) /\ snapshot = <<Encoded>>)'
      BY <1>3
    <3> QED
      BY <3>1, LoadedIsSaved, PTL
  <2>3. (wal \in Seq(Statements) /\ Len(wal) = 0 /\ GoodLog /\ After(Len(wal)) = Loaded)'
    BY <2>1, EmptyLog, PTL
  <2>4. InMemory(Len(wal))'
    BY <2>2, <2>3 DEF InMemory, Outcome
  <2> QED
    BY <1>1, <1>2, <1>5, <2>1, <2>3, <2>4 DEF DurableInv
<1> QED
  BY <1>4, <1>5

LEMMA TruncateDurable ==
  ASSUME IndexInv, DurableInv, Truncate
  PROVE  DurableInv'
<1>1. /\ pc = "truncate" /\ pc' = "ready" /\ replayed' = 0 /\ doing' = Nothing
      /\ UNCHANGED <<table, index, logged, snapshot, unsaved>>
      /\ (wal = <<>>)'
  BY DEF Truncate, LogCleared
<1>2. /\ snapshot = <<Encoded>> /\ logged
  BY <1>1 DEF DurableInv
<1>3. Loaded = Outcome(table, index, "log")
  BY <1>2, LoadedIsSaved DEF IndexInv
<1>4. Loaded' = Loaded
  BY <1>1 DEF Loaded, New, IndexOf, BuildIndexMap
<1>5. (wal \in Seq(Statements) /\ Len(wal) = 0 /\ GoodLog /\ After(Len(wal)) = Loaded)'
  BY <1>1, EmptyLog, PTL
<1>6. InMemory(Len(wal))'
  BY <1>1, <1>3, <1>4, <1>5 DEF InMemory, Outcome
<1> QED
  BY <1>1, <1>2, <1>5, <1>6 DEF DurableInv

LEMMA CrashDurable ==
  ASSUME "checkpoint" \notin Faults, DurableInv, Crash
  PROVE  DurableInv'
<1>1. /\ pc # "truncate" /\ pc' = "off" /\ replayed' = 0 /\ doing' = Nothing /\ unsaved' = FALSE
      /\ UNCHANGED <<logged, disk>>
  BY DEF Crash, MemoryLost
<1>2. wal' = wal /\ GoodLog' = GoodLog
  BY <1>1, DiskDecides
<1> QED
  BY <1>1, <1>2 DEF DurableInv

\* A snapshot that cannot be saved leaves the log to tell the same, or, when
\* there is none, a change that nothing tells of.
LEMMA SaveFailsDurable ==
  ASSUME DurableInv, SaveFails
  PROVE  DurableInv'
<1>1. /\ pc = "save" /\ UNCHANGED <<logged, disk>> /\ NotWritten
  BY DEF SaveFails
<1>2. wal' = wal /\ Loaded' = Loaded /\ GoodLog' = GoodLog
  BY <1>1, DiskDecides
<1>3. CASE doing = Nothing
  <2>1. pc' = "off" /\ replayed' = 0 /\ doing' = Nothing /\ unsaved' = FALSE
    BY <1>1, <1>3 DEF NotWritten, MemoryLost
  <2> QED
    BY <1>1, <1>2, <2>1 DEF DurableInv
<1>4. CASE doing # Nothing
  <2>1. /\ pc' = "ready" /\ doing' = Nothing /\ UNCHANGED <<table, index, replayed>>
        /\ unsaved' = IF logged THEN unsaved ELSE TRUE
    BY <1>1, <1>4 DEF NotWritten, memory
  <2>2. CASE logged
    <3>1. InMemory(Len(wal))'
      BY <1>1, <1>2, <2>1, <2>2 DEF DurableInv, InMemory, After
    <3> QED
      BY <1>1, <1>2, <1>4, <2>1, <2>2, <3>1 DEF DurableInv
  <2>3. CASE ~logged
    BY <1>1, <1>2, <1>4, <2>1, <2>3 DEF DurableInv
  <2> QED
    BY <2>2, <2>3
<1> QED
  BY <1>3, <1>4

LEMMA DurableInvHolds ==
  ASSUME SoundBackend
  PROVE  DbSpec => [](IndexInv /\ DurableInv)
<1> DEFINE Inv == IndexInv /\ DurableInv
<1> USE DEF SoundBackend
<1>1. DbInit => Inv
  BY InitFresh, InitDurable
<1>2. IndexInv /\ IndexInv' /\ DurableInv /\ [DbNext]_dbVars => DurableInv'
  <2> SUFFICES ASSUME IndexInv, DurableInv, [DbNext]_dbVars PROVE DurableInv'
    OBVIOUS
  <2>1. CASE Open
    BY <2>1, OpenDurable
  <2>2. CASE Replay
    BY <2>2, ReplayDurable
  <2>3. CASE ReplayEnds
    BY <2>3, ReplayEndsDurable
  <2>4. CASE \E s \in Statements : Execute(s)
    BY <2>4, ExecuteDurable
  <2>5. CASE AppendWal
    BY <2>5, AppendDurable
  <2>6. CASE Save
    BY <2>6, SaveDurable
  <2>7. CASE Truncate
    BY <2>7, TruncateDurable
  <2>8. CASE Crash
    BY <2>8, CrashDurable
  <2>9. CASE UNCHANGED dbVars
    <3>1. UNCHANGED <<table, index, logged, snapshot, wal, pc, doing, replayed, unsaved, disk>>
      BY <2>9 DEF dbVars, memory, disk
    <3>2. Loaded' = Loaded /\ GoodLog' = GoodLog
      BY <3>1, DiskDecides
    <3> QED
      BY <3>1, <3>2 DEF DurableInv, InMemory, OneAhead, After, Encoded, Fresh, BuildIndexMap
  <2>10. CASE SaveFails
    BY <2>10, SaveFailsDurable
  <2>11. CASE AppendFails \/ TruncateFails
    BY <2>11 DEF AppendFails, TruncateFails
  <2> QED
    BY <2>1, <2>2, <2>3, <2>4, <2>5, <2>6, <2>7, <2>8, <2>9, <2>10, <2>11 DEF DbNext
<1>3. DbSpec => []IndexInv
  <2>1. DbSpec => [](IndexInv /\ replayed \in Nat)
    BY IndexInvHolds
  <2> QED
    BY <2>1, PTL
<1> QED
  BY <1>1, <1>2, <1>3, PTL DEF DbSpec

\* What a program reads is what it would find after a reset (lib.rs, execute
\* and open), unless it was told that the latest change was not written:
\* whatever was logged, folded and replayed before, however often the snapshot
\* could not be saved, for any values and any number of statements between two
\* checkpoints.
THEOREM WhatIsReadLasts ==
  ASSUME SoundBackend
  PROVE  DbSpec => []ReadsAreDurable
<1>1. IndexInv /\ DurableInv => ReadsAreDurable
  <2> SUFFICES ASSUME DurableInv PROVE ReadsAreDurable
    OBVIOUS
  <2>1. pc = "ready" /\ ~unsaved => Recovered = Held
    BY DEF DurableInv, InMemory, After, Recovered, Held
  <2> QED
    BY <2>1 DEF DurableInv, ReadsAreDurable, Durable
<1> QED
  BY <1>1, DurableInvHolds, PTL

----------------------------------------------------------------------------
\* The refinement: a statement is committed when its record is appended, or,
\* without a log, when the snapshot is replaced.

Content(t, ix) == [table |-> t, indexed |-> ix # NoIndex]

LEMMA ContentIsFresh ==
  ASSUME NEW t, NEW ix, Fresh(t, ix)
  PROVE  /\ IndexOf(Content(t, ix)) = ix
         /\ \A s : Asked(Content(t, ix), s) = Run(t, ix, s)
BY DEF Content, IndexOf, Fresh, Asked

LEMMA RecoveredIs == Recovered = Content(After(Len(wal)).table, After(Len(wal)).index)
BY DEF Recovered, Content, After

LEMMA InitPromised == DbInit => Promised!TableInit
<1> SUFFICES ASSUME DbInit PROVE Promised!TableInit
  OBVIOUS
<1>1. After(Len(wal)) = Loaded /\ pc = "off" /\ snapshot = <<>>
  BY EmptyLog DEF DbInit
<1>2. Loaded.table = NoTable /\ Loaded.index = NoIndex
  BY <1>1 DEF Loaded, New, IndexOf, Outcome
<1>3. Recovered = New
  BY <1>1, <1>2, RecoveredIs DEF New, Content
<1> QED
  BY <1>1, <1>3 DEF Promised!TableInit, Durable, Read, InProgress

\* What is read in each state, as the invariant has it.
LEMMA WhatIsRead ==
  ASSUME DurableInv
  PROVE  /\ Held = Content(table, index)
         /\ pc \in {"off", "replay"} => Read = Durable
         /\ pc \in {"ready", "append", "save", "truncate"} => Read = Held
         /\ pc = "ready" /\ ~unsaved => Durable = Held
         /\ pc = "save" /\ logged => Durable = Held
         /\ pc = "truncate" => Durable = Held
<1>1. Held = Content(table, index) /\ (pc = "truncate" => Durable = Held)
  BY DEF Held, Content, DurableInv, Durable, Encoded
<1>2. InMemory(Len(wal)) => Recovered = Held
  BY RecoveredIs DEF InMemory, Held, Content
<1> QED
  BY <1>1, <1>2 DEF DurableInv, Read, Durable

\* Outside a checkpoint, what leaves the disk alone takes from nothing that lasts.
LEMMA QuietStep ==
  ASSUME UNCHANGED disk, pc # "truncate", pc' # "truncate"
  PROVE  UNCHANGED Durable
BY DiskDecides DEF Durable

LEMMA OpeningPromised ==
  ASSUME DurableInv, DurableInv', Open \/ Replay \/ ReplayEnds
  PROVE  UNCHANGED <<Durable, Read, InProgress>>
<1>1. /\ UNCHANGED <<disk, logged, unsaved>> /\ pc \in {"off", "replay"}
      /\ pc' \in {"ready", "replay", "refused", "save"}
      /\ pc' = "ready" => pc = "off"
      /\ pc' = "save" => logged
  <2>1. CASE Open
    BY <2>1 DEF Open
  <2>2. CASE Replay
    BY <2>2 DEF Replay
  <2>3. CASE ReplayEnds
    BY <2>3 DEF ReplayEnds, DurableInv
  <2> QED
    BY <2>1, <2>2, <2>3
<1>2. UNCHANGED Durable /\ UNCHANGED InProgress
  BY <1>1, QuietStep DEF InProgress
<1>3. Read = Durable
  BY <1>1, WhatIsRead
<1>4. Read' = Durable'
  <2>1. CASE pc' = "ready"
    <3>1. pc = "off" /\ ~unsaved'
      BY <1>1, <2>1 DEF DurableInv
    <3>2. InMemory(Len(wal))'
      BY <2>1, <3>1 DEF DurableInv
    <3>3. Recovered' = Held'
      BY <3>2 DEF Recovered, InMemory, After, Held
    <3> QED
      BY <2>1, <3>3 DEF Read, Durable
  <2>2. CASE pc' = "save"
    <3>1. InMemory(Len(wal))'
      BY <1>1, <2>2 DEF DurableInv
    <3>2. Recovered' = Held'
      BY <3>1 DEF Recovered, InMemory, After, Held
    <3> QED
      BY <2>2, <3>2 DEF Read, Durable
  <2>3. CASE pc' \in {"replay", "refused"}
    BY <2>3 DEF Read
  <2> QED
    BY <1>1, <2>1, <2>2, <2>3
<1> QED
  BY <1>2, <1>3, <1>4

LEMMA ExecutePromised ==
  ASSUME "statement" \notin Faults, IndexInv, DurableInv, NEW s \in Statements, Execute(s)
  PROVE  Promised!Begin(s) \/ UNCHANGED <<Durable, Read, InProgress>>
<1> DEFINE r == Run(table, index, s)
<1>1. /\ UNCHANGED disk /\ pc = "ready" /\ UNCHANGED logged
      /\ table' = r.table /\ index' = r.index
      /\ pc' = IF r.out # "log" THEN "ready" ELSE IF logged THEN "append" ELSE "save"
      /\ doing' = IF r.out = "log" THEN s ELSE Nothing
  BY DEF Execute
<1>2. InProgress = Nothing /\ UNCHANGED Durable
  BY <1>1, QuietStep DEF InProgress
<1>3. Read = Content(table, index) /\ Read' = Content(r.table, r.index)
  BY <1>1 DEF Read, Held, Content
<1>4. CASE r.out # "log"
  <2>1. r.table = table /\ r.index = index
    BY <1>4, RunAnswers
  <2>2. InProgress' = Nothing
    BY <1>1, <1>4 DEF InProgress
  <2> QED
    BY <1>2, <1>3, <2>1, <2>2
<1>5. CASE r.out = "log"
  <2>1. InProgress' = s
    BY <1>1, <1>5 DEF InProgress
  <2>2. Asked(Read, s) = r
    BY <1>3, ContentIsFresh DEF IndexInv
  <2>3. Succeeds(Read, s) /\ Read' = Result(Read, s)
    BY <1>3, <1>5, <2>2 DEF Succeeds, Result, Content
  <2> QED
    BY <1>2, <2>1, <2>3 DEF Promised!Begin
<1> QED
  BY <1>4, <1>5

LEMMA AppendPromised ==
  ASSUME DurableInv, AppendWal
  PROVE  Promised!Commit
<1>1. /\ pc = "append" /\ Logged /\ UNCHANGED <<table, index, logged, snapshot, replayed>>
      /\ pc' = "save" \/ pc' = "ready"
  BY DEF AppendWal
<1>2. OneAhead /\ logged
  BY <1>1 DEF DurableInv
<1>3. Rerun(Loaded', wal')[Len(wal')] = Outcome(table, index, "log")
  BY <1>1, LogGrows
<1>4. Recovered' = Content(table, index)
  BY <1>3 DEF Recovered, Content, Outcome
<1>5. /\ Durable' = Recovered' /\ InProgress = doing /\ InProgress' = Nothing
      /\ Read = Content(table, index) /\ Read' = Read
  BY <1>1, <1>2 DEF Durable, InProgress, Read, Held, Content
<1>6. doing # Nothing
  BY <1>2, NothingAssumption DEF OneAhead
<1> QED
  BY <1>4, <1>5, <1>6 DEF Promised!Commit

\* After a checkpoint the snapshot is what the log came to before it.
LEMMA SavePromised ==
  ASSUME IndexInv, DurableInv, DurableInv', Save
  PROVE  Promised!Commit \/ UNCHANGED <<Durable, Read, InProgress>>
<1>1. /\ pc = "save" /\ snapshot' = <<Encoded>> /\ UNCHANGED <<table, index, logged>>
      /\ unsaved' = FALSE
      /\ pc' = IF logged THEN "truncate" ELSE "ready"
  BY DEF Save, memory
<1>2. Read = Held /\ Read' = Held /\ Encoded = Held
  BY <1>1 DEF Read, Held, Encoded
<1>3. CASE logged
  <2>1. Durable' = Encoded
    BY <1>1, <1>3 DEF Durable
  <2>2. Durable = Held
    BY <1>1, <1>3, WhatIsRead
  <2> QED
    BY <1>1, <1>2, <1>3, <2>1, <2>2 DEF InProgress
<1>4. CASE ~logged
  <2>1. InProgress = doing /\ InProgress' = Nothing /\ doing # Nothing
    BY <1>1, <1>4, NothingAssumption DEF DurableInv, InProgress
  <2>2. Durable' = Held
    <3>1. Durable' = Recovered' /\ InMemory(Len(wal))'
      BY <1>1, <1>4 DEF Durable, DurableInv
    <3> QED
      BY <1>1, <3>1 DEF Recovered, InMemory, After, Held
  <2> QED
    BY <1>2, <2>1, <2>2 DEF Promised!Commit
<1> QED
  BY <1>3, <1>4

LEMMA TruncatePromised ==
  ASSUME DurableInv, DurableInv', Truncate
  PROVE  UNCHANGED <<Durable, Read, InProgress>>
<1>1. /\ pc = "truncate" /\ pc' = "ready" /\ UNCHANGED <<table, index, logged, unsaved>>
  BY DEF Truncate
<1>2. Durable = Held /\ logged
  BY <1>1, WhatIsRead DEF DurableInv
<1>3. InMemory(Len(wal))'
  BY <1>1, <1>2 DEF DurableInv
<1>4. Durable' = Held
  BY <1>1, <1>3 DEF Durable, Recovered, InMemory, After, Held
<1> QED
  BY <1>1, <1>2, <1>4 DEF InProgress, Read, Held

LEMMA CrashPromised ==
  ASSUME "checkpoint" \notin Faults, DurableInv, Crash
  PROVE  Promised!Reset
<1>1. pc # "truncate" /\ pc' = "off" /\ UNCHANGED <<logged, disk>>
  BY DEF Crash
<1>2. UNCHANGED Durable /\ InProgress' = Nothing /\ Read' = Durable'
  BY <1>1, QuietStep DEF InProgress, Read
<1> QED
  BY <1>2 DEF Promised!Reset

\* The statement is refused when there is no log to tell of it; a snapshot
\* that was to fold the log is not missed.
LEMMA SaveFailsPromised ==
  ASSUME DurableInv, SaveFails
  PROVE  Promised!Refuse \/ UNCHANGED <<Durable, Read, InProgress>>
<1>1. pc = "save" /\ "save" \in Faults /\ UNCHANGED <<logged, disk>> /\ NotWritten
  BY DEF SaveFails
<1>2. pc' \in {"off", "ready"}
  BY <1>1 DEF NotWritten
<1>3. UNCHANGED Durable /\ InProgress' = Nothing
  BY <1>1, <1>2, QuietStep DEF InProgress
<1>4. Read = Held
  BY <1>1, WhatIsRead
<1>5. CASE logged
  <2>1. Durable = Held /\ InProgress = Nothing
    BY <1>1, <1>5, WhatIsRead DEF InProgress
  <2>2. CASE doing = Nothing
    <3>1. Read' = Durable'
      BY <1>1, <2>2 DEF NotWritten, Read
    <3> QED
      BY <1>3, <1>4, <2>1, <3>1
  <2>3. CASE doing # Nothing
    <3>1. Read' = Held
      BY <1>1, <2>3 DEF NotWritten, Read, Held, memory
    <3> QED
      BY <1>3, <1>4, <2>1, <3>1
  <2> QED
    BY <2>2, <2>3
<1>6. CASE ~logged
  <2>1. doing # Nothing /\ InProgress = doing
    BY <1>1, <1>6, NothingAssumption DEF DurableInv, InProgress
  <2>2. Read' = Held
    BY <1>1, <2>1 DEF NotWritten, Read, Held, memory
  <2> QED
    BY <1>1, <1>3, <1>4, <2>1, <2>2 DEF Promised!Refuse
<1> QED
  BY <1>5, <1>6

\* Whatever snapshots cannot be saved, if the log can be appended to and
\* truncated, no power failure falls between the halves of a checkpoint and no
\* statement fails half-way, the database is a DurableTable: a statement that
\* succeeded is there after any reset, one cut short happened whole or not at
\* all, and one refused for want of a snapshot is read until a reset, or lasts
\* with the next that is written (lib.rs, execute, persist and open).
THEOREM ImplementsPromise ==
  ASSUME SoundBackend
  PROVE  DbSpec => ImplementsTable
<1> DEFINE Inv == IndexInv /\ DurableInv
<1>1. DbSpec => []Inv
  BY DurableInvHolds
<1>2. Inv /\ Inv' /\ [DbNext]_dbVars =>
        Promised!TableNext \/ UNCHANGED Promised!tableVars
  <2> USE DEF SoundBackend
  <2> SUFFICES ASSUME Inv, Inv', [DbNext]_dbVars
               PROVE  Promised!TableNext \/ UNCHANGED <<Durable, Read, InProgress>>
    BY DEF Promised!tableVars
  <2>1. CASE Open \/ Replay \/ ReplayEnds
    BY <2>1, OpeningPromised
  <2>2. CASE \E s \in Statements : Execute(s)
    BY <2>2, ExecutePromised DEF Promised!TableNext
  <2>3. CASE AppendWal
    BY <2>3, AppendPromised DEF Promised!TableNext
  <2>4. CASE Save
    BY <2>4, SavePromised DEF Promised!TableNext
  <2>5. CASE Truncate
    BY <2>5, TruncatePromised
  <2>6. CASE Crash
    BY <2>6, CrashPromised DEF Promised!TableNext
  <2>7. CASE SaveFails
    BY <2>7, SaveFailsPromised DEF Promised!TableNext
  <2>8. CASE AppendFails \/ TruncateFails
    BY <2>8 DEF AppendFails, TruncateFails
  <2>9. CASE UNCHANGED dbVars
    <3>1. UNCHANGED <<disk, logged, pc, doing, snapshot, table, index>>
      BY <2>9 DEF dbVars, memory, disk
    <3>2. UNCHANGED Durable
      BY <3>1, DiskDecides DEF Durable
    <3> QED
      BY <3>1, <3>2 DEF InProgress, Read, Held
  <2> QED
    BY <2>1, <2>2, <2>3, <2>4, <2>5, <2>6, <2>7, <2>8, <2>9 DEF DbNext
<1>3. Inv /\ Inv' /\ [DbNext]_dbVars => [Promised!TableNext]_Promised!tableVars
  BY <1>2
<1> QED
  BY <1>1, <1>3, InitPromised, PTL DEF DbSpec, ImplementsTable, Promised!TableSpec

=============================================================================
