---------------------------------- MODULE Ota ----------------------------------
(***************************************************************************)
(* rustclr-ota: two firmware slots, an update streamed into the one that   *)
(* is not active, a pending slot that is tried a few times and confirmed   *)
(* by the firmware in it, or given up.                                     *)
(*                                                                         *)
(* A slot holds chunks, and verifies as an image that starts it, all its   *)
(* chunks in order.  `slots` and `state` are the storage, which a reset      *)
(* keeps; `receiving` is the OtaManager's, which a reset loses.  The       *)
(* library asks nothing of its callers: Strays names what the firmware     *)
(* may do that an update tool would call out of turn.                      *)
(***************************************************************************)
EXTENDS Integers, Sequences

CONSTANTS A, B,               \* the slots
          Healthy, Broken,    \* images that work, and that verify but do not
                              \* (or are no firmware: finish ignores the kind)
          NoImage,
          Junk,               \* a tampered or damaged chunk
          None,               \* Option::None
          Off,                \* no firmware is running
          Parts,              \* chunks in an image
          MaxChunks,          \* bound on what is streamed into a slot
          MAX_ATTEMPTS,
          Strays              \* calls out of turn: "begin", "confirm"

ASSUME SlotsAssumption == A # B /\ None \notin {A, B, Off} /\ Off \notin {A, B}
ASSUME ImagesAssumption == Healthy \cap Broken = {} /\ NoImage \notin Healthy \cup Broken
ASSUME SizesAssumption ==
  Parts \in Nat \ {0} /\ MaxChunks \in Nat /\ MAX_ATTEMPTS \in Nat \ {0}
ASSUME StraysAssumption == Strays \subseteq {"begin", "confirm"}

VARIABLES slots, state, receiving, running

vars == <<slots, state, receiving, running>>

Slots == {A, B}
Images == Healthy \cup Broken
Chunks == [image : Images, part : 1 .. Parts] \cup {Junk}

Other(s) == IF s = A THEN B ELSE A
WholeImage(v) == [k \in 1 .. Parts |-> [image |-> v, part |-> k]]

(* verify: the image a slot's contents start with; what follows the sealed  *)
(* container is ignored.                                                    *)
Holds(c, v) == Parts <= Len(c) /\ \A k \in 1 .. Parts : c[k] = [image |-> v, part |-> k]
Verify(c) ==
  IF \E v \in Images : Holds(c, v) THEN CHOOSE v \in Images : Holds(c, v) ELSE NoImage

LongEnough(c) == Len(c) >= Parts                                     \* mutant
Accepted(c) == Verify(c) # NoImage

ActiveItself == state.active                                         \* mutant
TargetSlot == Other(state.active)

Init ==
  /\ \E v \in Healthy : slots = [s \in Slots |-> IF s = A THEN WholeImage(v) ELSE <<>>]
  /\ state = [active |-> A, pending |-> None, boot_attempts |-> 0]
  /\ receiving = FALSE /\ running = Off

-----------------------------------------------------------------------------
(* The update, called by the firmware that runs *)

(* In turn: by confirmed firmware, running, with nothing pending.           *)
BeginInTurn == state.pending = None /\ running = state.active

Begin ==
  /\ running # Off
  /\ BeginInTurn \/ "begin" \in Strays
  /\ slots' = [slots EXCEPT ![TargetSlot] = <<>>]
  /\ receiving' = TRUE
  /\ UNCHANGED <<state, running>>

WriteChunk(c) ==
  /\ running # Off /\ receiving
  /\ Len(slots[TargetSlot]) < MaxChunks              \* bound
  /\ slots' = [slots EXCEPT ![TargetSlot] = Append(@, c)]
  /\ UNCHANGED <<state, receiving, running>>

Finish ==
  /\ running # Off /\ receiving
  /\ receiving' = FALSE
  /\ IF Accepted(slots[TargetSlot])
     THEN state' = [state EXCEPT !.pending = TargetSlot, !.boot_attempts = 0]
     ELSE UNCHANGED state
  /\ UNCHANGED <<slots, running>>

-----------------------------------------------------------------------------
(* The boots *)

(* Power is lost, or the board is reset: RAM goes, storage stays.           *)
PowerLoss ==
  /\ running # Off
  /\ running' = Off /\ receiving' = FALSE
  /\ UNCHANGED <<slots, state>>

OneMore == state.boot_attempts > MAX_ATTEMPTS                        \* mutant
OutOfAttempts == state.boot_attempts >= MAX_ATTEMPTS

(* The bootloader jumps to the slot on_boot returned; what is not a whole   *)
(* image does not run.                                                      *)
Jump(s) == running' = IF Verify(slots[s]) \in Images THEN s ELSE Off

KeepsTrying == Jump(state.pending) /\ UNCHANGED state                \* mutant
TryPending ==
  Jump(state.pending) /\ state' = [state EXCEPT !.boot_attempts = @ + 1]

GiveUp ==
  /\ Jump(state.active)
  /\ state' = [state EXCEPT !.pending = None, !.boot_attempts = 0]

OnBoot ==
  /\ running = Off
  /\ \/ state.pending # None /\ OutOfAttempts /\ GiveUp
     \/ state.pending # None /\ ~OutOfAttempts /\ TryPending
     \/ state.pending = None /\ Jump(state.active) /\ UNCHANGED state
  /\ UNCHANGED <<slots, receiving>>

Works(s) == Verify(slots[s]) \in Healthy

(* Called by firmware that considers itself healthy; in turn, by the new.   *)
ConfirmBoot ==
  /\ running # Off /\ Works(running)
  /\ running = state.pending \/ "confirm" \in Strays
  /\ state.pending # None
  /\ state' = [active |-> state.pending, pending |-> None, boot_attempts |-> 0]
  /\ UNCHANGED <<slots, receiving, running>>

Rollback ==
  /\ running # Off /\ state.pending # None
  /\ state' = [state EXCEPT !.pending = None, !.boot_attempts = 0]
  /\ UNCHANGED <<slots, receiving, running>>

-----------------------------------------------------------------------------
Next ==
  \/ Begin
  \/ \E c \in Chunks : WriteChunk(c)
  \/ Finish
  \/ PowerLoss
  \/ OnBoot
  \/ ConfirmBoot
  \/ Rollback

Spec == Init /\ [][Next]_vars

(* External: a board that is off is switched on again, and one whose        *)
(* firmware does not work is reset, by its watchdog or by whoever owns it.  *)
Watchdog == running # Off /\ ~Works(running) /\ PowerLoss
FairSpec == Spec /\ WF_vars(OnBoot) /\ WF_vars(Watchdog)

-----------------------------------------------------------------------------
(* The types, and a count of attempts that stays within MAX_ATTEMPTS        *)
(* (on_boot compares with >= before it adds one).                           *)
TypeOK ==
  /\ slots \in [Slots -> Seq(Chunks)]
  /\ state \in [active : Slots, pending : Slots \cup {None}, boot_attempts : 0 .. MAX_ATTEMPTS]
  /\ receiving \in BOOLEAN /\ running \in Slots \cup {Off}

(* "Why the update never lands on the running slot" (lib.rs:10): no call    *)
(* of begin, write_chunk or finish changes the slot that is executing.      *)
RunningSlotUntouched ==
  [][running # Off => slots'[running] = slots[running]]_vars

(* The two slots implement a trial: an update, complete or interrupted at   *)
(* any chunk, tampered with or not, leaves the firmware in force whole;     *)
(* what on_boot returns is a whole image; an image gets MAX_ATTEMPTS boots  *)
(* to confirm, the last one included; and only it can confirm itself.       *)
Trial == INSTANCE TrialBoot WITH
  inForce <- Verify(slots[state.active]),
  onTrial <- IF state.pending = None THEN NoImage ELSE Verify(slots[state.pending]),
  left    <- MAX_ATTEMPTS - state.boot_attempts,
  Chances <- MAX_ATTEMPTS
ImplementsTrial == Trial!Spec

(* "A device that cannot report is a device that rolls back" (lib.rs:24):   *)
(* an image that does not work does not stay; firmware that works is back   *)
(* without anybody asking for it.                                           *)
BrokenImageGoesAway ==
  (running # Off /\ Verify(slots[running]) \in Broken)
    ~> (running # Off /\ Verify(slots[running]) \in Healthy)
==============================================================================
