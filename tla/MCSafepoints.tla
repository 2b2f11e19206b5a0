----------------------------- MODULE MCSafepoints -----------------------------
(***************************************************************************)
(* Two environments in one run: threads that hold objects and let only one *)
(* thread collect at a time, and threads without objects that do whatever  *)
(* they like while another collects.                                       *)
(***************************************************************************)
EXTENDS MCSafepoint

VARIABLE racing

Racing == INSTANCE Safepoint WITH
  Races <- {"collect", "block", "idle", "exit"}, Objects <- {}

EitherNext ==
  /\ IF racing THEN Racing!Next ELSE Next
  /\ UNCHANGED racing

EitherInit == Init /\ racing \in BOOLEAN

EitherSpec ==
  /\ EitherInit
  /\ [][EitherNext]_<<vars, racing>>
  /\ Fairness

===============================================================================
