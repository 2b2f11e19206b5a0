------------------------------- MODULE TrialBoot -------------------------------
(***************************************************************************)
(* What rustclr-ota promises: new firmware is on trial.  It replaces the   *)
(* firmware in force only after it has run and said it works; until then   *)
(* the old one is kept, whole, and after Chances silent boots it is back.  *)
(***************************************************************************)
EXTENDS Naturals

CONSTANTS Healthy, Broken, NoImage, Chances

VARIABLES inForce, onTrial, left

vars == <<inForce, onTrial, left>>

Init == inForce \in Healthy /\ onTrial = NoImage /\ left = Chances

(* A verified image, healthy or not, is put on trial.                       *)
Offer == /\ onTrial = NoImage
         /\ onTrial' \in Healthy \cup Broken
         /\ left' = Chances /\ UNCHANGED inForce

Try == /\ onTrial # NoImage /\ left > 0
       /\ left' = left - 1 /\ UNCHANGED <<inForce, onTrial>>

(* Only after a boot, and only an image that works.                         *)
Confirm == /\ onTrial \in Healthy /\ left < Chances
           /\ inForce' = onTrial /\ onTrial' = NoImage /\ left' = Chances

Drop == onTrial' = NoImage /\ left' = Chances /\ UNCHANGED inForce
TimeOut == onTrial # NoImage /\ left = 0 /\ Drop
Withdraw == onTrial # NoImage /\ Drop

Next == Offer \/ Try \/ Confirm \/ TimeOut \/ Withdraw
Spec == Init /\ [][Next]_vars
==============================================================================
