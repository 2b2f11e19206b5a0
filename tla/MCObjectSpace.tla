---------------------------- MODULE MCObjectSpace ----------------------------
(* An instance of ObjectSpace for TLC.  Slots are not symmetric: the free   *)
(* list and the sweep go through them in order.                             *)
EXTENDS ObjectSpace
CONSTANTS r1, s1, f1
==============================================================================
