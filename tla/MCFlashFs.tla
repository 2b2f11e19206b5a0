------------------------------- MODULE MCFlashFs -------------------------------
(* Instances of FlashFs for TLC.                                            *)
EXTENDS FlashFs, TLC
CONSTANTS a, b, x
Symmetry == Permutations(Names)
==============================================================================
