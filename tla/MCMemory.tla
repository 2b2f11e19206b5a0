------------------------------- MODULE MCMemory -------------------------------
(***************************************************************************)
(* The two stores that hand out space and take it back, for TLC: the heap  *)
(* of the collector and the file store on flash.  They share no state, so  *)
(* a behaviour moves the one or the other.                                 *)
(*                                                                         *)
(* The names of files are symmetric.  The slots of the heap are not: the   *)
(* free list and the sweep go through them in order.                       *)
(***************************************************************************)
EXTENDS MCObjectSpace, MCFlashFs

VARIABLE part

memoryVars == <<vars, flashVars, part>>

MemoryInit ==
  /\ part \in {"heap", "files"}
  /\ Init /\ FlashInit
  /\ part = "heap" => \A c \in Addresses : cells[c] = Erased

MemoryNext ==
  /\ \/ part = "heap" /\ Next /\ UNCHANGED flashVars
     \/ part = "files" /\ FlashNext /\ UNCHANGED vars
  /\ UNCHANGED part

MemorySpec == MemoryInit /\ [][MemoryNext]_memoryVars

=============================================================================
