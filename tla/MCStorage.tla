------------------------------ MODULE MCStorage ------------------------------
(***************************************************************************)
(* The slots of an update and the table of a database, for TLC: they share *)
(* no state, so a behaviour moves the one or the other.                    *)
(***************************************************************************)
EXTENDS MCOta, Database

CONSTANTS v1, v2

VARIABLE part

storageVars == <<vars, dbVars, part>>

StorageInit ==
  /\ part \in {"update", "database"}
  /\ Init /\ DbInit
  /\ part = "update" => logged
  /\ part = "database" => Verify(slots[A]) = good

StorageNext ==
  /\ \/ part = "update" /\ Next /\ UNCHANGED dbVars
     \/ part = "database" /\ DbNext /\ UNCHANGED vars
  /\ UNCHANGED part

StorageSpec ==
  /\ StorageInit /\ [][StorageNext]_storageVars
  /\ part = "update" => WF_vars(OnBoot) /\ WF_vars(Watchdog)

=============================================================================
