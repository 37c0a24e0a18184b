---------------------------- MODULE MCSyncSystem ----------------------------
(***************************************************************************)
(* Instances of SyncSystem for TLC; the .cfg files give the constants.     *)
(***************************************************************************)
EXTENDS SyncProperties, TLC

(* The slots of the server are interchangeable. *)
AnySlot == Permutations(Slot)
=============================================================================
