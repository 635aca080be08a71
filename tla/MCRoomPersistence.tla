------------------------- MODULE MCRoomPersistence -------------------------
(* Small instances of RoomPersistence for TLC.                             *)
EXTENDS RoomRefinement, TLC

Symmetry == Permutations(Notes) \union Permutations(Edits)
=============================================================================
