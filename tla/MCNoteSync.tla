----------------------------- MODULE MCNoteSync -----------------------------
(* Small instances of NoteSync for TLC.                                    *)
EXTENDS NoteSync, TLC

Symmetry == Permutations(Clients)
=============================================================================
