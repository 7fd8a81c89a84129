----------------------------- MODULE MCNoteVault -----------------------------
(***************************************************************************)
(* Two tabs, a note of an earlier build and a new one, two page loads.     *)
(***************************************************************************)
EXTENDS NoteVault, TLC

CONSTANTS old, new, t1, t2

MCNotes == {old, new}
MCOldNotes == {old}
MCTabs == {t1, t2}
Symmetry == Permutations(MCTabs)
=============================================================================
