--------------------------- MODULE MCUndoRefinement ---------------------------
(* UndoRefinement for TLC: model values, and the symmetry of files and contents. *)
EXTENDS UndoRefinement, TLC

Symmetry == Permutations(Files) \cup Permutations(Contents)
=============================================================================
