------------------------------ MODULE MCUndoLog ------------------------------
(* UndoLog for TLC: model values, and the symmetry of calls, files and contents. *)
EXTENDS UndoLog, TLC

Symmetry ==
    Permutations(Calls) \cup Permutations(Files) \cup Permutations(Contents)
=============================================================================
