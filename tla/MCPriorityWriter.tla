--------------------------- MODULE MCPriorityWriter ---------------------------
(* PriorityWriter for TLC: frames as model values, alike within a priority. *)
EXTENDS PriorityWriter, TLC

Symmetry ==
    Permutations(High) \cup Permutations(Normal)
        \cup Permutations(Background) \cup Permutations(Replies)
=============================================================================
