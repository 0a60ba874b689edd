--------------------------- MODULE MCInstancePool ---------------------------
(* InstancePool for TLC: model values, and the symmetry of the identities. *)
EXTENDS InstancePool, TLC

Symmetry == Permutations(Callers) \cup Permutations(Sids)
=============================================================================
