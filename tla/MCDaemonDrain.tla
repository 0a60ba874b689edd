---------------------------- MODULE MCDaemonDrain ----------------------------
(* DaemonDrain for TLC: requests as model values, alike within their kind.  *)
EXTENDS DaemonDrain, TLC

Symmetry == Permutations(Reads) \cup Permutations(Writes)
=============================================================================
