---------------------------- MODULE MCDaemonLock ----------------------------
(* DaemonLock for TLC: processes as model values, alike within their kind. *)
EXTENDS DaemonLock, TLC

Symmetry == Permutations(Daemons) \cup Permutations(Clients)
=============================================================================
