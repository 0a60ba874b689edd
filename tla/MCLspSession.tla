----------------------------- MODULE MCLspSession -----------------------------
(* LspSession for TLC, and the bytes its pump reads: callers as model values, *)
(* all alike.                                                                 *)
EXTENDS LspSession, Framing, TLC

Symmetry == Permutations(Callers)

-----------------------------------------------------------------------------
\* Two messages and what is no message, cut anywhere: the pump that reads dispatches each
\* message when it has arrived, once, in their order, and ends at the first thing that is
\* none (framing.rs:141-145, 162-167).
FramesAreWhole == pump = "reading" => Misread = {}
=============================================================================
