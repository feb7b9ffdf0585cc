----------------------------- MODULE MCLifecycle -----------------------------
(* Small instances of Lifecycle for TLC. *)
EXTENDS Lifecycle, TLC

CONSTANTS p1, p2, p3, c1, c2

MCPid  == {p1, p2, p3}
TwoCli == {c1, c2}
OneCli == {c1}

Symmetric == Permutations(MCPid) \cup Permutations(TwoCli)

=============================================================================
