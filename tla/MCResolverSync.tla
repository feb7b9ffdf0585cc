--------------------------- MODULE MCResolverSync ---------------------------
(* Small instances of ResolverSync for TLC. *)
EXTENDS ResolverSync

CONSTANTS a, b

OneListen == {a}
TwoListens == {a, b}

=============================================================================
