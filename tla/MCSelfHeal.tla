----------------------------- MODULE MCSelfHeal -----------------------------
(* Small instances of SelfHeal for TLC: the limits of the code, scaled down. *)
EXTENDS SelfHeal

CONSTANTS r1, r2, p1, p2

OneRoute == {r1}
TwoRoutes == {r1, r2}
TwoPorts == {p1, p2}

=============================================================================
