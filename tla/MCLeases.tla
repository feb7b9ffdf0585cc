------------------------------ MODULE MCLeases ------------------------------
(* Small instances of Leases for TLC. *)
EXTENDS Leases

CONSTANTS r1, r2, t1, h1, h2

TwoRuns == {r1, r2}
OneTool == {t1}
MCHost == {h1, h2}
(* Two runs of one workspace, or of two. *)
MCClaims == {[r \in Run |-> IF r = r1 THEN {h1} ELSE {h1, h2}],
             [r \in Run |-> IF r = r1 THEN {h1} ELSE {h2}]}

=============================================================================
