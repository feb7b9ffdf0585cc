----------------------------- MODULE MCReconcile -----------------------------
(* Small instances of Reconcile for TLC. *)
EXTENDS Reconcile, TLC

CONSTANTS h1, h2, a, b

TwoHosts == {h1, h2}
OneHost == {h1}
TwoUpstreams == {a, b}
(* The channels of the watched sources hold 2, 4, 8 and 16 triggers in the
   code; with one each, a trigger is dropped as early as possible. *)
One == [s \in Source |-> 1]

Symmetric == Permutations(TwoHosts) \cup Permutations(TwoUpstreams)

=============================================================================
