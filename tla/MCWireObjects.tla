---------------------------- MODULE MCWireObjects ----------------------------
(* The instance of WireObjects for TLC: three goroutines, two values.      *)
EXTENDS WireObjects, TLC

CONSTANTS g1, g2, g3, fake, class, m1, m2, p1, p2

TwoValues == {[meta |-> m1, spec |-> {p1}], [meta |-> m2, spec |-> {p2}]}

Symmetry == Permutations({g1, g2, g3})
=============================================================================
