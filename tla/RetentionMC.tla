----------------------------- MODULE RetentionMC -----------------------------
(* A run, two branches of it or of one another, and two command lines. *)
EXTENDS Retention, TLC

CONSTANTS r0, b1, b2, o1, o2

ThreeRuns == {r0, b1, b2}
TwoRuns == {r0, b1}
TwoOperators == {o1, o2}
OneOperator == {o1}

Symmetry == Permutations({b1, b2}) \cup Permutations(TwoOperators)
=============================================================================
