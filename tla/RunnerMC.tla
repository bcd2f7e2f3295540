------------------------------ MODULE RunnerMC ------------------------------
(* Runner on small instances.  Two slots for play loops, so that a second  *)
(* loop can exist whenever the code would schedule one.                    *)
EXTENDS Runner, TLC

CONSTANTS o1, o2, l1, l2

OneOperator == {o1}
TwoOperators == {o1, o2}
TwoLoops == {l1, l2}

(* Actors of a kind are interchangeable; used where no liveness is checked. *)
Symmetry == Permutations(Operators) \cup Permutations(Loops)
=============================================================================
