------------------------------ MODULE ClaimsMC ------------------------------
(* Two harness processes, two clients and three starts. *)
EXTENDS Claims, TLC

CONSTANTS h1, h2, c1, c2, r1, r2, r3

TwoHarnesses == {h1, h2}
TwoClients == {c1, c2}
ThreeRuns == {r1, r2, r3}

Symmetry ==
  Permutations(TwoHarnesses) \cup Permutations(TwoClients) \cup Permutations(ThreeRuns)
=============================================================================
