------------------------------ MODULE MCRunTracker ------------------------------
(* Instances of RunTracker for TLC. *)
EXTENDS RunTracker, TLC

CONSTANTS r1, r2, h1, h2

TwoRuns == {r1, r2}
TwoHandlers == {h1, h2}
Symmetric == Permutations(TwoRuns) \cup Permutations(TwoHandlers)
=============================================================================
