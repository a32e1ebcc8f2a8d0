------------------------------ MODULE MC_Proxy ------------------------------
(* Model-checking instance of Proxy: two upstream job ids as model values, *)
(* symmetric because the generator only compares them.                     *)
EXTENDS Proxy, TLC

CONSTANTS j1, j2

MCUpJobs == {j1, j2}

JobSymmetry == Permutations(MCUpJobs)
=============================================================================
