----------------------- MODULE MCConnectionLifecycle -----------------------
(* Instances of ConnectionLifecycle for TLC.                               *)
EXTENDS ConnectionLifecycle, TLC

Symmetric == Permutations(Callers) \cup Permutations(Loops) \cup Permutations(Pools)
=============================================================================
