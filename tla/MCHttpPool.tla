----------------------------- MODULE MCHttpPool -----------------------------
(* Small instances of HttpPool for TLC. *)
EXTENDS HttpPool, TLC

PoolSymmetry == Permutations(Threads) \cup Permutations(Impls)
=============================================================================
