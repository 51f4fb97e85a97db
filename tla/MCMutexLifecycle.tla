-------------------------- MODULE MCMutexLifecycle --------------------------
(***************************************************************************)
(* The instance of MutexLifecycle that TLC checks.                         *)
(***************************************************************************)
EXTENDS MutexLifecycle, TLC

Symmetry == Permutations(Managers) \cup Permutations(Threads) \cup Permutations(Blocks)
=============================================================================
