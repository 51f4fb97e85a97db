------------------------------ MODULE MCPacing ------------------------------
(***************************************************************************)
(* The instance of Pacing that TLC checks.                                 *)
(***************************************************************************)
EXTENDS Pacing, TLC

Symmetry == Permutations(Keys) \cup Permutations(Handles)
=============================================================================
