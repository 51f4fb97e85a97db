-------------------------- MODULE MCVectorContents --------------------------
(***************************************************************************)
(* The instance of VectorContents that TLC checks.                         *)
(***************************************************************************)
EXTENDS VectorContents, TLC

Symmetry == Permutations(Names)
=============================================================================
