----------------------------- MODULE MCUdpQueue -----------------------------
(***************************************************************************)
(* The instances of UdpQueue that TLC checks.                              *)
(***************************************************************************)
EXTENDS UdpQueue, TLC

\* Keys, clients and handles are interchangeable in every safety property.
Symmetry ==
  Permutations(Keys) \cup Permutations(Clients) \cup Permutations(Handles)
    \cup Permutations(Packets \ {Empty}) \cup Permutations(Processors)

\* The system clock is set one tick forward or back.
BackAndForth == {-1, 1}
=============================================================================
