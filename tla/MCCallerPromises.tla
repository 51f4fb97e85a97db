-------------------------- MODULE MCCallerPromises --------------------------
(***************************************************************************)
(* The instances of CallerPromises, ManagerMap and UdpQueueImplements that *)
(* TLC checks together.                                                    *)
(***************************************************************************)
EXTENDS CallerPromises, ManagerMap, UdpQueueImplements, TLC

Symmetry ==
  Permutations(Keys) \cup Permutations(Handles) \cup Permutations(Clients)
    \cup Permutations(Processors) \cup Permutations(Packets \ {Empty})

\* The system clock is set one tick forward or back.
BackAndForth == {-1, 1}
=============================================================================
