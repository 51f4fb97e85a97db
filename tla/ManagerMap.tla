----------------------------- MODULE ManagerMap -----------------------------
(***************************************************************************)
(* The queues of UdpQueue as the keys of tsl::ordered_map: UdpQueue speaks *)
(* of Tail, Append and Rotated where the code calls erase and insert.      *)
(***************************************************************************)
EXTENDS UdpQueue

Map == INSTANCE OrderedMap WITH order <- queues, Ranges <- {}

\* What UdpQueue does to the rotation is what the map does when the manager
\* erases the front key and inserts it again (process_next_locked), erases it
\* (an empty queue), or inserts a key it does not have (push_locked).
RotationIsEraseInsert ==
  /\ queues # <<>> =>
       /\ Rotated(queues) = Map!Inserted(Map!Erased(queues, Head(queues)), Head(queues))
       /\ Tail(queues) = Map!Erased(queues, Head(queues))
  /\ \A k \in Keys \ Mapped : Append(queues, k) = Map!Inserted(queues, k)
=============================================================================
