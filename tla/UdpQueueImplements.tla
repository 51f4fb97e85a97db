------------------------- MODULE UdpQueueImplements -------------------------
(***************************************************************************)
(* The threads, mutexes and ring buffers of UdpQueue implement the turns   *)
(* and backlogs of FifoRoundRobin.                                         *)
(***************************************************************************)
EXTENDS UdpQueue

\* The packets of a queue, oldest first, as the ring holds them.
Backlog ==
  [k \in Keys |-> IF k \in Mapped THEN Contents(items[k].buffer) ELSE <<>>]

\* The packet a processing thread carries.
Outgoing ==
  IF \E p \in Processors : unsent[p] # None
  THEN LET u == unsent[CHOOSE p \in Processors : unsent[p] # None]
       IN  [key |-> u.key, packet |-> u.packet]
  ELSE None

Abstract == INSTANCE FifoRoundRobin
              WITH turns <- queues, backlog <- Backlog,
                   outgoing <- Outgoing, closed <- shutting_down

\* Every step of the threads is a step of FifoRoundRobin or changes nothing it
\* can see: packets of one queue leave in the order in which they were queued,
\* queues take turns, no packet is sent twice.
ImplementsFifo == Abstract!FRRSpec
=============================================================================
