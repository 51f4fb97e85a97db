----------------------------- MODULE PacketRing -----------------------------
(***************************************************************************)
(* One ring buffer of PacketBuffer beside the sequence it stands for: the  *)
(* index arithmetic of queue/Queue.h against a reference definition, and   *)
(* the exact extent of what pop loses.                                     *)
(***************************************************************************)
EXTENDS PacketBuffer

VARIABLES
  ring,    \* the buffer of a queue
  backlog, \* the sequence it stands for
  popped   \* whether a packet was popped since the ring was last empty

ringvars == <<ring, backlog, popped>>

RingInit ==
  /\ ring = NewBuffer
  /\ backlog = <<>>
  /\ popped = FALSE

\* push_locked: the capacity check, then the slot write.
RingPush(x) ==
  /\ ~IsFull(ring)
  /\ ring' = Put(ring, x)
  /\ backlog' = Append(backlog, x)
  /\ popped' = (popped /\ ring.size > 0)

\* process_next_locked pops only what has a size.
RingPop ==
  /\ ring.size > 0
  /\ ring' = Pop(ring)
  /\ backlog' = AfterPop(backlog)
  /\ popped' = (ring.size > 1)

RingDrain ==
  /\ ring' = Drain(ring)
  /\ backlog' = <<>>
  /\ popped' = FALSE

RingNext == (\E x \in Packets : RingPush(x)) \/ RingPop \/ RingDrain

RingSpec == RingInit /\ [][RingNext]_ringvars

-----------------------------------------------------------------------------
\* The ring is a ring: index and size within the capacity, slots hold packets.
RingTypeOK ==
  /\ ring \in Buffer
  /\ Capacity > 0 => ring.index \in Slots
  /\ backlog \in Seq(Contained)
  /\ popped \in BOOLEAN

\* Wherever the index has wrapped, the slots from the front on are the backlog:
\* no pop finds a slot another packet was written to (Queue.h, pop and
\* push_locked).
RingIsBacklog == Contents(ring) = backlog

\* The loop of remove(), one pop after the other until the size is zero, leaves
\* what Drain says.
DrainIsPops ==
  LET pops[n \in 0 .. Capacity] == IF n = 0 THEN ring ELSE Pop(pops[n - 1])
  IN  Drain(ring) = pops[ring.size]

\* What pop loses, exactly, when every packet pushed has bytes: the front packet
\* has lost its bytes if and only if another one was popped before it since the
\* ring was last empty; the packets behind the front have theirs.
LossIsTheNextPacket ==
  Empty \notin Packets =>
    \A j \in 1 .. ring.size :
      Contents(ring)[j] = Empty <=> j = 1 /\ popped
=============================================================================
