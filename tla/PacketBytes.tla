----------------------------- MODULE PacketBytes -----------------------------
(***************************************************************************)
(* The ring of PacketRing with its packets as the code holds them: a map   *)
(* from slot numbers to packet::Queued, each with an lni::vector and a     *)
(* length of its own.  A packet is copied three times on its way: into the *)
(* vector that push constructs, from there into the Queued that            *)
(* push_locked assigns to a slot (whatever that slot has held before), and *)
(* from the slot into the Unsent that is dispatched.                       *)
(***************************************************************************)
EXTENDS PacketRing, ByteVector

\* What stands in a slot that packet_buffer has no entry for.
Missing == [missing |-> TRUE]

\* Clients queue packets of at most max_size() bytes.
ASSUME PayloadAssumption ==
  /\ Packets \subseteq {x \in Seq(Byte) : Len(x) <= MaxSize}
  /\ Empty = <<>>

VARIABLES
  slots,  \* packet_buffer
  taken,  \* the packet that the last pop took off the ring
  sent    \* the datagram that was sent for it, <<>> when none was

bytevars == <<ringvars, slots, taken, sent>>

\* packet::Queued{}
NewQueued == [data |-> Default, length |-> 0]

\* packet_buffer[i], which makes an entry where there is none.
Entry(q, i) == IF q[i] = Missing THEN NewQueued ELSE q[i]

\* Mutation of MoveAssigned: the length stays behind.
MoveAssignedData(to, from) == [to EXCEPT !.data = Assigned(@, Bytes(from.data))]

\* to = std::move(from), member by member; from keeps what it has.
MoveAssigned(to, from) ==
  [data |-> Assigned(to.data, Bytes(from.data)), length |-> from.length]

\* push: the caller's bytes in a vector; push_locked: that vector moved.
Carried(x) ==
  [data |-> Copied(Constructed(x)), length |-> Constructed(x).size]

\* pop on the slots q, at index i.
SlotsPopped(q, i) == [q EXCEPT ![i] = Entry(q, i), ![(i + 1) % Capacity] = Missing]

\* process_with_socket and dispatch_packet: length bytes from data(), unless the
\* vector is empty.
Datagram(q) ==
  IF q.data.size = 0 THEN <<>> ELSE [i \in 1 .. q.length |-> q.data.cell[i - 1]]

-----------------------------------------------------------------------------
BytesInit ==
  /\ RingInit
  /\ slots = [i \in Slots |-> Missing]
  /\ taken = <<>>
  /\ sent = <<>>

BytesPush(x) ==
  LET i == At(ring, ring.size)
  IN  /\ RingPush(x)
      /\ slots' = [slots EXCEPT ![i] = MoveAssigned(Entry(slots, i), Carried(x))]
      /\ UNCHANGED <<taken, sent>>

BytesPop ==
  /\ RingPop
  /\ slots' = SlotsPopped(slots, ring.index)
  /\ taken' = Front(ring)
  /\ sent' = Datagram(MoveAssigned(NewQueued, Entry(slots, ring.index)))

\* remove(): one pop after the other, each into an Unsent that is dropped.
BytesDrain ==
  LET after[n \in 0 .. Capacity] ==
        IF n = 0 THEN slots ELSE SlotsPopped(after[n - 1], At(ring, n - 1))
  IN  /\ RingDrain
      /\ slots' = after[ring.size]
      /\ UNCHANGED <<taken, sent>>

BytesNext == (\E x \in Packets : BytesPush(x)) \/ BytesPop \/ BytesDrain

BytesSpec == BytesInit /\ [][BytesNext]_bytevars

-----------------------------------------------------------------------------
\* A slot that has an entry has the bytes and the length of the packet in the
\* ring's slot, whatever longer or shorter packet the entry was made for, and one
\* without an entry stands for the packet that pop erased.
SlotsHoldPackets ==
  \A i \in Slots :
    LET q == Entry(slots, i)
    IN  /\ IsVector(q.data)
        /\ Bytes(q.data) = ring.slot[i]
        /\ q.length = Len(ring.slot[i])

\* What is sent for a packet is that packet, byte by byte: no byte of an older
\* packet that had the same slot, and none that was never written.
SentAsTaken == sent = taken
=============================================================================
