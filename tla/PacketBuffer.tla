---------------------------- MODULE PacketBuffer ----------------------------
(***************************************************************************)
(* The packets of one queue: queue/Buffer.h (index, size, capacity) and    *)
(* the packet_buffer of queue/Item.h, with the operations queue/Queue.h    *)
(* performs on them.  packet_buffer is an std::unordered_map from slot     *)
(* numbers to packets; every access goes through operator[], which makes   *)
(* an empty packet for a missing key, so that a missing slot and an empty  *)
(* packet cannot be told apart.  Both are Empty here, and so is a packet   *)
(* of length zero: the sender looks only at data.empty().                  *)
(***************************************************************************)
EXTENDS Integers, Sequences, FiniteSets

CONSTANTS
  Capacity,   \* manager->queue_buffer_capacity; zero is accepted
  Packets,    \* what clients queue (Empty may be one of them)
  Empty       \* a packet without bytes

ASSUME CapacityAssumption == Capacity \in Nat

Slots == 0 .. Capacity - 1

Contained == Packets \cup {Empty}

Buffer == [index : IF Capacity = 0 THEN {0} ELSE Slots,
           size  : 0 .. Capacity,
           slot  : [Slots -> Contained]]

NewBuffer == [index |-> 0, size |-> 0, slot |-> [i \in Slots |-> Empty]]

\* Mutation of IsFull: one packet too many.
FullTooLate(b) == b.size > Capacity

IsFull(b) == b.size >= Capacity

\* The slot that lies j places behind the front.
At(b, j) == (b.index + j) % Capacity

\* Mutation of Put: next_index without the front index.
PutAtSize(b, x) == [b EXCEPT !.slot[b.size] = x, !.size = @ + 1]

\* packet_buffer[next_index] = packet; size++.
Put(b, x) == [b EXCEPT !.slot[At(b, b.size)] = x, !.size = @ + 1]

\* The packet that pop hands to the sender.
Front(b) == b.slot[b.index]

\* Mutation of Pop: erase before the index has moved.
PopErasesOwnSlot(b) == [index |-> At(b, 1),
                        size  |-> b.size - 1,
                        slot  |-> [b.slot EXCEPT ![b.index] = Empty]]

\* pop advances the index BEFORE it erases packet_buffer[index]: what it
\* erases is the slot of the packet behind, and the slot it leaves keeps its
\* bytes (the move assignment of lni::vector copies them).
Pop(b) == [index |-> At(b, 1),
           size  |-> b.size - 1,
           slot  |-> [b.slot EXCEPT ![At(b, 1)] = Empty]]

\* The packets a sequence of pops would find, front first, were no slot erased.
Contents(b) == [j \in 1 .. b.size |-> b.slot[At(b, j - 1)]]

\* Mutation of Drain: the size is reset and the index stays.
DrainResetsSize(b) == [b EXCEPT !.size = 0]

\* remove(): pop until the size is zero.
Drain(b) ==
  IF b.size = 0 THEN b
  ELSE [index |-> At(b, b.size),
        size  |-> 0,
        slot  |-> [i \in Slots |->
                     IF \E j \in 1 .. b.size : i = At(b, j)
                     THEN Empty ELSE b.slot[i]]]

-----------------------------------------------------------------------------
\* The buffer seen as a sequence.  Losing the packet behind the one it takes
\* is what pop really does to the sequence.

\* s with its first element, when it has one, replaced by Empty.
Blank(s) == IF s = <<>> THEN s ELSE [s EXCEPT ![1] = Empty]

\* The backlog a pop leaves behind.
AfterPop(s) == Blank(Tail(s))
=============================================================================
