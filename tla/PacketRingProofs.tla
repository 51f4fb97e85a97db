-------------------------- MODULE PacketRingProofs --------------------------
(***************************************************************************)
(* The ring buffer is the sequence it stands for, and pop loses exactly    *)
(* the packet behind the one it takes, for every capacity.                 *)
(***************************************************************************)
EXTENDS PacketRing, PacketBufferProofs, WellFoundedInduction

RingInv == RingTypeOK /\ RingIsBacklog

\* The ring that push_locked makes is empty and stands for no packet.
LEMMA RingInitInv == RingInit => RingInv
<1> SUFFICES ASSUME RingInit PROVE RingInv
  OBVIOUS
<1>1. ring \in Buffer /\ ring.size = 0
  BY NewBufferType, CapacityAssumption DEF RingInit, NewBuffer
<1>2. Capacity > 0 => ring.index \in Slots
  BY <1>1 DEF Buffer
<1>3. Contents(ring) = <<>>
  <2>1. Contents(ring) \in Seq(Contained) /\ Len(Contents(ring)) = 0
    BY <1>1, ContentsType
  <2> QED
    BY <2>1, EmptySeq
<1> QED
  BY <1>1, <1>2, <1>3, EmptySeq DEF RingInit, RingInv, RingTypeOK, RingIsBacklog

\* push_locked, pop and remove keep the ring equal to its backlog.
LEMMA RingStepInv == RingInv /\ [RingNext]_ringvars => RingInv'
<1> SUFFICES ASSUME RingInv, [RingNext]_ringvars
             PROVE  RingInv'
  OBVIOUS
<1> USE DEF RingInv, RingTypeOK, RingIsBacklog
<1>1. ASSUME ring' \in Buffer, backlog' = Contents(ring'), popped' \in BOOLEAN
      PROVE  RingInv'
  <2>1. (Capacity > 0 => ring.index \in Slots)'
    BY <1>1, CapacityAssumption DEF Buffer
  <2>2. backlog' \in Seq(Contained)
    BY <1>1, ContentsType
  <2>3. Contents(ring)' = Contents(ring')
    BY DEF Contents, At
  <2> QED
    BY <1>1, <2>1, <2>2, <2>3
<1>2. ASSUME NEW x \in Packets, RingPush(x)
      PROVE  RingInv'
  <2>1. ring' \in Buffer
    BY <1>2, PutType DEF RingPush, Contained
  <2>2. backlog' = Contents(ring')
    BY <1>2, PutAppends DEF RingPush, Contained
  <2>3. popped' \in BOOLEAN
    BY <1>2 DEF RingPush
  <2> QED
    BY <1>1, <2>1, <2>2, <2>3
<1>3. CASE RingPop
  <2>1. ring' \in Buffer
    BY <1>3, PopType DEF RingPop
  <2>2. backlog' = Contents(ring')
    BY <1>3, PopEmptiesNext DEF RingPop
  <2>3. popped' \in BOOLEAN
    BY <1>3 DEF RingPop
  <2> QED
    BY <1>1, <2>1, <2>2, <2>3
<1>4. CASE RingDrain
  <2>1. ring' \in Buffer /\ ring'.size = 0
    BY <1>4, DrainType DEF RingDrain
  <2>2. Contents(ring') = <<>>
    <3>1. Contents(ring') \in Seq(Contained) /\ Len(Contents(ring')) = 0
      BY <2>1, ContentsType
    <3> QED
      BY <3>1, EmptySeq
  <2> QED
    BY <1>1, <1>4, <2>1, <2>2 DEF RingDrain
<1>5. CASE UNCHANGED ringvars
  BY <1>1, <1>5 DEF ringvars
<1> QED
  BY <1>2, <1>3, <1>4, <1>5 DEF RingNext

\* However often the index has wrapped, the slots from the front on hold the
\* packets that were pushed and not yet popped, in order, less those that pop
\* has emptied (Queue.h, push_locked, pop and remove), for every capacity.
THEOREM RingRefinesSequence == RingSpec => []RingIsBacklog
<1>1. RingInv => RingIsBacklog
  BY DEF RingInv
<1> QED
  BY <1>1, RingInitInv, RingStepInv, PTL DEF RingSpec

\* The ring stays a ring: index and size within the capacity, and a slot for the
\* next packet whenever there is one at all (Queue.h, push_locked and pop), for
\* every capacity, zero included.
THEOREM RingIsWellFormed == RingSpec => []RingTypeOK
<1>1. RingInv => RingTypeOK
  BY DEF RingInv
<1> QED
  BY <1>1, RingInitInv, RingStepInv, PTL DEF RingSpec

-----------------------------------------------------------------------------
(* The loop of remove().  What it leaves is defined by recursion on the    *)
(* number of pops; the induction is the one that WFMin gives: a set of     *)
(* numbers without zero or without a successor has a least absentee.       *)

Before == {ss \in Nat \X Nat : ss[1] < ss[2]}

\* Induction on the numbers, as a fact about sets.
LEMMA SetInduction ==
  ASSUME NEW S, 0 \in S, \A n \in Nat : n \in S => n + 1 \in S
  PROVE  Nat \subseteq S
<1> SUFFICES ASSUME Nat \ S # {} PROVE FALSE
  OBVIOUS
<1>1. IsWellFoundedOn(Before, Nat)
  BY NatLessThanWellFounded DEF OpToRel, Before
<1>2. PICK x \in Nat \ S : \A y \in Nat \ S : ~ (<<y, x>> \in Before)
  BY <1>1, WFMin
<1>3. x # 0 /\ x - 1 \in Nat /\ x - 1 \notin S
  BY <1>2
<1>4. <<x - 1, x>> \in Before
  BY <1>3 DEF Before
<1> QED
  BY <1>2, <1>3, <1>4

\* The buffer b after n pops, without recursion.
AfterPops(b, n) ==
  [index |-> At(b, n),
   size  |-> b.size - n,
   slot  |-> [i \in Slots |->
                IF \E j \in 1 .. n : i = At(b, j) THEN Empty ELSE b.slot[i]]]

\* No pop leaves the buffer as it is.
LEMMA NoPops ==
  ASSUME NEW b \in Buffer, Capacity > 0
  PROVE  AfterPops(b, 0) = b
<1>1. b.index \in 0 .. Capacity - 1 /\ Capacity \in Nat /\ b.size \in Nat
  BY CapacityAssumption DEF Buffer, Slots
<1>2. At(b, 0) = b.index
  BY <1>1, AtWraps
<1>3. [i \in Slots |-> IF \E j \in 1 .. 0 : i = At(b, j) THEN Empty ELSE b.slot[i]] = b.slot
  BY DEF Buffer
<1>4. b.size - 0 = b.size
  BY <1>1
<1>5. b = [index |-> b.index, size |-> b.size, slot |-> b.slot]
  BY DEF Buffer
<1> QED
  BY <1>2, <1>3, <1>4, <1>5 DEF AfterPops

\* One more pop moves on from the place that the pops before it have reached.
LEMMA OneMorePop ==
  ASSUME NEW b \in Buffer, NEW n \in 0 .. Capacity - 1
  PROVE  Pop(AfterPops(b, n)) = AfterPops(b, n + 1)
<1> DEFINE c == AfterPops(b, n)
<1>1. /\ Capacity > 0 /\ Capacity \in Nat
      /\ b.index \in 0 .. Capacity - 1 /\ b.size \in Nat
      /\ n \in 0 .. Capacity /\ n + 1 \in 0 .. Capacity
  BY CapacityAssumption DEF Buffer, Slots
<1>2. c.index = At(b, n) /\ c.size = b.size - n
  BY DEF AfterPops
<1>3. c.slot = [i \in Slots |-> IF \E j \in 1 .. n : i = At(b, j) THEN Empty ELSE b.slot[i]]
  BY DEF AfterPops
<1> HIDE DEF c
<1>4. At(c, 1) = At(b, n + 1)
  <2>1. c.index = IF b.index + n < Capacity THEN b.index + n ELSE b.index + n - Capacity
    BY <1>1, <1>2, AtWraps
  <2>2. At(b, n + 1) = IF b.index + (n + 1) < Capacity
                       THEN b.index + (n + 1) ELSE b.index + (n + 1) - Capacity
    BY <1>1, AtWraps
  <2>3. c.index \in 0 .. Capacity - 1
    BY <1>1, <2>1
  <2>4. At(c, 1) = IF c.index + 1 < Capacity THEN c.index + 1 ELSE 0
    BY <1>1, <2>3 DEF At
  <2> QED
    BY <1>1, <2>1, <2>2, <2>4
<1>5. [c.slot EXCEPT ![At(b, n + 1)] = Empty]
        = [i \in Slots |-> IF \E j \in 1 .. n + 1 : i = At(b, j) THEN Empty ELSE b.slot[i]]
  <2>1. \A i : (\E j \in 1 .. n + 1 : i = At(b, j))
                 <=> (\E j \in 1 .. n : i = At(b, j)) \/ i = At(b, n + 1)
    BY <1>1
  <2> QED
    BY <1>3, <2>1
<1>6. c.size - 1 = b.size - (n + 1)
  BY <1>1, <1>2
<1> QED
  BY <1>4, <1>5, <1>6 DEF Pop, AfterPops, c

\* The buffers between the pops of one loop, by recursion and without.
LEMMA PopsMeaning ==
  ASSUME NEW b \in Buffer, Capacity > 0,
         NEW g, g = [n \in 0 .. Capacity |-> IF n = 0 THEN b ELSE Pop(g[n - 1])]
  PROVE  \A n \in 0 .. Capacity : g[n] = AfterPops(b, n)
<1> DEFINE S == {n \in Nat : n \in 0 .. Capacity => g[n] = AfterPops(b, n)}
<1>1. 0 \in S
  BY NoPops, CapacityAssumption
<1>2. ASSUME NEW n \in Nat, n \in S PROVE n + 1 \in S
  <2> SUFFICES ASSUME n + 1 \in 0 .. Capacity PROVE g[n + 1] = AfterPops(b, n + 1)
    OBVIOUS
  <2>1. n \in 0 .. Capacity - 1 /\ n \in 0 .. Capacity /\ n + 1 # 0 /\ (n + 1) - 1 = n
    BY CapacityAssumption
  <2>2. g[n + 1] = Pop(g[n])
    BY <2>1
  <2> QED
    BY <1>2, <2>1, <2>2, OneMorePop
<1> HIDE DEF S
<1>3. Nat \subseteq S
  BY <1>1, <1>2, SetInduction
<1>4. \A n \in 0 .. Capacity : n \in Nat
  BY CapacityAssumption
<1> QED
  BY <1>3, <1>4 DEF S

\* The recursion of the loop has a solution.
LEMMA PopsExist ==
  ASSUME NEW b \in Buffer, Capacity > 0
  PROVE  \E g : g = [n \in 0 .. Capacity |-> IF n = 0 THEN b ELSE Pop(g[n - 1])]
<1> DEFINE h == [n \in 0 .. Capacity |-> AfterPops(b, n)]
<1>1. ASSUME NEW n \in 0 .. Capacity
      PROVE  AfterPops(b, n) = IF n = 0 THEN b ELSE Pop(h[n - 1])
  <2>1. CASE n = 0
    BY <2>1, NoPops
  <2>2. CASE n # 0
    <3>1. n - 1 \in 0 .. Capacity - 1 /\ n - 1 \in 0 .. Capacity /\ (n - 1) + 1 = n
      BY <2>2, CapacityAssumption
    <3> QED
      BY <2>2, <3>1, OneMorePop
  <2> QED
    BY <2>1, <2>2
<1>2. h = [n \in 0 .. Capacity |-> IF n = 0 THEN b ELSE Pop(h[n - 1])]
  BY <1>1
<1> HIDE DEF h
<1> QED
  BY <1>2

\* Popping while there is a size leaves what Drain says, wherever the front was.
LEMMA PopsDrain == ring \in Buffer => DrainIsPops
<1> SUFFICES ASSUME ring \in Buffer PROVE DrainIsPops
  OBVIOUS
<1> DEFINE g == CHOOSE f : f = [n \in 0 .. Capacity |-> IF n = 0 THEN ring ELSE Pop(f[n - 1])]
<1>1. SUFFICES Drain(ring) = g[ring.size]
  BY DEF DrainIsPops
<1>2. CASE Capacity > 0
  <2>1. g = [n \in 0 .. Capacity |-> IF n = 0 THEN ring ELSE Pop(g[n - 1])]
    BY <1>2, PopsExist
  <2> HIDE DEF g
  <2>2. ring.size \in 0 .. Capacity
    BY DEF Buffer
  <2>3. g[ring.size] = AfterPops(ring, ring.size)
    BY <1>2, <2>1, <2>2, PopsMeaning
  <2>4. CASE ring.size = 0
    BY <1>2, <2>3, <2>4, NoPops DEF Drain
  <2>5. CASE ring.size # 0
    BY <2>2, <2>3, <2>5, CapacityAssumption DEF Drain, AfterPops
  <2> QED
    BY <2>4, <2>5
<1>3. CASE Capacity = 0
  <2>1. ring.size = 0 /\ 0 .. Capacity = {0}
    BY <1>3 DEF Buffer
  <2>2. \E f : f = [n \in 0 .. Capacity |-> IF n = 0 THEN ring ELSE Pop(f[n - 1])]
    <3>1. [n \in {0} |-> ring] = [n \in {0} |-> IF n = 0 THEN ring ELSE Pop([m \in {0} |-> ring][n - 1])]
      OBVIOUS
    <3> QED
      BY <2>1, <3>1
  <2>3. g = [n \in 0 .. Capacity |-> IF n = 0 THEN ring ELSE Pop(g[n - 1])]
    BY <2>2
  <2> HIDE DEF g
  <2>4. g[0] = ring
    BY <2>1, <2>3
  <2> QED
    BY <2>1, <2>4 DEF Drain
<1> QED
  BY <1>2, <1>3, CapacityAssumption

\* What remove() leaves by popping one packet after the other is what Drain says:
\* the loop ends, and the slots it has erased are those and no others, wherever
\* the index was and however often it wraps on the way (Queue.h, remove and pop),
\* for every capacity.
THEOREM RemovePopsAll == RingSpec => []DrainIsPops
<1>1. RingInv => DrainIsPops
  BY PopsDrain DEF RingInv, RingTypeOK
<1> QED
  BY <1>1, RingInitInv, RingStepInv, PTL DEF RingSpec

-----------------------------------------------------------------------------
(* The extent of the loss, on the sequence                                 *)

LossInv ==
  RingInv /\ (Empty \notin Packets =>
                \A j \in 1 .. Len(backlog) : backlog[j] = Empty <=> j = 1 /\ popped)

\* What the strengthened invariant says of the packets that have lost their bytes.
LEMMA LossMeaning == LossInv => LossIsTheNextPacket
<1> SUFFICES ASSUME LossInv PROVE LossIsTheNextPacket
  OBVIOUS
<1>1. Contents(ring) = backlog /\ Len(backlog) = ring.size
  BY ContentsType DEF LossInv, RingInv, RingTypeOK, RingIsBacklog
<1> QED
  BY <1>1 DEF LossInv, LossIsTheNextPacket

\* push_locked, pop and remove keep the account of what is lost.
LEMMA LossStep == LossInv /\ [RingNext]_ringvars => LossInv'
<1> SUFFICES ASSUME LossInv, [RingNext]_ringvars, Empty \notin Packets
             PROVE  \A j \in 1 .. Len(backlog') :
                      backlog'[j] = Empty <=> j = 1 /\ popped'
  BY RingStepInv DEF LossInv
<1>1. /\ backlog \in Seq(Contained) /\ ring \in Buffer /\ popped \in BOOLEAN
      /\ Len(backlog) = ring.size
  BY ContentsType DEF LossInv, RingInv, RingTypeOK, RingIsBacklog
<1>2. \A j \in 1 .. Len(backlog) : backlog[j] = Empty <=> j = 1 /\ popped
  BY DEF LossInv
<1>3. ASSUME NEW x \in Packets, RingPush(x), NEW j \in 1 .. Len(backlog')
      PROVE  backlog'[j] = Empty <=> j = 1 /\ popped'
  <2>1. backlog' = Append(backlog, x) /\ popped' = (popped /\ ring.size > 0)
    BY <1>3 DEF RingPush
  <2>2. x \in Contained /\ x # Empty
    BY DEF Contained
  <2>3. /\ Len(backlog') = Len(backlog) + 1
        /\ \A i \in 1 .. Len(backlog) : backlog'[i] = backlog[i]
        /\ backlog'[Len(backlog) + 1] = x
        /\ Len(backlog) \in Nat
    BY <1>1, <2>1, <2>2, AppendProperties, LenProperties
  <2>4. CASE j = Len(backlog) + 1
    <3>1. backlog'[j] # Empty
      BY <2>2, <2>3, <2>4
    <3>2. j = 1 => ~(ring.size > 0)
      BY <1>1, <2>3, <2>4
    <3>3. ~(j = 1 /\ popped')
      BY <2>1, <3>2
    <3> QED
      BY <3>1, <3>3
  <2>5. CASE j # Len(backlog) + 1
    <3>1. j \in 1 .. Len(backlog) /\ ring.size > 0
      BY <1>1, <1>3, <2>3, <2>5
    <3> QED
      BY <1>2, <2>1, <2>3, <3>1
  <2> QED
    BY <2>4, <2>5
<1>4. ASSUME RingPop, NEW j \in 1 .. Len(backlog')
      PROVE  backlog'[j] = Empty <=> j = 1 /\ popped'
  <2>1. ring.size > 0 /\ backlog # <<>>
    BY <1>1, <1>4, EmptySeq DEF RingPop
  <2> DEFINE u == Tail(backlog)
  <2>2. /\ u \in Seq(Contained)
        /\ Len(u) = Len(backlog) - 1
        /\ \A i \in 1 .. Len(u) : u[i] = backlog[i + 1]
    BY <1>1, <2>1, HeadTailProperties
  <2>3. Len(backlog) \in Nat
    BY <1>1, LenProperties
  <2>4. backlog' = IF u = <<>> THEN u ELSE [u EXCEPT ![1] = Empty]
    BY <1>4 DEF RingPop, AfterPop, Blank
  <2>5. popped' = (ring.size > 1)
    BY <1>4 DEF RingPop
  <2> HIDE DEF u
  <2>6. CASE u = <<>>
    BY <1>4, <2>4, <2>6, EmptySeq
  <2>7. CASE u # <<>>
    <3>1. Len(u) \in Nat \ {0}
      BY <2>2, <2>7, EmptySeq
    <3>2. 1 \in 1 .. Len(u) /\ Empty \in Contained
      BY <3>1 DEF Contained
    <3>3. /\ Len(backlog') = Len(u)
          /\ \A i \in 1 .. Len(u) : backlog'[i] = IF i = 1 THEN Empty ELSE u[i]
      BY <2>2, <2>4, <2>7, <3>2, ExceptSeq
    <3>4. ring.size > 1
      BY <1>1, <2>2, <2>3, <3>1
    <3>5. j \in 1 .. Len(u) /\ j + 1 \in 1 .. Len(backlog) /\ j + 1 # 1
      BY <1>4, <2>2, <2>3, <3>1, <3>3
    <3>6. u[j] # Empty
      BY <1>2, <2>2, <3>5
    <3> QED
      BY <2>5, <3>3, <3>4, <3>5, <3>6
  <2> QED
    BY <2>6, <2>7
<1>5. ASSUME RingDrain, NEW j \in 1 .. Len(backlog')
      PROVE  backlog'[j] = Empty <=> j = 1 /\ popped'
  BY <1>5, EmptySeq DEF RingDrain
<1>6. CASE UNCHANGED ringvars
  BY <1>2, <1>6 DEF ringvars
<1> QED
  BY <1>3, <1>4, <1>5, <1>6 DEF RingNext

\* When every packet pushed has bytes, the front packet has lost them if and only
\* if another packet was popped before it since the ring was last empty, and the
\* packets behind have theirs (Queue.h:18 and 25, pop), for every capacity.
THEOREM LossIsExact == RingSpec => []LossIsTheNextPacket
<1>1. RingInit => LossInv
  <2>1. RingInit => RingInv
    BY RingInitInv
  <2>2. RingInit => Len(backlog) = 0
    BY EmptySeq DEF RingInit
  <2> QED
    BY <2>1, <2>2 DEF LossInv
<1> QED
  BY <1>1, LossStep, LossMeaning, PTL DEF RingSpec
=============================================================================
