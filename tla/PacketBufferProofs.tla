------------------------- MODULE PacketBufferProofs -------------------------
(***************************************************************************)
(* What the operators of PacketBuffer return, for every capacity.          *)
(***************************************************************************)
EXTENDS PacketBuffer, SequenceTheorems, TLAPS

\* The slot j places behind the front is a slot, when there is one at all
\* (the % capacity of queue/Queue.h, pop and push_locked).
LEMMA AtInSlots ==
  ASSUME Capacity > 0, NEW b \in Buffer, NEW j \in Nat
  PROVE  At(b, j) \in Slots
BY CapacityAssumption DEF At, Slots, Buffer

\* Because an index is a slot, % capacity subtracts the capacity at most once.
LEMMA AtWraps ==
  ASSUME Capacity > 0, NEW b \in Buffer, NEW j \in 0 .. Capacity
  PROVE  At(b, j) = IF b.index + j < Capacity
                    THEN b.index + j ELSE b.index + j - Capacity
<1>1. b.index \in 0 .. Capacity - 1 /\ Capacity \in Nat
  BY CapacityAssumption DEF Buffer, Slots
<1>2. CASE b.index + j < Capacity
  BY <1>1, <1>2 DEF At
<1>3. CASE b.index + j >= Capacity
  <2>1. PICK d \in Nat : d = b.index + j - Capacity /\ d < Capacity
    BY <1>1, <1>3
  <2>2. (d + Capacity) % Capacity = d
    BY <2>1, <1>1
  <2> QED
    BY <1>1, <1>3, <2>1, <2>2 DEF At
<1> QED
  BY <1>1, <1>2, <1>3

\* Two places of a buffer are two slots.
LEMMA AtInjective ==
  ASSUME Capacity > 0, NEW b \in Buffer,
         NEW i \in 0 .. Capacity - 1, NEW j \in 0 .. Capacity - 1,
         At(b, i) = At(b, j)
  PROVE  i = j
<1>1. b.index \in 0 .. Capacity - 1 /\ Capacity \in Nat
  BY CapacityAssumption DEF Buffer, Slots
<1>2. i \in 0 .. Capacity /\ j \in 0 .. Capacity
  BY <1>1
<1> QED
  BY <1>1, <1>2, AtWraps

\* A queue starts with a well-formed buffer (push_locked).
LEMMA NewBufferType == NewBuffer \in Buffer
BY CapacityAssumption DEF NewBuffer, Buffer, Contained, Slots

\* A slot write keeps the buffer well formed while it is not full (push_locked).
LEMMA PutType ==
  ASSUME NEW b \in Buffer, NEW x \in Contained, ~IsFull(b)
  PROVE  Put(b, x) \in Buffer
<1>1. Capacity > 0
  BY CapacityAssumption DEF IsFull, Buffer
<1>2. b.size + 1 \in 0 .. Capacity
  BY CapacityAssumption DEF IsFull, Buffer
<1> QED
  BY <1>1, <1>2 DEF Put, Buffer

\* So does a pop of a buffer with packets, and it yields a packet (pop).
LEMMA PopType ==
  ASSUME NEW b \in Buffer, b.size > 0
  PROVE  Pop(b) \in Buffer /\ Pop(b).size = b.size - 1
<1>1. Capacity > 0
  BY CapacityAssumption DEF Buffer
<1>2. At(b, 1) \in Slots /\ At(b, 1) \in Nat
  BY <1>1, AtInSlots DEF Slots
<1>3. b.size - 1 \in 0 .. Capacity
  BY CapacityAssumption DEF Buffer
<1>4. [b.slot EXCEPT ![At(b, 1)] = Empty] \in [Slots -> Contained]
  BY DEF Buffer, Contained
<1> QED
  BY <1>2, <1>3, <1>4 DEF Pop, Buffer

\* Draining keeps the buffer well formed and leaves no packet (remove).
LEMMA DrainType ==
  ASSUME NEW b \in Buffer
  PROVE  Drain(b) \in Buffer /\ Drain(b).size = 0
<1>1. CASE b.size = 0
  BY <1>1 DEF Drain
<1>2. CASE b.size > 0
  <2>1. Capacity > 0
    BY <1>2, CapacityAssumption DEF Buffer
  <2>2. At(b, b.size) \in Slots
    BY <1>2, <2>1, AtInSlots DEF Buffer
  <2>3. [i \in Slots |-> IF \E j \in 1 .. b.size : i = At(b, j)
                         THEN Empty ELSE b.slot[i]] \in [Slots -> Contained]
    BY DEF Buffer, Contained
  <2> QED
    BY <1>2, <2>1, <2>2, <2>3, CapacityAssumption DEF Drain, Buffer
<1> QED
  BY <1>1, <1>2, CapacityAssumption DEF Buffer

-----------------------------------------------------------------------------
(* The buffer as a sequence                                                *)

\* The view is a sequence with one packet for every place in use.
LEMMA ContentsType ==
  ASSUME NEW b \in Buffer
  PROVE  /\ Contents(b) \in Seq(Contained)
         /\ Len(Contents(b)) = b.size
         /\ \A j \in 1 .. b.size : Contents(b)[j] = b.slot[At(b, j - 1)]
<1>1. ASSUME NEW j \in 1 .. b.size
      PROVE  b.slot[At(b, j - 1)] \in Contained
  <2>1. Capacity > 0 /\ j - 1 \in Nat
    BY CapacityAssumption DEF Buffer
  <2> QED
    BY <2>1, AtInSlots DEF Buffer
<1>2. b.size \in Nat
  BY CapacityAssumption DEF Buffer
<1> QED
  BY <1>1, <1>2 DEF Contents

\* A slot write appends: it does not touch a place in use, wherever the index
\* has wrapped (push_locked).
LEMMA PutAppends ==
  ASSUME NEW b \in Buffer, NEW x \in Contained, ~IsFull(b)
  PROVE  Contents(Put(b, x)) = Append(Contents(b), x)
<1> DEFINE c == Put(b, x)
<1>1. Capacity > 0 /\ Capacity \in Nat /\ b.size \in 0 .. Capacity - 1
  BY CapacityAssumption DEF IsFull, Buffer
<1>2. c \in Buffer /\ c.size = b.size + 1 /\ c.index = b.index
  BY PutType DEF Put, Buffer
<1>3. \A j \in Nat : At(c, j) = At(b, j)
  BY <1>2 DEF At
<1>4. At(b, b.size) \in Slots
  BY <1>1, AtInSlots
<1>5. c.slot = [b.slot EXCEPT ![At(b, b.size)] = x]
  BY DEF Put, Buffer
<1>6. ASSUME NEW j \in 1 .. c.size
      PROVE  c.slot[At(c, j - 1)] = IF j = c.size THEN x ELSE b.slot[At(b, j - 1)]
  <2>1. j - 1 \in 0 .. b.size /\ j - 1 \in Nat /\ j - 1 \in 0 .. Capacity - 1
    BY <1>1, <1>2
  <2>2. At(b, j - 1) \in Slots
    BY <1>1, <2>1, AtInSlots
  <2>3. CASE j = c.size
    <3>1. j - 1 = b.size
      BY <1>1, <1>2, <2>3
    <3> QED
      BY <1>3, <1>4, <1>5, <2>1, <2>3, <3>1 DEF Buffer
  <2>4. CASE j # c.size
    <3>1. j - 1 # b.size
      BY <1>1, <1>2, <2>4
    <3>2. At(b, j - 1) # At(b, b.size)
      BY <1>1, <2>1, <3>1, AtInjective
    <3> QED
      BY <1>3, <1>4, <1>5, <2>1, <2>2, <2>4, <3>2 DEF Buffer
  <2> QED
    BY <2>3, <2>4
<1>7. Contents(c) \in Seq(Contained) /\ Len(Contents(c)) = b.size + 1
  BY <1>2, ContentsType
<1>8. Contents(b) \in Seq(Contained) /\ Len(Contents(b)) = b.size
  BY ContentsType
<1>9. /\ Append(Contents(b), x) \in Seq(Contained)
      /\ Len(Append(Contents(b), x)) = b.size + 1
      /\ \A j \in 1 .. b.size : Append(Contents(b), x)[j] = Contents(b)[j]
      /\ Append(Contents(b), x)[b.size + 1] = x
  BY <1>8, AppendProperties
<1>10. ASSUME NEW j \in 1 .. b.size + 1
       PROVE  Contents(c)[j] = Append(Contents(b), x)[j]
  <2>1. j \in 1 .. c.size
    BY <1>2
  <2>2. Contents(c)[j] = IF j = c.size THEN x ELSE b.slot[At(b, j - 1)]
    BY <1>2, <1>6, <2>1, ContentsType
  <2>3. CASE j = b.size + 1
    BY <1>2, <1>9, <2>2, <2>3
  <2>4. CASE j # b.size + 1
    <3>1. j \in 1 .. b.size
      BY <1>1, <2>4
    <3> QED
      BY <1>2, <1>9, <2>2, <2>4, <3>1, ContentsType
  <2> QED
    BY <2>3, <2>4
<1> QED
  BY <1>7, <1>9, <1>10, SeqEqual

\* A pop drops the first packet and empties the one behind it, and nothing else
\* (pop erases packet_buffer[index] after it has moved the index).
LEMMA PopEmptiesNext ==
  ASSUME NEW b \in Buffer, b.size > 0
  PROVE  Contents(Pop(b)) = AfterPop(Contents(b))
<1> DEFINE c == Pop(b)
           s == Contents(b)
<1>1. Capacity > 0 /\ Capacity \in Nat /\ b.size \in 1 .. Capacity
  BY CapacityAssumption DEF Buffer
<1>2. c \in Buffer /\ c.size = b.size - 1 /\ c.index = At(b, 1)
  BY PopType DEF Pop
<1>3. c.slot = [b.slot EXCEPT ![At(b, 1)] = Empty] /\ At(b, 1) \in Slots
  BY <1>1, AtInSlots DEF Pop
<1>4. ASSUME NEW j \in 0 .. Capacity - 1
      PROVE  At(c, j) = At(b, j + 1)
  <2>1. /\ b.index \in 0 .. Capacity - 1 /\ c.index \in 0 .. Capacity - 1
        /\ 1 \in 0 .. Capacity /\ j \in 0 .. Capacity /\ j + 1 \in 0 .. Capacity
    BY <1>1, <1>2 DEF Buffer, Slots
  <2>2. c.index = IF b.index + 1 < Capacity THEN b.index + 1 ELSE b.index + 1 - Capacity
    BY <1>1, <1>2, <2>1, AtWraps
  <2>3. At(c, j) = IF c.index + j < Capacity THEN c.index + j ELSE c.index + j - Capacity
    BY <1>1, <1>2, <2>1, AtWraps
  <2>4. At(b, j + 1) = IF b.index + (j + 1) < Capacity
                       THEN b.index + (j + 1) ELSE b.index + (j + 1) - Capacity
    BY <1>1, <2>1, AtWraps
  <2> HIDE DEF c
  <2> QED
    BY <1>1, <2>1, <2>2, <2>3, <2>4
<1>5. s \in Seq(Contained) /\ Len(s) = b.size /\ s # <<>>
  BY <1>1, ContentsType
<1>6. /\ Tail(s) \in Seq(Contained)
      /\ Len(Tail(s)) = b.size - 1
      /\ \A j \in 1 .. b.size - 1 : Tail(s)[j] = s[j + 1]
  BY <1>5, HeadTailProperties
<1>7. /\ AfterPop(s) \in Seq(Contained)
      /\ Len(AfterPop(s)) = b.size - 1
      /\ \A j \in 1 .. b.size - 1 :
           AfterPop(s)[j] = IF j = 1 THEN Empty ELSE s[j + 1]
  <2>1. CASE Tail(s) = <<>>
    BY <1>1, <1>6, <2>1 DEF AfterPop, Blank
  <2>2. CASE Tail(s) # <<>>
    <3>1. 1 \in 1 .. Len(Tail(s)) /\ Empty \in Contained
      BY <1>1, <1>6, <2>2, EmptySeq DEF Contained
    <3>2. AfterPop(s) = [Tail(s) EXCEPT ![1] = Empty]
      BY <2>2 DEF AfterPop, Blank
    <3> QED
      <4> DEFINE u == Tail(s)
      <4> u \in Seq(Contained) /\ 1 \in 1 .. Len(u) /\ Empty \in Contained
        BY <1>6, <3>1
      <4>1. AfterPop(s) = [u EXCEPT ![1] = Empty] /\ Len(u) = b.size - 1
        BY <1>6, <3>2
      <4>2. \A j \in 1 .. b.size - 1 : u[j] = s[j + 1]
        BY <1>6
      <4> HIDE DEF u
      <4>3. /\ [u EXCEPT ![1] = Empty] \in Seq(Contained)
            /\ Len([u EXCEPT ![1] = Empty]) = Len(u)
            /\ \A j \in 1 .. Len(u) :
                 [u EXCEPT ![1] = Empty][j] = IF j = 1 THEN Empty ELSE u[j]
        BY ExceptSeq
      <4> QED
        BY <1>1, <4>1, <4>2, <4>3
  <2> QED
    BY <2>1, <2>2
<1>8. Contents(c) \in Seq(Contained) /\ Len(Contents(c)) = b.size - 1
  BY <1>2, ContentsType
<1>9. ASSUME NEW j \in 1 .. b.size - 1
      PROVE  Contents(c)[j] = IF j = 1 THEN Empty ELSE s[j + 1]
  <2>1. /\ j \in 0 .. Capacity - 1 /\ j - 1 \in 0 .. Capacity - 1
        /\ j \in 1 .. c.size /\ j + 1 \in 1 .. b.size
    BY <1>1, <1>2
  <2>2. Contents(c)[j] = c.slot[At(b, j)]
    BY <1>2, <1>4, <2>1, ContentsType
  <2>3. s[j + 1] = b.slot[At(b, j)]
    BY <2>1, ContentsType
  <2>4. At(b, j) \in Slots
    BY <1>1, <2>1, AtInSlots
  <2>5. CASE j = 1
    BY <1>3, <2>2, <2>5 DEF Buffer
  <2>6. CASE j # 1
    <3>1. At(b, j) # At(b, 1)
      BY <1>1, <2>1, <2>6, AtInjective
    <3> QED
      BY <1>3, <2>2, <2>3, <2>4, <2>6, <3>1 DEF Buffer
  <2> QED
    BY <2>5, <2>6
<1> QED
  BY <1>7, <1>8, <1>9, SeqEqual
=============================================================================
