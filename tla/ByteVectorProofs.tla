-------------------------- MODULE ByteVectorProofs --------------------------
(***************************************************************************)
(* The vectors hold what the standard says, on their own and as the        *)
(* packets of the ring, for every size of packet and every capacity.       *)
(*                                                                         *)
(* A vector that holds the bytes s in an array of r cells is one value,    *)
(* Vector(r, s).  The lemmas on the operations say which Vector becomes    *)
(* which; the theorems on the machines follow from them call by call.      *)
(***************************************************************************)
EXTENDS VectorContents, PacketBytes, PacketRingProofs

\* The vector of capacity r that holds s.
VectorCells(r, s) == [i \in 0 .. r - 1 |-> IF i < Len(s) THEN s[i + 1] ELSE Junk]

Vector(r, s) == [rsrv |-> r, size |-> Len(s), cell |-> VectorCells(r, s)]

\* v holds the bytes s.
Holds(v, s) == s \in Seq(Byte) /\ IsVector(v) /\ Bytes(v) = s

\* A sequence of bytes is given by its length and its bytes.
LEMMA ByteSeq ==
  ASSUME NEW s \in Seq(Byte)
  PROVE  /\ Len(s) \in Nat
         /\ \A i \in 1 .. Len(s) : s[i] \in Byte
         /\ \A i \in 0 .. Len(s) - 1 : s[i + 1] \in Byte
         /\ s = [i \in 1 .. Len(s) |-> s[i]]
BY LenProperties

\* Such a vector is well formed and holds s.
LEMMA VectorHolds ==
  ASSUME NEW r \in Nat, NEW s \in Seq(Byte), Len(s) <= r
  PROVE  Holds(Vector(r, s), s)
<1> DEFINE v == Vector(r, s)
<1>1. /\ v.rsrv = r /\ v.size = Len(s)
      /\ v.cell = [i \in 0 .. r - 1 |-> IF i < Len(s) THEN s[i + 1] ELSE Junk]
      /\ v = [rsrv |-> v.rsrv, size |-> v.size, cell |-> v.cell]
  BY DEF Vector, VectorCells
<1>2. v # Broken
  <2>1. "rsrv" \in DOMAIN v /\ "rsrv" \notin DOMAIN Broken
    BY DEF Vector, VectorCells, Broken
  <2> QED
    BY <2>1
<1> HIDE DEF v
<1>3. v.rsrv \in Nat /\ v.size \in 0 .. v.rsrv
  BY <1>1, ByteSeq
<1>4. v.cell \in [0 .. v.rsrv - 1 -> Cell]
  BY <1>1, ByteSeq DEF Cell
<1>5. \A i \in v.size .. v.rsrv - 1 : v.cell[i] = Junk
  BY <1>1, ByteSeq
<1>6. Bytes(v) = s
  <2>1. \A i \in 1 .. Len(s) : v.cell[i - 1] = s[i]
    BY <1>1, ByteSeq
  <2> QED
    BY <1>1, <2>1, ByteSeq DEF Bytes
<1> QED
  BY <1>1, <1>2, <1>3, <1>4, <1>5, <1>6 DEF Holds, IsVector, v

\* And there is no other one.
LEMMA HoldsVector ==
  ASSUME NEW v, NEW s, Holds(v, s)
  PROVE  /\ v.rsrv \in Nat /\ v.size = Len(s) /\ Len(s) \in Nat
         /\ Len(s) <= v.rsrv /\ s \in Seq(Byte)
         /\ v = Vector(v.rsrv, s)
<1>1. /\ s \in Seq(Byte) /\ Bytes(v) = s
      /\ v.rsrv \in Nat /\ v.size \in 0 .. v.rsrv
      /\ v.cell \in [0 .. v.rsrv - 1 -> Cell]
      /\ v = [rsrv |-> v.rsrv, size |-> v.size, cell |-> v.cell]
      /\ \A i \in v.size .. v.rsrv - 1 : v.cell[i] = Junk
  BY DEF Holds, IsVector
<1>2. Len(s) = v.size
  <2>1. DOMAIN s = 1 .. v.size
    BY <1>1 DEF Bytes
  <2> QED
    BY <1>1, <2>1, LenProperties
<1>3. \A i \in 0 .. v.size - 1 : v.cell[i] = s[i + 1]
  <2> TAKE i \in 0 .. v.size - 1
  <2>1. i + 1 \in 1 .. v.size /\ (i + 1) - 1 = i
    BY <1>1
  <2> QED
    BY <1>1, <2>1 DEF Bytes
<1>4. v.cell = [i \in 0 .. v.rsrv - 1 |-> IF i < Len(s) THEN s[i + 1] ELSE Junk]
  BY <1>1, <1>2, <1>3
<1> QED
  BY <1>1, <1>2, <1>4 DEF Vector, VectorCells

\* The parts of such a vector.
LEMMA VectorParts ==
  ASSUME NEW r \in Nat, NEW s \in Seq(Byte), Len(s) <= r
  PROVE  /\ Vector(r, s).rsrv = r /\ Vector(r, s).size = Len(s)
         /\ Vector(r, s).cell = [i \in 0 .. r - 1 |-> IF i < Len(s) THEN s[i + 1] ELSE Junk]
         /\ Bytes(Vector(r, s)) = s
BY VectorHolds DEF Vector, VectorCells, Holds

-----------------------------------------------------------------------------
(* What the steps of an operation do to the array                          *)

\* The cells c with the bytes t written to them, with n of them moved, and with
\* all but the first n forgotten.
WrittenCells(c, at, t) ==
  [i \in DOMAIN c |-> IF i \in at .. at + Len(t) - 1 THEN t[i - at + 1] ELSE c[i]]

ShiftedCells(c, to, from, n) ==
  [i \in DOMAIN c |-> IF i \in to .. to + n - 1 THEN c[from + i - to] ELSE c[i]]

SizedCells(c, n) == [i \in DOMAIN c |-> IF i < n THEN c[i] ELSE Junk]

\* Writing bytes changes the cells it names.
LEMMA WrittenIs ==
  ASSUME NEW r, NEW z, NEW c, NEW at, NEW t
  PROVE  Written([rsrv |-> r, size |-> z, cell |-> c], at, t)
           = [rsrv |-> r, size |-> z, cell |-> WrittenCells(c, at, t)]
<1> DEFINE v == [rsrv |-> r, size |-> z, cell |-> c]
           d == WrittenCells(c, at, t)
           e == [i \in DOMAIN v.cell |->
                   IF i \in at .. at + Len(t) - 1 THEN t[i - at + 1] ELSE v.cell[i]]
<1>1. Written(v, at, t) = [v EXCEPT !.cell = e]
  BY DEF Written
<1>2. v.cell = c
  OBVIOUS
<1>3. e = d
  <2> HIDE DEF v
  <2> QED
    BY <1>2 DEF WrittenCells
<1> HIDE DEF d, e
<1>4. [v EXCEPT !.cell = d] = [rsrv |-> r, size |-> z, cell |-> d]
  OBVIOUS
<1> HIDE DEF v
<1> QED
  BY <1>1, <1>3, <1>4 DEF v, d

\* memmove changes the cells it moves to.
LEMMA ShiftedIs ==
  ASSUME NEW r, NEW z, NEW c, NEW to, NEW from, NEW n
  PROVE  Shifted([rsrv |-> r, size |-> z, cell |-> c], to, from, n)
           = [rsrv |-> r, size |-> z, cell |-> ShiftedCells(c, to, from, n)]
<1> DEFINE v == [rsrv |-> r, size |-> z, cell |-> c]
           d == ShiftedCells(c, to, from, n)
           e == [i \in DOMAIN v.cell |->
                   IF i \in to .. to + n - 1 THEN v.cell[from + i - to] ELSE v.cell[i]]
<1>1. Shifted(v, to, from, n) = [v EXCEPT !.cell = e]
  BY DEF Shifted
<1>2. v.cell = c
  OBVIOUS
<1>3. e = d
  <2> HIDE DEF v
  <2> QED
    BY <1>2 DEF ShiftedCells
<1> HIDE DEF d, e
<1>4. [v EXCEPT !.cell = d] = [rsrv |-> r, size |-> z, cell |-> d]
  OBVIOUS
<1> HIDE DEF v
<1> QED
  BY <1>1, <1>3, <1>4 DEF v, d

\* Setting the size changes the size, and which cells are told apart.
LEMMA SizedIs ==
  ASSUME NEW r, NEW z, NEW c, NEW n
  PROVE  Sized([rsrv |-> r, size |-> z, cell |-> c], n)
           = [rsrv |-> r, size |-> n, cell |-> SizedCells(c, n)]
<1> DEFINE v == [rsrv |-> r, size |-> z, cell |-> c]
           d == SizedCells(c, n)
           e == [i \in DOMAIN v.cell |-> IF i < n THEN v.cell[i] ELSE Junk]
<1>1. Sized(v, n) = [v EXCEPT !.size = n, !.cell = e]
  BY DEF Sized
<1>2. v.cell = c
  OBVIOUS
<1>3. e = d
  <2> HIDE DEF v
  <2> QED
    BY <1>2 DEF SizedCells
<1> HIDE DEF d, e
<1>4. [v EXCEPT !.size = n] = [rsrv |-> r, size |-> n, cell |-> c]
  OBVIOUS
<1>5. [[rsrv |-> r, size |-> n, cell |-> c] EXCEPT !.cell = d]
        = [rsrv |-> r, size |-> n, cell |-> d]
  OBVIOUS
<1> HIDE DEF v
<1> QED
  BY <1>1, <1>3, <1>4, <1>5 DEF v, d

\* Another array of n cells takes the bytes over, as far as it has room.
LEMMA ReallocatedHolds ==
  ASSUME NEW r \in Nat, NEW s \in Seq(Byte), Len(s) <= r, NEW n \in Nat, Len(s) <= n
  PROVE  Reallocated(Vector(r, s), n) = Vector(n, s)
<1>1. Len(s) \in Nat
  BY ByteSeq
<1>2. \A i \in 0 .. n - 1 : i < Len(s) => i \in 0 .. r - 1
  BY <1>1
<1> DEFINE v == Vector(r, s)
<1>3. /\ v.size = Len(s)
      /\ v.cell = [i \in 0 .. r - 1 |-> IF i < Len(s) THEN s[i + 1] ELSE Junk]
  BY VectorParts
<1> HIDE DEF v
<1>4. \A i \in 0 .. n - 1 : i < Len(s) => v.cell[i] = s[i + 1]
  BY <1>2, <1>3
<1>5. [i \in 0 .. n - 1 |-> IF i < v.size THEN v.cell[i] ELSE Junk]
        = [i \in 0 .. n - 1 |-> IF i < Len(s) THEN s[i + 1] ELSE Junk]
  BY <1>3, <1>4
<1>6. Reallocated(v, n) = Vector(n, s)
  BY <1>3, <1>5 DEF Reallocated, Vector, VectorCells
<1> QED
  BY <1>6 DEF v

\* Four times max_size() is not cut off.
LEMMA QuadrupledGrows ==
  ASSUME NEW n \in 0 .. MaxSize
  PROVE  Quadrupled(n) = 4 * n /\ Quadrupled(n) \in Nat /\ n <= Quadrupled(n)
<1>1. n \in Nat /\ MaxSize \in Nat /\ Modulus \in Nat /\ 4 * n < Modulus
  BY VectorAssumption
<1>2. (4 * n) % Modulus = 4 * n
  BY <1>1
<1> QED
  BY <1>1, <1>2 DEF Quadrupled

\* A smaller size keeps the bytes before it.
LEMMA SizedHolds ==
  ASSUME NEW r \in Nat, NEW s \in Seq(Byte), Len(s) <= r,
         NEW u \in Seq(Byte), Len(u) <= Len(s), \A i \in 1 .. Len(u) : u[i] = s[i]
  PROVE  Sized(Vector(r, s), Len(u)) = Vector(r, u)
<1>1. Len(s) \in Nat /\ Len(u) \in Nat
  BY ByteSeq
<1>2. SizedCells(VectorCells(r, s), Len(u)) = VectorCells(r, u)
  <2>1. ASSUME NEW i \in 0 .. r - 1, i < Len(u)
        PROVE  i < Len(s) /\ s[i + 1] = u[i + 1]
    <3>1. i + 1 \in 1 .. Len(u)
      BY <1>1, <2>1
    <3> QED
      BY <1>1, <2>1, <3>1
  <2> QED
    BY <2>1 DEF SizedCells, VectorCells
<1> QED
  BY <1>2, SizedIs DEF Vector

\* u is what stands in the cells c once the bytes t are written at position at.
Overlaid(u, at, t, c) ==
  \A i \in 0 .. Len(u) - 1 :
    /\ i \in at .. at + Len(t) - 1 => u[i + 1] = t[i - at + 1]
    /\ i \notin at .. at + Len(t) - 1 => u[i + 1] = c[i]

\* Bytes written from a position on, over an array with the cells c, leave the
\* vector that has them there and the cells elsewhere.
LEMMA StoredHolds ==
  ASSUME NEW r \in Nat, NEW z \in 0 .. r, NEW c, DOMAIN c = 0 .. r - 1,
         NEW at \in Nat, NEW t \in Seq(Byte), at + Len(t) <= r,
         NEW u \in Seq(Byte), Len(u) <= r, Overlaid(u, at, t, c)
  PROVE  Stored([rsrv |-> r, size |-> z, cell |-> c], at, t, Len(u)) = Vector(r, u)
<1> DEFINE v == [rsrv |-> r, size |-> z, cell |-> c]
           d == WrittenCells(c, at, t)
<1>1. Len(u) \in Nat /\ Len(t) \in Nat
  BY ByteSeq
<1>2. SizedCells(d, Len(u)) = VectorCells(r, u)
  <2>1. DOMAIN d = 0 .. r - 1
    BY DEF WrittenCells
  <2>2. ASSUME NEW i \in 0 .. r - 1, i < Len(u)
        PROVE  d[i] = u[i + 1]
    BY <1>1, <2>2 DEF WrittenCells, Overlaid
  <2> HIDE DEF d
  <2> QED
    BY <2>1, <2>2 DEF SizedCells, VectorCells
<1>3. Stored(v, at, t, Len(u)) = Sized(Written(v, at, t), Len(u))
  BY DEF Stored
<1>4. Written(v, at, t) = [rsrv |-> r, size |-> z, cell |-> d]
  BY WrittenIs
<1>5. Sized([rsrv |-> r, size |-> z, cell |-> d], Len(u))
        = [rsrv |-> r, size |-> Len(u), cell |-> SizedCells(d, Len(u))]
  BY SizedIs
<1> HIDE DEF v, d
<1>6. Stored(v, at, t, Len(u)) = Vector(r, u)
  BY <1>2, <1>3, <1>4, <1>5 DEF Vector
<1> QED
  BY <1>6 DEF v

\* The same over an array that holds s, of which u takes nothing behind the end.
OverlaidOn(u, at, t, s) ==
  \A i \in 0 .. Len(u) - 1 :
    /\ i \in at .. at + Len(t) - 1 => u[i + 1] = t[i - at + 1]
    /\ i \notin at .. at + Len(t) - 1 => i < Len(s) /\ u[i + 1] = s[i + 1]

\* The vector that bytes written over one that holds s leave.
LEMMA StoredOver ==
  ASSUME NEW r \in Nat, NEW s \in Seq(Byte), Len(s) <= r,
         NEW at \in Nat, NEW t \in Seq(Byte), at + Len(t) <= r,
         NEW u \in Seq(Byte), Len(u) <= r, OverlaidOn(u, at, t, s)
  PROVE  Stored(Vector(r, s), at, t, Len(u)) = Vector(r, u)
<1> DEFINE c == VectorCells(r, s)
<1>1. Len(s) \in 0 .. r /\ Len(u) \in Nat /\ DOMAIN c = 0 .. r - 1
  BY ByteSeq DEF VectorCells
<1>2. ASSUME NEW i \in 0 .. Len(u) - 1, i < Len(s)
      PROVE  c[i] = s[i + 1]
  <2>1. i \in 0 .. r - 1
    BY <1>1
  <2> QED
    BY <1>2, <2>1 DEF VectorCells
<1> HIDE DEF c
<1>3. Overlaid(u, at, t, c)
  BY <1>2 DEF Overlaid, OverlaidOn
<1>4. Stored([rsrv |-> r, size |-> Len(s), cell |-> c], at, t, Len(u)) = Vector(r, u)
  <2> DEFINE z == Len(s)
  <2>1. z \in 0 .. r /\ DOMAIN c = 0 .. r - 1
    BY <1>1
  <2> HIDE DEF z
  <2>2. Stored([rsrv |-> r, size |-> z, cell |-> c], at, t, Len(u)) = Vector(r, u)
    BY <1>3, <2>1, StoredHolds
  <2> QED
    BY <2>2 DEF z
<1> QED
  BY <1>4 DEF Vector, c

\* A sequence of bytes given byte by byte.
LEMMA IsByteSeq ==
  ASSUME NEW n \in Nat, NEW u, u = [i \in 1 .. n |-> u[i]],
         \A i \in 1 .. n : u[i] \in Byte
  PROVE  u \in Seq(Byte) /\ Len(u) = n
OBVIOUS

\* The first bytes of a sequence.
LEMMA PrefixIs ==
  ASSUME NEW s \in Seq(Byte), NEW k \in 0 .. Len(s)
  PROVE  /\ SubSeq(s, 1, k) \in Seq(Byte) /\ Len(SubSeq(s, 1, k)) = k
         /\ \A i \in 1 .. k : SubSeq(s, 1, k)[i] = s[i]
<1>1. 1 \in Int /\ k \in Int /\ \A i \in 1 .. k : s[i] \in Byte
  BY ByteSeq
<1>2. /\ SubSeq(s, 1, k) \in Seq(Byte)
      /\ Len(SubSeq(s, 1, k)) = IF 1 <= k THEN k - 1 + 1 ELSE 0
      /\ \A i \in 1 .. k - 1 + 1 : SubSeq(s, 1, k)[i] = s[1 + i - 1]
  BY <1>1, SubSeqProperties
<1> QED
  BY <1>1, <1>2

\* What stands where in a sequence with a part replaced.
LEMMA SplicedIs ==
  ASSUME NEW s \in Seq(Byte), NEW t \in Seq(Byte),
         NEW b \in 0 .. Len(s), NEW a \in 0 .. b
  PROVE  LET u == Spliced(s, a, b, t)
         IN  /\ u \in Seq(Byte) /\ Len(u) = a + Len(t) + (Len(s) - b)
             /\ \A i \in 1 .. Len(u) :
                  u[i] = IF i <= a THEN s[i]
                         ELSE IF i <= a + Len(t) THEN t[i - a]
                         ELSE s[i - a - Len(t) + b]
<1> DEFINE p == SubSeq(s, 1, a)
           q == SubSeq(s, b + 1, Len(s))
           u == (p \o t) \o q
<1>1. Len(s) \in Nat /\ Len(t) \in Nat /\ a \in 0 .. Len(s)
  BY ByteSeq
<1>2. p \in Seq(Byte) /\ Len(p) = a /\ \A i \in 1 .. a : p[i] = s[i]
  BY <1>1, PrefixIs
<1>3. /\ q \in Seq(Byte) /\ Len(q) = Len(s) - b
      /\ \A i \in 1 .. Len(s) - b : q[i] = s[i + b]
  <2> HIDE DEF p
  <2>1. /\ b + 1 \in Int /\ Len(s) \in Int
        /\ \A i \in b + 1 .. Len(s) : s[i] \in Byte
    BY <1>1, ByteSeq
  <2>2. /\ q \in Seq(Byte)
        /\ Len(q) = IF b + 1 <= Len(s) THEN Len(s) - (b + 1) + 1 ELSE 0
        /\ \A i \in 1 .. Len(s) - (b + 1) + 1 : q[i] = s[b + 1 + i - 1]
    BY <2>1, SubSeqProperties
  <2> HIDE DEF q
  <2>3. ASSUME NEW i \in 1 .. Len(s) - b PROVE q[i] = s[i + b]
    <3>1. i \in 1 .. Len(s) - (b + 1) + 1 /\ b + 1 + i - 1 = i + b
      BY <1>1
    <3> QED
      BY <2>2, <3>1
  <2>4. (IF b + 1 <= Len(s) THEN Len(s) - (b + 1) + 1 ELSE 0) = Len(s) - b
    BY <1>1
  <2> QED
    BY <2>2, <2>3, <2>4
<1> HIDE DEF p, q
<1>4. /\ p \o t \in Seq(Byte) /\ Len(p \o t) = a + Len(t)
      /\ \A i \in 1 .. a + Len(t) : (p \o t)[i] = IF i <= a THEN p[i] ELSE t[i - a]
  BY <1>2, ConcatProperties
<1>5. /\ u \in Seq(Byte) /\ Len(u) = a + Len(t) + (Len(s) - b)
      /\ \A i \in 1 .. a + Len(t) + (Len(s) - b) :
           u[i] = IF i <= a + Len(t) THEN (p \o t)[i] ELSE q[i - (a + Len(t))]
  <2> DEFINE w == p \o t
  <2>1. w \in Seq(Byte) /\ Len(w) = a + Len(t)
    BY <1>4
  <2>3. q \in Seq(Byte)
    BY <1>3
  <2> HIDE DEF w
  <2>2. /\ w \o q \in Seq(Byte) /\ Len(w \o q) = Len(w) + Len(q)
        /\ \A i \in 1 .. Len(w) + Len(q) :
             (w \o q)[i] = IF i <= Len(w) THEN w[i] ELSE q[i - Len(w)]
    BY <2>1, <2>3, ConcatProperties
  <2> QED
    BY <1>3, <2>1, <2>2 DEF w
<1> HIDE DEF u
<1>6. ASSUME NEW i \in 1 .. Len(u)
      PROVE  u[i] = IF i <= a THEN s[i]
                    ELSE IF i <= a + Len(t) THEN t[i - a]
                    ELSE s[i - a - Len(t) + b]
  <2>1. CASE i <= a
    <3>1. i \in 1 .. a /\ i <= a + Len(t) /\ i \in 1 .. a + Len(t)
      BY <1>1, <2>1
    <3>2. u[i] = (p \o t)[i] /\ (p \o t)[i] = p[i] /\ p[i] = s[i]
      BY <1>2, <1>4, <1>5, <2>1, <3>1
    <3> QED
      BY <2>1, <3>2
  <2>2. CASE a < i /\ i <= a + Len(t)
    <3>1. i \in 1 .. a + Len(t) /\ ~(i <= a)
      BY <1>1, <2>2
    <3>2. u[i] = (p \o t)[i] /\ (p \o t)[i] = t[i - a]
      BY <1>4, <1>5, <2>2, <3>1
    <3> QED
      BY <2>2, <3>1, <3>2
  <2>3. CASE a + Len(t) < i
    <3>1. /\ i - (a + Len(t)) \in 1 .. Len(s) - b /\ ~(i <= a) /\ ~(i <= a + Len(t))
          /\ i - (a + Len(t)) + b = i - a - Len(t) + b
      BY <1>1, <1>5, <2>3
    <3>2. u[i] = q[i - (a + Len(t))]
      BY <1>5, <3>1
    <3>3. q[i - (a + Len(t))] = s[i - a - Len(t) + b]
      BY <1>3, <3>1
    <3> QED
      BY <3>1, <3>2, <3>3
  <2>4. i <= a \/ (a < i /\ i <= a + Len(t)) \/ a + Len(t) < i
    BY <1>1, <1>5
  <2> QED
    BY <2>1, <2>2, <2>3, <2>4
<1>7. u = Spliced(s, a, b, t)
  BY DEF u, p, q, Spliced
<1> QED
  BY <1>5, <1>6, <1>7

-----------------------------------------------------------------------------
(* The operations                                                          *)

\* A new array holds nothing.
LEMMA AllocatedIs ==
  ASSUME NEW n \in Nat
  PROVE  Allocated(n) = Vector(n, <<>>) /\ <<>> \in Seq(Byte) /\ Len(<<>>) = 0
<1>1. <<>> \in Seq(Byte) /\ Len(<<>>) = 0
  BY EmptySeq
<1>2. [i \in 0 .. n - 1 |-> Junk] = VectorCells(n, <<>>)
  BY <1>1 DEF VectorCells
<1> QED
  BY <1>1, <1>2 DEF Allocated, Vector

\* vector() holds nothing.
LEMMA DefaultHolds == Holds(Default, <<>>)
<1> DEFINE e == <<>>
<1>1. Default = Vector(4, e) /\ e \in Seq(Byte) /\ Len(e) <= 4
  BY AllocatedIs DEF Default
<1> HIDE DEF e
<1>2. Holds(Default, e)
  BY <1>1, VectorHolds
<1> QED
  BY <1>2 DEF e

\* Bytes stored from the front replace all that an array has held.
LEMMA StoredAll ==
  ASSUME NEW r \in Nat, NEW s \in Seq(Byte), Len(s) <= r,
         NEW t \in Seq(Byte), Len(t) <= r
  PROVE  Stored(Vector(r, s), 0, t, Len(t)) = Vector(r, t)
<1>1. Len(t) \in Nat /\ 0 + Len(t) <= r
  BY ByteSeq
<1>2. OverlaidOn(t, 0, t, s)
  BY <1>1 DEF OverlaidOn
<1> QED
  BY <1>1, <1>2, StoredOver

\* So they do in a new array.
LEMMA StoredAnew ==
  ASSUME NEW r \in Nat, NEW t \in Seq(Byte), Len(t) <= r
  PROVE  Stored(Allocated(r), 0, t, Len(t)) = Vector(r, t)
<1> DEFINE e == <<>>
<1>1. Allocated(r) = Vector(r, e) /\ e \in Seq(Byte) /\ Len(e) <= r
  BY AllocatedIs
<1> HIDE DEF e
<1> QED
  BY <1>1, StoredAll

\* Room for n bytes is there after it was made, if it is not more than there is
\* already or than max_size(), and what the vector holds stays.
LEMMA RoomyHolds ==
  ASSUME NEW v, NEW s, Holds(v, s), NEW n \in Nat, n <= v.rsrv \/ n <= MaxSize
  PROVE  \E r \in Nat : n <= r /\ Len(s) <= r /\ Roomy(v, n) = Vector(r, s)
<1>1. /\ v.rsrv \in Nat /\ Len(s) \in Nat /\ Len(s) <= v.rsrv /\ s \in Seq(Byte)
      /\ v = Vector(v.rsrv, s)
  BY HoldsVector
<1>2. CASE n > v.rsrv
  <2>1. n \in 0 .. MaxSize
    BY <1>1, <1>2
  <2>2. Quadrupled(n) \in Nat /\ n <= Quadrupled(n) /\ Len(s) <= Quadrupled(n)
    BY <1>1, <1>2, <2>1, QuadrupledGrows
  <2>3. Roomy(v, n) = Vector(Quadrupled(n), s)
    BY <1>1, <1>2, <2>2, ReallocatedHolds DEF Roomy
  <2> QED
    BY <2>2, <2>3
<1>3. CASE ~(n > v.rsrv)
  BY <1>1, <1>3 DEF Roomy
<1> QED
  BY <1>2, <1>3

\* Room for one more byte is there after it was made, unless the capacity is zero
\* or beyond max_size(); while there is room, nothing is reallocated.
LEMMA StretchedHolds ==
  ASSUME NEW v, NEW s, Holds(v, s), CanStretch(v)
  PROVE  /\ \E r \in Nat : Len(s) + 1 <= r /\ Stretched(v) = Vector(r, s)
         /\ v.size < v.rsrv => Stretched(v) = v
<1>1. /\ v.rsrv \in Nat /\ v.size = Len(s) /\ Len(s) \in Nat /\ Len(s) <= v.rsrv
      /\ s \in Seq(Byte) /\ v = Vector(v.rsrv, s)
  BY HoldsVector
<1>2. CASE v.size = v.rsrv
  <2>1. v.rsrv \in 0 .. MaxSize /\ v.rsrv > 0
    BY <1>1, <1>2, VectorAssumption DEF CanStretch
  <2>2. /\ Quadrupled(v.rsrv) = 4 * v.rsrv /\ Quadrupled(v.rsrv) \in Nat
        /\ v.rsrv <= Quadrupled(v.rsrv)
    BY <2>1, QuadrupledGrows
  <2>3. Len(s) + 1 <= Quadrupled(v.rsrv) /\ Len(s) <= Quadrupled(v.rsrv)
    BY <1>1, <1>2, <2>1, <2>2
  <2>4. Stretched(v) = Vector(Quadrupled(v.rsrv), s)
    BY <1>1, <1>2, <2>2, <2>3, ReallocatedHolds DEF Stretched
  <2> QED
    BY <1>1, <1>2, <2>2, <2>3, <2>4
<1>3. CASE v.size # v.rsrv
  BY <1>1, <1>3 DEF Stretched
<1> QED
  BY <1>2, <1>3

\* The constructors from bytes hold them.
LEMMA ConstructedHolds ==
  ASSUME NEW t \in Seq(Byte), Len(t) <= MaxSize
  PROVE  Holds(Constructed(t), t)
<1> DEFINE r == Quadrupled(Len(t))
<1>1. Len(t) \in 0 .. MaxSize
  BY ByteSeq, VectorAssumption
<1>2. r \in Nat /\ Len(t) <= r
  BY <1>1, QuadrupledGrows
<1>3. Constructed(t) = Stored(Allocated(r), 0, t, Len(t))
  BY DEF Constructed
<1> HIDE DEF r
<1> QED
  BY <1>2, <1>3, StoredAnew, VectorHolds

\* So does a vector assigned bytes, whatever it has held before.
LEMMA AssignedHolds ==
  ASSUME NEW v, NEW s, Holds(v, s),
         NEW t \in Seq(Byte), Len(t) <= v.rsrv \/ Len(t) <= MaxSize
  PROVE  Holds(Assigned(v, t), t)
<1>1. s \in Seq(Byte) /\ Len(t) \in Nat
  BY HoldsVector, ByteSeq
<1>2. PICK r \in Nat : Len(t) <= r /\ Len(s) <= r /\ Roomy(v, Len(t)) = Vector(r, s)
  BY <1>1, RoomyHolds
<1>3. Stored(Vector(r, s), 0, t, Len(t)) = Vector(r, t)
  BY <1>1, <1>2, StoredAll
<1> QED
  BY <1>2, <1>3, VectorHolds DEF Assigned

\* assign from a list holds the list when it is as long as the vector.
LEMMA AssignedListHolds ==
  ASSUME NEW v, NEW s, Holds(v, s), NEW t \in Seq(Byte), Len(t) = Len(s)
  PROVE  Holds(AssignedList(v, t), t)
<1>1. v.size = Len(t) /\ v.rsrv \in Nat /\ Len(t) <= v.rsrv
  BY HoldsVector
<1>2. AssignedList(v, t) = Assigned(v, t)
  BY <1>1 DEF AssignedList, Assigned
<1> QED
  BY <1>1, <1>2, AssignedHolds

\* The copy and the move constructor copy what the vector holds.
LEMMA CopiedHolds ==
  ASSUME NEW v, NEW s, Holds(v, s)
  PROVE  Holds(Copied(v), s)
<1>1. /\ v.rsrv \in Nat /\ v.size = Len(s) /\ Len(s) \in Nat /\ Len(s) <= v.rsrv
      /\ s \in Seq(Byte) /\ Bytes(v) = s
  BY HoldsVector DEF Holds
<1>2. PICK r : r = v.rsrv
  OBVIOUS
<1>3. Copied(v) = Stored(Allocated(r), 0, s, Len(s))
  BY <1>1, <1>2 DEF Copied
<1> QED
  BY <1>1, <1>2, <1>3, StoredAnew, VectorHolds

\* A smaller size keeps the bytes before it: pop_back, clear, resize downwards.
LEMMA SizedDown ==
  ASSUME NEW v, NEW s, Holds(v, s),
         NEW u \in Seq(Byte), Len(u) <= Len(s), \A i \in 1 .. Len(u) : u[i] = s[i]
  PROVE  Holds(Sized(v, Len(u)), u)
<1>1. /\ v.rsrv \in Nat /\ Len(s) \in Nat /\ Len(s) <= v.rsrv /\ s \in Seq(Byte)
      /\ v = Vector(v.rsrv, s)
  BY HoldsVector
<1>2. PICK r \in Nat : r = v.rsrv
  BY <1>1
<1>3. Sized(Vector(r, s), Len(u)) = Vector(r, u)
  BY <1>1, <1>2, SizedHolds
<1>4. Len(u) <= r
  BY <1>1, <1>2, ByteSeq
<1> QED
  BY <1>1, <1>2, <1>3, <1>4, VectorHolds

\* Capacity asked for, or given back, takes no byte away: reserve, shrink_to_fit.
LEMMA CapacityHolds ==
  ASSUME NEW v, NEW s, Holds(v, s), NEW k \in Nat
  PROVE  Holds(Reserved(v, k), s) /\ Holds(Shrunk(v), s)
<1>1. /\ v.rsrv \in Nat /\ v.size = Len(s) /\ Len(s) \in Nat /\ Len(s) <= v.rsrv
      /\ s \in Seq(Byte) /\ v = Vector(v.rsrv, s)
  BY HoldsVector
<1>2. ASSUME NEW n \in Nat, Len(s) <= n
      PROVE  Holds(Reallocated(v, n), s)
  <2>1. Reallocated(v, n) = Vector(n, s)
    BY <1>1, <1>2, ReallocatedHolds
  <2> QED
    BY <1>1, <1>2, <2>1, VectorHolds
<1>3. Holds(Shrunk(v), s)
  BY <1>1, <1>2 DEF Shrunk
<1>4. CASE k > v.rsrv
  BY <1>1, <1>2, <1>3, <1>4 DEF Reserved
<1>5. CASE ~(k > v.rsrv)
  BY <1>3, <1>5 DEF Reserved
<1> QED
  BY <1>1, <1>4, <1>5

\* resize with a value: the bytes there were and that value behind them.
LEMMA ResizedWithHolds ==
  ASSUME NEW v, NEW s, Holds(v, s), NEW k \in Nat, NEW x \in Byte
  PROVE  Holds(ResizedWith(v, k, x),
               [i \in 1 .. k |-> IF i <= Len(s) THEN s[i] ELSE x])
<1> DEFINE u == [i \in 1 .. k |-> IF i <= Len(s) THEN s[i] ELSE x]
           t == [i \in 1 .. k - Len(s) |-> x]
           w == IF k > v.rsrv THEN Reallocated(v, k) ELSE v
<1>1. /\ v.rsrv \in Nat /\ v.size = Len(s) /\ Len(s) \in Nat /\ Len(s) <= v.rsrv
      /\ s \in Seq(Byte) /\ v = Vector(v.rsrv, s)
  BY HoldsVector
<1>2. u \in Seq(Byte) /\ Len(u) = k
  <2>1. \A i \in 1 .. k : u[i] \in Byte
    BY <1>1, ByteSeq
  <2>2. u = [i \in 1 .. k |-> u[i]]
    OBVIOUS
  <2> HIDE DEF u
  <2> QED
    BY <2>1, <2>2, IsByteSeq
<1>3. \A i \in 1 .. k : u[i] = IF i <= Len(s) THEN s[i] ELSE x
  OBVIOUS
<1>4. CASE k > Len(s)
  <2>1. /\ t \in Seq(Byte) /\ Len(t) = k - Len(s)
        /\ \A i \in 1 .. k - Len(s) : t[i] = x
    <3>1. k - Len(s) \in Nat /\ \A i \in 1 .. k - Len(s) : t[i] = x
      BY <1>1, <1>4
    <3>2. t = [i \in 1 .. k - Len(s) |-> t[i]]
      OBVIOUS
    <3> HIDE DEF t
    <3> QED
      BY <3>1, <3>2, IsByteSeq
  <2>2. \E r \in Nat : k <= r /\ Len(s) <= r /\ w = Vector(r, s)
    <3>1. CASE k > v.rsrv
      <4>1. Reallocated(v, k) = Vector(k, s)
        BY <1>1, <1>4, ReallocatedHolds
      <4> QED
        BY <1>4, <3>1, <4>1
    <3>2. CASE ~(k > v.rsrv)
      BY <1>1, <3>2
    <3> QED
      BY <3>1, <3>2
  <2>3. PICK r \in Nat : k <= r /\ Len(s) <= r /\ w = Vector(r, s)
    BY <2>2
  <2>4. ResizedWith(v, k, x) = Stored(w, Len(s), t, k)
    BY <1>1, <1>4 DEF ResizedWith
  <2> HIDE DEF u, t, w
  <2>5. Stored(Vector(r, s), Len(s), t, Len(u)) = Vector(r, u)
    <3>1. Len(s) + Len(t) <= r /\ Len(u) <= r
      BY <1>1, <1>2, <2>1, <2>3
    <3>2. ASSUME NEW i \in 0 .. Len(u) - 1
          PROVE  /\ i \in Len(s) .. Len(s) + Len(t) - 1 => u[i + 1] = t[i - Len(s) + 1]
                 /\ i \notin Len(s) .. Len(s) + Len(t) - 1
                      => i < Len(s) /\ u[i + 1] = s[i + 1]
      <4>1. i + 1 \in 1 .. k /\ i \in 0 .. k - 1
        BY <1>2
      <4>2. CASE i < Len(s)
        BY <1>1, <1>3, <4>1, <4>2
      <4>3. CASE i >= Len(s)
        <5>1. i - Len(s) + 1 \in 1 .. k - Len(s) /\ ~(i + 1 <= Len(s))
              /\ i \in Len(s) .. Len(s) + Len(t) - 1
          BY <1>1, <2>1, <4>1, <4>3
        <5> QED
          BY <1>3, <2>1, <4>1, <5>1
      <4> QED
        BY <1>1, <4>1, <4>2, <4>3
    <3>3. OverlaidOn(u, Len(s), t, s)
      BY <3>2 DEF OverlaidOn
    <3> QED
      BY <1>1, <1>2, <2>1, <2>3, <3>1, <3>3, StoredOver
  <2> QED
    BY <1>2, <2>3, <2>4, <2>5, VectorHolds DEF u
<1>5. CASE ~(k > Len(s))
  <2>1. ResizedWith(v, k, x) = Sized(v, k)
    BY <1>1, <1>5 DEF ResizedWith
  <2>2. Len(u) <= Len(s) /\ \A i \in 1 .. Len(u) : u[i] = s[i]
    BY <1>1, <1>2, <1>3, <1>5
  <2> HIDE DEF u
  <2>3. Holds(Sized(v, Len(u)), u)
    BY <1>2, <2>2, SizedDown
  <2> QED
    BY <1>2, <2>1, <2>3 DEF u
<1> QED
  BY <1>4, <1>5

\* push_back appends.
LEMMA PushedBackHolds ==
  ASSUME NEW v, NEW s, Holds(v, s), CanStretch(v), NEW x \in Byte
  PROVE  Holds(PushedBack(v, x), Append(s, x))
<1> DEFINE u == Append(s, x)
           t == <<x>>
<1>1. v.size = Len(s) /\ Len(s) \in Nat /\ s \in Seq(Byte)
  BY HoldsVector
<1>2. PICK r \in Nat : Len(s) + 1 <= r /\ Stretched(v) = Vector(r, s)
  BY StretchedHolds
<1>3. /\ u \in Seq(Byte) /\ Len(u) = Len(s) + 1
      /\ \A i \in 1 .. Len(s) : u[i] = s[i]
      /\ u[Len(s) + 1] = x
  BY <1>1, AppendProperties
<1>4. t \in Seq(Byte) /\ Len(t) = 1 /\ t[1] = x
  OBVIOUS
<1>5. PushedBack(v, x) = Stored(Vector(r, s), Len(s), t, Len(s) + 1)
  BY <1>1, <1>2 DEF PushedBack
<1> HIDE DEF u, t
<1>6. Stored(Vector(r, s), Len(s), t, Len(u)) = Vector(r, u)
  <2>1. Len(s) <= r /\ Len(s) + Len(t) <= r /\ Len(u) <= r
    BY <1>1, <1>2, <1>3, <1>4
  <2>2. ASSUME NEW i \in 0 .. Len(u) - 1
        PROVE  /\ i \in Len(s) .. Len(s) + Len(t) - 1 => u[i + 1] = t[i - Len(s) + 1]
               /\ i \notin Len(s) .. Len(s) + Len(t) - 1
                    => i < Len(s) /\ u[i + 1] = s[i + 1]
    <3>1. CASE i < Len(s)
      <4>1. i + 1 \in 1 .. Len(s) /\ i \notin Len(s) .. Len(s) + Len(t) - 1
        BY <1>1, <3>1
      <4> QED
        BY <1>3, <3>1, <4>1
    <3>2. CASE ~(i < Len(s))
      <4>1. i = Len(s) /\ i \in Len(s) .. Len(s) + Len(t) - 1 /\ i - Len(s) + 1 = 1
        BY <1>1, <1>3, <1>4, <3>2
      <4> QED
        BY <1>3, <1>4, <4>1
    <3> QED
      BY <3>1, <3>2
  <2>3. OverlaidOn(u, Len(s), t, s)
    BY <2>2 DEF OverlaidOn
  <2> QED
    BY <1>1, <1>3, <1>4, <2>1, <2>3, StoredOver
<1> QED
  BY <1>2, <1>3, <1>5, <1>6, VectorHolds DEF u

\* insert moves the bytes behind the position first, then writes there: with room
\* for both, every byte is in its place.
LEMMA InsertedInHolds ==
  ASSUME NEW r \in Nat, NEW s \in Seq(Byte), NEW t \in Seq(Byte),
         Len(s) + Len(t) <= r, NEW at \in 0 .. Len(s)
  PROVE  Holds(InsertedIn(Vector(r, s), at, t), Spliced(s, at, at, t))
<1> DEFINE u == Spliced(s, at, at, t)
           c == ShiftedCells(VectorCells(r, s), at + Len(t), at, Len(s) - at)
<1>1. Len(s) \in Nat /\ Len(t) \in Nat /\ Len(s) <= r /\ at \in Nat
  BY ByteSeq
<1>2. /\ u \in Seq(Byte) /\ Len(u) = at + Len(t) + (Len(s) - at)
      /\ \A i \in 1 .. Len(u) :
           u[i] = IF i <= at THEN s[i]
                  ELSE IF i <= at + Len(t) THEN t[i - at]
                  ELSE s[i - at - Len(t) + at]
  BY <1>1, SplicedIs
<1>3. Len(u) = Len(s) + Len(t)
  BY <1>1, <1>2
<1>4. InsertedIn(Vector(r, s), at, t)
        = Stored(Shifted(Vector(r, s), at + Len(t), at, Len(s) - at), at, t, Len(s) + Len(t))
  BY <1>1 DEF InsertedIn, Vector
<1>5. Shifted(Vector(r, s), at + Len(t), at, Len(s) - at)
        = [rsrv |-> r, size |-> Len(s), cell |-> c]
  BY ShiftedIs DEF Vector
<1>6. /\ DOMAIN c = 0 .. r - 1
      /\ \A i \in 0 .. r - 1 :
           c[i] = IF i \in at + Len(t) .. at + Len(t) + (Len(s) - at) - 1
                  THEN VectorCells(r, s)[at + i - (at + Len(t))]
                  ELSE VectorCells(r, s)[i]
  BY DEF ShiftedCells, VectorCells
<1>7. \A i \in 0 .. Len(s) - 1 : VectorCells(r, s)[i] = s[i + 1]
  BY <1>1 DEF VectorCells
<1> HIDE DEF c, u
<1>8. Overlaid(u, at, t, c)
  <2>1. ASSUME NEW i \in 0 .. Len(u) - 1, i \in at .. at + Len(t) - 1
        PROVE  u[i + 1] = t[i - at + 1]
    <3>1. /\ i + 1 \in 1 .. Len(u) /\ ~(i + 1 <= at) /\ i + 1 <= at + Len(t)
          /\ i + 1 - at = i - at + 1
      BY <1>1, <1>3, <2>1
    <3> QED
      BY <1>2, <3>1
  <2>2. ASSUME NEW i \in 0 .. Len(u) - 1, i \notin at .. at + Len(t) - 1
        PROVE  u[i + 1] = c[i]
    <3>1. i + 1 \in 1 .. Len(u) /\ i \in 0 .. r - 1
      BY <1>1, <1>3
    <3>2. CASE i < at
      <4>1. /\ i + 1 <= at /\ i \in 0 .. Len(s) - 1
            /\ i \notin at + Len(t) .. at + Len(t) + (Len(s) - at) - 1
        BY <1>1, <3>2
      <4>2. u[i + 1] = s[i + 1]
        BY <1>2, <3>1, <4>1
      <4>3. c[i] = VectorCells(r, s)[i]
        BY <1>6, <3>1, <4>1
      <4> QED
        BY <1>7, <4>1, <4>2, <4>3
    <3>3. CASE ~(i < at)
      <4> DEFINE k == i - Len(t)
      <4>1. /\ ~(i + 1 <= at) /\ ~(i + 1 <= at + Len(t))
            /\ i \in at + Len(t) .. at + Len(t) + (Len(s) - at) - 1
            /\ k \in 0 .. Len(s) - 1
            /\ at + i - (at + Len(t)) = k /\ (i + 1) - at - Len(t) + at = k + 1
        BY <1>1, <1>3, <2>2, <3>3
      <4> HIDE DEF k
      <4>2. u[i + 1] = s[k + 1]
        BY <1>2, <3>1, <4>1
      <4>3. c[i] = VectorCells(r, s)[k]
        BY <1>6, <3>1, <4>1
      <4> QED
        BY <1>7, <4>1, <4>2, <4>3
    <3> QED
      BY <3>2, <3>3
  <2> QED
    BY <2>1, <2>2 DEF Overlaid
<1>9. Stored([rsrv |-> r, size |-> Len(s), cell |-> c], at, t, Len(u)) = Vector(r, u)
  <2> DEFINE z == Len(s)
  <2>1. z \in 0 .. r /\ at + Len(t) <= r /\ Len(u) <= r
    BY <1>1, <1>3
  <2> HIDE DEF z
  <2>2. Stored([rsrv |-> r, size |-> z, cell |-> c], at, t, Len(u)) = Vector(r, u)
    BY <1>1, <1>2, <1>6, <1>8, <2>1, StoredHolds
  <2> QED
    BY <2>2 DEF z
<1>10. InsertedIn(Vector(r, s), at, t) = Vector(r, u)
  BY <1>3, <1>4, <1>5, <1>9
<1>11. Holds(Vector(r, u), u)
  BY <1>2, <1>3, VectorHolds
<1> QED
  BY <1>10, <1>11 DEF u

\* insert of one byte.
LEMMA InsertedOneHolds ==
  ASSUME NEW v, NEW s, Holds(v, s), CanStretch(v), NEW at \in 0 .. Len(s), NEW x \in Byte
  PROVE  Holds(InsertedOne(v, at, x), Spliced(s, at, at, <<x>>))
<1>1. PICK r \in Nat : Len(s) + 1 <= r /\ Stretched(v) = Vector(r, s)
  BY StretchedHolds
<1> DEFINE t == <<x>>
<1>2. t \in Seq(Byte) /\ Len(t) = 1
  OBVIOUS
<1> HIDE DEF t
<1>3. s \in Seq(Byte) /\ Len(s) + Len(t) <= r
  BY <1>1, <1>2, HoldsVector
<1>4. Holds(InsertedIn(Vector(r, s), at, t), Spliced(s, at, at, t))
  BY <1>2, <1>3, InsertedInHolds
<1> QED
  BY <1>1, <1>4 DEF InsertedOne, t

\* Nothing spliced in for nothing changes nothing.
LEMMA SplicedNothing ==
  ASSUME NEW s \in Seq(Byte), NEW a \in 0 .. Len(s)
  PROVE  Spliced(s, a, a, <<>>) = s
<1> DEFINE e == <<>>
<1>1. e \in Seq(Byte) /\ Len(e) = 0
  BY EmptySeq
<1>2. a \in 0 .. a /\ Len(s) \in Nat
  BY ByteSeq
<1> HIDE DEF e
<1>3. PICK u : u = Spliced(s, a, a, e)
  OBVIOUS
<1>4. /\ u \in Seq(Byte) /\ Len(u) = a + Len(e) + (Len(s) - a)
      /\ \A i \in 1 .. Len(u) :
           u[i] = IF i <= a THEN s[i]
                  ELSE IF i <= a + Len(e) THEN e[i - a]
                  ELSE s[i - a - Len(e) + a]
  BY <1>1, <1>2, <1>3, SplicedIs
<1>5. Len(u) = Len(s)
  BY <1>1, <1>2, <1>4
<1>6. ASSUME NEW i \in 1 .. Len(u) PROVE u[i] = s[i]
  <2>1. i - a - Len(e) + a = i /\ (i <= a \/ ~(i <= a + Len(e)))
    BY <1>1, <1>2
  <2> QED
    BY <1>4, <2>1
<1>7. u = s
  BY <1>4, <1>5, <1>6, SeqEqual
<1> QED
  BY <1>3, <1>7 DEF e

\* insert of several bytes.
LEMMA InsertedHolds ==
  ASSUME NEW v, NEW s, Holds(v, s), NEW at \in 0 .. Len(s), NEW t \in Seq(Byte),
         Len(s) + Len(t) <= v.rsrv \/ Len(s) + Len(t) <= MaxSize
  PROVE  Holds(Inserted(v, at, t), Spliced(s, at, at, t))
<1>1. /\ v.rsrv \in Nat /\ v.size = Len(s) /\ Len(s) \in Nat /\ Len(t) \in Nat
      /\ s \in Seq(Byte)
  BY HoldsVector, ByteSeq
<1>2. CASE t = <<>>
  BY <1>1, <1>2, SplicedNothing DEF Inserted
<1>3. CASE t # <<>>
  <2>1. Len(s) + Len(t) \in Nat
    BY <1>1
  <2>2. PICK r \in Nat : /\ Len(s) + Len(t) <= r
                         /\ Roomy(v, Len(s) + Len(t)) = Vector(r, s)
    BY <2>1, RoomyHolds
  <2>3. Holds(InsertedIn(Vector(r, s), at, t), Spliced(s, at, at, t))
    BY <1>1, <2>2, InsertedInHolds
  <2> QED
    BY <1>1, <1>3, <2>2, <2>3 DEF Inserted
<1> QED
  BY <1>2, <1>3

\* erase moves the bytes behind the part onto it.
LEMMA ErasedHolds ==
  ASSUME NEW v, NEW s, Holds(v, s), NEW b \in 0 .. Len(s), NEW a \in 0 .. b
  PROVE  Holds(Erased(v, a, b), Spliced(s, a, b, <<>>))
<1>1. /\ v.rsrv \in Nat /\ v.size = Len(s) /\ Len(s) \in Nat /\ Len(s) <= v.rsrv
      /\ s \in Seq(Byte) /\ v = Vector(v.rsrv, s) /\ a \in 0 .. Len(s)
  BY HoldsVector
<1>2. CASE a = b
  BY <1>1, <1>2, SplicedNothing DEF Erased
<1>3. CASE a # b
  <2> DEFINE e == <<>>
  <2>1. e \in Seq(Byte) /\ Len(e) = 0
    BY EmptySeq
  <2> HIDE DEF e
  <2>2. PICK u : u = Spliced(s, a, b, e)
    OBVIOUS
  <2>3. /\ u \in Seq(Byte) /\ Len(u) = a + Len(e) + (Len(s) - b)
        /\ \A i \in 1 .. Len(u) :
             u[i] = IF i <= a THEN s[i]
                    ELSE IF i <= a + Len(e) THEN e[i - a]
                    ELSE s[i - a - Len(e) + b]
    <3>1. s \in Seq(Byte) /\ e \in Seq(Byte) /\ b \in 0 .. Len(s) /\ a \in 0 .. b
      BY <1>1, <2>1
    <3> QED
      BY <2>2, <3>1, SplicedIs
  <2>4. PICK r \in Nat : r = v.rsrv
    BY <1>1
  <2> DEFINE c == ShiftedCells(VectorCells(r, s), a, b, Len(s) - b)
  <2>5. Len(u) = Len(s) - (b - a) /\ Len(u) <= r /\ Len(u) \in Nat
    BY <1>1, <2>1, <2>3, <2>4
  <2>6. Shifted(Vector(r, s), a, b, Len(s) - b) = [rsrv |-> r, size |-> Len(s), cell |-> c]
    BY ShiftedIs DEF Vector
  <2>7. /\ DOMAIN c = 0 .. r - 1
        /\ \A i \in 0 .. r - 1 :
             c[i] = IF i \in a .. a + (Len(s) - b) - 1
                    THEN VectorCells(r, s)[b + i - a] ELSE VectorCells(r, s)[i]
    BY DEF ShiftedCells, VectorCells
  <2>8. \A i \in 0 .. Len(s) - 1 : VectorCells(r, s)[i] = s[i + 1]
    BY <1>1, <2>4 DEF VectorCells
  <2> HIDE DEF c
  <2>9. ASSUME NEW i \in 0 .. r - 1, i < Len(u)
        PROVE  c[i] = u[i + 1]
    <3>1. i + 1 \in 1 .. Len(u)
      BY <2>5, <2>9
    <3>2. CASE i < a
      <4>1. i + 1 <= a /\ i \notin a .. a + (Len(s) - b) - 1 /\ i \in 0 .. Len(s) - 1
        BY <1>1, <3>2
      <4> QED
        BY <2>3, <2>7, <2>8, <3>1, <4>1
    <3>3. CASE ~(i < a)
      <4> DEFINE k == b + i - a
      <4>1. /\ ~(i + 1 <= a) /\ ~(i + 1 <= a + Len(e))
            /\ i \in a .. a + (Len(s) - b) - 1 /\ k \in 0 .. Len(s) - 1
            /\ (i + 1) - a - Len(e) + b = k + 1
        BY <1>1, <2>1, <2>5, <2>9, <3>3
      <4>2. c[i] = VectorCells(r, s)[k]
        BY <2>7, <4>1
      <4> HIDE DEF k
      <4>3. u[i + 1] = s[k + 1]
        BY <2>3, <3>1, <4>1
      <4> QED
        BY <2>8, <4>1, <4>2, <4>3
    <3> QED
      BY <3>2, <3>3
  <2>10. SizedCells(c, Len(u)) = VectorCells(r, u)
    BY <2>7, <2>9 DEF SizedCells, VectorCells
  <2>11. Sized([rsrv |-> r, size |-> Len(s), cell |-> c], Len(u)) = Vector(r, u)
    BY <2>10, SizedIs DEF Vector
  <2>12. Erased(v, a, b) = Vector(r, u)
    <3>1. Erased(v, a, b)
            = Sized(Shifted(v, a, b, v.size - b), v.size - (b - a))
      BY <1>3 DEF Erased
    <3> QED
      BY <1>1, <2>4, <2>5, <2>6, <2>11, <3>1
  <2>13. Holds(Erased(v, a, b), u)
    BY <2>3, <2>5, <2>12, VectorHolds
  <2> QED
    BY <2>2, <2>13 DEF e
<1> QED
  BY <1>2, <1>3

\* A reference to a byte of the vector itself reads that byte while there is room
\* for one more, if memmove has not moved it.
LEMMA OwnByteHolds ==
  ASSUME NEW v, NEW s, Holds(v, s), v.size < v.rsrv,
         NEW at \in 0 .. Len(s), NEW j \in Nat, j < Len(s), j <= at
  PROVE  OwnByte(v, Stretched(v), at, 1, j) = s[j + 1] /\ s[j + 1] \in Byte
<1>1. /\ v.rsrv \in Nat /\ v.size = Len(s) /\ Len(s) \in Nat /\ s \in Seq(Byte)
      /\ v = Vector(v.rsrv, s)
  BY HoldsVector
<1>2. Stretched(v) = v
  BY <1>1 DEF Stretched
<1>3. PICK r \in Nat : r = v.rsrv
  BY <1>1
<1> DEFINE c == ShiftedCells(VectorCells(r, s), at + 1, at, Len(s) - at)
<1>4. Shifted(Vector(r, s), at + 1, at, Len(s) - at)
        = [rsrv |-> r, size |-> Len(s), cell |-> c]
  BY ShiftedIs DEF Vector
<1>5. c[j] = s[j + 1]
  <2>1. j \in 0 .. r - 1 /\ j \notin at + 1 .. at + 1 + (Len(s) - at) - 1
    BY <1>1, <1>3
  <2> QED
    BY <2>1 DEF ShiftedCells, VectorCells
<1> HIDE DEF c
<1>6. Shifted(v, at + 1, at, v.size - at).cell = c
  BY <1>1, <1>3, <1>4
<1>7. s[j + 1] \in Byte
  <2>1. j + 1 \in 1 .. Len(s)
    BY <1>1
  <2> QED
    BY <1>1, <2>1, ByteSeq
<1> QED
  BY <1>2, <1>5, <1>6, <1>7 DEF OwnByte

-----------------------------------------------------------------------------
(* Every sequence of calls                                                 *)

\* A vector that every call was sound on holds its sequence.
VectorInv ==
  /\ sound \in [Names -> BOOLEAN]
  /\ DOMAIN vec = Names /\ DOMAIN ref = Names
  /\ \A n \in Names : sound[n] => Holds(vec[n], ref[n])

\* The invariant is what the two properties say together.
LEMMA VectorInvMeaning == VectorInv => VectorTypeOK /\ ContentsAsStandard
BY DEF VectorInv, VectorTypeOK, ContentsAsStandard, Holds, IsVector

\* A comparison has a truth value.
LEMMA TruthValue == ASSUME NEW k, NEW l PROVE \E ok \in BOOLEAN : ok = (k <= l)
<1> DEFINE ok == k <= l
<1>1. ok \in BOOLEAN
  OBVIOUS
<1> QED
  BY <1>1

\* A call whose soundness is stated right keeps it.
LEMMA BecomesKeeps ==
  ASSUME VectorInv, NEW n \in Names, NEW v, NEW s, NEW ok \in BOOLEAN,
         ok => Holds(v, s), Becomes(n, v, s, ok)
  PROVE  VectorInv'
<1>1. /\ vec' = [vec EXCEPT ![n] = IF ok THEN v ELSE Broken]
      /\ ref' = [ref EXCEPT ![n] = IF ok THEN s ELSE <<>>]
      /\ sound' = [sound EXCEPT ![n] = ok]
  BY DEF Becomes
<1>2. sound' \in [Names -> BOOLEAN] /\ DOMAIN vec' = Names /\ DOMAIN ref' = Names
  BY <1>1 DEF VectorInv
<1>3. ASSUME NEW m \in Names, sound'[m] PROVE Holds(vec'[m], ref'[m])
  <2>1. CASE m = n
    BY <1>1, <1>3, <2>1 DEF VectorInv
  <2>2. CASE m # n
    BY <1>1, <1>3, <2>2 DEF VectorInv
  <2> QED
    BY <2>1, <2>2
<1>4. (\A m \in Names : sound[m] => Holds(vec[m], ref[m]))'
  BY <1>3 DEF Holds, IsVector, Bytes
<1> QED
  BY <1>2, <1>4 DEF VectorInv

\* The bytes that a client passes are a sequence of bytes.
LEMMA ShortIsBytes == ASSUME NEW s \in Short PROVE s \in Seq(Byte)
BY LimitAssumption DEF Short

\* Construction, whatever the vector was before, and copies.
LEMMA ConstructionSteps ==
  ASSUME VectorInv, NEW n \in Names
  PROVE  /\ ConstructDefault(n) => VectorInv'
         /\ \A s \in Short : Construct(n, s) => VectorInv'
         /\ \A m \in Names : CopyConstruct(n, m) => VectorInv'
<1>1. ASSUME ConstructDefault(n) PROVE VectorInv'
  <2>1. Becomes(n, Default, <<>>, TRUE) /\ Holds(Default, <<>>)
    BY <1>1, DefaultHolds DEF ConstructDefault
  <2> QED
    BY <2>1, BecomesKeeps
<1>2. ASSUME NEW s \in Short, Construct(n, s) PROVE VectorInv'
  <2>1. PICK ok \in BOOLEAN : ok = (Len(s) <= MaxSize)
    BY TruthValue
  <2>2. ok => Holds(Constructed(s), s)
    BY <2>1, ShortIsBytes, ConstructedHolds
  <2>3. Becomes(n, Constructed(s), s, ok)
    BY <1>2, <2>1 DEF Construct
  <2> QED
    BY <2>2, <2>3, BecomesKeeps
<1>3. ASSUME NEW m \in Names, CopyConstruct(n, m) PROVE VectorInv'
  <2>1. Holds(vec[m], ref[m]) /\ Becomes(n, Copied(vec[m]), ref[m], TRUE)
    BY <1>3 DEF CopyConstruct, VectorInv
  <2>2. Holds(Copied(vec[m]), ref[m])
    BY <2>1, CopiedHolds
  <2> QED
    BY <2>1, <2>2, BecomesKeeps
<1> QED
  BY <1>1, <1>2, <1>3

\* Assignment.
LEMMA AssignmentSteps ==
  ASSUME VectorInv, NEW n \in Names
  PROVE  /\ \A s \in Short : Assign(n, s) \/ AssignList(n, s) => VectorInv'
         /\ \A m \in Names : AssignFrom(n, m) => VectorInv'
<1>1. ASSUME NEW s \in Short, Assign(n, s) PROVE VectorInv'
  <2>1. PICK ok \in BOOLEAN : ok = (Len(s) <= vec[n].rsrv \/ Len(s) <= MaxSize)
    OBVIOUS
  <2>2. Holds(vec[n], ref[n]) /\ Becomes(n, Assigned(vec[n], s), s, ok)
    BY <1>1, <2>1 DEF Assign, VectorInv
  <2>3. ok => Holds(Assigned(vec[n], s), s)
    BY <2>1, <2>2, ShortIsBytes, AssignedHolds
  <2> QED
    BY <2>2, <2>3, BecomesKeeps
<1>2. ASSUME NEW s \in Short, AssignList(n, s) PROVE VectorInv'
  <2>1. PICK ok \in BOOLEAN : ok = (Len(s) = Len(ref[n]))
    OBVIOUS
  <2>2. Holds(vec[n], ref[n]) /\ Becomes(n, AssignedList(vec[n], s), s, ok)
    BY <1>2, <2>1 DEF AssignList, VectorInv
  <2>3. ok => Holds(AssignedList(vec[n], s), s)
    BY <2>1, <2>2, ShortIsBytes, AssignedListHolds
  <2> QED
    BY <2>2, <2>3, BecomesKeeps
<1>3. ASSUME NEW m \in Names, AssignFrom(n, m) PROVE VectorInv'
  <2>1. PICK ok \in BOOLEAN : ok = (Len(ref[m]) <= vec[n].rsrv \/ Len(ref[m]) <= MaxSize)
    OBVIOUS
  <2>2. /\ Holds(vec[n], ref[n]) /\ Holds(vec[m], ref[m])
        /\ Becomes(n, Assigned(vec[n], Bytes(vec[m])), ref[m], ok)
    BY <1>3, <2>1 DEF AssignFrom, VectorInv
  <2>3. Bytes(vec[m]) = ref[m] /\ ref[m] \in Seq(Byte)
    BY <2>2 DEF Holds
  <2>4. ok => Holds(Assigned(vec[n], ref[m]), ref[m])
    BY <2>1, <2>2, <2>3, AssignedHolds
  <2> QED
    BY <2>2, <2>3, <2>4, BecomesKeeps
<1> QED
  BY <1>1, <1>2, <1>3

\* Capacity and size.
LEMMA CapacitySteps ==
  ASSUME VectorInv, NEW n \in Names
  PROVE  /\ \A k \in 0 .. Limit : Resize(n, k) \/ Reserve(n, k) => VectorInv'
         /\ \A k \in 0 .. Limit, x \in Byte : ResizeWith(n, k, x) => VectorInv'
         /\ ShrinkToFit(n) \/ Clear(n) \/ PopBack(n) => VectorInv'
<1>1. ASSUME NEW k \in 0 .. Limit, Resize(n, k) PROVE VectorInv'
  <2>0. k \in Nat
    BY LimitAssumption
  <2>1. PICK ok \in BOOLEAN : ok = (k <= Len(ref[n]))
    BY TruthValue
  <2>2. PICK u : u = [i \in 1 .. k |-> IF i <= Len(ref[n]) THEN ref[n][i] ELSE 0]
    OBVIOUS
  <2>3. Holds(vec[n], ref[n]) /\ Becomes(n, Resized(vec[n], k), u, ok)
    BY <1>1, <2>1, <2>2 DEF Resize, VectorInv
  <2>4. ASSUME ok PROVE Holds(Resized(vec[n], k), u)
    <3> PICK v, s : v = vec[n] /\ s = ref[n]
      OBVIOUS
    <3>1. /\ v.rsrv \in Nat /\ Len(s) <= v.rsrv /\ s \in Seq(Byte) /\ Len(s) \in Nat
          /\ Holds(v, s)
      BY <2>3, HoldsVector
    <3>2. k \in Nat /\ k <= Len(s) /\ ~(k > v.rsrv)
      <4>1. k <= Len(s)
        BY <2>1, <2>4, Zenon
      <4> QED
        BY <2>0, <3>1, <4>1
    <3>3. /\ u \in Seq(Byte) /\ Len(u) = k /\ \A i \in 1 .. k : u[i] = s[i]
      <4>1. \A i \in 1 .. k : i <= Len(s) /\ s[i] \in Byte
        BY <3>1, <3>2, ByteSeq
      <4>2. \A i \in 1 .. k : u[i] = s[i] /\ u[i] \in Byte
        BY <2>2, <4>1
      <4>3. u = [i \in 1 .. k |-> u[i]]
        BY <2>2
      <4> QED
        BY <3>2, <4>2, <4>3, IsByteSeq
    <3>4. Holds(Sized(v, Len(u)), u)
      BY <3>1, <3>2, <3>3, SizedDown
    <3>5. Resized(v, k) = Sized(v, k)
      BY <3>2 DEF Resized
    <3> QED
      BY <3>3, <3>4, <3>5
  <2> QED
    BY <2>3, <2>4, BecomesKeeps
<1>2. ASSUME NEW k \in 0 .. Limit, Reserve(n, k) PROVE VectorInv'
  <2>0. k \in Nat
    BY LimitAssumption
  <2>1. Holds(vec[n], ref[n]) /\ Becomes(n, Reserved(vec[n], k), ref[n], TRUE)
    BY <1>2 DEF Reserve, VectorInv
  <2>2. Holds(Reserved(vec[n], k), ref[n])
    BY <2>0, <2>1, CapacityHolds
  <2> QED
    BY <2>1, <2>2, BecomesKeeps
<1>3. ASSUME NEW k \in 0 .. Limit, NEW x \in Byte, ResizeWith(n, k, x) PROVE VectorInv'
  <2>1. PICK u : u = [i \in 1 .. k |-> IF i <= Len(ref[n]) THEN ref[n][i] ELSE x]
    OBVIOUS
  <2>0. k \in Nat
    BY LimitAssumption
  <2>2. Holds(vec[n], ref[n]) /\ Becomes(n, ResizedWith(vec[n], k, x), u, TRUE)
    BY <1>3, <2>1 DEF ResizeWith, VectorInv
  <2>3. Holds(ResizedWith(vec[n], k, x), u)
    BY <2>0, <2>1, <2>2, ResizedWithHolds
  <2> QED
    BY <2>2, <2>3, BecomesKeeps
<1>4. ASSUME ShrinkToFit(n) PROVE VectorInv'
  <2>1. Holds(vec[n], ref[n]) /\ Becomes(n, Shrunk(vec[n]), ref[n], TRUE) /\ 0 \in Nat
    BY <1>4 DEF ShrinkToFit, VectorInv
  <2>2. Holds(Shrunk(vec[n]), ref[n])
    BY <2>1, CapacityHolds
  <2> QED
    BY <2>1, <2>2, BecomesKeeps
<1>5. ASSUME Clear(n) PROVE VectorInv'
  <2> DEFINE e == <<>>
  <2>1. e \in Seq(Byte) /\ Len(e) = 0
    BY EmptySeq
  <2>2. Holds(vec[n], ref[n]) /\ Becomes(n, Sized(vec[n], 0), e, TRUE)
    BY <1>5 DEF Clear, Cleared, VectorInv
  <2> HIDE DEF e
  <2>3. Len(e) <= Len(ref[n]) /\ \A i \in 1 .. Len(e) : e[i] = ref[n][i]
    BY <2>1, <2>2, HoldsVector
  <2>4. Holds(Sized(vec[n], 0), e)
    BY <2>1, <2>2, <2>3, SizedDown
  <2> QED
    BY <2>2, <2>4, BecomesKeeps
<1>6. ASSUME PopBack(n) PROVE VectorInv'
  <2> DEFINE u == SubSeq(ref[n], 1, Len(ref[n]) - 1)
  <2>1. /\ Holds(vec[n], ref[n]) /\ ref[n] # <<>>
        /\ Becomes(n, Sized(vec[n], vec[n].size - 1), u, TRUE)
    BY <1>6 DEF PopBack, PoppedBack, VectorInv
  <2>2. vec[n].size = Len(ref[n]) /\ Len(ref[n]) \in Nat \ {0} /\ ref[n] \in Seq(Byte)
    BY <2>1, HoldsVector, EmptySeq
  <2>3. Len(ref[n]) - 1 \in 0 .. Len(ref[n])
    BY <2>2
  <2>4. /\ u \in Seq(Byte) /\ Len(u) = Len(ref[n]) - 1
        /\ \A i \in 1 .. Len(ref[n]) - 1 : u[i] = ref[n][i]
    BY <2>2, <2>3, PrefixIs
  <2> HIDE DEF u
  <2>5. Len(u) <= Len(ref[n])
    BY <2>2, <2>4
  <2>6. Holds(Sized(vec[n], Len(u)), u)
    BY <2>1, <2>4, <2>5, SizedDown
  <2> QED
    BY <2>1, <2>2, <2>4, <2>6, BecomesKeeps
<1> QED
  BY <1>1, <1>2, <1>3, <1>4, <1>5, <1>6

\* Modifiers.
LEMMA ModifierSteps ==
  ASSUME VectorInv, NEW n \in Names
  PROVE  /\ \A x \in Byte : PushBack(n, x) => VectorInv'
         /\ \A k \in 0 .. Limit : PushOwn(n, k) => VectorInv'
         /\ \A k \in 0 .. Limit, x \in Byte : InsertOne(n, k, x) => VectorInv'
         /\ \A k \in 0 .. Limit, j \in 0 .. Limit :
              InsertOwn(n, k, j) \/ Erase(n, k, j) => VectorInv'
         /\ \A k \in 0 .. Limit, s \in Short : Insert(n, k, s) => VectorInv'
<1>0. \A k \in 0 .. Limit : k \in Nat
  BY LimitAssumption
<1>1. ASSUME NEW x \in Byte, PushBack(n, x) PROVE VectorInv'
  <2>1. PICK ok \in BOOLEAN : ok = CanStretch(vec[n])
    BY TruthValue DEF CanStretch
  <2>2. Holds(vec[n], ref[n]) /\ Becomes(n, PushedBack(vec[n], x), Append(ref[n], x), ok)
    BY <1>1, <2>1 DEF PushBack, VectorInv
  <2>3. ok => Holds(PushedBack(vec[n], x), Append(ref[n], x))
    BY <2>1, <2>2, PushedBackHolds
  <2> QED
    BY <2>2, <2>3, BecomesKeeps
<1>2. ASSUME NEW j \in 0 .. Limit, PushOwn(n, j) PROVE VectorInv'
  <2> DEFINE y == OwnByte(vec[n], Stretched(vec[n]), vec[n].size, 1, j)
             u == Append(ref[n], ref[n][j + 1])
             ok == vec[n].size < vec[n].rsrv
  <2>1. /\ Holds(vec[n], ref[n]) /\ j < vec[n].size
        /\ Becomes(n, PushedBack(vec[n], y), u, ok)
    BY <1>2 DEF PushOwn, VectorInv
  <2>2. ok \in BOOLEAN
    OBVIOUS
  <2>3. /\ vec[n].size = Len(ref[n]) /\ Len(ref[n]) \in 0 .. Len(ref[n])
        /\ j \in Nat /\ j < Len(ref[n]) /\ j <= Len(ref[n])
    BY <1>0, <2>1, HoldsVector
  <2>4. ASSUME ok PROVE y = ref[n][j + 1] /\ y \in Byte /\ CanStretch(vec[n])
    <3>1. vec[n].size < vec[n].rsrv
      BY <2>4
    <3> QED
      BY <2>1, <2>3, <3>1, OwnByteHolds DEF CanStretch
  <2> HIDE DEF y, ok
  <2>5. ASSUME ok PROVE Holds(PushedBack(vec[n], y), u)
    <3>1. Holds(PushedBack(vec[n], y), Append(ref[n], y))
      BY <2>1, <2>4, <2>5, PushedBackHolds
    <3> QED
      BY <2>4, <2>5, <3>1
  <2> HIDE DEF u
  <2> QED
    BY <2>1, <2>2, <2>5, BecomesKeeps
<1>3. ASSUME NEW at \in 0 .. Limit, NEW x \in Byte, InsertOne(n, at, x) PROVE VectorInv'
  <2>1. PICK ok \in BOOLEAN : ok = CanStretch(vec[n])
    BY TruthValue DEF CanStretch
  <2> DEFINE u == Spliced(ref[n], at, at, <<x>>)
  <2>2. /\ Holds(vec[n], ref[n]) /\ at <= Len(ref[n])
        /\ Becomes(n, InsertedOne(vec[n], at, x), u, ok)
    BY <1>3, <2>1 DEF InsertOne, VectorInv
  <2>3. at \in 0 .. Len(ref[n])
    BY <1>0, <2>2, HoldsVector
  <2>4. ok => Holds(InsertedOne(vec[n], at, x), u)
    BY <2>1, <2>2, <2>3, InsertedOneHolds
  <2> HIDE DEF u
  <2> QED
    BY <2>2, <2>4, BecomesKeeps
<1>4. ASSUME NEW at \in 0 .. Limit, NEW j \in 0 .. Limit, InsertOwn(n, at, j)
      PROVE  VectorInv'
  <2> DEFINE y == OwnByte(vec[n], Stretched(vec[n]), at, 1, j)
             u == Spliced(ref[n], at, at, <<ref[n][j + 1]>>)
             ok == vec[n].size < vec[n].rsrv /\ j <= at
  <2>1. /\ Holds(vec[n], ref[n]) /\ j < vec[n].size /\ at <= vec[n].size
        /\ Becomes(n, InsertedOne(vec[n], at, y), u, ok)
    BY <1>4 DEF InsertOwn, VectorInv
  <2>2. ok \in BOOLEAN
    OBVIOUS
  <2>3. vec[n].size = Len(ref[n]) /\ j \in Nat /\ j < Len(ref[n]) /\ at \in 0 .. Len(ref[n])
    BY <1>0, <2>1, HoldsVector
  <2>4. ASSUME ok PROVE y = ref[n][j + 1] /\ y \in Byte /\ CanStretch(vec[n])
    <3>1. vec[n].size < vec[n].rsrv /\ j <= at
      BY <2>4
    <3> QED
      BY <2>1, <2>3, <3>1, OwnByteHolds DEF CanStretch
  <2> HIDE DEF y, ok
  <2>5. ASSUME ok PROVE Holds(InsertedOne(vec[n], at, y), u)
    <3>1. Holds(InsertedOne(vec[n], at, y), Spliced(ref[n], at, at, <<y>>))
      BY <2>1, <2>3, <2>4, <2>5, InsertedOneHolds
    <3> QED
      BY <2>4, <2>5, <3>1
  <2> HIDE DEF u
  <2> QED
    BY <2>1, <2>2, <2>5, BecomesKeeps
<1>5. ASSUME NEW a \in 0 .. Limit, NEW b \in 0 .. Limit, Erase(n, a, b) PROVE VectorInv'
  <2> DEFINE u == Spliced(ref[n], a, b, <<>>)
  <2>1. /\ Holds(vec[n], ref[n]) /\ a <= b /\ b <= Len(ref[n])
        /\ Becomes(n, Erased(vec[n], a, b), u, TRUE)
    BY <1>5 DEF Erase, VectorInv
  <2>2. a \in Nat /\ b \in Nat /\ Len(ref[n]) \in Nat
    BY <1>0, <2>1, HoldsVector
  <2>3. b \in 0 .. Len(ref[n]) /\ a \in 0 .. b
    BY <2>1, <2>2
  <2>4. Holds(Erased(vec[n], a, b), u)
    BY <2>1, <2>3, ErasedHolds
  <2> HIDE DEF u
  <2> QED
    BY <2>1, <2>4, BecomesKeeps
<1>6. ASSUME NEW at \in 0 .. Limit, NEW s \in Short, Insert(n, at, s) PROVE VectorInv'
  <2> DEFINE u == Spliced(ref[n], at, at, s)
             size == Len(ref[n]) + Len(s)
             ok == size <= vec[n].rsrv \/ size <= MaxSize
  <2>1. /\ Holds(vec[n], ref[n]) /\ at <= Len(ref[n])
        /\ Becomes(n, Inserted(vec[n], at, s), u, ok)
    BY <1>6 DEF Insert, VectorInv
  <2>2. ok \in BOOLEAN
    OBVIOUS
  <2>3. at \in 0 .. Len(ref[n])
    BY <1>0, <2>1, HoldsVector
  <2>4. ok => Holds(Inserted(vec[n], at, s), u)
    BY <2>1, <2>3, ShortIsBytes, InsertedHolds
  <2> HIDE DEF u, ok
  <2> QED
    BY <2>1, <2>2, <2>4, BecomesKeeps
<1> QED
  BY <1>1, <1>2, <1>3, <1>4, <1>5, <1>6

\* swap exchanges what two vectors hold.
LEMMA SwapStep ==
  ASSUME VectorInv, NEW n \in Names, NEW m \in Names, Swap(n, m)
  PROVE  VectorInv'
<1>1. /\ sound[n] /\ sound[m]
      /\ vec' = [vec EXCEPT ![n] = vec[m], ![m] = vec[n]]
      /\ ref' = [ref EXCEPT ![n] = ref[m], ![m] = ref[n]]
      /\ sound' = sound
  BY DEF Swap
<1>2. sound' \in [Names -> BOOLEAN] /\ DOMAIN vec' = Names /\ DOMAIN ref' = Names
  BY <1>1 DEF VectorInv
<1>3. ASSUME NEW l \in Names, sound'[l] PROVE Holds(vec'[l], ref'[l])
  <2>1. CASE l = m
    BY <1>1, <1>3, <2>1 DEF VectorInv
  <2>2. CASE l # m /\ l = n
    BY <1>1, <1>3, <2>2 DEF VectorInv
  <2>3. CASE l # m /\ l # n
    BY <1>1, <1>3, <2>3 DEF VectorInv
  <2> QED
    BY <2>1, <2>2, <2>3
<1>4. (\A l \in Names : sound[l] => Holds(vec[l], ref[l]))'
  BY <1>3 DEF Holds, IsVector, Bytes
<1> QED
  BY <1>2, <1>4 DEF VectorInv

\* The vectors hold their sequences from the start, and through every call.
LEMMA VectorInductive ==
  /\ VectorInit => VectorInv
  /\ VectorInv /\ [VectorNext]_vectorvars => VectorInv'
<1>1. VectorInit => VectorInv
  BY DefaultHolds DEF VectorInit, VectorInv
<1>2. ASSUME VectorInv, [VectorNext]_vectorvars PROVE VectorInv'
  <2>1. CASE VectorNext
    <3>1. PICK n \in Names :
            \/ \E s \in Short : Construct(n, s) \/ Assign(n, s) \/ AssignList(n, s)
            \/ \E m \in Names : CopyConstruct(n, m) \/ AssignFrom(n, m) \/ Swap(n, m)
            \/ \E k \in 0 .. Limit :
                 \/ Resize(n, k) \/ Reserve(n, k) \/ PushOwn(n, k)
                 \/ \E x \in Byte : ResizeWith(n, k, x) \/ InsertOne(n, k, x)
                 \/ \E j \in 0 .. Limit : InsertOwn(n, k, j) \/ Erase(n, k, j)
                 \/ \E s \in Short : Insert(n, k, s)
            \/ \E x \in Byte : PushBack(n, x)
            \/ ConstructDefault(n) \/ PopBack(n) \/ ShrinkToFit(n) \/ Clear(n)
      BY <2>1, Zenon DEF VectorNext
    <3>2. CASE \E s \in Short : Construct(n, s) \/ Assign(n, s) \/ AssignList(n, s)
      BY <1>2, <3>2, ConstructionSteps, AssignmentSteps
    <3>3. CASE \E m \in Names : CopyConstruct(n, m) \/ AssignFrom(n, m) \/ Swap(n, m)
      BY <1>2, <3>3, ConstructionSteps, AssignmentSteps, SwapStep
    <3>4. CASE \E k \in 0 .. Limit :
                 \/ Resize(n, k) \/ Reserve(n, k) \/ PushOwn(n, k)
                 \/ \E x \in Byte : ResizeWith(n, k, x) \/ InsertOne(n, k, x)
                 \/ \E j \in 0 .. Limit : InsertOwn(n, k, j) \/ Erase(n, k, j)
                 \/ \E s \in Short : Insert(n, k, s)
      BY <1>2, <3>4, CapacitySteps, ModifierSteps
    <3>5. CASE \E x \in Byte : PushBack(n, x)
      BY <1>2, <3>5, ModifierSteps
    <3>6. CASE ConstructDefault(n) \/ PopBack(n) \/ ShrinkToFit(n) \/ Clear(n)
      BY <1>2, <3>6, ConstructionSteps, CapacitySteps
    <3> QED
      BY <3>1, <3>2, <3>3, <3>4, <3>5, <3>6
  <2>2. CASE UNCHANGED vectorvars
    BY <1>2, <2>2 DEF vectorvars, VectorInv, Holds, IsVector, Bytes
  <2> QED
    BY <1>2, <2>1, <2>2
<1> QED
  BY <1>1, <1>2

\* A vector is an array with its size within it after every sequence of calls,
\* unless one of them wrote outside of it (vector.hpp), for every max_size() and
\* every size of the packets.
THEOREM VectorsAreVectors == VectorSpec => []VectorTypeOK
BY VectorInductive, VectorInvMeaning, PTL DEF VectorSpec

\* A vector that every call was sound on holds what the standard says: growth
\* made room for what was then written, and memmove and the loops put every byte
\* in its place, wherever the call inserted, erased or assigned (vector.hpp), for
\* every max_size() and every size of the packets.
THEOREM VectorsHoldContents == VectorSpec => []ContentsAsStandard
BY VectorInductive, VectorInvMeaning, PTL DEF VectorSpec

-----------------------------------------------------------------------------
(* The comparisons                                                         *)

\* The positions at which two sequences have a byte, and not the same.
Differences(s, t) == {i \in 0 .. Len(s) - 1 : i < Len(t) /\ s[i + 1] # t[i + 1]}

\* The comparisons of two vectors read what they hold.
LEMMA DifferingIs ==
  ASSUME NEW v, NEW s, Holds(v, s), NEW w, NEW t, Holds(w, t)
  PROVE  /\ Differing(v, w) = Differences(s, t)
         /\ \A i \in Differences(s, t) : v.cell[i] = s[i + 1] /\ w.cell[i] = t[i + 1]
         /\ Equal(v, w) <=> s = t
<1>1. /\ v.size = Len(s) /\ Len(s) \in Nat /\ Len(s) <= v.rsrv /\ s \in Seq(Byte)
      /\ v.rsrv \in Nat /\ v = Vector(v.rsrv, s)
      /\ w.size = Len(t) /\ Len(t) \in Nat /\ Len(t) <= w.rsrv /\ t \in Seq(Byte)
      /\ w.rsrv \in Nat /\ w = Vector(w.rsrv, t)
  BY HoldsVector
<1>2. \A i \in 0 .. Len(s) - 1 : v.cell[i] = s[i + 1]
  <2>1. v.cell = VectorCells(v.rsrv, s)
    BY <1>1 DEF Vector
  <2> QED
    BY <1>1, <2>1 DEF VectorCells
<1>3. \A i \in 0 .. Len(t) - 1 : w.cell[i] = t[i + 1]
  <2>1. w.cell = VectorCells(w.rsrv, t)
    BY <1>1 DEF Vector
  <2> QED
    BY <1>1, <2>1 DEF VectorCells
<1>4. Differing(v, w) = Differences(s, t)
  <2> DEFINE n == IF v.size < w.size THEN v.size ELSE w.size
  <2>1. \A i : i \in 0 .. n - 1 <=> i \in 0 .. Len(s) - 1 /\ i < Len(t)
    BY <1>1
  <2>2. \A i \in 0 .. n - 1 : v.cell[i] = s[i + 1] /\ w.cell[i] = t[i + 1]
    BY <1>1, <1>2, <1>3, <2>1
  <2>3. Differing(v, w) = {i \in 0 .. n - 1 : v.cell[i] # w.cell[i]}
    BY DEF Differing
  <2> HIDE DEF n
  <2> QED
    BY <2>1, <2>2, <2>3 DEF Differences
<1>5. \A i \in Differences(s, t) : v.cell[i] = s[i + 1] /\ w.cell[i] = t[i + 1]
  BY <1>1, <1>2, <1>3 DEF Differences
<1>6. ASSUME Equal(v, w) PROVE s = t
  <2>1. Len(s) = Len(t) /\ \A i \in 0 .. Len(s) - 1 : s[i + 1] = t[i + 1]
    BY <1>1, <1>2, <1>3, <1>6 DEF Equal
  <2>2. ASSUME NEW i \in 1 .. Len(s) PROVE s[i] = t[i]
    <3>1. i - 1 \in 0 .. Len(s) - 1 /\ (i - 1) + 1 = i
      BY <1>1
    <3> QED
      BY <2>1, <3>1
  <2> QED
    BY <1>1, <2>1, <2>2, SeqEqual
<1>7. ASSUME s = t PROVE Equal(v, w)
  BY <1>1, <1>2, <1>3, <1>7 DEF Equal
<1> QED
  BY <1>4, <1>5, <1>6, <1>7

\* A set of numbers that has one has a first one.
LEMMA FirstIs ==
  ASSUME NEW D, D \subseteq Nat, D # {}
  PROVE  First(D) \in D /\ \A j \in D : First(D) <= j
<1>1. IsWellFoundedOn(Before, Nat)
  BY NatLessThanWellFounded DEF OpToRel, Before
<1>2. PICK i \in D : \A j \in D : ~ (<<j, i>> \in Before)
  BY <1>1, WFMin
<1>3. ASSUME NEW j \in D PROVE i <= j
  <2>1. i \in Nat /\ j \in Nat
    BY <1>2
  <2>2. ~ (<<j, i>> \in Before)
    BY <1>2
  <2>3. ~ (j < i)
    BY <2>1, <2>2 DEF Before
  <2> QED
    BY <2>1, <2>3
<1> QED
  BY <1>2, <1>3 DEF First

\* Equal prefixes, byte by byte.
LEMMA PrefixesEqual ==
  ASSUME NEW s \in Seq(Byte), NEW t \in Seq(Byte), NEW k \in Nat, k <= Len(s), k <= Len(t)
  PROVE  SubSeq(s, 1, k) = SubSeq(t, 1, k) <=> \A i \in 0 .. k - 1 : s[i + 1] = t[i + 1]
<1>1. k \in 0 .. Len(s) /\ k \in 0 .. Len(t)
  BY ByteSeq
<1>2. /\ SubSeq(s, 1, k) \in Seq(Byte) /\ Len(SubSeq(s, 1, k)) = k
      /\ \A i \in 1 .. k : SubSeq(s, 1, k)[i] = s[i]
  BY <1>1, PrefixIs
<1>3. /\ SubSeq(t, 1, k) \in Seq(Byte) /\ Len(SubSeq(t, 1, k)) = k
      /\ \A i \in 1 .. k : SubSeq(t, 1, k)[i] = t[i]
  BY <1>1, PrefixIs
<1>4. ASSUME SubSeq(s, 1, k) = SubSeq(t, 1, k), NEW i \in 0 .. k - 1
      PROVE  s[i + 1] = t[i + 1]
  <2>1. i + 1 \in 1 .. k
    OBVIOUS
  <2> QED
    BY <1>2, <1>3, <1>4, <2>1
<1>5. ASSUME \A i \in 0 .. k - 1 : s[i + 1] = t[i + 1]
      PROVE  SubSeq(s, 1, k) = SubSeq(t, 1, k)
  <2>1. ASSUME NEW i \in 1 .. k PROVE s[i] = t[i]
    <3>1. i - 1 \in 0 .. k - 1 /\ (i - 1) + 1 = i
      OBVIOUS
    <3> QED
      BY <1>5, <3>1
  <2> QED
    BY <1>2, <1>3, <2>1, SeqEqual
<1> QED
  BY <1>4, <1>5

\* Lexicographic order, when nothing differs: the shorter one comes first.
LEMMA PrecedesBySize ==
  ASSUME NEW s \in Seq(Byte), NEW t \in Seq(Byte), Differences(s, t) = {}
  PROVE  /\ Precedes(s, t) <=> Len(s) < Len(t)
         /\ s = t <=> Len(s) = Len(t)
<1>1. Len(s) \in Nat /\ Len(t) \in Nat
  BY ByteSeq
<1>2. \A i \in 0 .. Len(s) - 1 : i < Len(t) => s[i + 1] = t[i + 1]
  BY DEF Differences
<1>3. ASSUME Len(s) < Len(t) PROVE Precedes(s, t)
  <2>1. SubSeq(s, 1, Len(s)) = SubSeq(t, 1, Len(s))
    <3>1. PICK k \in Nat : k = Len(s)
      BY <1>1
    <3>2. /\ k <= Len(s) /\ k <= Len(t)
          /\ \A i \in 0 .. k - 1 : i \in 0 .. Len(s) - 1 /\ i < Len(t)
      BY <1>1, <1>3, <3>1
    <3>3. \A i \in 0 .. k - 1 : s[i + 1] = t[i + 1]
      BY <1>2, <3>2
    <3>4. SubSeq(s, 1, k) = SubSeq(t, 1, k)
      BY <3>2, <3>3, PrefixesEqual
    <3> QED
      BY <3>1, <3>4
  <2>2. Len(s) \in 0 .. Len(s) /\ Len(s) <= Len(t)
    BY <1>1, <1>3
  <2> QED
    BY <1>3, <2>1, <2>2 DEF Precedes
<1>4. ASSUME Precedes(s, t) PROVE Len(s) < Len(t)
  <2>1. PICK k \in 0 .. Len(s) :
          /\ k <= Len(t)
          /\ \/ k = Len(s) /\ k < Len(t)
             \/ k < Len(s) /\ k < Len(t) /\ s[k + 1] < t[k + 1]
    BY <1>4 DEF Precedes
  <2>2. CASE k < Len(s) /\ k < Len(t) /\ s[k + 1] < t[k + 1]
    <3>1. k \in 0 .. Len(s) - 1 /\ s[k + 1] \in Nat
      BY <1>1, <2>2, ByteSeq, VectorAssumption
    <3> QED
      BY <1>2, <2>2, <3>1
  <2> QED
    BY <2>1, <2>2
<1>5. ASSUME Len(s) = Len(t) PROVE s = t
  <2>1. ASSUME NEW i \in 1 .. Len(s) PROVE s[i] = t[i]
    <3>1. i - 1 \in 0 .. Len(s) - 1 /\ (i - 1) + 1 = i /\ i - 1 < Len(t)
      BY <1>1, <1>5
    <3> QED
      BY <1>2, <3>1
  <2> QED
    BY <1>5, <2>1, SeqEqual
<1> QED
  BY <1>3, <1>4, <1>5

\* Otherwise the first difference decides.
LEMMA PrecedesByByte ==
  ASSUME NEW s \in Seq(Byte), NEW t \in Seq(Byte), Differences(s, t) # {}
  PROVE  LET i == First(Differences(s, t))
         IN  /\ i \in Differences(s, t) /\ s # t
             /\ Precedes(s, t) <=> s[i + 1] < t[i + 1]
<1> DEFINE D == Differences(s, t)
           m == First(D)
<1>1. Len(s) \in Nat /\ Len(t) \in Nat
  BY ByteSeq
<1>2. D \subseteq Nat
  BY DEF Differences
<1>3. m \in D /\ \A j \in D : m <= j
  <2>1. D # {}
    OBVIOUS
  <2> HIDE DEF D
  <2> QED
    BY <1>2, <2>1, FirstIs
<1> HIDE DEF m
<1>4. m \in 0 .. Len(s) - 1 /\ m < Len(t) /\ s[m + 1] # t[m + 1]
  BY <1>3 DEF Differences
<1>5. \A j \in 0 .. m - 1 : s[j + 1] = t[j + 1]
  <2> TAKE j \in 0 .. m - 1
  <2>1. j \notin D
    BY <1>2, <1>3, <1>4
  <2>2. j \in 0 .. Len(s) - 1 /\ j < Len(t)
    BY <1>1, <1>4
  <2> QED
    BY <2>1, <2>2 DEF Differences
<1>6. ASSUME s[m + 1] < t[m + 1] PROVE Precedes(s, t)
  <2>1. m \in Nat /\ m \in 0 .. Len(s) /\ m < Len(s) /\ m <= Len(s) /\ m <= Len(t)
    BY <1>1, <1>4
  <2>2. SubSeq(s, 1, m) = SubSeq(t, 1, m)
    BY <1>5, <2>1, PrefixesEqual
  <2> QED
    BY <1>4, <1>6, <2>1, <2>2 DEF Precedes
<1>7. ASSUME Precedes(s, t) PROVE s[m + 1] < t[m + 1]
  <2>1. PICK k \in 0 .. Len(s) :
          /\ k <= Len(t) /\ SubSeq(s, 1, k) = SubSeq(t, 1, k)
          /\ \/ k = Len(s) /\ k < Len(t)
             \/ k < Len(s) /\ k < Len(t) /\ s[k + 1] < t[k + 1]
    BY <1>7 DEF Precedes
  <2>2. k \in Nat /\ k <= Len(s)
    BY <1>1
  <2>3. \A i \in 0 .. k - 1 : s[i + 1] = t[i + 1]
    BY <2>1, <2>2, PrefixesEqual
  <2>4. k <= m
    <3>1. m \notin 0 .. k - 1
      BY <1>4, <2>3
    <3> QED
      BY <1>1, <1>4, <2>2, <3>1
  <2>5. k < Len(s) /\ k < Len(t) /\ s[k + 1] < t[k + 1]
    BY <1>1, <1>4, <2>1, <2>2, <2>4
  <2>6. k \in 0 .. Len(s) - 1 /\ k + 1 \in 1 .. Len(s)
    BY <1>1, <2>2, <2>5
  <2>7. s[k + 1] \in Nat
    BY <2>6, ByteSeq, VectorAssumption
  <2>8. s[k + 1] # t[k + 1]
    BY <2>5, <2>7
  <2>9. k \in D
    BY <2>5, <2>6, <2>8 DEF Differences
  <2>10. k = m
    BY <1>1, <1>3, <1>4, <2>2, <2>4, <2>9
  <2> QED
    BY <2>5, <2>10
<1>8. s # t
  BY <1>4
<1> QED
  BY <1>3, <1>6, <1>7, <1>8 DEF m

\* Of what two vectors hold the comparisons say what the standard says.
LEMMA ComparisonsHold ==
  ASSUME NEW v, NEW s, Holds(v, s), NEW w, NEW t, Holds(w, t)
  PROVE  /\ Equal(v, w) <=> s = t
         /\ Less(v, w) <=> Precedes(s, t)
         /\ AtMost(v, w) <=> Precedes(s, t) \/ s = t
<1>1. /\ v.size = Len(s) /\ Len(s) \in Nat /\ s \in Seq(Byte)
      /\ w.size = Len(t) /\ Len(t) \in Nat /\ t \in Seq(Byte)
  BY HoldsVector
<1>2. /\ Differing(v, w) = Differences(s, t)
      /\ \A i \in Differences(s, t) : v.cell[i] = s[i + 1] /\ w.cell[i] = t[i + 1]
      /\ Equal(v, w) <=> s = t
  BY DifferingIs
<1>3. CASE Differences(s, t) = {}
  <2>1. /\ Precedes(s, t) <=> Len(s) < Len(t)
        /\ s = t <=> Len(s) = Len(t)
    BY <1>1, <1>3, PrecedesBySize
  <2>2. /\ Less(v, w) <=> Len(s) < Len(t)
        /\ AtMost(v, w) <=> Len(s) <= Len(t)
    BY <1>1, <1>2, <1>3 DEF Less, AtMost
  <2> QED
    BY <1>1, <1>2, <2>1, <2>2
<1>4. CASE Differences(s, t) # {}
  <2> DEFINE i == First(Differences(s, t))
  <2>1. /\ i \in Differences(s, t) /\ s # t
        /\ Precedes(s, t) <=> s[i + 1] < t[i + 1]
    BY <1>1, <1>4, PrecedesByByte
  <2>2. /\ Less(v, w) <=> v.cell[i] < w.cell[i]
        /\ AtMost(v, w) <=> v.cell[i] < w.cell[i]
    BY <1>2, <1>4 DEF Less, AtMost
  <2> HIDE DEF i
  <2> QED
    BY <1>2, <2>1, <2>2
<1> QED
  BY <1>3, <1>4

\* operator==, operator< and operator<= on vectors that every call was sound on say
\* what the standard says of their contents (vector.hpp), for every size of the
\* packets.
THEOREM VectorsCompare == VectorSpec => []ComparesAsStandard
<1>1. VectorInv => ComparesAsStandard
  BY ComparisonsHold DEF VectorInv, ComparesAsStandard
<1> QED
  BY <1>1, VectorInductive, PTL DEF VectorSpec

-----------------------------------------------------------------------------
(* The vectors as packets of the ring                                      *)

\* A packet::Queued with the bytes and the length of x.
QueuedHolds(q, x) == Holds(q.data, x) /\ q.length = Len(x)

\* The entries of packet_buffer stand for the packets that f has in its slots.
EntriesHold(q, f) == \A i \in Slots : QueuedHolds(Entry(q, i), f[i])

\* What clients queue, and what pop leaves, are bytes that a vector takes.
LEMMA ContainedBytes ==
  ASSUME NEW x \in Contained
  PROVE  x \in Seq(Byte) /\ Len(x) <= MaxSize
<1>1. CASE x \in Packets
  BY <1>1, PayloadAssumption
<1>2. CASE x = Empty
  BY <1>2, PayloadAssumption, VectorAssumption, EmptySeq
<1> QED
  BY <1>1, <1>2 DEF Contained

\* packet::Queued{} is the empty packet.
LEMMA NewQueuedHolds == QueuedHolds(NewQueued, Empty)
<1> DEFINE e == <<>>
<1>1. Holds(Default, e) /\ Len(e) = 0 /\ e = Empty
  BY DefaultHolds, EmptySeq, PayloadAssumption
<1> HIDE DEF e
<1> QED
  BY <1>1 DEF QueuedHolds, NewQueued

\* A packet is not the absence of one.
LEMMA NotMissing ==
  ASSUME NEW d, NEW l
  PROVE  [data |-> d, length |-> l] # Missing
<1>1. "data" \in DOMAIN [data |-> d, length |-> l] /\ "data" \notin DOMAIN Missing
  BY DEF Missing
<1> QED
  BY <1>1

\* push carries the caller's bytes over, and their number.
LEMMA CarriedHolds ==
  ASSUME NEW x \in Contained
  PROVE  QueuedHolds(Carried(x), x)
<1>1. Holds(Constructed(x), x)
  BY ContainedBytes, ConstructedHolds
<1>2. Holds(Copied(Constructed(x)), x) /\ Constructed(x).size = Len(x)
  BY <1>1, CopiedHolds, HoldsVector
<1> QED
  BY <1>2 DEF QueuedHolds, Carried

\* A packet assigned to another leaves nothing of that one.
LEMMA MoveAssignedHolds ==
  ASSUME NEW to, NEW y, QueuedHolds(to, y), NEW from, NEW x \in Contained, QueuedHolds(from, x)
  PROVE  QueuedHolds(MoveAssigned(to, from), x) /\ MoveAssigned(to, from) # Missing
<1>1. Holds(to.data, y) /\ Bytes(from.data) = x /\ from.length = Len(x)
  BY DEF QueuedHolds, Holds
<1>2. Holds(Assigned(to.data, x), x)
  BY <1>1, ContainedBytes, AssignedHolds
<1>3. MoveAssigned(to, from) = [data |-> Assigned(to.data, x), length |-> Len(x)]
  BY <1>1 DEF MoveAssigned
<1> QED
  BY <1>2, <1>3, NotMissing DEF QueuedHolds

\* What is sent for a packet is its bytes.
LEMMA DatagramIs ==
  ASSUME NEW q, NEW x, QueuedHolds(q, x)
  PROVE  Datagram(q) = x
<1>1. PICK v : v = q.data
  OBVIOUS
<1>2. /\ v.size = Len(x) /\ Len(x) \in Nat /\ x \in Seq(Byte) /\ q.length = Len(x)
      /\ x = [i \in 1 .. v.size |-> v.cell[i - 1]]
  BY <1>1, HoldsVector DEF QueuedHolds, Holds, Bytes
<1>3. CASE v.size = 0
  <2>1. x = <<>>
    BY <1>2, <1>3, EmptySeq
  <2> QED
    BY <1>1, <1>3, <2>1 DEF Datagram
<1>4. CASE v.size # 0
  BY <1>1, <1>2, <1>4 DEF Datagram
<1> QED
  BY <1>3, <1>4

\* A slot written with a packet stands for that packet.
LEMMA EntryWritten ==
  ASSUME NEW q, DOMAIN q = Slots, NEW f, DOMAIN f = Slots, EntriesHold(q, f),
         NEW i \in Slots, NEW p, NEW x, QueuedHolds(p, x), p # Missing
  PROVE  EntriesHold([q EXCEPT ![i] = p], [f EXCEPT ![i] = x])
<1> DEFINE r == [q EXCEPT ![i] = p]
           g == [f EXCEPT ![i] = x]
<1>1. ASSUME NEW k \in Slots PROVE QueuedHolds(Entry(r, k), g[k])
  <2>1. CASE k = i
    <3>1. Entry(r, k) = p /\ g[k] = x
      BY <2>1 DEF Entry
    <3> QED
      BY <3>1
  <2>2. CASE k # i
    <3>1. r[k] = q[k] /\ g[k] = f[k]
      BY <2>2
    <3>2. Entry(r, k) = Entry(q, k)
      BY <3>1 DEF Entry
    <3> QED
      BY <3>1, <3>2 DEF EntriesHold
  <2> QED
    BY <2>1, <2>2
<1> QED
  BY <1>1 DEF EntriesHold

\* A slot erased stands for the empty packet.
LEMMA EntryErased ==
  ASSUME NEW q, DOMAIN q = Slots, NEW f, DOMAIN f = Slots, EntriesHold(q, f), NEW i \in Slots
  PROVE  EntriesHold([q EXCEPT ![i] = Missing], [f EXCEPT ![i] = Empty])
<1> DEFINE r == [q EXCEPT ![i] = Missing]
           g == [f EXCEPT ![i] = Empty]
<1>1. ASSUME NEW k \in Slots PROVE QueuedHolds(Entry(r, k), g[k])
  <2>1. CASE k = i
    <3>1. Entry(r, k) = NewQueued /\ g[k] = Empty
      BY <2>1 DEF Entry
    <3> QED
      BY <3>1, NewQueuedHolds
  <2>2. CASE k # i
    <3>1. r[k] = q[k] /\ g[k] = f[k]
      BY <2>2
    <3>2. Entry(r, k) = Entry(q, k)
      BY <3>1 DEF Entry
    <3> QED
      BY <3>1, <3>2 DEF EntriesHold
  <2> QED
    BY <2>1, <2>2
<1> QED
  BY <1>1 DEF EntriesHold

\* pop looks a slot up, and erases the one behind it.
LEMMA SlotsPoppedHold ==
  ASSUME NEW q, DOMAIN q = Slots, NEW f, DOMAIN f = Slots, EntriesHold(q, f),
         f = [i \in Slots |-> f[i]], NEW i \in Slots, (i + 1) % Capacity \in Slots
  PROVE  /\ EntriesHold(SlotsPopped(q, i), [f EXCEPT ![(i + 1) % Capacity] = Empty])
         /\ DOMAIN SlotsPopped(q, i) = Slots
<1> DEFINE p == Entry(q, i)
           r == [q EXCEPT ![i] = p]
<1>1. QueuedHolds(p, f[i])
  BY DEF EntriesHold
<1>2. p # Missing
  <2>1. CASE q[i] = Missing
    <3>1. p = [data |-> Default, length |-> 0]
      BY <2>1 DEF Entry, NewQueued
    <3> QED
      BY <3>1, NotMissing
  <2>2. CASE q[i] # Missing
    BY <2>2 DEF Entry
  <2> QED
    BY <2>1, <2>2
<1> HIDE DEF p
<1>3. EntriesHold(r, [f EXCEPT ![i] = f[i]])
  BY <1>1, <1>2, EntryWritten
<1>4. [f EXCEPT ![i] = f[i]] = f
  OBVIOUS
<1>5. DOMAIN r = Slots
  OBVIOUS
<1> DEFINE k == (i + 1) % Capacity
<1> HIDE DEF r, k
<1>6. k \in Slots
  BY DEF k
<1>7. EntriesHold([r EXCEPT ![k] = Missing], [f EXCEPT ![k] = Empty])
  BY <1>3, <1>4, <1>5, <1>6, EntryErased
<1>8. SlotsPopped(q, i) = [r EXCEPT ![k] = Missing]
  BY DEF SlotsPopped, r, k, p
<1> QED
  BY <1>5, <1>7, <1>8 DEF k

-----------------------------------------------------------------------------
(* The loop of remove() on the slots                                       *)

\* g holds the slots between the first n pops of a loop that starts with the slots
\* q and the buffer b.
IsLoop(g, n, q, b) ==
  g = [m \in 0 .. n |-> IF m = 0 THEN q ELSE SlotsPopped(g[m - 1], At(b, m - 1))]

\* The recursion has a solution, of every length.
LEMMA LoopExists ==
  ASSUME NEW q, NEW b, NEW n \in Nat
  PROVE  \E g : IsLoop(g, n, q, b)
<1> DEFINE S == {m \in Nat : \E g : IsLoop(g, m, q, b)}
<1>1. 0 \in S
  <2>1. IsLoop([m \in 0 .. 0 |-> q], 0, q, b)
    BY DEF IsLoop
  <2> QED
    BY <2>1
<1>2. ASSUME NEW m \in Nat, m \in S PROVE m + 1 \in S
  <2>1. PICK g : IsLoop(g, m, q, b)
    BY <1>2
  <2> DEFINE h == [i \in 0 .. m + 1 |->
                     IF i <= m THEN g[i] ELSE SlotsPopped(g[m], At(b, m))]
  <2>2. ASSUME NEW i \in 0 .. m + 1
        PROVE  h[i] = IF i = 0 THEN q ELSE SlotsPopped(h[i - 1], At(b, i - 1))
    <3>1. CASE i = 0
      <4>1. 0 \in 0 .. m /\ h[0] = g[0]
        OBVIOUS
      <4> HIDE DEF h
      <4> QED
        BY <2>1, <3>1, <4>1 DEF IsLoop
    <3>2. CASE i # 0 /\ i <= m
      <4>1. i \in 0 .. m /\ i - 1 \in 0 .. m /\ h[i] = g[i] /\ h[i - 1] = g[i - 1]
        BY <3>2
      <4> HIDE DEF h
      <4>2. g[i] = SlotsPopped(g[i - 1], At(b, i - 1))
        BY <2>1, <3>2, <4>1 DEF IsLoop
      <4> QED
        BY <3>2, <4>1, <4>2
    <3>3. CASE i = m + 1
      <4>1. i # 0 /\ i - 1 = m /\ h[i] = SlotsPopped(g[m], At(b, m)) /\ h[m] = g[m]
        BY <3>3
      <4> HIDE DEF h
      <4> QED
        BY <4>1
    <3> QED
      BY <3>1, <3>2, <3>3
  <2>3. h = [i \in 0 .. m + 1 |-> h[i]]
    OBVIOUS
  <2> HIDE DEF h
  <2>4. IsLoop(h, m + 1, q, b)
    BY <2>2, <2>3 DEF IsLoop
  <2> QED
    BY <2>4
<1> HIDE DEF S
<1>3. Nat \subseteq S
  BY <1>1, <1>2, SetInduction
<1> QED
  BY <1>3 DEF S

\* Pop by pop the slots stand for what the buffer has in them.
LEMMA LoopHolds ==
  ASSUME NEW b \in Buffer, Capacity > 0,
         NEW q, DOMAIN q = Slots, EntriesHold(q, b.slot),
         NEW g, IsLoop(g, Capacity, q, b), NEW n \in 0 .. Capacity
  PROVE  DOMAIN g[n] = Slots /\ EntriesHold(g[n], AfterPops(b, n).slot)
<1> DEFINE Good(m) == DOMAIN g[m] = Slots /\ EntriesHold(g[m], AfterPops(b, m).slot)
           S == {m \in Nat : m \in 0 .. Capacity => Good(m)}
<1>1. 0 \in S
  <2>1. 0 \in 0 .. Capacity
    BY CapacityAssumption
  <2>2. g[0] = q /\ AfterPops(b, 0) = b
    BY <2>1, NoPops DEF IsLoop
  <2> QED
    BY <2>2
<1>2. ASSUME NEW m \in Nat, m \in S PROVE m + 1 \in S
  <2> SUFFICES ASSUME m + 1 \in 0 .. Capacity PROVE Good(m + 1)
    OBVIOUS
  <2>1. m \in 0 .. Capacity - 1 /\ m \in 0 .. Capacity /\ m + 1 # 0 /\ (m + 1) - 1 = m
    BY CapacityAssumption
  <2>2. Good(m)
    BY <1>2, <2>1
  <2> DEFINE f == AfterPops(b, m).slot
             i == At(b, m)
  <2>3. g[m + 1] = SlotsPopped(g[m], i)
    <3>1. g[m + 1] = SlotsPopped(g[(m + 1) - 1], At(b, (m + 1) - 1))
      BY <2>1 DEF IsLoop
    <3> QED
      BY <2>1, <3>1
  <2>4. i \in Slots /\ (i + 1) % Capacity \in Slots
    <3>1. i \in Slots
      BY AtInSlots
    <3> QED
      BY <3>1, CapacityAssumption DEF Slots
  <2>5. f = [j \in Slots |-> f[j]] /\ DOMAIN f = Slots
    BY DEF AfterPops
  <2>6. AfterPops(b, m + 1).slot = [f EXCEPT ![(i + 1) % Capacity] = Empty]
    <3>1. Pop(AfterPops(b, m)) = AfterPops(b, m + 1)
      BY <2>1, OneMorePop
    <3>2. Pop(AfterPops(b, m)).slot
            = [AfterPops(b, m).slot EXCEPT ![At(AfterPops(b, m), 1)] = Empty]
      BY DEF Pop
    <3>3. At(AfterPops(b, m), 1) = (i + 1) % Capacity
      BY DEF At, AfterPops
    <3> QED
      BY <3>1, <3>2, <3>3
  <2>7. DOMAIN g[m] = Slots /\ EntriesHold(g[m], f)
    BY <2>2
  <2> HIDE DEF f, i
  <2>8. /\ EntriesHold(SlotsPopped(g[m], i), [f EXCEPT ![(i + 1) % Capacity] = Empty])
        /\ DOMAIN SlotsPopped(g[m], i) = Slots
    BY <2>4, <2>5, <2>7, SlotsPoppedHold
  <2> QED
    BY <2>3, <2>6, <2>8
<1> HIDE DEF S
<1>3. Nat \subseteq S
  BY <1>1, <1>2, SetInduction
<1>4. n \in Nat
  BY CapacityAssumption
<1> QED
  BY <1>3, <1>4 DEF S

-----------------------------------------------------------------------------
(* Every sequence of pushes, pops and removals                             *)

BytesInv ==
  /\ RingInv
  /\ DOMAIN slots = Slots /\ EntriesHold(slots, ring.slot)
  /\ sent = taken

\* The invariant is what the two properties say.
LEMMA BytesInvMeaning == BytesInv => SlotsHoldPackets /\ SentAsTaken
BY DEF BytesInv, SlotsHoldPackets, SentAsTaken, EntriesHold, QueuedHolds, Holds

\* The slots of a well-formed ring hold packets.
LEMMA RingSlots ==
  ASSUME RingInv
  PROVE  /\ ring \in Buffer /\ ring.slot \in [Slots -> Contained]
         /\ DOMAIN ring.slot = Slots /\ ring.slot = [i \in Slots |-> ring.slot[i]]
         /\ ring.size > 0 => Capacity > 0 /\ ring.index \in Slots
BY CapacityAssumption DEF RingInv, RingTypeOK, Buffer

\* packet_buffer starts without entries.
LEMMA BytesInitInv == BytesInit => BytesInv
<1> SUFFICES ASSUME BytesInit PROVE BytesInv
  OBVIOUS
<1>1. RingInv /\ ring = NewBuffer /\ slots = [i \in Slots |-> Missing] /\ sent = taken
  BY RingInitInv DEF BytesInit, RingInit
<1>2. ASSUME NEW i \in Slots PROVE QueuedHolds(Entry(slots, i), ring.slot[i])
  <2>1. Entry(slots, i) = NewQueued /\ ring.slot[i] = Empty
    BY <1>1 DEF Entry, NewBuffer
  <2> QED
    BY <2>1, NewQueuedHolds
<1> QED
  BY <1>1, <1>2 DEF BytesInv, EntriesHold

\* push_locked writes one packet, whatever its slot has held.
LEMMA BytesPushInv ==
  ASSUME BytesInv, NEW x \in Packets, BytesPush(x)
  PROVE  DOMAIN slots' = Slots /\ EntriesHold(slots', ring'.slot) /\ sent' = taken'
<1> DEFINE i == At(ring, ring.size)
           p == MoveAssigned(Entry(slots, i), Carried(x))
<1>1. /\ RingInv /\ ~IsFull(ring) /\ ring' = Put(ring, x)
      /\ slots' = [slots EXCEPT ![i] = p] /\ sent' = taken'
      /\ DOMAIN slots = Slots /\ EntriesHold(slots, ring.slot)
  BY DEF BytesInv, BytesPush, RingPush
<1>2. i \in Slots
  <2>1. ring \in Buffer /\ Capacity > 0 /\ ring.size \in Nat
    BY <1>1, CapacityAssumption, RingSlots DEF IsFull, Buffer
  <2> QED
    BY <2>1, AtInSlots
<1>3. x \in Contained
  BY DEF Contained
<1>4. QueuedHolds(p, x) /\ p # Missing
  <2>1. QueuedHolds(Entry(slots, i), ring.slot[i])
    BY <1>1, <1>2 DEF EntriesHold
  <2>2. QueuedHolds(Carried(x), x)
    BY <1>3, CarriedHolds
  <2> QED
    BY <1>3, <2>1, <2>2, MoveAssignedHolds
<1>5. ring'.slot = [ring.slot EXCEPT ![i] = x]
  BY <1>1, RingSlots DEF Put, Buffer
<1> HIDE DEF i, p
<1>6. EntriesHold([slots EXCEPT ![i] = p], [ring.slot EXCEPT ![i] = x])
  BY <1>1, <1>2, <1>4, RingSlots, EntryWritten
<1> QED
  BY <1>1, <1>5, <1>6

\* pop hands the packet of the front slot out, byte by byte.
LEMMA BytesPopInv ==
  ASSUME BytesInv, BytesPop
  PROVE  DOMAIN slots' = Slots /\ EntriesHold(slots', ring'.slot) /\ sent' = taken'
<1> DEFINE i == ring.index
<1>1. /\ RingInv /\ ring.size > 0 /\ ring' = Pop(ring)
      /\ slots' = SlotsPopped(slots, i) /\ taken' = ring.slot[i]
      /\ sent' = Datagram(MoveAssigned(NewQueued, Entry(slots, i)))
      /\ DOMAIN slots = Slots /\ EntriesHold(slots, ring.slot)
  BY DEF BytesInv, BytesPop, RingPop, Front
<1>2. Capacity > 0 /\ i \in Slots /\ (i + 1) % Capacity \in Slots
  <2>1. Capacity > 0 /\ i \in Slots
    BY <1>1, RingSlots
  <2> QED
    BY <2>1, CapacityAssumption DEF Slots
<1>3. ring'.slot = [ring.slot EXCEPT ![(i + 1) % Capacity] = Empty]
  BY <1>1 DEF Pop, At
<1>4. sent' = taken'
  <2>1. QueuedHolds(Entry(slots, i), ring.slot[i]) /\ ring.slot[i] \in Contained
    BY <1>1, <1>2, RingSlots DEF EntriesHold
  <2>2. QueuedHolds(MoveAssigned(NewQueued, Entry(slots, i)), ring.slot[i])
    BY <2>1, NewQueuedHolds, MoveAssignedHolds
  <2> QED
    BY <1>1, <2>2, DatagramIs
<1> HIDE DEF i
<1>5. /\ EntriesHold(SlotsPopped(slots, i), [ring.slot EXCEPT ![(i + 1) % Capacity] = Empty])
      /\ DOMAIN SlotsPopped(slots, i) = Slots
  BY <1>1, <1>2, RingSlots, SlotsPoppedHold
<1> QED
  BY <1>1, <1>3, <1>4, <1>5

\* remove() pops them one after the other.
LEMMA BytesDrainInv ==
  ASSUME BytesInv, BytesDrain
  PROVE  DOMAIN slots' = Slots /\ EntriesHold(slots', ring'.slot) /\ sent' = taken'
<1> DEFINE g == CHOOSE f : f = [n \in 0 .. Capacity |->
                  IF n = 0 THEN slots ELSE SlotsPopped(f[n - 1], At(ring, n - 1))]
<1>1. /\ RingInv /\ ring \in Buffer /\ ring' = Drain(ring)
      /\ slots' = g[ring.size] /\ sent' = taken'
      /\ DOMAIN slots = Slots /\ EntriesHold(slots, ring.slot)
  BY RingSlots DEF BytesInv, BytesDrain, RingDrain
<1>2. IsLoop(g, Capacity, slots, ring)
  <2>1. \E f : f = [n \in 0 .. Capacity |->
                  IF n = 0 THEN slots ELSE SlotsPopped(f[n - 1], At(ring, n - 1))]
    <3>1. PICK f : IsLoop(f, Capacity, slots, ring)
      BY CapacityAssumption, LoopExists
    <3> QED
      BY <3>1 DEF IsLoop
  <2> QED
    BY <2>1 DEF IsLoop
<1> HIDE DEF g
<1>3. ring.size \in 0 .. Capacity /\ 0 \in 0 .. Capacity
  BY <1>1, CapacityAssumption DEF Buffer
<1>4. CASE ring.size = 0
  <2>1. g[0] = slots
    BY <1>2, <1>3 DEF IsLoop
  <2> QED
    BY <1>1, <1>4, <2>1 DEF Drain
<1>5. CASE ring.size # 0
  <2>1. Capacity > 0
    BY <1>3, <1>5, CapacityAssumption
  <2>2. DOMAIN g[ring.size] = Slots /\ EntriesHold(g[ring.size], AfterPops(ring, ring.size).slot)
    BY <1>1, <1>2, <1>3, <2>1, LoopHolds
  <2>3. Drain(ring).slot = AfterPops(ring, ring.size).slot
    BY <1>5 DEF Drain, AfterPops
  <2> QED
    BY <1>1, <2>2, <2>3
<1> QED
  BY <1>4, <1>5

\* Every operation keeps the slots standing for the packets of the ring.
LEMMA BytesStepInv == BytesInv /\ [BytesNext]_bytevars => BytesInv'
<1> SUFFICES ASSUME BytesInv, [BytesNext]_bytevars PROVE BytesInv'
  OBVIOUS
<1>1. RingInv'
  <2>1. [RingNext]_ringvars
    BY DEF BytesNext, BytesPush, BytesPop, BytesDrain, RingNext, bytevars
  <2> QED
    BY <2>1, RingStepInv DEF BytesInv
<1>2. DOMAIN slots' = Slots /\ EntriesHold(slots', ring'.slot) /\ sent' = taken'
  <2>1. CASE \E x \in Packets : BytesPush(x)
    BY <2>1, BytesPushInv
  <2>2. CASE BytesPop
    BY <2>2, BytesPopInv
  <2>3. CASE BytesDrain
    BY <2>3, BytesDrainInv
  <2>4. CASE UNCHANGED bytevars
    BY <2>4 DEF bytevars, ringvars, BytesInv
  <2> QED
    BY <2>1, <2>2, <2>3, <2>4 DEF BytesNext
<1>3. EntriesHold(slots', ring'.slot) => EntriesHold(slots, ring.slot)'
  BY DEF EntriesHold, QueuedHolds, Entry, Holds, IsVector, Bytes
<1> QED
  BY <1>1, <1>2, <1>3 DEF BytesInv

\* A slot that has an entry has the bytes and the length of the packet in the
\* ring's slot, whatever longer or shorter packet the entry was made for
\* (Item.h, Queue.h and vector.hpp), for every capacity and every size of packet.
THEOREM SlotsStandForPackets == BytesSpec => []SlotsHoldPackets
BY BytesInitInv, BytesStepInv, BytesInvMeaning, PTL DEF BytesSpec

\* What is sent for a packet is that packet, byte by byte: no byte of an older packet
\* that had the same slot, and none that was never written (udpqueue.cpp,
\* process_with_socket), for every capacity and every size of packet.
THEOREM PacketsAreSentWhole == BytesSpec => []SentAsTaken
BY BytesInitInv, BytesStepInv, BytesInvMeaning, PTL DEF BytesSpec
=============================================================================
