----------------------------- MODULE ByteVector -----------------------------
(***************************************************************************)
(* lni::vector<uint8_t>: an allocated array of rsrv_sz cells of which the  *)
(* first vec_sz are in use.  Every operation is an operator from vectors   *)
(* to vectors that does to the cells what the code does: where it makes    *)
(* room, how much, and what memmove and the loops then write.              *)
(*                                                                         *)
(* Cells and positions are counted from zero, as in the code; the bytes a  *)
(* caller passes are a sequence.  What the cells behind vec_sz hold is not *)
(* told apart: nobody has written them, or nobody may rely on it.          *)
(***************************************************************************)
EXTENDS Integers, Sequences

CONSTANTS
  Byte,     \* the values of uint8_t, zero among them
  Junk,     \* what a cell holds that was not written
  MaxSize,  \* LNI_VECTOR_MAX_SZ, 10^9 in the code
  Modulus   \* of size_type, 2^32 in the code

\* Four times max_size() is still a size_type.
ASSUME VectorAssumption ==
  /\ 0 \in Byte /\ Byte \subseteq Nat
  /\ Junk \notin Byte
  /\ MaxSize \in Nat \ {0}
  /\ Modulus \in Nat /\ 4 * MaxSize < Modulus

Cell == Byte \cup {Junk}

\* A vector that was written outside of its array: unlike any vector.
Broken == [broken |-> TRUE]

\* The size is within the array, and the cells behind it are not told apart.
IsVector(v) ==
  /\ v # Broken
  /\ v.rsrv \in Nat /\ v.size \in 0 .. v.rsrv
  /\ v.cell \in [0 .. v.rsrv - 1 -> Cell]
  /\ v = [rsrv |-> v.rsrv, size |-> v.size, cell |-> v.cell]
  /\ \A i \in v.size .. v.rsrv - 1 : v.cell[i] = Junk

\* begin() to end()
Bytes(v) == [i \in 1 .. v.size |-> v.cell[i - 1]]

-----------------------------------------------------------------------------
(* Memory                                                                  *)

\* new T[n]
Allocated(n) == [rsrv |-> n, size |-> 0, cell |-> [i \in 0 .. n - 1 |-> Junk]]

\* Mutation of Quadrupled: the capacity is the size.
NotQuadrupled(n) == n - 1

\* n << 2
Quadrupled(n) == (4 * n) % Modulus

\* rsrv_sz = n; reallocate().
Reallocated(v, n) ==
  [rsrv |-> n, size |-> v.size,
   cell |-> [i \in 0 .. n - 1 |-> IF i < v.size THEN v.cell[i] ELSE Junk]]

\* arr[at], arr[at + 1], ... = the bytes s
Written(v, at, s) ==
  [v EXCEPT !.cell = [i \in DOMAIN v.cell |->
                        IF i \in at .. at + Len(s) - 1 THEN s[i - at + 1] ELSE v.cell[i]]]

\* Mutation of Shifted: the copy starts one cell late.
ShiftedLate(v, to, from, n) ==
  [v EXCEPT !.cell = [i \in DOMAIN v.cell |->
                        IF i \in to + 1 .. to + n - 1 THEN v.cell[from + i - to] ELSE v.cell[i]]]

\* memmove(arr + to, arr + from, n)
Shifted(v, to, from, n) ==
  [v EXCEPT !.cell = [i \in DOMAIN v.cell |->
                        IF i \in to .. to + n - 1 THEN v.cell[from + i - to] ELSE v.cell[i]]]

\* vec_sz = n
Sized(v, n) ==
  [v EXCEPT !.size = n,
            !.cell = [i \in DOMAIN v.cell |-> IF i < n THEN v.cell[i] ELSE Junk]]

\* Room for n bytes in all, as assignments and insertions of several make it.
Roomy(v, n) == IF n > v.rsrv THEN Reallocated(v, Quadrupled(n)) ELSE v

\* Room for one more byte, as push_back and insertions of one make it.
Stretched(v) == IF v.size = v.rsrv THEN Reallocated(v, Quadrupled(v.rsrv)) ELSE v

\* The vector v with the bytes s written from at on and the size n, when its
\* array has the cells for its old bytes and for these.
Stored(v, at, s, n) ==
  IF v.size <= v.rsrv /\ at + Len(s) <= v.rsrv /\ n <= v.rsrv
  THEN Sized(Written(v, at, s), n) ELSE Broken

-----------------------------------------------------------------------------
(* Construction and assignment                                             *)

\* vector()
Default == Allocated(4)

\* The constructors from a count, a count and a value, a range, a list.
Constructed(s) == Stored(Allocated(Quadrupled(Len(s))), 0, s, Len(s))

\* The copy and the move constructor: both copy the bytes.
Copied(v) == Stored(Allocated(v.rsrv), 0, Bytes(v), v.size)

\* Mutation of Assigned: the size is not set.
AssignedUnsized(v, s) == Stored(Roomy(v, Len(s)), 0, s, v.size)

\* operator= from a vector, of either kind; assign from a count and a value and
\* from a range.
Assigned(v, s) == Stored(Roomy(v, Len(s)), 0, s, Len(s))

\* assign from a list: the size is not set.
AssignedList(v, s) == Stored(Roomy(v, Len(s)), 0, s, v.size)

-----------------------------------------------------------------------------
(* Capacity                                                                *)

\* resize(n), as LIST_ALL(RESIZE) specialises it: new bytes are not written.
Resized(v, n) == Sized(IF n > v.rsrv THEN Reallocated(v, n) ELSE v, n)

\* resize(n, x)
ResizedWith(v, n, x) ==
  LET r == IF n > v.rsrv THEN Reallocated(v, n) ELSE v
  IN  IF n > v.size THEN Stored(r, v.size, [i \in 1 .. n - v.size |-> x], n)
      ELSE Sized(v, n)

Reserved(v, n) == IF n > v.rsrv THEN Reallocated(v, n) ELSE v

\* shrink_to_fit
Shrunk(v) == Reallocated(v, v.size)

-----------------------------------------------------------------------------
(* Modifiers                                                               *)

\* push_back, emplace_back
PushedBack(v, x) == Stored(Stretched(v), v.size, <<x>>, v.size + 1)

\* pop_back
PoppedBack(v) == Sized(v, v.size - 1)

\* The array r of v, made roomy, with the bytes s inserted at position at.
InsertedIn(r, at, s) ==
  IF r.size + Len(s) > r.rsrv THEN Broken
  ELSE Stored(Shifted(r, at + Len(s), at, r.size - at), at, s, r.size + Len(s))

\* insert and emplace of one byte
InsertedOne(v, at, x) == InsertedIn(Stretched(v), at, <<x>>)

\* insert of a count of values, of a range, of a list
Inserted(v, at, s) ==
  IF s = <<>> THEN v ELSE InsertedIn(Roomy(v, v.size + Len(s)), at, s)

\* What a reference to byte j of v reads once insert has made room for n bytes
\* at position at, in r: nothing that was written if the array is a new one, and
\* the byte that memmove has put there if j lies behind the new bytes.
OwnByte(v, r, at, n, j) ==
  IF r.rsrv # v.rsrv THEN Junk ELSE Shifted(r, at + n, at, v.size - at).cell[j]

\* erase of the bytes from first to before last
Erased(v, first, last) ==
  IF first = last THEN v
  ELSE Sized(Shifted(v, first, last, v.size - last), v.size - (last - first))

\* clear
Cleared(v) == Sized(v, 0)

-----------------------------------------------------------------------------
(* Comparison                                                              *)

\* operator==
Equal(v, w) == v.size = w.size /\ \A i \in 0 .. v.size - 1 : v.cell[i] = w.cell[i]

\* The positions at which both have a byte, and not the same.
Differing(v, w) ==
  {i \in 0 .. (IF v.size < w.size THEN v.size ELSE w.size) - 1 : v.cell[i] # w.cell[i]}

First(positions) == CHOOSE i \in positions : \A j \in positions : i <= j

\* Mutation of Less: the size decides first.
LessBySize(v, w) ==
  IF v.size # w.size \/ Differing(v, w) = {} THEN v.size < w.size
  ELSE LET i == First(Differing(v, w)) IN v.cell[i] < w.cell[i]

\* operator<, and operator> the other way round
Less(v, w) ==
  IF Differing(v, w) = {} THEN v.size < w.size
  ELSE LET i == First(Differing(v, w)) IN v.cell[i] < w.cell[i]

\* operator<=, and operator>= the other way round
AtMost(v, w) ==
  IF Differing(v, w) = {} THEN v.size <= w.size
  ELSE LET i == First(Differing(v, w)) IN v.cell[i] < w.cell[i]
=============================================================================
