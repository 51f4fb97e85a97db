--------------------------- MODULE VectorContents ---------------------------
(***************************************************************************)
(* Named lni::vectors beside the sequences that std::vectors would hold    *)
(* after the same calls: the class follows its sections of the standard    *)
(* (vector.hpp:29, 57, 83).  sound says, of each call, whether the vector  *)
(* still holds its sequence after it; Init, construction and every call    *)
(* below state it, and ContentsAsStandard says that they state it right.   *)
(***************************************************************************)
EXTENDS ByteVector

CONSTANTS
  Names,  \* the vectors
  Limit   \* bound: no vector is made longer

ASSUME LimitAssumption == Limit \in Nat

VARIABLES
  vec,   \* each vector
  ref,   \* the sequence it should hold
  sound  \* whether it does

vectorvars == <<vec, ref, sound>>

Short == UNION {[1 .. n -> Byte] : n \in 0 .. Limit}

\* What a vector holds that does not hold its sequence is not told apart.
Becomes(n, v, s, ok) ==
  /\ Len(s) <= Limit
  /\ vec' = [vec EXCEPT ![n] = IF ok THEN v ELSE Broken]
  /\ ref' = [ref EXCEPT ![n] = IF ok THEN s ELSE <<>>]
  /\ sound' = [sound EXCEPT ![n] = ok]

\* s with t in the place of the elements from first to before last.
Spliced(s, first, last, t) == SubSeq(s, 1, first) \o t \o SubSeq(s, last + 1, Len(s))

VectorInit ==
  /\ vec = [n \in Names |-> Default]
  /\ ref = [n \in Names |-> <<>>]
  /\ sound = [n \in Names |-> TRUE]

-----------------------------------------------------------------------------
(* Operations, on a vector that holds its sequence.  Sizes of more than    *)
(* MaxSize are no caller's right, but nothing in the code refuses them.    *)

\* Destruction, and construction anew.
ConstructDefault(n) == Becomes(n, Default, <<>>, TRUE)

Construct(n, s) == Becomes(n, Constructed(s), s, Len(s) <= MaxSize)

CopyConstruct(n, m) ==
  /\ sound[m] /\ n # m
  /\ Becomes(n, Copied(vec[m]), ref[m], TRUE)

AssignFrom(n, m) ==
  /\ sound[n] /\ sound[m]
  /\ Becomes(n, Assigned(vec[n], Bytes(vec[m])), ref[m],
             Len(ref[m]) <= vec[n].rsrv \/ Len(ref[m]) <= MaxSize)

Assign(n, s) ==
  /\ sound[n]
  /\ Becomes(n, Assigned(vec[n], s), s, Len(s) <= vec[n].rsrv \/ Len(s) <= MaxSize)

\* assign from a list of another length than the vector's leaves it its size.
AssignList(n, s) ==
  /\ sound[n]
  /\ Becomes(n, AssignedList(vec[n], s), s, Len(s) = Len(ref[n]))

\* resize to more bytes leaves the new ones unwritten.
Resize(n, k) ==
  /\ sound[n]
  /\ Becomes(n, Resized(vec[n], k),
             [i \in 1 .. k |-> IF i <= Len(ref[n]) THEN ref[n][i] ELSE 0],
             k <= Len(ref[n]))

ResizeWith(n, k, x) ==
  /\ sound[n]
  /\ Becomes(n, ResizedWith(vec[n], k, x),
             [i \in 1 .. k |-> IF i <= Len(ref[n]) THEN ref[n][i] ELSE x], TRUE)

Reserve(n, k) == sound[n] /\ Becomes(n, Reserved(vec[n], k), ref[n], TRUE)

ShrinkToFit(n) == sound[n] /\ Becomes(n, Shrunk(vec[n]), ref[n], TRUE)

\* Whether there is a byte left, or growth by four makes room: from a capacity
\* of zero it does not.
CanStretch(v) == v.size < v.rsrv \/ v.rsrv \in 1 .. MaxSize

PushBack(n, x) ==
  /\ sound[n]
  /\ Becomes(n, PushedBack(vec[n], x), Append(ref[n], x), CanStretch(vec[n]))

\* push_back(v[j]) on v: the reference does not survive a reallocation.
PushOwn(n, j) ==
  LET v == vec[n]
  IN  /\ sound[n] /\ j < v.size
      /\ Becomes(n, PushedBack(v, OwnByte(v, Stretched(v), v.size, 1, j)),
                 Append(ref[n], ref[n][j + 1]), v.size < v.rsrv)

PopBack(n) ==
  /\ sound[n] /\ ref[n] # <<>>
  /\ Becomes(n, PoppedBack(vec[n]), SubSeq(ref[n], 1, Len(ref[n]) - 1), TRUE)

InsertOne(n, at, x) ==
  /\ sound[n] /\ at <= Len(ref[n])
  /\ Becomes(n, InsertedOne(vec[n], at, x), Spliced(ref[n], at, at, <<x>>),
             CanStretch(vec[n]))

\* insert(at, v[j]) on v: the reference must survive the reallocation, and the
\* byte must not have been moved.
InsertOwn(n, at, j) ==
  LET v == vec[n]
  IN  /\ sound[n] /\ at <= v.size /\ j < v.size
      /\ Becomes(n, InsertedOne(v, at, OwnByte(v, Stretched(v), at, 1, j)),
                 Spliced(ref[n], at, at, <<ref[n][j + 1]>>),
                 v.size < v.rsrv /\ j <= at)

Insert(n, at, s) ==
  /\ sound[n] /\ at <= Len(ref[n])
  /\ Becomes(n, Inserted(vec[n], at, s), Spliced(ref[n], at, at, s),
             LET size == Len(ref[n]) + Len(s)
             IN  size <= vec[n].rsrv \/ size <= MaxSize)

Erase(n, first, last) ==
  /\ sound[n] /\ first <= last /\ last <= Len(ref[n])
  /\ Becomes(n, Erased(vec[n], first, last), Spliced(ref[n], first, last, <<>>), TRUE)

Clear(n) == sound[n] /\ Becomes(n, Cleared(vec[n]), <<>>, TRUE)

Swap(n, m) ==
  /\ sound[n] /\ sound[m]
  /\ vec' = [vec EXCEPT ![n] = vec[m], ![m] = vec[n]]
  /\ ref' = [ref EXCEPT ![n] = ref[m], ![m] = ref[n]]
  /\ UNCHANGED sound

VectorNext ==
  \E n \in Names :
    \/ \E s \in Short : Construct(n, s) \/ Assign(n, s) \/ AssignList(n, s)
    \/ \E m \in Names : CopyConstruct(n, m) \/ AssignFrom(n, m) \/ Swap(n, m)
    \/ \E k \in 0 .. Limit :
         \/ Resize(n, k) \/ Reserve(n, k) \/ PushOwn(n, k)
         \/ \E x \in Byte : ResizeWith(n, k, x) \/ InsertOne(n, k, x)
         \/ \E j \in 0 .. Limit : InsertOwn(n, k, j) \/ Erase(n, k, j)
         \/ \E s \in Short : Insert(n, k, s)
    \/ \E x \in Byte : PushBack(n, x)
    \/ ConstructDefault(n) \/ PopBack(n) \/ ShrinkToFit(n) \/ Clear(n)

VectorSpec == VectorInit /\ [][VectorNext]_vectorvars

-----------------------------------------------------------------------------
\* A vector is an array with its size, unless it was written outside of it.
VectorTypeOK ==
  /\ sound \in [Names -> BOOLEAN]
  /\ DOMAIN vec = Names /\ DOMAIN ref = Names
  /\ \A n \in Names : sound[n] => IsVector(vec[n]) /\ ref[n] \in Seq(Byte)

\* Whatever sequence of calls, a vector that every call was sound on holds what
\* the standard says: growth made room for what was then written, memmove and
\* the loops put every byte in its place, and no capacity that an operation
\* leaves (zero after shrink_to_fit, say) brings a later one to grief unnoticed.
ContentsAsStandard ==
  \A n \in Names : sound[n] => vec[n] # Broken /\ Bytes(vec[n]) = ref[n]

\* The order of the standard: lexicographic.
Precedes(s, t) ==
  \E k \in 0 .. Len(s) :
    /\ k <= Len(t) /\ SubSeq(s, 1, k) = SubSeq(t, 1, k)
    /\ \/ k = Len(s) /\ k < Len(t)
       \/ k < Len(s) /\ k < Len(t) /\ s[k + 1] < t[k + 1]

\* Of two vectors the comparisons say what the standard says of their contents.
ComparesAsStandard ==
  \A n, m \in Names :
    sound[n] /\ sound[m] =>
      /\ Equal(vec[n], vec[m]) <=> ref[n] = ref[m]
      /\ Less(vec[n], vec[m]) <=> Precedes(ref[n], ref[m])
      /\ AtMost(vec[n], vec[m]) <=> Precedes(ref[n], ref[m]) \/ ref[n] = ref[m]
=============================================================================
