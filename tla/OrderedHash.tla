----------------------------- MODULE OrderedHash -----------------------------
(***************************************************************************)
(* tsl::detail_ordered_hash::ordered_hash: a vector of values in insertion *)
(* order, and a robin hood table with linear probing and backward shift    *)
(* deletion whose buckets hold indexes into that vector.                   *)
(*                                                                         *)
(* Keys stand for the values.  Buckets and indexes are counted from zero   *)
(* as in the code; the vector is a sequence, counted from one.             *)
(***************************************************************************)
EXTENDS Integers, FiniteSets, SequencesExt

CONSTANTS
  Keys,
  Hash,       \* hash_key: a function from Keys to Nat
  TruncMod,   \* of truncated_hash_type, 2^32 in the code
  LoadFactors,\* the load factors that callers set, in twentieths
  MaxValues,  \* max_size(): the vector is not made longer
  Vacant,     \* a bucket whose index is EMPTY_MARKER_INDEX
  Ranges,     \* bound: the ranges of values that callers insert
  Probes,     \* REHASH_ON_HIGH_NB_PROBES__NPROBES; the code's is 128
  MaxBuckets  \* bound: the table is not grown beyond it

ASSUME HashAssumption ==
  /\ Hash \in [Keys -> Nat]
  /\ Ranges \subseteq Seq(Keys)
  /\ Probes \in Nat /\ MaxValues \in Nat
  /\ MaxBuckets \in Nat

\* The powers of two.
TwoTo[n \in Nat] == IF n = 0 THEN 1 ELSE 2 * TwoTo[n - 1]

\* What marks a bucket as vacant is no entry.
ASSUME VacantAssumption == Vacant \notin [index : Nat, hash : Nat]

\* No table has more buckets than there are truncated hashes: beyond 2^32 buckets
\* insert_impl and find_key, which start from the whole hash, and the distances,
\* which go by the truncated one, would disagree.
ASSUME TruncationAssumption ==
  /\ TruncMod \in {TwoTo[j] : j \in 0 .. TruncMod}
  /\ MaxBuckets <= TruncMod

\* What the clamp in max_load_factor lets through, 0.1 to 0.95.  The line after it
\* stores the argument as it came, so that it is the caller's to keep to this.
ASSUME FactorAssumption == LoadFactors \subseteq 2 .. 19

VARIABLES
  m_values,              \* the keys, in insertion order
  m_buckets,             \* from 0 .. bucket_count() - 1 to entries or Vacant
  m_load_threshold,
  m_max_load_factor,     \* in twentieths
  m_grow_on_next_insert

hashvars == <<m_values, m_buckets, m_load_threshold, m_max_load_factor,
              m_grow_on_next_insert>>

-----------------------------------------------------------------------------
(* Buckets                                                                 *)

\* truncate_hash
Truncated(h) == h % TruncMod

Entry(index, hash) == [index |-> index, hash |-> Truncated(hash)]

VacantTable(n) == [i \in 0 .. n - 1 |-> Vacant]

Count(b) == Cardinality(DOMAIN b)

\* hash & m_hash_mask, as the number of buckets is a power of two; without
\* buckets the mask is zero.
BucketForHash(b, h) == IF Count(b) = 0 THEN 0 ELSE h % Count(b)

\* Without buckets m_buckets points to one static empty bucket.
IsVacant(b, i) == Count(b) = 0 \/ b[i] = Vacant

NextBucket(b, i) == IF i + 1 < Count(b) THEN i + 1 ELSE 0

\* The bucket that is d probes from the ideal one.
Seat(b, h, d) == IF Count(b) = 0 THEN 0 ELSE (BucketForHash(b, h) + d) % Count(b)

\* Mutation of Distance: one off for an entry that has wrapped.
DistanceOneOff(b, i) ==
  LET ideal == BucketForHash(b, b[i].hash)
  IN  IF i >= ideal THEN i - ideal ELSE Count(b) - 1 + i - ideal

\* distance_from_ideal_bucket
Distance(b, i) ==
  LET ideal == BucketForHash(b, b[i].hash)
  IN  IF i >= ideal THEN i - ideal ELSE Count(b) + i - ideal

\* size_type(float(bucket_count()) * m_max_load_factor)
LoadThreshold(b, f) == (f * Count(b)) \div 20

\* std::ceil(float(n) / max_load_factor())
BucketsFor(n, f) == (20 * n + f - 1) \div f

\* round_up_to_power_of_two, which rehash_impl calls for counts above zero.
RoundedUp(n) ==
  IF n = 0 THEN 0
  ELSE TwoTo[CHOOSE j \in 0 .. n : TwoTo[j] >= n /\ \A i \in 0 .. j - 1 : TwoTo[i] < n]

\* The loops of find_key and insert_impl: probe until a bucket is vacant, holds
\* k, or holds an entry nearer to its ideal bucket than k would be.
Holds(b, v, i, k) == b[i].hash = Truncated(Hash[k]) /\ v[b[i].index + 1] = k

Halts(b, v, k, d) ==
  LET i == Seat(b, Hash[k], d)
  IN  IsVacant(b, i) \/ Holds(b, v, i, k) \/ d > Distance(b, i)

Probe(b, v, k) ==
  LET dist   == Min({d \in 0 .. Count(b) : Halts(b, v, k, d)})
      bucket == Seat(b, Hash[k], dist)
  IN  [bucket |-> bucket, dist |-> dist,
       found  |-> ~IsVacant(b, bucket) /\ Holds(b, v, bucket, k)]

\* Mutation of SettleOnce: linear probing that takes no place from richer entries.
SettleWithoutRobbing(s) ==
  IF s.carried = Vacant THEN s
  ELSE IF s.buckets[s.at] = Vacant
  THEN [s EXCEPT !.buckets[s.at] = s.carried, !.carried = Vacant]
  ELSE [s EXCEPT !.at = NextBucket(s.buckets, @), !.dist = @ + 1,
                 !.far = @ \/ s.dist + 1 > Probes]

\* One round of the loop of insert_index, which is also the inner loop of
\* rehash_impl: an entry that is farther from its ideal bucket takes the place of
\* one that is nearer, which goes on.
SettleOnce(s) ==
  LET there == Distance(s.buckets, s.at)
      robs  == s.dist > there
      dist  == (IF robs THEN there ELSE s.dist) + 1
  IN  IF s.carried = Vacant THEN s
      ELSE IF s.buckets[s.at] = Vacant
      THEN [s EXCEPT !.buckets[s.at] = s.carried, !.carried = Vacant]
      ELSE [buckets |-> IF robs THEN [s.buckets EXCEPT ![s.at] = s.carried] ELSE s.buckets,
            at      |-> NextBucket(s.buckets, s.at),
            dist    |-> dist,
            carried |-> IF robs THEN s.buckets[s.at] ELSE s.carried,
            far     |-> s.far \/ dist > Probes]

\* The loop: every bucket is visited once at most, as one of them is vacant.
Settle(b, i, d, entry) ==
  LET round[n \in 0 .. Count(b)] ==
        IF n = 0
        THEN [buckets |-> b, at |-> i, dist |-> d, carried |-> entry, far |-> FALSE]
        ELSE SettleOnce(round[n - 1])
  IN  round[Count(b)]

\* rehash_impl: the entries of b, in bucket order, in a table of n buckets.
Resettled(b, entry) ==
  IF entry = Vacant THEN b ELSE Settle(b, BucketForHash(b, entry.hash), 0, entry).buckets

Rehashed(b, n) ==
  LET upto[i \in 0 .. Count(b)] ==
        IF i = 0 THEN VacantTable(n) ELSE Resettled(upto[i - 1], b[i - 1])
  IN  upto[Count(b)]

\* Mutation of BackwardShift: the bucket stays vacant.
HoleLeft(b, i) == b

\* One round of backward_shift: the entry behind the hole moves up, unless there is
\* none or it is in its ideal bucket.
ShiftOnce(s) ==
  LET next == NextBucket(s.buckets, s.hole)
  IN  IF IsVacant(s.buckets, next) \/ Distance(s.buckets, next) = 0 THEN s
      ELSE [buckets |-> [s.buckets EXCEPT ![s.hole] = s.buckets[next], ![next] = Vacant],
            hole    |-> next]

\* backward_shift: it is over before it comes around.
BackwardShift(b, i) ==
  LET round[n \in 0 .. Count(b)] ==
        IF n = 0 THEN [buckets |-> b, hole |-> i] ELSE ShiftOnce(round[n - 1])
  IN  round[Count(b)].buckets

\* Mutation of ShiftIndexes: the values moved, the indexes stay.
IndexesStay(b, v, from, delta) == b

\* One round of shift_indexes_in_buckets: the value k has moved by delta to ivalue;
\* find its bucket by the old index and correct it.
Corrected(b, k, ivalue, delta) ==
  LET Here(d) == LET e == b[Seat(b, Hash[k], d)]
                 IN  e # Vacant /\ e.index = ivalue - delta
      dist    == Min({d \in 0 .. Count(b) - 1 : Here(d)})
  IN  [b EXCEPT ![Seat(b, Hash[k], dist)].index = ivalue]

\* shift_indexes_in_buckets, for the values from position from on.
ShiftIndexes(b, v, from, delta) ==
  LET upto[n \in 0 .. Len(v) - from] ==
        IF n = 0 THEN b ELSE Corrected(upto[n - 1], v[from + n], from + n - 1, delta)
  IN  upto[Len(v) - from]

\* One round of the loop of erase(first, last) over the buckets.
SweepOnce(s, first, last) ==
  LET e == s.buckets[s.at]
  IN  IF s.at >= Count(s.buckets) THEN s
      ELSE IF e = Vacant \/ e.index < first THEN [s EXCEPT !.at = @ + 1]
      ELSE IF e.index < last
      THEN [s EXCEPT !.buckets = BackwardShift([@ EXCEPT ![s.at] = Vacant], s.at)]
      ELSE [s EXCEPT !.buckets[s.at].index = @ - (last - first), !.at = @ + 1]

\* Each round leaves a bucket or an entry behind.
Swept(b, first, last) ==
  LET round[n \in 0 .. 2 * Count(b)] ==
        IF n = 0 THEN [buckets |-> b, at |-> 0] ELSE SweepOnce(round[n - 1], first, last)
  IN  round[2 * Count(b)].buckets

-----------------------------------------------------------------------------
(* Operations                                                              *)

HashInit ==
  /\ m_values = <<>>
  /\ m_buckets = VacantTable(0)
  /\ m_load_threshold = 0
  /\ m_max_load_factor = 15
  /\ m_grow_on_next_insert = FALSE

\* The table as a value.  Its load factor stays but for max_load_factor.
Table ==
  [values |-> m_values, buckets |-> m_buckets, threshold |-> m_load_threshold,
   grow |-> m_grow_on_next_insert]

Becomes(t) ==
  /\ Count(t.buckets) <= MaxBuckets
  /\ m_values' = t.values
  /\ m_buckets' = t.buckets
  /\ m_load_threshold' = t.threshold
  /\ m_grow_on_next_insert' = t.grow
  /\ UNCHANGED m_max_load_factor

\* rehash_impl: nothing happens when the number of buckets stays.
Resized(t, n) ==
  IF RoundedUp(n) = Count(t.buckets) THEN t
  ELSE LET b == Rehashed(t.buckets, RoundedUp(n))
       IN  [t EXCEPT !.buckets = b, !.grow = FALSE,
                     !.threshold = LoadThreshold(b, m_max_load_factor)]

\* Mutation of MustGrow: when the table is full, not at its load threshold.
MustGrowWhenFull(t) == t.grow \/ Len(t.values) >= Count(t.buckets)

\* The condition of grow_on_high_load.
MustGrow(t) == t.grow \/ Len(t.values) >= t.threshold

\* insert_impl (pos is the end) and insert_at_position_impl.  At max_size() they
\* throw, having changed nothing.
Placed(t, k, pos) ==
  LET p     == Probe(t.buckets, t.values, k)
      grown == Resized(t, IF Count(t.buckets) = 0 THEN 1 ELSE 2 * Count(t.buckets))
      r     == IF MustGrow(t) THEN grown ELSE t
      v     == InsertAt(t.values, pos + 1, k)
      s     == IF MustGrow(t)
               THEN Settle(r.buckets, BucketForHash(r.buckets, Hash[k]), 0, Entry(pos, Hash[k]))
               ELSE Settle(r.buckets, p.bucket, p.dist, Entry(pos, Hash[k]))
      dense == 100 * Len(v) >= 15 * Count(r.buckets)
  IN  IF p.found \/ Len(t.values) >= MaxValues THEN t
      ELSE [values    |-> v,
            buckets   |-> IF pos = Len(t.values) THEN s.buckets
                          ELSE ShiftIndexes(s.buckets, v, pos + 1, 1),
            threshold |-> r.threshold,
            grow      |-> r.grow \/ (s.far /\ dense)]

\* rehash(count), at least as large as the values need, and reserve(count).
Ample(t, count) ==
  Resized(t, Max({count, BucketsFor(Len(t.values), m_max_load_factor)}))

Reserved(t, count) == Ample(t, BucketsFor(count, m_max_load_factor))

\* The values of s, inserted one by one.
InsertedEach(t, s) ==
  LET upto[n \in 0 .. Len(s)] ==
        IF n = 0 THEN t ELSE Placed(upto[n - 1], s[n], Len(upto[n - 1].values))
  IN  upto[Len(s)]

\* insert(first, last): nothing is reserved when the values are beyond the
\* threshold, as the difference wraps then.
InsertedAll(t, s) ==
  InsertedEach(IF t.threshold - Len(t.values) \in 0 .. Len(s) - 1
               THEN Reserved(t, Len(t.values) + Len(s)) ELSE t, s)

Emptied(t) ==
  [t EXCEPT !.values = <<>>, !.buckets = VacantTable(Count(t.buckets)), !.grow = FALSE]

\* insert, insert_hint, emplace, try_emplace, insert_or_assign, operator[]
Insert(k) == Becomes(Placed(Table, k, Len(m_values)))

InsertAll(s) == Becomes(InsertedAll(Table, s))

\* operator= of ordered_map, from a list
AssignAll(s) == Becomes(InsertedAll(Reserved(Emptied(Table), Len(s)), s))

InsertAtPosition(k, pos) == Becomes(Placed(Table, k, pos))

\* erase_value_from_bucket, on the table b and the values v.
EraseValue(b, v, i) ==
  LET index   == b[i].index
      left    == RemoveAt(v, index + 1)
      shifted == IF index # Len(left) THEN ShiftIndexes(b, left, index, -1) ELSE b
  IN  Becomes([Table EXCEPT !.values = left,
                            !.buckets = BackwardShift([shifted EXCEPT ![i] = Vacant], i)])

\* erase(key), erase(pos) and pop_back
Erase(k) ==
  LET p == Probe(m_buckets, m_values, k)
  IN  IF p.found THEN EraseValue(m_buckets, m_values, p.bucket)
      ELSE UNCHANGED hashvars

\* unordered_erase: swap with the last value, then erase there.
UnorderedErase(k) ==
  LET p    == Probe(m_buckets, m_values, k)
      n    == Len(m_values)
      at   == m_buckets[p.bucket].index
      last == Probe(m_buckets, m_values, m_values[n]).bucket
  IN  IF ~p.found THEN UNCHANGED hashvars
      ELSE IF m_values[n] = k THEN EraseValue(m_buckets, m_values, p.bucket)
      ELSE EraseValue([m_buckets EXCEPT ![p.bucket].index = m_buckets[last].index,
                                        ![last].index = at],
                      [m_values EXCEPT ![at + 1] = m_values[n], ![n] = k],
                      p.bucket)

\* erase(first, last), on indexes.
EraseRange(first, last) ==
  /\ first < last
  /\ Becomes([Table EXCEPT
       !.values = SubSeq(m_values, 1, first) \o SubSeq(m_values, last + 1, Len(m_values)),
       !.buckets = Swept(m_buckets, first, last)])

\* clear, and what a move assignment leaves of the table it takes from, which has
\* swapped with the other before
Clear == Becomes(Emptied(Table))

\* What a move construction leaves of the table it takes from.
MovedFrom ==
  Becomes([values |-> <<>>, buckets |-> VacantTable(0), threshold |-> 0, grow |-> FALSE])

\* max_load_factor(f)
MaxLoadFactor(f) ==
  /\ m_max_load_factor' = f
  /\ m_load_threshold' = LoadThreshold(m_buckets, f)
  /\ UNCHANGED <<m_values, m_buckets, m_grow_on_next_insert>>

Rehash(count) == Becomes(Ample(Table, count))

Reserve(count) == Becomes(Reserved(Table, count))

\* deserialize, of a table that was serialized, with the same hash function: the
\* values and the buckets as they were, but the threshold that max_load_factor
\* computed while there were no buckets.  m_hash_mask is set from the capacity of
\* the bucket vector; reserve of an empty vector is taken to be exact, which makes
\* that the number of buckets.
ReloadCompatible == Becomes([Table EXCEPT !.threshold = 0, !.grow = FALSE])

\* deserialize with any hash function: the values inserted one by one.
ReloadReinserting ==
  LET fresh == [values |-> <<>>, buckets |-> VacantTable(0), threshold |-> 0, grow |-> FALSE]
  IN  Becomes(IF Count(m_buckets) = 0 THEN fresh
              ELSE InsertedEach(Reserved(fresh, Len(m_values)), m_values))

HashNext ==
  \/ \E k \in Keys : Insert(k) \/ Erase(k) \/ UnorderedErase(k)
  \/ \E count \in 0 .. MaxBuckets : Rehash(count) \/ Reserve(count)
  \/ \E s \in Ranges : InsertAll(s) \/ AssignAll(s)
  \/ \E f \in LoadFactors : MaxLoadFactor(f)
  \/ Clear \/ MovedFrom \/ ReloadCompatible \/ ReloadReinserting

HashSpec == HashInit /\ [][HashNext]_hashvars

\* The operations the manager does not use, on which lookups come to grief.
PositionSpec ==
  HashInit /\ [][HashNext \/ \E k \in Keys, pos \in 0 .. Len(m_values) :
                               InsertAtPosition(k, pos)]_hashvars

RangeSpec ==
  HashInit /\ [][HashNext \/ \E first, last \in 0 .. Len(m_values) :
                               EraseRange(first, last)]_hashvars

-----------------------------------------------------------------------------
(* Safety                                                                  *)

Occupied == {i \in DOMAIN m_buckets : m_buckets[i] # Vacant}

\* A table of a power of two, or no, buckets.
HashTypeOK ==
  /\ m_values \in Seq(Keys)
  /\ Count(m_buckets) \in {0} \cup {TwoTo[j] : j \in 0 .. MaxBuckets}
  /\ DOMAIN m_buckets = 0 .. Count(m_buckets) - 1
  /\ \A i \in Occupied : m_buckets[i].index \in 0 .. Len(m_values) - 1
  /\ Len(m_values) <= MaxValues
  /\ m_load_threshold \in 0 .. Count(m_buckets)
  /\ m_max_load_factor \in LoadFactors \cup {15}
  /\ m_grow_on_next_insert \in BOOLEAN

\* Every value has exactly one bucket, which has its index and its hash: what
\* erasing, shifting indexes and rehashing must keep together.
TableMatchesValues ==
  /\ Cardinality(Occupied) = Len(m_values)
  /\ \A j \in DOMAIN m_values :
       \E i \in Occupied : m_buckets[i] = Entry(j - 1, Hash[m_values[j]])

\* What the comment before find_key says (ordered_hash.h:1156): it returns the
\* bucket that has the key, or none if there is none.  Probing must stop neither
\* too early nor at another key's bucket.  After insert_at_position and
\* erase(first, last) it does: see the runs hash_position and hash_range.
LookupExact ==
  \A k \in Keys :
    LET p == Probe(m_buckets, m_values, k)
    IN  /\ p.found <=> \E j \in DOMAIN m_values : m_values[j] = k
        /\ p.found => m_values[m_buckets[p.bucket].index + 1] = k

\* The order that probing relies on: an entry that is not in its ideal bucket
\* has one before it that is at most one probe nearer to its own.
RobinHood ==
  \A i \in Occupied :
    Distance(m_buckets, i) > 0 =>
      \E j \in Occupied :
        /\ NextBucket(m_buckets, j) = i
        /\ Distance(m_buckets, i) <= Distance(m_buckets, j) + 1

\* A table of four buckets or more is never full, so that insert_index finds a
\* vacant one, whichever load factor was set when: the next insertion grows the
\* table, or there are values left until the threshold and buckets beyond it.  A
\* table of one or two buckets may be full until that insertion.
RoomLeft ==
  /\ Len(m_values) <= Count(m_buckets)
  /\ Count(m_buckets) >= 4 => Len(m_values) < Count(m_buckets)
  /\ m_load_threshold \in {0, LoadThreshold(m_buckets, m_max_load_factor)}

\* What insert(first, last) asserts of the table it is called on
\* (ordered_hash.h:670).  A table of one bucket has the threshold zero: see the run
\* hash_threshold.
ThresholdCoversValues == m_load_threshold >= Len(m_values)

Map == INSTANCE OrderedMap WITH order <- m_values

\* The table and the vector implement the ordered map: whatever the table goes
\* through, a key is inserted at the end if it is not there, and erased if it is.
ImplementsMap == Map!MapSpec
=============================================================================
