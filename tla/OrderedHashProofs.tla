------------------------- MODULE OrderedHashProofs -------------------------
(***************************************************************************)
(* The hash table behind tsl::ordered_map, for any keys, hash function,    *)
(* load factors, limit on the values and number of buckets: after every    *)
(* sequence of operations the table and the vector agree, every lookup is  *)
(* exact, and the two implement the ordered map.                           *)
(***************************************************************************)
EXTENDS OrderedHash, FiniteSetTheorems, WellFoundedInduction, TLAPS

-----------------------------------------------------------------------------
(* Numbers                                                                 *)

\* The pairs of numbers of which the first is less than the second.
Less == {ss \in Nat \X Nat : ss[1] < ss[2]}

\* Induction on the numbers, as a fact about sets.
LEMMA SetInduction ==
  ASSUME NEW S, 0 \in S, \A n \in Nat : n \in S => n + 1 \in S
  PROVE  Nat \subseteq S
<1> SUFFICES ASSUME Nat \ S # {} PROVE FALSE
  OBVIOUS
<1>1. IsWellFoundedOn(Less, Nat)
  BY NatLessThanWellFounded DEF OpToRel, Less
<1>2. PICK x \in Nat \ S : \A y \in Nat \ S : ~ (<<y, x>> \in Less)
  BY <1>1, WFMin
<1>3. x # 0 /\ x - 1 \in Nat /\ x - 1 \notin S
  BY <1>2
<1>4. <<x - 1, x>> \in Less
  BY <1>3 DEF Less
<1> QED
  BY <1>2, <1>3, <1>4

\* A set of numbers that is not empty has a least one.
LEMMA Least ==
  ASSUME NEW S, S \subseteq Nat, S # {}
  PROVE  Min(S) \in S /\ \A y \in S : Min(S) <= y
<1>1. IsWellFoundedOn(Less, Nat)
  BY NatLessThanWellFounded DEF OpToRel, Less
<1>2. PICK x \in S : \A y \in S : ~ (<<y, x>> \in Less)
  BY <1>1, WFMin
<1>3. ASSUME NEW y \in S PROVE x <= y
  <2>1. y \in Nat /\ x \in Nat
    BY <1>2
  <2>2. <<y, x>> \in Nat \X Nat
    BY <2>1
  <2>3. ~ (y < x)
    BY <1>2, <2>2 DEF Less
  <2> QED
    BY <2>1, <2>3
<1> QED
  BY <1>3 DEF Min

-----------------------------------------------------------------------------
(* Places in a circle of buckets                                           *)

\* The bucket behind i and the one before it, in a circle of N.
After(N, i) == IF i + 1 < N THEN i + 1 ELSE 0

Before(N, i) == IF i = 0 THEN N - 1 ELSE i - 1

\* The number of steps from bucket a to bucket i, and from w to i if a bucket is N
\* steps away from itself.
Steps(N, a, i) == IF i >= a THEN i - a ELSE N + i - a

Away(N, w, i) == IF i > w THEN i - w ELSE N + i - w

\* The circle is a circle.
LEMMA Circle ==
  ASSUME NEW N \in Nat \ {0}, NEW i \in 0 .. N - 1
  PROVE  /\ After(N, i) \in 0 .. N - 1 /\ Before(N, i) \in 0 .. N - 1
         /\ After(N, Before(N, i)) = i /\ Before(N, After(N, i)) = i
         /\ After(N, i) = i <=> N = 1
         /\ Before(N, i) = i <=> N = 1
BY DEF After, Before

\* One bucket further on is one step more.
LEMMA StepsOn ==
  ASSUME NEW N \in Nat \ {0}, NEW a \in 0 .. N - 1, NEW i \in 0 .. N - 1
  PROVE  /\ Steps(N, a, i) \in 0 .. N - 1
         /\ Steps(N, a, i) = 0 <=> i = a
         /\ After(N, i) # a => Steps(N, a, After(N, i)) = Steps(N, a, i) + 1
         /\ i # a => Steps(N, a, Before(N, i)) = Steps(N, a, i) - 1
         /\ Steps(N, a, i) < N - 1 => After(N, i) # a
BY DEF Steps, After, Before

\* The same for the bucket w that one moves away from.
LEMMA AwayOn ==
  ASSUME NEW N \in Nat \ {0}, NEW w \in 0 .. N - 1, NEW i \in 0 .. N - 1
  PROVE  /\ Away(N, w, i) \in 1 .. N
         /\ Away(N, w, i) = N <=> i = w
         /\ i # w => Away(N, w, After(N, i)) = Away(N, w, i) + 1
         /\ Away(N, w, i) = 1 <=> Before(N, i) = w
         /\ Away(N, w, i) > 1 => Away(N, w, Before(N, i)) = Away(N, w, i) - 1
BY DEF Away, After, Before

-----------------------------------------------------------------------------
(* Tables                                                                  *)

Entries == [index : Nat, hash : Nat]

Tables(N) == [0 .. N - 1 -> {Vacant} \cup Entries]

Ideal(N, h) == h % N

\* How far the entry e is from its ideal bucket when it is in bucket i.
Far(N, e, i) == Steps(N, Ideal(N, e.hash), i)

\* The ideal bucket is a bucket.
LEMMA IdealBucket ==
  ASSUME NEW N \in Nat \ {0}, NEW h \in Nat
  PROVE  Ideal(N, h) \in 0 .. N - 1
BY DEF Ideal

\* A distance is less than the number of buckets.
LEMMA FarType ==
  ASSUME NEW N \in Nat \ {0}, NEW e \in Entries, NEW i \in 0 .. N - 1
  PROVE  Far(N, e, i) \in 0 .. N - 1
BY IdealBucket, StepsOn DEF Far, Entries

\* An entry that is moved on by one bucket is one step farther, unless that takes it
\* to its ideal bucket; and the other way round.
LEMMA FarOn ==
  ASSUME NEW N \in Nat \ {0}, NEW e \in Entries, NEW i \in 0 .. N - 1
  PROVE  /\ Far(N, e, i) < N - 1 => Far(N, e, After(N, i)) = Far(N, e, i) + 1
         /\ Far(N, e, i) > 0 => Far(N, e, Before(N, i)) = Far(N, e, i) - 1
<1> DEFINE a == Ideal(N, e.hash)
<1>1. a \in 0 .. N - 1
  BY IdealBucket DEF Entries
<1>2. Far(N, e, i) = Steps(N, a, i) /\ \A j : Far(N, e, j) = Steps(N, a, j)
  BY DEF Far
<1> HIDE DEF a
<1>3. Steps(N, a, i) < N - 1 => Steps(N, a, After(N, i)) = Steps(N, a, i) + 1
  BY <1>1 DEF Steps, After
<1>4. Steps(N, a, i) > 0 => Steps(N, a, Before(N, i)) = Steps(N, a, i) - 1
  BY <1>1 DEF Steps, Before
<1> QED
  BY <1>2, <1>3, <1>4

\* What the operators of the model are in a table of N buckets.
LEMMA InTable ==
  ASSUME NEW N \in Nat, NEW b \in Tables(N)
  PROVE  /\ Count(b) = N /\ DOMAIN b = 0 .. N - 1
         /\ \A i \in 0 .. N - 1 : b[i] = Vacant \/ b[i] \in Entries
         /\ N > 0 =>
              /\ \A i : NextBucket(b, i) = After(N, i)
              /\ \A h : BucketForHash(b, h) = Ideal(N, h)
              /\ \A i : IsVacant(b, i) <=> b[i] = Vacant
              /\ \A i : Distance(b, i) = Far(N, b[i], i)
<1>1. DOMAIN b = 0 .. N - 1
  BY DEF Tables
<1>2. Count(b) = N
  <2>1. Cardinality(0 .. N - 1) = IF 0 > N - 1 THEN 0 ELSE N - 1 - 0 + 1
    BY FS_Interval
  <2> QED
    BY <1>1, <2>1 DEF Count
<1>3. \A i \in 0 .. N - 1 : b[i] = Vacant \/ b[i] \in Entries
  BY DEF Tables
<1>4. ASSUME N > 0
      PROVE  /\ \A i : NextBucket(b, i) = After(N, i)
             /\ \A h : BucketForHash(b, h) = Ideal(N, h)
             /\ \A i : IsVacant(b, i) <=> b[i] = Vacant
  BY <1>2, <1>4 DEF NextBucket, After, BucketForHash, Ideal, IsVacant
<1>5. ASSUME N > 0, NEW i PROVE Distance(b, i) = Far(N, b[i], i)
  BY <1>2, <1>4, <1>5 DEF Distance, Far, Steps
<1> QED
  BY <1>1, <1>2, <1>3, <1>4, <1>5

\* The order of robin hood at bucket i, and in the table.
OrderedAt(N, b, i) ==
  b[i] # Vacant /\ Far(N, b[i], i) > 0 =>
    /\ b[Before(N, i)] # Vacant
    /\ Far(N, b[i], i) <= Far(N, b[Before(N, i)], Before(N, i)) + 1

Ordered(N, b) == \A i \in 0 .. N - 1 : OrderedAt(N, b, i)

\* No entry is carried across a vacant bucket.
LEMMA NoneAcross ==
  ASSUME NEW N \in Nat \ {0}, NEW b \in Tables(N), Ordered(N, b),
         NEW w \in 0 .. N - 1, b[w] = Vacant,
         NEW i \in 0 .. N - 1, b[i] # Vacant
  PROVE  Far(N, b[i], i) < Away(N, w, i)
<1> DEFINE S == {m \in Nat : \A j \in 0 .. N - 1 :
                   b[j] # Vacant /\ Away(N, w, j) = m + 1 => Far(N, b[j], j) <= m}
<1>1. ASSUME NEW m \in Nat, m = 0 \/ m - 1 \in S, NEW j \in 0 .. N - 1,
             b[j] # Vacant, Away(N, w, j) = m + 1
      PROVE  Far(N, b[j], j) <= m
  <2>1. Far(N, b[j], j) \in 0 .. N - 1 /\ OrderedAt(N, b, j) /\ Before(N, j) \in 0 .. N - 1
    BY <1>1, InTable, FarType, Circle DEF Ordered
  <2>2. CASE m = 0
    BY <1>1, <2>1, <2>2, AwayOn DEF OrderedAt
  <2>3. CASE m # 0 /\ Far(N, b[j], j) > 0
    <3>1. Away(N, w, Before(N, j)) = (m - 1) + 1
      <4>1. Away(N, w, j) > 1
        BY <1>1, <2>3
      <4>2. Away(N, w, Before(N, j)) = Away(N, w, j) - 1
        BY <4>1, AwayOn
      <4> QED
        BY <1>1, <4>2
    <3>2. b[Before(N, j)] # Vacant
          /\ Far(N, b[j], j) <= Far(N, b[Before(N, j)], Before(N, j)) + 1
      BY <1>1, <2>1, <2>3 DEF OrderedAt
    <3>3. Far(N, b[Before(N, j)], Before(N, j)) <= m - 1
      BY <1>1, <2>1, <2>3, <3>1, <3>2
    <3>4. Far(N, b[Before(N, j)], Before(N, j)) \in Int
      BY <2>1, <3>2, InTable, FarType, SMTT(40)
    <3> QED
      BY <2>1, <3>2, <3>3, <3>4
  <2>4. CASE Far(N, b[j], j) = 0
    BY <2>4
  <2> QED
    BY <2>1, <2>2, <2>3, <2>4
<1>2. 0 \in S
  BY <1>1
<1>3. \A m \in Nat : m \in S => m + 1 \in S
  <2> SUFFICES ASSUME NEW m \in Nat, m \in S PROVE m + 1 \in S
    OBVIOUS
  <2>1. m + 1 \in Nat /\ (m + 1) - 1 \in S
    BY DEF S
  <2>2. \A j \in 0 .. N - 1 :
          b[j] # Vacant /\ Away(N, w, j) = (m + 1) + 1 => Far(N, b[j], j) <= m + 1
    BY <1>1, <2>1
  <2> QED
    BY <2>1, <2>2
<1>4. Nat \subseteq S
  <2> HIDE DEF S
  <2> QED
    BY <1>2, <1>3, SetInduction
<1>5. Away(N, w, i) \in 1 .. N
  BY AwayOn
<1>6. Away(N, w, i) - 1 \in S
  BY <1>4, <1>5
<1>7. Far(N, b[i], i) <= Away(N, w, i) - 1
  BY <1>5, <1>6
<1>8. Far(N, b[i], i) \in Int
  BY InTable, FarType
<1> QED
  BY <1>5, <1>7, <1>8

\* What the entries of a table are, and that no two have one index.
Held(b) == {b[i] : i \in DOMAIN b} \ {Vacant}

Distinct(b) ==
  \A i, j \in DOMAIN b :
    b[i] # Vacant /\ b[j] # Vacant /\ b[i].index = b[j].index => i = j

-----------------------------------------------------------------------------
(* insert_index                                                            *)

SettleStates(N) ==
  [buckets : Tables(N), at : 0 .. N - 1, dist : Nat,
   carried : {Vacant} \cup Entries, far : BOOLEAN]

\* The entry e may be put into bucket i, as far as the bucket before it goes.
Fits(N, b, e, i) ==
  Far(N, e, i) > 0 =>
    /\ b[Before(N, i)] # Vacant
    /\ Far(N, e, i) <= Far(N, b[Before(N, i)], Before(N, i)) + 1

\* Between two rounds: the table is in order without the entry that is carried,
\* which would fit where the loop is; w is vacant and still ahead, and the entries
\* are those of E in all.
Carrying(N, w, E, s) ==
  /\ s \in SettleStates(N) /\ s.carried # Vacant
  /\ Ordered(N, s.buckets) /\ Distinct(s.buckets)
  /\ s.buckets[w] = Vacant
  /\ s.dist = Far(N, s.carried, s.at) /\ s.dist < Away(N, w, s.at)
  /\ Fits(N, s.buckets, s.carried, s.at)
  /\ \A e \in Held(s.buckets) : e.index # s.carried.index
  /\ Held(s.buckets) \cup {s.carried} = E

\* After the last round.
Settled(N, E, s) ==
  /\ s \in SettleStates(N) /\ s.carried = Vacant
  /\ Ordered(N, s.buckets) /\ Distinct(s.buckets)
  /\ Held(s.buckets) = E

\* An entry that is put into bucket i, where there is none or one that is nearer to
\* its ideal bucket, keeps the order.
LEMMA PutKeepsOrder ==
  ASSUME NEW N \in Nat \ {0}, NEW b \in Tables(N), Ordered(N, b),
         NEW i \in 0 .. N - 1, NEW e \in Entries, Fits(N, b, e, i),
         b[i] # Vacant => Far(N, b[i], i) < Far(N, e, i),
         b[i] # Vacant => N > 1
  PROVE  Ordered(N, [b EXCEPT ![i] = e])
<1> DEFINE c == [b EXCEPT ![i] = e]
<1>0. DOMAIN b = 0 .. N - 1 /\ c[i] = e /\ \A j \in 0 .. N - 1 : j # i => c[j] = b[j]
  BY DEF Tables
<1>1. c \in Tables(N) /\ e # Vacant
  BY VacantAssumption DEF Tables, Entries
<1>2. Far(N, e, i) \in 0 .. N - 1
  BY FarType
<1> SUFFICES ASSUME NEW j \in 0 .. N - 1, c[j] # Vacant, Far(N, c[j], j) > 0
             PROVE  /\ c[Before(N, j)] # Vacant
                    /\ Far(N, c[j], j) <= Far(N, c[Before(N, j)], Before(N, j)) + 1
  BY DEF Ordered, OrderedAt
<1> HIDE DEF c
<1>3. Before(N, j) \in 0 .. N - 1 /\ Before(N, i) \in 0 .. N - 1
  BY Circle
<1>4. CASE j = i
  <2>1. b[Before(N, i)] # Vacant /\ Far(N, e, i) <= Far(N, b[Before(N, i)], Before(N, i)) + 1
    BY <1>0, <1>4 DEF Fits
  <2>2. CASE Before(N, i) # i
    BY <1>0, <1>3, <1>4, <2>1, <2>2
  <2>3. CASE Before(N, i) = i
    <3>1. N = 1
      BY <2>3, Circle
    <3> QED
      BY <1>0, <1>2, <1>4, <3>1
  <2> QED
    BY <2>2, <2>3
<1>5. CASE j # i
  <2>1. c[j] = b[j] /\ b[Before(N, j)] # Vacant
        /\ Far(N, b[j], j) <= Far(N, b[Before(N, j)], Before(N, j)) + 1
    BY <1>0, <1>5 DEF Ordered, OrderedAt
  <2>2. CASE Before(N, j) # i
    BY <1>0, <1>3, <2>1, <2>2
  <2>3. CASE Before(N, j) = i
    <3>1. Far(N, b[i], i) \in 0 .. N - 1 /\ Far(N, b[j], j) \in 0 .. N - 1
      BY <1>0, <1>5, <2>1, <2>3, InTable, FarType
    <3>2. Far(N, b[i], i) < Far(N, e, i)
      BY <2>1, <2>3
    <3> QED
      BY <1>0, <1>1, <1>2, <2>1, <2>3, <3>1, <3>2
  <2> QED
    BY <2>2, <2>3
<1> QED
  BY <1>4, <1>5

\* Putting an entry with an index of its own into a bucket exchanges it for the one
\* that was there.
LEMMA PutExchanges ==
  ASSUME NEW N \in Nat \ {0}, NEW b \in Tables(N), Distinct(b),
         NEW i \in 0 .. N - 1, NEW e \in Entries,
         \A f \in Held(b) : f.index # e.index
  PROVE  /\ [b EXCEPT ![i] = e] \in Tables(N)
         /\ Distinct([b EXCEPT ![i] = e])
         /\ Held([b EXCEPT ![i] = e]) = (Held(b) \ {b[i]}) \cup {e}
         /\ b[i] # Vacant =>
              /\ \A f \in Held([b EXCEPT ![i] = e]) : f.index # b[i].index
              /\ Held([b EXCEPT ![i] = e]) \cup {b[i]} = Held(b) \cup {e}
<1> DEFINE c == [b EXCEPT ![i] = e]
<1>0. DOMAIN b = 0 .. N - 1 /\ DOMAIN c = 0 .. N - 1
      /\ c[i] = e /\ \A j \in 0 .. N - 1 : j # i => c[j] = b[j]
  BY DEF Tables
<1>1. c \in Tables(N) /\ e # Vacant
  BY VacantAssumption DEF Tables, Entries
<1> HIDE DEF c
<1>2. \A j \in 0 .. N - 1 : b[j] # Vacant => b[j] \in Held(b)
  BY <1>0 DEF Held
<1>3. Distinct(c)
  BY <1>0, <1>2 DEF Distinct
<1>4. Held(c) = (Held(b) \ {b[i]}) \cup {e}
  <2>1. ASSUME NEW f \in Held(c) PROVE f \in (Held(b) \ {b[i]}) \cup {e}
    <3>1. PICK j \in 0 .. N - 1 : f = c[j] /\ f # Vacant
      BY <1>0 DEF Held
    <3>2. CASE j # i
      <4>1. f = b[j] /\ f \in Held(b)
        BY <1>0, <1>2, <3>1, <3>2
      <4>2. b[j] # b[i]
        BY <1>0, <3>1, <3>2, <4>1 DEF Distinct
      <4> QED
        BY <4>1, <4>2
    <3> QED
      BY <1>0, <3>1, <3>2
  <2>2. ASSUME NEW f \in (Held(b) \ {b[i]}) \cup {e} PROVE f \in Held(c)
    <3>1. CASE f = e
      BY <1>0, <1>1, <3>1 DEF Held
    <3>2. CASE f # e
      <4>1. PICK j \in 0 .. N - 1 : f = b[j] /\ f # Vacant
        BY <1>0, <3>2 DEF Held
      <4>2. c[j] = f
        BY <1>0, <2>2, <3>2, <4>1
      <4> QED
        BY <1>0, <4>1, <4>2 DEF Held
    <3> QED
      BY <3>1, <3>2
  <2> QED
    BY <2>1, <2>2
<1>5. ASSUME b[i] # Vacant
      PROVE  /\ \A f \in Held(c) : f.index # b[i].index
             /\ Held(c) \cup {b[i]} = Held(b) \cup {e}
  <2>1. b[i] \in Held(b)
    BY <1>2, <1>5
  <2>2. ASSUME NEW f \in Held(b), f.index = b[i].index PROVE f = b[i]
    BY <1>0, <1>5, <2>2 DEF Held, Distinct
  <2> QED
    BY <1>4, <2>1, <2>2
<1> QED
  BY <1>1, <1>3, <1>4, <1>5 DEF c

\* A round puts the entry in its place, or goes on with it or another.
LEMMA SettleRound ==
  ASSUME NEW N \in Nat \ {0}, NEW w \in 0 .. N - 1, NEW E, NEW s, Carrying(N, w, E, s)
  PROVE  \/ Settled(N, E, SettleOnce(s))
         \/ /\ Carrying(N, w, E, SettleOnce(s))
            /\ Away(N, w, SettleOnce(s).at) = Away(N, w, s.at) + 1
<1> DEFINE b == s.buckets
           i == s.at
           e == s.carried
           r == SettleOnce(s)
<1>1. /\ b \in Tables(N) /\ i \in 0 .. N - 1 /\ s.dist \in Nat
      /\ e \in Entries /\ e # Vacant /\ s.far \in BOOLEAN
  BY DEF Carrying, SettleStates
<1>2. /\ Ordered(N, b) /\ Distinct(b) /\ b[w] = Vacant
      /\ s.dist = Far(N, e, i) /\ s.dist < Away(N, w, i)
      /\ Fits(N, b, e, i)
      /\ \A f \in Held(b) : f.index # e.index
      /\ Held(b) \cup {e} = E
  BY DEF Carrying
<1>3. /\ s = [buckets |-> b, at |-> i, dist |-> s.dist, carried |-> e, far |-> s.far]
  BY DEF Carrying, SettleStates
<1>4. CASE b[i] = Vacant
  <2>1. r = [buckets |-> [b EXCEPT ![i] = e], at |-> i, dist |-> s.dist,
             carried |-> Vacant, far |-> s.far]
    BY <1>1, <1>3, <1>4 DEF SettleOnce
  <2>2. Held([b EXCEPT ![i] = e]) = E
    <3>1. Held([b EXCEPT ![i] = e]) = (Held(b) \ {b[i]}) \cup {e}
      BY <1>1, <1>2, PutExchanges
    <3>2. Vacant \notin Held(b)
      BY DEF Held
    <3> QED
      BY <1>2, <1>4, <3>1, <3>2
  <2>3. Ordered(N, [b EXCEPT ![i] = e])
    BY <1>1, <1>2, <1>4, PutKeepsOrder
  <2>4. Distinct([b EXCEPT ![i] = e]) /\ [b EXCEPT ![i] = e] \in Tables(N)
    BY <1>1, <1>2, PutExchanges
  <2> QED
    BY <1>1, <2>1, <2>2, <2>3, <2>4 DEF Settled, SettleStates
<1>5. CASE b[i] # Vacant
  <2> DEFINE there == Far(N, b[i], i)
             n     == After(N, i)
  <2>1. /\ b[i] \in Entries /\ there \in 0 .. N - 1 /\ n \in 0 .. N - 1 /\ Before(N, n) = i
    BY <1>1, <1>5, InTable, FarType, Circle
  <2>2. i # w /\ N > 1 /\ n # i
    BY <1>1, <1>2, <1>5, Circle
  <2>3. Away(N, w, n) = Away(N, w, i) + 1 /\ Away(N, w, n) \in 1 .. N /\ Away(N, w, i) \in 1 .. N
    BY <1>1, <2>1, <2>2, AwayOn
  <2>4. there < Away(N, w, i)
    BY <1>1, <1>2, <1>5, NoneAcross
  <2>5. ASSUME NEW f \in Entries, Far(N, f, i) < Away(N, w, i)
        PROVE  Far(N, f, n) = Far(N, f, i) + 1 /\ Far(N, f, n) < Away(N, w, n)
    <3>1. Far(N, f, i) < N - 1 /\ Far(N, f, i) \in 0 .. N - 1
      BY <1>1, <2>3, <2>5, FarType
    <3>2. Ideal(N, f.hash) \in 0 .. N - 1
      BY IdealBucket DEF Entries
    <3>3. Far(N, f, n) = Far(N, f, i) + 1
      BY <1>1, <3>1, FarOn
    <3> QED
      BY <2>3, <2>5, <3>1, <3>3
  <2>6. NextBucket(b, i) = n /\ Distance(b, i) = there
    BY <1>1, InTable
  <2>7. CASE s.dist > there
    <3> DEFINE c == [b EXCEPT ![i] = e]
    <3>1. r = [buckets |-> c, at |-> n, dist |-> there + 1, carried |-> b[i],
               far |-> s.far \/ there + 1 > Probes]
      BY <1>1, <1>3, <1>5, <2>6, <2>7 DEF SettleOnce
    <3>2. c \in Tables(N) /\ c[i] = e /\ c[w] = Vacant
      BY <1>1, <1>2, <2>2, PutExchanges DEF Tables
    <3>3. Ordered(N, c)
      BY <1>1, <1>2, <2>2, <2>7, PutKeepsOrder
    <3>4. Distinct(c) /\ (\A f \in Held(c) : f.index # b[i].index) /\ Held(c) \cup {b[i]} = E
      <4>1. \A f \in Held(b) : f.index # e.index
        BY <1>2
      <4>2. Distinct(c)
        BY <1>1, <1>2, <4>1, PutExchanges
      <4>3. /\ \A f \in Held(c) : f.index # b[i].index
            /\ Held(c) \cup {b[i]} = Held(b) \cup {e}
        BY <1>1, <1>2, <1>5, <4>1, PutExchanges
      <4> QED
        BY <1>2, <4>2, <4>3
    <3>5. there + 1 = Far(N, b[i], n) /\ there + 1 < Away(N, w, n)
      BY <2>1, <2>4, <2>5
    <3> HIDE DEF c
    <3>6. Fits(N, c, b[i], n)
      <4>1. Far(N, b[i], n) <= Far(N, c[Before(N, n)], Before(N, n)) + 1
        BY <1>1, <1>2, <2>1, <2>7, <3>2, <3>5
      <4> QED
        BY <1>1, <2>1, <3>2, <4>1 DEF Fits
    <3>7. r \in SettleStates(N)
      BY <2>1, <3>1, <3>2 DEF SettleStates
    <3> QED
      BY <1>5, <2>1, <2>3, <3>1, <3>2, <3>3, <3>4, <3>5, <3>6, <3>7 DEF Carrying
  <2>8. CASE ~(s.dist > there)
    <3>1. r = [buckets |-> b, at |-> n, dist |-> s.dist + 1, carried |-> e,
               far |-> s.far \/ s.dist + 1 > Probes]
      BY <1>1, <1>3, <1>5, <2>6, <2>8 DEF SettleOnce
    <3>2. s.dist + 1 = Far(N, e, n) /\ s.dist + 1 < Away(N, w, n)
      BY <1>1, <1>2, <2>1, <2>5
    <3>3. Fits(N, b, e, n)
      <4>1. Far(N, e, n) <= Far(N, b[Before(N, n)], Before(N, n)) + 1
        BY <1>1, <1>2, <2>1, <2>8, <3>2
      <4> QED
        BY <1>5, <2>1, <4>1 DEF Fits
    <3>4. r \in SettleStates(N)
      BY <1>1, <2>1, <3>1 DEF SettleStates
    <3> QED
      BY <1>1, <1>2, <2>3, <3>1, <3>2, <3>3, <3>4 DEF Carrying
  <2> QED
    BY <2>7, <2>8
<1> QED
  BY <1>4, <1>5

\* What the loop of insert_index computes, round by round.
SettleRuns(N, x, f) ==
  f = [n \in 0 .. N |-> IF n = 0 THEN x ELSE SettleOnce(f[n - 1])]

\* The loop of insert_index has an outcome.
LEMMA SettleRounds ==
  ASSUME NEW N \in Nat, NEW x
  PROVE  \E f : SettleRuns(N, x, f)
<1> DEFINE S == {n \in Nat : \E f : SettleRuns(n, x, f)}
<1>1. 0 \in S
  <2>1. SettleRuns(0, x, [m \in 0 .. 0 |-> x])
    BY DEF SettleRuns
  <2> QED
    BY <2>1
<1>2. ASSUME NEW n \in Nat, n \in S PROVE n + 1 \in S
  <2>1. PICK f : SettleRuns(n, x, f)
    BY <1>2
  <2> DEFINE g == [m \in 0 .. n + 1 |-> IF m = n + 1 THEN SettleOnce(f[n]) ELSE f[m]]
  <2>2. ASSUME NEW m \in 0 .. n + 1
        PROVE  g[m] = IF m = 0 THEN x ELSE SettleOnce(g[m - 1])
    <3>1. CASE m = n + 1
      BY <3>1
    <3>2. CASE m # n + 1
      <4>1. m \in 0 .. n /\ g[m] = f[m] /\ (m # 0 => m - 1 \in 0 .. n /\ g[m - 1] = f[m - 1])
        BY <2>2, <3>2
      <4>2. f[m] = IF m = 0 THEN x ELSE SettleOnce(f[m - 1])
        BY <2>1, <4>1 DEF SettleRuns
      <4> QED
        BY <4>1, <4>2
    <3> QED
      BY <3>1, <3>2
  <2>3. SettleRuns(n + 1, x, g)
    <3>1. g = [m \in 0 .. n + 1 |-> g[m]]
      OBVIOUS
    <3> HIDE DEF g
    <3> QED
      BY <2>2, <3>1 DEF SettleRuns
  <2> HIDE DEF g
  <2>4. \E h : SettleRuns(n + 1, x, h)
    BY <2>3
  <2> QED
    BY <2>4
<1>3. Nat \subseteq S
  <2> HIDE DEF S
  <2> QED
    BY <1>1, <1>2, SetInduction
<1> QED
  BY <1>3

\* The loop of insert_index puts the entry into the table, from a bucket in which it
\* fits, if there is a vacant one.
LEMMA SettleLoop ==
  ASSUME NEW N \in Nat \ {0}, NEW b \in Tables(N), Ordered(N, b), Distinct(b),
         NEW w \in 0 .. N - 1, b[w] = Vacant,
         NEW i \in 0 .. N - 1, NEW entry \in Entries, Fits(N, b, entry, i),
         \A e \in Held(b) : e.index # entry.index
  PROVE  Settled(N, Held(b) \cup {entry}, Settle(b, i, Far(N, entry, i), entry))
<1> DEFINE x == [buckets |-> b, at |-> i, dist |-> Far(N, entry, i),
                 carried |-> entry, far |-> FALSE]
           E == Held(b) \cup {entry}
           round == CHOOSE f : SettleRuns(N, x, f)
<1>0. Far(N, entry, i) \in 0 .. N - 1 /\ Away(N, w, i) \in 1 .. N
  BY FarType, AwayOn
<1>1. round = [n \in 0 .. N |-> IF n = 0 THEN x ELSE SettleOnce(round[n - 1])]
  <2> HIDE DEF x
  <2>1. \E f : SettleRuns(N, x, f)
    BY SettleRounds
  <2>2. SettleRuns(N, x, round)
    BY <2>1
  <2> HIDE DEF round
  <2> QED
    BY <2>2 DEF SettleRuns
<1>2. Settle(b, i, Far(N, entry, i), entry) = round[N]
  BY InTable, ZenonT(60) DEF Settle, SettleRuns
<1>3. Far(N, entry, i) < Away(N, w, i)
  <2>1. CASE Far(N, entry, i) = 0
    BY <1>0, <2>1
  <2>2. CASE Far(N, entry, i) > 0
    <3> DEFINE p == Before(N, i)
    <3>1. p \in 0 .. N - 1 /\ After(N, p) = i
      BY Circle
    <3>2. b[p] # Vacant /\ Far(N, entry, i) <= Far(N, b[p], p) + 1
      BY <2>2 DEF Fits
    <3> HIDE DEF p
    <3>3. Far(N, b[p], p) < Away(N, w, p) /\ Far(N, b[p], p) \in 0 .. N - 1
      BY <3>1, <3>2, NoneAcross, InTable, FarType
    <3>4. Away(N, w, i) = Away(N, w, p) + 1 /\ Away(N, w, p) \in 1 .. N
      BY <3>1, <3>2, AwayOn
    <3> QED
      BY <1>0, <3>2, <3>3, <3>4
  <2> QED
    BY <1>0, <2>1, <2>2
<1>4. Carrying(N, w, E, x)
  <2>1. x \in SettleStates(N) /\ entry # Vacant
    BY <1>0, VacantAssumption DEF SettleStates, Entries
  <2> QED
    BY <1>3, <2>1 DEF Carrying
<1> HIDE DEF x, E
<1>5. x.at = i
  BY DEF x
<1> HIDE DEF round
<1> DEFINE Ahead(n) == \/ Settled(N, E, round[n])
                       \/ /\ Carrying(N, w, E, round[n])
                          /\ Away(N, w, round[n].at) = Away(N, w, i) + n
           S == {n \in Nat : n <= N => Ahead(n)}
<1>6. 0 \in S
  <2>1. round[0] = x
    BY <1>1
  <2> QED
    BY <1>0, <1>4, <1>5, <2>1
<1>7. ASSUME NEW n \in Nat, n \in S PROVE n + 1 \in S
  <2> SUFFICES ASSUME n + 1 <= N PROVE Ahead(n + 1)
    OBVIOUS
  <2>1. Ahead(n)
    BY <1>7
  <2>2. round[n + 1] = SettleOnce(round[n])
    BY <1>1
  <2>3. CASE Settled(N, E, round[n])
    <3>1. SettleOnce(round[n]) = round[n]
      BY <2>3 DEF Settled, SettleOnce
    <3> QED
      BY <2>2, <2>3, <3>1
  <2>4. CASE Carrying(N, w, E, round[n]) /\ Away(N, w, round[n].at) = Away(N, w, i) + n
    <3> DEFINE s == round[n]
    <3>1. \/ Settled(N, E, SettleOnce(s))
          \/ /\ Carrying(N, w, E, SettleOnce(s))
             /\ Away(N, w, SettleOnce(s).at) = Away(N, w, s.at) + 1
      <4> HIDE DEF s
      <4>1. Carrying(N, w, E, s)
        BY <2>4 DEF s
      <4> QED
        BY <4>1, SettleRound
    <3> QED
      BY <1>0, <2>2, <2>4, <3>1
  <2> QED
    BY <2>1, <2>3, <2>4
<1>8. N \in S
  <2> HIDE DEF S
  <2> QED
    BY <1>6, <1>7, SetInduction
<1>9. Ahead(N)
  BY <1>8
<1>10. ~ (Carrying(N, w, E, round[N]) /\ Away(N, w, round[N].at) = Away(N, w, i) + N)
  <2> SUFFICES ASSUME Carrying(N, w, E, round[N]), Away(N, w, round[N].at) = Away(N, w, i) + N
               PROVE  FALSE
    OBVIOUS
  <2>1. round[N].at \in 0 .. N - 1
    BY DEF Carrying, SettleStates
  <2> HIDE DEF S
  <2>2. Away(N, w, round[N].at) \in 1 .. N
    BY <2>1, AwayOn
  <2> QED
    BY <1>0, <2>2
<1> QED
  BY <1>2, <1>9, <1>10 DEF E

-----------------------------------------------------------------------------
(* backward_shift                                                          *)

ShiftStates(N) == [buckets : Tables(N), hole : 0 .. N - 1]

\* Between two rounds: the table is in order but for the bucket behind the hole,
\* whose entry would be in order if it moved up.
Hollow(N, E, s) ==
  /\ s \in ShiftStates(N)
  /\ s.buckets[s.hole] = Vacant
  /\ Distinct(s.buckets) /\ Held(s.buckets) = E
  /\ \A i \in 0 .. N - 1 : i # After(N, s.hole) => OrderedAt(N, s.buckets, i)
  /\ LET b == s.buckets
         n == After(N, s.hole)
         p == Before(N, s.hole)
     IN  b[n] # Vacant /\ Far(N, b[n], n) >= 2 =>
           b[p] # Vacant /\ Far(N, b[n], n) <= Far(N, b[p], p) + 2

\* The loop is over.
AtRest(N, s) ==
  LET n == After(N, s.hole)
  IN  s.buckets[n] = Vacant \/ Far(N, s.buckets[n], n) = 0

\* Then the whole table is in order.
LEMMA RestIsOrder ==
  ASSUME NEW N \in Nat \ {0}, NEW E, NEW s, Hollow(N, E, s), AtRest(N, s)
  PROVE  /\ s.buckets \in Tables(N) /\ Ordered(N, s.buckets)
         /\ Distinct(s.buckets) /\ Held(s.buckets) = E
<1>1. s.hole \in 0 .. N - 1 /\ s.buckets \in Tables(N)
  BY DEF Hollow, ShiftStates
<1>2. OrderedAt(N, s.buckets, After(N, s.hole))
  BY DEF AtRest, OrderedAt
<1> QED
  BY <1>1, <1>2 DEF Hollow, Ordered

\* A bucket that is emptied leaves a hole.
LEMMA EmptyBucket ==
  ASSUME NEW N \in Nat \ {0}, NEW b \in Tables(N), Ordered(N, b), Distinct(b),
         NEW i \in 0 .. N - 1, b[i] # Vacant
  PROVE  Hollow(N, Held(b) \ {b[i]}, [buckets |-> [b EXCEPT ![i] = Vacant], hole |-> i])
<1> DEFINE c == [b EXCEPT ![i] = Vacant]
           n == After(N, i)
           p == Before(N, i)
<1>0. /\ DOMAIN b = 0 .. N - 1 /\ DOMAIN c = 0 .. N - 1 /\ c \in Tables(N)
      /\ c[i] = Vacant /\ \A j \in 0 .. N - 1 : j # i => c[j] = b[j]
  BY DEF Tables
<1> HIDE DEF c
<1>1. /\ n \in 0 .. N - 1 /\ p \in 0 .. N - 1
      /\ Before(N, n) = i /\ (n = i <=> N = 1) /\ (p = i <=> N = 1)
  BY Circle
<1>2. Distinct(c)
  BY <1>0 DEF Distinct
<1>3. Held(c) = Held(b) \ {b[i]}
  BY <1>0 DEF Held, Distinct
<1>4. ASSUME NEW j \in 0 .. N - 1, j # n PROVE OrderedAt(N, c, j)
  <2>1. Before(N, j) # i /\ Before(N, j) \in 0 .. N - 1
    BY <1>4, Circle
  <2>2. OrderedAt(N, b, j)
    BY DEF Ordered
  <2>3. CASE j = i
    BY <1>0, <2>3 DEF OrderedAt
  <2>4. CASE j # i
    BY <1>0, <2>1, <2>2, <2>4 DEF OrderedAt
  <2> QED
    BY <2>3, <2>4
<1>5. ASSUME c[n] # Vacant, Far(N, c[n], n) >= 2
      PROVE  c[p] # Vacant /\ Far(N, c[n], n) <= Far(N, c[p], p) + 2
  <2>1. n # i /\ p # i /\ c[n] = b[n] /\ c[p] = b[p]
    BY <1>0, <1>1, <1>5
  <2>2. Far(N, b[n], n) \in 0 .. N - 1 /\ Far(N, b[i], i) \in 0 .. N - 1
    BY <1>1, <1>5, <2>1, InTable, FarType
  <2>3. Far(N, b[n], n) <= Far(N, b[i], i) + 1
    BY <1>1, <1>5, <2>1, <2>2 DEF Ordered, OrderedAt
  <2>4. b[p] # Vacant /\ Far(N, b[i], i) <= Far(N, b[p], p) + 1
    BY <1>5, <2>1, <2>2, <2>3 DEF Ordered, OrderedAt
  <2>5. Far(N, b[p], p) \in 0 .. N - 1
    BY <1>1, <2>4, InTable, FarType
  <2> QED
    BY <2>1, <2>2, <2>3, <2>4, <2>5
<1> DEFINE s == [buckets |-> c, hole |-> i]
<1>6. s.buckets = c /\ s.hole = i /\ s \in ShiftStates(N)
  BY <1>0 DEF ShiftStates
<1> HIDE DEF s
<1>7. Hollow(N, Held(b) \ {b[i]}, s)
  BY <1>0, <1>2, <1>3, <1>4, <1>5, <1>6 DEF Hollow
<1> QED
  BY <1>7 DEF s, c

\* A round moves the hole on by one bucket.
LEMMA ShiftRound ==
  ASSUME NEW N \in Nat \ {0}, NEW E, NEW s, Hollow(N, E, s), ~AtRest(N, s)
  PROVE  LET r == ShiftOnce(s)
         IN  /\ Hollow(N, E, r)
             /\ N > 1 /\ r.hole = After(N, s.hole)
             /\ \A w \in 0 .. N - 1 :
                  w # s.hole /\ s.buckets[w] = Vacant => w # r.hole /\ r.buckets[w] = Vacant
             /\ N = 2 => AtRest(N, r)
<1> DEFINE b == s.buckets
           h == s.hole
           n == After(N, h)
           p == Before(N, h)
           m == After(N, n)
           e == b[n]
           c == [b EXCEPT ![h] = e, ![n] = Vacant]
           r == [buckets |-> c, hole |-> n]
<1>1. h \in 0 .. N - 1 /\ b \in Tables(N) /\ b[h] = Vacant
  BY DEF Hollow, ShiftStates
<1>2. /\ n \in 0 .. N - 1 /\ p \in 0 .. N - 1 /\ m \in 0 .. N - 1
      /\ Before(N, n) = h /\ Before(N, m) = n
  BY <1>1, Circle
<1>3. e # Vacant /\ Far(N, e, n) # 0
  BY DEF AtRest
<1>4. n # h /\ N > 1 /\ m # n
  BY <1>1, <1>2, <1>3, Circle
<1>5. e \in Entries /\ Far(N, e, n) \in 1 .. N - 1 /\ Far(N, e, h) = Far(N, e, n) - 1
  <2>1. e \in Entries /\ Far(N, e, n) \in 0 .. N - 1
    BY <1>1, <1>2, <1>3, InTable, FarType
  <2>2. Far(N, e, Before(N, n)) = Far(N, e, n) - 1
    BY <1>2, <1>3, <2>1, FarOn
  <2> QED
    BY <1>2, <1>3, <2>1, <2>2
<1>6. ShiftOnce(s) = r
  <2>1. NextBucket(b, h) = n /\ ~IsVacant(b, n) /\ Distance(b, n) # 0
    BY <1>1, <1>2, <1>3, InTable
  <2> QED
    BY <2>1 DEF ShiftOnce
<1>7. /\ DOMAIN b = 0 .. N - 1 /\ DOMAIN c = 0 .. N - 1 /\ c \in Tables(N)
      /\ c[h] = e /\ c[n] = Vacant /\ \A j \in 0 .. N - 1 : j # h /\ j # n => c[j] = b[j]
  BY <1>1, <1>2, <1>4, <1>5 DEF Tables
<1>8. /\ Distinct(b) /\ Held(b) = E
      /\ \A i \in 0 .. N - 1 : i # n => OrderedAt(N, b, i)
      /\ Far(N, e, n) >= 2 => b[p] # Vacant /\ Far(N, e, n) <= Far(N, b[p], p) + 2
  BY <1>3 DEF Hollow
<1>9. r.buckets = c /\ r.hole = n /\ r \in ShiftStates(N)
  BY <1>2, <1>7 DEF ShiftStates
<1> HIDE DEF c, r
<1>10. Distinct(c)
  BY <1>1, <1>2, <1>3, <1>4, <1>7, <1>8, SMTT(40) DEF Distinct
<1>11. Held(c) = E
  <2>1. ASSUME NEW f \in Held(b) PROVE f \in Held(c)
    <3>1. PICK j \in 0 .. N - 1 : f = b[j] /\ f # Vacant
      BY <1>7 DEF Held
    <3>2. CASE j = n
      BY <1>1, <1>7, <3>1, <3>2 DEF Held
    <3>3. CASE j # n
      BY <1>1, <1>7, <3>1, <3>3 DEF Held
    <3> QED
      BY <3>2, <3>3
  <2>2. ASSUME NEW f \in Held(c) PROVE f \in Held(b)
    <3>1. PICK j \in 0 .. N - 1 : f = c[j] /\ f # Vacant
      BY <1>7 DEF Held
    <3>2. CASE j = h
      BY <1>2, <1>7, <3>1, <3>2 DEF Held
    <3>3. CASE j # h
      BY <1>7, <3>1, <3>3 DEF Held
    <3> QED
      BY <3>2, <3>3
  <2> QED
    BY <1>8, <2>1, <2>2
<1>12. N = 2 => m = h
  BY <1>1 DEF After
<1>13. N # 2 => p # n /\ m # h
  BY <1>1, <1>4 DEF After, Before
<1>14. ASSUME NEW j \in 0 .. N - 1, j # m PROVE OrderedAt(N, c, j)
  <2> DEFINE q == Before(N, j)
  <2>1. q # n /\ q \in 0 .. N - 1
    BY <1>2, <1>14, Circle
  <2> HIDE DEF q
  <2>2. CASE j = n
    BY <1>7, <2>2 DEF OrderedAt
  <2>3. CASE j = h
    <3>1. CASE Far(N, e, n) = 1
      BY <1>5, <1>7, <2>3, <3>1 DEF OrderedAt
    <3>2. CASE Far(N, e, n) >= 2
      <4>1. N # 2 /\ p # n /\ p # h
        BY <1>1, <1>4, <1>5, <1>13, <3>2, Circle
      <4>2. c[p] = b[p] /\ b[p] # Vacant /\ Far(N, e, n) <= Far(N, b[p], p) + 2
        BY <1>2, <1>7, <1>8, <3>2, <4>1
      <4>3. Far(N, b[p], p) \in 0 .. N - 1
        BY <1>1, <1>2, <4>2, InTable, FarType
      <4>4. Far(N, e, h) <= Far(N, c[p], p) + 1
        BY <1>5, <4>2, <4>3
      <4> QED
        BY <1>7, <2>3, <4>2, <4>4 DEF OrderedAt
    <3> QED
      BY <1>5, <3>1, <3>2
  <2>4. CASE j # n /\ j # h
    <3>1. q # h
      BY <2>4, Circle, <1>1 DEF q
    <3>2. c[j] = b[j] /\ c[q] = b[q]
      BY <1>7, <2>1, <2>4, <3>1
    <3>3. OrderedAt(N, b, j)
      BY <1>8, <2>4
    <3> QED
      BY <3>2, <3>3 DEF OrderedAt, q
  <2> QED
    BY <2>2, <2>3, <2>4
<1>15. ASSUME c[m] # Vacant, Far(N, c[m], m) >= 2
       PROVE  c[h] # Vacant /\ Far(N, c[m], m) <= Far(N, c[h], h) + 2
  <2>1. N # 2
    BY <1>2, <1>7, <1>15, InTable, FarType
  <2>2. c[m] = b[m] /\ m # h
    BY <1>2, <1>4, <1>7, <1>13, <2>1
  <2>3. OrderedAt(N, b, m)
    BY <1>2, <1>4, <1>8
  <2>4. Far(N, b[m], m) \in 0 .. N - 1
    BY <1>1, <1>2, <1>15, <2>2, InTable, FarType
  <2>5. Far(N, b[m], m) <= Far(N, b[n], n) + 1
    BY <1>2, <1>15, <2>2, <2>3, <2>4 DEF OrderedAt
  <2> QED
    BY <1>3, <1>5, <1>7, <2>2, <2>4, <2>5
<1>16. Hollow(N, E, r)
  <2>1. Before(N, n) = h
    BY <1>2
  <2> HIDE DEF n, h, m
  <2> QED
    BY <1>7, <1>9, <1>10, <1>11, <1>14, <1>15, <2>1 DEF Hollow, m
<1>17. N = 2 => AtRest(N, r)
  <2> SUFFICES ASSUME N = 2 PROVE AtRest(N, r)
    OBVIOUS
  <2>1. Far(N, e, h) = 0
    BY <1>5
  <2> QED
    BY <1>7, <1>9, <1>12, <2>1 DEF AtRest
<1>18. ASSUME NEW w \in 0 .. N - 1, w # h, b[w] = Vacant
       PROVE  w # n /\ c[w] = Vacant
  BY <1>3, <1>7, <1>18
<1> QED
  BY <1>4, <1>6, <1>9, <1>16, <1>17, <1>18

\* What the loop of backward_shift computes, round by round.
ShiftRuns(N, x, f) ==
  f = [n \in 0 .. N |-> IF n = 0 THEN x ELSE ShiftOnce(f[n - 1])]

\* The loop of backward_shift has an outcome.
LEMMA ShiftRounds ==
  ASSUME NEW N \in Nat, NEW x
  PROVE  \E f : ShiftRuns(N, x, f)
<1> DEFINE S == {n \in Nat : \E f : ShiftRuns(n, x, f)}
<1>1. 0 \in S
  <2>1. ShiftRuns(0, x, [m \in 0 .. 0 |-> x])
    BY DEF ShiftRuns
  <2> QED
    BY <2>1
<1>2. ASSUME NEW n \in Nat, n \in S PROVE n + 1 \in S
  <2>1. PICK f : ShiftRuns(n, x, f)
    BY <1>2
  <2> DEFINE g == [m \in 0 .. n + 1 |-> IF m = n + 1 THEN ShiftOnce(f[n]) ELSE f[m]]
  <2>2. ASSUME NEW m \in 0 .. n + 1
        PROVE  g[m] = IF m = 0 THEN x ELSE ShiftOnce(g[m - 1])
    <3>1. CASE m = n + 1
      BY <3>1
    <3>2. CASE m # n + 1
      <4>1. m \in 0 .. n /\ g[m] = f[m] /\ (m # 0 => m - 1 \in 0 .. n /\ g[m - 1] = f[m - 1])
        BY <2>2, <3>2
      <4>2. f[m] = IF m = 0 THEN x ELSE ShiftOnce(f[m - 1])
        BY <2>1, <4>1 DEF ShiftRuns
      <4> QED
        BY <4>1, <4>2
    <3> QED
      BY <3>1, <3>2
  <2>3. ShiftRuns(n + 1, x, g)
    <3>1. g = [m \in 0 .. n + 1 |-> g[m]]
      OBVIOUS
    <3> HIDE DEF g
    <3> QED
      BY <2>2, <3>1 DEF ShiftRuns
  <2> HIDE DEF g
  <2>4. \E h : ShiftRuns(n + 1, x, h)
    BY <2>3
  <2> QED
    BY <2>4
<1>3. Nat \subseteq S
  <2> HIDE DEF S
  <2> QED
    BY <1>1, <1>2, SetInduction
<1> QED
  BY <1>3

\* backward_shift takes a hole out of the table, if there is another vacant bucket
\* at which it stops, or the table has no more than two buckets.
LEMMA ShiftLoop ==
  ASSUME NEW N \in Nat \ {0}, NEW E, NEW b, NEW i,
         Hollow(N, E, [buckets |-> b, hole |-> i]),
         N <= 2 \/ \E w \in 0 .. N - 1 : w # i /\ b[w] = Vacant
  PROVE  LET r == BackwardShift(b, i)
         IN  r \in Tables(N) /\ Ordered(N, r) /\ Distinct(r) /\ Held(r) = E
<1> DEFINE x == [buckets |-> b, hole |-> i]
           round == CHOOSE f : ShiftRuns(N, x, f)
<1>0. b \in Tables(N) /\ i \in 0 .. N - 1
  BY DEF Hollow, ShiftStates
<1>1. round = [n \in 0 .. N |-> IF n = 0 THEN x ELSE ShiftOnce(round[n - 1])]
  <2> HIDE DEF x
  <2>1. \E f : ShiftRuns(N, x, f)
    BY ShiftRounds
  <2>2. ShiftRuns(N, x, round)
    BY <2>1
  <2> HIDE DEF round
  <2> QED
    BY <2>2 DEF ShiftRuns
<1>2. BackwardShift(b, i) = round[N].buckets
  BY <1>0, InTable, ZenonT(60) DEF BackwardShift, ShiftRuns
<1>3. x.buckets = b /\ x.hole = i /\ Hollow(N, E, x)
  OBVIOUS
<1> HIDE DEF x, round
<1>4. \A n \in 0 .. N : round[n] = IF n = 0 THEN x ELSE ShiftOnce(round[n - 1])
  BY <1>1
<1>5. ASSUME NEW s, Hollow(N, E, s), AtRest(N, s) PROVE ShiftOnce(s) = s
  <2>1. s.hole \in 0 .. N - 1 /\ s.buckets \in Tables(N)
    BY <1>5 DEF Hollow, ShiftStates
  <2>2. After(N, s.hole) \in 0 .. N - 1
    BY <2>1, Circle
  <2>3. /\ NextBucket(s.buckets, s.hole) = After(N, s.hole)
        /\ \A j : IsVacant(s.buckets, j) <=> s.buckets[j] = Vacant
        /\ \A j : Distance(s.buckets, j) = Far(N, s.buckets[j], j)
    BY <2>1, InTable
  <2> QED
    BY <1>5, <2>3 DEF ShiftOnce, AtRest
<1>6. CASE N <= 2
  <2>1. ASSUME NEW s, Hollow(N, E, s)
        PROVE  Hollow(N, E, ShiftOnce(s)) /\ AtRest(N, ShiftOnce(s))
    <3>1. CASE AtRest(N, s)
      BY <1>5, <2>1, <3>1
    <3>2. CASE ~AtRest(N, s)
      <4>1. Hollow(N, E, ShiftOnce(s)) /\ N > 1 /\ (N = 2 => AtRest(N, ShiftOnce(s)))
        BY <2>1, <3>2, ShiftRound
      <4> QED
        BY <1>6, <4>1
    <3> QED
      BY <3>1, <3>2
  <2>2. Hollow(N, E, round[1]) /\ AtRest(N, round[1])
    <3>1. round[0] = x /\ round[1] = ShiftOnce(round[0])
      BY <1>4
    <3> QED
      BY <1>3, <2>1, <3>1
  <2>3. Hollow(N, E, round[N]) /\ AtRest(N, round[N])
    <3>1. CASE N = 1
      BY <2>2, <3>1
    <3>2. CASE N = 2
      <4>1. round[2] = ShiftOnce(round[1])
        BY <1>4, <3>2
      <4> QED
        BY <2>1, <2>2, <3>2, <4>1
    <3> QED
      BY <1>6, <3>1, <3>2
  <2> QED
    BY <1>2, <2>3, RestIsOrder
<1>7. ASSUME NEW w \in 0 .. N - 1, w # i, b[w] = Vacant
      PROVE  Hollow(N, E, round[N]) /\ AtRest(N, round[N])
  <2> DEFINE Moved(n) == /\ round[n].buckets[w] = Vacant /\ round[n].hole # w
                         /\ Away(N, w, round[n].hole) = Away(N, w, i) + n
             Ahead(n) == Hollow(N, E, round[n]) /\ (AtRest(N, round[n]) \/ Moved(n))
             S == {n \in Nat : n <= N => Ahead(n)}
  <2>0. Away(N, w, i) \in 1 .. N
    BY <1>0, AwayOn
  <2>1. 0 \in S
    <3>1. round[0] = x
      BY <1>4
    <3> QED
      BY <1>3, <1>7, <2>0, <3>1
  <2>2. ASSUME NEW n \in Nat, n \in S PROVE n + 1 \in S
    <3> SUFFICES ASSUME n + 1 <= N PROVE Ahead(n + 1)
      OBVIOUS
    <3>1. Ahead(n)
      BY <2>2
    <3>2. round[n + 1] = ShiftOnce(round[n])
      BY <1>4
    <3>3. CASE AtRest(N, round[n])
      <4>1. ShiftOnce(round[n]) = round[n]
        BY <1>5, <3>1, <3>3
      <4> QED
        BY <3>1, <3>2, <3>3, <4>1
    <3>4. CASE ~AtRest(N, round[n])
      <4> DEFINE s == round[n]
      <4>1. Hollow(N, E, s) /\ Moved(n) /\ s.hole \in 0 .. N - 1
        BY <3>1, <3>4 DEF Hollow, ShiftStates
      <4>2. /\ Hollow(N, E, ShiftOnce(s))
            /\ ShiftOnce(s).hole = After(N, s.hole)
            /\ w # ShiftOnce(s).hole /\ ShiftOnce(s).buckets[w] = Vacant
        <5>1. s.buckets[w] = Vacant /\ s.hole # w /\ ~AtRest(N, s) /\ Hollow(N, E, s)
          BY <3>4, <4>1
        <5> HIDE DEF s
        <5> QED
          BY <5>1, ShiftRound
      <4>3. Away(N, w, After(N, s.hole)) = Away(N, w, s.hole) + 1
        BY <4>1, AwayOn
      <4> QED
        BY <2>0, <3>2, <4>1, <4>2, <4>3
    <3> QED
      BY <3>3, <3>4
  <2>3. N \in S
    <3> HIDE DEF S
    <3> QED
      BY <2>1, <2>2, SetInduction
  <2>4. Ahead(N)
    BY <2>3
  <2>5. ~Moved(N)
    <3>1. round[N].hole \in 0 .. N - 1
      BY <2>4 DEF Hollow, ShiftStates
    <3>2. Away(N, w, round[N].hole) \in 1 .. N
      BY <3>1, AwayOn
    <3> QED
      BY <2>0, <3>2
  <2> QED
    BY <2>4, <2>5
<1> QED
  BY <1>2, <1>6, <1>7, RestIsOrder

-----------------------------------------------------------------------------
(* Powers of two                                                           *)

\* What the powers of two computes, round by round.
PowerRuns(N, x, f) ==
  f = [n \in 0 .. N |-> IF n = 0 THEN x ELSE 2 * f[n - 1]]

\* There are powers of two up to any.
LEMMA PowerRounds ==
  ASSUME NEW N \in Nat, NEW x
  PROVE  \E f : PowerRuns(N, x, f)
<1> DEFINE S == {n \in Nat : \E f : PowerRuns(n, x, f)}
<1>1. 0 \in S
  <2>1. PowerRuns(0, x, [m \in 0 .. 0 |-> x])
    BY DEF PowerRuns
  <2> QED
    BY <2>1
<1>2. ASSUME NEW n \in Nat, n \in S PROVE n + 1 \in S
  <2>1. PICK f : PowerRuns(n, x, f)
    BY <1>2
  <2> DEFINE g == [m \in 0 .. n + 1 |-> IF m = n + 1 THEN 2 * f[n] ELSE f[m]]
  <2>2. ASSUME NEW m \in 0 .. n + 1
        PROVE  g[m] = IF m = 0 THEN x ELSE 2 * g[m - 1]
    <3>1. CASE m = n + 1
      BY <3>1
    <3>2. CASE m # n + 1
      <4>1. m \in 0 .. n /\ g[m] = f[m] /\ (m # 0 => m - 1 \in 0 .. n /\ g[m - 1] = f[m - 1])
        BY <2>2, <3>2
      <4>2. f[m] = IF m = 0 THEN x ELSE 2 * f[m - 1]
        BY <2>1, <4>1 DEF PowerRuns
      <4> QED
        BY <4>1, <4>2
    <3> QED
      BY <3>1, <3>2
  <2>3. PowerRuns(n + 1, x, g)
    <3>1. g = [m \in 0 .. n + 1 |-> g[m]]
      OBVIOUS
    <3> HIDE DEF g
    <3> QED
      BY <2>2, <3>1 DEF PowerRuns
  <2> HIDE DEF g
  <2>4. \E h : PowerRuns(n + 1, x, h)
    BY <2>3
  <2> QED
    BY <2>4
<1>3. Nat \subseteq S
  <2> HIDE DEF S
  <2> QED
    BY <1>1, <1>2, SetInduction
<1> QED
  BY <1>3

\* The powers of two are what their definition says.
LEMMA PowersDefined ==
  TwoTo = [n \in Nat |-> IF n = 0 THEN 1 ELSE 2 * TwoTo[n - 1]]
<1> DEFINE F(n) == CHOOSE f : PowerRuns(n, 1, f)
           h == [n \in Nat |-> F(n)[n]]
<1>1. ASSUME NEW n \in Nat
      PROVE  \A m \in 0 .. n : F(n)[m] = IF m = 0 THEN 1 ELSE 2 * F(n)[m - 1]
  <2>1. \E f : PowerRuns(n, 1, f)
    BY PowerRounds
  <2>2. PowerRuns(n, 1, F(n))
    BY <2>1
  <2> HIDE DEF F
  <2> QED
    BY <2>2 DEF PowerRuns
<1> HIDE DEF F
<1> DEFINE S == {k \in Nat : \A n, m \in Nat : k <= n /\ k <= m => F(n)[k] = F(m)[k]}
<1>2. 0 \in S
  BY <1>1
<1>3. ASSUME NEW k \in Nat, k \in S PROVE k + 1 \in S
  <2> SUFFICES ASSUME NEW n \in Nat, NEW m \in Nat, k + 1 <= n, k + 1 <= m
               PROVE  F(n)[k + 1] = F(m)[k + 1]
    OBVIOUS
  <2>1. k + 1 \in 0 .. n /\ k + 1 \in 0 .. m /\ (k + 1) - 1 = k /\ k + 1 # 0
    OBVIOUS
  <2>2. F(n)[k] = F(m)[k]
    BY <1>3
  <2>3. F(n)[k + 1] = 2 * F(n)[(k + 1) - 1] /\ F(m)[k + 1] = 2 * F(m)[(k + 1) - 1]
    BY <1>1, <2>1
  <2> QED
    BY <2>1, <2>2, <2>3
<1>4. Nat \subseteq S
  <2> HIDE DEF S
  <2> QED
    BY <1>2, <1>3, SetInduction
<1>5. ASSUME NEW n \in Nat PROVE h[n] = IF n = 0 THEN 1 ELSE 2 * h[n - 1]
  <2>1. CASE n = 0
    BY <1>1, <2>1
  <2>2. CASE n # 0
    <3>1. n - 1 \in Nat /\ n - 1 \in S
      BY <1>4, <2>2
    <3>2. F(n)[n - 1] = F(n - 1)[n - 1]
      BY <3>1
    <3>3. F(n)[n] = 2 * F(n)[n - 1]
      BY <1>1, <2>2
    <3> QED
      BY <2>2, <3>1, <3>2, <3>3
  <2> QED
    BY <2>1, <2>2
<1>6. h = [n \in Nat |-> IF n = 0 THEN 1 ELSE 2 * h[n - 1]]
  <2>1. h = [n \in Nat |-> h[n]]
    OBVIOUS
  <2> HIDE DEF h
  <2> QED
    BY <1>5, <2>1
<1>7. \E f : f = [n \in Nat |-> IF n = 0 THEN 1 ELSE 2 * f[n - 1]]
  <2> HIDE DEF h
  <2> QED
    BY <1>6
<1> QED
  BY <1>7 DEF TwoTo

\* Each is twice the one before it, and more than its exponent.
LEMMA Powers ==
  /\ TwoTo[0] = 1
  /\ \A n \in Nat : TwoTo[n + 1] = 2 * TwoTo[n]
  /\ \A n \in Nat : TwoTo[n] \in Nat /\ TwoTo[n] > n
<1>1. TwoTo[0] = 1
  BY PowersDefined
<1>2. ASSUME NEW n \in Nat PROVE TwoTo[n + 1] = 2 * TwoTo[n]
  <2>1. n + 1 \in Nat /\ n + 1 # 0 /\ (n + 1) - 1 = n
    OBVIOUS
  <2>2. TwoTo[n + 1] = IF n + 1 = 0 THEN 1 ELSE 2 * TwoTo[(n + 1) - 1]
    BY <2>1, PowersDefined
  <2> QED
    BY <2>1, <2>2
<1> DEFINE S == {n \in Nat : TwoTo[n] \in Nat /\ TwoTo[n] > n}
<1>3. 0 \in S
  BY <1>1
<1>4. ASSUME NEW n \in Nat, n \in S PROVE n + 1 \in S
  BY <1>2, <1>4
<1>5. Nat \subseteq S
  <2> HIDE DEF S
  <2> QED
    BY <1>3, <1>4, SetInduction
<1> QED
  BY <1>1, <1>2, <1>5

\* A power of two divides every greater one.
LEMMA PowersDivide ==
  ASSUME NEW i \in Nat, NEW j \in Nat, TwoTo[i] <= TwoTo[j]
  PROVE  \E q \in Nat : TwoTo[j] = q * TwoTo[i]
<1>1. ASSUME NEW a \in Nat PROVE \A d \in Nat : \E q \in Nat \ {0} : TwoTo[a + d] = q * TwoTo[a]
  <2> DEFINE S == {d \in Nat : \E q \in Nat \ {0} : TwoTo[a + d] = q * TwoTo[a]}
  <2>1. 0 \in S
    <3>1. TwoTo[a] \in Nat /\ a + 0 = a
      BY Powers
    <3>2. 1 \in Nat \ {0} /\ TwoTo[a + 0] = 1 * TwoTo[a]
      BY <3>1
    <3> QED
      BY <3>2
  <2>2. ASSUME NEW d \in Nat, d \in S PROVE d + 1 \in S
    <3>1. PICK q \in Nat \ {0} : TwoTo[a + d] = q * TwoTo[a]
      BY <2>2
    <3>2. a + (d + 1) = (a + d) + 1 /\ a + d \in Nat
      OBVIOUS
    <3>3. TwoTo[a + (d + 1)] = 2 * TwoTo[a + d] /\ TwoTo[a] \in Nat
      BY <3>2, Powers
    <3>4. TwoTo[a + (d + 1)] = (2 * q) * TwoTo[a] /\ 2 * q \in Nat \ {0}
      BY <3>1, <3>3
    <3> QED
      BY <3>4
  <2>3. Nat \subseteq S
    <3> HIDE DEF S
    <3> QED
      BY <2>1, <2>2, SetInduction
  <2> QED
    BY <2>3
<1>2. TwoTo[i] \in Nat /\ TwoTo[j] \in Nat /\ TwoTo[j] > 0
  BY Powers
<1>3. CASE i <= j
  <2>1. j - i \in Nat /\ i + (j - i) = j
    BY <1>3
  <2>2. \E q \in Nat \ {0} : TwoTo[i + (j - i)] = q * TwoTo[i]
    BY <1>1, <2>1
  <2> QED
    BY <2>1, <2>2
<1>4. CASE i > j
  <2>1. i - j \in Nat /\ j + (i - j) = i
    BY <1>4
  <2>2. PICK q \in Nat \ {0} : TwoTo[i] = q * TwoTo[j]
    BY <1>1, <2>1
  <2>3. CASE q = 1
    <3>1. TwoTo[j] = 1 * TwoTo[i]
      BY <1>2, <2>2, <2>3
    <3> QED
      BY <3>1
  <2>4. CASE q # 1
    <3>1. q * TwoTo[j] >= 2 * TwoTo[j]
      BY <1>2, <2>4
    <3> QED
      BY <1>2, <2>2, <3>1
  <2> QED
    BY <2>3, <2>4
<1> QED
  BY <1>3, <1>4

\* The numbers of buckets that a table may have.
Sizes == {0} \cup {TwoTo[j] : j \in 0 .. MaxBuckets}

\* A number is its quotient and its rest.
LEMMA QuotientAndRest ==
  ASSUME NEW h \in Nat, NEW n \in Nat \ {0}
  PROVE  h % n \in 0 .. n - 1 /\ h \div n \in Nat /\ h = (n * (h \div n)) + (h % n)
OBVIOUS

\* A hash and the truncated one have the same ideal bucket.
LEMMA TruncatedIdeal ==
  ASSUME NEW N \in Sizes, 0 < N, N <= MaxBuckets, NEW h \in Nat
  PROVE  Truncated(h) \in Nat /\ Ideal(N, Truncated(h)) = Ideal(N, h)
<1>1. PICK i \in Nat : N = TwoTo[i]
  BY DEF Sizes
<1>2. TruncMod \in Nat \ {0} /\ \E j \in Nat : TruncMod = TwoTo[j]
  BY Powers, TruncationAssumption
<1>3. PICK j \in Nat : TruncMod = TwoTo[j]
  BY <1>2
<1>4. N \in Nat \ {0} /\ N <= TruncMod
  <2>1. N \in Nat
    BY <1>1, Powers
  <2>2. MaxBuckets \in Nat
    BY HashAssumption
  <2>3. MaxBuckets <= TruncMod
    BY TruncationAssumption
  <2> QED
    BY <1>2, <2>1, <2>2, <2>3
<1>5. PICK q \in Nat : TruncMod = q * N
  BY <1>1, <1>3, <1>4, PowersDivide
<1> DEFINE r == h % TruncMod
           a == h \div TruncMod
           c == r \div N
           m == r % N
<1>6. r \in Nat /\ a \in Nat /\ h = (TruncMod * a) + r
  <2>1. TruncMod \in Nat \ {0}
    BY <1>2
  <2>2. /\ h % TruncMod \in 0 .. TruncMod - 1 /\ h \div TruncMod \in Nat
        /\ h = (TruncMod * (h \div TruncMod)) + (h % TruncMod)
    BY <2>1, QuotientAndRest
  <2>3. h % TruncMod \in Nat
    BY <2>1, <2>2
  <2> QED
    BY <2>2, <2>3
<1>7. m \in 0 .. N - 1 /\ c \in Nat /\ r = (N * c) + m
  <2>1. r \in Nat
    BY <1>6
  <2> HIDE DEF r
  <2> QED
    BY <1>4, <2>1, QuotientAndRest
<1> HIDE DEF r, a, c, m
<1>8. h = N * ((q * a) + c) + m
  <2>1. TruncMod * a = N * (q * a)
    BY <1>4, <1>5, <1>6
  <2>2. N * ((q * a) + c) = N * (q * a) + N * c
    BY <1>4, <1>6, <1>7
  <2> QED
    BY <1>2, <1>4, <1>6, <1>7, <2>1, <2>2
<1>9. h % N = m
  <2>1. (q * a) + c \in Nat
    BY <1>6, <1>7
  <2> DEFINE t == (q * a) + c
  <2>2. t \in Nat /\ h = (N * t) + m
    BY <1>8, <2>1
  <2> HIDE DEF t
  <2> QED
    BY <1>4, <1>7, <2>2
<1> QED
  BY <1>6, <1>9 DEF Truncated, Ideal, r, m

\* round_up_to_power_of_two does.
LEMMA RoundedUpType ==
  ASSUME NEW n \in Nat
  PROVE  /\ RoundedUp(n) \in {0} \cup {TwoTo[j] : j \in Nat}
         /\ RoundedUp(n) \in Nat /\ RoundedUp(n) >= n
         /\ RoundedUp(n) = 0 <=> n = 0
<1>1. CASE n = 0
  BY <1>1 DEF RoundedUp
<1>2. CASE n # 0
  <2> DEFINE S == {j \in 0 .. n : TwoTo[j] >= n}
             j == Min(S)
  <2>1. n \in S
    BY Powers
  <2>2. S \subseteq Nat /\ S # {}
    BY <2>1
  <2>3. j \in S /\ \A y \in S : j <= y
    <3> HIDE DEF S
    <3> QED
      BY <2>2, Least
  <2> HIDE DEF j
  <2>4. \A i \in 0 .. j - 1 : TwoTo[i] < n
    BY <2>3, Powers
  <2>5. \E k \in 0 .. n : TwoTo[k] >= n /\ \A i \in 0 .. k - 1 : TwoTo[i] < n
    BY <2>3, <2>4
  <2> DEFINE k == CHOOSE k \in 0 .. n : TwoTo[k] >= n /\ \A i \in 0 .. k - 1 : TwoTo[i] < n
  <2>6. k \in 0 .. n /\ TwoTo[k] >= n
    BY <2>5
  <2>7. RoundedUp(n) = TwoTo[k]
    BY <1>2 DEF RoundedUp
  <2> HIDE DEF k
  <2>8. k \in Nat
    BY <2>6
  <2>9. TwoTo[k] \in Nat
    BY <2>8, Powers
  <2> QED
    BY <1>2, <2>6, <2>7, <2>8, <2>9
<1> QED
  BY <1>1, <1>2

\* A number of buckets within the bound is one of the sizes.
LEMMA InSizes ==
  ASSUME NEW j \in Nat, TwoTo[j] <= MaxBuckets
  PROVE  TwoTo[j] \in Sizes
<1>1. j \in 0 .. MaxBuckets
  BY Powers, HashAssumption
<1> QED
  BY <1>1 DEF Sizes

\* Sizes are numbers.
LEMMA SizeType == Sizes \subseteq Nat
BY Powers DEF Sizes

-----------------------------------------------------------------------------
(* find_key and the loops that probe like it                               *)

\* The bucket that is d steps behind the bucket a.
Place(N, a, d) == IF a + d < N THEN a + d ELSE a + d - N

\* Going there and counting the steps are inverse.
LEMMA PlaceSteps ==
  ASSUME NEW N \in Nat \ {0}, NEW a \in 0 .. N - 1
  PROVE  /\ Place(N, a, 0) = a
         /\ \A d \in 0 .. N - 1 : Place(N, a, d) \in 0 .. N - 1 /\ Steps(N, a, Place(N, a, d)) = d
         /\ \A d \in 1 .. N - 1 : Before(N, Place(N, a, d)) = Place(N, a, d - 1)
         /\ \A i \in 0 .. N - 1 : Place(N, a, Steps(N, a, i)) = i
BY DEF Place, Steps, Before

\* The same for one bucket: from it to its steps and back,
LEMMA PlaceBack ==
  ASSUME NEW N \in Nat \ {0}, NEW a \in 0 .. N - 1, NEW i \in 0 .. N - 1
  PROVE  Steps(N, a, i) \in 0 .. N - 1 /\ Place(N, a, Steps(N, a, i)) = i
BY StepsOn, PlaceSteps

\* and from a number of steps to the bucket and back.
LEMMA PlaceAhead ==
  ASSUME NEW N \in Nat \ {0}, NEW a \in 0 .. N - 1, NEW d \in 0 .. N - 1
  PROVE  Place(N, a, d) \in 0 .. N - 1 /\ Steps(N, a, Place(N, a, d)) = d
BY PlaceSteps

\* What Seat is in a table of N buckets.
LEMMA SeatPlace ==
  ASSUME NEW N \in Nat \ {0}, NEW b \in Tables(N), NEW h \in Nat
  PROVE  /\ \A d \in 0 .. N - 1 : Seat(b, h, d) = Place(N, Ideal(N, h), d)
         /\ \A d \in Nat : Seat(b, h, d) \in 0 .. N - 1
<1> DEFINE a == Ideal(N, h)
<1>1. a \in 0 .. N - 1
  BY IdealBucket
<1>2. \A d : Seat(b, h, d) = (a + d) % N
  BY InTable DEF Seat
<1> HIDE DEF a
<1>3. ASSUME NEW d \in Nat PROVE (a + d) % N \in 0 .. N - 1
  BY <1>1
<1>4. ASSUME NEW d \in 0 .. N - 1 PROVE (a + d) % N = Place(N, a, d)
  <2>1. CASE a + d < N
    BY <1>1, <2>1 DEF Place
  <2>2. CASE a + d >= N
    <3> DEFINE r == a + d - N
    <3>1. r \in 0 .. N - 1 /\ a + d = (N * 1) + r
      BY <1>1, <2>2
    <3> HIDE DEF r
    <3>2. ((N * 1) + r) % N = r
      BY <3>1
    <3> QED
      BY <2>2, <3>1, <3>2 DEF Place, r
  <2> QED
    BY <1>1, <2>1, <2>2
<1> QED
  BY <1>2, <1>3, <1>4 DEF a

\* From the ideal bucket of an entry to its own, every bucket has an entry that is
\* at least as far from its ideal bucket.
LEMMA Chain ==
  ASSUME NEW N \in Nat \ {0}, NEW b \in Tables(N), Ordered(N, b),
         NEW i \in 0 .. N - 1, b[i] # Vacant,
         NEW d \in 0 .. Far(N, b[i], i)
  PROVE  LET j == Place(N, Ideal(N, b[i].hash), d)
         IN  b[j] # Vacant /\ Far(N, b[j], j) >= d
<1> DEFINE a == Ideal(N, b[i].hash)
           D == Far(N, b[i], i)
           Good(c) == b[Place(N, a, c)] # Vacant /\ Far(N, b[Place(N, a, c)], Place(N, a, c)) >= c
           S == {m \in Nat : m <= D => Good(D - m)}
<1>1. b[i] \in Entries /\ D \in 0 .. N - 1 /\ a \in 0 .. N - 1
  BY InTable, FarType, IdealBucket DEF Entries
<1>2. D = Steps(N, a, i)
  BY DEF Far
<1> HIDE DEF a, D
<1>3. 0 \in S
  <2>1. D - 0 = D /\ Place(N, a, D) = i
    BY <1>1, <1>2, PlaceSteps
  <2>2. Far(N, b[i], i) >= D
    BY <1>1 DEF D
  <2> QED
    BY <2>1, <2>2
<1>4. ASSUME NEW m \in Nat, m \in S PROVE m + 1 \in S
  <2> SUFFICES ASSUME m + 1 <= D PROVE Good(D - (m + 1))
    OBVIOUS
  <2> DEFINE c == D - m
             p == Place(N, a, c)
  <2>1. Good(c) /\ c \in 1 .. N - 1 /\ D - (m + 1) = c - 1
    BY <1>1, <1>4
  <2>2. p \in 0 .. N - 1 /\ Before(N, p) = Place(N, a, c - 1) /\ Before(N, p) \in 0 .. N - 1
    <3> HIDE DEF c
    <3>1. c \in 0 .. N - 1
      BY <2>1
    <3> QED
      BY <1>1, <2>1, <3>1, PlaceSteps, Circle
  <2>3. b[p] # Vacant /\ Far(N, b[p], p) >= c
    BY <2>1
  <2> HIDE DEF c, p
  <2>4. Far(N, b[p], p) \in 0 .. N - 1
    BY <2>2, <2>3, InTable, FarType
  <2>5. b[Before(N, p)] # Vacant /\ Far(N, b[p], p) <= Far(N, b[Before(N, p)], Before(N, p)) + 1
    BY <2>1, <2>2, <2>3, <2>4 DEF Ordered, OrderedAt
  <2>6. Far(N, b[Before(N, p)], Before(N, p)) \in 0 .. N - 1
    BY <2>2, <2>5, InTable, FarType
  <2>7. Far(N, b[Before(N, p)], Before(N, p)) >= c - 1
    BY <2>1, <2>3, <2>4, <2>5, <2>6
  <2> QED
    BY <2>1, <2>2, <2>5, <2>7
<1>5. D - d \in S
  <2>1. D - d \in Nat
    BY <1>1 DEF D
  <2>2. Nat \subseteq S
    <3> HIDE DEF S
    <3> QED
      BY <1>3, <1>4, SetInduction
  <2> QED
    BY <2>1, <2>2
<1>6. Good(d)
  <2>1. D - d <= D /\ D - (D - d) = d
    BY <1>1 DEF D
  <2> QED
    BY <1>5, <2>1
<1> QED
  BY <1>6 DEF a

\* The entries of the values v.
Listing(v) == {Entry(j - 1, Hash[v[j]]) : j \in 1 .. Len(v)}

NoneTwice(v) == \A i, j \in 1 .. Len(v) : v[i] = v[j] => i = j

\* The table b of N buckets is that of the values v.
Sound(N, b, v) ==
  /\ v \in Seq(Keys) /\ NoneTwice(v)
  /\ b \in Tables(N) /\ Ordered(N, b) /\ Distinct(b)
  /\ Held(b) = Listing(v)

\* The entry of a value.
LEMMA EntryType ==
  ASSUME NEW j \in Nat, NEW k \in Keys
  PROVE  /\ Hash[k] \in Nat /\ Entry(j, Hash[k]) \in Entries
         /\ Entry(j, Hash[k]).index = j /\ Entry(j, Hash[k]).hash = Truncated(Hash[k])
<1>1. Hash[k] \in Nat
  BY HashAssumption
<1>2. TruncMod \in Nat \ {0}
  BY TruncationAssumption, Powers
<1>3. Truncated(Hash[k]) \in Nat
  BY <1>1, <1>2 DEF Truncated
<1> QED
  BY <1>1, <1>3 DEF Entry, Entries

\* Every bucket that is not vacant has the entry of a value, and every value has a
\* bucket.
LEMMA SoundEntries ==
  ASSUME NEW N \in Nat, NEW b, NEW v, Sound(N, b, v)
  PROVE  /\ \A i \in 0 .. N - 1 : b[i] # Vacant =>
              /\ b[i].index + 1 \in 1 .. Len(v) /\ b[i].index \in Nat
              /\ b[i] = Entry(b[i].index, Hash[v[b[i].index + 1]])
         /\ \A j \in 1 .. Len(v) : \E i \in 0 .. N - 1 :
              b[i] = Entry(j - 1, Hash[v[j]]) /\ b[i] # Vacant
<1>1. b \in Tables(N) /\ Held(b) = Listing(v) /\ v \in Seq(Keys) /\ DOMAIN b = 0 .. N - 1
  BY InTable DEF Sound
<1>2. ASSUME NEW i \in 0 .. N - 1, b[i] # Vacant
      PROVE  /\ b[i].index + 1 \in 1 .. Len(v) /\ b[i].index \in Nat
             /\ b[i] = Entry(b[i].index, Hash[v[b[i].index + 1]])
  <2>1. b[i] \in Listing(v)
    BY <1>1, <1>2 DEF Held
  <2>2. PICK j \in 1 .. Len(v) : b[i] = Entry(j - 1, Hash[v[j]])
    BY <2>1 DEF Listing
  <2>3. v[j] \in Keys /\ j - 1 \in Nat /\ (j - 1) + 1 = j
    BY <1>1
  <2>4. b[i].index = j - 1
    BY <2>2, <2>3, EntryType
  <2> QED
    BY <2>2, <2>3, <2>4
<1>3. ASSUME NEW j \in 1 .. Len(v)
      PROVE  \E i \in 0 .. N - 1 : b[i] = Entry(j - 1, Hash[v[j]]) /\ b[i] # Vacant
  <2>1. Entry(j - 1, Hash[v[j]]) \in Held(b)
    BY <1>1 DEF Listing
  <2> QED
    BY <1>1, <2>1 DEF Held
<1> QED
  BY <1>2, <1>3

\* Probing stops after N steps at the latest, at the first bucket that halts it.
LEMMA ProbeStops ==
  ASSUME NEW N \in Nat \ {0}, NEW b \in Tables(N), NEW v, NEW k \in Keys
  PROVE  LET p == Probe(b, v, k)
         IN  /\ p.dist \in 0 .. N /\ Halts(b, v, k, p.dist)
             /\ \A d \in 0 .. p.dist - 1 : ~Halts(b, v, k, d)
             /\ p.bucket = Seat(b, Hash[k], p.dist) /\ p.bucket \in 0 .. N - 1
             /\ p.found <=> ~IsVacant(b, p.bucket) /\ Holds(b, v, p.bucket, k)
<1> DEFINE S == {d \in 0 .. N : Halts(b, v, k, d)}
           m == Min(S)
<1>1. Hash[k] \in Nat
  BY HashAssumption
<1>2. Halts(b, v, k, N)
  <2> DEFINE i == Seat(b, Hash[k], N)
  <2>1. i \in 0 .. N - 1
    BY <1>1, SeatPlace
  <2> HIDE DEF i
  <2>2. b[i] # Vacant => Far(N, b[i], i) \in 0 .. N - 1
    BY <2>1, InTable, FarType
  <2>3. b[i] = Vacant => IsVacant(b, i)
    BY InTable
  <2>4. Distance(b, i) = Far(N, b[i], i)
    BY InTable
  <2> QED
    BY <2>2, <2>3, <2>4 DEF Halts, i
<1>3. N \in S
  BY <1>2
<1>4. S \subseteq Nat /\ S # {}
  BY <1>3
<1> HIDE DEF S
<1>5. m \in S /\ \A y \in S : m <= y
  BY <1>4, Least
<1> DEFINE q == Seat(b, Hash[k], m)
           F == ~IsVacant(b, q) /\ Holds(b, v, q, k)
<1>6. Probe(b, v, k) = [bucket |-> q, dist |-> m, found |-> F]
  BY InTable DEF Probe, S
<1> HIDE DEF m, F
<1>7. Seat(b, Hash[k], m) \in 0 .. N - 1
  BY <1>1, <1>4, <1>5, SeatPlace
<1>8. m \in 0 .. N /\ Halts(b, v, k, m) /\ \A d \in 0 .. m - 1 : ~Halts(b, v, k, d)
  BY <1>5 DEF S
<1> DEFINE p == Probe(b, v, k)
<1>9. p.bucket = q /\ p.dist = m /\ (p.found <=> F)
  BY <1>6
<1> HIDE DEF p
<1> QED
  BY <1>7, <1>8, <1>9 DEF F, p

\* A bucket that holds a key has the entry of the key's place among the values.
LEMMA HoldsPlace ==
  ASSUME NEW N \in Nat, NEW b, NEW v, Sound(N, b, v), NEW i \in 0 .. N - 1,
         b[i] # Vacant, NEW k \in Keys, Holds(b, v, i, k)
  PROVE  \E j \in 1 .. Len(v) : v[j] = k /\ b[i].index = j - 1
<1>1. b[i].index + 1 \in 1 .. Len(v) /\ b[i].index \in Nat
  BY SoundEntries
<1>2. v[b[i].index + 1] = k
  BY DEF Holds
<1> DEFINE j == b[i].index + 1
<1>3. j \in 1 .. Len(v) /\ v[j] = k /\ b[i].index = j - 1
  BY <1>1, <1>2
<1> HIDE DEF j
<1> QED
  BY <1>3

\* find_key finds a key that is there, in its bucket.
LEMMA FoundProbe ==
  ASSUME NEW N \in Nat \ {0}, N \in Sizes, N <= MaxBuckets, NEW b, NEW v, Sound(N, b, v),
         NEW j \in 1 .. Len(v), NEW i \in 0 .. N - 1,
         b[i] = Entry(j - 1, Hash[v[j]])
  PROVE  Probe(b, v, v[j]).found /\ Probe(b, v, v[j]).bucket = i
<1> DEFINE k == v[j]
           h == Hash[k]
           a == Ideal(N, h)
           D == Far(N, b[i], i)
           p == Probe(b, v, k)
<1>1. /\ N \in Nat \ {0} /\ b \in Tables(N) /\ v \in Seq(Keys)
      /\ Ordered(N, b) /\ Distinct(b) /\ NoneTwice(v)
  BY SizeType DEF Sound
<1>2. k \in Keys /\ j - 1 \in Nat /\ (j - 1) + 1 = j
  BY <1>1
<1>3. h \in Nat /\ b[i] \in Entries /\ b[i].index = j - 1 /\ b[i].hash = Truncated(h)
  BY <1>2, EntryType
<1>4. b[i] # Vacant
  BY <1>3, VacantAssumption DEF Entries
<1>5. Ideal(N, b[i].hash) = a /\ a \in 0 .. N - 1
  <2>1. Ideal(N, Truncated(h)) = a
    <3>1. N > 0 /\ h \in Nat
      BY <1>1, <1>3
    <3> HIDE DEF h
    <3> QED
      BY <3>1, TruncatedIdeal
  <2>2. a \in 0 .. N - 1
    BY <1>1, <1>3, IdealBucket
  <2> QED
    BY <1>3, <2>1, <2>2
<1>6. D \in 0 .. N - 1 /\ D = Steps(N, a, i)
  BY <1>1, <1>3, <1>5, FarType DEF Far
<1> HIDE DEF D
<1>7. Seat(b, h, D) = i
  <2>1. Seat(b, h, D) = Place(N, a, D)
    BY <1>1, <1>3, <1>6, SeatPlace
  <2> HIDE DEF a
  <2>2. Place(N, a, Steps(N, a, i)) = i
    BY <1>1, <1>5, PlaceSteps
  <2> QED
    BY <1>6, <2>1, <2>2
<1>8. Holds(b, v, i, k)
  BY <1>2, <1>3 DEF Holds
<1>9. Halts(b, v, k, D)
  BY <1>7, <1>8 DEF Halts
<1>10. ASSUME NEW d \in 0 .. D - 1 PROVE ~Halts(b, v, k, d)
  <2> DEFINE s == Place(N, a, d)
  <2>1. d \in 0 .. N - 1 /\ d \in 0 .. D
    BY <1>6
  <2>2. Seat(b, h, d) = s
    BY <1>1, <1>3, <2>1, SeatPlace
  <2>3. s \in 0 .. N - 1 /\ Steps(N, a, s) = d
    BY <1>1, <1>5, <2>1, PlaceSteps
  <2>4. b[s] # Vacant /\ Far(N, b[s], s) >= d
    BY <1>1, <1>4, <1>5, <2>1, Chain DEF D
  <2> HIDE DEF s
  <2>5. Far(N, b[s], s) \in 0 .. N - 1
    BY <1>1, <2>3, <2>4, InTable, FarType
  <2>6. s # i
    BY <1>6, <2>3
  <2>7. ~Holds(b, v, s, k)
    <3> SUFFICES ASSUME Holds(b, v, s, k) PROVE FALSE
      OBVIOUS
    <3>1. Sound(N, b, v) /\ N \in Nat /\ s \in 0 .. N - 1 /\ b[s] # Vacant
      BY <2>3, <2>4
    <3>2. PICK m \in 1 .. Len(v) : v[m] = k /\ b[s].index = m - 1
      <4> HIDE DEF k
      <4> QED
        BY <1>2, <3>1, HoldsPlace
    <3>3. m = j
      BY <1>1, <3>2 DEF NoneTwice
    <3>4. b[s].index = b[i].index /\ DOMAIN b = 0 .. N - 1
      BY <1>1, <1>3, <3>2, <3>3, InTable
    <3> QED
      BY <1>1, <1>4, <2>3, <2>4, <2>6, <3>4 DEF Distinct
  <2>8. ~IsVacant(b, s) /\ Distance(b, s) = Far(N, b[s], s)
    BY <1>1, <2>4, InTable
  <2> QED
    BY <2>1, <2>2, <2>4, <2>5, <2>7, <2>8 DEF Halts
<1>11. /\ p.dist \in 0 .. N /\ Halts(b, v, k, p.dist)
       /\ \A d \in 0 .. p.dist - 1 : ~Halts(b, v, k, d)
       /\ p.bucket = Seat(b, h, p.dist)
       /\ p.found <=> ~IsVacant(b, p.bucket) /\ Holds(b, v, p.bucket, k)
  BY <1>1, <1>2, ProbeStops
<1> HIDE DEF p
<1>12. p.dist = D
  BY <1>6, <1>9, <1>10, <1>11
<1>13. ~IsVacant(b, i)
  BY <1>1, <1>4, InTable
<1> QED
  BY <1>7, <1>8, <1>11, <1>12, <1>13 DEF p

\* For a key that is not there, probing ends at a bucket in which an entry of it
\* fits, if there is a vacant one.
LEMMA LostProbe ==
  ASSUME NEW N \in Nat \ {0}, N \in Sizes, N <= MaxBuckets, NEW b, NEW v, Sound(N, b, v),
         NEW k \in Keys, \A j \in 1 .. Len(v) : v[j] # k
  PROVE  LET p == Probe(b, v, k)
         IN  /\ ~p.found
             /\ \A w \in 0 .. N - 1, pos \in Nat : b[w] = Vacant =>
                  /\ p.bucket \in 0 .. N - 1
                  /\ p.dist = Far(N, Entry(pos, Hash[k]), p.bucket)
                  /\ Fits(N, b, Entry(pos, Hash[k]), p.bucket)
<1> DEFINE h == Hash[k]
           a == Ideal(N, h)
           p == Probe(b, v, k)
<1>1. N \in Nat \ {0} /\ b \in Tables(N) /\ Ordered(N, b) /\ h \in Nat
  BY SizeType, HashAssumption DEF Sound
<1>2. a \in 0 .. N - 1
  BY <1>1, IdealBucket
<1>3. ASSUME NEW i \in 0 .. N - 1, b[i] # Vacant PROVE ~Holds(b, v, i, k)
  BY <1>1, <1>3, HoldsPlace
<1>4. /\ p.dist \in 0 .. N /\ Halts(b, v, k, p.dist)
      /\ \A d \in 0 .. p.dist - 1 : ~Halts(b, v, k, d)
      /\ p.bucket = Seat(b, h, p.dist) /\ p.bucket \in 0 .. N - 1
      /\ p.found <=> ~IsVacant(b, p.bucket) /\ Holds(b, v, p.bucket, k)
  BY <1>1, ProbeStops
<1> HIDE DEF p
<1>5. ~p.found
  BY <1>1, <1>3, <1>4, InTable
<1>6. ASSUME NEW w \in 0 .. N - 1, NEW pos \in Nat, b[w] = Vacant
      PROVE  /\ p.dist = Far(N, Entry(pos, h), p.bucket)
             /\ Fits(N, b, Entry(pos, h), p.bucket)
  <2> DEFINE e == Entry(pos, h)
             D == p.dist
             W == Steps(N, a, w)
  <2>1. e \in Entries /\ e.hash = Truncated(h) /\ Ideal(N, e.hash) = a
    BY <1>1, EntryType, TruncatedIdeal
  <2>2. W \in 0 .. N - 1 /\ Seat(b, h, W) = w
    <3>1. W \in 0 .. N - 1
      BY <1>2, StepsOn
    <3>2. Place(N, a, W) = w
      BY <1>2, PlaceSteps
    <3> HIDE DEF W
    <3> QED
      BY <1>1, <3>1, <3>2, SeatPlace
  <2>3. Halts(b, v, k, W)
    <3>1. IsVacant(b, w)
      BY <1>1, <1>6, InTable
    <3> QED
      BY <2>2, <3>1 DEF Halts
  <2> HIDE DEF W
  <2>4. D \in 0 .. N - 1
    BY <1>4, <2>2, <2>3
  <2>5. p.bucket = Place(N, a, D) /\ Steps(N, a, p.bucket) = D
    <3>1. p.bucket = Place(N, a, D)
      BY <1>1, <1>4, <2>4, SeatPlace, ZenonT(60)
    <3> HIDE DEF a, D
    <3>2. Steps(N, a, Place(N, a, D)) = D
      BY <1>2, <2>4, PlaceSteps
    <3> QED
      BY <3>1, <3>2
  <2>6. D = Far(N, e, p.bucket)
    BY <2>1, <2>5 DEF Far
  <2>7. ASSUME D > 0
        PROVE  /\ b[Before(N, p.bucket)] # Vacant
               /\ D <= Far(N, b[Before(N, p.bucket)], Before(N, p.bucket)) + 1
    <3> DEFINE c == D - 1
               q == Before(N, p.bucket)
    <3>1. c \in 0 .. N - 1 /\ c \in 0 .. D - 1 /\ D \in 1 .. N - 1
      BY <2>4, <2>7
    <3>2. q = Place(N, a, c) /\ q \in 0 .. N - 1
      <4>1. q \in 0 .. N - 1
        BY <1>4, Circle
      <4> HIDE DEF a, D
      <4>2. Before(N, Place(N, a, D)) = Place(N, a, D - 1)
        BY <1>2, <3>1, PlaceSteps
      <4> QED
        BY <2>5, <4>1, <4>2
    <3>3. Seat(b, h, c) = q
      BY <1>1, <3>1, <3>2, SeatPlace
    <3>4. ~Halts(b, v, k, c)
      BY <1>4, <3>1
    <3>5. ~IsVacant(b, q) /\ ~(c > Distance(b, q))
      BY <3>3, <3>4 DEF Halts
    <3> HIDE DEF q
    <3>6. b[q] # Vacant /\ Distance(b, q) = Far(N, b[q], q)
      BY <1>1, <3>5, InTable
    <3>7. Far(N, b[q], q) \in 0 .. N - 1
      BY <1>1, <3>2, <3>6, InTable, FarType
    <3>8. D <= Far(N, b[q], q) + 1
      BY <2>4, <3>5, <3>6, <3>7
    <3> QED
      BY <3>6, <3>8 DEF q
  <2> HIDE DEF e, D
  <2>8. Fits(N, b, e, p.bucket)
    BY <2>6, <2>7 DEF Fits
  <2> QED
    BY <2>6, <2>8 DEF e, D
<1> QED
  BY <1>4, <1>5, <1>6 DEF p

\* Without buckets nothing is found, and nothing is there.
LEMMA EmptyProbe ==
  ASSUME NEW b, NEW v, Sound(0, b, v), NEW k \in Keys
  PROVE  ~Probe(b, v, k).found /\ v = <<>>
<1>1. b \in Tables(0) /\ Count(b) = 0 /\ DOMAIN b = {}
  <2>1. b \in Tables(0)
    BY DEF Sound
  <2>2. Count(b) = 0 /\ DOMAIN b = 0 .. 0 - 1
    BY <2>1, InTable
  <2> QED
    BY <2>1, <2>2
<1>2. ~Probe(b, v, k).found
  BY <1>1 DEF Probe, IsVacant
<1>3. v \in Seq(Keys) /\ \A j \in 1 .. Len(v) : FALSE
  <2>1. v \in Seq(Keys)
    BY DEF Sound
  <2>2. \A j \in 1 .. Len(v) : \E i \in 0 .. 0 - 1 : b[i] # Vacant
    BY SoundEntries
  <2> QED
    BY <2>1, <2>2
<1>4. Len(v) = 0
  BY <1>3
<1> QED
  BY <1>2, <1>3, <1>4

\* As many numbers are below n, and from 1 to n, as n says.
LEMMA Below ==
  ASSUME NEW n \in Nat
  PROVE  /\ IsFiniteSet(0 .. n - 1) /\ Cardinality(0 .. n - 1) = n
         /\ IsFiniteSet(1 .. n) /\ Cardinality(1 .. n) = n
BY FS_Interval

\* A table has a vacant bucket if there are fewer indexes than buckets.
LEMMA Vacancy ==
  ASSUME NEW N \in Nat, NEW b \in Tables(N), Distinct(b),
         NEW S, IsFiniteSet(S), Cardinality(S) < N,
         \A e \in Held(b) : e.index \in S
  PROVE  \E w \in 0 .. N - 1 : b[w] = Vacant
<1> SUFFICES ASSUME \A w \in 0 .. N - 1 : b[w] # Vacant PROVE FALSE
  OBVIOUS
<1>1. DOMAIN b = 0 .. N - 1
  BY InTable
<1> DEFINE T == 0 .. N - 1
           f == [w \in T |-> b[w].index]
<1>2. ASSUME NEW w \in T PROVE b[w].index \in S
  BY <1>1 DEF Held
<1>3. f \in [T -> S]
  BY <1>2
<1>4. IsFiniteSet(T) /\ Cardinality(T) = N
  BY Below
<1> HIDE DEF T
<1>5. \E x, y \in T : x # y /\ f[x] = f[y]
  <2> HIDE DEF f
  <2> QED
    BY <1>3, <1>4, FS_PigeonHole
<1> QED
  BY <1>1, <1>5 DEF Distinct, T

\* There are as many entries as values.
LEMMA SoundCounts ==
  ASSUME NEW N \in Nat, NEW b, NEW v, Sound(N, b, v)
  PROVE  /\ Cardinality({i \in 0 .. N - 1 : b[i] # Vacant}) = Len(v)
         /\ Len(v) <= N
         /\ Len(v) < N => \E w \in 0 .. N - 1 : b[w] = Vacant
<1> DEFINE O == {i \in 0 .. N - 1 : b[i] # Vacant}
           T == 1 .. Len(v)
           f == [i \in O |-> b[i].index + 1]
<1>1. /\ v \in Seq(Keys) /\ Len(v) \in Nat /\ Distinct(b)
      /\ b \in Tables(N) /\ DOMAIN b = 0 .. N - 1
  BY InTable DEF Sound
<1>2. f \in Bijection(O, T)
  <2>1. \A i \in O : b[i].index + 1 \in T /\ b[i].index \in Nat
    BY SoundEntries
  <2>2. f \in Injection(O, T)
    <3> HIDE DEF T
    <3>1. f \in [O -> T]
      BY <2>1
    <3>2. ASSUME NEW i \in O, NEW j \in O, f[i] = f[j] PROVE i = j
      BY <1>1, <2>1, <3>2, SMTT(40) DEF Distinct
    <3> HIDE DEF O, f
    <3>3. DOMAIN f = O
      BY <3>1
    <3> QED
      BY <3>1, <3>2, <3>3 DEF Injection, IsInjective
  <2>3. ASSUME NEW j \in T PROVE \E i \in O : f[i] = j
    <3>1. PICK i \in 0 .. N - 1 : b[i] = Entry(j - 1, Hash[v[j]]) /\ b[i] # Vacant
      BY SoundEntries
    <3>2. v[j] \in Keys /\ j - 1 \in Nat
      BY <1>1
    <3>3. b[i].index = j - 1
      BY <3>1, <3>2, EntryType
    <3> QED
      BY <3>1, <3>3
  <2> HIDE DEF O, T, f
  <2> QED
    BY <2>2, <2>3 DEF Bijection, Surjection, Injection
<1>3. IsFiniteSet(0 .. N - 1) /\ Cardinality(0 .. N - 1) = N
  BY Below
<1>4. O \in SUBSET (0 .. N - 1)
  OBVIOUS
<1>5. Cardinality(T) = Len(v)
  BY <1>1, Below
<1> HIDE DEF O, T, f
<1>6. IsFiniteSet(O) /\ Cardinality(O) <= N /\ (Cardinality(O) = N => O = 0 .. N - 1)
  BY <1>3, <1>4, FS_Subset
<1>7. Cardinality(T) = Cardinality(O)
  BY <1>2, <1>6, FS_Bijection DEF ExistsBijection
<1>8. ASSUME Len(v) < N PROVE \E w \in 0 .. N - 1 : b[w] = Vacant
  <2>1. O # 0 .. N - 1
    BY <1>1, <1>3, <1>5, <1>7, <1>8
  <2> QED
    BY <2>1 DEF O
<1> QED
  BY <1>5, <1>6, <1>7, <1>8 DEF O

-----------------------------------------------------------------------------
(* rehash_impl                                                             *)

\* What the loop of rehash_impl computes, round by round.
RehashRuns(N, b, x, f) ==
  f = [n \in 0 .. N |-> IF n = 0 THEN x ELSE Resettled(f[n - 1], b[n - 1])]

\* The loop of rehash_impl over the buckets has an outcome.
LEMMA RehashRounds ==
  ASSUME NEW N \in Nat, NEW b, NEW x
  PROVE  \E f : RehashRuns(N, b, x, f)
<1> DEFINE S == {n \in Nat : \E f : RehashRuns(n, b, x, f)}
<1>1. 0 \in S
  <2>1. RehashRuns(0, b, x, [m \in 0 .. 0 |-> x])
    BY DEF RehashRuns
  <2> QED
    BY <2>1
<1>2. ASSUME NEW n \in Nat, n \in S PROVE n + 1 \in S
  <2>1. PICK f : RehashRuns(n, b, x, f)
    BY <1>2
  <2> DEFINE g == [m \in 0 .. n + 1 |-> IF m = n + 1 THEN Resettled(f[n], b[n + 1 - 1]) ELSE f[m]]
  <2>2. ASSUME NEW m \in 0 .. n + 1
        PROVE  g[m] = IF m = 0 THEN x ELSE Resettled(g[m - 1], b[m - 1])
    <3>1. CASE m = n + 1
      BY <3>1
    <3>2. CASE m # n + 1
      <4>1. m \in 0 .. n /\ g[m] = f[m] /\ (m # 0 => m - 1 \in 0 .. n /\ g[m - 1] = f[m - 1])
        BY <2>2, <3>2
      <4>2. f[m] = IF m = 0 THEN x ELSE Resettled(f[m - 1], b[m - 1])
        BY <2>1, <4>1 DEF RehashRuns
      <4> QED
        BY <4>1, <4>2
    <3> QED
      BY <3>1, <3>2
  <2>3. RehashRuns(n + 1, b, x, g)
    <3>1. g = [m \in 0 .. n + 1 |-> g[m]]
      OBVIOUS
    <3> HIDE DEF g
    <3> QED
      BY <2>2, <3>1 DEF RehashRuns
  <2> HIDE DEF g
  <2>4. \E h : RehashRuns(n + 1, b, x, h)
    BY <2>3
  <2> QED
    BY <2>4
<1>3. Nat \subseteq S
  <2> HIDE DEF S
  <2> QED
    BY <1>1, <1>2, SetInduction
<1> QED
  BY <1>3

\* A table of vacant buckets.
LEMMA VacantTables ==
  ASSUME NEW n \in Nat
  PROVE  /\ VacantTable(n) \in Tables(n) /\ Ordered(n, VacantTable(n))
         /\ Distinct(VacantTable(n)) /\ Held(VacantTable(n)) = {}
         /\ Count(VacantTable(n)) = n
<1>1. VacantTable(n) \in Tables(n)
  BY DEF VacantTable, Tables
<1>2. Ordered(n, VacantTable(n)) /\ Distinct(VacantTable(n)) /\ Held(VacantTable(n)) = {}
  BY DEF VacantTable, Ordered, OrderedAt, Distinct, Held
<1> QED
  BY <1>1, <1>2, InTable

\* An entry that starts from its ideal bucket.
LEMMA SettleFromIdeal ==
  ASSUME NEW N \in Nat \ {0}, NEW b \in Tables(N), Ordered(N, b), Distinct(b),
         NEW w \in 0 .. N - 1, b[w] = Vacant, NEW entry \in Entries,
         \A e \in Held(b) : e.index # entry.index
  PROVE  Settled(N, Held(b) \cup {entry}, Settle(b, Ideal(N, entry.hash), 0, entry))
<1> DEFINE i == Ideal(N, entry.hash)
<1>1. i \in 0 .. N - 1
  BY IdealBucket DEF Entries
<1>2. Far(N, entry, i) = 0
  BY <1>1, StepsOn DEF Far
<1> HIDE DEF i
<1>3. Fits(N, b, entry, i)
  BY <1>2 DEF Fits
<1>4. Settled(N, Held(b) \cup {entry}, Settle(b, i, Far(N, entry, i), entry))
  BY <1>1, <1>3, SettleLoop
<1> QED
  BY <1>2, <1>4 DEF i

\* Rehashing keeps the entries, if there are as many buckets as values.
LEMMA RehashKeeps ==
  ASSUME NEW N \in Nat, NEW b, NEW v, Sound(N, b, v), NEW n \in Nat, Len(v) <= n
  PROVE  Sound(n, Rehashed(b, n), v)
<1> DEFINE x == VacantTable(n)
           upto == CHOOSE f : RehashRuns(N, b, x, f)
           Earlier(i) == {b[m] : m \in 0 .. i - 1} \ {Vacant}
           Good(i, acc) == /\ acc \in Tables(n) /\ Ordered(n, acc) /\ Distinct(acc)
                           /\ Held(acc) = Earlier(i)
           S == {i \in Nat : i <= N => Good(i, upto[i])}
<1>1. /\ b \in Tables(N) /\ Distinct(b) /\ DOMAIN b = 0 .. N - 1 /\ Count(b) = N
      /\ v \in Seq(Keys) /\ Len(v) \in Nat
  BY InTable DEF Sound
<1>2. RehashRuns(N, b, x, upto)
  <2> HIDE DEF x
  <2>1. \E f : RehashRuns(N, b, x, f)
    BY RehashRounds
  <2> QED
    BY <2>1
<1>3. Rehashed(b, n) = upto[N]
  BY <1>1 DEF Rehashed, RehashRuns
<1> HIDE DEF x, upto
<1>4. \A i \in 0 .. N : upto[i] = IF i = 0 THEN x ELSE Resettled(upto[i - 1], b[i - 1])
  BY <1>2 DEF RehashRuns
<1>5. 0 \in S
  <2>1. upto[0] = x
    BY <1>4
  <2> QED
    BY <2>1, VacantTables DEF x
<1>6. ASSUME NEW i \in Nat, i \in S PROVE i + 1 \in S
  <2> SUFFICES ASSUME i + 1 <= N PROVE Good(i + 1, upto[i + 1])
    OBVIOUS
  <2> DEFINE acc == upto[i]
             e == b[i]
  <2>1. Good(i, acc)
    BY <1>6
  <2>2. upto[i + 1] = Resettled(acc, e)
    BY <1>4
  <2>3. Earlier(i + 1) = IF e = Vacant THEN Earlier(i) ELSE Earlier(i) \cup {e}
    OBVIOUS
  <2>4. i \in 0 .. N - 1
    OBVIOUS
  <2> HIDE DEF acc
  <2>5. CASE e = Vacant
    BY <2>1, <2>2, <2>3, <2>5 DEF Resettled
  <2>6. CASE e # Vacant
    <3>1. e \in Entries /\ e.index \in 0 .. Len(v) - 1
      <4>1. e.index + 1 \in 1 .. Len(v) /\ e.index \in Nat
        BY <2>4, <2>6, SoundEntries
      <4> QED
        BY <1>1, <2>4, <2>6, <4>1, InTable
    <3> DEFINE I == 0 .. Len(v) - 1
               T == I \ {e.index}
    <3>2. ASSUME NEW c \in Held(acc) PROVE c.index \in T
      <4>1. PICK m \in 0 .. i - 1 : c = b[m] /\ c # Vacant
        BY <2>1, <3>2
      <4>2. m \in 0 .. N - 1 /\ m # i
        BY <2>4
      <4>3. c.index + 1 \in 1 .. Len(v) /\ c.index \in Nat
        BY <4>1, <4>2, SoundEntries
      <4>4. c.index # e.index
        BY <1>1, <2>4, <2>6, <4>1, <4>2 DEF Distinct
      <4> QED
        BY <1>1, <4>3, <4>4
    <3>3. IsFiniteSet(T) /\ Cardinality(T) = Len(v) - 1
      <4>1. IsFiniteSet(I) /\ Cardinality(I) = Len(v) /\ e.index \in I
        BY <1>1, <3>1, Below
      <4> HIDE DEF I, e
      <4> QED
        BY <4>1, FS_RemoveElement
    <3>4. n \in Nat \ {0} /\ Cardinality(T) < n
      BY <1>1, <3>1, <3>3
    <3> HIDE DEF T, e
    <3>5. PICK w \in 0 .. n - 1 : acc[w] = Vacant
      BY <2>1, <3>2, <3>3, <3>4, Vacancy
    <3>6. \A c \in Held(acc) : c.index # e.index
      BY <3>2 DEF T
    <3>7. Settled(n, Held(acc) \cup {e}, Settle(acc, Ideal(n, e.hash), 0, e))
      BY <2>1, <3>1, <3>4, <3>5, <3>6, SettleFromIdeal
    <3>8. BucketForHash(acc, e.hash) = Ideal(n, e.hash)
      BY <2>1, <3>4, InTable
    <3>9. upto[i + 1] = Settle(acc, Ideal(n, e.hash), 0, e).buckets
      BY <2>2, <2>6, <3>8 DEF Resettled
    <3> QED
      BY <2>1, <2>3, <2>6, <3>7, <3>9 DEF Settled, SettleStates
  <2> QED
    BY <2>5, <2>6
<1>7. N \in S
  <2> HIDE DEF S
  <2> QED
    BY <1>5, <1>6, SetInduction
<1>8. Good(N, upto[N])
  BY <1>7
<1>9. Earlier(N) = Held(b)
  BY <1>1 DEF Held
<1> QED
  BY <1>3, <1>8, <1>9 DEF Sound

\* A round of insert_index, whatever the table.
LEMMA SettleRoundTyped ==
  ASSUME NEW N \in Nat \ {0}, NEW s \in SettleStates(N)
  PROVE  SettleOnce(s) \in SettleStates(N)
<1> DEFINE b == s.buckets
           i == s.at
           n == After(N, i)
           there == Far(N, b[i], i)
<1>1. /\ b \in Tables(N) /\ i \in 0 .. N - 1 /\ s.dist \in Nat
      /\ s.carried \in {Vacant} \cup Entries /\ s.far \in BOOLEAN
      /\ s = [buckets |-> b, at |-> i, dist |-> s.dist, carried |-> s.carried, far |-> s.far]
  BY DEF SettleStates
<1>2. CASE s.carried = Vacant
  BY <1>2 DEF SettleOnce
<1>3. CASE s.carried # Vacant /\ b[i] = Vacant
  <2>1. SettleOnce(s) = [buckets |-> [b EXCEPT ![i] = s.carried], at |-> i, dist |-> s.dist,
                         carried |-> Vacant, far |-> s.far]
    BY <1>1, <1>3 DEF SettleOnce
  <2>2. [b EXCEPT ![i] = s.carried] \in Tables(N)
    BY <1>1, <1>3 DEF Tables
  <2> QED
    BY <1>1, <2>1, <2>2 DEF SettleStates
<1>4. CASE s.carried # Vacant /\ b[i] # Vacant
  <2>1. b[i] \in Entries /\ there \in 0 .. N - 1 /\ n \in 0 .. N - 1
    BY <1>1, <1>4, InTable, FarType, Circle
  <2>2. NextBucket(b, i) = n /\ Distance(b, i) = there
    BY <1>1, InTable
  <2>3. CASE s.dist > there
    <3>1. SettleOnce(s) =
            [buckets |-> [b EXCEPT ![i] = s.carried], at |-> n, dist |-> there + 1,
             carried |-> b[i], far |-> s.far \/ there + 1 > Probes]
      BY <1>1, <1>4, <2>2, <2>3 DEF SettleOnce
    <3>2. [b EXCEPT ![i] = s.carried] \in Tables(N)
      BY <1>1, <1>4 DEF Tables
    <3> QED
      BY <1>1, <2>1, <3>1, <3>2 DEF SettleStates
  <2>4. CASE ~(s.dist > there)
    <3>1. SettleOnce(s) =
            [buckets |-> b, at |-> n, dist |-> s.dist + 1,
             carried |-> s.carried, far |-> s.far \/ s.dist + 1 > Probes]
      BY <1>1, <1>4, <2>2, <2>4 DEF SettleOnce
    <3> QED
      BY <1>1, <2>1, <3>1 DEF SettleStates
  <2> QED
    BY <2>3, <2>4
<1> QED
  BY <1>1, <1>2, <1>3, <1>4

\* The loop, whatever the table.
LEMMA SettleTyped ==
  ASSUME NEW N \in Nat \ {0}, NEW b \in Tables(N), NEW i \in 0 .. N - 1,
         NEW d \in Nat, NEW entry \in Entries
  PROVE  Settle(b, i, d, entry) \in SettleStates(N)
<1> DEFINE x == [buckets |-> b, at |-> i, dist |-> d, carried |-> entry, far |-> FALSE]
           round == CHOOSE f : SettleRuns(N, x, f)
           S == {n \in Nat : n <= N => round[n] \in SettleStates(N)}
<1>1. SettleRuns(N, x, round)
  <2> HIDE DEF x
  <2>1. \E f : SettleRuns(N, x, f)
    BY SettleRounds
  <2> QED
    BY <2>1
<1>2. Settle(b, i, d, entry) = round[N]
  BY InTable DEF Settle, SettleRuns
<1>3. x \in SettleStates(N)
  BY DEF SettleStates
<1> HIDE DEF x, round
<1>4. \A n \in 0 .. N : round[n] = IF n = 0 THEN x ELSE SettleOnce(round[n - 1])
  BY <1>1 DEF SettleRuns
<1>5. 0 \in S
  BY <1>3, <1>4
<1>6. ASSUME NEW n \in Nat, n \in S PROVE n + 1 \in S
  <2> SUFFICES ASSUME n + 1 <= N PROVE round[n + 1] \in SettleStates(N)
    OBVIOUS
  <2>1. round[n + 1] = SettleOnce(round[n]) /\ round[n] \in SettleStates(N)
    BY <1>4, <1>6
  <2> QED
    BY <2>1, SettleRoundTyped
<1>7. N \in S
  <2> HIDE DEF S
  <2> QED
    BY <1>5, <1>6, SetInduction
<1> QED
  BY <1>2, <1>7

\* Rehashing, whatever the table.
LEMMA RehashTyped ==
  ASSUME NEW N \in Nat, NEW b \in Tables(N), NEW n \in Nat \ {0}
  PROVE  Rehashed(b, n) \in Tables(n)
<1> DEFINE x == VacantTable(n)
           upto == CHOOSE f : RehashRuns(N, b, x, f)
           S == {i \in Nat : i <= N => upto[i] \in Tables(n)}
<1>1. RehashRuns(N, b, x, upto)
  <2> HIDE DEF x
  <2>1. \E f : RehashRuns(N, b, x, f)
    BY RehashRounds
  <2> QED
    BY <2>1
<1>2. Rehashed(b, n) = upto[N]
  BY InTable DEF Rehashed, RehashRuns
<1>3. x \in Tables(n)
  BY VacantTables
<1> HIDE DEF x, upto
<1>4. \A i \in 0 .. N : upto[i] = IF i = 0 THEN x ELSE Resettled(upto[i - 1], b[i - 1])
  BY <1>1 DEF RehashRuns
<1>5. 0 \in S
  BY <1>3, <1>4
<1>6. ASSUME NEW i \in Nat, i \in S PROVE i + 1 \in S
  <2> SUFFICES ASSUME i + 1 <= N PROVE upto[i + 1] \in Tables(n)
    OBVIOUS
  <2> DEFINE acc == upto[i]
             e == b[i]
  <2>1. upto[i + 1] = Resettled(acc, e) /\ acc \in Tables(n)
    BY <1>4, <1>6
  <2>2. i \in 0 .. N - 1 /\ (e = Vacant \/ e \in Entries)
    BY InTable
  <2> HIDE DEF acc, e
  <2>3. CASE e = Vacant
    BY <2>1, <2>3 DEF Resettled
  <2>4. CASE e # Vacant
    <3>1. BucketForHash(acc, e.hash) \in 0 .. n - 1
      <4>1. e.hash \in Nat
        BY <2>2, <2>4 DEF Entries
      <4>2. BucketForHash(acc, e.hash) = Ideal(n, e.hash)
        BY <2>1, InTable
      <4> QED
        BY <4>1, <4>2, IdealBucket
    <3>2. Settle(acc, BucketForHash(acc, e.hash), 0, e) \in SettleStates(n)
      BY <2>1, <2>2, <2>4, <3>1, SettleTyped
    <3> QED
      BY <2>1, <2>4, <3>2 DEF Resettled, SettleStates
  <2> QED
    BY <2>3, <2>4
<1>7. N \in S
  <2> HIDE DEF S
  <2> QED
    BY <1>5, <1>6, SetInduction
<1> QED
  BY <1>2, <1>7

-----------------------------------------------------------------------------
(* How many buckets there are                                              *)

\* The load threshold is below the number of buckets.
LEMMA ThresholdBelow ==
  ASSUME NEW N \in Nat, NEW b \in Tables(N), NEW f \in 2 .. 19
  PROVE  LoadThreshold(b, f) \in 0 .. N /\ (N > 0 => LoadThreshold(b, f) < N)
<1> DEFINE q == LoadThreshold(b, f)
<1>1. q = (f * N) \div 20
  BY InTable DEF LoadThreshold
<1>2. f * N \in Nat /\ f * N <= 19 * N
  OBVIOUS
<1> DEFINE h == f * N
           r == h % 20
<1>3. q \in Nat /\ r \in 0 .. 19 /\ h = (20 * q) + r
  <2>1. h \in Nat
    BY <1>2
  <2> HIDE DEF h
  <2>2. h % 20 \in 0 .. 20 - 1 /\ h \div 20 \in Nat /\ h = (20 * (h \div 20)) + (h % 20)
    BY <2>1, QuotientAndRest
  <2> QED
    BY <1>1, <2>2 DEF h
<1> HIDE DEF q, r
<1>4. 20 * q <= 19 * N
  BY <1>2, <1>3
<1> QED
  BY <1>3, <1>4 DEF q

\* There are more buckets for n values than values.
LEMMA BucketsAbove ==
  ASSUME NEW n \in Nat, NEW f \in 2 .. 19
  PROVE  BucketsFor(n, f) \in Nat /\ (n > 0 => BucketsFor(n, f) > n)
<1> DEFINE h == 20 * n + f - 1
           q == BucketsFor(n, f)
           r == h % f
<1>1. h \in Nat /\ f \in Nat \ {0}
  OBVIOUS
<1>2. q \in Nat /\ r \in 0 .. f - 1 /\ h = (f * q) + r
  <2> HIDE DEF h
  <2>1. r \in 0 .. f - 1 /\ h \div f \in Nat /\ h = (f * (h \div f)) + r
    BY <1>1, QuotientAndRest
  <2> QED
    BY <2>1 DEF BucketsFor, h
<1> HIDE DEF q, r
<1>3. ASSUME n > 0, q <= n PROVE FALSE
  <2>1. f * q <= f * n
    BY <1>2, <1>3
  <2>2. f * n <= 19 * n
    OBVIOUS
  <2>3. f * q \in Nat /\ f * n \in Nat
    BY <1>2
  <2>4. 20 * n + f - 1 <= (19 * n) + (f - 1)
    BY <1>2, <2>1, <2>2, <2>3
  <2> QED
    BY <1>3, <2>4
<1> QED
  BY <1>2, <1>3 DEF q

\* The greater of two numbers.
LEMMA Greater ==
  ASSUME NEW m \in Nat, NEW n \in Nat
  PROVE  Max({m, n}) \in Nat /\ Max({m, n}) >= m /\ Max({m, n}) >= n
<1>1. \E x \in {m, n} : \A y \in {m, n} : x >= y
  <2>1. CASE m >= n
    BY <2>1
  <2>2. CASE n >= m
    BY <2>2
  <2> QED
    BY <2>1, <2>2
<1>2. Max({m, n}) \in {m, n} /\ \A y \in {m, n} : Max({m, n}) >= y
  BY <1>1 DEF Max
<1> QED
  BY <1>2

-----------------------------------------------------------------------------
(* What the operations keep                                                *)

Counts == {0} \cup {TwoTo[j] : j \in Nat}

TableRecords ==
  [values : Seq(Keys), buckets : UNION {Tables(N) : N \in Nat}, threshold : Nat, grow : BOOLEAN]

\* A table that is in order, has the buckets of its values, and has room.
Healthy(t, f) ==
  /\ t \in TableRecords
  /\ Count(t.buckets) \in Counts
  /\ Sound(Count(t.buckets), t.buckets, t.values)
  /\ Len(t.values) <= MaxValues
  /\ Count(t.buckets) >= 4 => Len(t.values) < Count(t.buckets)
  /\ t.threshold \in {0, LoadThreshold(t.buckets, f)}

\* The parts of a table.
LEMMA RecordParts ==
  ASSUME NEW t \in TableRecords
  PROVE  /\ t.values \in Seq(Keys) /\ Len(t.values) \in Nat
         /\ Count(t.buckets) \in Nat /\ t.buckets \in Tables(Count(t.buckets))
         /\ t.threshold \in Nat /\ t.grow \in BOOLEAN
         /\ t = [values |-> t.values, buckets |-> t.buckets, threshold |-> t.threshold,
                 grow |-> t.grow]
<1>1. t.buckets \in UNION {Tables(N) : N \in Nat}
  BY DEF TableRecords
<1>2. PICK N \in Nat : t.buckets \in Tables(N)
  BY <1>1
<1>3. Count(t.buckets) = N
  BY <1>2, InTable
<1> QED
  BY <1>2, <1>3 DEF TableRecords

\* A table of other buckets.
LEMMA WithBuckets ==
  ASSUME NEW t \in TableRecords, NEW N \in Nat, NEW b \in Tables(N), NEW v \in Seq(Keys),
         NEW h \in Nat, NEW g \in BOOLEAN
  PROVE  [values |-> v, buckets |-> b, threshold |-> h, grow |-> g] \in TableRecords
BY DEF TableRecords

\* rehash_impl keeps a table healthy, if it is asked for more buckets than values.
LEMMA ResizedKeeps ==
  ASSUME m_max_load_factor \in 2 .. 19,
         NEW t, Healthy(t, m_max_load_factor),
         NEW n \in Nat, n > Len(t.values) \/ Len(t.values) = 0
  PROVE  /\ Healthy(Resized(t, n), m_max_load_factor)
         /\ Resized(t, n).values = t.values
         /\ Count(Resized(t, n).buckets) = RoundedUp(n)
<1> DEFINE f == m_max_load_factor
           N == Count(t.buckets)
           M == RoundedUp(n)
           b == Rehashed(t.buckets, M)
<1>1. t \in TableRecords /\ Sound(N, t.buckets, t.values)
  BY DEF Healthy
<1>2. /\ t.values \in Seq(Keys) /\ Len(t.values) \in Nat /\ N \in Nat
      /\ t = [values |-> t.values, buckets |-> t.buckets, threshold |-> t.threshold,
              grow |-> t.grow]
  BY <1>1, RecordParts
<1>3. M \in Counts /\ M \in Nat /\ M >= n
  BY RoundedUpType DEF Counts
<1>4. CASE M = N
  BY <1>4 DEF Resized
<1>5. CASE M # N
  <2>1. Len(t.values) <= M
    BY <1>2, <1>3
  <2> HIDE DEF M, N
  <2>2. Sound(M, b, t.values) /\ b \in Tables(M) /\ Count(b) = M
    BY <1>1, <1>2, <1>3, <2>1, RehashKeeps, InTable DEF Sound
  <2>3. LoadThreshold(b, f) \in Nat
    <3>1. f \in 2 .. 19 /\ M \in Nat /\ b \in Tables(M)
      BY <1>3, <2>2
    <3> HIDE DEF b, f
    <3>2. LoadThreshold(b, f) \in 0 .. M
      BY <3>1, ThresholdBelow
    <3> QED
      BY <3>1, <3>2
  <2> DEFINE r == [values |-> t.values, buckets |-> b, threshold |-> LoadThreshold(b, f),
                   grow |-> FALSE]
  <2>4. Resized(t, n) = r
    BY <1>2, <1>5 DEF Resized, M, N
  <2>5. r \in TableRecords
    BY <1>1, <1>2, <1>3, <2>2, <2>3, WithBuckets
  <2>6. r.values = t.values /\ r.buckets = b /\ r.threshold = LoadThreshold(b, f)
    OBVIOUS
  <2> HIDE DEF r, b
  <2>7. Len(t.values) <= MaxValues
    BY DEF Healthy
  <2>8. M >= 4 => Len(t.values) < M
    BY <1>2, <1>3
  <2> QED
    BY <1>3, <2>2, <2>4, <2>5, <2>6, <2>7, <2>8 DEF Healthy, M
<1> QED
  BY <1>4, <1>5

\* So do rehash and reserve.
LEMMA AmpleKeeps ==
  ASSUME m_max_load_factor \in 2 .. 19,
         NEW t, Healthy(t, m_max_load_factor), NEW count \in Nat
  PROVE  /\ Healthy(Ample(t, count), m_max_load_factor)
         /\ Ample(t, count).values = t.values
         /\ Healthy(Reserved(t, count), m_max_load_factor)
         /\ Reserved(t, count).values = t.values
<1> DEFINE f == m_max_load_factor
           n == Len(t.values)
<1>1. n \in Nat
  BY RecordParts DEF Healthy
<1> HIDE DEF n
<1>2. BucketsFor(n, f) \in Nat /\ (n > 0 => BucketsFor(n, f) > n)
  BY <1>1, BucketsAbove
<1>3. ASSUME NEW c \in Nat
      PROVE  Healthy(Ample(t, c), f) /\ Ample(t, c).values = t.values
  <2> DEFINE m == Max({c, BucketsFor(n, f)})
  <2>1. m \in Nat /\ m >= BucketsFor(n, f)
    BY <1>2, Greater
  <2>2. m > n \/ n = 0
    BY <1>1, <1>2, <2>1
  <2>3. Ample(t, c) = Resized(t, m)
    BY DEF Ample, n
  <2> HIDE DEF m
  <2> QED
    BY <2>1, <2>2, <2>3, ResizedKeeps DEF n
<1>4. BucketsFor(count, f) \in Nat
  BY BucketsAbove
<1>5. Reserved(t, count) = Ample(t, BucketsFor(count, f))
  BY DEF Reserved
<1> QED
  BY <1>3, <1>4, <1>5

\* A value that is inserted at the end.
LEMMA AtEnd ==
  ASSUME NEW v \in Seq(Keys), NEW k \in Keys
  PROVE  /\ InsertAt(v, Len(v) + 1, k) = Append(v, k)
         /\ Append(v, k) \in Seq(Keys) /\ Len(Append(v, k)) = Len(v) + 1
         /\ Append(v, k)[Len(v) + 1] = k
         /\ \A j \in 1 .. Len(v) : Append(v, k)[j] = v[j]
<1>1. SubSeq(v, 1, (Len(v) + 1) - 1) = v
  OBVIOUS
<1>2. SubSeq(v, Len(v) + 1, Len(v)) = <<>>
  OBVIOUS
<1>3. v \o <<k>> \o <<>> = Append(v, k)
  OBVIOUS
<1>4. InsertAt(v, Len(v) + 1, k) = Append(v, k)
  BY <1>1, <1>2, <1>3 DEF InsertAt
<1> QED
  BY <1>4

\* Its entry comes to the others.
LEMMA OneMore ==
  ASSUME NEW v \in Seq(Keys), NEW k \in Keys
  PROVE  /\ Listing(Append(v, k)) = Listing(v) \cup {Entry(Len(v), Hash[k])}
         /\ \A e \in Listing(v) : e.index # Len(v)
         /\ NoneTwice(v) /\ (\A j \in 1 .. Len(v) : v[j] # k) => NoneTwice(Append(v, k))
<1> DEFINE u == Append(v, k)
<1>1. /\ Len(u) = Len(v) + 1 /\ Len(v) \in Nat /\ u[Len(v) + 1] = k
      /\ \A j \in 1 .. Len(v) : u[j] = v[j]
  BY AtEnd
<1> HIDE DEF u
<1>2. Listing(u) = Listing(v) \cup {Entry(Len(v), Hash[k])}
  <2>1. ASSUME NEW j \in 1 .. Len(u)
        PROVE  Entry(j - 1, Hash[u[j]]) \in Listing(v) \cup {Entry(Len(v), Hash[k])}
    <3>1. CASE j \in 1 .. Len(v)
      BY <1>1, <3>1 DEF Listing
    <3>2. CASE j = Len(v) + 1
      <4>1. j - 1 = Len(v) /\ u[j] = k
        BY <1>1, <3>2
      <4> QED
        BY <4>1
    <3> QED
      BY <1>1, <3>1, <3>2
  <2>2. ASSUME NEW j \in 1 .. Len(v) PROVE Entry(j - 1, Hash[v[j]]) \in Listing(u)
    <3>1. j \in 1 .. Len(u) /\ u[j] = v[j]
      BY <1>1
    <3> QED
      BY <3>1 DEF Listing
  <2>3. Entry(Len(v), Hash[k]) \in Listing(u)
    <3>1. Len(v) + 1 \in 1 .. Len(u) /\ (Len(v) + 1) - 1 = Len(v)
      BY <1>1
    <3>2. Entry((Len(v) + 1) - 1, Hash[u[Len(v) + 1]]) \in Listing(u)
      BY <3>1 DEF Listing
    <3> QED
      BY <1>1, <3>1, <3>2
  <2> QED
    BY <2>1, <2>2, <2>3 DEF Listing
<1>3. ASSUME NEW e \in Listing(v) PROVE e.index # Len(v)
  <2>1. PICK j \in 1 .. Len(v) : e = Entry(j - 1, Hash[v[j]])
    BY DEF Listing
  <2>2. e.index = j - 1
    BY <2>1, EntryType
  <2> QED
    BY <1>1, <2>2
<1>4. ASSUME NoneTwice(v), \A j \in 1 .. Len(v) : v[j] # k PROVE NoneTwice(u)
  BY <1>1, <1>4 DEF NoneTwice
<1> QED
  BY <1>2, <1>3, <1>4 DEF u

\* find_key finds what is there.
LEMMA ProbeFinds ==
  ASSUME NEW N \in Nat, N \in Counts, N <= MaxBuckets,
         NEW b, NEW v, Sound(N, b, v), NEW k \in Keys
  PROVE  Probe(b, v, k).found <=> \E j \in 1 .. Len(v) : v[j] = k
<1>1. CASE N = 0
  <2>1. ~Probe(b, v, k).found /\ v = <<>>
    BY <1>1, EmptyProbe
  <2> QED
    BY <2>1
<1>2. CASE N # 0
  <2>1. N \in Sizes /\ N \in Nat \ {0}
    BY <1>2, InSizes DEF Counts, Sizes
  <2>2. ASSUME NEW j \in 1 .. Len(v), v[j] = k PROVE Probe(b, v, k).found
    <3>1. PICK i \in 0 .. N - 1 : b[i] = Entry(j - 1, Hash[v[j]])
      BY SoundEntries
    <3> QED
      BY <2>1, <2>2, <3>1, FoundProbe
  <2>3. ASSUME \A j \in 1 .. Len(v) : v[j] # k PROVE ~Probe(b, v, k).found
    BY <2>1, <2>3, LostProbe
  <2> QED
    BY <2>2, <2>3
<1> QED
  BY <1>1, <1>2

\* How much a table grows.
LEMMA Growth ==
  ASSUME NEW N \in Nat
  PROVE  LET n == IF N = 0 THEN 1 ELSE 2 * N
         IN  /\ n \in Nat \ {0} /\ n > N
             /\ RoundedUp(n) \in Nat \ {0} /\ RoundedUp(n) >= n /\ RoundedUp(n) \in Counts
             /\ N >= 2 => n >= N + 2
             /\ RoundedUp(n) < 4 => N < 2
<1> DEFINE n == IF N = 0 THEN 1 ELSE 2 * N
<1>1. n \in Nat \ {0} /\ n > N /\ (N >= 2 => n >= N + 2)
  OBVIOUS
<1>2. N >= 2 => n >= 4
  OBVIOUS
<1> HIDE DEF n
<1>3. RoundedUp(n) \in Nat /\ RoundedUp(n) >= n /\ RoundedUp(n) \in Counts
  BY <1>1, RoundedUpType DEF Counts
<1> QED
  BY <1>1, <1>2, <1>3 DEF n

-----------------------------------------------------------------------------
(* insert_impl                                                             *)

Grown(t) == Resized(t, IF Count(t.buckets) = 0 THEN 1 ELSE 2 * Count(t.buckets))

\* What an insertion of k makes of the table t, that r has been grown from, when the
\* loop of insert_index has ended in s.
Outcome(t, r, s, k) ==
  [values    |-> Append(t.values, k),
   buckets   |-> s.buckets,
   threshold |-> r.threshold,
   grow      |-> r.grow \/ (s.far /\ 100 * Len(Append(t.values, k)) >= 15 * Count(r.buckets))]

\* The three ways that an insertion at the end may go.
LEMMA PlacedIs ==
  ASSUME NEW t \in TableRecords, NEW k \in Keys
  PROVE  LET n == Len(t.values)
             e == Entry(n, Hash[k])
             p == Probe(t.buckets, t.values, k)
             g == Grown(t).buckets
         IN  /\ p.found \/ n >= MaxValues => Placed(t, k, n) = t
             /\ ~ (p.found \/ n >= MaxValues) /\ MustGrow(t) =>
                  Placed(t, k, n) =
                    Outcome(t, Grown(t), Settle(g, BucketForHash(g, Hash[k]), 0, e), k)
             /\ ~ (p.found \/ n >= MaxValues) /\ ~MustGrow(t) =>
                  Placed(t, k, n) =
                    Outcome(t, t, Settle(t.buckets, p.bucket, p.dist, e), k)
<1>1. t.values \in Seq(Keys)
  BY RecordParts
<1>2. InsertAt(t.values, Len(t.values) + 1, k) = Append(t.values, k)
  BY <1>1, AtEnd
<1> QED
  BY <1>2 DEF Placed, Grown, Outcome

\* The outcome is a table.
LEMMA OutcomeType ==
  ASSUME NEW t \in TableRecords, NEW r \in TableRecords, NEW k \in Keys,
         NEW N \in Nat \ {0}, r.buckets \in Tables(N), NEW s \in SettleStates(N)
  PROVE  LET o == Outcome(t, r, s, k)
         IN  /\ o \in TableRecords /\ Count(o.buckets) = N
             /\ o.values = Append(t.values, k) /\ o.buckets = s.buckets
             /\ o.threshold = r.threshold
<1> DEFINE g == r.grow \/ (s.far /\ 100 * Len(Append(t.values, k)) >= 15 * Count(r.buckets))
           o == Outcome(t, r, s, k)
<1>1. t.values \in Seq(Keys) /\ r.threshold \in Nat
  BY RecordParts
<1>2. s.buckets \in Tables(N) /\ Count(s.buckets) = N
  BY InTable DEF SettleStates
<1>3. g \in BOOLEAN
  OBVIOUS
<1>4. Append(t.values, k) \in Seq(Keys)
  BY <1>1
<1>5. o = [values |-> Append(t.values, k), buckets |-> s.buckets,
           threshold |-> r.threshold, grow |-> g]
  BY DEF Outcome
<1> HIDE DEF g, o
<1>6. o \in TableRecords
  BY <1>1, <1>2, <1>3, <1>4, <1>5, WithBuckets
<1> QED
  BY <1>2, <1>5, <1>6 DEF o

\* Growing makes a greater table, whatever the table.
LEMMA GrownTyped ==
  ASSUME m_max_load_factor \in 2 .. 19, NEW t \in TableRecords
  PROVE  /\ Grown(t) \in TableRecords
         /\ Count(Grown(t).buckets) > Count(t.buckets)
<1> DEFINE f == m_max_load_factor
           N == Count(t.buckets)
           n == IF N = 0 THEN 1 ELSE 2 * N
           M == RoundedUp(n)
           b == Rehashed(t.buckets, M)
<1>1. /\ t.values \in Seq(Keys) /\ N \in Nat /\ t.buckets \in Tables(N)
      /\ t = [values |-> t.values, buckets |-> t.buckets, threshold |-> t.threshold,
              grow |-> t.grow]
  BY RecordParts
<1>2. M \in Nat \ {0} /\ M > N
  <2> HIDE DEF N
  <2>1. n \in Nat \ {0} /\ n > N /\ M \in Nat \ {0} /\ M >= n
    BY <1>1, Growth
  <2> HIDE DEF n, M
  <2> QED
    BY <1>1, <2>1
<1>3. b \in Tables(M) /\ Count(b) = M
  <2> HIDE DEF M, N
  <2>1. b \in Tables(M)
    BY <1>1, <1>2, RehashTyped
  <2> HIDE DEF b
  <2> QED
    BY <1>2, <2>1, InTable
<1>4. LoadThreshold(b, f) \in Nat
  <2>1. f \in 2 .. 19
    OBVIOUS
  <2> HIDE DEF b, f, M
  <2>2. LoadThreshold(b, f) \in 0 .. M
    BY <1>2, <1>3, <2>1, ThresholdBelow
  <2> QED
    BY <1>2, <2>2
<1> DEFINE r == [values |-> t.values, buckets |-> b, threshold |-> LoadThreshold(b, f),
                 grow |-> FALSE]
<1>5. Grown(t) = r
  <2>1. Grown(t) = Resized(t, n) /\ M # N
    BY <1>1, <1>2 DEF Grown
  <2> QED
    BY <1>1, <2>1 DEF Resized
<1>6. r.buckets = b
  OBVIOUS
<1>7. r \in TableRecords
  <2> HIDE DEF b, f, M
  <2> QED
    BY <1>1, <1>2, <1>3, <1>4, WithBuckets
<1> HIDE DEF r, b, M, N
<1> QED
  BY <1>1, <1>2, <1>3, <1>5, <1>6, <1>7 DEF N

\* An insertion makes no table smaller, whatever the table.
LEMMA PlacedTyped ==
  ASSUME m_max_load_factor \in 2 .. 19, NEW t \in TableRecords, NEW k \in Keys,
         Count(t.buckets) > 0 \/ MustGrow(t)
  PROVE  /\ Placed(t, k, Len(t.values)) \in TableRecords
         /\ Count(Placed(t, k, Len(t.values)).buckets) >= Count(t.buckets)
<1> DEFINE v == t.values
           n == Len(v)
           N == Count(t.buckets)
           e == Entry(n, Hash[k])
           p == Probe(t.buckets, v, k)
           g == Grown(t).buckets
<1>1. n \in Nat /\ N \in Nat /\ t.buckets \in Tables(N)
  BY RecordParts
<1>2. e \in Entries /\ Hash[k] \in Nat
  BY <1>1, EntryType
<1> HIDE DEF e
<1>3. CASE p.found \/ n >= MaxValues
  BY <1>1, <1>3, PlacedIs
<1>4. CASE ~ (p.found \/ n >= MaxValues) /\ MustGrow(t)
  <2> DEFINE M == Count(g)
             s == Settle(g, BucketForHash(g, Hash[k]), 0, e)
  <2>1. Grown(t) \in TableRecords /\ M > N
    BY GrownTyped
  <2>2. M \in Nat \ {0} /\ g \in Tables(M)
    <3>1. M \in Nat /\ g \in Tables(M)
      BY <2>1, RecordParts
    <3> HIDE DEF M, N
    <3> QED
      BY <1>1, <2>1, <3>1
  <2>3. Placed(t, k, n) = Outcome(t, Grown(t), s, k)
    BY <1>4, PlacedIs DEF e
  <2> HIDE DEF M, N, g
  <2>4. BucketForHash(g, Hash[k]) \in 0 .. M - 1
    <3>1. BucketForHash(g, Hash[k]) = Ideal(M, Hash[k])
      BY <2>2, InTable
    <3> QED
      BY <1>2, <2>2, <3>1, IdealBucket
  <2>5. s \in SettleStates(M)
    BY <1>2, <2>2, <2>4, SettleTyped
  <2> HIDE DEF s
  <2>6. LET o == Outcome(t, Grown(t), s, k) IN o \in TableRecords /\ Count(o.buckets) = M
    BY <2>1, <2>2, <2>5, OutcomeType DEF g
  <2> QED
    BY <1>1, <2>1, <2>2, <2>3, <2>6 DEF N
<1>5. CASE ~ (p.found \/ n >= MaxValues) /\ ~MustGrow(t)
  <2> DEFINE s == Settle(t.buckets, p.bucket, p.dist, e)
  <2>1. N \in Nat \ {0}
    BY <1>1, <1>5
  <2>2. Placed(t, k, n) = Outcome(t, t, s, k)
    BY <1>5, PlacedIs DEF e
  <2>3. p.bucket \in 0 .. N - 1 /\ p.dist \in Nat
    <3> HIDE DEF N
    <3>1. p.bucket \in 0 .. N - 1 /\ p.dist \in 0 .. N
      BY <1>1, <2>1, ProbeStops
    <3> QED
      BY <2>1, <3>1
  <2> HIDE DEF N, p
  <2>4. s \in SettleStates(N)
    BY <1>1, <1>2, <2>1, <2>3, SettleTyped
  <2> HIDE DEF s
  <2>5. LET o == Outcome(t, t, s, k) IN o \in TableRecords /\ Count(o.buckets) = N
    BY <1>1, <2>1, <2>4, OutcomeType
  <2> QED
    BY <1>1, <2>2, <2>5 DEF N
<1> QED
  BY <1>3, <1>4, <1>5

\* The condition of grow_on_high_load leaves room.
LEMMA RoomOrGrowth ==
  ASSUME m_max_load_factor \in 2 .. 19, NEW t, Healthy(t, m_max_load_factor)
  PROVE  ~MustGrow(t) => Count(t.buckets) > 0 /\ Len(t.values) + 1 < Count(t.buckets)
<1> DEFINE f == m_max_load_factor
           N == Count(t.buckets)
           n == Len(t.values)
           h == LoadThreshold(t.buckets, f)
<1> SUFFICES ASSUME ~MustGrow(t) PROVE N > 0 /\ n + 1 < N
  OBVIOUS
<1>1. N \in Nat /\ n \in Nat /\ t.buckets \in Tables(N) /\ t.threshold \in {0, h} /\ t.threshold \in Nat
  BY RecordParts DEF Healthy
<1>2. h \in 0 .. N /\ (N > 0 => h < N)
  <2>1. f \in 2 .. 19
    OBVIOUS
  <2> HIDE DEF N, f
  <2> QED
    BY <1>1, <2>1, ThresholdBelow
<1>3. ~ (n >= t.threshold)
  BY DEF MustGrow
<1> HIDE DEF N, n, h
<1> QED
  BY <1>1, <1>2, <1>3

\* insert_impl keeps a table healthy, and inserts a value that is not there.
LEMMA PlacedKeeps ==
  ASSUME m_max_load_factor \in 2 .. 19, NEW t, Healthy(t, m_max_load_factor),
         NEW k \in Keys, Count(t.buckets) <= MaxBuckets,
         Count(Placed(t, k, Len(t.values)).buckets) <= MaxBuckets
  PROVE  LET o == Placed(t, k, Len(t.values))
             here == \E j \in 1 .. Len(t.values) : t.values[j] = k
         IN  /\ Healthy(o, m_max_load_factor)
             /\ o.values = IF here \/ Len(t.values) >= MaxValues THEN t.values
                           ELSE Append(t.values, k)
<1> DEFINE f == m_max_load_factor
           v == t.values
           n == Len(v)
           N == Count(t.buckets)
           e == Entry(n, Hash[k])
           p == Probe(t.buckets, v, k)
           g == Grown(t).buckets
           here == \E j \in 1 .. n : v[j] = k
           o == Placed(t, k, n)
<1>1. /\ t \in TableRecords /\ n \in Nat /\ N \in Nat /\ t.buckets \in Tables(N)
      /\ v \in Seq(Keys) /\ Sound(N, t.buckets, v) /\ N \in Counts
      /\ t.threshold \in {0, LoadThreshold(t.buckets, f)}
  BY RecordParts DEF Healthy
<1>2. e \in Entries /\ Hash[k] \in Nat /\ e.index = n
      /\ e.hash = Truncated(Hash[k])
  BY <1>1, EntryType
<1>3. p.found <=> here
  <2> HIDE DEF N
  <2> QED
    BY <1>1, ProbeFinds DEF N
<1>4. CASE p.found \/ n >= MaxValues
  BY <1>1, <1>3, <1>4, PlacedIs
<1>5. ASSUME NEW M \in Nat \ {0}, M \in Counts, NEW r, r \in TableRecords,
             NEW s, Settled(M, Listing(v) \cup {e}, s),
             r.buckets \in Tables(M), r.threshold \in {0, LoadThreshold(r.buckets, f)},
             o = Outcome(t, r, s, k), ~here, n < MaxValues, M >= 4 => n + 1 < M
      PROVE  Healthy(o, f) /\ o.values = Append(v, k)
  <2>1. /\ s \in SettleStates(M) /\ Ordered(M, s.buckets) /\ Distinct(s.buckets)
        /\ Held(s.buckets) = Listing(v) \cup {e}
    BY <1>5 DEF Settled
  <2>2. /\ o \in TableRecords /\ Count(o.buckets) = M
        /\ o.values = Append(v, k) /\ o.buckets = s.buckets
        /\ o.threshold = r.threshold
    <3> HIDE DEF o
    <3> QED
      BY <1>1, <1>5, <2>1, OutcomeType, SMTT(40)
  <2> HIDE DEF o
  <2>3. Len(Append(v, k)) = n + 1 /\ Append(v, k) \in Seq(Keys)
    BY <1>1, AtEnd
  <2>4. Held(s.buckets) = Listing(Append(v, k)) /\ NoneTwice(Append(v, k))
    <3>1. NoneTwice(v)
      BY <1>1 DEF Sound
    <3> QED
      BY <1>1, <1>5, <2>1, <3>1, OneMore
  <2>5. s.buckets \in Tables(M)
    BY <2>1 DEF SettleStates
  <2>6. Sound(M, o.buckets, o.values)
    BY <2>1, <2>2, <2>3, <2>4, <2>5 DEF Sound
  <2>7. LoadThreshold(o.buckets, f) = LoadThreshold(r.buckets, f)
    BY <1>5, <2>2, InTable DEF LoadThreshold
  <2>8. n + 1 <= MaxValues
    BY <1>1, <1>5, HashAssumption
  <2> HIDE DEF n, f
  <2> QED
    BY <1>5, <2>2, <2>3, <2>6, <2>7, <2>8 DEF Healthy
<1>6. CASE ~ (p.found \/ n >= MaxValues) /\ MustGrow(t)
  <2> DEFINE M == Count(g)
             s == Settle(g, BucketForHash(g, Hash[k]), 0, e)
             m == IF N = 0 THEN 1 ELSE 2 * N
  <2>1. o = Outcome(t, Grown(t), s, k)
    BY <1>1, <1>6, PlacedIs
  <2>2. n <= N /\ (N >= 4 => n < N)
    <3> HIDE DEF N
    <3> QED
      BY <1>1, SoundCounts DEF Healthy, N
  <2>3. m \in Nat \ {0} /\ m > N /\ RoundedUp(m) \in Nat \ {0} /\ RoundedUp(m) >= m
        /\ RoundedUp(m) \in Counts
        /\ (N >= 2 => m >= N + 2) /\ (RoundedUp(m) < 4 => N < 2)
    <3> HIDE DEF N
    <3> QED
      BY <1>1, Growth
  <2>4. Grown(t) = Resized(t, m)
    BY DEF Grown
  <2>5. /\ Healthy(Grown(t), f) /\ Grown(t).values = v /\ M = RoundedUp(m)
    <3>1. m > n
      BY <1>1, <2>2, <2>3
    <3> HIDE DEF m
    <3> QED
      BY <2>3, <2>4, <3>1, ResizedKeeps
  <2> HIDE DEF m
  <2>6. M \in Nat \ {0} /\ M \in Counts /\ n < M /\ (M >= 4 => n + 1 < M)
    <3>1. M \in Nat \ {0} /\ M \in Counts /\ n < M
      BY <1>1, <2>2, <2>3, <2>5
    <3>2. M >= 4 => n + 1 < M
      <4> HIDE DEF M, N, n
      <4> QED
        BY <1>1, <2>2, <2>3, <2>5
    <3> QED
      BY <3>1, <3>2
  <2> HIDE DEF M
  <2>7. /\ Grown(t) \in TableRecords /\ Sound(M, g, v) /\ g \in Tables(M)
        /\ Grown(t).threshold \in {0, LoadThreshold(g, f)}
    BY <2>5 DEF Healthy, Sound, M
  <2> HIDE DEF g, N
  <2>8. M <= MaxBuckets
    <3>1. s \in SettleStates(M)
      <4>1. BucketForHash(g, Hash[k]) = Ideal(M, Hash[k])
        BY <2>6, <2>7, InTable
      <4>2. BucketForHash(g, Hash[k]) \in 0 .. M - 1
        BY <1>2, <2>6, <4>1, IdealBucket
      <4> HIDE DEF e
      <4> QED
        BY <1>2, <2>6, <2>7, <4>2, SettleTyped
    <3> HIDE DEF s, o
    <3>2. Count(o.buckets) = M
      BY <1>1, <2>1, <2>6, <2>7, <3>1, OutcomeType DEF g
    <3> QED
      BY <3>2 DEF o
  <2>9. Settled(M, Listing(v) \cup {e}, s)
    <3>1. M \in Sizes
      BY <2>6, <2>8, InSizes DEF Counts, Sizes
    <3>2. BucketForHash(g, Hash[k]) = Ideal(M, e.hash)
      <4>1. Ideal(M, Truncated(Hash[k])) = Ideal(M, Hash[k])
        BY <1>2, <2>6, <2>8, <3>1, TruncatedIdeal, SMTT(40)
      <4> QED
        BY <1>2, <2>6, <2>7, <4>1, InTable
    <3> HIDE DEF e, n
    <3>3. PICK w \in 0 .. M - 1 : g[w] = Vacant
      BY <2>6, <2>7, SoundCounts DEF n
    <3>4. Ordered(M, g) /\ Distinct(g) /\ Held(g) = Listing(v)
      BY <2>7 DEF Sound
    <3>5. \A c \in Held(g) : c.index # e.index
      BY <1>1, <1>2, <3>4, OneMore DEF n
    <3>6. Settled(M, Held(g) \cup {e}, Settle(g, Ideal(M, e.hash), 0, e))
      BY <1>2, <2>6, <2>7, <3>3, <3>4, <3>5, SettleFromIdeal
    <3> QED
      BY <3>2, <3>4, <3>6
  <2> HIDE DEF s, o, e, f, n, here
  <2>10. Healthy(o, f) /\ o.values = Append(v, k)
    <3>1. ~here /\ n < MaxValues
      BY <1>1, <1>3, <1>6, HashAssumption
    <3> QED
      BY <1>5, <2>1, <2>6, <2>7, <2>9, <3>1 DEF g
  <2> QED
    BY <1>3, <1>6, <2>10 DEF o, f, here, n
<1>7. CASE ~ (p.found \/ n >= MaxValues) /\ ~MustGrow(t)
  <2> DEFINE s == Settle(t.buckets, p.bucket, p.dist, e)
  <2>1. o = Outcome(t, t, s, k)
    BY <1>1, <1>7, PlacedIs
  <2>2. N > 0 /\ n + 1 < N
    BY <1>7, RoomOrGrowth
  <2> HIDE DEF N
  <2>3. N \in Nat \ {0} /\ N \in Sizes /\ N <= MaxBuckets /\ n < N
    BY <1>1, <2>2, InSizes DEF Counts, Sizes, N
  <2>4. PICK w \in 0 .. N - 1 : t.buckets[w] = Vacant
    BY <1>1, <2>3, SoundCounts
  <2>5. p.bucket \in 0 .. N - 1 /\ p.dist = Far(N, e, p.bucket) /\ Fits(N, t.buckets, e, p.bucket)
    <3>1. \A j \in 1 .. n : v[j] # k
      BY <1>3, <1>7
    <3> QED
      BY <1>1, <2>3, <2>4, <3>1, LostProbe
  <2>6. Ordered(N, t.buckets) /\ Distinct(t.buckets) /\ Held(t.buckets) = Listing(v)
    BY <1>1 DEF Sound
  <2> HIDE DEF e, p
  <2>7. \A c \in Held(t.buckets) : c.index # e.index
    BY <1>1, <1>2, <2>6, OneMore
  <2>8. Settled(N, Listing(v) \cup {e}, s)
    <3>1. Settled(N, Held(t.buckets) \cup {e},
                  Settle(t.buckets, p.bucket, Far(N, e, p.bucket), e))
      BY <1>1, <1>2, <2>3, <2>4, <2>5, <2>6, <2>7, SettleLoop
    <3> QED
      BY <2>5, <2>6, <3>1
  <2> HIDE DEF s, o, f, n, here
  <2>9. Healthy(o, f) /\ o.values = Append(v, k)
    <3>1. ~here /\ n < MaxValues
      BY <1>1, <1>3, <1>7, HashAssumption
    <3>2. N \in Counts
      BY <1>1
    <3> QED
      BY <1>1, <1>5, <2>1, <2>2, <2>3, <2>8, <3>1, <3>2
  <2> QED
    BY <1>3, <1>7, <2>9 DEF o, f, here, n
<1> QED
  BY <1>4, <1>6, <1>7

-----------------------------------------------------------------------------
(* insert(first, last)                                                     *)

\* What the loop of insert(first, last) computes, round by round.
InsertRuns(N, s, x, f) ==
  f = [n \in 0 .. N |-> IF n = 0 THEN x ELSE Placed(f[n - 1], s[n], Len(f[n - 1].values))]

\* The loop of insert(first, last) has an outcome.
LEMMA InsertRounds ==
  ASSUME NEW N \in Nat, NEW s, NEW x
  PROVE  \E f : InsertRuns(N, s, x, f)
<1> DEFINE S == {n \in Nat : \E f : InsertRuns(n, s, x, f)}
<1>1. 0 \in S
  <2>1. InsertRuns(0, s, x, [m \in 0 .. 0 |-> x])
    BY DEF InsertRuns
  <2> QED
    BY <2>1
<1>2. ASSUME NEW n \in Nat, n \in S PROVE n + 1 \in S
  <2>1. PICK f : InsertRuns(n, s, x, f)
    BY <1>2
  <2> DEFINE g == [m \in 0 .. n + 1 |-> IF m = n + 1 THEN Placed(f[n], s[n + 1], Len(f[n].values)) ELSE f[m]]
  <2>2. ASSUME NEW m \in 0 .. n + 1
        PROVE  g[m] = IF m = 0 THEN x ELSE Placed(g[m - 1], s[m], Len(g[m - 1].values))
    <3>1. CASE m = n + 1
      BY <3>1
    <3>2. CASE m # n + 1
      <4>1. m \in 0 .. n /\ g[m] = f[m] /\ (m # 0 => m - 1 \in 0 .. n /\ g[m - 1] = f[m - 1])
        BY <2>2, <3>2
      <4>2. f[m] = IF m = 0 THEN x ELSE Placed(f[m - 1], s[m], Len(f[m - 1].values))
        BY <2>1, <4>1 DEF InsertRuns
      <4> QED
        BY <4>1, <4>2
    <3> QED
      BY <3>1, <3>2
  <2>3. InsertRuns(n + 1, s, x, g)
    <3>1. g = [m \in 0 .. n + 1 |-> g[m]]
      OBVIOUS
    <3> HIDE DEF g
    <3> QED
      BY <2>2, <3>1 DEF InsertRuns
  <2> HIDE DEF g
  <2>4. \E h : InsertRuns(n + 1, s, x, h)
    BY <2>3
  <2> QED
    BY <2>4
<1>3. Nat \subseteq S
  <2> HIDE DEF S
  <2> QED
    BY <1>1, <1>2, SetInduction
<1> QED
  BY <1>3

\* What the insertion of a range into the map computes, round by round.
MapRuns(N, s, x, f) ==
  f = [n \in 0 .. N |-> IF n = 0 THEN x ELSE Map!Inserted(f[n - 1], s[n])]

\* The insertion of a range into the map has an outcome.
LEMMA MapRounds ==
  ASSUME NEW N \in Nat, NEW s, NEW x
  PROVE  \E f : MapRuns(N, s, x, f)
<1> DEFINE S == {n \in Nat : \E f : MapRuns(n, s, x, f)}
<1>1. 0 \in S
  <2>1. MapRuns(0, s, x, [m \in 0 .. 0 |-> x])
    BY DEF MapRuns
  <2> QED
    BY <2>1
<1>2. ASSUME NEW n \in Nat, n \in S PROVE n + 1 \in S
  <2>1. PICK f : MapRuns(n, s, x, f)
    BY <1>2
  <2> DEFINE g == [m \in 0 .. n + 1 |-> IF m = n + 1 THEN Map!Inserted(f[n], s[n + 1]) ELSE f[m]]
  <2>2. ASSUME NEW m \in 0 .. n + 1
        PROVE  g[m] = IF m = 0 THEN x ELSE Map!Inserted(g[m - 1], s[m])
    <3>1. CASE m = n + 1
      BY <3>1
    <3>2. CASE m # n + 1
      <4>1. m \in 0 .. n /\ g[m] = f[m] /\ (m # 0 => m - 1 \in 0 .. n /\ g[m - 1] = f[m - 1])
        BY <2>2, <3>2
      <4>2. f[m] = IF m = 0 THEN x ELSE Map!Inserted(f[m - 1], s[m])
        BY <2>1, <4>1 DEF MapRuns
      <4> QED
        BY <4>1, <4>2
    <3> QED
      BY <3>1, <3>2
  <2>3. MapRuns(n + 1, s, x, g)
    <3>1. g = [m \in 0 .. n + 1 |-> g[m]]
      OBVIOUS
    <3> HIDE DEF g
    <3> QED
      BY <2>2, <3>1 DEF MapRuns
  <2> HIDE DEF g
  <2>4. \E h : MapRuns(n + 1, s, x, h)
    BY <2>3
  <2> QED
    BY <2>4
<1>3. Nat \subseteq S
  <2> HIDE DEF S
  <2> QED
    BY <1>1, <1>2, SetInduction
<1> QED
  BY <1>3

\* The map after n insertions is the map after n - 1, with one more.
LEMMA InsertionsOn ==
  ASSUME NEW v, NEW s \in Seq(Keys)
  PROVE  /\ Map!Insertions(v, s)[0] = v
         /\ \A n \in 0 .. Len(s) - 1 :
              Map!Insertions(v, s)[n + 1] = Map!Inserted(Map!Insertions(v, s)[n], s[n + 1])
<1> DEFINE N == Len(s)
           upto == CHOOSE f : MapRuns(N, s, v, f)
<1>1. N \in Nat
  OBVIOUS
<1> HIDE DEF N
<1>2. MapRuns(N, s, v, upto)
  <2>1. \E f : MapRuns(N, s, v, f)
    BY <1>1, MapRounds
  <2> QED
    BY <2>1
<1>3. Map!Insertions(v, s) = upto
  BY DEF Map!Insertions, MapRuns, N
<1> HIDE DEF upto
<1>4. \A n \in 0 .. N : upto[n] = IF n = 0 THEN v ELSE Map!Inserted(upto[n - 1], s[n])
  BY <1>2 DEF MapRuns
<1>5. upto[0] = v
  BY <1>1, <1>4
<1>6. ASSUME NEW n \in 0 .. N - 1 PROVE upto[n + 1] = Map!Inserted(upto[n], s[n + 1])
  <2>1. n + 1 \in 0 .. N /\ n + 1 # 0 /\ (n + 1) - 1 = n
    BY <1>1
  <2>2. upto[n + 1] = IF n + 1 = 0 THEN v ELSE Map!Inserted(upto[(n + 1) - 1], s[n + 1])
    BY <1>4, <2>1
  <2> QED
    BY <2>1, <2>2
<1> QED
  BY <1>3, <1>5, <1>6 DEF N

\* Inserting the values of a list in which none is there twice gives the list.
LEMMA InsertionsCopy ==
  ASSUME NEW v \in Seq(Keys), NoneTwice(v)
  PROVE  \A n \in 0 .. Len(v) : Map!Insertions(<<>>, v)[n] = SubSeq(v, 1, n)
<1> DEFINE g == Map!Insertions(<<>>, v)
           S == {n \in Nat : n <= Len(v) => g[n] = SubSeq(v, 1, n)}
<1>1. Len(v) \in Nat /\ \A j \in 1 .. Len(v) : v[j] \in Keys
  OBVIOUS
<1>2. /\ g[0] = <<>>
      /\ \A n \in 0 .. Len(v) - 1 : g[n + 1] = Map!Inserted(g[n], v[n + 1])
  BY InsertionsOn
<1> HIDE DEF g
<1>3. 0 \in S
  <2>1. SubSeq(v, 1, 0) = <<>>
    OBVIOUS
  <2> QED
    BY <1>2, <2>1
<1>4. ASSUME NEW n \in Nat, n \in S PROVE n + 1 \in S
  <2> SUFFICES ASSUME n + 1 <= Len(v) PROVE g[n + 1] = SubSeq(v, 1, n + 1)
    OBVIOUS
  <2> DEFINE u == SubSeq(v, 1, n)
  <2>1. g[n] = u /\ g[n + 1] = Map!Inserted(g[n], v[n + 1])
    BY <1>1, <1>2, <1>4
  <2>2. Len(u) = n /\ u \in Seq(Keys) /\ \A j \in 1 .. n : u[j] = v[j]
    BY <1>1
  <2>3. DOMAIN u = 1 .. n
    BY <2>2
  <2>4. SubSeq(v, 1, n + 1) = Append(u, v[n + 1])
    BY <1>1
  <2> HIDE DEF u
  <2>5. v[n + 1] \notin {u[j] : j \in DOMAIN u}
    <3> SUFFICES ASSUME NEW j \in 1 .. n, u[j] = v[n + 1] PROVE FALSE
      BY <2>3
    <3>1. v[j] = v[n + 1] /\ j \in 1 .. Len(v) /\ n + 1 \in 1 .. Len(v)
      BY <1>1, <2>2
    <3>2. j = n + 1
      BY <3>1 DEF NoneTwice
    <3> QED
      BY <3>2
  <2> QED
    BY <2>1, <2>4, <2>5 DEF Map!Inserted, Map!Listed
<1>5. Nat \subseteq S
  <2> HIDE DEF S
  <2> QED
    BY <1>3, <1>4, SetInduction
<1> QED
  BY <1>1, <1>5 DEF g

\* Inserting values one by one keeps a table healthy, and inserts them into the map,
\* until it is full.
LEMMA InsertedEachKeeps ==
  ASSUME m_max_load_factor \in 2 .. 19, NEW t, Healthy(t, m_max_load_factor),
         NEW s \in Seq(Keys), Count(InsertedEach(t, s).buckets) <= MaxBuckets
  PROVE  LET o == InsertedEach(t, s)
         IN  /\ Healthy(o, m_max_load_factor)
             /\ \E m \in 0 .. Len(s) :
                  /\ o.values = Map!Insertions(t.values, s)[m]
                  /\ m = Len(s) \/ Len(o.values) >= MaxValues
<1> DEFINE f == m_max_load_factor
           N == Len(s)
           g == Map!Insertions(t.values, s)
           upto == CHOOSE h : InsertRuns(N, s, t, h)
           Fine(r, n) == /\ Healthy(r, f) /\ Count(r.buckets) <= MaxBuckets
                         /\ \E m \in 0 .. n :
                              /\ r.values = g[m]
                              /\ m = n \/ Len(r.values) >= MaxValues
           Good(n) == /\ upto[n] \in TableRecords
                      /\ Count(upto[n].buckets) > MaxBuckets \/ Fine(upto[n], n)
           S == {n \in Nat : n <= N => Good(n)}
<1>1. N \in Nat /\ MaxBuckets \in Nat /\ MaxValues \in Nat
  BY HashAssumption
<1>2. InsertRuns(N, s, t, upto)
  <2> HIDE DEF N
  <2>1. \E h : InsertRuns(N, s, t, h)
    BY <1>1, InsertRounds
  <2> QED
    BY <2>1
<1>3. InsertedEach(t, s) = upto[N]
  BY DEF InsertedEach, InsertRuns
<1>4. g[0] = t.values /\ \A n \in 0 .. N - 1 : g[n + 1] = Map!Inserted(g[n], s[n + 1])
  BY InsertionsOn
<1> HIDE DEF upto, g
<1>5. \A n \in 0 .. N : upto[n] =
         IF n = 0 THEN t ELSE Placed(upto[n - 1], s[n], Len(upto[n - 1].values))
  BY <1>2 DEF InsertRuns
<1>6. 0 \in S
  <2>1. upto[0] = t
    BY <1>1, <1>5
  <2>2. t \in TableRecords /\ Count(t.buckets) \in Nat
    BY RecordParts DEF Healthy
  <2>3. t.values = g[0] /\ 0 \in 0 .. 0
    BY <1>4
  <2>4. Count(t.buckets) <= MaxBuckets => Fine(t, 0)
    BY <2>3
  <2> HIDE DEF Fine
  <2>5. Count(t.buckets) > MaxBuckets \/ Fine(t, 0)
    BY <1>1, <2>2, <2>4
  <2> QED
    BY <2>1, <2>2, <2>5
<1>7. ASSUME NEW n \in Nat, n \in S PROVE n + 1 \in S
  <2> SUFFICES ASSUME n + 1 <= N PROVE Good(n + 1)
    OBVIOUS
  <2> DEFINE r == upto[n]
             k == s[n + 1]
             o == Placed(r, k, Len(r.values))
  <2>1. Good(n)
    BY <1>1, <1>7
  <2>2. upto[n + 1] = o
    BY <1>1, <1>5
  <2>3. k \in Keys /\ n \in 0 .. N - 1
    BY <1>1
  <2>4. g[n + 1] = Map!Inserted(g[n], k)
    BY <1>4, <2>3
  <2> HIDE DEF r, k
  <2>5. r \in TableRecords /\ Count(r.buckets) \in Nat
        /\ (Count(r.buckets) > MaxBuckets \/ Fine(r, n))
    BY <2>1, RecordParts DEF r
  <2>6. CASE Count(r.buckets) > MaxBuckets
    <3>1. Count(r.buckets) > 0
      BY <1>1, <2>5, <2>6
    <3>2. o \in TableRecords /\ Count(o.buckets) >= Count(r.buckets)
      BY <2>3, <2>5, <3>1, PlacedTyped
    <3> HIDE DEF o
    <3>3. Count(o.buckets) \in Nat
      BY <3>2, RecordParts
    <3>4. Count(o.buckets) > MaxBuckets
      BY <1>1, <2>5, <2>6, <3>2, <3>3
    <3> QED
      BY <2>2, <3>2, <3>4
  <2>7. CASE Fine(r, n) /\ Count(r.buckets) <= MaxBuckets
    <3>1. Count(r.buckets) > 0 \/ MustGrow(r)
      BY <2>7, RoomOrGrowth
    <3>2. o \in TableRecords
      BY <2>3, <2>5, <3>1, PlacedTyped
    <3>3. CASE Count(o.buckets) <= MaxBuckets
      <4> DEFINE here == \E j \in 1 .. Len(r.values) : r.values[j] = k
      <4>1. /\ Healthy(o, f)
            /\ o.values = IF here \/ Len(r.values) >= MaxValues THEN r.values
                          ELSE Append(r.values, k)
        BY <2>3, <2>7, <3>3, PlacedKeeps
      <4> HIDE DEF o, f
      <4>2. PICK m \in 0 .. n : r.values = g[m] /\ (m = n \/ Len(r.values) >= MaxValues)
        BY <2>7
      <4>3. r.values \in Seq(Keys) /\ Len(r.values) \in Nat
        BY <2>5, RecordParts
      <4>4. Map!Inserted(r.values, k) = IF here THEN r.values ELSE Append(r.values, k)
        BY <4>3 DEF Map!Inserted, Map!Listed
      <4> HIDE DEF here
      <4>5. CASE Len(r.values) >= MaxValues
        <5>1. m \in 0 .. n + 1 /\ o.values = g[m] /\ Len(o.values) >= MaxValues
          BY <4>1, <4>2, <4>5
        <5> QED
          BY <2>2, <3>2, <3>3, <4>1, <5>1
      <4>6. CASE ~(Len(r.values) >= MaxValues)
        <5>1. r.values = g[n]
          BY <4>2, <4>6
        <5>2. o.values = g[n + 1] /\ n + 1 \in 0 .. n + 1
          BY <2>4, <4>1, <4>4, <4>6, <5>1
        <5> QED
          BY <2>2, <3>2, <3>3, <4>1, <5>2
      <4> QED
        BY <4>5, <4>6
    <3>4. CASE ~(Count(o.buckets) <= MaxBuckets)
      <4> HIDE DEF o
      <4>1. Count(o.buckets) \in Nat
        BY <3>2, RecordParts
      <4>2. Count(o.buckets) > MaxBuckets
        BY <1>1, <3>4, <4>1
      <4> QED
        BY <2>2, <3>2, <4>2
    <3> QED
      BY <3>3, <3>4
  <2> QED
    BY <1>1, <2>5, <2>6, <2>7
<1>8. N \in S
  <2> HIDE DEF S
  <2> QED
    BY <1>1, <1>6, <1>7, SetInduction
<1>9. Good(N)
  BY <1>1, <1>8
<1>10. Count(upto[N].buckets) \in Nat /\ Count(upto[N].buckets) <= MaxBuckets
  <2>1. Count(upto[N].buckets) <= MaxBuckets
    BY <1>3
  <2> QED
    BY <1>9, <2>1, RecordParts
<1>11. Fine(upto[N], N)
  BY <1>1, <1>9, <1>10
<1> QED
  BY <1>3, <1>11 DEF g

\* insert(first, last) does, too.
LEMMA InsertedAllKeeps ==
  ASSUME m_max_load_factor \in 2 .. 19, NEW t, Healthy(t, m_max_load_factor),
         NEW s \in Seq(Keys), Count(InsertedAll(t, s).buckets) <= MaxBuckets
  PROVE  /\ Healthy(InsertedAll(t, s), m_max_load_factor)
         /\ \E m \in 0 .. Len(s) :
              InsertedAll(t, s).values = Map!Insertions(t.values, s)[m]
<1> DEFINE f == m_max_load_factor
           n == Len(t.values) + Len(s)
           r == IF t.threshold - Len(t.values) \in 0 .. Len(s) - 1 THEN Reserved(t, n) ELSE t
<1>1. n \in Nat
  BY RecordParts DEF Healthy
<1>2. Healthy(r, f) /\ r.values = t.values
  <2> HIDE DEF n
  <2> QED
    BY <1>1, AmpleKeeps
<1>3. InsertedAll(t, s) = InsertedEach(r, s)
  BY DEF InsertedAll
<1> HIDE DEF r
<1>4. /\ Healthy(InsertedEach(r, s), f)
      /\ \E m \in 0 .. Len(s) : InsertedEach(r, s).values = Map!Insertions(r.values, s)[m]
  BY <1>2, <1>3, InsertedEachKeeps
<1> QED
  BY <1>2, <1>3, <1>4

-----------------------------------------------------------------------------
(* shift_indexes_in_buckets and erase_value_from_bucket                    *)

\* What the loop of shift_indexes_in_buckets computes, round by round.
CorrectRuns(N, v, from, delta, x, f) ==
  f = [n \in 0 .. N |-> IF n = 0 THEN x ELSE Corrected(f[n - 1], v[from + n], from + n - 1, delta)]

\* The loop of shift_indexes_in_buckets has an outcome.
LEMMA CorrectRounds ==
  ASSUME NEW N \in Nat, NEW v, NEW from, NEW delta, NEW x
  PROVE  \E f : CorrectRuns(N, v, from, delta, x, f)
<1> DEFINE S == {n \in Nat : \E f : CorrectRuns(n, v, from, delta, x, f)}
<1>1. 0 \in S
  <2>1. CorrectRuns(0, v, from, delta, x, [m \in 0 .. 0 |-> x])
    BY DEF CorrectRuns
  <2> QED
    BY <2>1
<1>2. ASSUME NEW n \in Nat, n \in S PROVE n + 1 \in S
  <2>1. PICK f : CorrectRuns(n, v, from, delta, x, f)
    BY <1>2
  <2> DEFINE g == [m \in 0 .. n + 1 |-> IF m = n + 1 THEN Corrected(f[n], v[from + (n + 1)], from + (n + 1) - 1, delta) ELSE f[m]]
  <2>2. ASSUME NEW m \in 0 .. n + 1
        PROVE  g[m] = IF m = 0 THEN x ELSE Corrected(g[m - 1], v[from + m], from + m - 1, delta)
    <3>1. CASE m = n + 1
      BY <3>1
    <3>2. CASE m # n + 1
      <4>1. m \in 0 .. n /\ g[m] = f[m] /\ (m # 0 => m - 1 \in 0 .. n /\ g[m - 1] = f[m - 1])
        BY <2>2, <3>2
      <4>2. f[m] = IF m = 0 THEN x ELSE Corrected(f[m - 1], v[from + m], from + m - 1, delta)
        BY <2>1, <4>1 DEF CorrectRuns
      <4> QED
        BY <4>1, <4>2
    <3> QED
      BY <3>1, <3>2
  <2>3. CorrectRuns(n + 1, v, from, delta, x, g)
    <3>1. g = [m \in 0 .. n + 1 |-> g[m]]
      OBVIOUS
    <3> HIDE DEF g
    <3> QED
      BY <2>2, <3>1 DEF CorrectRuns
  <2> HIDE DEF g
  <2>4. \E h : CorrectRuns(n + 1, v, from, delta, x, h)
    BY <2>3
  <2> QED
    BY <2>4
<1>3. Nat \subseteq S
  <2> HIDE DEF S
  <2> QED
    BY <1>1, <1>2, SetInduction
<1> QED
  BY <1>3

\* A round finds the one bucket with the old index, and lowers it.
LEMMA CorrectedIs ==
  ASSUME NEW N \in Nat \ {0}, NEW b \in Tables(N), NEW k \in Keys, NEW index \in Nat,
         NEW i \in 0 .. N - 1, b[i] # Vacant, b[i].index = index + 1,
         \A j \in 0 .. N - 1 : b[j] # Vacant /\ b[j].index = index + 1 => j = i
  PROVE  Corrected(b, k, index, -1) = [b EXCEPT ![i].index = index]
<1> DEFINE h == Hash[k]
           a == Ideal(N, h)
           D == Steps(N, a, i)
           S == {d \in 0 .. Count(b) - 1 : LET e == b[Seat(b, h, d)]
                                           IN  e # Vacant /\ e.index = index - (-1)}
<1>1. h \in Nat /\ Count(b) = N /\ index - (-1) = index + 1
  BY HashAssumption, InTable
<1> HIDE DEF h
<1>2. a \in 0 .. N - 1
  BY <1>1, IdealBucket
<1>3. \A d \in 0 .. N - 1 : Seat(b, h, d) = Place(N, a, d)
  BY <1>1, SeatPlace
<1> HIDE DEF a
<1>4. D \in 0 .. N - 1 /\ Place(N, a, D) = i
  BY <1>2, PlaceBack
<1>5. \A d \in 0 .. N - 1 : Place(N, a, d) \in 0 .. N - 1 /\ (Place(N, a, d) = i => d = D)
  <2> SUFFICES ASSUME NEW d \in 0 .. N - 1
               PROVE  Place(N, a, d) \in 0 .. N - 1 /\ (Place(N, a, d) = i => d = D)
    OBVIOUS
  <2>1. Place(N, a, d) \in 0 .. N - 1 /\ Steps(N, a, Place(N, a, d)) = d
    BY <1>2, PlaceAhead
  <2> QED
    BY <2>1
<1> HIDE DEF D
<1>6. S = {D}
  <2>1. D \in S
    BY <1>1, <1>3, <1>4
  <2>2. ASSUME NEW d \in S PROVE d = D
    BY <1>1, <1>3, <1>5, <2>2
  <2> QED
    BY <2>1, <2>2
<1> HIDE DEF S
<1>7. Min(S) = D
  <2>1. S \subseteq Nat /\ S # {}
    BY <1>4, <1>6
  <2> QED
    BY <1>6, <2>1, Least
<1>8. Corrected(b, k, index, -1) = [b EXCEPT ![Seat(b, h, Min(S))].index = index]
  BY DEF Corrected, S, h
<1> QED
  BY <1>3, <1>4, <1>7, <1>8

\* The entry of a value behind the one that is erased.
Lower(e, index) ==
  IF e # Vacant /\ e.index > index THEN [e EXCEPT !.index = @ - 1] ELSE e

\* The values that are left when one is removed.
LEMMA Left ==
  ASSUME NEW v \in Seq(Keys), NEW m \in 1 .. Len(v)
  PROVE  /\ RemoveAt(v, m) \in Seq(Keys) /\ Len(RemoveAt(v, m)) = Len(v) - 1
         /\ \A j \in 1 .. Len(v) - 1 :
              RemoveAt(v, m)[j] = IF j < m THEN v[j] ELSE v[j + 1]
<1> DEFINE p == SubSeq(v, 1, m - 1)
           q == SubSeq(v, m + 1, Len(v))
<1>1. Len(v) \in Nat /\ m \in Nat
  OBVIOUS
<1>2. p \in Seq(Keys) /\ Len(p) = m - 1 /\ \A j \in 1 .. m - 1 : p[j] = v[j]
  OBVIOUS
<1>3. q \in Seq(Keys) /\ Len(q) = Len(v) - m /\ \A j \in 1 .. Len(v) - m : q[j] = v[m + j]
  OBVIOUS
<1>4. RemoveAt(v, m) = p \o q
  BY DEF RemoveAt
<1> HIDE DEF p, q
<1>5. p \o q \in Seq(Keys) /\ Len(p \o q) = Len(p) + Len(q)
  <2>1. p \in Seq(Keys) /\ q \in Seq(Keys)
    BY <1>2, <1>3
  <2> QED
    BY <2>1
<1>6. ASSUME NEW j \in 1 .. Len(v) - 1
      PROVE  (p \o q)[j] = IF j < m THEN v[j] ELSE v[j + 1]
  <2>1. CASE j < m
    <3>1. j \in 1 .. m - 1
      BY <1>1, <2>1
    <3>2. (p \o q)[j] = p[j]
      BY <1>2, <1>3, <3>1
    <3> QED
      BY <1>2, <2>1, <3>1, <3>2
  <2>2. CASE ~(j < m)
    <3>1. j - (m - 1) \in 1 .. Len(v) - m /\ m + (j - (m - 1)) = j + 1
      BY <1>1, <2>2
    <3>2. (p \o q)[j] = q[j - (m - 1)]
      BY <1>1, <1>2, <1>3, <2>2
    <3> QED
      BY <1>1, <1>3, <2>2, <3>1, <3>2
  <2> QED
    BY <2>1, <2>2
<1> QED
  BY <1>1, <1>2, <1>3, <1>4, <1>5, <1>6

\* shift_indexes_in_buckets lowers the indexes of the values behind the erased one.
LEMMA ShiftLowers ==
  ASSUME NEW N \in Nat \ {0}, NEW b, NEW v, Sound(N, b, v), NEW index \in 0 .. Len(v) - 1
  PROVE  ShiftIndexes(b, RemoveAt(v, index + 1), index, -1)
           = [j \in 0 .. N - 1 |-> Lower(b[j], index)]
<1> DEFINE u == RemoveAt(v, index + 1)
           M == Len(u) - index
           upto == CHOOSE f : CorrectRuns(M, u, index, -1, b, f)
           Low(n, j) == IF b[j] # Vacant /\ index < b[j].index /\ b[j].index <= index + n
                        THEN [b[j] EXCEPT !.index = @ - 1] ELSE b[j]
           S == {n \in Nat : n <= M => upto[n] = [j \in 0 .. N - 1 |-> Low(n, j)]}
<1>1. /\ b \in Tables(N) /\ DOMAIN b = 0 .. N - 1 /\ v \in Seq(Keys) /\ Distinct(b)
      /\ Len(v) \in Nat /\ index \in Nat
  BY InTable DEF Sound
<1>2. u \in Seq(Keys) /\ Len(u) = Len(v) - 1
  BY <1>1, Left
<1>3. M \in Nat /\ index + M = Len(v) - 1
  BY <1>1, <1>2
<1>4. CorrectRuns(M, u, index, -1, b, upto)
  <2> HIDE DEF M, u
  <2>1. \E f : CorrectRuns(M, u, index, -1, b, f)
    BY <1>3, CorrectRounds
  <2> QED
    BY <2>1
<1>5. ShiftIndexes(b, u, index, -1) = upto[M]
  BY DEF ShiftIndexes, CorrectRuns
<1> HIDE DEF u, M, upto
<1>6. \A n \in 0 .. M : upto[n] =
        IF n = 0 THEN b ELSE Corrected(upto[n - 1], u[index + n], index + n - 1, -1)
  BY <1>4 DEF CorrectRuns
<1>7. \A j \in 0 .. N - 1 : b[j] # Vacant => b[j] \in Entries /\ b[j].index \in Nat
  BY <1>1, InTable DEF Entries
<1>8. 0 \in S
  <2>1. upto[0] = b
    BY <1>3, <1>6
  <2>2. \A j \in 0 .. N - 1 : Low(0, j) = b[j]
    BY <1>1, <1>7
  <2>3. b = [j \in 0 .. N - 1 |-> b[j]]
    BY <1>1 DEF Tables
  <2> QED
    BY <2>1, <2>2, <2>3
<1>9. ASSUME NEW n \in Nat, n \in S PROVE n + 1 \in S
  <2> SUFFICES ASSUME n + 1 <= M PROVE upto[n + 1] = [j \in 0 .. N - 1 |-> Low(n + 1, j)]
    OBVIOUS
  <2> DEFINE acc == upto[n]
             k == u[index + (n + 1)]
  <2>1. acc = [j \in 0 .. N - 1 |-> Low(n, j)]
    BY <1>3, <1>9
  <2>2. upto[n + 1] = Corrected(acc, k, index + n, -1)
    <3>1. n + 1 \in 0 .. M /\ n + 1 # 0 /\ (n + 1) - 1 = n /\ index + (n + 1) - 1 = index + n
      BY <1>1, <1>3
    <3>2. upto[n + 1] = IF n + 1 = 0 THEN b
                        ELSE Corrected(upto[(n + 1) - 1], u[index + (n + 1)],
                                       index + (n + 1) - 1, -1)
      BY <1>6, <3>1
    <3> QED
      BY <3>1, <3>2
  <2>3. k \in Keys
    BY <1>1, <1>2, <1>3
  <2> HIDE DEF acc, k
  <2>4. PICK i \in 0 .. N - 1 : b[i] # Vacant /\ b[i].index = (index + n) + 1
    <3> DEFINE m == (index + n) + 2
    <3>1. m \in 1 .. Len(v) /\ m - 1 = (index + n) + 1 /\ m - 1 \in Nat
      BY <1>1, <1>3
    <3> HIDE DEF m
    <3>2. PICK i \in 0 .. N - 1 : b[i] = Entry(m - 1, Hash[v[m]]) /\ b[i] # Vacant
      BY <3>1, SoundEntries
    <3>3. v[m] \in Keys
      BY <1>1, <3>1
    <3>4. b[i].index = m - 1
      BY <3>1, <3>2, <3>3, EntryType, ZenonT(60)
    <3> QED
      BY <3>1, <3>2, <3>4
  <2>5. \A j \in 0 .. N - 1 : b[j] # Vacant => [b[j] EXCEPT !.index = @ - 1].index = b[j].index - 1
    BY <1>7 DEF Entries
  <2>6. ASSUME NEW j \in 0 .. N - 1
        PROVE  /\ acc[j] \in {Vacant} \cup Entries
               /\ acc[j] # Vacant <=> b[j] # Vacant
               /\ acc[j] # Vacant /\ acc[j].index = (index + n) + 1 <=>
                    b[j] # Vacant /\ b[j].index = (index + n) + 1
    <3>1. CASE b[j] # Vacant /\ index < b[j].index /\ b[j].index <= index + n
      <4>1. acc[j] = [b[j] EXCEPT !.index = @ - 1]
        BY <2>1, <3>1
      <4>2. acc[j] \in Entries /\ acc[j].index = b[j].index - 1
        BY <1>1, <1>7, <2>5, <3>1, <4>1 DEF Entries
      <4>3. acc[j] # Vacant
        BY <4>2, VacantAssumption DEF Entries
      <4> QED
        BY <1>1, <1>7, <3>1, <4>2, <4>3
    <3>2. CASE ~(b[j] # Vacant /\ index < b[j].index /\ b[j].index <= index + n)
      <4>1. acc[j] = b[j]
        BY <2>1, <3>2
      <4> QED
        BY <1>7, <4>1
    <3> QED
      BY <3>1, <3>2
  <2>7. acc \in Tables(N)
    <3>1. acc = [j \in 0 .. N - 1 |-> acc[j]]
      BY <2>1
    <3> QED
      BY <2>6, <3>1 DEF Tables
  <2>8. \A j \in 0 .. N - 1 : b[j] # Vacant /\ b[j].index = (index + n) + 1 => j = i
    BY <1>1, <2>4 DEF Distinct
  <2>9. upto[n + 1] = [acc EXCEPT ![i].index = index + n]
    <3> DEFINE c == index + n
    <3>1. c \in Nat
      BY <1>1
    <3>2. acc[i] # Vacant /\ acc[i].index = c + 1
      BY <2>4, <2>6
    <3>3. \A j \in 0 .. N - 1 : acc[j] # Vacant /\ acc[j].index = c + 1 => j = i
      BY <2>6, <2>8
    <3> HIDE DEF c
    <3>4. Corrected(acc, k, c, -1) = [acc EXCEPT ![i].index = c]
      BY <2>3, <2>7, <3>1, <3>2, <3>3, CorrectedIs
    <3> QED
      BY <2>2, <3>4 DEF c
  <2>10. acc[i] = b[i]
    BY <1>1, <2>1, <2>4
  <2>11. Low(n + 1, i) = [b[i] EXCEPT !.index = index + n]
    <3>1. b[i].index - 1 = index + n /\ index < b[i].index /\ b[i].index <= index + (n + 1)
      BY <1>1, <2>4
    <3> QED
      BY <2>4, <3>1
  <2>12. \A j \in 0 .. N - 1 : j # i => Low(n + 1, j) = acc[j]
    <3> SUFFICES ASSUME NEW j \in 0 .. N - 1, j # i PROVE Low(n + 1, j) = acc[j]
      OBVIOUS
    <3>1. b[j] # Vacant => b[j].index # (index + n) + 1 /\ b[j].index \in Nat
      BY <1>7, <2>8
    <3>2. acc[j] = Low(n, j)
      BY <2>1
    <3>3. b[j] # Vacant => (b[j].index <= index + n <=> b[j].index <= index + (n + 1))
      BY <1>1, <3>1
    <3> QED
      BY <3>2, <3>3
  <2> HIDE DEF Low
  <2>13. [acc EXCEPT ![i].index = index + n] = [j \in 0 .. N - 1 |-> Low(n + 1, j)]
    <3>1. [acc EXCEPT ![i].index = index + n]
            = [j \in 0 .. N - 1 |-> IF j = i THEN [acc[i] EXCEPT !.index = index + n] ELSE acc[j]]
      BY <2>7 DEF Tables
    <3> QED
      BY <2>10, <2>11, <2>12, <3>1
  <2> QED
    BY <2>9, <2>13
<1>10. M \in S
  <2> HIDE DEF S
  <2> QED
    BY <1>3, <1>8, <1>9, SetInduction
<1>11. \A j \in 0 .. N - 1 : Low(M, j) = Lower(b[j], index)
  <2> SUFFICES ASSUME NEW j \in 0 .. N - 1 PROVE Low(M, j) = Lower(b[j], index)
    OBVIOUS
  <2>1. b[j] # Vacant => b[j].index \in Nat /\ b[j].index <= index + M
    BY <1>1, <1>3, SoundEntries
  <2> QED
    BY <1>1, <2>1 DEF Lower
<1>12. upto[M] = [j \in 0 .. N - 1 |-> Low(M, j)]
  BY <1>3, <1>10
<1> HIDE DEF Low
<1>13. [j \in 0 .. N - 1 |-> Low(M, j)] = [j \in 0 .. N - 1 |-> Lower(b[j], index)]
  BY <1>11
<1> QED
  BY <1>5, <1>12, <1>13 DEF u

\* Other indexes in the same buckets make no difference to the order.
LEMMA HollowSame ==
  ASSUME NEW N \in Nat \ {0}, NEW E, NEW b, NEW c \in Tables(N), NEW i \in 0 .. N - 1,
         Hollow(N, E, [buckets |-> b, hole |-> i]), Distinct(c),
         \A j \in 0 .. N - 1 : c[j] = Vacant <=> b[j] = Vacant,
         \A j \in 0 .. N - 1 : b[j] # Vacant => c[j].hash = b[j].hash
  PROVE  Hollow(N, Held(c), [buckets |-> c, hole |-> i])
<1> DEFINE s == [buckets |-> b, hole |-> i]
           r == [buckets |-> c, hole |-> i]
           n == After(N, i)
           p == Before(N, i)
<1>1. n \in 0 .. N - 1 /\ p \in 0 .. N - 1
  BY Circle
<1>2. \A j \in 0 .. N - 1 : b[j] # Vacant => Far(N, c[j], j) = Far(N, b[j], j)
  BY DEF Far
<1>3. s.buckets = b /\ s.hole = i /\ r.buckets = c /\ r.hole = i /\ r \in ShiftStates(N)
  BY DEF ShiftStates
<1>4. Hollow(N, E, s)
  OBVIOUS
<1> HIDE DEF s, r
<1>5. /\ b[i] = Vacant
      /\ \A j \in 0 .. N - 1 : j # n => OrderedAt(N, b, j)
      /\ b[n] # Vacant /\ Far(N, b[n], n) >= 2 =>
           b[p] # Vacant /\ Far(N, b[n], n) <= Far(N, b[p], p) + 2
  BY <1>3, <1>4 DEF Hollow
<1>6. ASSUME NEW j \in 0 .. N - 1, j # n PROVE OrderedAt(N, c, j)
  <2>1. OrderedAt(N, b, j) /\ Before(N, j) \in 0 .. N - 1
    BY <1>5, <1>6, Circle
  <2> QED
    BY <1>2, <2>1 DEF OrderedAt
<1>7. ASSUME c[n] # Vacant, Far(N, c[n], n) >= 2
      PROVE  c[p] # Vacant /\ Far(N, c[n], n) <= Far(N, c[p], p) + 2
  BY <1>1, <1>2, <1>5, <1>7
<1>8. Hollow(N, Held(c), r)
  BY <1>3, <1>5, <1>6, <1>7 DEF Hollow
<1> QED
  BY <1>8 DEF r

\* Erasing the value in a bucket leaves the table of the values that are left.
LEMMA EraseKeeps ==
  ASSUME NEW N \in Nat \ {0}, NEW b, NEW v, Sound(N, b, v),
         NEW i \in 0 .. N - 1, b[i] # Vacant, N <= 2 \/ Len(v) < N
  PROVE  LET index   == b[i].index
             left    == RemoveAt(v, index + 1)
             shifted == IF index # Len(left) THEN ShiftIndexes(b, left, index, -1) ELSE b
         IN  Sound(N, BackwardShift([shifted EXCEPT ![i] = Vacant], i), left)
<1> DEFINE index   == b[i].index
           left    == RemoveAt(v, index + 1)
           shifted == IF index # Len(left) THEN ShiftIndexes(b, left, index, -1) ELSE b
           c       == [shifted EXCEPT ![i] = Vacant]
<1>1. /\ v \in Seq(Keys) /\ Len(v) \in Nat /\ NoneTwice(v)
      /\ b \in Tables(N) /\ DOMAIN b = 0 .. N - 1 /\ Ordered(N, b) /\ Distinct(b)
  BY InTable DEF Sound
<1>2. index + 1 \in 1 .. Len(v) /\ index \in Nat
  BY SoundEntries
<1>3. \A j \in 0 .. N - 1 : b[j] # Vacant => b[j] \in Entries /\ b[j].index \in Nat /\ b[j].hash \in Nat
  BY <1>1, InTable DEF Entries
<1> HIDE DEF index
<1>4. /\ left \in Seq(Keys) /\ Len(left) = Len(v) - 1
      /\ \A j \in 1 .. Len(v) - 1 : left[j] = IF j < index + 1 THEN v[j] ELSE v[j + 1]
  BY <1>1, <1>2, Left
<1> HIDE DEF left
<1>5. shifted = [j \in 0 .. N - 1 |-> Lower(b[j], index)]
  <2>1. CASE index # Len(left)
    <3>1. index \in 0 .. Len(v) - 1
      BY <1>1, <1>2
    <3> QED
      BY <2>1, <3>1, ShiftLowers DEF left
  <2>2. CASE index = Len(left)
    <3>1. \A j \in 0 .. N - 1 : Lower(b[j], index) = b[j]
      <4> SUFFICES ASSUME NEW j \in 0 .. N - 1 PROVE Lower(b[j], index) = b[j]
        OBVIOUS
      <4>1. b[j] # Vacant => b[j].index + 1 \in 1 .. Len(v) /\ b[j].index \in Nat
        BY SoundEntries
      <4>2. b[j] # Vacant => ~(b[j].index > index)
        BY <1>1, <1>2, <1>4, <2>2, <4>1
      <4> QED
        BY <4>2 DEF Lower
    <3>2. b = [j \in 0 .. N - 1 |-> b[j]]
      BY <1>1 DEF Tables
    <3>3. shifted = b
      BY <2>2
    <3> HIDE DEF shifted
    <3> QED
      BY <3>1, <3>2, <3>3
  <2> QED
    BY <2>1, <2>2
<1> HIDE DEF shifted
<1>6. c[i] = Vacant /\ \A j \in 0 .. N - 1 : j # i => c[j] = Lower(b[j], index)
  BY <1>5
<1>7. DOMAIN c = 0 .. N - 1 /\ c = [j \in 0 .. N - 1 |-> c[j]]
  BY <1>5
<1> HIDE DEF c
<1>8. ASSUME NEW j \in 0 .. N - 1, j # i, b[j] # Vacant
      PROVE  /\ c[j] \in Entries /\ c[j] # Vacant /\ c[j].hash = b[j].hash
             /\ b[j].index # index
             /\ c[j].index = IF b[j].index > index THEN b[j].index - 1 ELSE b[j].index
  <2>1. b[j].index # index
    BY <1>1, <1>8 DEF Distinct, index
  <2>2. c[j] = IF b[j].index > index THEN [b[j] EXCEPT !.index = @ - 1] ELSE b[j]
    BY <1>6, <1>8 DEF Lower
  <2>3. c[j] \in Entries /\ c[j].hash = b[j].hash
        /\ c[j].index = IF b[j].index > index THEN b[j].index - 1 ELSE b[j].index
    <3>1. CASE b[j].index > index
      <4>1. b[j].index - 1 \in Nat
        BY <1>2, <1>3, <1>8, <3>1
      <4> QED
        BY <1>3, <1>8, <2>2, <3>1, <4>1 DEF Entries
    <3>2. CASE ~(b[j].index > index)
      BY <1>3, <1>8, <2>2, <3>2
    <3> QED
      BY <3>1, <3>2
  <2>4. c[j] # Vacant
    BY <2>3, VacantAssumption DEF Entries
  <2> QED
    BY <2>1, <2>3, <2>4
<1>9. ASSUME NEW j \in 0 .. N - 1, j # i, b[j] = Vacant PROVE c[j] = Vacant
  BY <1>6, <1>9 DEF Lower
<1>10. c \in Tables(N)
  <2>1. \A j \in 0 .. N - 1 : c[j] \in {Vacant} \cup Entries
    BY <1>6, <1>8, <1>9
  <2> QED
    BY <1>7, <2>1 DEF Tables
<1>11. Distinct(c)
  <2> SUFFICES ASSUME NEW j \in 0 .. N - 1, NEW m \in 0 .. N - 1,
                      c[j] # Vacant, c[m] # Vacant, c[j].index = c[m].index
               PROVE  j = m
    BY <1>7 DEF Distinct
  <2>1. j # i /\ b[j] # Vacant /\ m # i /\ b[m] # Vacant
    BY <1>6, <1>9
  <2>2. b[j].index = b[m].index
    <3>1. b[j].index \in Nat /\ b[m].index \in Nat
      BY <1>3, <2>1
    <3> QED
      BY <1>2, <1>8, <2>1, <3>1, SMTT(40)
  <2> QED
    BY <1>1, <2>1, <2>2 DEF Distinct
<1>12. Held(c) = Listing(left)
  <2>1. ASSUME NEW j \in 0 .. N - 1, j # i, b[j] # Vacant PROVE c[j] \in Listing(left)
    <3> DEFINE m == b[j].index
               x == c[j].index
    <3>1. m + 1 \in 1 .. Len(v) /\ m \in Nat /\ b[j] = Entry(m, Hash[v[m + 1]]) /\ m # index
      BY <1>8, <2>1, SoundEntries
    <3>2. c[j] \in Entries /\ c[j].hash = b[j].hash /\ x = IF m > index THEN m - 1 ELSE m
      BY <1>8, <2>1
    <3>3. v[m + 1] \in Keys
      BY <1>1, <3>1
    <3>4. b[j].hash = Truncated(Hash[v[m + 1]])
      <4> HIDE DEF m
      <4> QED
        BY <3>1, <3>3, EntryType
    <3> HIDE DEF m
    <3>5. c[j] = [index |-> x, hash |-> c[j].hash]
      BY <3>2 DEF Entries
    <3> HIDE DEF x
    <3>6. c[j] = Entry(x, Hash[v[m + 1]])
      BY <3>2, <3>4, <3>5 DEF Entry
    <3>7. x + 1 \in 1 .. Len(left) /\ (x + 1) - 1 = x /\ left[x + 1] = v[m + 1]
      BY <1>1, <1>2, <1>4, <3>1, <3>2
    <3>8. Entry((x + 1) - 1, Hash[left[x + 1]]) \in Listing(left)
      BY <3>7 DEF Listing
    <3> QED
      BY <3>6, <3>7, <3>8
  <2>2. ASSUME NEW m \in 1 .. Len(left) PROVE Entry(m - 1, Hash[left[m]]) \in Held(c)
    <3> DEFINE d == IF m < index + 1 THEN m ELSE m + 1
    <3>1. d \in 1 .. Len(v) /\ left[m] = v[d] /\ d - 1 # index /\ m - 1 \in Nat /\ d - 1 \in Nat
          /\ m - 1 = IF d - 1 > index THEN (d - 1) - 1 ELSE d - 1
      BY <1>1, <1>2, <1>4
    <3> HIDE DEF d
    <3>2. PICK j \in 0 .. N - 1 : b[j] = Entry(d - 1, Hash[v[d]]) /\ b[j] # Vacant
      <4>1. \A l \in 1 .. Len(v) : \E j \in 0 .. N - 1 : b[j] = Entry(l - 1, Hash[v[l]]) /\ b[j] # Vacant
        BY SoundEntries
      <4>2. d \in 1 .. Len(v)
        BY <3>1
      <4> QED
        BY <4>1, <4>2
    <3>3. v[d] \in Keys
      BY <1>1, <3>1
    <3>4. b[j].index = d - 1 /\ b[j].hash = Truncated(Hash[v[d]])
      BY <3>1, <3>2, <3>3, EntryType
    <3>5. j # i
      BY <3>1, <3>4 DEF index
    <3>6. c[j] \in Entries /\ c[j] # Vacant /\ c[j].hash = Truncated(Hash[v[d]]) /\ c[j].index = m - 1
      BY <1>8, <3>1, <3>2, <3>4, <3>5
    <3>7. c[j] = [index |-> c[j].index, hash |-> c[j].hash]
      BY <3>6 DEF Entries
    <3>8. c[j] = Entry(m - 1, Hash[left[m]])
      BY <3>1, <3>6, <3>7 DEF Entry
    <3> QED
      BY <1>7, <3>6, <3>8 DEF Held
  <2>3. ASSUME NEW e \in Held(c) PROVE e \in Listing(left)
    <3>1. PICK j \in 0 .. N - 1 : e = c[j] /\ e # Vacant
      BY <1>7, <2>3 DEF Held
    <3> QED
      BY <1>6, <1>9, <2>1, <3>1
  <2> QED
    BY <2>2, <2>3 DEF Listing
<1>13. NoneTwice(left)
  <2> SUFFICES ASSUME NEW j \in 1 .. Len(left), NEW m \in 1 .. Len(left), left[j] = left[m]
               PROVE  j = m
    BY DEF NoneTwice
  <2> DEFINE x(l) == IF l < index + 1 THEN l ELSE l + 1
  <2>1. /\ x(j) \in 1 .. Len(v) /\ left[j] = v[x(j)] /\ x(m) \in 1 .. Len(v) /\ left[m] = v[x(m)]
        /\ (x(j) = x(m) => j = m)
    BY <1>1, <1>2, <1>4
  <2> HIDE DEF x
  <2> QED
    BY <1>1, <2>1 DEF NoneTwice
<1>14. Hollow(N, Listing(left), [buckets |-> c, hole |-> i])
  <2> DEFINE z == [b EXCEPT ![i] = Vacant]
  <2>1. Hollow(N, Held(b) \ {b[i]}, [buckets |-> z, hole |-> i])
    BY <1>1, EmptyBucket
  <2>2. z[i] = Vacant /\ \A j \in 0 .. N - 1 : j # i => z[j] = b[j]
    BY <1>1
  <2> HIDE DEF z
  <2>3. \A j \in 0 .. N - 1 : c[j] = Vacant <=> z[j] = Vacant
    BY <1>6, <1>8, <1>9, <2>2
  <2>4. \A j \in 0 .. N - 1 : z[j] # Vacant => c[j].hash = z[j].hash
    BY <1>8, <2>2
  <2>5. Hollow(N, Held(c), [buckets |-> c, hole |-> i])
    BY <1>10, <1>11, <2>1, <2>3, <2>4, HollowSame
  <2> QED
    BY <1>12, <2>5
<1>15. N <= 2 \/ \E w \in 0 .. N - 1 : w # i /\ c[w] = Vacant
  <2>1. Len(v) < N => \E w \in 0 .. N - 1 : b[w] = Vacant
    BY SoundCounts
  <2> QED
    BY <1>9, <2>1
<1>16. LET r == BackwardShift(c, i)
       IN  r \in Tables(N) /\ Ordered(N, r) /\ Distinct(r) /\ Held(r) = Listing(left)
  BY <1>14, <1>15, ShiftLoop
<1>17. Sound(N, BackwardShift(c, i), left)
  BY <1>4, <1>13, <1>16 DEF Sound
<1> QED
  BY <1>17 DEF c, shifted, left, index

-----------------------------------------------------------------------------
(* erase and unordered_erase                                               *)

\* What removing the value at position j is in terms of the map, and what it is
\* after that value has been swapped with the last one.
LEMMA ErasedIs ==
  ASSUME NEW v \in Seq(Keys), NoneTwice(v), NEW j \in 1 .. Len(v)
  PROVE  /\ Map!Erased(v, v[j]) = RemoveAt(v, j)
         /\ j = Len(v) => Map!Replaced(v, v[j]) = RemoveAt(v, j)
         /\ Map!Replaced(v, v[j])
              = RemoveAt([v EXCEPT ![j] = v[Len(v)], ![Len(v)] = v[j]], Len(v))
<1> DEFINE n == Len(v)
           w == [v EXCEPT ![j] = v[n], ![n] = v[j]]
           r == Map!Replaced(v, v[j])
<1>1. n \in Nat /\ DOMAIN v = 1 .. n /\ n \in 1 .. n /\ j \in Nat
  OBVIOUS
<1>2. v[j] \in Map!Listed(v)
  BY <1>1 DEF Map!Listed
<1>3. Map!Position(v, v[j]) = j
  <2>1. \A i \in 1 .. n : v[i] = v[j] => i = j
    BY DEF NoneTwice
  <2> QED
    BY <1>1, <2>1 DEF Map!Position
<1>4. Map!Erased(v, v[j]) = RemoveAt(v, j)
  BY <1>2, <1>3 DEF Map!Erased, Map!RemoveAt, RemoveAt
<1>5. r = [i \in 1 .. n - 1 |-> IF v[i] = v[j] THEN v[n] ELSE v[i]]
  BY <1>2 DEF Map!Replaced
<1>6. v[n] \in Keys /\ v[j] \in Keys
  BY <1>1
<1>7. w \in Seq(Keys) /\ Len(w) = n
  BY <1>1, <1>6
<1>8. \A i \in 1 .. n - 1 : w[i] = IF i = j THEN v[n] ELSE v[i]
  BY <1>1
<1> HIDE DEF w, r, n
<1>9. /\ RemoveAt(w, n) \in Seq(Keys) /\ Len(RemoveAt(w, n)) = n - 1
      /\ \A i \in 1 .. n - 1 : RemoveAt(w, n)[i] = w[i]
  <2>1. \A i \in 1 .. n - 1 : i < n
    BY <1>1
  <2> QED
    BY <1>1, <1>7, <2>1, Left
<1>10. \A i \in 1 .. n - 1 : (v[i] = v[j]) <=> (i = j)
  BY <1>1 DEF NoneTwice, n
<1>11. RemoveAt(w, n) = [i \in 1 .. n - 1 |-> RemoveAt(w, n)[i]]
  BY <1>1, <1>9
<1>12. r = RemoveAt(w, n)
  BY <1>5, <1>8, <1>9, <1>10, <1>11, SMTT(40)
<1>13. ASSUME j = n PROVE r = RemoveAt(v, j)
  <2>1. v \in Seq(Keys) /\ n = Len(v)
    BY DEF n
  <2>2. /\ RemoveAt(v, n) \in Seq(Keys) /\ Len(RemoveAt(v, n)) = n - 1
        /\ \A i \in 1 .. n - 1 : RemoveAt(v, n)[i] = IF i < n THEN v[i] ELSE v[i + 1]
    BY <1>1, <2>1, Left
  <2>3. \A i \in 1 .. n - 1 : RemoveAt(v, n)[i] = IF v[i] = v[j] THEN v[n] ELSE v[i]
    BY <1>1, <1>10, <1>13, <2>2
  <2>4. RemoveAt(v, n) = [i \in 1 .. n - 1 |-> RemoveAt(v, n)[i]]
    BY <1>1, <2>2
  <2> QED
    BY <1>5, <1>13, <2>3, <2>4
<1> QED
  BY <1>4, <1>12, <1>13 DEF n, r, w

\* The table and the values that unordered_erase makes by swapping.
Swapped(b, i, l) == [b EXCEPT ![i].index = b[l].index, ![l].index = b[i].index]

Switched(v, j) == [v EXCEPT ![j] = v[Len(v)], ![Len(v)] = v[j]]

\* unordered_erase swaps a value with the last one, and their indexes: that is a table
\* of the values in their new places.
LEMMA SwapKeeps ==
  ASSUME NEW N \in Nat \ {0}, NEW b, NEW v, Sound(N, b, v),
         NEW j \in 1 .. Len(v), j # Len(v),
         NEW i \in 0 .. N - 1, b[i] = Entry(j - 1, Hash[v[j]]),
         NEW l \in 0 .. N - 1, b[l] = Entry(Len(v) - 1, Hash[v[Len(v)]])
  PROVE  LET c == Swapped(b, i, l)
             w == Switched(v, j)
         IN  /\ Sound(N, c, w) /\ Len(w) = Len(v)
             /\ c[i] # Vacant /\ c[i].index = Len(v) - 1
<1> DEFINE n == Len(v)
           c == Swapped(b, i, l)
           w == Switched(v, j)
<1>1. /\ v \in Seq(Keys) /\ n \in Nat /\ NoneTwice(v) /\ DOMAIN v = 1 .. n
      /\ b \in Tables(N) /\ DOMAIN b = 0 .. N - 1 /\ Ordered(N, b) /\ Distinct(b)
      /\ Held(b) = Listing(v)
  BY InTable DEF Sound
<1> HIDE DEF c, w
<1> j \in 1 .. n /\ j # n
  OBVIOUS
<1> b[i] = Entry(j - 1, Hash[v[j]]) /\ b[l] = Entry(n - 1, Hash[v[n]])
  OBVIOUS
<1> HIDE DEF n
<1>2. n \in 1 .. n /\ n - 1 \in Nat /\ j - 1 \in Nat /\ j - 1 # n - 1
  BY <1>1
<1>3. v[j] \in Keys /\ v[n] \in Keys
  <2>1. \A m \in 1 .. Len(v) : v[m] \in Keys
    BY <1>1
  <2> QED
    BY <1>2, <2>1 DEF n
<1>4. /\ b[i] \in Entries /\ b[i].index = j - 1 /\ b[i].hash = Truncated(Hash[v[j]])
      /\ b[l] \in Entries /\ b[l].index = n - 1 /\ b[l].hash = Truncated(Hash[v[n]])
  <2> DEFINE e == Entry(j - 1, Hash[v[j]])
             z == Entry(n - 1, Hash[v[n]])
  <2>1. e \in Entries /\ e.index = j - 1 /\ e.hash = Truncated(Hash[v[j]])
    BY <1>2, <1>3, EntryType
  <2>2. z \in Entries /\ z.index = n - 1 /\ z.hash = Truncated(Hash[v[n]])
    BY <1>2, <1>3, EntryType
  <2>3. b[i] = e /\ b[l] = z
    OBVIOUS
  <2> HIDE DEF e, z
  <2> QED
    BY <2>1, <2>2, <2>3
<1>5. i # l /\ b[i] # Vacant /\ b[l] # Vacant
  BY <1>2, <1>4, VacantAssumption DEF Entries
<1>6. w \in Seq(Keys) /\ Len(w) = n
  <2>1. [v EXCEPT ![j] = v[n]] \in Seq(Keys) /\ Len([v EXCEPT ![j] = v[n]]) = n
    BY <1>1, <1>3 DEF n
  <2> QED
    BY <1>2, <1>3, <2>1 DEF w, n, Switched
<1>7. w[j] = v[n] /\ w[n] = v[j] /\ \A m \in 1 .. n : m # j /\ m # n => w[m] = v[m]
  BY <1>1, <1>2 DEF w, n, Switched
<1>8. c[i] = [b[i] EXCEPT !.index = n - 1]
  BY <1>1, <1>4, <1>5 DEF c, Swapped
<1>9. c[l] = [b[l] EXCEPT !.index = j - 1]
  BY <1>1, <1>4, <1>5 DEF c, Swapped
<1>10. \A m \in 0 .. N - 1 : m # i /\ m # l => c[m] = b[m]
  BY <1>1 DEF c, Swapped
<1>11. DOMAIN c = 0 .. N - 1 /\ c = [m \in 0 .. N - 1 |-> c[m]]
  BY <1>1 DEF c, Swapped
<1>12. /\ c[i] \in Entries /\ c[i].index = n - 1 /\ c[i].hash = b[i].hash
       /\ c[i] = Entry(n - 1, Hash[w[n]])
  <2>1. c[i] = [index |-> n - 1, hash |-> b[i].hash]
    BY <1>4, <1>8 DEF Entries
  <2>2. b[i].hash \in Nat
    BY <1>4 DEF Entries
  <2> QED
    BY <1>2, <1>4, <1>7, <2>1, <2>2 DEF Entries, Entry
<1>13. /\ c[l] \in Entries /\ c[l].index = j - 1 /\ c[l].hash = b[l].hash
       /\ c[l] = Entry(j - 1, Hash[w[j]])
  <2>1. c[l] = [index |-> j - 1, hash |-> b[l].hash]
    BY <1>4, <1>9 DEF Entries
  <2>2. b[l].hash \in Nat
    BY <1>4 DEF Entries
  <2> QED
    BY <1>2, <1>4, <1>7, <2>1, <2>2 DEF Entries, Entry
<1>14. c[i] # Vacant /\ c[l] # Vacant
  BY <1>12, <1>13, VacantAssumption DEF Entries
<1>15. c \in Tables(N)
  <2>1. \A m \in 0 .. N - 1 : c[m] \in {Vacant} \cup Entries
    BY <1>1, <1>10, <1>12, <1>13, InTable
  <2> QED
    BY <1>11, <2>1 DEF Tables
<1>16. \A m \in 0 .. N - 1 : c[m] = Vacant <=> b[m] = Vacant
  BY <1>5, <1>10, <1>14
<1>17. \A m \in 0 .. N - 1 : c[m] # Vacant => Far(N, c[m], m) = Far(N, b[m], m)
  BY <1>10, <1>12, <1>13 DEF Far
<1>18. Ordered(N, c)
  <2> SUFFICES ASSUME NEW m \in 0 .. N - 1 PROVE OrderedAt(N, c, m)
    BY DEF Ordered
  <2>1. OrderedAt(N, b, m) /\ Before(N, m) \in 0 .. N - 1
    BY <1>1, Circle DEF Ordered
  <2> QED
    BY <1>16, <1>17, <2>1 DEF OrderedAt
<1> DEFINE x(m) == IF m = i THEN l ELSE IF m = l THEN i ELSE m
<1>19. ASSUME NEW m \in 0 .. N - 1, c[m] # Vacant
       PROVE  x(m) \in 0 .. N - 1 /\ b[x(m)] # Vacant /\ c[m].index = b[x(m)].index
  BY <1>4, <1>5, <1>10, <1>12, <1>13, <1>19
<1>20. ASSUME NEW m \in 0 .. N - 1, NEW o \in 0 .. N - 1, x(m) = x(o) PROVE m = o
  BY <1>5, <1>20
<1> HIDE DEF x
<1>21. Distinct(c)
  <2> SUFFICES ASSUME NEW m \in 0 .. N - 1, NEW o \in 0 .. N - 1,
                      c[m] # Vacant, c[o] # Vacant, c[m].index = c[o].index
               PROVE  m = o
    BY <1>11 DEF Distinct
  <2>1. x(m) = x(o)
    BY <1>1, <1>19 DEF Distinct
  <2> QED
    BY <1>20, <2>1
<1>22. Held(c) = Listing(w)
  <2>1. ASSUME NEW m \in 0 .. N - 1, c[m] # Vacant PROVE c[m] \in Listing(w)
    <3>1. CASE m = i
      BY <1>2, <1>6, <1>12, <3>1 DEF Listing
    <3>2. CASE m = l
      <4>1. j \in 1 .. Len(w)
        BY <1>6 DEF n
      <4> QED
        BY <1>13, <3>2, <4>1 DEF Listing
    <3>3. CASE m # i /\ m # l
      <4> DEFINE y == b[m].index
      <4>1. c[m] = b[m] /\ b[m] # Vacant
        BY <1>10, <2>1, <3>3
      <4>2. y + 1 \in 1 .. n /\ y \in Nat /\ b[m] = Entry(y, Hash[v[y + 1]])
        BY <4>1, SoundEntries DEF n
      <4>3. y # j - 1 /\ y # n - 1
        BY <1>1, <1>4, <1>5, <3>3, <4>1 DEF Distinct
      <4> HIDE DEF y
      <4>4. y + 1 # j /\ y + 1 # n /\ (y + 1) - 1 = y
        <5>1. y \in Int /\ j \in Int /\ n \in Int
          BY <1>1, <4>2
        <5>2. \A p, q \in Int : p # q - 1 => p + 1 # q
          OBVIOUS
        <5> QED
          BY <4>3, <5>1, <5>2
      <4>5. w[y + 1] = v[y + 1]
        BY <1>7, <4>2, <4>4
      <4>6. c[m] = Entry((y + 1) - 1, Hash[w[y + 1]])
        BY <4>1, <4>2, <4>4, <4>5
      <4> QED
        BY <1>6, <4>2, <4>6 DEF Listing
    <3> QED
      BY <3>1, <3>2, <3>3
  <2>2. ASSUME NEW m \in 1 .. n PROVE Entry(m - 1, Hash[w[m]]) \in Held(c)
    <3>1. CASE m = j
      BY <1>11, <1>13, <1>14, <3>1 DEF Held
    <3>2. CASE m = n
      BY <1>11, <1>12, <1>14, <3>2 DEF Held
    <3>3. CASE m # j /\ m # n
      <4>1. \A y \in 1 .. n : \E o \in 0 .. N - 1 : b[o] = Entry(y - 1, Hash[v[y]]) /\ b[o] # Vacant
        BY SoundEntries DEF n
      <4>2. PICK o \in 0 .. N - 1 : b[o] = Entry(m - 1, Hash[v[m]]) /\ b[o] # Vacant
        BY <4>1
      <4>3. v[m] \in Keys /\ m - 1 \in Nat
        BY <1>1
      <4>4. b[o].index = m - 1
        BY <4>2, <4>3, EntryType
      <4>5. o # i /\ o # l
        BY <1>1, <1>2, <1>4, <3>3, <4>4
      <4>6. c[o] = Entry(m - 1, Hash[w[m]]) /\ c[o] # Vacant
        BY <1>7, <1>10, <3>3, <4>2, <4>5
      <4> QED
        BY <1>11, <4>6 DEF Held
    <3> QED
      BY <3>1, <3>2, <3>3
  <2>3. ASSUME NEW e \in Held(c) PROVE e \in Listing(w)
    <3>1. PICK m \in 0 .. N - 1 : e = c[m] /\ e # Vacant
      BY <1>11, <2>3 DEF Held
    <3> QED
      BY <2>1, <3>1
  <2> QED
    BY <1>6, <2>2, <2>3 DEF Listing
<1>23. NoneTwice(w)
  <2> DEFINE y(m) == IF m = j THEN n ELSE IF m = n THEN j ELSE m
  <2> SUFFICES ASSUME NEW m \in 1 .. n, NEW o \in 1 .. n, w[m] = w[o]
               PROVE  m = o
    BY <1>6 DEF NoneTwice
  <2>2. y(m) \in 1 .. n /\ w[m] = v[y(m)] /\ y(o) \in 1 .. n /\ w[o] = v[y(o)]
        /\ (y(m) = y(o) => m = o)
    BY <1>2, <1>7
  <2> HIDE DEF y
  <2> QED
    BY <1>1, <2>2, ZenonT(60) DEF NoneTwice, n
<1>24. Sound(N, c, w)
  BY <1>6, <1>15, <1>18, <1>21, <1>22, <1>23 DEF Sound
<1> QED
  BY <1>6, <1>12, <1>14, <1>24 DEF c, w, n

-----------------------------------------------------------------------------
(* The invariant, and the operations                                       *)

\* The table is healthy, and within its bounds.
HashInv ==
  /\ Healthy(Table, m_max_load_factor)
  /\ Count(m_buckets) <= MaxBuckets
  /\ m_max_load_factor \in LoadFactors \cup {15}

\* What the invariant says of the variables.
LEMMA InvParts ==
  ASSUME HashInv
  PROVE  /\ m_max_load_factor \in 2 .. 19
         /\ Table \in TableRecords
         /\ Table.values = m_values /\ Table.buckets = m_buckets
         /\ Table.threshold = m_load_threshold /\ Table.grow = m_grow_on_next_insert
         /\ m_values \in Seq(Keys) /\ Len(m_values) \in Nat /\ Len(m_values) <= MaxValues
         /\ NoneTwice(m_values)
         /\ Count(m_buckets) \in Nat /\ Count(m_buckets) \in Counts
         /\ m_buckets \in Tables(Count(m_buckets))
         /\ Sound(Count(m_buckets), m_buckets, m_values)
         /\ m_load_threshold \in {0, LoadThreshold(m_buckets, m_max_load_factor)}
         /\ m_grow_on_next_insert \in BOOLEAN
<1>1. m_max_load_factor \in 2 .. 19
  BY FactorAssumption DEF HashInv
<1>2. /\ Table.values = m_values /\ Table.buckets = m_buckets
      /\ Table.threshold = m_load_threshold /\ Table.grow = m_grow_on_next_insert
  BY DEF Table
<1>3. Healthy(Table, m_max_load_factor) /\ Table \in TableRecords
  BY DEF HashInv, Healthy
<1>4. /\ m_values \in Seq(Keys) /\ Len(m_values) \in Nat
      /\ Count(m_buckets) \in Nat /\ m_buckets \in Tables(Count(m_buckets))
      /\ m_grow_on_next_insert \in BOOLEAN
  BY <1>2, <1>3, RecordParts
<1>5. /\ Len(m_values) <= MaxValues /\ Count(m_buckets) \in Counts
      /\ Sound(Count(m_buckets), m_buckets, m_values)
      /\ m_load_threshold \in {0, LoadThreshold(m_buckets, m_max_load_factor)}
  BY <1>2, <1>3 DEF Healthy
<1> QED
  BY <1>1, <1>2, <1>3, <1>4, <1>5 DEF Sound

\* A record of other values and other buckets.
LEMMA RecordWith ==
  ASSUME NEW p, NEW q, NEW h, NEW g, NEW t,
         t = [values |-> p, buckets |-> q, threshold |-> h, grow |-> g], NEW x, NEW y,
         NEW o, o = [t EXCEPT !.values = x, !.buckets = y]
  PROVE  o = [values |-> x, buckets |-> y, threshold |-> h, grow |-> g]
OBVIOUS

\* The table with other values and other buckets.
LEMMA TableWith ==
  ASSUME NEW x, NEW y, NEW o, o = [Table EXCEPT !.values = x, !.buckets = y]
  PROVE  o = [values |-> x, buckets |-> y, threshold |-> m_load_threshold,
              grow |-> m_grow_on_next_insert]
<1>1. Table = [values |-> m_values, buckets |-> m_buckets, threshold |-> m_load_threshold,
               grow |-> m_grow_on_next_insert]
  BY DEF Table
<1> QED
  BY <1>1, RecordWith

\* A step to a healthy table keeps the invariant.
LEMMA Becoming ==
  ASSUME HashInv, NEW t, Healthy(t, m_max_load_factor), Becomes(t)
  PROVE  HashInv' /\ m_values' = t.values
<1>1. t \in TableRecords
  BY DEF Healthy
<1>2. t = [values |-> t.values, buckets |-> t.buckets, threshold |-> t.threshold,
           grow |-> t.grow]
  BY <1>1, RecordParts
<1>3. Table' = t /\ m_buckets' = t.buckets /\ m_max_load_factor' = m_max_load_factor
      /\ m_values' = t.values /\ Count(t.buckets) <= MaxBuckets
  BY <1>2 DEF Becomes, Table
<1>4. Healthy(Table, m_max_load_factor)'
  BY <1>3 DEF Healthy
<1>5. (Count(m_buckets) <= MaxBuckets)'
  BY <1>3 DEF Count
<1>6. (m_max_load_factor \in LoadFactors \cup {15})'
  BY <1>3 DEF HashInv
<1> QED
  BY <1>3, <1>4, <1>5, <1>6 DEF HashInv

\* So does one that changes nothing.
LEMMA Staying ==
  ASSUME HashInv, UNCHANGED hashvars
  PROVE  HashInv' /\ m_values' = m_values
<1>1. Table' = Table /\ m_buckets' = m_buckets /\ m_max_load_factor' = m_max_load_factor
  BY DEF hashvars, Table
<1>2. Healthy(Table, m_max_load_factor)'
  BY <1>1 DEF Healthy, HashInv
<1>3. (Count(m_buckets) <= MaxBuckets)'
  BY <1>1 DEF Count, HashInv
<1>4. (m_max_load_factor \in LoadFactors \cup {15})'
  BY <1>1 DEF HashInv
<1> QED
  BY <1>2, <1>3, <1>4 DEF HashInv, hashvars

\* There is no power of two between two and four.
LEMMA SmallCounts ==
  ASSUME NEW N \in Counts, N < 4
  PROVE  N <= 2
<1>1. CASE N = 0
  BY <1>1
<1>2. CASE N # 0
  <2>1. PICK j \in Nat : N = TwoTo[j]
    BY <1>2 DEF Counts
  <2>2. CASE j >= 2
    <3>1. j - 1 \in Nat /\ (j - 1) + 1 = j
      BY <2>2
    <3>2. TwoTo[j] = 2 * TwoTo[j - 1] /\ TwoTo[j - 1] \in Nat /\ TwoTo[j - 1] > j - 1
      BY <3>1, Powers
    <3>3. TwoTo[j] >= 4
      BY <2>2, <3>2
    <3> QED
      BY <2>1, <3>2, <3>3
  <2>3. CASE j < 2
    <3>1. j = 0 \/ j = 1
      BY <2>3
    <3>2. TwoTo[0] = 1 /\ TwoTo[0 + 1] = 2 * TwoTo[0]
      BY Powers
    <3> QED
      BY <2>1, <3>1, <3>2
  <2> QED
    BY <2>2, <2>3
<1> QED
  BY <1>1, <1>2

\* erase_value_from_bucket, on the table as it is or on one that has been swapped.
LEMMA EraseValueKeeps ==
  ASSUME HashInv, NEW b, NEW v, Sound(Count(m_buckets), b, v), Len(v) = Len(m_values),
         NEW i \in 0 .. Count(m_buckets) - 1, b[i] # Vacant, EraseValue(b, v, i)
  PROVE  HashInv' /\ m_values' = RemoveAt(v, b[i].index + 1)
<1> DEFINE N       == Count(m_buckets)
           f       == m_max_load_factor
           index   == b[i].index
           left    == RemoveAt(v, index + 1)
           shifted == IF index # Len(left) THEN ShiftIndexes(b, left, index, -1) ELSE b
           c       == BackwardShift([shifted EXCEPT ![i] = Vacant], i)
           o       == [Table EXCEPT !.values = left, !.buckets = c]
<1>1. /\ N \in Nat /\ N \in Counts /\ Sound(N, m_buckets, m_values)
      /\ Table \in TableRecords /\ Len(m_values) \in Nat
      /\ m_load_threshold \in Nat /\ m_grow_on_next_insert \in BOOLEAN
      /\ Len(m_values) <= MaxValues
      /\ m_buckets \in Tables(N)
      /\ m_load_threshold \in {0, LoadThreshold(m_buckets, f)}
  <2>1. Table \in TableRecords /\ Table.threshold = m_load_threshold
    BY InvParts
  <2>2. m_load_threshold \in Nat
    BY <2>1, RecordParts
  <2> QED
    BY <2>1, <2>2, InvParts
<1>2. MaxValues \in Nat
  BY HashAssumption
<1>3. N >= 4 => Len(m_values) < N
  BY DEF HashInv, Healthy, Table
<1>4. N <= 2 \/ Len(v) < N
  <2>1. N < 4 => N <= 2
    BY <1>1, SmallCounts
  <2> QED
    BY <1>1, <1>3, <2>1
<1>5. Becomes(o)
  BY DEF EraseValue
<1>6. o = [values |-> left, buckets |-> c, threshold |-> m_load_threshold,
           grow |-> m_grow_on_next_insert]
  <2>1. o = [Table EXCEPT !.values = left, !.buckets = c]
    OBVIOUS
  <2> HIDE DEF o, left, c
  <2> QED
    BY <2>1, TableWith
<1> HIDE DEF o
<1>7. N \in Nat \ {0} /\ i \in 0 .. N - 1 /\ Sound(N, b, v)
  BY <1>1
<1> HIDE DEF N
<1>8. Sound(N, c, left)
  BY <1>4, <1>7, EraseKeeps
<1>9. index + 1 \in 1 .. Len(v) /\ v \in Seq(Keys) /\ Len(v) \in Nat
  BY <1>7, SoundEntries DEF Sound
<1> HIDE DEF c, shifted, index
<1>10. left \in Seq(Keys) /\ Len(left) = Len(v) - 1
  BY <1>9, Left
<1> HIDE DEF left
<1>11. c \in Tables(N) /\ Count(c) = N
  BY <1>1, <1>8, InTable DEF Sound
<1>12. o \in TableRecords
  BY <1>1, <1>6, <1>10, <1>11, WithBuckets
<1>13. o.values = left /\ o.buckets = c /\ o.threshold = m_load_threshold
  BY <1>6
<1>14. LoadThreshold(c, f) = LoadThreshold(m_buckets, f)
  BY <1>11 DEF LoadThreshold, N
<1>15. Len(left) <= MaxValues /\ (N >= 4 => Len(left) < N)
  BY <1>1, <1>2, <1>3, <1>9, <1>10
<1>16. Healthy(o, f)
  BY <1>1, <1>8, <1>11, <1>12, <1>13, <1>14, <1>15 DEF Healthy
<1>17. HashInv' /\ m_values' = left
  BY <1>5, <1>13, <1>16, Becoming
<1> QED
  BY <1>17 DEF left, index

\* What find_key finds.
LEMMA ProbeHits ==
  ASSUME HashInv, NEW k \in Keys
  PROVE  LET p == Probe(m_buckets, m_values, k)
         IN  /\ p.found <=> \E j \in 1 .. Len(m_values) : m_values[j] = k
             /\ \A j \in 1 .. Len(m_values) : m_values[j] = k =>
                  /\ p.bucket \in 0 .. Count(m_buckets) - 1
                  /\ m_buckets[p.bucket] = Entry(j - 1, Hash[k])
                  /\ m_buckets[p.bucket] # Vacant
                  /\ m_buckets[p.bucket].index = j - 1
<1> DEFINE N == Count(m_buckets)
<1>1. N \in Nat /\ N \in Counts /\ N <= MaxBuckets /\ Sound(N, m_buckets, m_values)
  BY InvParts DEF HashInv
<1>2. m_values \in Seq(Keys)
  BY InvParts
<1> HIDE DEF N
<1>3. Probe(m_buckets, m_values, k).found <=> \E j \in 1 .. Len(m_values) : m_values[j] = k
  BY <1>1, ProbeFinds
<1>4. ASSUME NEW j \in 1 .. Len(m_values), m_values[j] = k
      PROVE  LET p == Probe(m_buckets, m_values, k)
             IN  /\ p.bucket \in 0 .. N - 1
                 /\ m_buckets[p.bucket] = Entry(j - 1, Hash[k])
                 /\ m_buckets[p.bucket] # Vacant
                 /\ m_buckets[p.bucket].index = j - 1
  <2>1. \A l \in 1 .. Len(m_values) : \E i \in 0 .. N - 1 :
          m_buckets[i] = Entry(l - 1, Hash[m_values[l]]) /\ m_buckets[i] # Vacant
    BY <1>1, SoundEntries
  <2>2. PICK i \in 0 .. N - 1 :
          m_buckets[i] = Entry(j - 1, Hash[m_values[j]]) /\ m_buckets[i] # Vacant
    BY <2>1
  <2>3. N \in Nat \ {0} /\ N \in Sizes
    BY <1>1, <2>2, InSizes DEF Counts, Sizes
  <2>4. Probe(m_buckets, m_values, m_values[j]).bucket = i
    BY <1>1, <2>2, <2>3, FoundProbe
  <2>5. j - 1 \in Nat
    OBVIOUS
  <2>6. m_buckets[i].index = j - 1
    BY <1>4, <2>2, <2>5, EntryType
  <2> QED
    BY <1>4, <2>2, <2>4, <2>6
<1> QED
  BY <1>3, <1>4 DEF N

\* erase(key)
LEMMA EraseStep ==
  ASSUME HashInv, NEW k \in Keys, Erase(k)
  PROVE  HashInv' /\ m_values' = Map!Erased(m_values, k)
<1> DEFINE p == Probe(m_buckets, m_values, k)
<1>1. /\ m_values \in Seq(Keys) /\ NoneTwice(m_values) /\ DOMAIN m_values = 1 .. Len(m_values)
      /\ Sound(Count(m_buckets), m_buckets, m_values)
  BY InvParts
<1>2. CASE p.found
  <2>1. PICK j \in 1 .. Len(m_values) : m_values[j] = k
    BY <1>2, ProbeHits
  <2>2. /\ p.bucket \in 0 .. Count(m_buckets) - 1 /\ m_buckets[p.bucket] # Vacant
        /\ m_buckets[p.bucket].index = j - 1
    BY <2>1, ProbeHits
  <2>3. EraseValue(m_buckets, m_values, p.bucket)
    BY <1>2 DEF Erase
  <2> HIDE DEF p
  <2>4. HashInv' /\ m_values' = RemoveAt(m_values, m_buckets[p.bucket].index + 1)
    BY <1>1, <2>2, <2>3, EraseValueKeeps
  <2>5. Map!Erased(m_values, m_values[j]) = RemoveAt(m_values, j)
    BY <1>1, ErasedIs
  <2>6. (j - 1) + 1 = j
    OBVIOUS
  <2> QED
    BY <2>1, <2>2, <2>4, <2>5, <2>6
<1>3. CASE ~p.found
  <2>1. \A j \in 1 .. Len(m_values) : m_values[j] # k
    BY <1>3, ProbeHits
  <2>2. Map!Erased(m_values, k) = m_values
    BY <1>1, <2>1 DEF Map!Erased, Map!Listed
  <2>3. UNCHANGED hashvars
    BY <1>3 DEF Erase
  <2> QED
    BY <2>2, <2>3, Staying
<1> QED
  BY <1>2, <1>3

\* unordered_erase(key)
LEMMA UnorderedEraseStep ==
  ASSUME HashInv, NEW k \in Keys, UnorderedErase(k)
  PROVE  HashInv' /\ m_values' = Map!Replaced(m_values, k)
<1> DEFINE p    == Probe(m_buckets, m_values, k)
           n    == Len(m_values)
           at   == m_buckets[p.bucket].index
           last == Probe(m_buckets, m_values, m_values[n]).bucket
           c    == [m_buckets EXCEPT ![p.bucket].index = m_buckets[last].index,
                                     ![last].index = at]
           w    == [m_values EXCEPT ![at + 1] = m_values[n], ![n] = k]
<1>1. /\ m_values \in Seq(Keys) /\ NoneTwice(m_values) /\ DOMAIN m_values = 1 .. n
      /\ Sound(Count(m_buckets), m_buckets, m_values) /\ Count(m_buckets) \in Nat
  BY InvParts
<1>2. CASE ~p.found
  <2>1. \A j \in 1 .. n : m_values[j] # k
    BY <1>2, ProbeHits, SMTT(40)
  <2>2. Map!Replaced(m_values, k) = m_values
    BY <1>1, <2>1 DEF Map!Replaced, Map!Listed
  <2>3. UNCHANGED hashvars
    BY <1>2 DEF UnorderedErase
  <2> QED
    BY <2>2, <2>3, Staying
<1>3. CASE p.found
  <2>1. PICK j \in 1 .. n : m_values[j] = k
    BY <1>3, ProbeHits
  <2>2. /\ p.bucket \in 0 .. Count(m_buckets) - 1 /\ m_buckets[p.bucket] # Vacant
        /\ at = j - 1 /\ m_buckets[p.bucket] = Entry(j - 1, Hash[k])
    BY <2>1, ProbeHits
  <2>3. n \in 1 .. n /\ (j - 1) + 1 = j /\ n - 1 \in Nat /\ (n - 1) + 1 = n
    BY <1>1
  <2>4. /\ Map!Replaced(m_values, m_values[j])
             = RemoveAt([m_values EXCEPT ![j] = m_values[n], ![n] = m_values[j]], n)
        /\ j = n => Map!Replaced(m_values, m_values[j]) = RemoveAt(m_values, j)
    BY <1>1, ErasedIs
  <2>5. CASE m_values[n] = k
    <3>1. j = n
      BY <2>1, <2>3, <2>5, <1>1 DEF NoneTwice
    <3>2. EraseValue(m_buckets, m_values, p.bucket)
      BY <1>3, <2>5 DEF UnorderedErase
    <3> HIDE DEF p, at
    <3>3. HashInv' /\ m_values' = RemoveAt(m_values, m_buckets[p.bucket].index + 1)
      BY <1>1, <2>2, <3>2, EraseValueKeeps
    <3> QED
      BY <2>1, <2>2, <2>3, <2>4, <3>1, <3>3 DEF at
  <2>6. CASE m_values[n] # k
    <3>1. j # n
      BY <2>1, <2>6
    <3>2. EraseValue(c, w, p.bucket)
      BY <1>3, <2>6 DEF UnorderedErase
    <3>3. m_values[n] \in Keys
      BY <1>1, <2>3
    <3>4. last \in 0 .. Count(m_buckets) - 1 /\ m_buckets[last] = Entry(n - 1, Hash[m_values[n]])
      BY <2>3, <3>3, ProbeHits
    <3>5. c = [m_buckets EXCEPT ![p.bucket].index = m_buckets[last].index,
                                ![last].index = m_buckets[p.bucket].index]
          /\ w = [m_values EXCEPT ![j] = m_values[n], ![n] = m_values[j]]
      BY <2>1, <2>2, <2>3
    <3>6. m_buckets[p.bucket] = Entry(j - 1, Hash[m_values[j]])
      BY <2>1, <2>2
    <3>7. Count(m_buckets) \in Nat \ {0}
      BY <1>1, <2>2
    <3> HIDE DEF p, at, last, c, w
    <3>8. /\ Sound(Count(m_buckets), c, w) /\ Len(w) = n
          /\ c[p.bucket] # Vacant /\ c[p.bucket].index = n - 1
      <4> DEFINE N == Count(m_buckets)
                 i == p.bucket
      <4>1. /\ N \in Nat \ {0} /\ Sound(N, m_buckets, m_values) /\ i \in 0 .. N - 1
            /\ m_buckets[i] = Entry(j - 1, Hash[m_values[j]])
            /\ last \in 0 .. N - 1 /\ m_buckets[last] = Entry(n - 1, Hash[m_values[n]])
            /\ c = Swapped(m_buckets, i, last)
        BY <1>1, <2>2, <3>4, <3>5, <3>6, <3>7 DEF Swapped
      <4> HIDE DEF N, i
      <4>3. Sound(N, c, w) /\ Len(w) = n /\ c[i] # Vacant /\ c[i].index = n - 1
        <5>1. w = Switched(m_values, j)
          BY <3>5 DEF Switched
        <5> QED
          BY <3>1, <4>1, <5>1, SwapKeeps
      <4> QED
        BY <4>3 DEF N, i
    <3>9. HashInv' /\ m_values' = RemoveAt(w, c[p.bucket].index + 1)
      BY <2>2, <3>2, <3>8, EraseValueKeeps
    <3> QED
      BY <2>1, <2>3, <2>4, <3>5, <3>8, <3>9
  <2> QED
    BY <2>5, <2>6
<1> QED
  BY <1>2, <1>3

\* A table of vacant buckets is that of no values.
LEMMA NoValues ==
  ASSUME NEW N \in Nat
  PROVE  /\ Sound(N, VacantTable(N), <<>>) /\ VacantTable(N) \in Tables(N)
         /\ Count(VacantTable(N)) = N
<1>1. Listing(<<>>) = {} /\ NoneTwice(<<>>) /\ <<>> \in Seq(Keys)
  BY DEF Listing, NoneTwice
<1>2. /\ VacantTable(N) \in Tables(N) /\ Ordered(N, VacantTable(N))
      /\ Distinct(VacantTable(N)) /\ Held(VacantTable(N)) = {}
      /\ Count(VacantTable(N)) = N
  BY VacantTables
<1> QED
  BY <1>1, <1>2 DEF Sound

\* A table of no values is healthy.
LEMMA HealthyWithout ==
  ASSUME NEW f, NEW N \in Nat, N \in Counts, NEW h \in Nat, h \in {0, LoadThreshold(VacantTable(N), f)}
  PROVE  LET t == [values |-> <<>>, buckets |-> VacantTable(N), threshold |-> h, grow |-> FALSE]
         IN  Healthy(t, f) /\ t.values = <<>>
<1> DEFINE b == VacantTable(N)
           t == [values |-> <<>>, buckets |-> b, threshold |-> h, grow |-> FALSE]
<1>1. Sound(N, b, <<>>) /\ b \in Tables(N) /\ Count(b) = N
  BY NoValues
<1> HIDE DEF b
<1>2. t.values = <<>> /\ t.buckets = b /\ t.threshold = h
  OBVIOUS
<1>3. <<>> \in Seq(Keys) /\ FALSE \in BOOLEAN
  OBVIOUS
<1>4. t \in TableRecords
  BY <1>1, <1>3 DEF TableRecords
<1> HIDE DEF t
<1>5. Len(t.values) = 0 /\ MaxValues \in Nat
  BY <1>2, HashAssumption
<1>6. Healthy(t, f)
  <2>1. Count(t.buckets) = N /\ Sound(Count(t.buckets), t.buckets, t.values)
    BY <1>1, <1>2
  <2>2. Len(t.values) <= MaxValues /\ (Count(t.buckets) >= 4 => Len(t.values) < Count(t.buckets))
    BY <1>5, <2>1
  <2>3. t.threshold \in {0, LoadThreshold(t.buckets, f)}
    BY <1>2 DEF b
  <2> QED
    BY <1>4, <2>1, <2>2, <2>3 DEF Healthy
<1> QED
  BY <1>2, <1>6 DEF t, b

\* clear leaves a healthy table of no values.
LEMMA EmptiedKeeps ==
  ASSUME NEW f \in 2 .. 19, NEW t, Healthy(t, f)
  PROVE  Healthy(Emptied(t), f) /\ Emptied(t).values = <<>>
<1> DEFINE N == Count(t.buckets)
           o == Emptied(t)
<1>1. /\ N \in Nat /\ N \in Counts /\ t.buckets \in Tables(N) /\ t.threshold \in Nat
      /\ t.threshold \in {0, LoadThreshold(t.buckets, f)}
      /\ t = [values |-> t.values, buckets |-> t.buckets, threshold |-> t.threshold,
              grow |-> t.grow]
  BY RecordParts DEF Healthy
<1>2. o = [t EXCEPT !.values = <<>>, !.buckets = VacantTable(N), !.grow = FALSE]
  BY DEF Emptied
<1> HIDE DEF o, N
<1>3. o = [values |-> <<>>, buckets |-> VacantTable(N), threshold |-> t.threshold,
           grow |-> FALSE]
  BY <1>1, <1>2
<1>4. Count(VacantTable(N)) = N
  BY <1>1, NoValues
<1>5. LoadThreshold(t.buckets, f) = LoadThreshold(VacantTable(N), f)
  BY <1>4 DEF LoadThreshold, N
<1>6. Healthy(o, f) /\ o.values = <<>>
  BY <1>1, <1>3, <1>5, HealthyWithout
<1> QED
  BY <1>6 DEF o

\* insert(key)
LEMMA InsertStep ==
  ASSUME HashInv, NEW k \in Keys, Insert(k)
  PROVE  HashInv' /\ (m_values' = Map!Inserted(m_values, k) \/ m_values' = m_values)
<1> DEFINE o == Placed(Table, k, Len(m_values))
<1>1. /\ m_max_load_factor \in 2 .. 19 /\ Healthy(Table, m_max_load_factor)
      /\ Table.values = m_values /\ Table.buckets = m_buckets
      /\ Count(m_buckets) <= MaxBuckets /\ m_values \in Seq(Keys)
      /\ DOMAIN m_values = 1 .. Len(m_values)
  BY InvParts DEF HashInv
<1>2. Becomes(o)
  BY DEF Insert
<1>3. Count(o.buckets) <= MaxBuckets
  BY <1>2 DEF Becomes
<1>4. o = Placed(Table, k, Len(Table.values))
  BY <1>1
<1> HIDE DEF o
<1>5. /\ Healthy(o, m_max_load_factor)
      /\ o.values = IF (\E j \in 1 .. Len(m_values) : m_values[j] = k) \/ Len(m_values) >= MaxValues
                    THEN m_values ELSE Append(m_values, k)
  BY <1>1, <1>3, <1>4, PlacedKeeps
<1>6. HashInv' /\ m_values' = o.values
  BY <1>2, <1>5, Becoming
<1>7. (\E j \in 1 .. Len(m_values) : m_values[j] = k) <=> k \in Map!Listed(m_values)
  BY <1>1 DEF Map!Listed
<1> QED
  BY <1>5, <1>6, <1>7 DEF Map!Inserted

\* insert(first, last)
LEMMA InsertAllStep ==
  ASSUME HashInv, NEW s \in Ranges, InsertAll(s)
  PROVE  HashInv' /\ Map!InsertKeys(s)
<1>1. /\ m_max_load_factor \in 2 .. 19 /\ Healthy(Table, m_max_load_factor)
      /\ Table.values = m_values
  BY InvParts DEF HashInv
<1>2. s \in Seq(Keys)
  BY HashAssumption
<1> DEFINE o == InsertedAll(Table, s)
<1>3. Becomes(o)
  BY DEF InsertAll
<1>4. Count(o.buckets) <= MaxBuckets
  BY <1>3 DEF Becomes
<1>5. /\ Healthy(o, m_max_load_factor)
      /\ \E m \in 0 .. Len(s) : o.values = Map!Insertions(m_values, s)[m]
  BY <1>1, <1>2, <1>4, InsertedAllKeeps
<1> HIDE DEF o
<1>6. HashInv' /\ m_values' = o.values
  BY <1>3, <1>5, Becoming
<1> QED
  BY <1>5, <1>6 DEF Map!InsertKeys

\* operator= of a list
LEMMA AssignAllStep ==
  ASSUME HashInv, NEW s \in Ranges, AssignAll(s)
  PROVE  HashInv' /\ Map!AssignKeys(s)
<1> DEFINE f == m_max_load_factor
           e == Emptied(Table)
           r == Reserved(e, Len(s))
           o == InsertedAll(r, s)
<1>1. f \in 2 .. 19 /\ Healthy(Table, f)
  BY InvParts DEF HashInv
<1>2. s \in Seq(Keys) /\ Len(s) \in Nat
  BY HashAssumption
<1>3. Healthy(e, f) /\ e.values = <<>>
  BY <1>1, EmptiedKeeps
<1>4. Becomes(o)
  BY DEF AssignAll
<1>5. Count(o.buckets) <= MaxBuckets
  BY <1>4 DEF Becomes
<1> HIDE DEF e
<1>6. Healthy(r, f) /\ r.values = <<>>
  BY <1>1, <1>2, <1>3, AmpleKeeps
<1> HIDE DEF r
<1>7. /\ Healthy(o, f)
      /\ \E m \in 0 .. Len(s) : o.values = Map!Insertions(<<>>, s)[m]
  BY <1>1, <1>2, <1>5, <1>6, InsertedAllKeeps
<1> HIDE DEF o
<1>8. HashInv' /\ m_values' = o.values
  BY <1>4, <1>7, Becoming
<1> QED
  BY <1>7, <1>8 DEF Map!AssignKeys

\* clear, and the table that was moved from
LEMMA ClearStep ==
  ASSUME HashInv, Clear \/ MovedFrom
  PROVE  HashInv' /\ m_values' = <<>>
<1>1. m_max_load_factor \in 2 .. 19 /\ Healthy(Table, m_max_load_factor)
  BY InvParts DEF HashInv
<1>2. CASE Clear
  <2>1. Healthy(Emptied(Table), m_max_load_factor) /\ Emptied(Table).values = <<>>
    BY <1>1, EmptiedKeeps
  <2>2. Becomes(Emptied(Table))
    BY <1>2 DEF Clear
  <2> QED
    BY <2>1, <2>2, Becoming
<1>3. CASE MovedFrom
  <2> DEFINE t == [values |-> <<>>, buckets |-> VacantTable(0), threshold |-> 0, grow |-> FALSE]
  <2>1. 0 \in Nat /\ 0 \in Counts /\ 0 \in {0, LoadThreshold(VacantTable(0), m_max_load_factor)}
    BY DEF Counts
  <2>2. Healthy(t, m_max_load_factor) /\ t.values = <<>>
    BY <2>1, HealthyWithout
  <2>3. Becomes(t)
    BY <1>3 DEF MovedFrom
  <2> HIDE DEF t
  <2> QED
    BY <2>2, <2>3, Becoming
<1> QED
  BY <1>2, <1>3

\* max_load_factor(f)
LEMMA MaxLoadFactorStep ==
  ASSUME HashInv, NEW f \in LoadFactors, MaxLoadFactor(f)
  PROVE  HashInv' /\ m_values' = m_values
<1> DEFINE N == Count(m_buckets)
           h == LoadThreshold(m_buckets, f)
           t == [values |-> m_values, buckets |-> m_buckets, threshold |-> h,
                 grow |-> m_grow_on_next_insert]
<1>1. /\ m_values \in Seq(Keys) /\ Len(m_values) <= MaxValues
      /\ N \in Nat /\ N \in Counts /\ m_buckets \in Tables(N)
      /\ Sound(N, m_buckets, m_values) /\ m_grow_on_next_insert \in BOOLEAN
      /\ Table \in TableRecords
  BY InvParts
<1>2. f \in 2 .. 19
  BY FactorAssumption
<1>3. /\ m_values' = m_values /\ m_buckets' = m_buckets /\ m_load_threshold' = h
      /\ m_grow_on_next_insert' = m_grow_on_next_insert /\ m_max_load_factor' = f
  BY DEF MaxLoadFactor
<1>4. Table' = t
  BY <1>3 DEF Table
<1>5. h \in Nat
  <2> HIDE DEF N
  <2>1. LoadThreshold(m_buckets, f) \in 0 .. N
    BY <1>1, <1>2, ThresholdBelow
  <2> QED
    BY <1>1, <2>1
<1>6. N >= 4 => Len(m_values) < N
  BY DEF HashInv, Healthy, Table
<1>7. t.values = m_values /\ t.buckets = m_buckets /\ t.threshold = h
  OBVIOUS
<1> HIDE DEF h
<1>8. t \in TableRecords
  BY <1>1, <1>5, WithBuckets
<1> HIDE DEF t
<1>9. Healthy(t, f)
  BY <1>1, <1>6, <1>7, <1>8 DEF Healthy, h
<1>10. Healthy(Table, m_max_load_factor)'
  BY <1>3, <1>4, <1>9 DEF Healthy
<1>11. (Count(m_buckets) <= MaxBuckets)'
  BY <1>3 DEF HashInv, Count
<1>12. (m_max_load_factor \in LoadFactors \cup {15})'
  BY <1>3
<1> QED
  BY <1>3, <1>10, <1>11, <1>12 DEF HashInv

\* rehash(count) and reserve(count)
LEMMA RehashStep ==
  ASSUME HashInv, NEW count \in Nat, Rehash(count) \/ Reserve(count)
  PROVE  HashInv' /\ m_values' = m_values
<1>1. /\ m_max_load_factor \in 2 .. 19 /\ Healthy(Table, m_max_load_factor)
      /\ Table.values = m_values
  BY InvParts DEF HashInv
<1>2. /\ Healthy(Ample(Table, count), m_max_load_factor)
      /\ Ample(Table, count).values = m_values
      /\ Healthy(Reserved(Table, count), m_max_load_factor)
      /\ Reserved(Table, count).values = m_values
  BY <1>1, AmpleKeeps
<1>3. Becomes(Ample(Table, count)) \/ Becomes(Reserved(Table, count))
  BY DEF Rehash, Reserve
<1> QED
  BY <1>2, <1>3, Becoming

\* deserialize, with the same hash function
LEMMA ReloadCompatibleStep ==
  ASSUME HashInv, ReloadCompatible
  PROVE  HashInv' /\ m_values' = m_values
<1> DEFINE N == Count(m_buckets)
           o == [Table EXCEPT !.threshold = 0, !.grow = FALSE]
<1>1. /\ m_values \in Seq(Keys) /\ Len(m_values) <= MaxValues
      /\ N \in Nat /\ N \in Counts /\ m_buckets \in Tables(N)
      /\ Sound(N, m_buckets, m_values) /\ Table \in TableRecords
  BY InvParts
<1>2. Table = [values |-> m_values, buckets |-> m_buckets, threshold |-> m_load_threshold,
               grow |-> m_grow_on_next_insert]
  BY DEF Table
<1>3. N >= 4 => Len(m_values) < N
  BY DEF HashInv, Healthy, Table
<1>4. Becomes(o)
  BY DEF ReloadCompatible
<1>5. o = [Table EXCEPT !.threshold = 0, !.grow = FALSE]
  OBVIOUS
<1> HIDE DEF o, N
<1>6. o = [values |-> m_values, buckets |-> m_buckets, threshold |-> 0, grow |-> FALSE]
  BY <1>2, <1>5
<1>7. o \in TableRecords
  BY <1>1, <1>6, WithBuckets
<1>8. o.values = m_values /\ o.buckets = m_buckets /\ o.threshold = 0
  BY <1>6
<1>9. Healthy(o, m_max_load_factor)
  BY <1>1, <1>3, <1>7, <1>8 DEF Healthy, N
<1> QED
  BY <1>4, <1>8, <1>9, Becoming

\* deserialize, with any hash function: the values are as they were.
LEMMA ReloadReinsertingStep ==
  ASSUME HashInv, ReloadReinserting
  PROVE  HashInv' /\ m_values' = m_values
<1> DEFINE f     == m_max_load_factor
           fresh == [values |-> <<>>, buckets |-> VacantTable(0), threshold |-> 0, grow |-> FALSE]
           n     == Len(m_values)
           r     == Reserved(fresh, n)
           o     == InsertedEach(r, m_values)
<1>1. /\ f \in 2 .. 19 /\ m_values \in Seq(Keys) /\ n \in Nat /\ n <= MaxValues
      /\ NoneTwice(m_values)
      /\ Count(m_buckets) \in Nat /\ Sound(Count(m_buckets), m_buckets, m_values)
  BY InvParts
<1>2. MaxValues \in Nat
  BY HashAssumption
<1>3. Healthy(fresh, f) /\ fresh.values = <<>>
  <2>1. 0 \in Nat /\ 0 \in Counts /\ 0 \in {0, LoadThreshold(VacantTable(0), f)}
    BY DEF Counts
  <2> QED
    BY <2>1, HealthyWithout
<1>4. Becomes(IF Count(m_buckets) = 0 THEN fresh ELSE o)
  BY DEF ReloadReinserting
<1> HIDE DEF fresh
<1>5. CASE Count(m_buckets) = 0
  <2>1. n <= Count(m_buckets)
    BY <1>1, SoundCounts
  <2>2. m_values = <<>>
    BY <1>1, <1>5, <2>1
  <2>3. Becomes(fresh)
    BY <1>4, <1>5
  <2> QED
    BY <1>3, <2>2, <2>3, Becoming
<1>6. CASE Count(m_buckets) # 0
  <2>1. Becomes(o)
    BY <1>4, <1>6
  <2>2. Count(o.buckets) <= MaxBuckets
    BY <2>1 DEF Becomes
  <2>3. Healthy(r, f) /\ r.values = <<>>
    <3> HIDE DEF n
    <3> QED
      BY <1>1, <1>3, AmpleKeeps
  <2> HIDE DEF r
  <2>4. /\ Healthy(o, f)
        /\ \E m \in 0 .. n : /\ o.values = Map!Insertions(<<>>, m_values)[m]
                             /\ m = n \/ Len(o.values) >= MaxValues
    BY <1>1, <2>2, <2>3, InsertedEachKeeps
  <2> HIDE DEF o
  <2>5. PICK m \in 0 .. n : /\ o.values = Map!Insertions(<<>>, m_values)[m]
                            /\ m = n \/ Len(o.values) >= MaxValues
    BY <2>4
  <2>6. o.values = SubSeq(m_values, 1, m)
    BY <1>1, <2>5, InsertionsCopy
  <2>7. Len(SubSeq(m_values, 1, m)) = m
    BY <1>1
  <2>8. m = n
    BY <1>1, <1>2, <2>5, <2>6, <2>7
  <2>9. SubSeq(m_values, 1, n) = m_values
    BY <1>1
  <2> QED
    BY <2>1, <2>4, <2>6, <2>8, <2>9, Becoming
<1> QED
  BY <1>5, <1>6

-----------------------------------------------------------------------------
(* The theorems                                                            *)

\* The empty table is healthy.
LEMMA HashInitially ==
  HashInit => HashInv /\ Map!MapInit
<1> SUFFICES ASSUME HashInit PROVE HashInv /\ Map!MapInit
  OBVIOUS
<1> DEFINE t == [values |-> <<>>, buckets |-> VacantTable(0), threshold |-> 0, grow |-> FALSE]
<1>1. 0 \in Nat /\ 0 \in Counts /\ 0 \in {0, LoadThreshold(VacantTable(0), m_max_load_factor)}
  BY DEF Counts
<1>2. Healthy(t, m_max_load_factor)
  BY <1>1, HealthyWithout
<1>3. Table = t
  BY DEF HashInit, Table
<1>4. Count(m_buckets) = 0 /\ MaxBuckets \in Nat
  BY <1>1, NoValues, HashAssumption DEF HashInit
<1>5. m_max_load_factor \in LoadFactors \cup {15} /\ m_values = <<>>
  BY DEF HashInit
<1> QED
  BY <1>2, <1>3, <1>4, <1>5 DEF HashInv, Map!MapInit

\* Every operation keeps the invariant, and does to the order of the values what an
\* operation of the map does, or nothing.
LEMMA HashStep ==
  HashInv /\ [HashNext]_hashvars => HashInv' /\ [Map!MapNext]_m_values
<1> SUFFICES ASSUME HashInv, [HashNext]_hashvars PROVE HashInv' /\ [Map!MapNext]_m_values
  OBVIOUS
<1>1. ASSUME NEW k \in Keys, Insert(k) PROVE HashInv' /\ [Map!MapNext]_m_values
  BY <1>1, InsertStep DEF Map!MapNext, Map!InsertKey
<1>2. ASSUME NEW k \in Keys, Erase(k) PROVE HashInv' /\ [Map!MapNext]_m_values
  BY <1>2, EraseStep DEF Map!MapNext, Map!EraseKey
<1>3. ASSUME NEW k \in Keys, UnorderedErase(k) PROVE HashInv' /\ [Map!MapNext]_m_values
  BY <1>3, UnorderedEraseStep DEF Map!MapNext, Map!UnorderedEraseKey
<1>4. ASSUME NEW count \in 0 .. MaxBuckets, Rehash(count) \/ Reserve(count)
      PROVE  HashInv' /\ [Map!MapNext]_m_values
  <2>1. count \in Nat
    BY HashAssumption
  <2> QED
    BY <1>4, <2>1, RehashStep
<1>5. ASSUME NEW s \in Ranges, InsertAll(s) PROVE HashInv' /\ [Map!MapNext]_m_values
  BY <1>5, InsertAllStep DEF Map!MapNext
<1>6. ASSUME NEW s \in Ranges, AssignAll(s) PROVE HashInv' /\ [Map!MapNext]_m_values
  BY <1>6, AssignAllStep DEF Map!MapNext
<1>7. ASSUME NEW f \in LoadFactors, MaxLoadFactor(f)
      PROVE  HashInv' /\ [Map!MapNext]_m_values
  BY <1>7, MaxLoadFactorStep
<1>8. ASSUME Clear \/ MovedFrom PROVE HashInv' /\ [Map!MapNext]_m_values
  BY <1>8, ClearStep DEF Map!MapNext, Map!ClearMap
<1>9. ASSUME ReloadCompatible PROVE HashInv' /\ [Map!MapNext]_m_values
  BY <1>9, ReloadCompatibleStep
<1>10. ASSUME ReloadReinserting PROVE HashInv' /\ [Map!MapNext]_m_values
  BY <1>10, ReloadReinsertingStep
<1>11. ASSUME UNCHANGED hashvars PROVE HashInv' /\ [Map!MapNext]_m_values
  BY <1>11, Staying
<1> QED
  BY <1>1, <1>2, <1>3, <1>4, <1>5, <1>6, <1>7, <1>8, <1>9, <1>10, <1>11 DEF HashNext

\* In every state of the table the invariant holds.
THEOREM HashIsHealthy == HashSpec => []HashInv
<1>1. HashInit => HashInv
  BY HashInitially
<1>2. HashInv /\ [HashNext]_hashvars => HashInv'
  BY HashStep
<1> QED
  BY <1>1, <1>2, PTL DEF HashSpec

\* The table has a power of two, or no, buckets, whose entries are the values': what the
\* masks and the indexes of ordered_hash rely on.
THEOREM HashTypeCorrect == HashSpec => []HashTypeOK
<1>1. HashInv => HashTypeOK
  <2> SUFFICES ASSUME HashInv PROVE HashTypeOK
    OBVIOUS
  <2> DEFINE N == Count(m_buckets)
  <2>1. /\ m_max_load_factor \in 2 .. 19 /\ m_values \in Seq(Keys) /\ Len(m_values) \in Nat
        /\ Len(m_values) <= MaxValues /\ N \in Nat /\ N \in Counts /\ N <= MaxBuckets
        /\ m_buckets \in Tables(N) /\ Sound(N, m_buckets, m_values)
        /\ m_load_threshold \in {0, LoadThreshold(m_buckets, m_max_load_factor)}
        /\ m_grow_on_next_insert \in BOOLEAN
        /\ m_max_load_factor \in LoadFactors \cup {15}
    BY InvParts DEF HashInv
  <2> HIDE DEF N
  <2>2. N \in {0} \cup {TwoTo[j] : j \in 0 .. MaxBuckets}
    BY <2>1, InSizes DEF Counts, Sizes
  <2>3. DOMAIN m_buckets = 0 .. N - 1
    BY <2>1, InTable
  <2>4. \A i \in Occupied : m_buckets[i].index \in 0 .. Len(m_values) - 1
    <3> SUFFICES ASSUME NEW i \in Occupied
                 PROVE  m_buckets[i].index \in 0 .. Len(m_values) - 1
      OBVIOUS
    <3>1. i \in 0 .. N - 1 /\ m_buckets[i] # Vacant
      BY <2>3 DEF Occupied
    <3>2. m_buckets[i].index + 1 \in 1 .. Len(m_values) /\ m_buckets[i].index \in Nat
      BY <2>1, <3>1, SoundEntries
    <3> QED
      BY <2>1, <3>2
  <2>5. m_load_threshold \in 0 .. N
    <3>1. LoadThreshold(m_buckets, m_max_load_factor) \in 0 .. N
      BY <2>1, ThresholdBelow
    <3> QED
      BY <2>1, <3>1
  <2> QED
    BY <2>1, <2>2, <2>3, <2>4, <2>5 DEF HashTypeOK, N
<1> QED
  BY <1>1, HashIsHealthy, PTL

\* Every value has exactly one bucket, which has its index and its hash, whatever has been
\* inserted, erased, shifted, swapped and rehashed.
THEOREM TableIsOfValues == HashSpec => []TableMatchesValues
<1>1. HashInv => TableMatchesValues
  <2> SUFFICES ASSUME HashInv PROVE TableMatchesValues
    OBVIOUS
  <2> DEFINE N == Count(m_buckets)
  <2>1. /\ m_values \in Seq(Keys) /\ DOMAIN m_values = 1 .. Len(m_values) /\ N \in Nat
        /\ m_buckets \in Tables(N) /\ Sound(N, m_buckets, m_values)
    BY InvParts
  <2> HIDE DEF N
  <2>2. Occupied = {i \in 0 .. N - 1 : m_buckets[i] # Vacant}
    BY <2>1, InTable DEF Occupied
  <2>3. Cardinality({i \in 0 .. N - 1 : m_buckets[i] # Vacant}) = Len(m_values)
    BY <2>1, SoundCounts
  <2>4. \A j \in 1 .. Len(m_values) : \E i \in 0 .. N - 1 :
          m_buckets[i] = Entry(j - 1, Hash[m_values[j]]) /\ m_buckets[i] # Vacant
    BY <2>1, SoundEntries
  <2> QED
    BY <2>1, <2>2, <2>3, <2>4 DEF TableMatchesValues
<1> QED
  BY <1>1, HashIsHealthy, PTL

\* find_key finds a key if and only if it is there, and then in its bucket: its probing
\* stops neither too early nor at another key.
THEOREM LookupIsExact == HashSpec => []LookupExact
<1>1. HashInv => LookupExact
  <2> SUFFICES ASSUME HashInv, NEW k \in Keys
               PROVE  LET p == Probe(m_buckets, m_values, k)
                      IN  /\ p.found <=> \E j \in DOMAIN m_values : m_values[j] = k
                          /\ p.found => m_values[m_buckets[p.bucket].index + 1] = k
    BY DEF LookupExact
  <2> DEFINE p == Probe(m_buckets, m_values, k)
  <2>1. DOMAIN m_values = 1 .. Len(m_values)
    BY InvParts
  <2>2. /\ p.found <=> \E j \in 1 .. Len(m_values) : m_values[j] = k
        /\ \A j \in 1 .. Len(m_values) : m_values[j] = k => m_buckets[p.bucket].index = j - 1
    BY ProbeHits
  <2> HIDE DEF p
  <2>3. ASSUME NEW j \in 1 .. Len(m_values), m_values[j] = k
        PROVE  m_values[m_buckets[p.bucket].index + 1] = k
    <3>1. m_buckets[p.bucket].index = j - 1 /\ (j - 1) + 1 = j
      BY <2>2, <2>3
    <3> QED
      BY <2>3, <3>1
  <2> QED
    BY <2>1, <2>2, <2>3 DEF p
<1> QED
  BY <1>1, HashIsHealthy, PTL

\* Insertion that robs the rich and erasure that shifts backward keep the order that the
\* loops of find_key and insert_impl stop by.
THEOREM RobinHoodOrder == HashSpec => []RobinHood
<1>1. HashInv => RobinHood
  <2> SUFFICES ASSUME HashInv, NEW i \in Occupied, Distance(m_buckets, i) > 0
               PROVE  \E j \in Occupied :
                        /\ NextBucket(m_buckets, j) = i
                        /\ Distance(m_buckets, i) <= Distance(m_buckets, j) + 1
    BY DEF RobinHood
  <2> DEFINE N == Count(m_buckets)
             j == Before(N, i)
  <2>1. /\ N \in Nat /\ m_buckets \in Tables(N) /\ Ordered(N, m_buckets)
    BY InvParts DEF Sound
  <2> HIDE DEF N
  <2>2. DOMAIN m_buckets = 0 .. N - 1
    BY <2>1, InTable
  <2>3. i \in 0 .. N - 1 /\ m_buckets[i] # Vacant
    BY <2>2 DEF Occupied
  <2>4. N \in Nat \ {0}
    BY <2>1, <2>3
  <2>5. /\ NextBucket(m_buckets, j) = After(N, j)
        /\ Distance(m_buckets, i) = Far(N, m_buckets[i], i)
        /\ Distance(m_buckets, j) = Far(N, m_buckets[j], j)
    BY <2>1, <2>4, InTable
  <2>6. j \in 0 .. N - 1 /\ After(N, j) = i
    BY <2>3, <2>4, Circle
  <2>7. m_buckets[j] # Vacant /\ Far(N, m_buckets[i], i) <= Far(N, m_buckets[j], j) + 1
    BY <2>1, <2>3, <2>5 DEF Ordered, OrderedAt
  <2>8. j \in Occupied
    BY <2>2, <2>6, <2>7 DEF Occupied
  <2> HIDE DEF j
  <2> QED
    BY <2>5, <2>6, <2>7, <2>8
<1> QED
  BY <1>1, HashIsHealthy, PTL

\* There is always a vacant bucket for insert_index to find, or the table grows before.
THEOREM RoomIsLeft == HashSpec => []RoomLeft
<1>1. HashInv => RoomLeft
  <2> SUFFICES ASSUME HashInv PROVE RoomLeft
    OBVIOUS
  <2>1. /\ Count(m_buckets) \in Nat /\ Sound(Count(m_buckets), m_buckets, m_values)
        /\ m_load_threshold \in {0, LoadThreshold(m_buckets, m_max_load_factor)}
    BY InvParts
  <2>2. Len(m_values) <= Count(m_buckets)
    BY <2>1, SoundCounts
  <2>3. Count(m_buckets) >= 4 => Len(m_values) < Count(m_buckets)
    BY DEF HashInv, Healthy, Table
  <2> QED
    BY <2>1, <2>2, <2>3 DEF RoomLeft
<1> QED
  BY <1>1, HashIsHealthy, PTL

\* The hash table implements the ordered map: what the operations of ordered_hash do with
\* buckets and values is, seen from the values, what tsl::ordered_map promises.
THEOREM HashImplementsMap == HashSpec => ImplementsMap
<1>1. HashInit => Map!MapInit
  BY HashInitially
<1>2. HashInv /\ [HashNext]_hashvars => [Map!MapNext]_m_values
  BY HashStep
<1> QED
  BY <1>1, <1>2, HashIsHealthy, PTL DEF HashSpec, ImplementsMap, Map!MapSpec
=============================================================================
