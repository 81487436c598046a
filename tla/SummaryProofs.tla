---------------------------- MODULE SummaryProofs ----------------------------
(***************************************************************************)
(* What Summary reports, for integers of any width and every number of     *)
(* names, durations and ends: each end event is counted in one place, the  *)
(* exact fields of an accumulator agree with the ends it has folded, the   *)
(* buckets of the histogram cover every duration, and the percentiles read *)
(* from them are close to the exact ones.                                  *)
(***************************************************************************)
EXTENDS Summary, FoldTheorems

-----------------------------------------------------------------------------
(* The buckets                                                             *)

\* The powers a duration is compared with.
LEMMA Powers ==
  /\ \A n \in 0..Width - 1 : 2^n \in Nat \ {0}
  /\ \A n \in 0..Width - 1 : 2^(n + 1) = 2 * 2^n
  /\ 2^1 = 2 /\ 2^2 = 4 /\ 2^3 = 8
  /\ MaxDuration \in Nat /\ MaxDuration + 1 = 2^(Width - 1)
<1>1. /\ \A n \in 0..Width - 1 : 2^n \in Nat \ {0}
      /\ \A n \in 0..Width - 1 : 2^(n + 1) = 2 * 2^n
      /\ 2^0 = 1
  BY PowerFact
<1>2. 0 \in 0..Width - 1 /\ 1 \in 0..Width - 1 /\ 2 \in 0..Width - 1 /\ Width - 1 \in 0..Width - 1
  BY WidthAssumption
<1>3. 2^(0 + 1) = 2 * 2^0 /\ 2^(1 + 1) = 2 * 2^1 /\ 2^(2 + 1) = 2 * 2^2
  BY <1>1, <1>2
<1>4. 0 + 1 = 1 /\ 1 + 1 = 2 /\ 2 + 1 = 3
  OBVIOUS
<1>5. 2^1 = 2 * 2^0 /\ 2^2 = 2 * 2^1 /\ 2^3 = 2 * 2^2
  BY <1>3, <1>4
<1>6. 2^1 = 2 /\ 2^2 = 4 /\ 2^3 = 8
  BY <1>1, <1>5
<1>7. 2^(Width - 1) \in Nat \ {0}
  BY <1>1, <1>2
<1>8. MaxDuration \in Nat /\ MaxDuration + 1 = 2^(Width - 1)
  BY <1>7 DEF MaxDuration, MaxInt
<1>. QED
  BY <1>1, <1>6, <1>8

\* A greater exponent, a greater power.
LEMMA PowersGrow ==
  ASSUME NEW m \in 0..Width, NEW n \in 0..Width, m <= n
  PROVE  2^m <= 2^n
<1>. DEFINE T == {k \in Nat : m + k <= Width => 2^(m + k) \in Nat /\ 2^m <= 2^(m + k)}
<1>1. \A k \in 0..Width : 2^k \in Nat
  <2>1. ASSUME NEW k \in 0..Width PROVE 2^k \in Nat
    <3>1. CASE k \in 0..Width - 1
      BY <3>1, Powers
    <3>2. CASE k = Width
      <4>1. Width - 1 \in 0..Width - 1 /\ (Width - 1) + 1 = Width
        BY WidthAssumption
      <4>2. 2^((Width - 1) + 1) = 2 * 2^(Width - 1) /\ 2^(Width - 1) \in Nat
        BY <4>1, Powers
      <4>3. 2^Width = 2 * 2^(Width - 1)
        BY <4>1, <4>2
      <4>. QED
        BY <3>2, <4>2, <4>3
    <3>. QED
      BY <3>1, <3>2, WidthAssumption
  <2>. QED
    BY <2>1
<1>2. 0 \in T
  <2>1. m + 0 = m
    OBVIOUS
  <2>. QED
    BY <1>1, <2>1
<1>3. ASSUME NEW k \in Nat, k \in T PROVE k + 1 \in T
  <2>1. ASSUME m + (k + 1) <= Width PROVE 2^(m + (k + 1)) \in Nat /\ 2^m <= 2^(m + (k + 1))
    <3>1. m + k \in 0..Width - 1 /\ m + (k + 1) = (m + k) + 1 /\ m + k <= Width
      BY <2>1, WidthAssumption
    <3>2. 2^((m + k) + 1) = 2 * 2^(m + k)
      BY <3>1, Powers
    <3>3. 2^(m + (k + 1)) = 2 * 2^(m + k)
      BY <3>1, <3>2
    <3>4. 2^(m + k) \in Nat /\ 2^m <= 2^(m + k) /\ 2^m \in Nat
      BY <1>1, <1>3, <3>1
    <3>. QED
      BY <3>3, <3>4
  <2>. QED
    BY <2>1
<1>4. \A k \in Nat : k \in T
  <2>. HIDE DEF T
  <2>. QED
    BY <1>2, <1>3, NatInductionSet
<1>5. n - m \in Nat /\ m + (n - m) = n /\ n <= Width
  BY WidthAssumption
<1>6. m + (n - m) <= Width => 2^m <= 2^(m + (n - m))
  BY <1>4, <1>5
<1>. QED
  BY <1>5, <1>6

\* A duration of eight or more lies in one octave, the third or a later one.
LEMMA OctaveOf ==
  ASSUME NEW d \in 8..MaxDuration
  PROVE  Octave(d) \in 3..Width - 2 /\ 2^Octave(d) <= d /\ d < 2^(Octave(d) + 1)
<1>. DEFINE B == {o \in Nat : o <= Width - 2 /\ d < 2^(o + 1)}
<1>1. d \in Nat /\ d >= 8 /\ d < 2^(Width - 1)
  BY Powers
<1>2. Width - 2 \in B
  <2>1. Width - 2 \in Nat /\ (Width - 2) + 1 = Width - 1
    BY WidthAssumption
  <2>. QED
    BY <1>1, <2>1
<1>3. PICK o \in B : \A m \in B : o <= m
  <2>1. B \in SUBSET Nat /\ B # {}
    BY <1>2
  <2>. HIDE DEF B
  <2>. QED
    BY <2>1, LeastOf
<1>4. o \in Nat /\ o <= Width - 2 /\ d < 2^(o + 1)
  BY <1>3
<1>5. o >= 3
  <2>. SUFFICES ASSUME o < 3 PROVE FALSE
    BY <1>4
  <2>1. o + 1 \in 0..Width /\ 3 \in 0..Width /\ o + 1 <= 3
    BY <1>4, WidthAssumption
  <2>2. 2^(o + 1) <= 2^3 /\ 2^3 = 8
    BY <2>1, PowersGrow, Powers
  <2>3. o + 1 \in 0..Width - 1
    BY <1>4, WidthAssumption
  <2>4. 2^(o + 1) \in Nat
    BY <2>3, Powers
  <2>. QED
    BY <1>1, <1>4, <2>2, <2>4
<1>6. 2^o <= d
  <2>1. o - 1 \in Nat /\ (o - 1) + 1 = o /\ o - 1 <= Width - 2 /\ ~(o <= o - 1)
    BY <1>4, <1>5, WidthAssumption
  <2>2. o - 1 \notin B
    BY <1>3, <2>1
  <2>3. ~(d < 2^((o - 1) + 1))
    BY <2>1, <2>2
  <2>4. 2^o \in Nat
    <3>1. o \in 0..Width - 1
      BY <1>4, WidthAssumption
    <3>. QED
      BY <3>1, Powers
  <2>. QED
    BY <1>1, <2>1, <2>3, <2>4
<1>7. \E x \in 0..Width - 2 : 2^x <= d /\ d < 2^(x + 1)
  BY <1>4, <1>6, WidthAssumption
<1>8. Octave(d) \in 0..Width - 2 /\ 2^Octave(d) <= d /\ d < 2^(Octave(d) + 1)
  BY <1>7 DEF Octave
<1>. DEFINE q == Octave(d)
<1>. HIDE DEF q
<1>9. q >= 3
  <2>. SUFFICES ASSUME q < 3 PROVE FALSE
    BY <1>8 DEF q
  <2>1. q + 1 \in 0..Width /\ 3 \in 0..Width /\ q + 1 <= 3 /\ q + 1 \in 0..Width - 1
    BY <1>8, WidthAssumption DEF q
  <2>2. 2^(q + 1) <= 2^3 /\ 2^3 = 8 /\ 2^(q + 1) \in Nat
    BY <2>1, PowersGrow, Powers
  <2>. QED
    BY <1>1, <1>8, <2>2 DEF q
<1>. QED
  BY <1>8, <1>9 DEF q

\* Every duration has a bucket of the array.
LEMMA BucketType ==
  ASSUME NEW d \in 0..MaxDuration
  PROVE  bucketIndexForDuration(d) \in Buckets
<1>1. d \in Nat /\ Width \in Nat /\ Width >= 5
  BY WidthAssumption, Powers
<1>2. CASE d < 8
  BY <1>1, <1>2 DEF bucketIndexForDuration, Buckets, BucketCount
<1>3. CASE d >= 8
  <2>. DEFINE o == Octave(d)
              q == d \div 2^(o - 2)
  <2>1. o \in 3..Width - 2
    BY <1>3, OctaveOf
  <2>2. 2^(o - 2) \in Nat \ {0}
    <3>1. o - 2 \in 0..Width - 1
      BY <2>1, <1>1
    <3>. QED
      BY <3>1, Powers
  <2>3. q \in Nat
    BY <1>1, <2>2
  <2>4. bucketIndexForDuration(d) = 7 + (o - 3) * 4 + (q % 4)
    BY <1>1, <1>3 DEF bucketIndexForDuration
  <2>. HIDE DEF o, q
  <2>5. q % 4 \in 0..3
    BY <2>3
  <2>. QED
    BY <1>1, <2>1, <2>4, <2>5 DEF Buckets, BucketCount
<1>. QED
  BY <1>1, <1>2, <1>3

\* A duration in part j of octave o, whose parts are 2 * h wide.
Located(d, o, h, j) ==
  /\ o \in 3..Width - 2 /\ h \in Nat \ {0} /\ j \in 0..3
  /\ 2^(o - 2) = 2 * h /\ 2^o = 8 * h /\ 2^(o + 1) = 16 * h
  /\ d \in Nat /\ (8 + 2 * j) * h <= d /\ d < (10 + 2 * j) * h

\* The width of an octave and of its parts.
LEMMA OctaveWidth ==
  ASSUME NEW o \in 3..Width - 2
  PROVE  \E h \in Nat \ {0} : 2^(o - 2) = 2 * h /\ 2^o = 8 * h /\ 2^(o + 1) = 16 * h
<1>1. /\ o - 3 \in 0..Width - 1 /\ o - 2 \in 0..Width - 1 /\ o - 1 \in 0..Width - 1
      /\ o \in 0..Width - 1
      /\ (o - 3) + 1 = o - 2 /\ (o - 2) + 1 = o - 1 /\ (o - 1) + 1 = o
  BY WidthAssumption
<1>2. /\ 2^(o - 3) \in Nat \ {0} /\ 2^((o - 3) + 1) = 2 * 2^(o - 3)
      /\ 2^((o - 2) + 1) = 2 * 2^(o - 2) /\ 2^((o - 1) + 1) = 2 * 2^(o - 1)
      /\ 2^(o + 1) = 2 * 2^o
  BY <1>1, Powers
<1>3. PICK h \in Nat \ {0} : h = 2^(o - 3)
  BY <1>2
<1>4. /\ 2^(o - 2) = 2 * h /\ 2^(o - 1) = 2 * 2^(o - 2) /\ 2^o = 2 * 2^(o - 1)
      /\ 2^(o + 1) = 2 * 2^o
  BY <1>1, <1>2, <1>3
<1>5. 2^(o - 1) = 4 * h
  BY <1>4
<1>6. 2^o = 8 * h
  BY <1>4, <1>5
<1>7. 2^(o + 1) = 16 * h
  BY <1>4, <1>6
<1>. QED
  BY <1>4, <1>6, <1>7

\* Every duration of eight or more lies in a part of an octave.
LEMMA PlaceOf ==
  ASSUME NEW d \in 8..MaxDuration
  PROVE  \E o, h, j : Located(d, o, h, j)
<1>1. PICK o \in 3..Width - 2 : 2^o <= d /\ d < 2^(o + 1)
  BY OctaveOf
<1>2. PICK h \in Nat \ {0} : 2^(o - 2) = 2 * h /\ 2^o = 8 * h /\ 2^(o + 1) = 16 * h
  BY OctaveWidth
<1>3. d \in Nat /\ 8 * h <= d /\ d < 16 * h
  BY <1>1, <1>2, Powers
<1>4. PICK j \in 0..3 : (8 + 2 * j) * h <= d /\ d < (10 + 2 * j) * h
  <2>1. CASE d < 10 * h
    <3>1. (8 + 2 * 0) * h <= d /\ d < (10 + 2 * 0) * h
      BY <1>3, <2>1
    <3>. QED
      BY <3>1
  <2>2. CASE 10 * h <= d /\ d < 12 * h
    <3>1. (8 + 2 * 1) * h <= d /\ d < (10 + 2 * 1) * h
      BY <1>3, <2>2
    <3>. QED
      BY <3>1
  <2>3. CASE 12 * h <= d /\ d < 14 * h
    <3>1. (8 + 2 * 2) * h <= d /\ d < (10 + 2 * 2) * h
      BY <1>3, <2>3
    <3>. QED
      BY <3>1
  <2>4. CASE 14 * h <= d
    <3>1. (8 + 2 * 3) * h <= d /\ d < (10 + 2 * 3) * h
      BY <1>3, <2>4
    <3>. QED
      BY <3>1
  <2>. QED
    BY <1>3, <2>1, <2>2, <2>3, <2>4
<1>. QED
  BY <1>2, <1>3, <1>4 DEF Located

\* The bucket of a place, and the midpoint of that bucket.
LEMMA BucketOfPlace ==
  ASSUME NEW d, NEW o, NEW h, NEW j, Located(d, o, h, j)
  PROVE  /\ d \in 8..MaxDuration
         /\ bucketIndexForDuration(d) = 7 + (o - 3) * 4 + j
         /\ durationForBucketIndex(7 + (o - 3) * 4 + j) = (9 + 2 * j) * h
<1>1. /\ o \in 3..Width - 2 /\ h \in Nat \ {0} /\ j \in 0..3
      /\ 2^(o - 2) = 2 * h /\ 2^o = 8 * h /\ 2^(o + 1) = 16 * h
      /\ d \in Nat /\ (8 + 2 * j) * h <= d /\ d < (10 + 2 * j) * h
  BY DEF Located
<1>2. 8 * h <= d /\ d < 16 * h
  <2>1. j = 0 \/ j = 1 \/ j = 2 \/ j = 3
    BY <1>1
  <2>. QED
    BY <1>1, <2>1
<1>3. d \in 8..MaxDuration
  <2>1. o + 1 \in 0..Width /\ Width - 1 \in 0..Width /\ o + 1 <= Width - 1
    BY <1>1, WidthAssumption
  <2>2. 2^(o + 1) <= 2^(Width - 1)
    BY <2>1, PowersGrow
  <2>3. 16 * h <= MaxDuration + 1
    BY <1>1, <2>2, Powers
  <2>. QED
    BY <1>1, <1>2, <2>3, Powers
<1>4. Octave(d) = o
  <2>. DEFINE q == Octave(d)
  <2>1. q \in 3..Width - 2 /\ 2^q <= d /\ d < 2^(q + 1)
    BY <1>3, OctaveOf
  <2>. HIDE DEF q
  <2>2. /\ q + 1 \in 0..Width - 1 /\ o \in 0..Width - 1 /\ o + 1 \in 0..Width - 1 /\ q \in 0..Width - 1
        /\ q + 1 \in 0..Width /\ o \in 0..Width /\ o + 1 \in 0..Width /\ q \in 0..Width
    BY <1>1, <2>1, WidthAssumption
  <2>3. 2^(q + 1) \in Nat /\ 2^q \in Nat
    BY <2>2, Powers
  <2>4. ~(q < o)
    <3>. SUFFICES ASSUME q < o PROVE FALSE
      OBVIOUS
    <3>1. q + 1 <= o
      BY <2>2
    <3>2. 2^(q + 1) <= 2^o
      BY <2>2, <3>1, PowersGrow
    <3>. QED
      BY <1>1, <1>2, <2>1, <2>3, <3>2
  <2>5. ~(o < q)
    <3>. SUFFICES ASSUME o < q PROVE FALSE
      OBVIOUS
    <3>1. o + 1 <= q
      BY <2>2
    <3>2. 2^(o + 1) <= 2^q
      BY <2>2, <3>1, PowersGrow
    <3>. QED
      BY <1>1, <1>2, <2>1, <2>3, <3>2
  <2>6. q = o
    BY <2>2, <2>4, <2>5
  <2>. QED
    BY <2>6 DEF q
<1>5. (d \div 2^(o - 2)) % 4 = j
  <2>. DEFINE w == 2 * h
  <2>1. w \in Nat \ {0}
    BY <1>1
  <2>2. ASSUME NEW q \in 4..7, q * w <= d, d < (q + 1) * w PROVE d \div w = q
    <3>. HIDE DEF w
    <3>. QED
      BY <1>1, <2>1, <2>2
  <2>3. CASE j = 0
    <3>1. d \div w = 4
      <4>1. 4 * w <= d /\ d < (4 + 1) * w
        BY <1>1, <2>3
      <4>. QED
        BY <2>2, <4>1
    <3>. QED
      BY <1>1, <2>3, <3>1
  <2>4. CASE j = 1
    <3>1. d \div w = 5
      <4>1. 5 * w <= d /\ d < (5 + 1) * w
        BY <1>1, <2>4
      <4>. QED
        BY <2>2, <4>1
    <3>. QED
      BY <1>1, <2>4, <3>1
  <2>5. CASE j = 2
    <3>1. d \div w = 6
      <4>1. 6 * w <= d /\ d < (6 + 1) * w
        BY <1>1, <2>5
      <4>. QED
        BY <2>2, <4>1
    <3>. QED
      BY <1>1, <2>5, <3>1
  <2>6. CASE j = 3
    <3>1. d \div w = 7
      <4>1. 7 * w <= d /\ d < (7 + 1) * w
        BY <1>1, <2>6
      <4>. QED
        BY <2>2, <4>1
    <3>. QED
      BY <1>1, <2>6, <3>1
  <2>. QED
    BY <1>1, <2>3, <2>4, <2>5, <2>6
<1>6. bucketIndexForDuration(d) = 7 + (o - 3) * 4 + j
  <2>1. ~(d < 8)
    BY <1>3, Powers
  <2>. QED
    BY <1>4, <1>5, <2>1 DEF bucketIndexForDuration
<1>7. durationForBucketIndex(7 + (o - 3) * 4 + j) = (9 + 2 * j) * h
  <2>. DEFINE i == 7 + (o - 3) * 4 + j
  <2>1. i \in Nat /\ ~(i < 7) /\ ((i - 7) \div 4) + 3 = o /\ (i - 7) % 4 = j
    BY <1>1
  <2>. HIDE DEF i
  <2>2. durationForBucketIndex(i) = 2^o + j * 2^(o - 2) + (2^(o - 2) \div 2)
    BY <2>1 DEF durationForBucketIndex
  <2>3. (2 * h) \div 2 = h
    BY <1>1
  <2>4. durationForBucketIndex(i) = 8 * h + j * (2 * h) + h
    BY <1>1, <2>2, <2>3
  <2>5. 8 * h + j * (2 * h) + h = (9 + 2 * j) * h
    <3>1. j = 0 \/ j = 1 \/ j = 2 \/ j = 3
      BY <1>1
    <3>. QED
      BY <1>1, <3>1
  <2>6. durationForBucketIndex(i) = (9 + 2 * j) * h
    BY <2>4, <2>5
  <2>. QED
    BY <2>6 DEF i
<1>. QED
  BY <1>3, <1>6, <1>7

\* The midpoint of its bucket is close to a duration, and has that bucket.
LEMMA BucketMidpoint ==
  ASSUME NEW d \in 0..MaxDuration, NEW i, i = bucketIndexForDuration(d)
  PROVE  /\ durationForBucketIndex(i) \in 1..MaxDuration
         /\ Close(durationForBucketIndex(i), d)
         /\ bucketIndexForDuration(durationForBucketIndex(i)) = i
<1>1. d \in Nat /\ MaxDuration \in Nat /\ MaxDuration >= 8
  <2>1. 4 \in 0..Width /\ Width - 1 \in 0..Width /\ 4 <= Width - 1 /\ 3 \in 0..Width - 1
    BY WidthAssumption
  <2>2. 2^4 <= 2^(Width - 1)
    BY <2>1, PowersGrow
  <2>3. 2^(3 + 1) = 2 * 2^3 /\ 2^3 = 8
    BY <2>1, Powers
  <2>4. 2^4 = 16
    BY <2>3
  <2>. QED
    BY <2>2, <2>4, Powers
<1>2. CASE d < 1
  <2>1. i = 0 /\ d = 0
    BY <1>1, <1>2 DEF bucketIndexForDuration
  <2>2. durationForBucketIndex(i) = 1
    BY <2>1 DEF durationForBucketIndex
  <2>3. bucketIndexForDuration(1) = 0
    BY DEF bucketIndexForDuration
  <2>. QED
    BY <1>1, <2>1, <2>2, <2>3 DEF Close
<1>3. CASE 1 <= d /\ d < 8
  <2>1. i = d - 1
    BY <1>1, <1>3 DEF bucketIndexForDuration
  <2>2. durationForBucketIndex(i) = d
    BY <1>1, <1>3, <2>1 DEF durationForBucketIndex
  <2>. QED
    BY <1>1, <1>3, <2>2 DEF Close
<1>4. CASE d >= 8
  <2>1. PICK o, h, j : Located(d, o, h, j)
    BY <1>1, <1>4, PlaceOf
  <2>2. i = 7 + (o - 3) * 4 + j
    BY <2>1, BucketOfPlace
  <2>. DEFINE m == (9 + 2 * j) * h
  <2>3. durationForBucketIndex(i) = m
    BY <2>1, <2>2, BucketOfPlace
  <2>4. /\ h \in Nat \ {0} /\ j \in 0..3 /\ m \in Nat
        /\ (8 + 2 * j) * h <= d /\ d < (10 + 2 * j) * h
    BY <2>1 DEF Located
  <2>5. (8 + 2 * j) * h <= m /\ m < (10 + 2 * j) * h
    <3>1. j = 0 \/ j = 1 \/ j = 2 \/ j = 3
      BY <2>4
    <3>. QED
      BY <2>4, <3>1
  <2>6. Located(m, o, h, j)
    BY <2>1, <2>4, <2>5 DEF Located
  <2>7. m \in 8..MaxDuration /\ bucketIndexForDuration(m) = i
    <3>. HIDE DEF m
    <3>. QED
      BY <2>2, <2>6, BucketOfPlace
  <2>8. Close(m, d)
    <3>1. 8 * h <= d /\ m - d <= h /\ d - m <= h
      <4>1. j = 0 \/ j = 1 \/ j = 2 \/ j = 3
        BY <2>4
      <4>. QED
        BY <1>1, <2>4, <4>1
    <3>. HIDE DEF m
    <3>. QED
      BY <1>1, <2>4, <3>1 DEF Close
  <2>. HIDE DEF m
  <2>. QED
    BY <1>1, <2>3, <2>7, <2>8
<1>. QED
  BY <1>1, <1>2, <1>3, <1>4

\* A longer duration by one has the same bucket or the next.
LEMMA BucketStep ==
  ASSUME NEW d \in 0..MaxDuration - 1
  PROVE  bucketIndexForDuration(d + 1) - bucketIndexForDuration(d) \in {0, 1}
<1>1. d \in Nat /\ d + 1 \in 0..MaxDuration /\ d \in 0..MaxDuration /\ MaxDuration \in Nat
  BY Powers
<1>2. CASE d + 1 < 8
  <2>1. bucketIndexForDuration(d + 1) = d
    BY <1>1, <1>2 DEF bucketIndexForDuration
  <2>2. bucketIndexForDuration(d) = IF d < 1 THEN 0 ELSE d - 1
    BY <1>1, <1>2 DEF bucketIndexForDuration
  <2>. QED
    BY <1>1, <2>1, <2>2
<1>3. CASE d + 1 = 8
  <2>1. bucketIndexForDuration(d) = 6
    BY <1>1, <1>3 DEF bucketIndexForDuration
  <2>2. 3 \in 3..Width - 2
    BY WidthAssumption
  <2>3. PICK h \in Nat \ {0} : 2^(3 - 2) = 2 * h /\ 2^3 = 8 * h /\ 2^(3 + 1) = 16 * h
    BY <2>2, OctaveWidth
  <2>4. h = 1
    BY <2>3, Powers
  <2>5. Located(8, 3, 1, 0)
    BY <2>2, <2>3, <2>4 DEF Located
  <2>6. bucketIndexForDuration(8) = 7 + (3 - 3) * 4 + 0
    BY <2>5, BucketOfPlace
  <2>. QED
    BY <1>3, <2>1, <2>6
<1>4. CASE d >= 8
  <2>1. PICK o, h, j : Located(d, o, h, j)
    BY <1>1, <1>4, PlaceOf
  <2>2. bucketIndexForDuration(d) = 7 + (o - 3) * 4 + j
    BY <2>1, BucketOfPlace
  <2>3. /\ o \in 3..Width - 2 /\ h \in Nat \ {0} /\ j \in 0..3
        /\ 2^(o + 1) = 16 * h
        /\ (8 + 2 * j) * h <= d /\ d < (10 + 2 * j) * h
    BY <2>1 DEF Located
  <2>4. CASE d + 1 < (10 + 2 * j) * h
    <3>1. Located(d + 1, o, h, j)
      BY <1>1, <2>1, <2>4 DEF Located
    <3>2. bucketIndexForDuration(d + 1) = 7 + (o - 3) * 4 + j
      BY <3>1, BucketOfPlace
    <3>. QED
      BY <2>2, <2>3, <3>2
  <2>5. CASE d + 1 >= (10 + 2 * j) * h /\ j < 3
    <3>1. Located(d + 1, o, h, j + 1)
      <4>1. j = 0 \/ j = 1 \/ j = 2
        BY <2>3, <2>5
      <4>2. (8 + 2 * (j + 1)) * h <= d + 1 /\ d + 1 < (10 + 2 * (j + 1)) * h
        BY <1>1, <2>3, <2>5, <4>1
      <4>3. j + 1 \in 0..3
        BY <2>3, <2>5
      <4>. QED
        BY <1>1, <2>1, <4>2, <4>3 DEF Located
    <3>2. bucketIndexForDuration(d + 1) = 7 + (o - 3) * 4 + (j + 1)
      BY <3>1, BucketOfPlace
    <3>. QED
      BY <2>2, <2>3, <3>2
  <2>6. CASE d + 1 >= (10 + 2 * j) * h /\ j = 3
    <3>1. d + 1 = 16 * h
      BY <1>1, <2>3, <2>6
    <3>2. o + 1 <= Width - 2
      <4>. SUFFICES ASSUME ~(o + 1 <= Width - 2) PROVE FALSE
        OBVIOUS
      <4>1. o + 1 = Width - 1
        BY <2>3, WidthAssumption
      <4>2. 16 * h = MaxDuration + 1
        BY <2>3, <4>1, Powers
      <4>. QED
        BY <1>1, <3>1, <4>2
    <3>3. o + 1 \in 3..Width - 2 /\ (o + 1) - 2 \in Int
      BY <2>3, <3>2
    <3>4. PICK g \in Nat \ {0} : /\ 2^((o + 1) - 2) = 2 * g /\ 2^(o + 1) = 8 * g
                                 /\ 2^((o + 1) + 1) = 16 * g
      BY <3>3, OctaveWidth
    <3>5. (8 + 2 * 0) * g <= d + 1 /\ d + 1 < (10 + 2 * 0) * g
      BY <1>1, <2>3, <3>1, <3>4
    <3>6. Located(d + 1, o + 1, g, 0)
      BY <1>1, <3>3, <3>4, <3>5 DEF Located
    <3>7. bucketIndexForDuration(d + 1) = 7 + ((o + 1) - 3) * 4 + 0
      BY <3>6, BucketOfPlace
    <3>. QED
      BY <2>2, <2>3, <2>6, <3>7
  <2>. QED
    BY <1>1, <2>3, <2>4, <2>5, <2>6
<1>. QED
  BY <1>1, <1>2, <1>3, <1>4

\* The longest duration has the last bucket.
LEMMA BucketLast == bucketIndexForDuration(MaxDuration) = BucketCount - 1
<1>. DEFINE o == Width - 2
<1>1. o \in 3..Width - 2 /\ o + 1 = Width - 1
  BY WidthAssumption
<1>2. PICK h \in Nat \ {0} : 2^(o - 2) = 2 * h /\ 2^o = 8 * h /\ 2^(o + 1) = 16 * h
  <2>. HIDE DEF o
  <2>. QED
    BY <1>1, OctaveWidth
<1>3. MaxDuration \in Nat /\ MaxDuration = 16 * h - 1
  BY <1>1, <1>2, Powers
<1>4. (8 + 2 * 3) * h <= MaxDuration /\ MaxDuration < (10 + 2 * 3) * h
  BY <1>3
<1>5. Located(MaxDuration, o, h, 3)
  BY <1>1, <1>2, <1>3, <1>4 DEF Located
<1>6. bucketIndexForDuration(MaxDuration) = 7 + (o - 3) * 4 + 3
  <2>. HIDE DEF o
  <2>. QED
    BY <1>5, BucketOfPlace
<1>. QED
  BY <1>6, WidthAssumption DEF BucketCount

\* For integers of any width the buckets cover every duration, in order and closely
\* (bucketIndexForDuration and durationForBucketIndex, summary.go:106-109).
THEOREM BucketsAlwaysCover == BucketsCover
<1>1. ASSUME NEW d \in 0..MaxDuration
      PROVE  /\ bucketIndexForDuration(d) \in Buckets
             /\ Close(durationForBucketIndex(bucketIndexForDuration(d)), d)
             /\ bucketIndexForDuration(durationForBucketIndex(bucketIndexForDuration(d)))
                  = bucketIndexForDuration(d)
  <2>1. PICK i : i = bucketIndexForDuration(d)
    OBVIOUS
  <2>. QED
    BY <2>1, BucketType, BucketMidpoint
<1>2. \A d \in 0..MaxDuration - 1 :
        bucketIndexForDuration(d + 1) - bucketIndexForDuration(d) \in {0, 1}
  BY BucketStep
<1>. QED
  BY <1>1, <1>2, BucketLast DEF BucketsCover

\* A longer duration has no earlier bucket.
LEMMA BucketsGrow ==
  ASSUME NEW d \in 0..MaxDuration, NEW e \in 0..MaxDuration, d <= e
  PROVE  bucketIndexForDuration(d) <= bucketIndexForDuration(e)
<1>. DEFINE T == {k \in Nat : d + k <= MaxDuration
                               => bucketIndexForDuration(d) <= bucketIndexForDuration(d + k)}
<1>1. MaxDuration \in Nat /\ d \in Nat /\ e \in Nat
  BY Powers
<1>2. \A x \in 0..MaxDuration : bucketIndexForDuration(x) \in Int
  <2>1. \A x \in Buckets : x \in Int
    BY DEF Buckets
  <2>. QED
    BY <2>1, BucketType
<1>3. 0 \in T
  <2>1. d + 0 = d
    BY <1>1
  <2>. QED
    BY <1>2, <2>1
<1>4. ASSUME NEW k \in Nat, k \in T PROVE k + 1 \in T
  <2>1. ASSUME d + (k + 1) <= MaxDuration
        PROVE  bucketIndexForDuration(d) <= bucketIndexForDuration(d + (k + 1))
    <3>. DEFINE x == d + k
    <3>1. x \in 0..MaxDuration - 1 /\ x \in 0..MaxDuration /\ x + 1 \in 0..MaxDuration
          /\ d + (k + 1) = x + 1 /\ x <= MaxDuration
      BY <1>1, <2>1
    <3>2. bucketIndexForDuration(d) <= bucketIndexForDuration(x)
      BY <1>4, <3>1
    <3>. HIDE DEF x
    <3>3. bucketIndexForDuration(x + 1) - bucketIndexForDuration(x) \in {0, 1}
      BY <3>1, BucketStep
    <3>4. /\ bucketIndexForDuration(x + 1) \in Int /\ bucketIndexForDuration(x) \in Int
          /\ bucketIndexForDuration(d) \in Int
      BY <1>2, <3>1
    <3>5. bucketIndexForDuration(d) <= bucketIndexForDuration(x + 1)
      BY <3>2, <3>3, <3>4
    <3>. QED
      BY <3>1, <3>5
  <2>. QED
    BY <2>1
<1>5. \A k \in Nat : k \in T
  <2>. HIDE DEF T
  <2>. QED
    BY <1>3, <1>4, NatInductionSet
<1>6. e - d \in Nat /\ d + (e - d) = e /\ e <= MaxDuration
  BY <1>1
<1>7. d + (e - d) <= MaxDuration => bucketIndexForDuration(d) <= bucketIndexForDuration(d + (e - d))
  BY <1>5, <1>6
<1>. QED
  BY <1>6, <1>7

\* What the sums are taken over is finite, and a duration below zero counts as zero.
LEMMA Finite ==
  /\ IsFiniteSet(EndKinds) /\ IsFiniteSet(Buckets) /\ IsFiniteSet(Names)
  /\ \A d \in Durations : d \in Int /\ Clamped(d) \in 0..MaxDuration
<1>1. MaxDuration \in Nat
  BY Powers
<1>2. -MaxDuration \in Int
  BY <1>1
<1>3. IsFiniteSet(Durations)
  <2>1. IsFiniteSet(-MaxDuration..MaxDuration)
    BY <1>1, <1>2, FS_Interval
  <2>. QED
    BY <2>1, FS_Subset, SummaryAssumption
<1>4. IsFiniteSet(Statuses)
  <2>1. Statuses = (({} \cup {"ok"}) \cup {"error"}) \cup {"canceled"}
    BY DEF Statuses
  <2>. QED
    BY <2>1, FS_EmptySet, FS_AddElement
<1>5. IsFiniteSet(EndKinds)
  BY <1>3, <1>4, FS_Product DEF EndKinds
<1>6. IsFiniteSet(Buckets)
  <2>1. BucketCount - 1 \in Int
    BY WidthAssumption DEF BucketCount
  <2>. QED
    BY <2>1, FS_Interval DEF Buckets
<1>7. \A d \in Durations : d \in Int /\ Clamped(d) \in 0..MaxDuration
  BY <1>1, SummaryAssumption DEF Clamped
<1>. QED
  BY <1>5, <1>6, <1>7, SummaryAssumption

-----------------------------------------------------------------------------
(* The ends of one name                                                    *)

\* How many ends a part of the kinds had.
Part(s, K) == Total(Restrict(s, K))

\* The durations an end had, and their sum.
Had(s) == {Clamped(d) : d \in {e \in Durations : Part(s, {e} \X Statuses) > 0}}
SumIn(s) == Total([k \in EndKinds |-> Clamped(k[1]) * s[k]])

\* The kinds of end that bucket i counts.
InBucket(i) == {k \in EndKinds : bucketIndexForDuration(Clamped(k[1])) = i}

\* Total is the sum of FoldTheorems.
LEMMA TotalIsSum ==
  ASSUME NEW f
  PROVE  Total(f) = SumOf(f)
  BY DEF Total, SumOf

\* How many ends there were is a number; none of no kind when there was none.
LEMMA PartType ==
  ASSUME NEW s \in [EndKinds -> Nat], NEW K \in SUBSET EndKinds
  PROVE  /\ Part(s, K) \in Nat /\ Total(s) \in Nat
         /\ Part(s, K) = 0 <=> \A k \in K : s[k] = 0
         /\ Total(s) = 0 <=> \A k \in EndKinds : s[k] = 0
<1>1. IsFiniteSet(K) /\ IsFiniteSet(EndKinds)
  BY Finite, FS_Subset
<1>2. Restrict(s, K) \in [K -> Nat] /\ \A k \in K : Restrict(s, K)[k] = s[k]
  BY DEF Restrict
<1>3. SumOf(Restrict(s, K)) \in Nat
      /\ (SumOf(Restrict(s, K)) = 0 <=> \A k \in K : Restrict(s, K)[k] = 0)
  BY <1>1, <1>2, SumNat
<1>4. SumOf(s) \in Nat /\ (SumOf(s) = 0 <=> \A k \in EndKinds : s[k] = 0)
  BY <1>1, SumNat
<1>. QED
  BY <1>2, <1>3, <1>4, TotalIsSum DEF Part

\* The ends s, and one of kind k.
Adds(s, k, t) ==
  /\ s \in [EndKinds -> Nat] /\ t \in [EndKinds -> Nat] /\ t[k] = s[k] + 1
  /\ \A x \in EndKinds : x # k => t[x] = s[x]

\* One end more is counted wherever its kind is.
LEMMA OneMore ==
  ASSUME NEW s, NEW k \in EndKinds, NEW t, Adds(s, k, t)
  PROVE  /\ Total(t) = Total(s) + 1
         /\ \A K \in SUBSET EndKinds : Part(t, K) = Part(s, K) + (IF k \in K THEN 1 ELSE 0)
<1>1. /\ t \in [EndKinds -> Nat] /\ t[k] = s[k] + 1 /\ s \in [EndKinds -> Nat]
      /\ \A x \in EndKinds : x # k => t[x] = s[x]
  BY DEF Adds
<1>2. Total(t) = Total(s) + 1
  <2>1. s \in [EndKinds -> Int] /\ t \in [EndKinds -> Int] /\ s[k] \in Nat
    BY <1>1
  <2>2. SumOf(t) = SumOf(s) + t[k] - s[k]
    <3>. DEFINE D == EndKinds
                f == s
                g == t
    <3>1. /\ f \in [D -> Int] /\ g \in [D -> Int] /\ k \in D
          /\ \A x \in D : x # k => g[x] = f[x]
      BY <1>1, <2>1
    <3>2. IsFiniteSet(D)
      BY Finite
    <3>. HIDE DEF D, f, g
    <3>3. SumOf(g) = SumOf(f) + g[k] - f[k]
      BY <3>1, <3>2, SumChange
    <3>. QED
      BY <3>3 DEF f, g
  <2>3. SumOf(s) \in Int
    BY <2>1, Finite, SumType
  <2>. QED
    BY <1>1, <2>1, <2>2, <2>3, TotalIsSum
<1>3. ASSUME NEW K \in SUBSET EndKinds
      PROVE  Part(t, K) = Part(s, K) + (IF k \in K THEN 1 ELSE 0)
  <2>. DEFINE f == Restrict(s, K)
              g == Restrict(t, K)
  <2>1. f \in [K -> Int] /\ g \in [K -> Int]
        /\ \A x \in K : f[x] = s[x] /\ g[x] = t[x]
    BY <1>1 DEF Restrict
  <2>2. IsFiniteSet(K)
    BY Finite, FS_Subset
  <2>3. Part(s, K) = SumOf(f) /\ Part(t, K) = SumOf(g)
    BY TotalIsSum DEF Part
  <2>4. CASE k \in K
    <3>1. g[k] = s[k] + 1 /\ f[k] = s[k] /\ s[k] \in Nat
      BY <1>1, <2>1, <2>4
    <3>2. \A x \in K : x # k => g[x] = f[x]
      BY <1>1, <2>1
    <3>. HIDE DEF f, g
    <3>3. SumOf(g) = SumOf(f) + g[k] - f[k]
      BY <2>1, <2>2, <2>4, <3>2, SumChange
    <3>4. SumOf(f) \in Int
      BY <2>1, <2>2, SumType
    <3>. QED
      BY <2>3, <2>4, <3>1, <3>3, <3>4
  <2>5. CASE k \notin K
    <3>1. f = g
      BY <1>1, <2>5 DEF Restrict
    <3>. QED
      BY <1>1, <2>3, <2>5, <3>1, PartType
  <2>. QED
    BY <2>4, <2>5
<1>. QED
  BY <1>1, <1>2, <1>3

\* One end more adds its duration, and its duration is had.
LEMMA OneMoreSum ==
  ASSUME NEW s, NEW d \in Durations, NEW status \in Statuses, NEW t,
         Adds(s, <<d, status>>, t)
  PROVE  SumIn(s) \in Nat /\ SumIn(t) = SumIn(s) + Clamped(d)
<1>. DEFINE D == EndKinds
            k == <<d, status>>
            f == [x \in EndKinds |-> Clamped(x[1]) * s[x]]
            g == [x \in EndKinds |-> Clamped(x[1]) * t[x]]
<1>1. k \in D
  BY DEF EndKinds
<1>2. /\ t \in [EndKinds -> Nat] /\ t[k] = s[k] + 1 /\ s[k] \in Nat
      /\ \A x \in EndKinds : x # k => t[x] = s[x]
      /\ s \in [EndKinds -> Nat]
  BY <1>1 DEF Adds
<1>3. \A x \in EndKinds : Clamped(x[1]) \in Nat
  BY Finite, Powers DEF EndKinds
<1>4. f \in [D -> Nat] /\ g \in [D -> Nat]
  <2>1. \A x \in EndKinds : Clamped(x[1]) * s[x] \in Nat /\ Clamped(x[1]) * t[x] \in Nat
    BY <1>2, <1>3
  <2>. QED
    BY <2>1
<1>5. \A x \in D : x # k => g[x] = f[x]
  BY <1>2
<1>6. g[k] = f[k] + Clamped(d)
  <2>1. \A x, y \in Nat : x * (y + 1) = x * y + x
    OBVIOUS
  <2>2. f[k] = Clamped(d) * s[k] /\ g[k] = Clamped(d) * (s[k] + 1)
    BY <1>1, <1>2
  <2>3. Clamped(d) \in Nat
    BY Finite, Powers
  <2>. QED
    BY <1>2, <2>1, <2>2, <2>3
<1>7. SumIn(s) = SumOf(f) /\ SumIn(t) = SumOf(g)
  BY TotalIsSum DEF SumIn
<1>8. IsFiniteSet(D)
  BY Finite
<1>. HIDE DEF D, k, f, g
<1>9. SumOf(f) \in Nat
  BY <1>4, <1>8, SumNat
<1>10. f \in [D -> Int] /\ g \in [D -> Int] /\ f[k] \in Nat
  BY <1>1, <1>4
<1>11. SumOf(g) = SumOf(f) + g[k] - f[k]
  BY <1>1, <1>5, <1>8, <1>10, SumChange
<1>12. Clamped(d) \in Nat
  BY Finite, Powers
<1>. QED
  BY <1>6, <1>7, <1>9, <1>10, <1>11, <1>12

\* One end more adds its duration to those had; no end, no duration.
LEMMA OneMoreHad ==
  ASSUME NEW s, NEW d \in Durations, NEW status \in Statuses, NEW t,
         Adds(s, <<d, status>>, t)
  PROVE  Had(t) = Had(s) \cup {Clamped(d)} /\ (Total(s) = 0 => Had(s) = {})
<1>. DEFINE k == <<d, status>>
<1>1. k \in EndKinds /\ \A e \in Durations : {e} \X Statuses \in SUBSET EndKinds
  BY DEF EndKinds
<1>2. \A e \in Durations : k \in {e} \X Statuses <=> d = e
  <2>1. ASSUME NEW e \in Durations PROVE <<d, status>> \in {e} \X Statuses <=> d = e
    OBVIOUS
  <2>. QED
    BY <2>1
<1>3. \A K \in SUBSET EndKinds : Part(t, K) = Part(s, K) + (IF k \in K THEN 1 ELSE 0)
  <2>1. Adds(s, k, t)
    OBVIOUS
  <2>2. k \in EndKinds
    BY <1>1
  <2>. HIDE DEF k
  <2>. QED
    BY <2>1, <2>2, OneMore
<1>4. \A K \in SUBSET EndKinds : Part(s, K) \in Nat /\ (Part(s, K) = 0 <=> \A x \in K : s[x] = 0)
  BY PartType DEF Adds
<1>5. \A e \in Durations : /\ Part(t, {e} \X Statuses) > 0
                              <=> (Part(s, {e} \X Statuses) > 0 \/ e = d)
  <2>. SUFFICES ASSUME NEW e \in Durations
                PROVE  Part(t, {e} \X Statuses) > 0 <=> (Part(s, {e} \X Statuses) > 0 \/ e = d)
    OBVIOUS
  <2>. DEFINE K == {e} \X Statuses
  <2>1. K \in SUBSET EndKinds /\ (k \in K <=> d = e)
    BY <1>1, <1>2
  <2>. HIDE DEF K, k
  <2>2. Part(t, K) = Part(s, K) + (IF k \in K THEN 1 ELSE 0)
    BY <1>3, <2>1, Zenon
  <2>3. Part(s, K) \in Nat
    BY <1>4, <2>1, Zenon
  <2>4. Part(t, K) > 0 <=> (Part(s, K) > 0 \/ e = d)
    BY <2>1, <2>2, <2>3
  <2>. QED
    BY <2>4 DEF K
<1>6. Had(t) = Had(s) \cup {Clamped(d)}
  BY <1>5, Zenon DEF Had
<1>7. ASSUME Total(s) = 0 PROVE Had(s) = {}
  <2>0. s \in [EndKinds -> Nat]
    BY DEF Adds
  <2>1. \A x \in EndKinds : s[x] = 0
    BY <1>7, <2>0, PartType
  <2>2. \A e \in Durations : Part(s, {e} \X Statuses) = 0
    <3>1. ASSUME NEW e \in Durations PROVE Part(s, {e} \X Statuses) = 0
      <4>. DEFINE K == {e} \X Statuses
      <4>1. K \in SUBSET EndKinds
        BY <1>1
      <4>2. \A x \in K : s[x] = 0
        BY <2>1, <4>1
      <4>. HIDE DEF K
      <4>3. Part(s, K) = 0
        BY <2>0, <4>1, <4>2, PartType
      <4>. QED
        BY <4>3 DEF K
    <3>. QED
      BY <3>1
  <2>3. \A e \in Durations : ~(Part(s, {e} \X Statuses) > 0)
    BY <2>2
  <2>. QED
    BY <2>3, Zenon DEF Had
<1>. QED
  BY <1>6, <1>7

-----------------------------------------------------------------------------
(* One accumulator and the ends it stands for                              *)

\* Every field but the mean, which needs a sum that fits; the buckets one by one.
Agrees(a, s) ==
  /\ a.count = Total(s) /\ a.count = Total(a.histogram)
  /\ a.errors = Part(s, Durations \X {"error"})
  /\ a.canceled = Part(s, Durations \X {"canceled"})
  /\ a.count > 0 => a.minNanos \in Had(s) /\ a.maxNanos \in Had(s)
  /\ a.count = 0 => a.maxNanos = 0
  /\ \A d \in Had(s) : a.minNanos <= d /\ d <= a.maxNanos
  /\ SumIn(s) <= MaxDuration => a.totalNanos = SumIn(s)
  /\ \A i \in Buckets : a.histogram[i] = Part(s, InBucket(i))

\* A sum that fits is not wrapped.
LEMMA WrapFits ==
  /\ \A x \in Int : Wrap(x) \in Int
  /\ \A x \in 0..MaxDuration : Wrap(x) = x
<1>. DEFINE P == 2^(Width - 1)
            Q == 2^Width
<1>1. P \in Nat \ {0} /\ Q = 2 * P /\ MaxDuration = P - 1
  <2>1. Width - 1 \in 0..Width - 1 /\ (Width - 1) + 1 = Width
    BY WidthAssumption
  <2>2. 2^((Width - 1) + 1) = 2 * 2^(Width - 1) /\ 2^(Width - 1) \in Nat \ {0}
    BY <2>1, Powers
  <2>. QED
    BY <2>1, <2>2 DEF MaxDuration, MaxInt
<1>2. \A x : Wrap(x) = ((x + P) % Q) - P
  BY DEF Wrap
<1>. HIDE DEF P, Q
<1>3. \A x \in Int : (x + P) % Q \in Int
  BY <1>1
<1>4. ASSUME NEW x \in 0..MaxDuration PROVE Wrap(x) = x
  <2>1. x + P \in 0..Q - 1 /\ x \in Int
    BY <1>1
  <2>2. \A m \in Nat \ {0} : \A y \in 0..m - 1 : y % m = y
    OBVIOUS
  <2>3. (x + P) % Q = x + P
    BY <1>1, <2>1, <2>2
  <2>. QED
    BY <1>1, <1>2, <2>1, <2>3
<1>. QED
  BY <1>1, <1>2, <1>3, <1>4

\* The fields of an accumulator after one more end.
LEMMA RecordFields ==
  ASSUME NEW a \in Accumulator, NEW d \in Durations, NEW status \in Statuses,
         NEW b, b = record(a, d, status), NEW c, c = Clamped(d),
         NEW i, i = bucketIndexForDuration(c)
  PROVE  /\ b \in Accumulator /\ c \in 0..MaxDuration /\ i \in Buckets
         /\ b.count = a.count + 1
         /\ b.errors = a.errors + (IF status = "error" THEN 1 ELSE 0)
         /\ b.canceled = a.canceled + (IF status = "canceled" THEN 1 ELSE 0)
         /\ b.minNanos = MinAfter(a, c) /\ b.maxNanos = MaxAfter(a, c)
         /\ b.totalNanos = Wrap(a.totalNanos + c)
         /\ b.histogram[i] = a.histogram[i] + 1
         /\ \A j \in Buckets : j # i => b.histogram[j] = a.histogram[j]
<1>1. c \in 0..MaxDuration /\ i \in Buckets
  BY Finite, BucketType
<1>2. b = [count |-> a.count + 1,
           errors |-> a.errors + (IF status = "error" THEN 1 ELSE 0),
           canceled |-> a.canceled + (IF status = "canceled" THEN 1 ELSE 0),
           minNanos |-> MinAfter(a, c), maxNanos |-> MaxAfter(a, c),
           totalNanos |-> Wrap(a.totalNanos + c),
           histogram |-> [a.histogram EXCEPT ![i] = a.histogram[i] + 1]]
  BY DEF record
<1>3. /\ a.count \in Nat /\ a.errors \in Nat /\ a.canceled \in Nat /\ a.totalNanos \in Int
      /\ a.minNanos \in 0..MaxDuration /\ a.maxNanos \in 0..MaxDuration
      /\ a.histogram \in [Buckets -> Nat]
  BY DEF Accumulator
<1>4. MinAfter(a, c) \in 0..MaxDuration /\ MaxAfter(a, c) \in 0..MaxDuration
  BY <1>1, <1>3 DEF MinAfter, MaxAfter
<1>5. Wrap(a.totalNanos + c) \in Int
  BY <1>1, <1>3, WrapFits, Powers
<1>. DEFINE h == [a.histogram EXCEPT ![i] = a.histogram[i] + 1]
<1>6. /\ h \in [Buckets -> Nat] /\ h[i] = a.histogram[i] + 1
      /\ \A j \in Buckets : j # i => h[j] = a.histogram[j]
  BY <1>1, <1>3
<1>7. /\ a.count + 1 \in Nat
      /\ a.errors + (IF status = "error" THEN 1 ELSE 0) \in Nat
      /\ a.canceled + (IF status = "canceled" THEN 1 ELSE 0) \in Nat
  BY <1>3
<1>8. b.histogram = h
  BY <1>2
<1>9. b \in Accumulator
  <2>. HIDE DEF h
  <2>. QED
    BY <1>2, <1>4, <1>5, <1>6, <1>7 DEF Accumulator, h
<1>. QED
  BY <1>1, <1>2, <1>6, <1>8, <1>9

\* Folding one end keeps an accumulator in agreement with the ends it stands for.
LEMMA RecordAgrees ==
  ASSUME NEW a \in Accumulator, NEW s, Agrees(a, s),
         NEW d \in Durations, NEW status \in Statuses, NEW t, Adds(s, <<d, status>>, t),
         NEW b, b = record(a, d, status)
  PROVE  b \in Accumulator /\ Agrees(b, t) /\ b.count = a.count + 1 /\ b.count > 0
<1>. DEFINE k == <<d, status>>
<1>1. PICK c : c = Clamped(d)
  OBVIOUS
<1>2. PICK i : i = bucketIndexForDuration(c)
  OBVIOUS
<1>3. /\ b \in Accumulator /\ c \in 0..MaxDuration /\ i \in Buckets
      /\ b.count = a.count + 1
      /\ b.errors = a.errors + (IF status = "error" THEN 1 ELSE 0)
      /\ b.canceled = a.canceled + (IF status = "canceled" THEN 1 ELSE 0)
      /\ b.minNanos = MinAfter(a, c) /\ b.maxNanos = MaxAfter(a, c)
      /\ b.totalNanos = Wrap(a.totalNanos + c)
      /\ b.histogram[i] = a.histogram[i] + 1
      /\ \A j \in Buckets : j # i => b.histogram[j] = a.histogram[j]
  BY <1>1, <1>2, RecordFields
<1>4. /\ a.count \in Nat /\ a.errors \in Nat /\ a.canceled \in Nat /\ a.totalNanos \in Int
      /\ a.minNanos \in 0..MaxDuration /\ a.maxNanos \in 0..MaxDuration
      /\ a.histogram \in [Buckets -> Nat] /\ b.histogram \in [Buckets -> Nat]
  BY <1>3 DEF Accumulator
<1>5. k \in EndKinds
  BY DEF EndKinds
<1>6. /\ Total(t) = Total(s) + 1
      /\ \A K \in SUBSET EndKinds : Part(t, K) = Part(s, K) + (IF k \in K THEN 1 ELSE 0)
  <2>. HIDE DEF k
  <2>1. Adds(s, k, t)
    BY DEF k
  <2>. QED
    BY <1>5, <2>1, OneMore
<1>7. /\ a.count = Total(s) /\ a.count = Total(a.histogram)
      /\ a.errors = Part(s, Durations \X {"error"})
      /\ a.canceled = Part(s, Durations \X {"canceled"})
      /\ a.count > 0 => a.minNanos \in Had(s) /\ a.maxNanos \in Had(s)
      /\ a.count = 0 => a.maxNanos = 0
      /\ \A x \in Had(s) : a.minNanos <= x /\ x <= a.maxNanos
      /\ SumIn(s) <= MaxDuration => a.totalNanos = SumIn(s)
      /\ \A j \in Buckets : a.histogram[j] = Part(s, InBucket(j))
  BY DEF Agrees
<1>8. b.count = Total(t) /\ b.count > 0
  BY <1>3, <1>4, <1>6, <1>7
<1>9. b.count = Total(b.histogram)
  <2>. DEFINE f == a.histogram
              g == b.histogram
              D == Buckets
  <2>1. /\ f \in [D -> Int] /\ g \in [D -> Int] /\ i \in D /\ f[i] \in Nat
        /\ \A x \in D : x # i => g[x] = f[x]
    BY <1>3, <1>4
  <2>2. IsFiniteSet(D)
    BY Finite
  <2>3. g[i] = f[i] + 1 /\ Total(f) = SumOf(f) /\ Total(g) = SumOf(g)
    BY <1>3, TotalIsSum
  <2>. HIDE DEF D, f, g
  <2>4. SumOf(g) = SumOf(f) + g[i] - f[i]
    BY <2>1, <2>2, SumChange
  <2>5. SumOf(f) \in Int
    BY <2>1, <2>2, SumType
  <2>6. Total(g) = Total(f) + 1
    BY <2>1, <2>3, <2>4, <2>5
  <2>. QED
    BY <1>3, <1>7, <2>6 DEF f, g
<1>10. /\ b.errors = Part(t, Durations \X {"error"})
       /\ b.canceled = Part(t, Durations \X {"canceled"})
  <2>1. ASSUME NEW x \in Statuses
        PROVE  Part(t, Durations \X {x}) = Part(s, Durations \X {x}) + (IF status = x THEN 1 ELSE 0)
    <3>. DEFINE K == Durations \X {x}
    <3>1. K \in SUBSET EndKinds
      BY DEF EndKinds
    <3>2. k \in K <=> status = x
      OBVIOUS
    <3>. HIDE DEF K, k
    <3>3. Part(t, K) = Part(s, K) + (IF k \in K THEN 1 ELSE 0)
      BY <1>6, <3>1, Zenon
    <3>4. Part(t, K) = Part(s, K) + (IF status = x THEN 1 ELSE 0)
      BY <3>2, <3>3
    <3>. QED
      BY <3>4 DEF K
  <2>2. "error" \in Statuses /\ "canceled" \in Statuses
    BY DEF Statuses
  <2>. QED
    BY <1>3, <1>7, <2>1, <2>2
<1>11. Had(t) = Had(s) \cup {c} /\ (Total(s) = 0 => Had(s) = {})
  BY <1>1, OneMoreHad
<1>12. \A x \in Had(s) : x \in 0..MaxDuration
  BY Finite DEF Had
<1>13. /\ b.minNanos \in Had(t) /\ b.maxNanos \in Had(t)
       /\ \A x \in Had(t) : b.minNanos <= x /\ x <= b.maxNanos
  <2>1. MaxDuration \in Nat
    BY Powers
  <2>2. CASE a.count = 0
    <3>1. Had(t) = {c} /\ a.maxNanos = 0
      BY <1>7, <1>11, <2>2
    <3>2. b.minNanos = c /\ b.maxNanos = c
      BY <1>3, <2>1, <2>2, <3>1 DEF MinAfter, MaxAfter
    <3>. QED
      BY <1>3, <3>1, <3>2
  <2>3. CASE a.count > 0
    <3>1. a.minNanos \in Had(s) /\ a.maxNanos \in Had(s)
      BY <1>7, <2>3
    <3>2. b.minNanos = IF c < a.minNanos THEN c ELSE a.minNanos
      BY <1>3, <1>4, <2>3 DEF MinAfter
    <3>3. b.maxNanos = IF c > a.maxNanos THEN c ELSE a.maxNanos
      BY <1>3 DEF MaxAfter
    <3>4. b.minNanos \in Had(t) /\ b.maxNanos \in Had(t)
      BY <1>11, <3>1, <3>2, <3>3
    <3>5. b.minNanos <= c /\ b.minNanos <= a.minNanos /\ c <= b.maxNanos /\ a.maxNanos <= b.maxNanos
      BY <1>3, <1>4, <2>1, <3>2, <3>3
    <3>6. b.minNanos \in Int /\ b.maxNanos \in Int
      BY <1>3, <1>4, <2>1, <3>2, <3>3
    <3>7. \A x \in Had(s) : b.minNanos <= x /\ x <= b.maxNanos
      BY <1>4, <1>7, <1>12, <2>1, <3>5, <3>6
    <3>. QED
      BY <1>11, <3>4, <3>5, <3>7
  <2>. QED
    BY <1>4, <2>2, <2>3
<1>14. SumIn(t) <= MaxDuration => b.totalNanos = SumIn(t)
  <2>1. SumIn(s) \in Nat /\ SumIn(t) = SumIn(s) + c
    BY <1>1, OneMoreSum
  <2>. SUFFICES ASSUME SumIn(t) <= MaxDuration PROVE b.totalNanos = SumIn(t)
    OBVIOUS
  <2>2. MaxDuration \in Nat
    BY Powers
  <2>3. SumIn(s) <= MaxDuration /\ SumIn(s) + c \in 0..MaxDuration
    BY <1>3, <2>1, <2>2
  <2>4. a.totalNanos = SumIn(s)
    BY <1>7, <2>3
  <2>5. Wrap(SumIn(s) + c) = SumIn(s) + c
    BY <2>3, WrapFits
  <2>. QED
    BY <1>3, <2>1, <2>4, <2>5
<1>15. \A j \in Buckets : b.histogram[j] = Part(t, InBucket(j))
  <2>. SUFFICES ASSUME NEW j \in Buckets PROVE b.histogram[j] = Part(t, InBucket(j))
    OBVIOUS
  <2>. DEFINE K == InBucket(j)
  <2>1. K \in SUBSET EndKinds
    BY DEF InBucket
  <2>2. k \in K <=> i = j
    <3>1. k[1] = d
      OBVIOUS
    <3>. HIDE DEF k
    <3>. QED
      BY <1>1, <1>2, <1>5, <3>1 DEF InBucket
  <2>. HIDE DEF K, k
  <2>3. Part(t, K) = Part(s, K) + (IF k \in K THEN 1 ELSE 0)
    BY <1>6, <2>1, Zenon
  <2>4. a.histogram[j] = Part(s, K)
    BY <1>7 DEF K
  <2>5. b.histogram[j] = a.histogram[j] + (IF i = j THEN 1 ELSE 0)
    <3>1. CASE i = j
      BY <1>3, <3>1
    <3>2. CASE i # j
      <4>1. b.histogram[j] = a.histogram[j] /\ a.histogram[j] \in Nat
        BY <1>3, <1>4, <3>2
      <4>. QED
        BY <3>2, <4>1
    <3>. QED
      BY <3>1, <3>2
  <2>6. b.histogram[j] = Part(t, K)
    BY <2>2, <2>3, <2>4, <2>5
  <2>. QED
    BY <2>6 DEF K
<1>16. Agrees(b, t)
  <2>1. (b.count > 0 => b.minNanos \in Had(t) /\ b.maxNanos \in Had(t)) /\ (b.count = 0 => b.maxNanos = 0)
    BY <1>8, <1>13, <1>3, <1>4
  <2>. QED
    BY <1>8, <1>9, <1>10, <1>13, <1>14, <1>15, <2>1, Zenon DEF Agrees
<1>. QED
  BY <1>3, <1>8, <1>16

\* An accumulator that has folded nothing agrees with no end.
LEMMA NewAgrees ==
  ASSUME NEW s \in [EndKinds -> Nat], Total(s) = 0
  PROVE  NewAccumulator \in Accumulator /\ Agrees(NewAccumulator, s)
<1>. DEFINE z == [j \in Buckets |-> 0]
<1>0. MaxDuration \in Nat
  BY Powers
<1>1. /\ NewAccumulator.count = 0 /\ NewAccumulator.errors = 0 /\ NewAccumulator.canceled = 0
      /\ NewAccumulator.minNanos = 0 /\ NewAccumulator.maxNanos = 0
      /\ NewAccumulator.totalNanos = 0 /\ NewAccumulator.histogram = z
  BY DEF NewAccumulator
<1>2. NewAccumulator \in Accumulator
  <2>1. z \in [Buckets -> Nat] /\ 0 \in Nat /\ 0 \in Int /\ 0 \in 0..MaxDuration
    BY <1>0
  <2>. QED
    BY <2>1 DEF NewAccumulator, Accumulator
<1>3. \A K \in SUBSET EndKinds : Part(s, K) = 0
  BY PartType
<1>4. Total(z) = 0
  <2>1. z \in [Buckets -> Nat] /\ \A j \in Buckets : z[j] = 0
    OBVIOUS
  <2>2. IsFiniteSet(Buckets)
    BY Finite
  <2>. HIDE DEF z
  <2>3. SumOf(z) = 0
    BY <2>1, <2>2, SumNat
  <2>. QED
    BY <2>3, TotalIsSum
<1>5. Had(s) = {}
  <2>1. \A e \in Durations : {e} \X Statuses \in SUBSET EndKinds
    BY DEF EndKinds
  <2>2. \A e \in Durations : ~(Part(s, {e} \X Statuses) > 0)
    <3>1. ASSUME NEW e \in Durations PROVE ~(Part(s, {e} \X Statuses) > 0)
      <4>. DEFINE K == {e} \X Statuses
      <4>1. K \in SUBSET EndKinds
        BY <2>1
      <4>. HIDE DEF K
      <4>2. Part(s, K) = 0
        BY <1>3, <4>1
      <4>3. ~(Part(s, K) > 0)
        BY <4>2
      <4>. QED
        BY <4>3 DEF K
    <3>. QED
      BY <3>1
  <2>. QED
    BY <2>2, Zenon DEF Had
<1>6. SumIn(s) = 0
  <2>. DEFINE D == EndKinds
              f == [k \in EndKinds |-> Clamped(k[1]) * s[k]]
  <2>1. \A k \in EndKinds : s[k] = 0 /\ Clamped(k[1]) \in Int
    <3>1. \A k \in EndKinds : s[k] = 0
      BY PartType
    <3>2. \A k \in EndKinds : Clamped(k[1]) \in Int
      BY <1>0, Finite DEF EndKinds
    <3>. QED
      BY <3>1, <3>2
  <2>2. f \in [D -> Nat] /\ \A k \in D : f[k] = 0
    <3>1. \A x \in Int : x * 0 = 0
      OBVIOUS
    <3>2. \A k \in EndKinds : Clamped(k[1]) * s[k] = 0
      BY <2>1, <3>1
    <3>. QED
      BY <3>2
  <2>3. IsFiniteSet(D) /\ SumIn(s) = SumOf(f)
    BY Finite, TotalIsSum DEF SumIn
  <2>. HIDE DEF D, f
  <2>. QED
    BY <2>2, <2>3, SumNat
<1>7. /\ Part(s, Durations \X {"error"}) = 0 /\ Part(s, Durations \X {"canceled"}) = 0
      /\ \A j \in Buckets : Part(s, InBucket(j)) = 0 /\ z[j] = 0
  <2>1. /\ Durations \X {"error"} \in SUBSET EndKinds
        /\ Durations \X {"canceled"} \in SUBSET EndKinds
        /\ \A j \in Buckets : InBucket(j) \in SUBSET EndKinds
    BY DEF EndKinds, Statuses, InBucket
  <2>. QED
    BY <1>3, <2>1
<1>8. Agrees(NewAccumulator, s)
  <2>. HIDE DEF z
  <2>. QED
    BY <1>1, <1>4, <1>5, <1>6, <1>7 DEF Agrees
<1>. QED
  BY <1>2, <1>8

-----------------------------------------------------------------------------
(* The invariant                                                           *)

\* Every accumulator agrees with the ends of its name, of which there is one at least;
\* the ends of the other names are those dropped, and some are only at the cap.
Kept(sums, s) ==
  \A n \in DOMAIN sums : Agrees(sums[n], s[n]) /\ sums[n].count > 0
Turned(sums, dropped, s) ==
  /\ dropped = Total([n \in Names \ DOMAIN sums |-> Total(s[n])])
  /\ dropped > 0 => Cardinality(DOMAIN sums) = MaxSummaryNames

CountInv == TypeOK /\ Kept(summaries, seen) /\ Turned(summaries, summaryDropped, seen)

\* One end more of one name.
LEMMA Seen ==
  ASSUME NEW n \in Names, NEW d \in Durations, NEW status \in Statuses, TypeOK, See(n, d, status)
  PROVE  /\ seen' \in [Names -> [EndKinds -> Nat]]
         /\ Adds(seen[n], <<d, status>>, seen'[n])
         /\ \A m \in Names : m # n => seen'[m] = seen[m]
<1>. DEFINE k == <<d, status>>
<1>1. k \in EndKinds
  BY DEF EndKinds
<1>2. seen \in [Names -> [EndKinds -> Nat]]
  BY DEF TypeOK
<1>3. seen' = [seen EXCEPT ![n] = [seen[n] EXCEPT ![k] = seen[n][k] + 1]]
  BY DEF See
<1>. DEFINE t == [seen[n] EXCEPT ![k] = seen[n][k] + 1]
<1>. HIDE DEF k
<1>4. /\ t \in [EndKinds -> Nat] /\ t[k] = seen[n][k] + 1
      /\ \A x \in EndKinds : x # k => t[x] = seen[n][x]
  <2>1. seen[n] \in [EndKinds -> Nat]
    BY <1>2
  <2>. QED
    BY <1>1, <2>1
<1>5. seen' = [seen EXCEPT ![n] = t]
  BY <1>3
<1>. HIDE DEF t
<1>6. /\ seen' \in [Names -> [EndKinds -> Nat]] /\ seen'[n] = t
      /\ \A m \in Names : m # n => seen'[m] = seen[m]
  BY <1>2, <1>4, <1>5
<1>7. Adds(seen[n], k, t)
  BY <1>2, <1>4 DEF Adds
<1>. QED
  BY <1>6, <1>7 DEF k

\* The invariant holds at the start.
LEMMA CountInit ==
  ASSUME Init
  PROVE  CountInv
<1>1. DOMAIN summaries = {} /\ summaryDropped = 0 /\ seen = [n \in Names |-> [k \in EndKinds |-> 0]]
  BY DEF Init
<1>2. TypeOK
  <2>1. Cardinality({}) = 0
    BY FS_EmptySet
  <2>2. seen \in [Names -> [EndKinds -> Nat]]
    BY <1>1
  <2>. QED
    BY <1>1, <2>1, <2>2, SummaryAssumption DEF TypeOK, Tracked
<1>3. \A n \in Names : Total(seen[n]) = 0
  <2>1. ASSUME NEW n \in Names PROVE Total(seen[n]) = 0
    <3>1. seen[n] \in [EndKinds -> Nat] /\ \A k \in EndKinds : seen[n][k] = 0
      BY <1>1
    <3>. QED
      BY <3>1, PartType
  <2>. QED
    BY <2>1
<1>4. Total([n \in Names \ DOMAIN summaries |-> Total(seen[n])]) = 0
  <2>. DEFINE D == Names \ DOMAIN summaries
              f == [n \in D |-> Total(seen[n])]
  <2>1. f \in [D -> Nat] /\ \A n \in D : f[n] = 0
    BY <1>3
  <2>2. IsFiniteSet(D)
    BY Finite, FS_Subset
  <2>3. Total(f) = SumOf(f)
    BY TotalIsSum
  <2>. HIDE DEF D, f
  <2>4. Total(f) = 0
    BY <2>1, <2>2, <2>3, SumNat
  <2>. QED
    BY <2>4 DEF D, f
<1>. QED
  BY <1>1, <1>2, <1>4 DEF CountInv, Kept, Turned

\* An end of a name that is let in.
LEMMA RecordKnownCounts ==
  ASSUME NEW n \in Names, NEW d \in Durations, NEW status \in Statuses, CountInv,
         RecordKnown(n, d, status)
  PROVE  CountInv'
<1>. DEFINE a == record(summaries[n], d, status)
<1>1. /\ n \in DOMAIN summaries /\ See(n, d, status) /\ TypeOK
      /\ summaries' = [summaries EXCEPT ![n] = a] /\ summaryDropped' = summaryDropped
  BY DEF RecordKnown, Tracked, CountInv
<1>2. /\ seen' \in [Names -> [EndKinds -> Nat]]
      /\ Adds(seen[n], <<d, status>>, seen'[n])
      /\ \A m \in Names : m # n => seen'[m] = seen[m]
  BY <1>1, Seen
<1>3. /\ DOMAIN summaries \subseteq Names /\ Cardinality(DOMAIN summaries) <= MaxSummaryNames
      /\ \A m \in DOMAIN summaries : summaries[m] \in Accumulator
      /\ summaryDropped \in Nat
  BY <1>1 DEF TypeOK, Tracked
<1>4. a \in Accumulator /\ Agrees(a, seen'[n]) /\ a.count > 0
  <2>1. PICK b : b = a
    OBVIOUS
  <2>2. PICK x : x = summaries[n]
    OBVIOUS
  <2>3. Agrees(x, seen[n]) /\ x \in Accumulator /\ b = record(x, d, status)
    BY <1>1, <1>3, <2>1, <2>2 DEF CountInv, Kept
  <2>4. b \in Accumulator /\ Agrees(b, seen'[n]) /\ b.count > 0
    BY <1>2, <2>3, RecordAgrees
  <2>. QED
    BY <2>1, <2>4
<1>. HIDE DEF a
<1>5. /\ DOMAIN summaries' = DOMAIN summaries /\ summaries'[n] = a
      /\ \A m \in DOMAIN summaries : m # n => summaries'[m] = summaries[m]
  BY <1>1
<1>6. TypeOK'
  <2>1. \A m \in DOMAIN summaries' : summaries'[m] \in Accumulator
    BY <1>3, <1>4, <1>5
  <2>. QED
    BY <1>1, <1>2, <1>3, <1>5, <2>1 DEF TypeOK, Tracked
<1>7. Kept(summaries', seen')
  <2>1. ASSUME NEW m \in DOMAIN summaries'
        PROVE  Agrees(summaries'[m], seen'[m]) /\ summaries'[m].count > 0
    <3>1. CASE m = n
      BY <1>4, <1>5, <3>1
    <3>2. CASE m # n
      BY <1>2, <1>3, <1>5, <2>1, <3>2 DEF CountInv, Kept
    <3>. QED
      BY <3>1, <3>2
  <2>. QED
    BY <2>1 DEF Kept
<1>8. Turned(summaries', summaryDropped', seen')
  <2>1. [m \in Names \ DOMAIN summaries' |-> Total(seen'[m])]
          = [m \in Names \ DOMAIN summaries |-> Total(seen[m])]
    <3>1. \A m \in Names \ DOMAIN summaries : seen'[m] = seen[m]
      BY <1>1, <1>2
    <3>. QED
      BY <1>5, <3>1
  <2>2. Turned(summaries, summaryDropped, seen)
    BY DEF CountInv
  <2>. QED
    BY <1>1, <1>5, <2>1, <2>2 DEF Turned
<1>. QED
  BY <1>6, <1>7, <1>8 DEF CountInv

\* A first end of a name, below the cap: none was dropped, so that it has had no other.
LEMMA RecordNewCounts ==
  ASSUME NEW n \in Names, NEW d \in Durations, NEW status \in Statuses, CountInv,
         RecordNew(n, d, status)
  PROVE  CountInv'
<1>. DEFINE a == record(NewAccumulator, d, status)
            D == Names \ DOMAIN summaries
            f == [m \in D |-> Total(seen[m])]
<1>1. /\ n \notin DOMAIN summaries /\ See(n, d, status) /\ TypeOK
      /\ ~(Cardinality(DOMAIN summaries) >= MaxSummaryNames)
      /\ summaries' = [m \in DOMAIN summaries \cup {n} |-> IF m = n THEN a ELSE summaries[m]]
      /\ summaryDropped' = summaryDropped
  BY DEF RecordNew, Tracked, AtCap, CountInv
<1>2. /\ seen' \in [Names -> [EndKinds -> Nat]]
      /\ Adds(seen[n], <<d, status>>, seen'[n])
      /\ \A m \in Names : m # n => seen'[m] = seen[m]
  BY <1>1, Seen
<1>3. /\ DOMAIN summaries \subseteq Names /\ Cardinality(DOMAIN summaries) <= MaxSummaryNames
      /\ \A m \in DOMAIN summaries : summaries[m] \in Accumulator
      /\ summaryDropped \in Nat /\ seen \in [Names -> [EndKinds -> Nat]]
  BY <1>1 DEF TypeOK, Tracked
<1>4. IsFiniteSet(DOMAIN summaries) /\ IsFiniteSet(D)
  BY <1>3, Finite, FS_Subset
<1>5. Cardinality(DOMAIN summaries) \in Nat
  BY <1>4, FS_CardinalityType
<1>6. summaryDropped = Total(f) /\ (summaryDropped > 0 => Cardinality(DOMAIN summaries) = MaxSummaryNames)
  BY DEF CountInv, Turned
<1>7. summaryDropped = 0
  BY <1>1, <1>3, <1>5, <1>6, SummaryAssumption
<1>8. \A m \in D : Total(seen[m]) = 0
  <2>1. \A m \in D : Total(seen[m]) \in Nat
    BY <1>3, PartType
  <2>2. f \in [D -> Nat] /\ \A m \in D : f[m] = Total(seen[m])
    BY <2>1
  <2>3. SumOf(f) = 0
    BY <1>6, <1>7, TotalIsSum
  <2>. HIDE DEF D, f
  <2>4. \A m \in D : f[m] = 0
    BY <1>4, <2>2, <2>3, SumNat
  <2>. QED
    BY <2>2, <2>4
<1>9. a \in Accumulator /\ Agrees(a, seen'[n]) /\ a.count > 0
  <2>1. PICK b : b = a
    OBVIOUS
  <2>2. PICK x : x = NewAccumulator
    OBVIOUS
  <2>3. seen[n] \in [EndKinds -> Nat] /\ Total(seen[n]) = 0
    BY <1>1, <1>3, <1>8
  <2>4. Agrees(x, seen[n]) /\ x \in Accumulator /\ b = record(x, d, status)
    BY <2>1, <2>2, <2>3, NewAgrees
  <2>5. b \in Accumulator /\ Agrees(b, seen'[n]) /\ b.count > 0
    BY <1>2, <2>4, RecordAgrees
  <2>. QED
    BY <2>1, <2>5
<1>. HIDE DEF a
<1>10. /\ DOMAIN summaries' = DOMAIN summaries \cup {n} /\ summaries'[n] = a
       /\ \A m \in DOMAIN summaries : summaries'[m] = summaries[m]
  BY <1>1
<1>11. TypeOK'
  <2>1. \A m \in DOMAIN summaries' : summaries'[m] \in Accumulator
    BY <1>3, <1>9, <1>10
  <2>2. Cardinality(DOMAIN summaries') <= MaxSummaryNames
    <3>1. Cardinality(DOMAIN summaries \cup {n}) = Cardinality(DOMAIN summaries) + 1
      BY <1>1, <1>4, FS_AddElement
    <3>. QED
      BY <1>1, <1>5, <1>10, <3>1, SummaryAssumption
  <2>3. DOMAIN summaries' \subseteq Names
    BY <1>3, <1>10
  <2>. QED
    BY <1>1, <1>2, <1>3, <2>1, <2>2, <2>3 DEF TypeOK, Tracked
<1>12. Kept(summaries', seen')
  <2>1. ASSUME NEW m \in DOMAIN summaries'
        PROVE  Agrees(summaries'[m], seen'[m]) /\ summaries'[m].count > 0
    <3>1. CASE m = n
      BY <1>9, <1>10, <3>1
    <3>2. CASE m # n
      BY <1>2, <1>3, <1>10, <2>1, <3>2 DEF CountInv, Kept
    <3>. QED
      BY <3>1, <3>2
  <2>. QED
    BY <2>1 DEF Kept
<1>13. Turned(summaries', summaryDropped', seen')
  <2>. DEFINE E == Names \ DOMAIN summaries'
              g == [m \in E |-> Total(seen'[m])]
  <2>1. E \subseteq D /\ n \notin E
    BY <1>10
  <2>2. g \in [E -> Nat] /\ \A m \in E : g[m] = 0
    BY <1>2, <1>8, <2>1
  <2>3. IsFiniteSet(E)
    BY <1>4, <2>1, FS_Subset
  <2>. HIDE DEF E, g
  <2>4. Total(g) = 0
    BY <2>2, <2>3, SumNat, TotalIsSum
  <2>. QED
    BY <1>1, <1>7, <2>4 DEF Turned, E, g
<1>. QED
  BY <1>11, <1>12, <1>13 DEF CountInv

\* An end of a name that is turned away at the cap.
LEMMA RecordOverflowCounts ==
  ASSUME NEW n \in Names, NEW d \in Durations, NEW status \in Statuses, CountInv,
         RecordOverflow(n, d, status)
  PROVE  CountInv'
<1>. DEFINE D == Names \ DOMAIN summaries
            f == [m \in D |-> Total(seen[m])]
            g == [m \in D |-> Total(seen'[m])]
<1>1. /\ n \notin DOMAIN summaries /\ See(n, d, status) /\ TypeOK
      /\ Cardinality(DOMAIN summaries) >= MaxSummaryNames
      /\ summaries' = summaries /\ summaryDropped' = summaryDropped + 1
  BY DEF RecordOverflow, Tracked, AtCap, OverflowCount, CountInv
<1>2. /\ seen' \in [Names -> [EndKinds -> Nat]]
      /\ Adds(seen[n], <<d, status>>, seen'[n])
      /\ \A m \in Names : m # n => seen'[m] = seen[m]
  BY <1>1, Seen
<1>3. /\ DOMAIN summaries \subseteq Names /\ Cardinality(DOMAIN summaries) <= MaxSummaryNames
      /\ \A m \in DOMAIN summaries : summaries[m] \in Accumulator
      /\ summaryDropped \in Nat /\ seen \in [Names -> [EndKinds -> Nat]]
  BY <1>1 DEF TypeOK, Tracked
<1>4. IsFiniteSet(DOMAIN summaries) /\ IsFiniteSet(D)
  BY <1>3, Finite, FS_Subset
<1>5. Cardinality(DOMAIN summaries) \in Nat
  BY <1>4, FS_CardinalityType
<1>6. TypeOK'
  BY <1>1, <1>2, <1>3 DEF TypeOK, Tracked
<1>7. Kept(summaries', seen')
  BY <1>1, <1>2, <1>3 DEF CountInv, Kept
<1>8. Total(g) = Total(f) + 1
  <2>1. \A m \in D : Total(seen[m]) \in Int /\ Total(seen'[m]) \in Int
    <3>1. \A m \in D : seen[m] \in [EndKinds -> Nat] /\ seen'[m] \in [EndKinds -> Nat]
      BY <1>2, <1>3
    <3>2. \A x \in [EndKinds -> Nat] : Total(x) \in Int
      BY PartType
    <3>. QED
      BY <3>1, <3>2
  <2>2. n \in D
    BY <1>1
  <2>3. Total(seen'[n]) = Total(seen[n]) + 1
    <3>1. <<d, status>> \in EndKinds
      BY DEF EndKinds
    <3>. QED
      BY <1>2, <3>1, OneMore
  <2>4. f \in [D -> Int] /\ g \in [D -> Int] /\ g[n] = f[n] + 1 /\ f[n] \in Int
    BY <2>1, <2>2, <2>3
  <2>5. \A m \in D : m # n => g[m] = f[m]
    BY <1>2
  <2>. HIDE DEF D, f, g
  <2>6. SumOf(g) = SumOf(f) + g[n] - f[n]
    BY <1>4, <2>2, <2>4, <2>5, SumChange
  <2>7. SumOf(f) \in Int
    BY <1>4, <2>4, SumType
  <2>. QED
    BY <2>4, <2>6, <2>7, TotalIsSum
<1>9. Turned(summaries', summaryDropped', seen')
  <2>1. summaryDropped = Total(f)
    BY DEF CountInv, Turned
  <2>2. summaryDropped' = Total(g)
    BY <1>1, <1>8, <2>1
  <2>3. Cardinality(DOMAIN summaries) = MaxSummaryNames
    <3>1. MaxSummaryNames \in Nat
      BY SummaryAssumption
    <3>. QED
      BY <1>1, <1>3, <1>5, <3>1
  <2>. QED
    BY <1>1, <2>2, <2>3 DEF Turned
<1>. QED
  BY <1>6, <1>7, <1>9 DEF CountInv

\* Every step keeps it.
LEMMA CountNext ==
  ASSUME CountInv, [Next]_vars
  PROVE  CountInv'
<1>1. ASSUME NEW n \in Names, NEW d \in Durations, NEW status \in Statuses,
             RecordKnown(n, d, status)
      PROVE  CountInv'
  BY <1>1, RecordKnownCounts
<1>2. ASSUME NEW n \in Names, NEW d \in Durations, NEW status \in Statuses,
             RecordNew(n, d, status)
      PROVE  CountInv'
  BY <1>2, RecordNewCounts
<1>3. ASSUME NEW n \in Names, NEW d \in Durations, NEW status \in Statuses,
             RecordOverflow(n, d, status)
      PROVE  CountInv'
  BY <1>3, RecordOverflowCounts
<1>4. ASSUME UNCHANGED vars PROVE CountInv'
  BY <1>4 DEF CountInv, TypeOK, Kept, Turned, Tracked, vars
<1>. QED
  BY <1>1, <1>2, <1>3, <1>4 DEF Next

\* So it holds throughout.
LEMMA CountHolds == Spec => []CountInv
  BY CountInit, CountNext, PTL DEF Spec

-----------------------------------------------------------------------------
(* What a reader may rely on                                               *)

\* Every accumulator holds counts and durations of their type, and there are no more
\* of them than the cap (recordCompletedSpans).
THEOREM TypeCorrect == Spec => []TypeOK
<1>1. CountInv => TypeOK
  BY DEF CountInv
<1>. QED
  BY <1>1, CountHolds, PTL

\* Count, Errors, Canceled, Min and Max are exact at every moment, and the mean as long
\* as the sum of the durations fits (record and snapshot, summary.go:11).
THEOREM ExactCorrect == Spec => []ExactFields
<1>1. CountInv => ExactFields
  <2>. DEFINE Exactly(a, s) ==
                /\ a.count = Total(s) /\ a.count = Total(a.histogram)
                /\ a.errors = Part(s, Durations \X {"error"})
                /\ a.canceled = Part(s, Durations \X {"canceled"})
                /\ a.minNanos \in Had(s) /\ a.maxNanos \in Had(s)
                /\ \A d \in Had(s) : a.minNanos <= d /\ d <= a.maxNanos
                /\ SumIn(s) <= MaxDuration => Mean(a) = SumIn(s) \div Total(s)
  <2>0. ASSUME \A n \in Tracked : Exactly(summaries[n], seen[n]) PROVE ExactFields
    <3>1. \A n \in Tracked : /\ \A K : EndsWith(n, K) = Part(seen[n], K)
                             /\ Ends(n) = Total(seen[n]) /\ SumOfEnds(n) = SumIn(seen[n])
                             /\ Having(n) = Had(seen[n])
      BY DEF EndsWith, Part, Ends, SumOfEnds, SumIn, Having, Had
    <3>. QED
      BY <2>0, <3>1 DEF ExactFields
  <2>. SUFFICES ASSUME CountInv, NEW n \in Tracked PROVE Exactly(summaries[n], seen[n])
    BY <2>0
  <2>. DEFINE a == summaries[n]
              s == seen[n]
  <2>1. Agrees(a, s) /\ a.count > 0
    BY DEF CountInv, Kept, Tracked
  <2>2. s \in [EndKinds -> Nat] /\ a \in Accumulator
    BY DEF CountInv, TypeOK, Tracked
  <2>. HIDE DEF a, s
  <2>6. SumIn(s) \in Nat
    <3>. DEFINE D == EndKinds
                f == [k \in EndKinds |-> Clamped(k[1]) * s[k]]
    <3>1. \A k \in EndKinds : Clamped(k[1]) \in Nat
      BY Finite, Powers DEF EndKinds
    <3>2. \A k \in EndKinds : Clamped(k[1]) * s[k] \in Nat
      BY <2>2, <3>1
    <3>3. f \in [D -> Nat]
      BY <3>2
    <3>4. IsFiniteSet(D) /\ SumIn(s) = SumOf(f)
      BY Finite, TotalIsSum DEF SumIn
    <3>. HIDE DEF D, f
    <3>. QED
      BY <3>3, <3>4, SumNat
  <2>7. SumIn(s) <= MaxDuration => Mean(a) = SumIn(s) \div Total(s)
    <3>. SUFFICES ASSUME SumIn(s) <= MaxDuration PROVE Mean(a) = SumIn(s) \div Total(s)
      OBVIOUS
    <3>1. a.totalNanos = SumIn(s) /\ a.count = Total(s)
      BY <2>1 DEF Agrees
    <3>. QED
      BY <2>6, <3>1 DEF Mean, Quotient
  <2>. QED
    BY <2>1, <2>7 DEF Agrees, a, s
<1>. QED
  BY <1>1, CountHolds, PTL

\* Every end event is counted in one place, an accumulator or SummaryDropped, and names
\* are turned away at the cap only (recordCompletedSpans, summary.go:90-99).
THEOREM EndsCorrect == Spec => []EveryEndCounted
<1>1. CountInv => EveryEndCounted
  <2>. SUFFICES ASSUME CountInv PROVE EveryEndCounted
    OBVIOUS
  <2>. DEFINE A == DOMAIN summaries
              B == Names \ DOMAIN summaries
              D == Names
              f == [n \in Names |-> Total(seen[n])]
              g == [n \in A |-> summaries[n].count]
              h == [n \in B |-> Total(seen[n])]
  <2>1. A \subseteq Names /\ seen \in [Names -> [EndKinds -> Nat]]
    BY DEF CountInv, TypeOK, Tracked
  <2>2. \A n \in A : summaries[n].count = Total(seen[n])
    BY DEF CountInv, Kept, Agrees
  <2>3. \A n \in Names : Total(seen[n]) \in Int
    <3>1. \A n \in Names : seen[n] \in [EndKinds -> Nat]
      BY <2>1
    <3>2. \A x \in [EndKinds -> Nat] : Total(x) \in Int
      BY PartType
    <3>. QED
      BY <3>1, <3>2
  <2>4. summaryDropped = Total(h) /\ (summaryDropped > 0 => Cardinality(A) = MaxSummaryNames)
    BY DEF CountInv, Turned
  <2>5. IsFiniteSet(A) /\ IsFiniteSet(B) /\ A \cap B = {} /\ D = A \cup B
    BY <2>1, Finite, FS_Subset
  <2>6. /\ f \in [D -> Int] /\ g \in [A -> Int] /\ h \in [B -> Int]
        /\ \A x \in A : g[x] = f[x]
        /\ \A x \in B : h[x] = f[x]
    BY <2>1, <2>2, <2>3, <2>5
  <2>7. Total(g) + summaryDropped = Total(f)
    <3>. HIDE DEF A, B, D, f, g, h
    <3>1. SumOf(f) = SumOf(g) + SumOf(h)
      BY <2>5, <2>6, SumUnion
    <3>. QED
      BY <2>4, <3>1, TotalIsSum
  <2>. QED
    BY <2>4, <2>7 DEF EveryEndCounted, Tracked, Ends
<1>. QED
  BY <1>1, CountHolds, PTL

-----------------------------------------------------------------------------
(* Percentiles                                                             *)

\* The kinds of end the buckets up to i count, and those of a duration of x at most.
UpTo(i) == {k \in EndKinds : bucketIndexForDuration(Clamped(k[1])) <= i}
AtMost(x) == {k \in EndKinds : Clamped(k[1]) <= x}

\* The ends of two parts that have no kind in common add up.
LEMMA PartUnion ==
  ASSUME NEW s \in [EndKinds -> Nat], NEW K \in SUBSET EndKinds, NEW L \in SUBSET EndKinds,
         K \cap L = {}, NEW M, M = K \cup L
  PROVE  Part(s, M) = Part(s, K) + Part(s, L)
<1>. DEFINE f == Restrict(s, M)
            g == Restrict(s, K)
            h == Restrict(s, L)
<1>1. IsFiniteSet(K) /\ IsFiniteSet(L)
  BY Finite, FS_Subset
<1>2. /\ f \in [M -> Int] /\ g \in [K -> Int] /\ h \in [L -> Int]
      /\ \A x \in K : g[x] = f[x]
      /\ \A x \in L : h[x] = f[x]
  BY DEF Restrict
<1>3. Part(s, M) = SumOf(f) /\ Part(s, K) = SumOf(g) /\ Part(s, L) = SumOf(h)
  BY TotalIsSum DEF Part
<1>. HIDE DEF f, g, h
<1>4. SumOf(f) = SumOf(g) + SumOf(h)
  BY <1>1, <1>2, SumUnion
<1>. QED
  BY <1>3, <1>4

\* A part that has every end another has is not smaller.
LEMMA PartGrows ==
  ASSUME NEW s \in [EndKinds -> Nat], NEW K \in SUBSET EndKinds, NEW L \in SUBSET EndKinds,
         \A k \in K : s[k] # 0 => k \in L
  PROVE  Part(s, K) <= Part(s, L)
<1>. DEFINE B == K \cap L
            C == K \ L
            D == L \ K
<1>1. /\ B \in SUBSET EndKinds /\ C \in SUBSET EndKinds /\ D \in SUBSET EndKinds
      /\ B \cap C = {} /\ B \cap D = {} /\ K = B \cup C /\ L = B \cup D
      /\ \A k \in C : s[k] = 0
  OBVIOUS
<1>. HIDE DEF B, C, D
<1>2. Part(s, K) = Part(s, B) + Part(s, C)
  BY <1>1, PartUnion
<1>3. Part(s, L) = Part(s, B) + Part(s, D)
  BY <1>1, PartUnion
<1>4. Part(s, C) = 0
  BY <1>1, PartType
<1>5. Part(s, B) \in Nat /\ Part(s, D) \in Nat
  BY <1>1, PartType
<1>. QED
  BY <1>2, <1>3, <1>4, <1>5

\* All the kinds have all the ends.
LEMMA PartWhole ==
  ASSUME NEW s \in [EndKinds -> Nat]
  PROVE  Part(s, EndKinds) = Total(s)
<1>1. Restrict(s, EndKinds) = s
  BY DEF Restrict
<1>. QED
  BY <1>1 DEF Part

\* The durations had are those of the kinds that had an end.
LEMMA HadBy ==
  ASSUME NEW s \in [EndKinds -> Nat]
  PROVE  /\ \A k \in EndKinds : s[k] # 0 => Clamped(k[1]) \in Had(s)
         /\ Had(s) \in SUBSET Nat /\ IsFiniteSet(Had(s)) /\ Had(s) \subseteq 0..MaxDuration
<1>1. ASSUME NEW k \in EndKinds, s[k] # 0 PROVE Clamped(k[1]) \in Had(s)
  <2>. DEFINE e == k[1]
              K == {e} \X Statuses
  <2>1. e \in Durations /\ K \in SUBSET EndKinds /\ k \in K
    BY DEF EndKinds
  <2>2. Part(s, K) > 0
    <3>. HIDE DEF K
    <3>1. Part(s, K) \in Nat /\ Part(s, K) # 0
      BY <1>1, <2>1, PartType
    <3>. QED
      BY <3>1
  <2>. HIDE DEF e
  <2>3. Part(s, {e} \X Statuses) > 0
    BY <2>2
  <2>4. Clamped(e) \in Had(s)
    BY <2>1, <2>3 DEF Had
  <2>. QED
    BY <2>4 DEF e
<1>2. Had(s) \subseteq 0..MaxDuration
  BY Finite DEF Had
<1>3. MaxDuration \in Nat
  BY Powers
<1>4. IsFiniteSet(0..MaxDuration) /\ 0..MaxDuration \in SUBSET Nat
  BY <1>3, FS_Interval
<1>. QED
  BY <1>1, <1>2, <1>4, FS_Subset

\* The recursion of percentile sums the buckets up to each; its answer is the midpoint
\* of the first at which that sum reaches the rank.
LEMMA PercentileIs ==
  ASSUME NEW s \in [EndKinds -> Nat], NEW hist \in [Buckets -> Nat],
         \A i \in Buckets : hist[i] = Part(s, InBucket(i)),
         NEW n, NEW percent, NEW r, r = TargetRank(percent, n),
         NEW b \in Buckets, Part(s, UpTo(b)) >= r,
         \A j \in Buckets : Part(s, UpTo(j)) >= r => b <= j
  PROVE  percentile(hist, n, percent) = durationForBucketIndex(b)
<1>. DEFINE From(f, i) == hist[i] + (IF i = 0 THEN 0 ELSE f[i - 1])
            Runs(f) == f = [i \in Buckets |-> From(f, i)]
            cumulative == CHOOSE f : Runs(f)
            sums == [i \in Buckets |-> Part(s, UpTo(i))]
<1>1. \A i \in Buckets : i \in Nat /\ (i # 0 => i - 1 \in Buckets)
  BY WidthAssumption DEF Buckets, BucketCount
<1>2. \A i : UpTo(i) \in SUBSET EndKinds /\ InBucket(i) \in SUBSET EndKinds
  BY DEF UpTo, InBucket
<1>3. \A k \in EndKinds : bucketIndexForDuration(Clamped(k[1])) \in Nat
  <2>1. \A k \in EndKinds : Clamped(k[1]) \in 0..MaxDuration
    BY Finite DEF EndKinds
  <2>2. \A x \in 0..MaxDuration : bucketIndexForDuration(x) \in Nat
    BY <1>1, BucketType
  <2>. QED
    BY <2>1, <2>2
<1>4. ASSUME NEW i \in Buckets PROVE sums[i] = From(sums, i)
  <2>1. CASE i = 0
    <3>1. UpTo(i) = InBucket(i)
      BY <1>3, <2>1 DEF UpTo, InBucket
    <3>2. hist[i] \in Nat /\ hist[i] = Part(s, UpTo(i))
      BY <3>1
    <3>. QED
      BY <2>1, <3>2
  <2>2. CASE i # 0
    <3>1. i - 1 \in Buckets /\ i \in Nat
      BY <1>1, <2>2
    <3>2. UpTo(i) = InBucket(i) \cup UpTo(i - 1) /\ InBucket(i) \cap UpTo(i - 1) = {}
      <4>. DEFINE at == [k \in EndKinds |-> bucketIndexForDuration(Clamped(k[1]))]
      <4>1. at \in [EndKinds -> Nat]
        BY <1>3
      <4>2. /\ UpTo(i) = {k \in EndKinds : at[k] <= i}
            /\ UpTo(i - 1) = {k \in EndKinds : at[k] <= i - 1}
            /\ InBucket(i) = {k \in EndKinds : at[k] = i}
        BY DEF UpTo, InBucket
      <4>. HIDE DEF at
      <4>3. \A k \in EndKinds : at[k] \in Nat /\ (at[k] <= i <=> at[k] = i \/ at[k] <= i - 1)
                                /\ ~(at[k] = i /\ at[k] <= i - 1)
        BY <3>1, <4>1
      <4>. QED
        BY <4>2, <4>3
    <3>. DEFINE K == InBucket(i)
                L == UpTo(i - 1)
                M == UpTo(i)
    <3>3. K \in SUBSET EndKinds /\ L \in SUBSET EndKinds /\ K \cap L = {} /\ M = K \cup L
      BY <1>2, <3>2
    <3>. HIDE DEF K, L, M
    <3>4. Part(s, M) = Part(s, K) + Part(s, L)
      BY <3>3, PartUnion
    <3>5. sums[i] = Part(s, M) /\ sums[i - 1] = Part(s, L) /\ hist[i] = Part(s, K)
      BY <3>1 DEF K, L, M
    <3>. HIDE DEF sums
    <3>. QED
      BY <2>2, <3>4, <3>5
  <2>. QED
    BY <2>1, <2>2
<1>5. Runs(sums)
  <2>1. sums = [i \in Buckets |-> sums[i]]
    OBVIOUS
  <2>2. [i \in Buckets |-> sums[i]] = [i \in Buckets |-> From(sums, i)]
    <3>. HIDE DEF sums
    <3>. QED
      BY <1>4
  <2>. QED
    BY <2>1, <2>2
<1>6. cumulative = [i \in Buckets |-> From(cumulative, i)]
  <2>. HIDE DEF sums
  <2>1. \E f : Runs(f)
    BY <1>5
  <2>2. Runs(cumulative)
    BY <2>1
  <2>. QED
    BY <2>2
<1>7. \A i \in Buckets : cumulative[i] = sums[i]
  <2>. DEFINE T == {k \in Nat : k \in Buckets => cumulative[k] = sums[k]}
  <2>. HIDE DEF cumulative, sums
  <2>1. 0 \in T
    BY <1>4, <1>6
  <2>2. ASSUME NEW k \in Nat, k \in T PROVE k + 1 \in T
    <3>1. ASSUME k + 1 \in Buckets PROVE cumulative[k + 1] = sums[k + 1]
      <4>1. k \in Buckets /\ (k + 1) - 1 = k /\ k + 1 # 0
        <5>1. (k + 1) - 1 = k /\ k + 1 # 0
          OBVIOUS
        <5>2. (k + 1) - 1 \in Buckets
          BY <1>1, <3>1, <5>1, Zenon
        <5>. QED
          BY <5>1, <5>2
      <4>2. cumulative[k] = sums[k]
        BY <2>2, <4>1
      <4>3. cumulative[k + 1] = From(cumulative, k + 1) /\ sums[k + 1] = From(sums, k + 1)
        BY <1>4, <1>6, <3>1
      <4>. QED
        BY <4>1, <4>2, <4>3
    <3>. QED
      BY <3>1
  <2>3. \A k \in Nat : k \in T
    <3>. HIDE DEF T
    <3>. QED
      BY <2>1, <2>2, NatInductionSet
  <2>. QED
    BY <1>1, <2>3
<1>. DEFINE reached == {i \in Buckets : cumulative[i] >= TargetRank(percent, n)}
<1>8. percentile(hist, n, percent)
        = durationForBucketIndex(CHOOSE i \in reached : \A j \in reached : i <= j)
  BY DEF percentile
<1>9. \A i \in Buckets : cumulative[i] = Part(s, UpTo(i))
  BY <1>7
<1>. HIDE DEF cumulative
<1>10. b \in reached /\ \A j \in reached : b <= j
  BY <1>9
<1>11. \A j \in reached : j \in Int
  BY <1>1
<1>. HIDE DEF reached
<1>12. (CHOOSE i \in reached : \A j \in reached : i <= j) = b
  <2>. DEFINE c == CHOOSE i \in reached : \A j \in reached : i <= j
  <2>1. c \in reached /\ \A j \in reached : c <= j
    BY <1>10
  <2>. HIDE DEF c
  <2>2. c = b
    BY <1>10, <1>11, <2>1
  <2>. QED
    BY <2>2 DEF c
<1>. QED
  BY <1>8, <1>12

\* The duration of the nearest rank, and the first bucket to reach that rank.
IsRank(x, s, r) ==
  /\ x \in Had(s) /\ Part(s, AtMost(x)) >= r
  /\ \A y \in Had(s) : Part(s, AtMost(y)) >= r => x <= y

\* There is one for every rank, and its bucket is the first to reach the rank.
LEMMA RankBucket ==
  ASSUME NEW s \in [EndKinds -> Nat], NEW r \in Nat, 1 <= r, r <= Total(s)
  PROVE  \E x : /\ IsRank(x, s, r)
                /\ Part(s, UpTo(bucketIndexForDuration(x))) >= r
                /\ \A j \in Buckets : Part(s, UpTo(j)) >= r => bucketIndexForDuration(x) <= j
<1>. DEFINE H == Had(s)
            G == {x \in H : Part(s, AtMost(x)) >= r}
<1>1. /\ \A k \in EndKinds : s[k] # 0 => Clamped(k[1]) \in H
      /\ H \in SUBSET Nat /\ IsFiniteSet(H) /\ H \subseteq 0..MaxDuration
  BY HadBy
<1>2. \A K \in SUBSET EndKinds : Part(s, K) \in Nat /\ (Part(s, K) = 0 <=> \A k \in K : s[k] = 0)
  BY PartType
<1>3. \A i : UpTo(i) \in SUBSET EndKinds /\ AtMost(i) \in SUBSET EndKinds
  BY DEF UpTo, AtMost
<1>4. \A x \in 0..MaxDuration : bucketIndexForDuration(x) \in Nat
  BY BucketType DEF Buckets
<1>5. \A k \in EndKinds : Clamped(k[1]) \in 0..MaxDuration
  BY Finite DEF EndKinds
<1>. HIDE DEF H
<1>6. G # {}
  <2>1. Total(s) \in Nat /\ \E k \in EndKinds : s[k] # 0
    <3>1. Total(s) \in Nat /\ (Total(s) = 0 <=> \A k \in EndKinds : s[k] = 0)
      BY PartType
    <3>2. Total(s) # 0
      BY <3>1
    <3>. QED
      BY <3>1, <3>2
  <2>2. H # {}
    BY <1>1, <2>1
  <2>3. PICK x \in H : \A y \in H : y <= x
    BY <1>1, <2>2, MaxOf
  <2>4. \A k \in EndKinds : s[k] # 0 => k \in AtMost(x)
    BY <1>1, <2>3 DEF AtMost
  <2>. DEFINE K == EndKinds
              L == AtMost(x)
  <2>5. K \in SUBSET EndKinds /\ L \in SUBSET EndKinds /\ \A k \in K : s[k] # 0 => k \in L
    BY <1>3, <2>4
  <2>. HIDE DEF K, L
  <2>6. Part(s, K) <= Part(s, L)
    BY <2>5, PartGrows
  <2>7. Total(s) <= Part(s, L)
    BY <2>6, PartWhole DEF K
  <2>8. Part(s, L) \in Nat
    BY <1>2, <2>5
  <2>9. Part(s, AtMost(x)) >= r
    BY <2>1, <2>7, <2>8 DEF L
  <2>. QED
    BY <2>3, <2>9
<1>7. G \in SUBSET Nat
  BY <1>1
<1>8. PICK x \in G : \A y \in G : x <= y
  <2>. HIDE DEF G
  <2>. QED
    BY <1>6, <1>7, LeastOf
<1>9. IsRank(x, s, r)
  BY <1>8 DEF IsRank, H
<1>10. x \in H /\ Part(s, AtMost(x)) >= r /\ x \in 0..MaxDuration
  BY <1>1, <1>8
<1>11. PICK b : b = bucketIndexForDuration(x)
  OBVIOUS
<1>12. b \in Nat /\ x \in Nat
  BY <1>4, <1>10, <1>11
<1>13. Part(s, UpTo(b)) >= r
  <2>1. ASSUME NEW k \in AtMost(x) PROVE k \in UpTo(b)
    <3>. DEFINE c == Clamped(k[1])
    <3>1. k \in EndKinds /\ c <= x /\ c \in 0..MaxDuration
      BY <1>5 DEF AtMost
    <3>2. bucketIndexForDuration(c) <= b
      <4>. HIDE DEF c
      <4>. QED
        BY <1>10, <1>11, <3>1, BucketsGrow
    <3>. QED
      BY <3>1, <3>2 DEF UpTo
  <2>. DEFINE K == AtMost(x)
              L == UpTo(b)
  <2>2. K \in SUBSET EndKinds /\ L \in SUBSET EndKinds /\ \A k \in K : s[k] # 0 => k \in L
    BY <1>3, <2>1
  <2>. HIDE DEF K, L
  <2>3. Part(s, K) <= Part(s, L)
    BY <2>2, PartGrows
  <2>4. Part(s, K) \in Nat /\ Part(s, L) \in Nat /\ Part(s, K) >= r
    BY <1>2, <1>10, <2>2 DEF K
  <2>5. Part(s, L) >= r
    BY <2>3, <2>4
  <2>. QED
    BY <2>5 DEF L
<1>14. ASSUME NEW j \in Buckets, Part(s, UpTo(j)) >= r PROVE b <= j
  <2>. DEFINE Y == {y \in H : bucketIndexForDuration(y) <= j}
  <2>1. j \in Nat
    BY DEF Buckets
  <2>2. PICK k \in UpTo(j) : s[k] # 0
    <3>1. Part(s, UpTo(j)) \in Nat /\ Part(s, UpTo(j)) # 0
      BY <1>2, <1>3, <1>14
    <3>. QED
      BY <1>2, <1>3, <3>1
  <2>3. Y \in SUBSET Nat /\ IsFiniteSet(Y)
    BY <1>1, FS_Subset
  <2>4. Y # {}
    BY <1>1, <2>2 DEF UpTo
  <2>5. PICK y \in Y : \A z \in Y : z <= y
    <3>. HIDE DEF Y
    <3>. QED
      BY <2>3, <2>4, MaxOf
  <2>6. y \in H /\ bucketIndexForDuration(y) <= j /\ y \in 0..MaxDuration
    BY <1>1, <2>5
  <2>7. \A m \in UpTo(j) : s[m] # 0 => m \in AtMost(y)
    BY <1>1, <2>5 DEF UpTo, AtMost
  <2>. DEFINE K == UpTo(j)
              L == AtMost(y)
  <2>8. K \in SUBSET EndKinds /\ L \in SUBSET EndKinds /\ \A m \in K : s[m] # 0 => m \in L
    BY <1>3, <2>7
  <2>. HIDE DEF K, L
  <2>9. Part(s, K) <= Part(s, L)
    BY <2>8, PartGrows
  <2>10. Part(s, K) \in Nat /\ Part(s, L) \in Nat /\ Part(s, K) >= r
    BY <1>2, <1>14, <2>8 DEF K
  <2>11. Part(s, AtMost(y)) >= r
    BY <2>9, <2>10 DEF L
  <2>12. x <= y
    BY <1>8, <2>6, <2>11
  <2>13. bucketIndexForDuration(x) <= bucketIndexForDuration(y)
    BY <1>10, <2>6, <2>12, BucketsGrow
  <2>14. bucketIndexForDuration(y) \in Nat
    BY <1>4, <2>6
  <2>. QED
    BY <1>11, <1>12, <2>1, <2>6, <2>13, <2>14
<1>. QED
  BY <1>9, <1>11, <1>13, <1>14

\* The ranks of the percentiles a summary reports lie among the ends and are ordered.
LEMMA Ranks ==
  ASSUME NEW n \in Nat, n > 0
  PROVE  /\ \A percent \in {50, 90, 99} : TargetRank(percent, n) \in 1..n
         /\ TargetRank(50, n) <= TargetRank(90, n) /\ TargetRank(90, n) <= TargetRank(99, n)
<1>1. \A percent : TargetRank(percent, n) = (percent * n + 99) \div 100
  BY DEF TargetRank
<1>2. /\ (50 * n + 99) \div 100 \in 1..n /\ (90 * n + 99) \div 100 \in 1..n
      /\ (99 * n + 99) \div 100 \in 1..n
  OBVIOUS
<1>3. /\ (50 * n + 99) \div 100 <= (90 * n + 99) \div 100
      /\ (90 * n + 99) \div 100 <= (99 * n + 99) \div 100
  OBVIOUS
<1>. QED
  BY <1>1, <1>2, <1>3

\* A longer duration has no lesser midpoint.
LEMMA MidpointsGrow ==
  ASSUME NEW d \in 0..MaxDuration, NEW e \in 0..MaxDuration, d <= e,
         NEW i, i = bucketIndexForDuration(d), NEW j, j = bucketIndexForDuration(e)
  PROVE  durationForBucketIndex(i) <= durationForBucketIndex(j)
<1>1. PICK m : m = durationForBucketIndex(i)
  OBVIOUS
<1>2. PICK p : p = durationForBucketIndex(j)
  OBVIOUS
<1>3. m \in 1..MaxDuration /\ bucketIndexForDuration(m) = i
  BY <1>1, BucketMidpoint
<1>4. p \in 1..MaxDuration /\ bucketIndexForDuration(p) = j
  BY <1>2, BucketMidpoint
<1>5. MaxDuration \in Nat
  BY Powers
<1>6. m \in 0..MaxDuration /\ p \in 0..MaxDuration /\ m \in Int /\ p \in Int
  BY <1>3, <1>4, <1>5
<1>7. i <= j /\ i \in Int /\ j \in Int
  <2>1. i \in Buckets /\ j \in Buckets
    BY BucketType
  <2>. QED
    BY <2>1, BucketsGrow DEF Buckets
<1>8. p < m => j <= i
  BY <1>3, <1>4, <1>6, BucketsGrow
<1>9. p < m => m = p
  BY <1>1, <1>2, <1>7, <1>8
<1>. QED
  BY <1>1, <1>2, <1>6, <1>9

\* A percentile a summary reports: the midpoint of the bucket of the nearest rank.
LEMMA ReportedIs ==
  ASSUME NEW a \in Accumulator, NEW s \in [EndKinds -> Nat], Agrees(a, s), a.count > 0,
         NEW percent \in {50, 90, 99}
  PROVE  \E x \in Had(s) :
           /\ IsRank(x, s, TargetRank(percent, a.count))
           /\ Reported(a, percent) = clampDuration(durationForBucketIndex(bucketIndexForDuration(x)),
                                                   a.minNanos, a.maxNanos)
<1>1. /\ a.count \in Nat /\ a.count = Total(s) /\ a.histogram \in [Buckets -> Nat]
      /\ \A i \in Buckets : a.histogram[i] = Part(s, InBucket(i))
  BY DEF Agrees, Accumulator
<1>2. PICK r : r = TargetRank(percent, a.count)
  OBVIOUS
<1>3. r \in 1..a.count
  BY <1>1, <1>2, Ranks
<1>4. r \in Nat /\ 1 <= r /\ r <= Total(s)
  BY <1>1, <1>3
<1>5. PICK x : /\ IsRank(x, s, r)
               /\ Part(s, UpTo(bucketIndexForDuration(x))) >= r
               /\ \A j \in Buckets : Part(s, UpTo(j)) >= r => bucketIndexForDuration(x) <= j
  BY <1>4, RankBucket
<1>6. x \in Had(s) /\ x \in 0..MaxDuration
  <2>1. Had(s) \subseteq 0..MaxDuration
    BY HadBy
  <2>. QED
    BY <1>5, <2>1 DEF IsRank
<1>7. PICK b : b = bucketIndexForDuration(x)
  OBVIOUS
<1>8. b \in Buckets
  BY <1>6, <1>7, BucketType
<1>9. PICK hist : hist = a.histogram
  OBVIOUS
<1>10. PICK n : n = a.count
  OBVIOUS
<1>11. percentile(hist, n, percent) = durationForBucketIndex(b)
  <2>1. hist \in [Buckets -> Nat] /\ \A i \in Buckets : hist[i] = Part(s, InBucket(i))
    BY <1>1, <1>9
  <2>2. r = TargetRank(percent, n)
    BY <1>2, <1>10
  <2>3. Part(s, UpTo(b)) >= r /\ \A j \in Buckets : Part(s, UpTo(j)) >= r => b <= j
    BY <1>5, <1>7
  <2>. QED
    BY <1>8, <2>1, <2>2, <2>3, PercentileIs
<1>. QED
  BY <1>2, <1>5, <1>6, <1>7, <1>9, <1>10, <1>11 DEF Reported

\* A smaller rank is not the rank of a longer duration.
LEMMA RanksGrow ==
  ASSUME NEW s \in [EndKinds -> Nat], NEW q \in Nat, NEW r \in Nat, q <= r,
         NEW x, IsRank(x, s, q), NEW y, IsRank(y, s, r)
  PROVE  x <= y
<1>1. AtMost(y) \in SUBSET EndKinds
  BY DEF AtMost
<1>2. Part(s, AtMost(y)) \in Nat /\ Part(s, AtMost(y)) >= r /\ y \in Had(s)
  BY <1>1, PartType DEF IsRank
<1>3. Part(s, AtMost(y)) >= q
  BY <1>2
<1>. QED
  BY <1>2, <1>3 DEF IsRank

\* A close value between the bounds of an exact one is close to it when it is clamped.
LEMMA ClampClose ==
  ASSUME NEW m \in Nat, NEW low \in Nat, NEW high \in Nat, NEW x \in Nat,
         low <= x, x <= high, Close(m, x)
  PROVE  Close(clampDuration(m, low, high), x)
<1>. DEFINE c == clampDuration(m, low, high)
<1>1. \/ c = low /\ m < low
      \/ c = high /\ high < m
      \/ c = m
  BY DEF clampDuration
<1>. HIDE DEF c
<1>. QED
  BY <1>1 DEF Close, c

\* What a reader is told of a percentile is the exact one but for an eighth, within the
\* bounds and in order.
LEMMA ReportedClose ==
  ASSUME NEW a \in Accumulator, NEW s \in [EndKinds -> Nat], Agrees(a, s), a.count > 0
  PROVE  /\ \A percent \in {50, 90, 99} : \E x \in Had(s) :
              IsRank(x, s, TargetRank(percent, a.count)) /\ Close(Reported(a, percent), x)
         /\ a.minNanos <= Reported(a, 50) /\ Reported(a, 50) <= Reported(a, 90)
         /\ Reported(a, 90) <= Reported(a, 99) /\ Reported(a, 99) <= a.maxNanos
<1>. DEFINE Mid(x) == durationForBucketIndex(bucketIndexForDuration(x))
<1>1. /\ a.minNanos \in 0..MaxDuration /\ a.maxNanos \in 0..MaxDuration
      /\ a.count \in Nat /\ MaxDuration \in Nat
  BY Powers DEF Accumulator
<1>2. Had(s) \subseteq 0..MaxDuration
  BY HadBy
<1>3. /\ \A x \in Had(s) : a.minNanos <= x /\ x <= a.maxNanos
      /\ a.minNanos \in Had(s)
  BY DEF Agrees
<1>4. a.minNanos <= a.maxNanos /\ a.minNanos \in Nat /\ a.maxNanos \in Nat
  BY <1>1, <1>3
<1>5. ASSUME NEW x \in Had(s) PROVE Mid(x) \in Nat /\ Close(Mid(x), x)
  <2>1. x \in 0..MaxDuration
    BY <1>2
  <2>2. PICK i : i = bucketIndexForDuration(x)
    OBVIOUS
  <2>3. durationForBucketIndex(i) \in 1..MaxDuration /\ Close(durationForBucketIndex(i), x)
    BY <2>1, <2>2, BucketMidpoint
  <2>. QED
    BY <1>1, <2>2, <2>3
<1>6. ASSUME NEW x \in Had(s), NEW y \in Had(s), x <= y PROVE Mid(x) <= Mid(y)
  <2>1. x \in 0..MaxDuration /\ y \in 0..MaxDuration
    BY <1>2
  <2>2. PICK i : i = bucketIndexForDuration(x)
    OBVIOUS
  <2>3. PICK j : j = bucketIndexForDuration(y)
    OBVIOUS
  <2>4. durationForBucketIndex(i) <= durationForBucketIndex(j)
    BY <1>6, <2>1, <2>2, <2>3, MidpointsGrow
  <2>. QED
    BY <2>2, <2>3, <2>4
<1>. HIDE DEF Mid
<1>7. \A percent \in {50, 90, 99} : \E x \in Had(s) :
        /\ IsRank(x, s, TargetRank(percent, a.count))
        /\ Reported(a, percent) = clampDuration(Mid(x), a.minNanos, a.maxNanos)
  BY ReportedIs DEF Mid
<1>8. ASSUME NEW percent \in {50, 90, 99}
      PROVE  \E x \in Had(s) :
               IsRank(x, s, TargetRank(percent, a.count)) /\ Close(Reported(a, percent), x)
  <2>1. PICK x \in Had(s) :
          /\ IsRank(x, s, TargetRank(percent, a.count))
          /\ Reported(a, percent) = clampDuration(Mid(x), a.minNanos, a.maxNanos)
    BY <1>7
  <2>2. PICK m : m = Mid(x)
    OBVIOUS
  <2>3. PICK low : low = a.minNanos
    OBVIOUS
  <2>4. PICK high : high = a.maxNanos
    OBVIOUS
  <2>5. x \in Nat /\ m \in Nat /\ low \in Nat /\ high \in Nat
    BY <1>1, <1>2, <1>4, <1>5, <2>2, <2>3, <2>4
  <2>6. low <= x /\ x <= high /\ Close(m, x)
    BY <1>3, <1>5, <2>2, <2>3, <2>4
  <2>7. Close(clampDuration(m, low, high), x)
    BY <2>5, <2>6, ClampClose
  <2>. QED
    BY <2>1, <2>2, <2>3, <2>4, <2>7
<1>9. PICK x \in Had(s) : /\ IsRank(x, s, TargetRank(50, a.count))
                          /\ Reported(a, 50) = clampDuration(Mid(x), a.minNanos, a.maxNanos)
  BY <1>7
<1>10. PICK y \in Had(s) : /\ IsRank(y, s, TargetRank(90, a.count))
                           /\ Reported(a, 90) = clampDuration(Mid(y), a.minNanos, a.maxNanos)
  BY <1>7
<1>11. PICK z \in Had(s) : /\ IsRank(z, s, TargetRank(99, a.count))
                           /\ Reported(a, 99) = clampDuration(Mid(z), a.minNanos, a.maxNanos)
  BY <1>7
<1>12. x <= y /\ y <= z
  <2>1. PICK q : q = TargetRank(50, a.count)
    OBVIOUS
  <2>2. PICK r : r = TargetRank(90, a.count)
    OBVIOUS
  <2>3. PICK t : t = TargetRank(99, a.count)
    OBVIOUS
  <2>4. q \in 1..a.count /\ r \in 1..a.count /\ t \in 1..a.count /\ q <= r /\ r <= t
    BY <1>1, <2>1, <2>2, <2>3, Ranks
  <2>5. q \in Nat /\ r \in Nat /\ t \in Nat
    BY <1>1, <2>4
  <2>6. IsRank(x, s, q) /\ IsRank(y, s, r) /\ IsRank(z, s, t)
    BY <1>9, <1>10, <1>11, <2>1, <2>2, <2>3
  <2>7. x <= y
    BY <2>4, <2>5, <2>6, RanksGrow
  <2>8. y <= z
    BY <2>4, <2>5, <2>6, RanksGrow
  <2>. QED
    BY <2>7, <2>8
<1>13. /\ Mid(x) <= Mid(y) /\ Mid(y) <= Mid(z)
       /\ Mid(x) \in Nat /\ Mid(y) \in Nat /\ Mid(z) \in Nat
  BY <1>5, <1>6, <1>12
<1>14. ASSUME NEW m \in Nat, NEW p \in Nat, m <= p, NEW low \in Nat, NEW high \in Nat, low <= high
       PROVE  /\ low <= clampDuration(m, low, high) /\ clampDuration(m, low, high) <= high
              /\ clampDuration(m, low, high) <= clampDuration(p, low, high)
  BY <1>14 DEF clampDuration
<1>. QED
  BY <1>4, <1>8, <1>9, <1>10, <1>11, <1>13, <1>14

\* The reference counts the ends one by one: it is the duration of the nearest rank.
LEMMA ExactIs ==
  ASSUME NEW n \in Names, NEW s \in [EndKinds -> Nat], s = seen[n], NEW percent,
         NEW r, r = TargetRank(percent, Ends(n)), NEW x, IsRank(x, s, r)
  PROVE  Exact(n, percent) = x
<1>. DEFINE Below(d) == EndsWith(n, {e \in Durations : e <= d} \X Statuses)
            Best(d) == /\ Below(d) >= r
                       /\ \A e \in Had(s) : Below(e) >= r => d <= e
            y == CHOOSE d \in Had(s) : Best(d)
<1>1. Had(s) \subseteq 0..MaxDuration /\ MaxDuration \in Nat
  BY HadBy, Powers
<1>2. ASSUME NEW d \in Had(s) PROVE Below(d) = Part(s, AtMost(d))
  <2>1. d \in Nat
    BY <1>1
  <2>2. \A e \in Durations : e <= d <=> Clamped(e) <= d
    BY <2>1, Finite DEF Clamped
  <2>3. {e \in Durations : e <= d} \X Statuses = AtMost(d)
    <3>1. ASSUME NEW k \in EndKinds
          PROVE  k \in {e \in Durations : e <= d} \X Statuses <=> k \in AtMost(d)
      <4>1. k[1] \in Durations /\ k[2] \in Statuses /\ k = <<k[1], k[2]>>
        BY DEF EndKinds
      <4>2. k \in AtMost(d) <=> k[1] <= d
        BY <2>2, <4>1 DEF AtMost
      <4>3. k \in {e \in Durations : e <= d} \X Statuses <=> k[1] <= d
        BY <4>1
      <4>. QED
        BY <4>2, <4>3
    <3>2. {e \in Durations : e <= d} \X Statuses \subseteq EndKinds /\ AtMost(d) \subseteq EndKinds
      BY DEF EndKinds, AtMost
    <3>. QED
      BY <3>1, <3>2
  <2>. QED
    BY <2>3 DEF EndsWith, Part
<1>3. Exact(n, percent) = y
  BY DEF Exact, Having, Had, EndsWith, Part
<1>4. x \in Had(s) /\ Best(x)
  BY <1>2 DEF IsRank
<1>. HIDE DEF Below
<1>5. y \in Had(s) /\ Best(y)
  BY <1>4
<1>. HIDE DEF y
<1>6. x <= y /\ y <= x
  BY <1>4, <1>5
<1>7. x \in Nat /\ y \in Nat
  BY <1>1, <1>4, <1>5
<1>. QED
  BY <1>3, <1>6, <1>7

\* Every percentile a reader is given is within an eighth of the exact one, between the
\* least and the greatest duration, and in order with the others, for integers of any
\* width (percentile and snapshot, summary.go:159-163, 207-209).
THEOREM PercentilesCorrect == Spec => []PercentilesClose
<1>1. CountInv => PercentilesClose
  <2>. SUFFICES ASSUME CountInv, NEW n \in Tracked
                PROVE  /\ \A percent \in {50, 90, 99} :
                            Close(Reported(summaries[n], percent), Exact(n, percent))
                       /\ summaries[n].minNanos <= Reported(summaries[n], 50)
                       /\ Reported(summaries[n], 50) <= Reported(summaries[n], 90)
                       /\ Reported(summaries[n], 90) <= Reported(summaries[n], 99)
                       /\ Reported(summaries[n], 99) <= summaries[n].maxNanos
    BY BucketsAlwaysCover DEF PercentilesClose
  <2>1. PICK a : a = summaries[n]
    OBVIOUS
  <2>2. PICK s : s = seen[n]
    OBVIOUS
  <2>3. n \in Names /\ s \in [EndKinds -> Nat] /\ a \in Accumulator
    BY <2>1, <2>2 DEF CountInv, TypeOK, Tracked
  <2>4. Agrees(a, s) /\ a.count > 0
    BY <2>1, <2>2 DEF CountInv, Kept, Tracked
  <2>5. a.count = Ends(n)
    BY <2>2, <2>4 DEF Agrees, Ends
  <2>6. /\ \A percent \in {50, 90, 99} : \E x \in Had(s) :
             IsRank(x, s, TargetRank(percent, a.count)) /\ Close(Reported(a, percent), x)
        /\ a.minNanos <= Reported(a, 50) /\ Reported(a, 50) <= Reported(a, 90)
        /\ Reported(a, 90) <= Reported(a, 99) /\ Reported(a, 99) <= a.maxNanos
    BY <2>3, <2>4, ReportedClose
  <2>7. ASSUME NEW percent \in {50, 90, 99} PROVE Close(Reported(a, percent), Exact(n, percent))
    <3>1. PICK x \in Had(s) : /\ IsRank(x, s, TargetRank(percent, a.count))
                              /\ Close(Reported(a, percent), x)
      BY <2>6
    <3>2. PICK r : r = TargetRank(percent, a.count)
      OBVIOUS
    <3>3. Exact(n, percent) = x
      BY <2>2, <2>3, <2>5, <3>1, <3>2, ExactIs
    <3>. QED
      BY <3>1, <3>3
  <2>. QED
    BY <2>1, <2>6, <2>7
<1>. QED
  BY <1>1, CountHolds, PTL
=============================================================================
