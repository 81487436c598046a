----------------------------- MODULE Histogram ------------------------------
(***************************************************************************)
(* The log-bucketed histogram of a summary (summary.go): durations of 1 to *)
(* 7 ns have a bucket each, every higher power of two is split into four.  *)
(* Durations are signed integers of Width bits; the code's have 64.        *)
(***************************************************************************)
EXTENDS Int64

MaxDuration == MaxInt
BucketCount == 7 + (Width - 4) * 4
Buckets == 0..BucketCount - 1

-----------------------------------------------------------------------------
(* Seeded faults, used by mutation checks only                             *)

\* The lower edge of the bucket in place of its midpoint.
BucketEdge(i) ==
  IF i < 7 THEN i + 1
  ELSE LET octave == ((i - 7) \div 4) + 3
       IN  2^octave + ((i - 7) % 4) * 2^(octave - 2)

-----------------------------------------------------------------------------
\* bits.Len64(v) - 1
Octave(v) == CHOOSE o \in 0..Width - 2 : 2^o <= v /\ v < 2^(o + 1)

bucketIndexForDuration(d) ==
  IF d < 8 THEN (IF d < 1 THEN 1 ELSE d) - 1
  ELSE LET octave == Octave(d)
       IN  7 + (octave - 3) * 4 + ((d \div 2^(octave - 2)) % 4)

durationForBucketIndex(i) ==
  IF i < 7 THEN i + 1
  ELSE LET octave == ((i - 7) \div 4) + 3
           width == 2^(octave - 2)
       IN  2^octave + ((i - 7) % 4) * width + (width \div 2)

clampDuration(v, low, high) == IF v < low THEN low ELSE IF v > high THEN high ELSE v

\* The nearest rank of a percentage among n values.
TargetRank(percent, n) == IF n = 0 THEN 1 ELSE (percent * n + 99) \div 100

\* The midpoint of the first bucket at which the counts reach the rank.
percentile(histogram, n, percent) ==
  LET cumulative[i \in Buckets] ==
        histogram[i] + (IF i = 0 THEN 0 ELSE cumulative[i - 1])
      reached == {i \in Buckets : cumulative[i] >= TargetRank(percent, n)}
  IN  durationForBucketIndex(CHOOSE i \in reached : \A j \in reached : i <= j)

-----------------------------------------------------------------------------
(* Properties                                                              *)

\* A value reported for an exact one is off by an eighth of it at most (summary.go:207-209).
\* A duration of zero shares the bucket of 1 ns.
Close(reported, exact) ==
  LET error == IF reported > exact THEN reported - exact ELSE exact - reported
  IN  8 * error <= exact \/ (exact = 0 /\ reported <= 1)

\* The buckets cover every duration (summary.go:106-109): each has a bucket in the
\* array, whose midpoint is close to it and lies in the same bucket; a longer duration
\* never has an earlier bucket, and no bucket is skipped between two successive
\* durations.
BucketsCover ==
  /\ \A d \in 0..MaxDuration : LET i == bucketIndexForDuration(d) IN
       /\ i \in Buckets
       /\ Close(durationForBucketIndex(i), d)
       /\ bucketIndexForDuration(durationForBucketIndex(i)) = i
  /\ \A d \in 0..MaxDuration - 1 :
       bucketIndexForDuration(d + 1) - bucketIndexForDuration(d) \in {0, 1}
  /\ bucketIndexForDuration(MaxDuration) = BucketCount - 1
=============================================================================
