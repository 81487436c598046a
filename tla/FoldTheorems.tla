---------------------------- MODULE FoldTheorems ----------------------------
(***************************************************************************)
(* Induction and recursion over finite data, for the proofs about folds:   *)
(* sums over a finite set and folds along a sequence.  What is proved by   *)
(* induction is stated as membership of a set, so that no lemma takes an   *)
(* operator as a parameter; a minimal counterexample ends each induction.  *)
(***************************************************************************)
EXTENDS SequencesExt, FiniteSetTheorems, SequenceTheorems, TLAPS

-----------------------------------------------------------------------------
(* Induction                                                               *)

\* A set of numbers that is not empty has a least one.
LEMMA LeastOf ==
  ASSUME NEW B \in SUBSET Nat, B # {}
  PROVE  \E n \in B : \A m \in B : n <= m
<1>1. PICK n \in B : \A m \in B : ~(<<m, n>> \in OpToRel(<, Nat))
  BY WFMin, NatLessThanWellFounded
<1>2. \A i, j \in Nat : i < j => <<i, j>> \in OpToRel(<, Nat)
  BY DEF OpToRel
<1>3. \A m \in B : ~(m < n)
  BY <1>1, <1>2, Zenon
<1>. QED
  BY <1>3

\* A set that has zero and the successor of each of its numbers has them all.
LEMMA NatInductionSet ==
  ASSUME NEW T, 0 \in T, \A n \in Nat : n \in T => n + 1 \in T
  PROVE  \A n \in Nat : n \in T
<1>. SUFFICES ASSUME Nat \ T # {} PROVE FALSE
  OBVIOUS
<1>1. PICK n \in Nat \ T : \A m \in Nat \ T : n <= m
  BY LeastOf
<1>2. n # 0 /\ n - 1 \in Nat /\ n - 1 \in T
  BY <1>1
<1>. QED
  BY <1>1, <1>2

\* A family that has the empty set, and each of its members with one more element, has
\* every finite set.
LEMMA SetInduction ==
  ASSUME NEW S, IsFiniteSet(S), NEW T, {} \in T,
         \A U \in SUBSET S, x \in S : U \in T /\ x \notin U => U \cup {x} \in T
  PROVE  S \in T
<1>. DEFINE Good == {n \in Nat : \A U \in SUBSET S : Cardinality(U) = n => U \in T}
<1>1. 0 \in Good
  BY FS_Subset, FS_EmptySet
<1>2. ASSUME NEW n \in Nat, n \in Good, NEW U \in SUBSET S, Cardinality(U) = n + 1
      PROVE  U \in T
  <2>1. IsFiniteSet(U) /\ U # {}
    BY <1>2, FS_Subset, FS_EmptySet
  <2>2. PICK x \in U : TRUE
    BY <2>1
  <2>3. Cardinality(U \ {x}) = Cardinality(U) - 1
    BY <2>1, <2>2, FS_RemoveElement
  <2>4. U \ {x} \in T
    BY <1>2, <2>3
  <2>5. (U \ {x}) \cup {x} = U
    BY <2>2
  <2>. QED
    BY <2>4, <2>5
<1>3. \A n \in Nat : n \in Good => n + 1 \in Good
  BY <1>2
<1>. HIDE DEF Good
<1>4. \A n \in Nat : n \in Good
  BY <1>1, <1>3, NatInductionSet
<1>. QED
  BY <1>4, FS_CardinalityType DEF Good

-----------------------------------------------------------------------------
(* Recursion over the subsets of a finite set                              *)

\* The functions on the subsets of S that base, pick and step describe.
Recursions(S, V, base, pick, step) ==
  {iter \in [SUBSET S -> V] :
     \A U \in SUBSET S :
       iter[U] = IF U = {} THEN base ELSE step[<<pick[U], iter[U \ {pick[U]}]>>]}

\* The value of a subset may be told from the value of that subset without the element
\* picked from it: there is such a function.
LEMMA SubsetRecursion ==
  ASSUME NEW S, IsFiniteSet(S), NEW V, NEW base \in V,
         NEW pick, \A U \in SUBSET S : U # {} => pick[U] \in U,
         NEW step \in [S \X V -> V]
  PROVE  Recursions(S, V, base, pick, step) # {}
<1>. DEFINE Small(n) == {U \in SUBSET S : Cardinality(U) <= n}
            Value(iter, U) == IF U = {} THEN base ELSE step[<<pick[U], iter[U \ {pick[U]}]>>]
            Good == {n \in Nat : \E iter \in [Small(n) -> V] :
                                   \A U \in Small(n) : iter[U] = Value(iter, U)}
<1>1. \A U \in SUBSET S : IsFiniteSet(U) /\ Cardinality(U) \in Nat /\ (Cardinality(U) = 0 <=> U = {})
  BY FS_Subset, FS_EmptySet, FS_CardinalityType
<1>2. 0 \in Good
  <2>1. \A U \in Small(0) : U = {}
    BY <1>1
  <2>2. [U \in Small(0) |-> base] \in [Small(0) -> V]
    OBVIOUS
  <2>. QED
    BY <2>1, <2>2
<1>3. ASSUME NEW n \in Nat, n \in Good PROVE n + 1 \in Good
  <2>1. PICK iter \in [Small(n) -> V] : \A U \in Small(n) : iter[U] = Value(iter, U)
    BY <1>3
  <2>2. \A U \in Small(n) : U \in Small(n + 1)
    BY <1>1
  <2>3. \A U \in Small(n + 1) : U # {} => pick[U] \in S /\ U \ {pick[U]} \in Small(n)
    <3>1. ASSUME NEW U \in Small(n + 1), U # {} PROVE pick[U] \in S /\ U \ {pick[U]} \in Small(n)
      <4>1. pick[U] \in U /\ IsFiniteSet(U) /\ Cardinality(U) \in Nat
        BY <1>1, <3>1
      <4>2. Cardinality(U \ {pick[U]}) = Cardinality(U) - 1
        BY <4>1, FS_RemoveElement
      <4>. QED
        BY <3>1, <4>1, <4>2
    <3>. QED
      BY <3>1
  <2>. DEFINE next == [U \in Small(n + 1) |-> Value(iter, U)]
  <2>4. next \in [Small(n + 1) -> V]
    <3>1. ASSUME NEW U \in Small(n + 1) PROVE Value(iter, U) \in V
      <4>1. CASE U = {}
        BY <4>1
      <4>2. CASE U # {}
        <5>1. pick[U] \in S /\ iter[U \ {pick[U]}] \in V
          BY <2>1, <2>3, <4>2
        <5>. QED
          BY <4>2, <5>1
      <4>. QED
        BY <4>1, <4>2
    <3>. QED
      BY <3>1
  <2>5. \A U \in Small(n) : next[U] = iter[U]
    BY <2>1, <2>2
  <2>6. \A U \in Small(n + 1) : next[U] = Value(next, U)
    <3>. SUFFICES ASSUME NEW U \in Small(n + 1) PROVE next[U] = Value(next, U)
      OBVIOUS
    <3>1. next[U] = Value(iter, U)
      OBVIOUS
    <3>2. U # {} => next[U \ {pick[U]}] = iter[U \ {pick[U]}]
      BY <2>3, <2>5
    <3>. HIDE DEF next
    <3>. QED
      BY <3>1, <3>2
  <2>. HIDE DEF next, Small, Value
  <2>. QED
    BY <2>4, <2>6
<1>. HIDE DEF Good
<1>4. Cardinality(S) \in Good
  BY <1>1, <1>2, <1>3, NatInductionSet
<1>5. Small(Cardinality(S)) = SUBSET S
  BY FS_Subset
<1>6. PICK iter \in [SUBSET S -> V] : \A U \in SUBSET S : iter[U] = Value(iter, U)
  <2>. HIDE DEF Small, Value
  <2>. QED
    BY <1>4, <1>5 DEF Good
<1>. QED
  BY <1>6 DEF Recursions

-----------------------------------------------------------------------------
(* Sums over a finite set                                                  *)

SumOf(f) == FoldFunction(LAMBDA x, y : x + y, 0, f)

\* The sums of the parts of f, whichever element is taken from a part first.
Sums(iter, f, D) ==
  /\ iter \in [SUBSET D -> Int]
  /\ iter[{}] = 0
  /\ \A U \in SUBSET D : \A y \in U : iter[U] = f[y] + iter[U \ {y}]

\* The fold takes an arbitrary element of each part; the sum does not depend on which.
LEMMA SumsExist ==
  ASSUME NEW D, IsFiniteSet(D), NEW f \in [D -> Int]
  PROVE  \E iter : Sums(iter, f, D) /\ SumOf(f) = iter[D]
<1>. DEFINE pick == [U \in SUBSET D |-> CHOOSE x \in U : TRUE]
            step == [xv \in D \X Int |-> f[xv[1]] + xv[2]]
            IsFold(iter) == iter = [U \in SUBSET D |->
                              IF U = {} THEN 0
                              ELSE f[CHOOSE x \in U : TRUE] + iter[U \ {CHOOSE x \in U : TRUE}]]
            sum == CHOOSE iter : IsFold(iter)
<1>1. PICK some \in [SUBSET D -> Int] :
        \A U \in SUBSET D :
          some[U] = IF U = {} THEN 0 ELSE step[<<pick[U], some[U \ {pick[U]}]>>]
  <2>1. step \in [D \X Int -> Int]
    OBVIOUS
  <2>2. \A U \in SUBSET D : U # {} => pick[U] \in U
    OBVIOUS
  <2>3. 0 \in Int
    OBVIOUS
  <2>. HIDE DEF step, pick
  <2>4. PICK some \in Recursions(D, Int, 0, pick, step) : TRUE
    BY <2>1, <2>2, <2>3, SubsetRecursion
  <2>. QED
    BY <2>4 DEF Recursions
<1>2. IsFold(some)
  <2>1. ASSUME NEW U \in SUBSET D, U # {}
        PROVE  /\ pick[U] = CHOOSE x \in U : TRUE
               /\ step[<<pick[U], some[U \ {pick[U]}]>>] = f[pick[U]] + some[U \ {pick[U]}]
    <3>1. pick[U] = CHOOSE x \in U : TRUE
      OBVIOUS
    <3>2. pick[U] \in D /\ some[U \ {pick[U]}] \in Int
      BY <2>1, <3>1
    <3>. HIDE DEF pick
    <3>. QED
      BY <3>1, <3>2
  <2>. HIDE DEF step, pick
  <2>2. \A U \in SUBSET D : some[U] = IF U = {} THEN 0
                  ELSE f[CHOOSE x \in U : TRUE] + some[U \ {CHOOSE x \in U : TRUE}]
    BY <1>1, <2>1
  <2>. QED
    BY <2>2
<1>3. IsFold(sum)
  <2>. HIDE DEF IsFold
  <2>. QED
    BY <1>2
<1>4. SumOf(f) = sum[D]
  BY DEF SumOf, FoldFunction, FoldFunctionOnSet, MapThenFoldSet
<1>. HIDE DEF sum
<1>5. sum[{}] = 0 /\ \A U \in SUBSET D : U # {} => \E x \in U : sum[U] = f[x] + sum[U \ {x}]
  <2>1. \A U \in SUBSET D : sum[U] = IF U = {} THEN 0
                  ELSE f[CHOOSE x \in U : TRUE] + sum[U \ {CHOOSE x \in U : TRUE}]
    BY <1>3
  <2>. QED
    BY <2>1
<1>6. \A U \in SUBSET D : /\ IsFiniteSet(U) /\ Cardinality(U) \in Nat
                          /\ Cardinality(U) = 0 <=> U = {}
                          /\ \A y \in U : Cardinality(U \ {y}) = Cardinality(U) - 1
  BY FS_Subset, FS_EmptySet, FS_RemoveElement, FS_CardinalityType
<1>. DEFINE TakesAny(U) == sum[U] \in Int /\ \A y \in U : sum[U] = f[y] + sum[U \ {y}]
            Good == {n \in Nat : \A U \in SUBSET D : Cardinality(U) <= n => TakesAny(U)}
<1>7. 0 \in Good
  <2>1. \A U \in SUBSET D : Cardinality(U) <= 0 => U = {}
    BY <1>6
  <2>2. TakesAny({})
    BY <1>5
  <2>. HIDE DEF TakesAny
  <2>. QED
    BY <2>1, <2>2
<1>8. ASSUME NEW n \in Nat, n \in Good, NEW U \in SUBSET D, Cardinality(U) <= n + 1
      PROVE  TakesAny(U)
  <2>1. CASE U = {}
    BY <1>5, <2>1
  <2>2. CASE U # {}
    <3>1. \A y \in U : U \ {y} \in SUBSET D /\ Cardinality(U \ {y}) <= n
      BY <1>6, <1>8
    <3>2. \A y \in U : f[y] \in Int /\ TakesAny(U \ {y})
      BY <1>8, <3>1
    <3>3. PICK x \in U : sum[U] = f[x] + sum[U \ {x}]
      BY <1>5, <2>2
    <3>4. ASSUME NEW y \in U, y # x PROVE sum[U] = f[y] + sum[U \ {y}]
      <4>1. (U \ {x}) \ {y} = (U \ {y}) \ {x} /\ x \in U \ {y} /\ y \in U \ {x}
        BY <3>4
      <4>2. sum[U \ {x}] = f[y] + sum[(U \ {y}) \ {x}]
        BY <3>2, <4>1
      <4>3. sum[U \ {y}] = f[x] + sum[(U \ {y}) \ {x}]
        BY <3>2, <4>1
      <4>4. sum[(U \ {y}) \ {x}] \in Int
        <5>1. (U \ {y}) \ {x} \in SUBSET D /\ Cardinality((U \ {y}) \ {x}) <= n
          <6>. DEFINE W == U \ {y}
          <6>1. W \in SUBSET D /\ Cardinality(W) <= n /\ x \in W
            BY <3>1, <4>1
          <6>. HIDE DEF W
          <6>2. Cardinality(W) \in Nat /\ Cardinality(W \ {x}) = Cardinality(W) - 1
            BY <1>6, <6>1
          <6>3. W \ {x} \in SUBSET D /\ Cardinality(W \ {x}) <= n
            BY <6>1, <6>2
          <6>. QED
            BY <6>3 DEF W
        <5>. QED
          BY <1>8, <5>1
      <4>. QED
        BY <3>2, <3>3, <4>2, <4>3, <4>4
    <3>5. \A y \in U : sum[U] = f[y] + sum[U \ {y}]
      BY <3>3, <3>4
    <3>6. sum[U] \in Int
      BY <3>2, <3>3
    <3>. QED
      BY <3>5, <3>6
  <2>. QED
    BY <2>1, <2>2
<1>9. \A n \in Nat : n \in Good
  <2>1. \A n \in Nat : n \in Good => n + 1 \in Good
    BY <1>8
  <2>. HIDE DEF Good
  <2>. QED
    BY <1>7, <2>1, NatInductionSet
<1>10. \A U \in SUBSET D : TakesAny(U)
  BY <1>6, <1>9
<1>11. sum \in [SUBSET D -> Int]
  BY <1>3, <1>10
<1>. QED
  BY <1>4, <1>5, <1>10, <1>11 DEF Sums

\* Two functions that agree on a part have the same sum there.
LEMMA SumsAgree ==
  ASSUME NEW D, NEW E, NEW f, NEW g, NEW i, NEW j, Sums(i, f, D), Sums(j, g, E),
         NEW U, IsFiniteSet(U), U \subseteq D, U \subseteq E, \A x \in U : f[x] = g[x]
  PROVE  i[U] = j[U]
<1>. DEFINE T == {W \in SUBSET U : i[W] = j[W]}
<1>1. {} \in T
  BY DEF Sums
<1>2. ASSUME NEW W \in SUBSET U, NEW x \in U, W \in T, x \notin W PROVE W \cup {x} \in T
  <2>1. (W \cup {x}) \ {x} = W /\ W \cup {x} \in SUBSET D /\ W \cup {x} \in SUBSET E
    BY <1>2
  <2>2. i[W \cup {x}] = f[x] + i[W] /\ j[W \cup {x}] = g[x] + j[W]
    BY <2>1 DEF Sums
  <2>. QED
    BY <1>2, <2>2
<1>. HIDE DEF T
<1>3. U \in T
  BY <1>1, <1>2, SetInduction
<1>. QED
  BY <1>3 DEF T

\* A sum of integers is one; the sum of nothing is zero.
LEMMA SumType ==
  ASSUME NEW D, IsFiniteSet(D), NEW f \in [D -> Int]
  PROVE  SumOf(f) \in Int /\ (D = {} => SumOf(f) = 0)
<1>1. PICK iter : Sums(iter, f, D) /\ SumOf(f) = iter[D]
  BY SumsExist
<1>. QED
  BY <1>1 DEF Sums

\* One element more in the sum.
LEMMA SumAdd ==
  ASSUME NEW E, IsFiniteSet(E), NEW y, y \notin E, NEW D, D = E \cup {y},
         NEW f, NEW g, f \in [D -> Int], g \in [E -> Int], \A x \in E : f[x] = g[x]
  PROVE  SumOf(f) = f[y] + SumOf(g)
<1>1. IsFiniteSet(D) /\ D \ {y} = E /\ y \in D /\ E \in SUBSET D
  BY FS_AddElement
<1>2. PICK iter : Sums(iter, f, D) /\ SumOf(f) = iter[D]
  BY <1>1, SumsExist
<1>3. PICK less : Sums(less, g, E) /\ SumOf(g) = less[E]
  BY SumsExist
<1>4. iter[E] = less[E]
  BY <1>1, <1>2, <1>3, SumsAgree
<1>5. iter[D] = f[y] + iter[D \ {y}]
  BY <1>1, <1>2 DEF Sums
<1>. QED
  BY <1>1, <1>2, <1>3, <1>4, <1>5

\* A function that differs in one place has a sum that differs by as much.
LEMMA SumChange ==
  ASSUME NEW D, IsFiniteSet(D), NEW f \in [D -> Int], NEW g \in [D -> Int], NEW y \in D,
         \A x \in D : x # y => g[x] = f[x]
  PROVE  SumOf(g) = SumOf(f) + g[y] - f[y]
<1>. DEFINE E == D \ {y}
            rest == [x \in E |-> f[x]]
<1>1. /\ rest \in [E -> Int] /\ \A x \in E : f[x] = rest[x] /\ g[x] = rest[x]
      /\ y \notin E /\ D = E \cup {y}
  OBVIOUS
<1>2. IsFiniteSet(E)
  BY FS_RemoveElement
<1>. HIDE DEF E, rest
<1>3. SumOf(f) = f[y] + SumOf(rest) /\ SumOf(g) = g[y] + SumOf(rest)
  <2>1. SumOf(f) = f[y] + SumOf(rest)
    BY <1>1, <1>2, SumAdd
  <2>2. SumOf(g) = g[y] + SumOf(rest)
    BY <1>1, <1>2, SumAdd
  <2>. QED
    BY <2>1, <2>2
<1>4. SumOf(rest) \in Int
  BY <1>1, <1>2, SumType
<1>. QED
  BY <1>3, <1>4

\* The sum over two sets that have nothing in common.
LEMMA SumUnion ==
  ASSUME NEW A, NEW B, IsFiniteSet(A), IsFiniteSet(B), A \cap B = {},
         NEW D, D = A \cup B, NEW f, NEW g, NEW h,
         f \in [D -> Int], g \in [A -> Int], h \in [B -> Int],
         \A x \in A : g[x] = f[x], \A x \in B : h[x] = f[x]
  PROVE  SumOf(f) = SumOf(g) + SumOf(h)
<1>1. IsFiniteSet(A \cup B)
  BY FS_Union
<1>2. PICK iter : Sums(iter, f, A \cup B) /\ SumOf(f) = iter[A \cup B]
  BY <1>1, SumsExist
<1>. DEFINE T == {U \in SUBSET B : iter[A \cup U] = iter[A] + iter[U]}
<1>3. {} \in T
  BY <1>2 DEF Sums
<1>4. ASSUME NEW U \in SUBSET B, NEW x \in B, U \in T, x \notin U PROVE U \cup {x} \in T
  <2>1. /\ (U \cup {x}) \ {x} = U /\ (A \cup (U \cup {x})) \ {x} = A \cup U
        /\ U \cup {x} \in SUBSET (A \cup B) /\ A \cup (U \cup {x}) \in SUBSET (A \cup B)
    BY <1>4
  <2>. DEFINE P == U \cup {x}
              Q == A \cup P
  <2>6. \A W \in SUBSET (A \cup B) : \A y \in W : iter[W] = f[y] + iter[W \ {y}]
    BY <1>2 DEF Sums
  <2>7. P \in SUBSET (A \cup B) /\ x \in P /\ P \ {x} = U
        /\ Q \in SUBSET (A \cup B) /\ x \in Q /\ Q \ {x} = A \cup U
    BY <2>1
  <2>. HIDE DEF P, Q
  <2>2. iter[P] = f[x] + iter[U]
    BY <2>6, <2>7
  <2>3. iter[Q] = f[x] + iter[A \cup U]
    BY <2>6, <2>7
  <2>4. f[x] \in Int /\ iter[A] \in Int /\ iter[U] \in Int
    BY <1>2 DEF Sums
  <2>5. iter[A \cup U] = iter[A] + iter[U]
    BY <1>4
  <2>8. iter[Q] = iter[A] + iter[P] /\ P \in SUBSET B
    BY <2>2, <2>3, <2>4, <2>5 DEF P
  <2>. QED
    BY <2>8 DEF P, Q
<1>5. B \in T
  <2>. HIDE DEF T
  <2>. QED
    BY <1>3, <1>4, SetInduction
<1>6. SumOf(g) = iter[A]
  <2>1. PICK j : Sums(j, g, A) /\ SumOf(g) = j[A]
    BY SumsExist
  <2>. QED
    BY <1>2, <2>1, SumsAgree
<1>7. SumOf(h) = iter[B]
  <2>1. PICK j : Sums(j, h, B) /\ SumOf(h) = j[B]
    BY SumsExist
  <2>. QED
    BY <1>2, <2>1, SumsAgree
<1>. QED
  BY <1>2, <1>5, <1>6, <1>7

\* A sum of naturals is one, and is zero only when all of them are.
LEMMA SumNat ==
  ASSUME NEW D, IsFiniteSet(D), NEW f \in [D -> Nat]
  PROVE  SumOf(f) \in Nat /\ (SumOf(f) = 0 <=> \A x \in D : f[x] = 0)
<1>1. f \in [D -> Int]
  OBVIOUS
<1>2. PICK iter : Sums(iter, f, D) /\ SumOf(f) = iter[D]
  BY <1>1, SumsExist
<1>. DEFINE T == {U \in SUBSET D : iter[U] \in Nat /\ (iter[U] = 0 <=> \A x \in U : f[x] = 0)}
<1>3. {} \in T
  BY <1>2 DEF Sums
<1>4. ASSUME NEW U \in SUBSET D, NEW x \in D, U \in T, x \notin U PROVE U \cup {x} \in T
  <2>1. (U \cup {x}) \ {x} = U /\ U \cup {x} \in SUBSET D
    BY <1>4
  <2>2. iter[U \cup {x}] = f[x] + iter[U]
    BY <1>2, <2>1 DEF Sums
  <2>. QED
    BY <1>4, <2>2
<1>5. D \in T
  <2>. HIDE DEF T
  <2>. QED
    BY <1>3, <1>4, SetInduction
<1>. QED
  BY <1>2, <1>5

-----------------------------------------------------------------------------
(* Folds along a sequence                                                  *)

\* A finite set of numbers that is not empty has a greatest one.
LEMMA MaxOf ==
  ASSUME NEW S \in SUBSET Nat, IsFiniteSet(S), S # {}
  PROVE  Max(S) \in S /\ \A x \in S : x <= Max(S)
<1>. DEFINE T == {U \in SUBSET S : U # {} => \E x \in U : \A y \in U : y <= x}
<1>1. {} \in T
  OBVIOUS
<1>2. ASSUME NEW U \in SUBSET S, NEW x \in S, U \in T, x \notin U PROVE U \cup {x} \in T
  <2>1. CASE U = {}
    BY <2>1
  <2>2. CASE U # {}
    <3>1. PICK m \in U : \A y \in U : y <= m
      BY <1>2, <2>2
    <3>2. CASE m <= x
      BY <3>1, <3>2
    <3>3. CASE x <= m
      BY <3>1, <3>3
    <3>. QED
      BY <3>2, <3>3
  <2>. QED
    BY <2>1, <2>2
<1>3. S \in T
  <2>. HIDE DEF T
  <2>. QED
    BY <1>1, <1>2, SetInduction
<1>4. \E x \in S : \A y \in S : x >= y
  BY <1>3
<1>. QED
  BY <1>4 DEF Max

\* The greatest place of a prefix is its last.
LEMMA MaxOfPrefix ==
  ASSUME NEW k \in Nat \ {0}
  PROVE  Max(1..k) = k /\ (1..k) \ {k} = 1..(k - 1)
<1>1. (1..k) \in SUBSET Nat /\ IsFiniteSet(1..k) /\ k \in 1..k
  BY FS_Interval
<1>2. Max(1..k) \in 1..k /\ \A x \in 1..k : x <= Max(1..k)
  BY <1>1, MaxOf
<1>3. k <= Max(1..k)
  BY <1>1, <1>2
<1>4. Max(1..k) = k
  BY <1>2, <1>3
<1>5. (1..k) \ {k} = 1..(k - 1)
  OBVIOUS
<1>. QED
  BY <1>4, <1>5

\* The values a left fold may take on the parts of a sequence of n elements.
LeftFolds(n, V, base, step) ==
  {iter \in [SUBSET (1..n) -> V] :
     \A U \in SUBSET (1..n) :
       iter[U] = IF U = {} THEN base ELSE step[<<Max(U), iter[U \ {Max(U)}]>>]}

\* There is one, and it takes its values in V.
LEMMA LeftFoldExists ==
  ASSUME NEW n \in Nat, NEW V, NEW base \in V, NEW step \in [(1..n) \X V -> V]
  PROVE  LeftFolds(n, V, base, step) # {}
<1>. DEFINE D == 1..n
            pick == [U \in SUBSET D |-> Max(U)]
<1>1. IsFiniteSet(D)
  BY FS_Interval
<1>2. ASSUME NEW U \in SUBSET D, U # {} PROVE pick[U] \in U
  <2>1. U \in SUBSET Nat
    OBVIOUS
  <2>2. pick[U] = Max(U)
    OBVIOUS
  <2>. HIDE DEF D, pick
  <2>3. IsFiniteSet(U)
    BY <1>1, FS_Subset
  <2>. QED
    BY <1>2, <2>1, <2>2, <2>3, MaxOf
<1>3. \A U \in SUBSET D : pick[U] = Max(U)
  OBVIOUS
<1>. HIDE DEF D, pick
<1>4. step \in [D \X V -> V]
  BY DEF D
<1>5. PICK iter \in Recursions(D, V, base, pick, step) : TRUE
  BY <1>1, <1>2, <1>4, SubsetRecursion
<1>6. /\ iter \in [SUBSET D -> V]
      /\ \A U \in SUBSET D :
           iter[U] = IF U = {} THEN base ELSE step[<<Max(U), iter[U \ {Max(U)}]>>]
  BY <1>3, <1>5 DEF Recursions
<1>. QED
  BY <1>6 DEF LeftFolds, D

\* Two runs that start alike and step alike end alike.
LEMMA RunsAgree ==
  ASSUME NEW n \in Nat, NEW r, NEW q, r[0] = q[0],
         \A k \in 1..n : r[k - 1] = q[k - 1] => r[k] = q[k]
  PROVE  \A k \in 0..n : r[k] = q[k]
<1>. DEFINE T == {k \in Nat : k <= n => r[k] = q[k]}
<1>1. 0 \in T
  OBVIOUS
<1>2. ASSUME NEW k \in Nat, k \in T PROVE k + 1 \in T
  <2>1. k + 1 <= n => k + 1 \in 1..n /\ (k + 1) - 1 = k
    OBVIOUS
  <2>. QED
    BY <1>2, <2>1
<1>3. \A k \in Nat : k \in T
  <2>. HIDE DEF T
  <2>. QED
    BY <1>1, <1>2, NatInductionSet
<1>. QED
  BY <1>3

\* Flattening appends one sequence after the other.
LEMMA FlattenRun ==
  ASSUME NEW X, NEW seqs \in Seq(Seq(X)), Len(seqs) # 0
  PROVE  \E flat :
           /\ FlattenSeq(seqs) = flat[Len(seqs)]
           /\ \A i \in 1..Len(seqs) :
                /\ flat[i] \in Seq(X)
                /\ flat[i] = IF i = 1 THEN seqs[i] ELSE flat[i - 1] \o seqs[i]
<1>. DEFINE n == Len(seqs)
            From(f, i) == IF i = 1 THEN seqs[i] ELSE f[i - 1] \o seqs[i]
            IsFlat(f) == f = [i \in 1..n |-> From(f, i)]
            flat == CHOOSE f : IsFlat(f)
            T == {k \in Nat : k <= n => \E f \in [1..k -> Seq(X)] : \A i \in 1..k : f[i] = From(f, i)}
<1>1. n \in Nat /\ \A i \in 1..n : seqs[i] \in Seq(X)
  BY LenProperties, ElementOfSeq
<1>. HIDE DEF n
<1>2. 0 \in T
  <2>1. 1..0 = {} /\ <<>> \in Seq(X)
    BY EmptySeq
  <2>2. [i \in 1..0 |-> <<>>] \in [1..0 -> Seq(X)]
    BY <2>1
  <2>. HIDE DEF From
  <2>. QED
    BY <2>1, <2>2
<1>3. ASSUME NEW k \in Nat, k \in T, k + 1 <= n
      PROVE  \E f \in [1..(k + 1) -> Seq(X)] : \A i \in 1..(k + 1) : f[i] = From(f, i)
  <2>. HIDE DEF From
  <2>0. k <= n
    BY <1>1, <1>3
  <2>1. PICK f \in [1..k -> Seq(X)] : \A i \in 1..k : f[i] = From(f, i)
    BY <1>3, <2>0, Zenon
  <2>. DEFINE g == [i \in 1..(k + 1) |-> IF i = k + 1 THEN From(f, i) ELSE f[i]]
  <2>2. \A i \in 1..k : g[i] = f[i]
    OBVIOUS
  <2>3. g[k + 1] = From(f, k + 1)
    OBVIOUS
  <2>4. From(f, k + 1) \in Seq(X)
    <3>1. CASE k = 0
      BY <1>1, <1>3, <3>1 DEF From
    <3>2. CASE k # 0
      <4>1. k \in 1..k /\ f[k] \in Seq(X) /\ seqs[k + 1] \in Seq(X) /\ (k + 1) - 1 = k
        BY <1>1, <1>3, <3>2
      <4>. QED
        BY <3>2, <4>1, ConcatProperties DEF From
    <3>. QED
      BY <3>1, <3>2
  <2>5. g \in [1..(k + 1) -> Seq(X)]
    BY <2>4
  <2>. HIDE DEF g
  <2>6. ASSUME NEW i \in 1..(k + 1) PROVE g[i] = From(g, i)
    <3>1. CASE i = k + 1
      <4>1. k # 0 => g[(k + 1) - 1] = f[(k + 1) - 1]
        BY <2>2
      <4>. QED
        BY <2>3, <3>1, <4>1 DEF From
    <3>2. CASE i \in 1..k
      <4>1. i # 1 => i - 1 \in 1..k
        BY <3>2
      <4>2. i # 1 => g[i - 1] = f[i - 1]
        BY <2>2, <4>1
      <4>3. g[i] = f[i] /\ f[i] = From(f, i)
        BY <2>1, <2>2, <3>2
      <4>. QED
        BY <4>2, <4>3 DEF From
    <3>. QED
      BY <3>1, <3>2
  <2>. QED
    BY <2>5, <2>6
<1>4. n \in T
  <2>1. \A k \in Nat : k \in T => k + 1 \in T
    <3>. HIDE DEF From
    <3>1. ASSUME NEW k \in Nat, k \in T PROVE k + 1 \in T
      <4>1. k + 1 \in Nat /\ (k + 1 <= n => \E f \in [1..(k + 1) -> Seq(X)] :
                                            \A i \in 1..(k + 1) : f[i] = From(f, i))
        <5>1. ASSUME k + 1 <= n
              PROVE  \E f \in [1..(k + 1) -> Seq(X)] : \A i \in 1..(k + 1) : f[i] = From(f, i)
          <6>. HIDE DEF T
          <6>. QED
            BY <1>3, <3>1, <5>1
        <5>2. k + 1 \in Nat
          OBVIOUS
        <5>. QED
          BY <5>1, <5>2, Zenon
      <4>. QED
        BY <4>1, Zenon
    <3>. QED
      BY <3>1
  <2>. HIDE DEF T
  <2>. QED
    BY <1>1, <1>2, <2>1, NatInductionSet
<1>5. PICK some \in [1..n -> Seq(X)] : \A i \in 1..n : some[i] = From(some, i)
  <2>. HIDE DEF From
  <2>. QED
    BY <1>1, <1>4
<1>6. IsFlat(some)
  <2>. HIDE DEF From
  <2>. QED
    BY <1>5
<1>7. IsFlat(flat)
  <2>. HIDE DEF IsFlat
  <2>. QED
    BY <1>6
<1>8. \A i \in 1..n : flat[i] = IF i = 1 THEN seqs[i] ELSE flat[i - 1] \o seqs[i]
  <2>. HIDE DEF flat
  <2>. QED
    BY <1>7
<1>9. \A k \in 1..n : flat[k] \in Seq(X)
  <2>. DEFINE U == {k \in Nat : k \in 1..n => flat[k] \in Seq(X)}
  <2>. HIDE DEF flat, T, IsFlat
  <2>1. 0 \in U
    OBVIOUS
  <2>2. ASSUME NEW k \in Nat, k \in U PROVE k + 1 \in U
    <3>. SUFFICES ASSUME k + 1 \in 1..n PROVE flat[k + 1] \in Seq(X)
      OBVIOUS
    <3>0. seqs[k + 1] \in Seq(X)
      BY <1>1
    <3>1. CASE k = 0
      BY <1>8, <3>0, <3>1
    <3>2. CASE k # 0
      <4>1. k \in 1..n /\ (k + 1) - 1 = k
        BY <1>1, <3>2
      <4>2. flat[k] \in Seq(X)
        BY <2>2, <4>1
      <4>3. flat[k + 1] = flat[(k + 1) - 1] \o seqs[k + 1]
        <5>1. k + 1 \in 1..n /\ k + 1 # 1
          BY <3>2
        <5>. HIDE DEF U
        <5>. QED
          BY <1>8, <5>1
      <4>. QED
        BY <3>0, <4>1, <4>2, <4>3, ConcatProperties
    <3>. QED
      BY <3>1, <3>2
  <2>3. \A k \in Nat : k \in U
    <3>. HIDE DEF U
    <3>. QED
      BY <2>1, <2>2, NatInductionSet
  <2>. QED
    BY <1>1, <2>3
<1>10. n # 0
  BY DEF n
<1>11. FlattenSeq(seqs) = flat[n]
  BY <1>10 DEF FlattenSeq, n
<1>. HIDE DEF flat
<1>. QED
  BY <1>8, <1>9, <1>11 DEF n

\* Flattening a sequence of sequences gives a sequence of their elements.
LEMMA FlattenType ==
  ASSUME NEW X, NEW seqs \in Seq(Seq(X))
  PROVE  FlattenSeq(seqs) \in Seq(X) /\ (seqs = <<>> => FlattenSeq(seqs) = <<>>)
<1>1. CASE Len(seqs) = 0
  <2>1. seqs = <<>>
    BY <1>1, EmptySeq
  <2>. QED
    BY <2>1, EmptySeq DEF FlattenSeq
<1>2. CASE Len(seqs) # 0
  <2>1. PICK flat : /\ FlattenSeq(seqs) = flat[Len(seqs)]
                    /\ \A i \in 1..Len(seqs) : flat[i] \in Seq(X)
    BY <1>2, FlattenRun
  <2>2. Len(seqs) \in 1..Len(seqs)
    BY <1>2, LenProperties
  <2>3. seqs # <<>>
    BY <1>2, EmptySeq
  <2>. QED
    BY <2>1, <2>2, <2>3
<1>. QED
  BY <1>1, <1>2

\* One sequence more.
LEMMA FlattenAppend ==
  ASSUME NEW X, NEW seqs \in Seq(Seq(X)), NEW last \in Seq(X)
  PROVE  FlattenSeq(Append(seqs, last)) = FlattenSeq(seqs) \o last
<1>. DEFINE n == Len(seqs)
            all == Append(seqs, last)
<1>1. /\ n \in Nat /\ all \in Seq(Seq(X)) /\ Len(all) = n + 1 /\ all[n + 1] = last
      /\ \A k \in 1..n : all[k] = seqs[k]
  <2>. DEFINE Y == Seq(X)
  <2>1. seqs \in Seq(Y) /\ last \in Y
    OBVIOUS
  <2>. HIDE DEF Y
  <2>2. /\ n \in Nat /\ all \in Seq(Y) /\ Len(all) = n + 1 /\ all[n + 1] = last
        /\ \A k \in 1..n : all[k] = seqs[k]
    BY <2>1, AppendProperties, LenProperties
  <2>. QED
    BY <2>2 DEF Y
<1>2. Len(all) # 0
  BY <1>1
<1>. HIDE DEF n, all
<1>3. PICK f : /\ FlattenSeq(all) = f[n + 1]
               /\ \A i \in 1..(n + 1) : f[i] = IF i = 1 THEN all[i] ELSE f[i - 1] \o all[i]
  <2>1. all \in Seq(Seq(X)) /\ Len(all) = n + 1
    BY <1>1
  <2>2. PICK f : /\ FlattenSeq(all) = f[Len(all)]
                 /\ \A i \in 1..Len(all) :
                      /\ f[i] \in Seq(X)
                      /\ f[i] = IF i = 1 THEN all[i] ELSE f[i - 1] \o all[i]
    BY <1>2, <2>1, FlattenRun, ZenonT(60)
  <2>. QED
    BY <2>1, <2>2
<1>4. CASE n = 0
  <2>1. f[n + 1] = last
    BY <1>1, <1>3, <1>4
  <2>2. seqs = <<>>
    BY <1>4, EmptySeq DEF n
  <2>3. FlattenSeq(seqs) = <<>>
    BY <2>2, FlattenType
  <2>. QED
    BY <1>3, <2>1, <2>3, ConcatEmptySeq DEF all
<1>5. CASE n # 0
  <2>1. Len(seqs) # 0
    BY <1>5 DEF n
  <2>2. PICK g : /\ FlattenSeq(seqs) = g[n]
                 /\ \A i \in 1..n : g[i] = IF i = 1 THEN seqs[i] ELSE g[i - 1] \o seqs[i]
    BY <2>1, FlattenRun DEF n
  <2>. DEFINE T == {k \in Nat : k \in 1..n => f[k] = g[k]}
  <2>3. 0 \in T
    OBVIOUS
  <2>4. ASSUME NEW k \in Nat, k \in T PROVE k + 1 \in T
    <3>. SUFFICES ASSUME k + 1 \in 1..n PROVE f[k + 1] = g[k + 1]
      OBVIOUS
    <3>1. k + 1 \in 1..(n + 1) /\ all[k + 1] = seqs[k + 1]
      BY <1>1
    <3>2. CASE k = 0
      <4>1. k + 1 = 1
        BY <3>2
      <4>2. f[k + 1] = all[k + 1]
        BY <1>3, <3>1, <4>1
      <4>3. g[k + 1] = seqs[k + 1]
        BY <2>2, <4>1
      <4>. QED
        BY <3>1, <4>2, <4>3
    <3>3. CASE k # 0
      <4>1. k \in 1..n /\ (k + 1) - 1 = k /\ k + 1 # 1
        BY <1>1, <3>3
      <4>2. f[k] = g[k]
        BY <2>4, <4>1
      <4>3. f[k + 1] = f[(k + 1) - 1] \o all[k + 1]
        BY <1>3, <3>1, <4>1
      <4>4. g[k + 1] = g[(k + 1) - 1] \o seqs[k + 1]
        BY <2>2, <4>1
      <4>. QED
        BY <3>1, <4>1, <4>2, <4>3, <4>4
    <3>. QED
      BY <3>2, <3>3
  <2>5. \A k \in Nat : k \in T
    <3>. HIDE DEF T
    <3>. QED
      BY <2>3, <2>4, NatInductionSet
  <2>6. f[n] = g[n]
    BY <1>1, <1>5, <2>5
  <2>7. n + 1 \in 1..(n + 1) /\ n + 1 # 1 /\ (n + 1) - 1 = n
    BY <1>1, <1>5
  <2>8. f[n + 1] = f[(n + 1) - 1] \o all[n + 1]
    BY <1>3, <2>7
  <2>. QED
    BY <1>1, <1>3, <2>2, <2>6, <2>7, <2>8 DEF all
<1>. QED
  BY <1>4, <1>5
=============================================================================
