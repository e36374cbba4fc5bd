-------------------------- MODULE CollectionProofs ---------------------------
(***************************************************************************)
(* What the operators on collections return that the models share: Pick,   *)
(* the chosen elements and no others, in their order and without           *)
(* repetition if the sequence had none; and SumFunctionOnSet, a sum that   *)
(* does not depend on the order its elements are chosen in.                *)
(*                                                                         *)
(* Induction is stated with sets in the place of predicates: a property of *)
(* the subsets of a finite set is the set P of those that have it.         *)
(***************************************************************************)
EXTENDS Integers, Sequences, FiniteSets, Functions, Subsequence,
        FiniteSetTheorems, SequenceTheorems, TLAPS

\* Ranks of a finite set of indices are distinct and between 1 and its cardinality.
LEMMA RankProperties ==
  ASSUME NEW I \in SUBSET Nat, IsFiniteSet(I), NEW i \in I
  PROVE  /\ Rank(I, i) \in 1 .. Cardinality(I)
         /\ \A j \in I : i < j => Rank(I, i) < Rank(I, j)
<1> DEFINE Below(x) == {y \in I : y <= x}
<1>1. \A x : IsFiniteSet(Below(x)) /\ Cardinality(Below(x)) \in Nat
             /\ Cardinality(Below(x)) <= Cardinality(I)
  BY FS_Subset, FS_CardinalityType
<1>2. Below(i) # {}
  OBVIOUS
<1>3. Cardinality(Below(i)) # 0
  BY <1>1, <1>2, FS_EmptySet
<1>4. ASSUME NEW j \in I, i < j
      PROVE  Cardinality(Below(i)) < Cardinality(Below(j))
  <2>1. \A y \in I : y \in Int
    OBVIOUS
  <2>2. \A y \in I : y <= i => y <= j
    BY <1>4, <2>1
  <2>3. Below(i) \in SUBSET Below(j)
    BY <2>2
  <2>4. j \in Below(j) /\ j \notin Below(i)
    BY <1>4, <2>1
  <2>5. Below(i) # Below(j)
    BY <2>4
  <2>6. /\ Cardinality(Below(i)) <= Cardinality(Below(j))
        /\ Cardinality(Below(j)) = Cardinality(Below(i)) => Below(j) = Below(i)
    BY <1>1, <2>3, FS_Subset
  <2>7. Cardinality(Below(i)) \in Nat /\ Cardinality(Below(j)) \in Nat
    BY <1>1
  <2>8. Cardinality(Below(i)) # Cardinality(Below(j))
    BY <2>5, <2>6
  <2>9. QED
    BY <2>6, <2>7, <2>8
<1>5. Cardinality(I) \in Nat
  BY FS_CardinalityType
<1>6. QED
  BY <1>1, <1>3, <1>4, <1>5 DEF Rank

\* Nth enumerates a finite set of indices: it is a bijection from 1 .. Cardinality(I).
LEMMA NthProperties ==
  ASSUME NEW I \in SUBSET Nat, IsFiniteSet(I)
  PROVE  /\ \A n \in 1 .. Cardinality(I) : Nth(I, n) \in I /\ Rank(I, Nth(I, n)) = n
         /\ \A i \in I : \E n \in 1 .. Cardinality(I) : Nth(I, n) = i
<1> DEFINE f == [i \in I |-> Rank(I, i)]
           T == 1 .. Cardinality(I)
<1>1. Cardinality(I) \in Nat
  BY FS_CardinalityType
<1>2. IsFiniteSet(T) /\ Cardinality(T) = Cardinality(I)
  <2>1. IsFiniteSet(T) /\ Cardinality(T) = IF 1 > Cardinality(I) THEN 0 ELSE Cardinality(I) - 1 + 1
    BY <1>1, FS_Interval
  <2>2. QED
    BY <1>1, <2>1
<1>3. f \in [I -> T]
  BY RankProperties
<1>4. \A i, j \in I : Rank(I, i) = Rank(I, j) => i = j
  <2> SUFFICES ASSUME NEW i \in I, NEW j \in I, i # j
               PROVE  Rank(I, i) # Rank(I, j)
    OBVIOUS
  <2>1. Rank(I, i) \in 1 .. Cardinality(I) /\ Rank(I, j) \in 1 .. Cardinality(I)
    BY RankProperties
  <2>2. i \in Nat /\ j \in Nat
    OBVIOUS
  <2>3. CASE i < j
    BY <2>1, <2>3, <1>1, RankProperties
  <2>4. CASE j < i
    BY <2>1, <2>4, <1>1, RankProperties
  <2>5. QED
    BY <2>2, <2>3, <2>4
<1>5. f \in Injection(I, T)
  BY <1>3, <1>4 DEF Injection, IsInjective
<1>6. f \in Surjection(I, T)
  BY <1>2, <1>5, FS_Injection
<1>7. \A n \in T : \E i \in I : Rank(I, i) = n
  BY <1>6 DEF Surjection
<1>8. \A n \in T : Nth(I, n) \in I /\ Rank(I, Nth(I, n)) = n
  BY <1>7 DEF Nth
<1>9. ASSUME NEW i \in I
      PROVE  \E n \in T : Nth(I, n) = i
  <2>1. Rank(I, i) \in T
    BY RankProperties
  <2>2. Nth(I, Rank(I, i)) = i
    BY <2>1, <1>8, <1>4
  <2>3. QED
    BY <2>1, <2>2
<1>10. QED
  BY <1>8, <1>9

\* Pick keeps exactly the chosen elements, and adds no repetition.
THEOREM PickProperties ==
  ASSUME NEW S, NEW s \in Seq(S), NEW I \in SUBSET DOMAIN s
  PROVE  /\ Pick(s, I) \in Seq(S)
         /\ Range(Pick(s, I)) = {s[i] : i \in I}
         /\ IsInjective(s) => IsInjective(Pick(s, I))
<1>1. /\ I \in SUBSET Nat
      /\ IsFiniteSet(I)
  <2>1. DOMAIN s = 1 .. Len(s) /\ Len(s) \in Nat
    BY LenProperties
  <2>2. IsFiniteSet(1 .. Len(s))
    BY <2>1, FS_Interval
  <2>3. QED
    BY <2>1, <2>2, FS_Subset
<1>2. Cardinality(I) \in Nat
  BY <1>1, FS_CardinalityType
<1>3. \A n \in 1 .. Cardinality(I) : Nth(I, n) \in I /\ Rank(I, Nth(I, n)) = n
  BY <1>1, NthProperties
<1>4. \A i \in I : \E n \in 1 .. Cardinality(I) : Nth(I, n) = i
  BY <1>1, NthProperties
<1>5. Pick(s, I) \in Seq(S)
  <2>1. \A n \in 1 .. Cardinality(I) : s[Nth(I, n)] \in S
    BY <1>3, ElementOfSeq, LenProperties
  <2>2. QED
    BY <1>2, <2>1, IsASeq DEF Pick
<1>6. Range(Pick(s, I)) = {s[i] : i \in I}
  BY <1>3, <1>4 DEF Range, Pick
<1>7. ASSUME IsInjective(s)
      PROVE  IsInjective(Pick(s, I))
  <2> SUFFICES ASSUME NEW m \in 1 .. Cardinality(I), NEW n \in 1 .. Cardinality(I),
                      s[Nth(I, m)] = s[Nth(I, n)]
               PROVE  m = n
    BY DEF Pick, IsInjective
  <2>1. Nth(I, m) = Nth(I, n)
    BY <1>3, <1>7 DEF IsInjective
  <2>2. QED
    BY <2>1, <1>3
<1>8. QED
  BY <1>5, <1>6, <1>7

\* What is picked has no repetition if the chosen places hold none.
THEOREM PickInjective ==
  ASSUME NEW S, NEW s \in Seq(S), NEW I \in SUBSET DOMAIN s,
         \A i, j \in I : s[i] = s[j] => i = j
  PROVE  IsInjective(Pick(s, I))
<1>1. I \in SUBSET Nat /\ IsFiniteSet(I)
  <2>1. DOMAIN s = 1 .. Len(s) /\ Len(s) \in Nat
    BY LenProperties
  <2>2. IsFiniteSet(1 .. Len(s))
    BY <2>1, FS_Interval
  <2>3. QED
    BY <2>1, <2>2, FS_Subset
<1>2. \A n \in 1 .. Cardinality(I) : Nth(I, n) \in I /\ Rank(I, Nth(I, n)) = n
  BY <1>1, NthProperties
<1> SUFFICES ASSUME NEW m \in 1 .. Cardinality(I), NEW n \in 1 .. Cardinality(I),
                    s[Nth(I, m)] = s[Nth(I, n)]
             PROVE  m = n
  BY DEF Pick, IsInjective
<1>3. Nth(I, m) = Nth(I, n)
  BY <1>2
<1>4. QED
  BY <1>2, <1>3

\* What is picked keeps its order.
THEOREM PickOrdered ==
  ASSUME NEW S, NEW s \in Seq(S), NEW I \in SUBSET DOMAIN s
  PROVE  /\ DOMAIN Pick(s, I) = 1 .. Cardinality(I)
         /\ \A n \in 1 .. Cardinality(I) : Nth(I, n) \in I /\ Pick(s, I)[n] = s[Nth(I, n)]
         /\ \A m, n \in 1 .. Cardinality(I) : m < n => Nth(I, m) < Nth(I, n)
<1>1. I \in SUBSET Nat /\ IsFiniteSet(I)
  <2>1. DOMAIN s = 1 .. Len(s) /\ Len(s) \in Nat
    BY LenProperties
  <2>2. IsFiniteSet(1 .. Len(s))
    BY <2>1, FS_Interval
  <2>3. QED
    BY <2>1, <2>2, FS_Subset
<1>2. \A n \in 1 .. Cardinality(I) : Nth(I, n) \in I /\ Rank(I, Nth(I, n)) = n
  BY <1>1, NthProperties
<1>3. ASSUME NEW m \in 1 .. Cardinality(I), NEW n \in 1 .. Cardinality(I), m < n
      PROVE  Nth(I, m) < Nth(I, n)
  <2>1. Nth(I, n) < Nth(I, m) => Rank(I, Nth(I, n)) < Rank(I, Nth(I, m))
    BY <1>1, <1>2, RankProperties
  <2>2. m # n /\ ~(n < m) /\ Nth(I, m) \in Nat /\ Nth(I, n) \in Nat
    BY <1>1, <1>2, <1>3
  <2>3. QED
    BY <1>2, <2>1, <2>2
<1>4. QED
  BY <1>2, <1>3 DEF Pick

\* Of two chosen places, the earlier stays the earlier.
LEMMA PickKeepsOrder ==
  ASSUME NEW S, NEW s \in Seq(S), NEW I \in SUBSET DOMAIN s, NEW i \in I, NEW j \in I, i < j
  PROVE  \E m, n \in DOMAIN Pick(s, I) : m < n /\ Pick(s, I)[m] = s[i] /\ Pick(s, I)[n] = s[j]
<1>1. I \in SUBSET Nat /\ IsFiniteSet(I)
  <2>1. DOMAIN s = 1 .. Len(s) /\ Len(s) \in Nat
    BY LenProperties
  <2>2. IsFiniteSet(1 .. Len(s))
    BY <2>1, FS_Interval
  <2>3. QED
    BY <2>1, <2>2, FS_Subset
<1>2. /\ DOMAIN Pick(s, I) = 1 .. Cardinality(I)
      /\ \A n \in 1 .. Cardinality(I) : Nth(I, n) \in I /\ Pick(s, I)[n] = s[Nth(I, n)]
      /\ \A m, n \in 1 .. Cardinality(I) : m < n => Nth(I, m) < Nth(I, n)
  BY PickOrdered
<1>3. PICK m \in 1 .. Cardinality(I) : Nth(I, m) = i
  BY <1>1, NthProperties
<1>4. PICK n \in 1 .. Cardinality(I) : Nth(I, n) = j
  BY <1>1, NthProperties
<1>5. i \in Nat /\ j \in Nat /\ m \in Int /\ n \in Int
  BY <1>1
<1>6. m < n
  <2>1. ~(j < i) /\ i # j
    BY <1>5
  <2>2. n < m => j < i
    BY <1>2, <1>3, <1>4
  <2>3. n = m => i = j
    BY <1>3, <1>4
  <2>4. QED
    BY <1>5, <2>1, <2>2, <2>3
<1>7. QED
  BY <1>2, <1>3, <1>4, <1>6

\* A sequence without repetition has as many elements as places.
THEOREM LengthOfInjective ==
  ASSUME NEW S, NEW s \in Seq(S), IsInjective(s)
  PROVE  Cardinality(Range(s)) = Len(s)
<1> DEFINE D == DOMAIN s
           R == Range(s)
<1>1. Len(s) \in Nat /\ D = 1 .. Len(s)
  BY LenProperties
<1>2. IsFiniteSet(D) /\ Cardinality(D) = Len(s)
  <2>1. IsFiniteSet(D) /\ Cardinality(D) = IF 1 > Len(s) THEN 0 ELSE Len(s) - 1 + 1
    BY <1>1, FS_Interval
  <2>2. QED
    BY <1>1, <2>1
<1>3. s \in [D -> R]
  <2>1. s \in [1 .. Len(s) -> S]
    BY LenProperties
  <2>2. QED
    BY <1>1, <2>1 DEF Range
<1>4. s \in Bijection(D, R)
  BY <1>3 DEF Bijection, Injection, Surjection, Range, IsInjective
<1>5. ExistsBijection(D, R)
  BY <1>4 DEF ExistsBijection
<1>6. QED
  BY <1>2, <1>5, FS_Bijection

\* Picking every index changes nothing.
THEOREM PickEverything ==
  ASSUME NEW S, NEW s \in Seq(S)
  PROVE  Pick(s, DOMAIN s) = s
<1> DEFINE n == Len(s)
<1>1. DOMAIN s = 1 .. n /\ n \in Nat
  BY LenProperties
<1>2. IsFiniteSet(1 .. n) /\ Cardinality(1 .. n) = n
  <2>1. IsFiniteSet(1 .. n) /\ Cardinality(1 .. n) = IF 1 > n THEN 0 ELSE n - 1 + 1
    BY <1>1, FS_Interval
  <2>2. QED
    BY <1>1, <2>1
<1>3. \A i \in 1 .. n : Rank(1 .. n, i) = i
  <2> SUFFICES ASSUME NEW i \in 1 .. n
               PROVE  Rank(1 .. n, i) = i
    OBVIOUS
  <2>1. {j \in 1 .. n : j <= i} = 1 .. i
    BY <1>1
  <2>2. Cardinality(1 .. i) = IF 1 > i THEN 0 ELSE i - 1 + 1
    BY <1>1, FS_Interval
  <2>3. Cardinality(1 .. i) = i
    BY <1>1, <2>2
  <2>4. Rank(1 .. n, i) = Cardinality({j \in 1 .. n : j <= i})
    BY DEF Rank
  <2>5. QED
    BY <2>1, <2>3, <2>4
<1>4. \A i \in 1 .. n : Nth(1 .. n, i) = i
  <2> SUFFICES ASSUME NEW i \in 1 .. n
               PROVE  Nth(1 .. n, i) = i
    OBVIOUS
  <2>1. Nth(1 .. n, i) \in 1 .. n /\ Rank(1 .. n, Nth(1 .. n, i)) = i
    BY <1>1, <1>2, NthProperties
  <2>2. QED
    BY <2>1, <1>3
<1>5. Pick(s, 1 .. n) = [i \in 1 .. n |-> s[i]]
  BY <1>2, <1>4 DEF Pick
<1>6. s = [i \in 1 .. n |-> s[i]]
  BY <1>1, LenProperties
<1>7. QED
  BY <1>1, <1>5, <1>6

\* Without the element at k, those behind it move up by one.
THEOREM PickOthers ==
  ASSUME NEW S, NEW s \in Seq(S), NEW k \in DOMAIN s
  PROVE  /\ DOMAIN Pick(s, DOMAIN s \ {k}) = 1 .. Len(s) - 1
         /\ \A i \in 1 .. Len(s) - 1 :
              Pick(s, DOMAIN s \ {k})[i] = s[IF i < k THEN i ELSE i + 1]
<1> DEFINE n == Len(s)
           I == (1 .. n) \ {k}
<1>1. DOMAIN s = 1 .. n /\ n \in Nat /\ k \in 1 .. n
  BY LenProperties
<1>2. \A m \in Nat : IsFiniteSet(1 .. m) /\ Cardinality(1 .. m) = m
  <2> SUFFICES ASSUME NEW m \in Nat
               PROVE  IsFiniteSet(1 .. m) /\ Cardinality(1 .. m) = m
    OBVIOUS
  <2>1. IsFiniteSet(1 .. m) /\ Cardinality(1 .. m) = IF 1 > m THEN 0 ELSE m - 1 + 1
    BY FS_Interval
  <2>2. QED
    BY <2>1
<1>3. I \in SUBSET Nat /\ IsFiniteSet(I) /\ Cardinality(I) = n - 1
  <2>1. IsFiniteSet(1 .. n) /\ Cardinality(1 .. n) = n
    BY <1>1, <1>2
  <2>2. IsFiniteSet((1 .. n) \ {k}) /\ Cardinality((1 .. n) \ {k}) = Cardinality(1 .. n) - 1
    BY <1>1, <2>1, FS_RemoveElement
  <2>3. QED
    BY <1>1, <2>1, <2>2
<1>4. \A j \in I : Rank(I, j) = IF j < k THEN j ELSE j - 1
  <2> SUFFICES ASSUME NEW j \in I
               PROVE  Rank(I, j) = IF j < k THEN j ELSE j - 1
    OBVIOUS
  <2>1. j \in 1 .. n /\ j # k
    OBVIOUS
  <2>2. Rank(I, j) = Cardinality({y \in I : y <= j})
    BY DEF Rank
  <2>3. CASE j < k
    <3>1. {y \in I : y <= j} = 1 .. j
      BY <1>1, <2>1, <2>3
    <3>2. j \in Nat
      BY <1>1, <2>1
    <3>3. QED
      BY <1>2, <2>2, <2>3, <3>1, <3>2
  <2>4. CASE ~(j < k)
    <3>1. {y \in I : y <= j} = (1 .. j) \ {k}
      BY <1>1, <2>1, <2>4
    <3>2. k \in 1 .. j
      BY <1>1, <2>1, <2>4
    <3>3. Cardinality((1 .. j) \ {k}) = j - 1
      <4>1. j \in Nat
        BY <1>1, <2>1
      <4>2. IsFiniteSet(1 .. j) /\ Cardinality(1 .. j) = j
        BY <1>2, <4>1
      <4>3. QED
        BY <3>2, <4>2, FS_RemoveElement
    <3>4. QED
      BY <2>2, <2>4, <3>1, <3>3
  <2>5. QED
    BY <2>3, <2>4
<1>5. ASSUME NEW i \in 1 .. n - 1
      PROVE  Nth(I, i) = IF i < k THEN i ELSE i + 1
  <2>1. Nth(I, i) \in I /\ Rank(I, Nth(I, i)) = i
    BY <1>3, NthProperties
  <2>2. i = IF Nth(I, i) < k THEN Nth(I, i) ELSE Nth(I, i) - 1
    BY <1>4, <2>1
  <2>3. Nth(I, i) \in Nat /\ Nth(I, i) # k
    BY <2>1, <1>1
  <2>4. QED
    BY <1>1, <2>2, <2>3
<1>6. QED
  BY <1>1, <1>3, <1>5 DEF Pick

-----------------------------------------------------------------------------
\* A set of naturals that is not empty has a least element.
LEMMA LeastNatural ==
  ASSUME NEW N \in SUBSET Nat, N # {}
  PROVE  \E n \in N : \A m \in N : n <= m
<1>1. PICK k \in N : TRUE
  OBVIOUS
<1> DEFINE I == {n \in N : n <= k}
<1>2. k \in Nat /\ \A n \in N : n \in Nat
  OBVIOUS
<1>3. I \subseteq 0 .. k /\ k \in I
  <2>1. \A n \in I : n \in Nat /\ n <= k
    BY <1>2
  <2>2. k \in I
    BY <1>2
  <2> HIDE DEF I
  <2>3. QED
    BY <1>2, <2>1, <2>2
<1>4. IsFiniteSet(I) /\ I \in SUBSET Nat
  <2>1. IsFiniteSet(0 .. k)
    BY <1>2, FS_Interval
  <2>2. QED
    BY <1>2, <1>3, <2>1, FS_Subset
<1>5. Cardinality(I) \in Nat /\ Cardinality(I) # 0
  BY <1>3, <1>4, FS_CardinalityType, FS_EmptySet
<1> DEFINE x == Nth(I, 1)
<1>6. x \in I /\ Rank(I, x) = 1
  BY <1>4, <1>5, NthProperties
<1>7. ASSUME NEW m \in N
      PROVE  x <= m
  <2>1. x \in Nat /\ m \in Nat /\ x <= k
    BY <1>4, <1>6
  <2>2. ASSUME m < x
        PROVE  FALSE
    <3>1. m \in I
      BY <1>2, <2>1, <2>2
    <3>2. Rank(I, m) \in 1 .. Cardinality(I) /\ Rank(I, m) < Rank(I, x)
      BY <1>4, <1>6, <2>2, <3>1, RankProperties
    <3>3. QED
      BY <1>6, <3>2
  <2>3. QED
    BY <2>1, <2>2
<1>8. QED
  BY <1>6, <1>7

\* Induction over the subsets of a finite set: P holds all of them if it holds every one
\* that it holds whenever one of its elements is taken out.
LEMMA SubsetInduction ==
  ASSUME NEW S, IsFiniteSet(S), NEW P,
         \A s \in SUBSET S : (\A x \in s : s \ {x} \in P) => s \in P
  PROVE  \A s \in SUBSET S : s \in P
<1> SUFFICES ASSUME NEW s0 \in SUBSET S, s0 \notin P
             PROVE  FALSE
  OBVIOUS
<1> DEFINE N == {Cardinality(s) : s \in {t \in SUBSET S : t \notin P}}
<1>1. \A s \in SUBSET S : IsFiniteSet(s) /\ Cardinality(s) \in Nat
  BY FS_Subset, FS_CardinalityType
<1>2. N \in SUBSET Nat /\ N # {}
  BY <1>1
<1>3. PICK n \in N : \A m \in N : n <= m
  BY <1>2, LeastNatural
<1>4. PICK s \in SUBSET S : s \notin P /\ Cardinality(s) = n
  BY <1>3
<1>5. ASSUME NEW x \in s
      PROVE  s \ {x} \in P
  <2>1. s \ {x} \in SUBSET S
    OBVIOUS
  <2>2. Cardinality(s \ {x}) = Cardinality(s) - 1
    BY <1>1, FS_RemoveElement
  <2>3. Cardinality(s) \in Nat
    BY <1>1
  <2>4. Cardinality(s \ {x}) \notin N
    BY <1>3, <1>4, <2>2, <2>3
  <2>5. QED
    BY <2>1, <2>4
<1>6. QED
  BY <1>4, <1>5

-----------------------------------------------------------------------------
(* Sums.  SumFunctionOnSet(f, S) iterates over the subsets of S, taking    *)
(* out one element at a time, whichever CHOOSE picks.                      *)

\* The element that is taken out first.
FirstOut(s) == CHOOSE x \in s : TRUE

\* The sum over s, with g for what is left.
Summed(f, g, s) == IF s = {} THEN 0 ELSE f[FirstOut(s)] + g[s \ {FirstOut(s)}]

\* g sums f over every subset of S.
Sums(f, S, g) == g = [s \in SUBSET S |-> Summed(f, g, s)]

SumsOf(f, S) == CHOOSE g : Sums(f, S, g)

\* What the operator of the library says.
LEMMA SumUnfolded ==
  ASSUME NEW f, NEW S
  PROVE  SumFunctionOnSet(f, S) = SumsOf(f, S)[S]
<1>1. SumFunctionOnSet(f, S)
        = (CHOOSE g : g = [s \in SUBSET S |-> IF s = {} THEN 0
                                              ELSE LET x == CHOOSE x \in s : TRUE
                                                   IN f[x] + g[s \ {x}]])[S]
  BY DEF SumFunctionOnSet, FoldFunctionOnSet, MapThenFoldSet
<1>2. QED
  BY <1>1 DEF SumsOf, Sums, Summed, FirstOut

\* The recursion has a solution on the subsets of a finite set.
LEMMA SumsExist ==
  ASSUME NEW f, NEW S, IsFiniteSet(S)
  PROVE  Sums(f, S, SumsOf(f, S))
<1> DEFINE Sub(n) == {s \in SUBSET S : Cardinality(s) <= n}
           Upto(n, g) == g = [s \in Sub(n) |-> Summed(f, g, s)]
           Bad == {n \in Nat : ~ \E g : Upto(n, g)}
<1>1. \A s \in SUBSET S : /\ IsFiniteSet(s) /\ Cardinality(s) \in Nat
                          /\ Cardinality(s) <= Cardinality(S)
                          /\ Cardinality(s) = 0 => s = {}
  BY FS_Subset, FS_CardinalityType, FS_EmptySet
<1>2. Cardinality(S) \in Nat
  BY FS_CardinalityType
<1>3. Bad = {}
  <2> SUFFICES ASSUME Bad # {} PROVE FALSE
    OBVIOUS
  <2>1. PICK n \in Bad : \A m \in Bad : n <= m
    <3>1. Bad \in SUBSET Nat
      OBVIOUS
    <3>2. QED
      BY <3>1, LeastNatural
  <2>2. n \in Nat /\ ~ \E g : Upto(n, g)
    OBVIOUS
  <2>3. CASE n = 0
    <3> DEFINE g == [s \in Sub(0) |-> 0]
    <3>1. \A s \in Sub(0) : s = {}
      BY <1>1
    <3>2. \A s \in Sub(0) : Summed(f, g, s) = 0
      BY <3>1 DEF Summed
    <3>3. Upto(0, g)
      BY <3>2
    <3>4. QED
      BY <2>2, <2>3, <3>3
  <2>4. CASE n # 0
    <3>1. n - 1 \in Nat /\ n - 1 \notin Bad
      <4>1. n - 1 \in Nat /\ ~(n <= n - 1)
        BY <2>2, <2>4
      <4> HIDE DEF Bad
      <4>2. QED
        BY <2>1, <4>1
    <3>2. PICK g : Upto(n - 1, g)
      BY <3>1
    <3> DEFINE h == [s \in Sub(n) |-> Summed(f, g, s)]
    <3>3. \A s \in Sub(n - 1) : s \in Sub(n) /\ g[s] = Summed(f, g, s)
      <4>1. \A s \in Sub(n - 1) : s \in Sub(n)
        BY <1>1, <2>2
      <4>2. \A s \in Sub(n - 1) : g[s] = Summed(f, g, s)
        BY <3>2
      <4>3. QED
        BY <4>1, <4>2
    <3>4. \A s \in Sub(n - 1) : h[s] = g[s]
      BY <3>3
    <3>5. \A s \in Sub(n) : s # {} => s \ {FirstOut(s)} \in Sub(n - 1)
      <4> SUFFICES ASSUME NEW s \in Sub(n), s # {}
                   PROVE  s \ {FirstOut(s)} \in Sub(n - 1)
        OBVIOUS
      <4>1. FirstOut(s) \in s
        BY DEF FirstOut
      <4>2. Cardinality(s \ {FirstOut(s)}) = Cardinality(s) - 1
        BY <1>1, <4>1, FS_RemoveElement
      <4>3. QED
        BY <1>1, <2>2, <4>2
    <3>6. \A s \in Sub(n) : Summed(f, h, s) = Summed(f, g, s)
      <4> HIDE DEF h, Sub
      <4>1. QED
        BY <3>4, <3>5 DEF Summed
    <3>7. Upto(n, h)
      BY <3>6
    <3>8. QED
      BY <2>2, <3>7
  <2>5. QED
    BY <2>3, <2>4
<1>4. PICK g : Upto(Cardinality(S), g)
  BY <1>2, <1>3
<1>5. Sub(Cardinality(S)) = SUBSET S
  BY <1>1
<1>6. Sums(f, S, g)
  BY <1>4, <1>5 DEF Sums
<1>7. QED
  BY <1>6 DEF SumsOf

\* Sums of naturals are naturals, whichever element is taken out first.
LEMMA SumsProperties ==
  ASSUME NEW S, IsFiniteSet(S), NEW f, \A x \in S : f[x] \in Nat
  PROVE  \A s \in SUBSET S :
           /\ SumsOf(f, S)[s] \in Nat
           /\ \A x \in s : SumsOf(f, S)[s] = f[x] + SumsOf(f, S)[s \ {x}]
<1> DEFINE g == SumsOf(f, S)
<1>1. \A s \in SUBSET S : g[s] = Summed(f, g, s)
  <2>1. Sums(f, S, g)
    BY SumsExist
  <2> HIDE DEF g
  <2>2. QED
    BY <2>1 DEF Sums
<1> HIDE DEF g
<1>2. /\ g[{}] = 0
      /\ \A s \in SUBSET S : s # {} => FirstOut(s) \in s /\ g[s] = f[FirstOut(s)] + g[s \ {FirstOut(s)}]
  BY <1>1 DEF Summed, FirstOut
<1>3. \A s \in SUBSET S : g[s] \in Nat
  <2> DEFINE P == {s \in SUBSET S : g[s] \in Nat}
  <2>1. ASSUME NEW s \in SUBSET S, \A x \in s : s \ {x} \in P
        PROVE  s \in P
    <3>1. CASE s = {}
      BY <1>2, <3>1
    <3>2. CASE s # {}
      <4>1. FirstOut(s) \in s /\ g[s] = f[FirstOut(s)] + g[s \ {FirstOut(s)}]
        BY <1>2, <3>2
      <4>2. f[FirstOut(s)] \in Nat /\ g[s \ {FirstOut(s)}] \in Nat
        BY <2>1, <4>1
      <4>3. QED
        BY <4>1, <4>2
    <3>3. QED
      BY <3>1, <3>2
  <2> HIDE DEF P
  <2>2. \A s \in SUBSET S : s \in P
    BY <2>1, SubsetInduction
  <2>3. QED
    BY <2>2 DEF P
<1>4. \A s \in SUBSET S : \A x \in s : g[s] = f[x] + g[s \ {x}]
  <2> DEFINE P == {s \in SUBSET S : \A x \in s : g[s] = f[x] + g[s \ {x}]}
  <2>1. ASSUME NEW s \in SUBSET S, \A x \in s : s \ {x} \in P
        PROVE  s \in P
    <3> SUFFICES ASSUME NEW x \in s
                 PROVE  g[s] = f[x] + g[s \ {x}]
      OBVIOUS
    <3> DEFINE y == FirstOut(s)
               t == s \ {x, y}
    <3>1. y \in s /\ g[s] = f[y] + g[s \ {y}]
      BY <1>2
    <3> HIDE DEF y
    <3>2. CASE x = y
      BY <3>1, <3>2
    <3>3. CASE x # y
      <4>1. (s \ {y}) \ {x} = t /\ (s \ {x}) \ {y} = t /\ t \in SUBSET S
        OBVIOUS
      <4>2. x \in s \ {y} /\ y \in s \ {x}
        BY <3>1, <3>3
      <4>3. g[s \ {y}] = f[x] + g[t]
        BY <2>1, <3>1, <4>1, <4>2
      <4>4. g[s \ {x}] = f[y] + g[t]
        BY <2>1, <4>1, <4>2
      <4>5. f[x] \in Nat /\ f[y] \in Nat /\ g[t] \in Nat
        BY <1>3, <3>1, <4>1
      <4>6. QED
        BY <3>1, <4>3, <4>4, <4>5
    <3>4. QED
      BY <3>2, <3>3
  <2> HIDE DEF P
  <2>2. \A s \in SUBSET S : s \in P
    BY <2>1, SubsetInduction
  <2>3. QED
    BY <2>2 DEF P
<1>5. QED
  BY <1>3, <1>4 DEF g

\* The sum over a set is the same whichever larger set it is taken in.
LEMMA SumsAgree ==
  ASSUME NEW S, IsFiniteSet(S), NEW f, \A x \in S : f[x] \in Nat, NEW T \in SUBSET S
  PROVE  SumFunctionOnSet(f, T) = SumsOf(f, S)[T]
<1> DEFINE g == SumsOf(f, T)
           h == SumsOf(f, S)
           P == {s \in SUBSET T : g[s] = h[s]}
<1>1. IsFiniteSet(T)
  BY FS_Subset
<1>2. Sums(f, T, g) /\ Sums(f, S, h)
  BY <1>1, SumsExist
<1> HIDE DEF g, h
<1>3. \A s \in SUBSET T : g[s] = Summed(f, g, s) /\ h[s] = Summed(f, h, s)
  BY <1>2 DEF Sums
<1>4. ASSUME NEW s \in SUBSET T, \A x \in s : s \ {x} \in P
      PROVE  s \in P
  <2>1. s # {} => FirstOut(s) \in s
    BY DEF FirstOut
  <2>2. s # {} => g[s \ {FirstOut(s)}] = h[s \ {FirstOut(s)}]
    BY <1>4, <2>1
  <2>3. Summed(f, g, s) = Summed(f, h, s)
    BY <2>2 DEF Summed
  <2>4. QED
    BY <1>3, <2>3
<1> HIDE DEF P
<1>5. \A s \in SUBSET T : s \in P
  BY <1>1, <1>4, SubsetInduction
<1>6. g[T] = h[T]
  BY <1>5 DEF P
<1>7. QED
  BY <1>6, SumUnfolded DEF g, h

\* The sum over a finite set: what it is, and what an element more or less does to it.
THEOREM SumProperties ==
  ASSUME NEW S, IsFiniteSet(S), NEW f, \A x \in S : f[x] \in Nat
  PROVE  /\ SumFunctionOnSet(f, S) \in Nat
         /\ \A x \in S : SumFunctionOnSet(f, S) = f[x] + SumFunctionOnSet(f, S \ {x})
         /\ \A T \in SUBSET S : SumFunctionOnSet(f, T) <= SumFunctionOnSet(f, S)
<1> DEFINE Sum(T) == SumFunctionOnSet(f, T)
<1>1. \A T \in SUBSET S : Sum(T) \in Nat /\ \A x \in T : Sum(T) = f[x] + Sum(T \ {x})
  <2>1. \A T \in SUBSET S : Sum(T) = SumsOf(f, S)[T]
    BY SumsAgree
  <2>2. \A T \in SUBSET S : /\ SumsOf(f, S)[T] \in Nat
                            /\ \A x \in T : SumsOf(f, S)[T] = f[x] + SumsOf(f, S)[T \ {x}]
    BY SumsProperties
  <2>3. \A T \in SUBSET S : \A x \in T : T \ {x} \in SUBSET S
    OBVIOUS
  <2> HIDE DEF Sum
  <2>4. QED
    BY <2>1, <2>2, <2>3
<1> HIDE DEF Sum
<1>2. \A T \in SUBSET S : Sum(T) <= Sum(S)
  <2> DEFINE P == {s \in SUBSET S : \A T \in SUBSET s : Sum(T) <= Sum(s)}
  <2>1. ASSUME NEW s \in SUBSET S, \A x \in s : s \ {x} \in P
        PROVE  s \in P
    <3> SUFFICES ASSUME NEW T \in SUBSET s
                 PROVE  Sum(T) <= Sum(s)
      OBVIOUS
    <3>1. T \in SUBSET S /\ Sum(T) \in Nat /\ Sum(s) \in Nat
      BY <1>1
    <3>2. CASE T = s
      BY <3>1, <3>2
    <3>3. CASE T # s
      <4>1. PICK x \in s : x \notin T
        BY <3>3
      <4>2. Sum(T) <= Sum(s \ {x})
        BY <2>1, <4>1
      <4>3. s \ {x} \in SUBSET S /\ Sum(s \ {x}) \in Nat /\ f[x] \in Nat
        BY <1>1
      <4>4. Sum(s) = f[x] + Sum(s \ {x})
        BY <1>1
      <4>5. QED
        BY <3>1, <4>2, <4>3, <4>4
    <3>4. QED
      BY <3>2, <3>3
  <2> HIDE DEF P
  <2>2. \A s \in SUBSET S : s \in P
    BY <2>1, SubsetInduction
  <2>3. QED
    BY <2>2 DEF P
<1>3. QED
  BY <1>1, <1>2 DEF Sum

\* One element more adds at most its own number.
LEMMA SumOneMore ==
  ASSUME NEW S, IsFiniteSet(S), NEW f, NEW x, \A y \in S \cup {x} : f[y] \in Nat
  PROVE  SumFunctionOnSet(f, S \cup {x}) <= SumFunctionOnSet(f, S) + f[x]
<1> DEFINE T == S \cup {x}
           Sum(U) == SumFunctionOnSet(f, U)
<1>1. IsFiniteSet(T)
  BY FS_AddElement
<1>2. /\ Sum(T) \in Nat /\ Sum(S) \in Nat
      /\ Sum(T) = f[x] + Sum(T \ {x})
      /\ Sum(T \ {x}) <= Sum(S)
  <2>1. /\ Sum(T) \in Nat
        /\ \A y \in T : Sum(T) = f[y] + Sum(T \ {y})
    BY <1>1, SumProperties
  <2>2. /\ Sum(S) \in Nat
        /\ \A U \in SUBSET S : Sum(U) <= Sum(S)
    BY SumProperties
  <2>3. x \in T /\ T \ {x} \in SUBSET S
    OBVIOUS
  <2> HIDE DEF T, Sum
  <2>4. QED
    BY <2>1, <2>2, <2>3
<1>3. Sum(T \ {x}) \in Nat
  <2>1. IsFiniteSet(T \ {x}) /\ \A y \in T \ {x} : f[y] \in Nat
    BY <1>1, FS_Subset
  <2>2. QED
    BY <2>1, SumProperties
<1>4. f[x] \in Nat
  OBVIOUS
<1> HIDE DEF T, Sum
<1>5. Sum(T) <= Sum(S) + f[x]
  BY <1>2, <1>3, <1>4
<1>6. QED
  BY <1>5 DEF T, Sum

\* The sum of nothing.
THEOREM SumOfNothing ==
  ASSUME NEW f
  PROVE  SumFunctionOnSet(f, {}) = 0
<1> DEFINE g == SumsOf(f, {})
<1>1. IsFiniteSet({})
  BY FS_EmptySet
<1>2. Sums(f, {}, g)
  BY <1>1, SumsExist
<1> HIDE DEF g
<1>3. g[{}] = Summed(f, g, {})
  BY <1>2 DEF Sums
<1>4. QED
  BY <1>3, SumUnfolded DEF Summed, g

\* The sum depends on what is summed and nothing else.
THEOREM SumsSame ==
  ASSUME NEW S, IsFiniteSet(S), NEW f, NEW h, \A x \in S : f[x] \in Nat /\ h[x] = f[x]
  PROVE  SumFunctionOnSet(h, S) = SumFunctionOnSet(f, S)
<1> DEFINE F(s) == SumFunctionOnSet(f, s)
           H(s) == SumFunctionOnSet(h, s)
           P == {s \in SUBSET S : H(s) = F(s)}
<1>1. ASSUME NEW s \in SUBSET S, \A x \in s : s \ {x} \in P
      PROVE  s \in P
  <2>1. CASE s = {}
    BY <2>1, SumOfNothing
  <2>2. CASE s # {}
    <3>1. PICK x \in s : TRUE
      BY <2>2
    <3>2. IsFiniteSet(s) /\ (\A y \in s : f[y] \in Nat) /\ (\A y \in s : h[y] \in Nat)
      BY FS_Subset
    <3>3. F(s) = f[x] + F(s \ {x}) /\ H(s) = h[x] + H(s \ {x})
      BY <3>1, <3>2, SumProperties
    <3>4. H(s \ {x}) = F(s \ {x}) /\ h[x] = f[x]
      BY <1>1, <3>1
    <3> HIDE DEF F, H
    <3>5. H(s) = F(s)
      BY <3>3, <3>4
    <3>6. QED
      BY <3>5
  <2>3. QED
    BY <2>1, <2>2
<1> HIDE DEF P
<1>2. \A s \in SUBSET S : s \in P
  BY <1>1, SubsetInduction
<1>3. QED
  BY <1>2 DEF P

\* Each of some more elements with the same number adds that number.
THEOREM SumOfMore ==
  ASSUME NEW A, IsFiniteSet(A), NEW S, IsFiniteSet(S), A \cap S = {},
         NEW f, \A x \in A : f[x] \in Nat, NEW c \in Nat, \A x \in S : f[x] = c
  PROVE  SumFunctionOnSet(f, A \cup S) = SumFunctionOnSet(f, A) + c * Cardinality(S)
<1> DEFINE Sum(s) == SumFunctionOnSet(f, s)
           P == {s \in SUBSET S : Sum(A \cup s) = Sum(A) + c * Cardinality(s)}
<1>1. \A s \in SUBSET S : /\ IsFiniteSet(s) /\ Cardinality(s) \in Nat /\ IsFiniteSet(A \cup s)
                          /\ \A x \in A \cup s : f[x] \in Nat
  BY FS_Subset, FS_CardinalityType, FS_Union
<1>2. Sum(A) \in Nat
  BY SumProperties
<1>3. ASSUME NEW s \in SUBSET S, \A x \in s : s \ {x} \in P
      PROVE  s \in P
  <2>1. CASE s = {}
    <3>1. A \cup s = A /\ Cardinality(s) = 0
      BY <2>1, FS_EmptySet
    <3> HIDE DEF Sum
    <3>2. PICK all \in Nat : all = c * Cardinality(s) /\ all = 0
      BY <3>1
    <3>3. Sum(A \cup s) = Sum(A)
      BY <3>1
    <3>4. Sum(A \cup s) = Sum(A) + all
      BY <1>2, <3>2, <3>3
    <3>5. Sum(A \cup s) = Sum(A) + c * Cardinality(s)
      BY <3>2, <3>4
    <3>6. QED
      BY <3>5
  <2>2. CASE s # {}
    <3>1. PICK x \in s : TRUE
      BY <2>2
    <3>2. (A \cup s) \ {x} = A \cup (s \ {x}) /\ x \in A \cup s
      BY <3>1
    <3>3. Sum(A \cup s) = f[x] + Sum((A \cup s) \ {x})
      BY <1>1, <3>2, SumProperties
    <3>4. Sum(A \cup (s \ {x})) = Sum(A) + c * Cardinality(s \ {x})
      BY <1>3, <3>1
    <3>5. Cardinality(s \ {x}) = Cardinality(s) - 1
      BY <1>1, <3>1, FS_RemoveElement
    <3>6. Cardinality(s) \in Nat /\ f[x] = c
      BY <1>1, <3>1
    <3> HIDE DEF Sum
    <3>7. c * (Cardinality(s) - 1) = c * Cardinality(s) - c
      BY <3>6
    <3>8. PICK all \in Nat : all = c * Cardinality(s)
      BY <3>6
    <3>9. Sum(A \cup s) = c + (Sum(A) + (all - c))
      BY <3>2, <3>3, <3>4, <3>5, <3>6, <3>7, <3>8
    <3>10. Sum(A \cup s) = Sum(A) + all
      BY <1>2, <3>8, <3>9
    <3>11. Sum(A \cup s) = Sum(A) + c * Cardinality(s)
      BY <3>8, <3>10
    <3>12. QED
      BY <3>11
  <2>3. QED
    BY <2>1, <2>2
<1> HIDE DEF P
<1>4. \A s \in SUBSET S : s \in P
  BY <1>3, SubsetInduction
<1>5. QED
  BY <1>4 DEF P

=============================================================================
