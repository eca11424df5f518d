-------------------------- MODULE Counting_proofs --------------------------
(***************************************************************************)
(* Least and greatest numbers, sums and orders of finite sets (Counting),    *)
(* and sequences that are made of parts of others.                         *)
(***************************************************************************)
EXTENDS Counting, Sequences, FiniteSetTheorems, WellFoundedInduction, TLAPS

-----------------------------------------------------------------------------
(* Numbers *)

\* A set of numbers has a least one.
LEMMA NatLeast ==
  ASSUME NEW T \in SUBSET Nat, T # {}
  PROVE  \E x \in T : \A y \in T : x <= y
<1> DEFINE R == {ss \in Nat \X Nat : ss[1] < ss[2]}
<1>1. PICK x \in T : \A y \in T : ~ (<<y, x>> \in R)
  <2>1. IsWellFoundedOn(R, Nat)
    BY NatLessThanWellFounded DEF OpToRel
  <2> HIDE DEF R
  <2> QED BY <2>1, WFMin
<1>2. ASSUME NEW y \in T  PROVE x <= y
  <2>1. <<y, x>> \in Nat \X Nat
    OBVIOUS
  <2>2. ~ (y < x)
    BY <1>1, <2>1
  <2> QED BY <2>1, <2>2
<1> QED BY <1>2

\* The least of some numbers.
LEMMA MinOfNats ==
  ASSUME NEW S \in SUBSET Nat, S # {}
  PROVE  Min(S) \in S /\ \A x \in S : Min(S) <= x
BY NatLeast DEF Min

\* The largest of some numbers that have a bound.
LEMMA MaxOfNats ==
  ASSUME NEW S \in SUBSET Nat, S # {}, NEW b \in Nat, \A x \in S : x <= b
  PROVE  Max(S) \in S /\ \A x \in S : x <= Max(S)
<1> DEFINE D == {b - x : x \in S}
<1>1. D \in SUBSET Nat /\ D # {}
  <2>1. ASSUME NEW x \in S  PROVE b - x \in Nat
    <3>1. x \in Nat /\ x <= b
      OBVIOUS
    <3> QED BY <3>1
  <2> QED BY <2>1
<1>2. PICK d \in D : \A y \in D : d <= y
  <2> HIDE DEF D
  <2> QED BY <1>1, NatLeast
<1>3. PICK m \in S : d = b - m
  BY <1>2
<1>4. \A x \in S : m >= x
  <2> SUFFICES ASSUME NEW x \in S  PROVE m >= x
    OBVIOUS
  <2>1. d <= b - x /\ x \in Nat /\ m \in Nat
    BY <1>2
  <2> QED BY <1>3, <2>1
<1>5. Max(S) \in S /\ \A x \in S : Max(S) >= x
  BY <1>4 DEF Max
<1> QED BY <1>5

\* The numbers in a sequence have a bound.
LEMMA SequenceIsBounded ==
  ASSUME NEW n \in Nat, NEW f, \A i \in 1..n : f[i] \in Nat
  PROVE  \E b \in Nat : \A i \in 1..n : f[i] <= b
<1> DEFINE Bounded(m) == \E b \in Nat : \A i \in 1..m : f[i] <= b
<1>1. ASSUME NEW m \in Nat, m <= n, m # 0 => Bounded(m - 1)
      PROVE  Bounded(m)
  <2>1. CASE m = 0
    <3>1. \A i \in 1..m : f[i] <= 0
      BY <2>1
    <3> QED BY <3>1
  <2>2. CASE m # 0
    <3>1. PICK b \in Nat : \A i \in 1..m - 1 : f[i] <= b
      BY <1>1, <2>2
    <3>2. f[m] \in Nat
      BY <1>1, <2>2
    <3>3. PICK c \in Nat : b <= c /\ f[m] <= c
      BY <3>2
    <3>4. ASSUME NEW i \in 1..m  PROVE f[i] <= c
      <4>1. i = m \/ i \in 1..m - 1
        OBVIOUS
      <4>2. f[i] \in Nat
        BY <1>1
      <4> QED BY <3>1, <3>3, <4>1, <4>2
    <3> QED BY <3>4
  <2> QED BY <2>1, <2>2
<1> HIDE DEF Bounded
<1>2. Bounded(n)
  <2> DEFINE Bad == {m \in Nat : m <= n /\ ~ Bounded(m)}
  <2> SUFFICES ASSUME Bad # {}  PROVE FALSE
    OBVIOUS
  <2>1. PICK m \in Bad : \A j \in Bad : m <= j
    BY NatLeast
  <2>2. m # 0 => m - 1 \in Nat /\ m - 1 <= n /\ ~ (m <= m - 1)
    OBVIOUS
  <2>3. m # 0 => Bounded(m - 1)
    BY <2>1, <2>2
  <2> QED BY <1>1, <2>3
<1> QED BY <1>2 DEF Bounded

-----------------------------------------------------------------------------
(* Sums.  The recursive function over the subsets of a finite set exists,  *)
(* by the number of their elements.                                        *)

Some(s) == CHOOSE x \in s : TRUE

\* What the sum of a set is, given those of its subsets.
SumStep(f, sum, s) == IF s = {} THEN 0 ELSE f[Some(s)] + sum[s \ {Some(s)}]

\* The sums of all subsets.
AreSums(f, S, sum) == sum = [s \in SUBSET S |-> SumStep(f, sum, s)]

\* What is chosen from a set that is not empty is in it.
LEMMA SomeIn ==
  ASSUME NEW s, s # {}
  PROVE  Some(s) \in s
BY DEF Some

\* A finite set without one of its elements has one element less.
LEMMA SmallerSet ==
  ASSUME NEW S, IsFiniteSet(S), NEW x \in S
  PROVE  /\ IsFiniteSet(S \ {x}) /\ Cardinality(S) \in Nat \ {0}
         /\ Cardinality(S \ {x}) = Cardinality(S) - 1
<1>1. IsFiniteSet(S \ {x}) /\ Cardinality(S \ {x}) = Cardinality(S) - 1
  BY FS_RemoveElement
<1>2. Cardinality(S) \in Nat /\ Cardinality(S \ {x}) \in Nat
  BY <1>1, FS_CardinalityType
<1> QED BY <1>1, <1>2

\* The sum over a set is one of the sums over its subsets, which exist: up to
\* each size, from those of the size before.
LEMMA SumUnfolds ==
  ASSUME NEW f, NEW S, IsFiniteSet(S)
  PROVE  \E sum : AreSums(f, S, sum) /\ SumOver(f, S) = sum[S]
<1> DEFINE UpTo(l) == {s \in SUBSET S : Cardinality(s) <= l}
           Is(sum, l) == sum = [s \in UpTo(l) |-> SumStep(f, sum, s)]
<1>f. ASSUME NEW s \in SUBSET S
      PROVE  IsFiniteSet(s) /\ Cardinality(s) \in Nat /\ Cardinality(s) <= Cardinality(S)
  BY FS_Subset, FS_CardinalityType
<1>1. ASSUME NEW l \in Nat, l # 0 => \E sum : Is(sum, l - 1)
      PROVE  \E sum : Is(sum, l)
  <2>1. CASE l = 0
    <3> DEFINE sum == [s \in UpTo(l) |-> 0]
    <3>1. \A s \in UpTo(l) : s = {}
      BY <1>f, <2>1, FS_EmptySet
    <3>2. Is(sum, l)
      BY <3>1 DEF SumStep
    <3> QED BY <3>2
  <2>2. CASE l # 0
    <3>1. PICK low : Is(low, l - 1)
      BY <1>1, <2>2
    <3> DEFINE sum == [s \in UpTo(l) |-> IF s \in UpTo(l - 1) THEN low[s]
                                         ELSE SumStep(f, low, s)]
    <3>2. UpTo(l - 1) \subseteq UpTo(l)
      BY <1>f
    <3>3. ASSUME NEW s \in UpTo(l), s # {}
          PROVE  s \ {Some(s)} \in UpTo(l - 1)
      <4>1. Some(s) \in s
        BY <3>3, SomeIn
      <4>2. Cardinality(s \ {Some(s)}) = Cardinality(s) - 1 /\ Cardinality(s) \in Nat
        BY <1>f, <4>1, SmallerSet
      <4> QED BY <4>2
    <3>4. \A s \in UpTo(l - 1) : sum[s] = low[s]
      BY <3>2
    <3>5. ASSUME NEW s \in UpTo(l)  PROVE SumStep(f, sum, s) = SumStep(f, low, s)
      <4> HIDE DEF sum
      <4> QED BY <3>3, <3>4 DEF SumStep
    <3>6. \A s \in UpTo(l - 1) : low[s] = SumStep(f, low, s)
      BY <3>1
    <3>7. \A s \in UpTo(l) : sum[s] = SumStep(f, sum, s)
      BY <3>5, <3>6
    <3>8. sum = [s \in UpTo(l) |-> sum[s]]
      OBVIOUS
    <3> HIDE DEF sum
    <3>9. Is(sum, l)
      BY <3>7, <3>8
    <3> QED BY <3>9
  <2> QED BY <2>1, <2>2
<1> HIDE DEF Is
<1>2. \A l \in Nat : \E sum : Is(sum, l)
  <2> DEFINE Bad == {l \in Nat : ~ (\E sum : Is(sum, l))}
  <2> SUFFICES ASSUME Bad # {}  PROVE FALSE
    OBVIOUS
  <2>1. PICK l \in Bad : \A j \in Bad : l <= j
    BY NatLeast
  <2>2. l # 0 => l - 1 \in Nat /\ ~ (l <= l - 1)
    OBVIOUS
  <2>3. l # 0 => \E sum : Is(sum, l - 1)
    BY <2>1, <2>2
  <2> QED BY <1>1, <2>3
<1>3. UpTo(Cardinality(S)) = SUBSET S /\ Cardinality(S) \in Nat
  BY <1>f
<1> DEFINE All(sum) == sum = [s \in SUBSET S |-> SumStep(f, sum, s)]
<1>4. \E sum : All(sum)
  BY <1>2, <1>3 DEF Is
<1> DEFINE up == CHOOSE sum : All(sum)
<1>5. All(up)
  BY <1>4
<1>6. SumOver(f, S) = up[S]
  BY DEF SumOver, MapThenSumSet, MapThenFoldSet, SumStep, Some
<1> QED BY <1>5, <1>6 DEF AreSums

\* Two such functions are the same where they both are defined.
LEMMA SumsAgree ==
  ASSUME NEW f, NEW S, IsFiniteSet(S), NEW T \in SUBSET S,
         NEW g, AreSums(f, S, g), NEW h, AreSums(f, T, h)
  PROVE  \A s \in SUBSET T : g[s] = h[s]
<1> DEFINE Bad == {l \in Nat : \E s \in SUBSET T : Cardinality(s) = l /\ g[s] # h[s]}
<1>f. ASSUME NEW s \in SUBSET T  PROVE IsFiniteSet(s) /\ Cardinality(s) \in Nat
  BY FS_Subset, FS_CardinalityType
<1>1. \A s \in SUBSET T : g[s] = SumStep(f, g, s) /\ h[s] = SumStep(f, h, s)
  <2>1. \A s \in SUBSET S : g[s] = SumStep(f, g, s)
    BY DEF AreSums
  <2>2. \A s \in SUBSET T : h[s] = SumStep(f, h, s)
    BY DEF AreSums
  <2> QED BY <2>1, <2>2
<1>2. Bad = {}
  <2> SUFFICES ASSUME Bad # {}  PROVE FALSE
    OBVIOUS
  <2>1. PICK l \in Bad : \A j \in Bad : l <= j
    BY NatLeast
  <2>2. PICK s \in SUBSET T : Cardinality(s) = l /\ g[s] # h[s]
    BY <2>1
  <2>3. CASE s = {}
    BY <1>1, <2>2, <2>3 DEF SumStep
  <2>4. CASE s # {}
    <3> DEFINE less == s \ {Some(s)}
    <3>1. Some(s) \in s
      BY <2>4, SomeIn
    <3>2. less \in SUBSET T /\ Cardinality(less) = l - 1 /\ l - 1 \in Nat /\ ~ (l <= l - 1)
      BY <1>f, <2>2, <3>1, SmallerSet
    <3>3. g[less] = h[less]
      BY <2>1, <3>2
    <3> QED BY <1>1, <2>2, <2>4, <3>3 DEF SumStep
  <2> QED BY <2>3, <2>4
<1>3. ASSUME NEW s \in SUBSET T, g[s] # h[s]  PROVE FALSE
  BY <1>f, <1>2, <1>3
<1> QED BY <1>3

\* A sum by its definition.
LEMMA SumByChoice ==
  ASSUME NEW f, NEW S, IsFiniteSet(S)
  PROVE  SumOver(f, S) = IF S = {} THEN 0 ELSE f[Some(S)] + SumOver(f, S \ {Some(S)})
<1>1. PICK g : AreSums(f, S, g) /\ SumOver(f, S) = g[S]
  BY SumUnfolds
<1>2. \A s \in SUBSET S : g[s] = SumStep(f, g, s)
  BY <1>1 DEF AreSums
<1>3. SumOver(f, S) = SumStep(f, g, S)
  BY <1>1, <1>2
<1>4. CASE S = {}
  BY <1>3, <1>4 DEF SumStep
<1>5. CASE S # {}
  <2> DEFINE T == S \ {Some(S)}
  <2>1. T \in SUBSET S /\ IsFiniteSet(T)
    BY FS_Subset
  <2>2. PICK h : AreSums(f, T, h) /\ SumOver(f, T) = h[T]
    <3> HIDE DEF T
    <3> QED BY <2>1, SumUnfolds
  <2>3. g[T] = h[T]
    <3> HIDE DEF T
    <3>1. \A s \in SUBSET T : g[s] = h[s]
      BY <1>1, <2>1, <2>2, SumsAgree
    <3> QED BY <3>1
  <2> QED BY <1>3, <1>5, <2>2, <2>3 DEF SumStep
<1> QED BY <1>4, <1>5

\* What holds of the empty set, and of a set if of all that lack one element.
LEMMA FewerElements ==
  ASSUME NEW S, IsFiniteSet(S), NEW Good \in SUBSET SUBSET S,
         \A s \in SUBSET S : (\A x \in s : s \ {x} \in Good) => s \in Good
  PROVE  S \in Good
<1> DEFINE Bad == {l \in Nat : \E s \in SUBSET S : Cardinality(s) = l /\ s \notin Good}
<1>1. CASE Bad # {}
  <2>1. PICK l \in Bad : \A j \in Bad : l <= j
    BY <1>1, NatLeast
  <2>2. PICK s \in SUBSET S : Cardinality(s) = l /\ s \notin Good
    BY <2>1
  <2>3. IsFiniteSet(s)
    BY FS_Subset
  <2>4. PICK x \in s : s \ {x} \notin Good
    BY <2>2
  <2>5. Cardinality(s \ {x}) = l - 1 /\ l - 1 \in Nat /\ ~ (l <= l - 1)
    BY <2>2, <2>3, <2>4, SmallerSet
  <2>6. l - 1 \in Bad
    BY <2>4, <2>5
  <2> QED BY <2>1, <2>5, <2>6
<1>2. CASE Bad = {}
  <2>1. Cardinality(S) \in Nat
    BY FS_CardinalityType
  <2> QED BY <1>2, <2>1
<1> QED BY <1>1, <1>2

\* A sum of numbers is one.
LEMMA SumIsNat ==
  ASSUME NEW f, NEW S, IsFiniteSet(S), \A x \in S : f[x] \in Nat
  PROVE  SumOver(f, S) \in Nat
<1> DEFINE Good == {s \in SUBSET S : SumOver(f, s) \in Nat}
<1>1. ASSUME NEW s \in SUBSET S, \A x \in s : s \ {x} \in Good
      PROVE  s \in Good
  <2>1. IsFiniteSet(s)
    BY FS_Subset
  <2>2. SumOver(f, s) = IF s = {} THEN 0 ELSE f[Some(s)] + SumOver(f, s \ {Some(s)})
    BY <2>1, SumByChoice
  <2>3. s # {} => f[Some(s)] \in Nat /\ SumOver(f, s \ {Some(s)}) \in Nat
    BY <1>1, SomeIn
  <2>4. SumOver(f, s) \in Nat
    BY <2>2, <2>3
  <2> QED BY <2>4
<1> HIDE DEF Good
<1>2. S \in Good
  BY <1>1, FewerElements DEF Good
<1> QED BY <1>2 DEF Good

\* Any element can be taken out of a sum.
LEMMA SumSplits ==
  ASSUME NEW f, NEW S, IsFiniteSet(S), \A x \in S : f[x] \in Nat
  PROVE  \A x \in S : SumOver(f, S) = f[x] + SumOver(f, S \ {x})
<1> DEFINE Splits(s) == \A x \in s : SumOver(f, s) = f[x] + SumOver(f, s \ {x})
           Good == {s \in SUBSET S : Splits(s)}
<1>1. ASSUME NEW s \in SUBSET S, \A x \in s : s \ {x} \in Good
      PROVE  s \in Good
  <2>1. IsFiniteSet(s)
    BY FS_Subset
  <2>2. CASE s = {}
    BY <2>2
  <2>3. CASE s # {}
    <3> DEFINE c == Some(s)
    <3>1. c \in s /\ SumOver(f, s) = f[c] + SumOver(f, s \ {c})
      BY <2>1, <2>3, SomeIn, SumByChoice
    <3> HIDE DEF c
    <3>2. ASSUME NEW x \in s, x # c
          PROVE  SumOver(f, s) = f[x] + SumOver(f, s \ {x})
      <4> DEFINE both == (s \ {c}) \ {x}
      <4>1. SumOver(f, s \ {c}) = f[x] + SumOver(f, both)
        BY <1>1, <3>1, <3>2
      <4>2. SumOver(f, s \ {x}) = f[c] + SumOver(f, both)
        <5>1. both = (s \ {x}) \ {c}
          OBVIOUS
        <5> QED BY <1>1, <3>1, <3>2, <5>1
      <4>3. f[x] \in Nat /\ f[c] \in Nat /\ SumOver(f, both) \in Nat
        <5>1. IsFiniteSet(both)
          BY <2>1, FS_Subset
        <5>2. \A y \in both : f[y] \in Nat
          OBVIOUS
        <5>3. SumOver(f, both) \in Nat
          <6> HIDE DEF both
          <6> QED BY <5>1, <5>2, SumIsNat
        <5> QED BY <3>1, <5>3
      <4> HIDE DEF both
      <4> QED BY <3>1, <4>1, <4>2, <4>3
    <3> QED BY <3>1, <3>2
  <2> QED BY <2>2, <2>3
<1> HIDE DEF Good
<1>2. S \in Good
  BY <1>1, FewerElements DEF Good
<1> QED BY <1>2 DEF Good

UnionOver(parts, A) == UNION {parts[a] : a \in A}

\* The numbers of elements of sets that are apart add up to that of their union.
LEMMA CountsAddUp ==
  ASSUME NEW A, IsFiniteSet(A), NEW parts, \A a \in A : IsFiniteSet(parts[a]),
         \A a, b \in A : a = b \/ parts[a] \cap parts[b] = {},
         NEW counts, \A a \in A : counts[a] = Cardinality(parts[a])
  PROVE  /\ IsFiniteSet(UnionOver(parts, A))
         /\ SumOver(counts, A) = Cardinality(UnionOver(parts, A))
<1> DEFINE Whole(s) == UNION {parts[a] : a \in s}
           Adds(s) == IsFiniteSet(Whole(s)) /\ SumOver(counts, s) = Cardinality(Whole(s))
           Good == {s \in SUBSET A : Adds(s)}
<1>1. \A a \in A : counts[a] \in Nat /\ IsFiniteSet(parts[a])
  BY FS_CardinalityType
<1>2. ASSUME NEW s \in SUBSET A, \A x \in s : s \ {x} \in Good
      PROVE  s \in Good
  <2>1. IsFiniteSet(s)
    BY FS_Subset
  <2>2. CASE s = {}
    <3>1. Whole(s) = {} /\ SumOver(counts, s) = 0
      BY <2>1, <2>2, SumByChoice
    <3> QED BY <3>1, FS_EmptySet
  <2>3. CASE s # {}
    <3>1. PICK x \in s : TRUE
      BY <2>3
    <3> DEFINE rest == Whole(s \ {x})
    <3>2. IsFiniteSet(rest) /\ SumOver(counts, s \ {x}) = Cardinality(rest)
      BY <1>2
    <3>3. Whole(s) = parts[x] \cup rest /\ parts[x] \cap rest = {}
      OBVIOUS
    <3>4. SumOver(counts, s) = counts[x] + SumOver(counts, s \ {x})
      BY <1>1, <2>1, SumSplits
    <3> HIDE DEF rest, Whole
    <3>5. /\ IsFiniteSet(parts[x] \cup rest)
          /\ Cardinality(parts[x] \cup rest) = Cardinality(parts[x]) + Cardinality(rest)
      <4>1. /\ IsFiniteSet(parts[x]) /\ Cardinality(parts[x]) \in Nat /\ Cardinality(rest) \in Nat
            /\ Cardinality({}) = 0
        BY <1>1, <3>2, FS_CardinalityType, FS_EmptySet
      <4>2. /\ IsFiniteSet(parts[x] \cup rest)
            /\ Cardinality(parts[x] \cup rest) =
                 Cardinality(parts[x]) + Cardinality(rest) - Cardinality(parts[x] \cap rest)
        BY <3>2, <4>1, FS_Union
      <4>3. Cardinality(parts[x] \cap rest) = 0
        BY <3>3, <4>1
      <4> QED BY <4>1, <4>2, <4>3
    <3> QED BY <3>2, <3>3, <3>4, <3>5
  <2> QED BY <2>2, <2>3
<1> HIDE DEF Good
<1>3. A \in Good
  BY <1>2, FewerElements DEF Good
<1> QED BY <1>3 DEF Good, UnionOver

-----------------------------------------------------------------------------
(* Order: the rank of a number is how many come before it, so it is another *)
(* one for each.                                                           *)

\* What comes before has a smaller rank.
LEMMA RankOrders ==
  ASSUME NEW I \in SUBSET Int, IsFiniteSet(I), NEW key, \A i \in I : key[i] \in Int,
         NEW i \in I, NEW j \in I, Precedes(key, i, j)
  PROVE  Rank(key, I, i) < Rank(key, I, j)
<1> DEFINE P(k) == {m \in I : Precedes(key, m, k)}
<1>1. P(i) \cup {i} \subseteq P(j)
  <2>1. ASSUME NEW m \in P(i)  PROVE Precedes(key, m, j)
    <3>1. m \in Int /\ i \in Int /\ j \in Int /\ key[m] \in Int /\ key[i] \in Int /\ key[j] \in Int
      OBVIOUS
    <3>2. Precedes(key, m, i)
      OBVIOUS
    <3> QED BY <3>1, <3>2 DEF Precedes
  <2> QED BY <2>1
<1>2. i \notin P(i)
  BY DEF Precedes
<1>3. IsFiniteSet(P(i)) /\ IsFiniteSet(P(j))
  BY FS_Subset
<1> HIDE DEF P
<1>4. /\ IsFiniteSet(P(i) \cup {i}) /\ Cardinality(P(i) \cup {i}) = Cardinality(P(i)) + 1
  BY <1>2, <1>3, FS_AddElement
<1>5. Cardinality(P(i) \cup {i}) <= Cardinality(P(j))
  BY <1>1, <1>3, FS_Subset
<1>6. Cardinality(P(i)) \in Nat /\ Cardinality(P(j)) \in Nat
  BY <1>3, FS_CardinalityType
<1> QED BY <1>4, <1>5, <1>6 DEF Rank, P

\* A rank is less than the number of elements.
LEMMA RankRange ==
  ASSUME NEW I \in SUBSET Int, IsFiniteSet(I), NEW key, NEW i \in I, key[i] \in Int
  PROVE  Rank(key, I, i) \in 0..(Cardinality(I) - 1)
<1> DEFINE P == {m \in I : Precedes(key, m, i)}
<1>1. i \notin P
  BY DEF Precedes
<1>2. P \subseteq I \ {i}
  BY <1>1
<1> HIDE DEF P
<1>3. IsFiniteSet(I \ {i}) /\ Cardinality(I \ {i}) = Cardinality(I) - 1
  BY FS_RemoveElement
<1>4. IsFiniteSet(P) /\ Cardinality(P) <= Cardinality(I) - 1
  <2> DEFINE rest == I \ {i}
  <2>1. P \in SUBSET rest /\ IsFiniteSet(rest) /\ Cardinality(rest) = Cardinality(I) - 1
    BY <1>2, <1>3
  <2> HIDE DEF rest
  <2>2. IsFiniteSet(P) /\ Cardinality(P) <= Cardinality(rest)
    BY <2>1, FS_Subset
  <2> QED BY <2>1, <2>2
<1>5. Cardinality(P) \in Nat /\ Cardinality(I) \in Nat
  BY <1>4, FS_CardinalityType
<1> QED BY <1>4, <1>5 DEF Rank, P

\* InOrder lists each number once, and each before those it precedes.
LEMMA InOrderSorts ==
  ASSUME NEW I \in SUBSET Int, IsFiniteSet(I), NEW key, \A i \in I : key[i] \in Int
  PROVE  LET n == Cardinality(I)  order == InOrder(key, I)
         IN /\ n \in Nat /\ order \in [1..n -> I] /\ Len(order) = n
            /\ \A i \in I : \E k \in 1..n : order[k] = i
            /\ \A k, l \in 1..n : k < l => Precedes(key, order[k], order[l])
<1> DEFINE n == Cardinality(I)
           order == InOrder(key, I)
           place == [i \in I |-> Rank(key, I, i) + 1]
<1>1. n \in Nat
  BY FS_CardinalityType
<1>2. \A i, j \in I : i = j \/ Precedes(key, i, j) \/ Precedes(key, j, i)
  BY DEF Precedes
<1>3. \A i \in I : Rank(key, I, i) \in 0..(n - 1)
  BY RankRange
<1>4. \A i, j \in I : Rank(key, I, i) = Rank(key, I, j) => i = j
  <2>1. ASSUME NEW i \in I, NEW j \in I, Rank(key, I, i) = Rank(key, I, j), i # j
        PROVE  FALSE
    <3>1. Rank(key, I, i) < Rank(key, I, j) \/ Rank(key, I, j) < Rank(key, I, i)
      BY <1>2, <2>1, RankOrders
    <3>2. Rank(key, I, i) \in Int /\ Rank(key, I, j) \in Int
      BY <1>1, <1>3
    <3> QED BY <2>1, <3>1, <3>2
  <2> QED BY <2>1
<1>5. place \in [I -> 1..n]
  BY <1>1, <1>3
<1>6. place \in Injection(I, 1..n)
  <2>1. ASSUME NEW i \in I, NEW j \in I, place[i] = place[j]  PROVE i = j
    <3>1. Rank(key, I, i) \in Int /\ Rank(key, I, j) \in Int
      BY <1>1, <1>3
    <3>2. Rank(key, I, i) = Rank(key, I, j)
      BY <2>1, <3>1
    <3> QED BY <1>4, <3>2
  <2> QED BY <1>5, <2>1 DEF Injection, IsInjective
<1>7. place \in Surjection(I, 1..n)
  <2>1. IsFiniteSet(1..n) /\ Cardinality(1..n) = n
    BY <1>1, FS_Interval
  <2> HIDE DEF place
  <2> QED BY <1>6, <2>1, FS_Injection
<1>8. \A k \in 1..n : \E i \in I : Rank(key, I, i) = k - 1
  <2>1. ASSUME NEW k \in 1..n  PROVE \E i \in I : Rank(key, I, i) = k - 1
    <3>1. PICK i \in I : place[i] = k
      BY <1>7 DEF Surjection
    <3>2. Rank(key, I, i) \in Int
      BY <1>1, <1>3
    <3> QED BY <3>1, <3>2
  <2> QED BY <2>1
<1>9. \A k \in 1..n : order[k] \in I /\ Rank(key, I, order[k]) = k - 1
  BY <1>8 DEF InOrder
<1>10. order \in [1..n -> I] /\ Len(order) = n
  BY <1>1, <1>9 DEF InOrder
<1>11. ASSUME NEW i \in I  PROVE \E k \in 1..n : order[k] = i
  <2>1. Rank(key, I, i) + 1 \in 1..n /\ Rank(key, I, i) = (Rank(key, I, i) + 1) - 1
    BY <1>1, <1>3
  <2>2. Rank(key, I, order[Rank(key, I, i) + 1]) = (Rank(key, I, i) + 1) - 1
    BY <1>9, <2>1
  <2>3. order[Rank(key, I, i) + 1] = i
    BY <1>4, <1>9, <2>1, <2>2
  <2> QED BY <2>1, <2>3
<1>12. ASSUME NEW k \in 1..n, NEW l \in 1..n, k < l
       PROVE  Precedes(key, order[k], order[l])
  <2>1. /\ order[k] \in I /\ Rank(key, I, order[k]) = k - 1
        /\ order[l] \in I /\ Rank(key, I, order[l]) = l - 1
    BY <1>9
  <2>2. order[k] # order[l]
    BY <1>1, <1>12, <2>1
  <2>3. CASE Precedes(key, order[l], order[k])
    <3>1. Rank(key, I, order[l]) < Rank(key, I, order[k])
      BY <2>1, <2>3, RankOrders
    <3> QED BY <1>1, <1>12, <2>1, <3>1
  <2> QED BY <1>2, <2>1, <2>2, <2>3
<1> QED BY <1>1, <1>10, <1>11, <1>12

\* A sum grows with its terms.
LEMMA SumIsMonotone ==
  ASSUME NEW S, IsFiniteSet(S), NEW f, NEW g,
         \A x \in S : f[x] \in Nat /\ g[x] \in Nat /\ f[x] <= g[x]
  PROVE  SumOver(f, S) <= SumOver(g, S)
<1> DEFINE Good == {s \in SUBSET S : SumOver(f, s) <= SumOver(g, s)}
<1>1. ASSUME NEW s \in SUBSET S, \A x \in s : s \ {x} \in Good
      PROVE  s \in Good
  <2>1. IsFiniteSet(s)
    BY FS_Subset
  <2>2. CASE s = {}
    <3>1. SumOver(f, s) = 0 /\ SumOver(g, s) = 0
      BY <2>1, <2>2, SumByChoice
    <3> QED BY <3>1
  <2>3. CASE s # {}
    <3> DEFINE x == Some(s)
    <3>1. x \in s
      BY <2>3, SomeIn
    <3> HIDE DEF x
    <3>2. s \ {x} \in Good /\ IsFiniteSet(s \ {x})
      BY <1>1, <2>1, <3>1, FS_Subset
    <3>3. /\ SumOver(f, s) = f[x] + SumOver(f, s \ {x})
          /\ SumOver(g, s) = g[x] + SumOver(g, s \ {x})
      BY <2>1, <3>1, SumSplits
    <3>4. SumOver(f, s \ {x}) \in Nat /\ SumOver(g, s \ {x}) \in Nat
      BY <3>2, SumIsNat
    <3>5. f[x] \in Nat /\ g[x] \in Nat /\ f[x] <= g[x]
      BY <3>1
    <3> QED BY <3>2, <3>3, <3>4, <3>5
  <2> QED BY <2>2, <2>3
<1>2. Good \in SUBSET SUBSET S
  OBVIOUS
<1>3. S \in Good
  <2> HIDE DEF Good
  <2> QED BY <1>1, <1>2, FewerElements
<1> QED BY <1>3

-----------------------------------------------------------------------------
(* Recursive functions that go through a sequence and append some of what   *)
(* they make of its elements                                                *)

\* The n elements of value that are to be kept, step by step.
Selects(f, keeps, value, n) ==
  f = [i \in 0..n |-> IF i = 0 THEN <<>>
                      ELSE IF keeps[i] THEN Append(f[i - 1], value[i])
                      ELSE f[i - 1]]

\* There is such a function, and what it appends to is a sequence.
LEMMA SelectionExists ==
  ASSUME NEW n \in Nat, NEW keeps, NEW value
  PROVE  \E f : Selects(f, keeps, value, n)
<1> DEFINE Step(f, i) == IF i = 0 THEN <<>>
                         ELSE IF keeps[i] THEN Append(f[i - 1], value[i])
                         ELSE f[i - 1]
           Is(f, l) == f = [i \in 0..l |-> Step(f, i)]
<1>1. ASSUME NEW l \in Nat, \A j \in Nat : j < l => \E f : Is(f, j)
      PROVE  \E f : Is(f, l)
  <2>1. CASE l = 0
    <3> DEFINE f == [i \in 0..l |-> <<>>]
    <3>1. Is(f, l)
      BY <2>1
    <3> QED BY <3>1
  <2>2. CASE l # 0
    <3>0. l - 1 \in Nat /\ l - 1 < l
      BY <2>2
    <3>1. PICK f : Is(f, l - 1)
      BY <1>1, <3>0
    <3> DEFINE g == [i \in 0..l |-> IF i = l THEN Step(f, l) ELSE f[i]]
    <3>2. \A i \in 0..l : i # 0 => g[i - 1] = f[i - 1]
      OBVIOUS
    <3>3. ASSUME NEW i \in 0..l  PROVE g[i] = Step(g, i)
      <4>1. CASE i = l
        BY <3>2, <4>1
      <4>2. CASE i # l
        <5>1. i \in 0..l - 1
          BY <4>2
        <5>2. f[i] = Step(f, i)
          BY <3>1, <5>1
        <5> QED BY <3>2, <4>2, <5>2
      <4> QED BY <4>1, <4>2
    <3>4. Is(g, l)
      <4>1. g = [i \in 0..l |-> g[i]]
        OBVIOUS
      <4> HIDE DEF g
      <4> QED BY <3>3, <4>1
    <3> QED BY <3>4
  <2> QED BY <2>1, <2>2
<1> HIDE DEF Is
<1>2. \A l \in Nat : \E f : Is(f, l)
  <2> DEFINE Bad == {l \in Nat : ~ (\E f : Is(f, l))}
  <2> SUFFICES ASSUME Bad # {}  PROVE FALSE
    OBVIOUS
  <2>1. PICK l \in Bad : \A j \in Bad : l <= j
    BY NatLeast
  <2>2. \A j \in Nat : j < l => \E f : Is(f, j)
    BY <2>1
  <2> QED BY <1>1, <2>2
<1> QED BY <1>2 DEF Is, Selects

\* What is selected from a sequence is a sequence of the same elements.
LEMMA SelectionIsSeq ==
  ASSUME NEW n \in Nat, NEW keeps, NEW S, NEW value, \A i \in 1..n : value[i] \in S,
         NEW f, Selects(f, keeps, value, n)
  PROVE  f[n] \in Seq(S)
<1>1. /\ f[0] = <<>>
      /\ \A i \in 1..n : f[i] = f[i - 1] \/ f[i] = Append(f[i - 1], value[i])
  <2>1. \A i \in 0..n : f[i] = IF i = 0 THEN <<>>
                               ELSE IF keeps[i] THEN Append(f[i - 1], value[i])
                               ELSE f[i - 1]
    BY DEF Selects
  <2>2. 0 \in 0..n /\ \A i \in 1..n : i \in 0..n /\ i # 0
    OBVIOUS
  <2> QED BY <2>1, <2>2
<1>2. ASSUME NEW i \in 1..n, f[i - 1] \in Seq(S)  PROVE f[i] \in Seq(S)
  <2>1. PICK s \in Seq(S), v \in S : s = f[i - 1] /\ v = value[i]
    BY <1>2
  <2>2. Append(s, v) \in Seq(S)
    OBVIOUS
  <2> QED BY <1>1, <2>1, <2>2
<1>3. <<>> \in Seq(S)
  OBVIOUS
<1> DEFINE Bad == {i \in Nat : i <= n /\ f[i] \notin Seq(S)}
<1>4. CASE Bad # {}
  <2>1. PICK i \in Bad : \A j \in Bad : i <= j
    BY <1>4, NatLeast
  <2>2. i # 0
    BY <1>1, <1>3
  <2>3. i \in 1..n /\ i - 1 \in Nat /\ i - 1 <= n /\ ~ (i <= i - 1)
    BY <2>2
  <2>4. f[i - 1] \in Seq(S)
    BY <2>1, <2>3
  <2> QED BY <1>2, <2>3, <2>4
<1> QED BY <1>4
=============================================================================
