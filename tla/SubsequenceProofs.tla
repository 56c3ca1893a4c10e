-------------------------- MODULE SubsequenceProofs --------------------------
(***************************************************************************)
(* What the elements of a sequence at some positions are, and the numbers  *)
(* behind it: least and largest members, ranks, and images.  Sequences of  *)
(* records that are named by an id, and how one is found in another.       *)
(***************************************************************************)
EXTENDS Subsequences, SequencesExt, FiniteSetsExt, SequenceTheorems, FiniteSetTheorems, WellFoundedInduction, TLAPS

\* A set of numbers has a least member.
LEMMA LeastNumber ==
  ASSUME NEW S, S \subseteq Nat, S # {}
  PROVE  \E x \in S : \A y \in S : x <= y
<1>1. PICK x \in S : \A y \in S : ~ (<<y, x>> \in OpToRel(<, Nat))
  BY NatLessThanWellFounded, WFMin
<1>2. ASSUME NEW y \in S PROVE x <= y
  <2>1. y \in Nat /\ x \in Nat
    OBVIOUS
  <2>2. y < x => <<y, x>> \in OpToRel(<, Nat)
    BY <2>1 DEF OpToRel
  <2>3. ~ (y < x)
    BY <1>1, <2>2, Zenon
  <2> QED BY <2>1, <2>3
<1> QED BY <1>2

\* A set of numbers that are bounded has a largest member, and Max is that.
LEMMA LargestOfBounded ==
  ASSUME NEW S \in SUBSET Nat, S # {}, NEW b \in Nat, \A n \in S : n <= b
  PROVE  Max(S) \in S /\ \A n \in S : n <= Max(S)
<1> DEFINE bounds == { c \in Nat : \A n \in S : n <= c }
<1>1. b \in bounds
  OBVIOUS
<1>2. PICK c \in bounds : \A d \in bounds : c <= d
  <2>1. bounds \subseteq Nat /\ bounds # {}
    BY <1>1
  <2> HIDE DEF bounds
  <2> QED BY <2>1, LeastNumber
<1>3. c \in S
  <2>1. SUFFICES ASSUME c \notin S PROVE FALSE
    OBVIOUS
  <2>2. PICK n \in S : TRUE
    OBVIOUS
  <2>3. c - 1 \in bounds
    BY <1>2, <2>1, <2>2
  <2> QED BY <1>2, <2>3
<1>4. \E x \in S : \A y \in S : x >= y
  BY <1>2, <1>3
<1> QED BY <1>4 DEF Max

\* The members of a set of numbers can be counted through.
LEMMA Ranked ==
  ASSUME NEW m \in Nat, NEW kept \in SUBSET (1 .. m), NEW n \in 1 .. Cardinality(kept)
  PROVE  \E i \in kept : Cardinality({ j \in kept : j <= i }) = n
<1>1. kept \subseteq Nat /\ n \in Nat /\ n >= 1
  OBVIOUS
<1>2. IsFiniteSet(1 .. m)
  BY FS_Interval
<1>3. \A S \in SUBSET kept : IsFiniteSet(S) /\ Cardinality(S) \in Nat
  <2>1. ASSUME NEW S \in SUBSET kept PROVE S \in SUBSET (1 .. m)
    OBVIOUS
  <2>2. ASSUME NEW S \in SUBSET kept PROVE IsFiniteSet(S)
    BY <1>2, <2>1, FS_Subset
  <2> QED BY <2>2, FS_CardinalityType
<1>4. ASSUME NEW S \in SUBSET kept, S # {} PROVE Max(S) \in S /\ \A j \in S : j <= Max(S)
  <2>1. S \in SUBSET Nat /\ \A j \in S : j <= m
    OBVIOUS
  <2> QED BY <1>4, <2>1, LargestOfBounded
<1> DEFINE UpTo(i) == { j \in kept : j <= i }
           Below(i) == { j \in kept : j < i }
           good == { i \in kept : Cardinality(UpTo(i)) >= n }
<1>5. kept # {}
  <2>1. kept = {} => Cardinality(kept) = 0
    BY FS_EmptySet
  <2> QED BY <1>1, <2>1
<1>6. good \subseteq Nat /\ good # {}
  <2>1. Max(kept) \in kept /\ UpTo(Max(kept)) = kept
    BY <1>4, <1>5
  <2>2. Cardinality(kept) >= n
    BY <1>3
  <2>3. Max(kept) \in good
    BY <2>1, <2>2
  <2> QED BY <1>1, <2>3
<1>7. PICK i : i \in good /\ \A j \in good : i <= j
  <2> HIDE DEF good
  <2> QED BY <1>6, LeastNumber
<1>8. i \in kept /\ i \in Nat /\ Cardinality(UpTo(i)) >= n
  BY <1>1, <1>7
<1>9. \A j \in kept : j < i => ~(Cardinality(UpTo(j)) >= n)
  <2>1. \A j \in good : i <= j /\ j \in Nat
    BY <1>6, <1>7
  <2>2. ASSUME NEW j \in kept, j < i, Cardinality(UpTo(j)) >= n PROVE FALSE
    <3>1. j \in good
      BY <2>2
    <3> QED BY <1>8, <2>1, <2>2, <3>1
  <2> QED BY <2>2
<1>10. UpTo(i) = Below(i) \union {i} /\ i \notin Below(i) /\ Below(i) \in SUBSET kept
  <2>1. ASSUME NEW j \in kept PROVE j <= i <=> j < i \/ j = i
    BY <1>1, <1>8
  <2>2. i \notin Below(i) /\ Below(i) \in SUBSET kept
    BY <1>1, <1>8
  <2>3. UpTo(i) = Below(i) \union {i}
    BY <1>8, <2>1
  <2> QED BY <2>2, <2>3
<1>11. PICK below \in Nat : below = Cardinality(Below(i))
  BY <1>3, <1>10
<1>12. Cardinality(UpTo(i)) = below + 1
  <2>1. IsFiniteSet(Below(i))
    BY <1>3, <1>10
  <2> QED BY <1>10, <1>11, <2>1, FS_AddElement
<1>13. below + 1 >= n
  BY <1>8, <1>12
<1>14. ~(below >= n)
  <2>1. CASE Below(i) = {}
    <3>1. below = 0
      BY <1>11, <2>1, FS_EmptySet
    <3> QED BY <1>1, <3>1
  <2>2. CASE Below(i) # {}
    <3>1. PICK p : p \in Below(i) /\ \A j \in Below(i) : j <= p
      BY <1>4, <1>10, <2>2
    <3>2. p \in kept /\ p < i /\ p \in Nat
      BY <1>1, <3>1
    <3>3. ASSUME NEW j \in kept PROVE j <= p <=> j < i
      BY <1>1, <1>8, <3>1, <3>2
    <3>4. UpTo(p) = Below(i)
      BY <3>3
    <3> QED BY <1>9, <1>11, <3>2, <3>4
  <2> QED BY <2>1, <2>2
<1>15. below + 1 = n
  BY <1>1, <1>13, <1>14
<1> QED BY <1>8, <1>12, <1>15

\* The rank of a member of a set of numbers, and the member of a rank.
Rank(kept, i) == Cardinality({ j \in kept : j <= i })

PlaceOf(kept, n) == CHOOSE i \in kept : Cardinality({ j \in kept : j <= i }) = n

\* Ranks are those of a sequence, and in order.
LEMMA Ranks ==
  ASSUME NEW m \in Nat, NEW kept \in SUBSET (1 .. m)
  PROVE  /\ Cardinality(kept) \in Nat
         /\ \A i \in kept : Rank(kept, i) \in 1 .. Cardinality(kept)
         /\ \A i, j \in kept : i < j => Rank(kept, i) < Rank(kept, j)
<1>1. IsFiniteSet(1 .. m)
  BY FS_Interval
<1>2. \A S \in SUBSET kept : IsFiniteSet(S) /\ Cardinality(S) \in Nat
  <2>1. ASSUME NEW S \in SUBSET kept PROVE S \in SUBSET (1 .. m)
    OBVIOUS
  <2>2. ASSUME NEW S \in SUBSET kept PROVE IsFiniteSet(S)
    BY <1>1, <2>1, FS_Subset
  <2> QED BY <2>2, FS_CardinalityType
<1>3. kept \subseteq Nat
  OBVIOUS
<1> DEFINE UpTo(i) == { j \in kept : j <= i }
<1>4. ASSUME NEW S \in SUBSET kept, NEW T \in SUBSET kept, S \subseteq T
      PROVE  Cardinality(S) <= Cardinality(T) /\ (S # T => Cardinality(S) < Cardinality(T))
  <2>1. IsFiniteSet(T)
    BY <1>2
  <2>2. Cardinality(S) <= Cardinality(T)
    BY <1>4, <2>1, FS_Subset
  <2>3. Cardinality(S) = Cardinality(T) => S = T
    BY <1>4, <2>1, FS_Subset
  <2> QED BY <1>2, <2>2, <2>3
<1>5. ASSUME NEW i \in kept PROVE Rank(kept, i) \in 1 .. Cardinality(kept)
  <2>1. UpTo(i) \in SUBSET kept /\ UpTo(i) \subseteq kept /\ kept \in SUBSET kept
    OBVIOUS
  <2>2. Cardinality(UpTo(i)) <= Cardinality(kept)
    BY <1>4, <2>1
  <2>3. {} \in SUBSET kept /\ {} \subseteq UpTo(i) /\ {} # UpTo(i)
    BY <1>3
  <2>4. Cardinality({}) < Cardinality(UpTo(i))
    BY <1>4, <2>1, <2>3
  <2>5. Cardinality({}) = 0
    BY FS_EmptySet
  <2>6. Cardinality(UpTo(i)) \in Nat /\ Cardinality(kept) \in Nat
    BY <1>2, <2>1
  <2>7. Rank(kept, i) = Cardinality(UpTo(i))
    BY DEF Rank
  <2> HIDE DEF UpTo
  <2> QED BY <2>2, <2>4, <2>5, <2>6, <2>7
<1>6. ASSUME NEW i \in kept, NEW j \in kept, i < j PROVE Rank(kept, i) < Rank(kept, j)
  <2>1. UpTo(i) \in SUBSET kept /\ UpTo(j) \in SUBSET kept
    OBVIOUS
  <2>2. UpTo(i) \subseteq UpTo(j)
    <3>1. ASSUME NEW k \in kept, k <= i PROVE k <= j
      <4>1. k \in Nat /\ i \in Nat /\ j \in Nat
        BY <1>3
      <4> QED BY <1>6, <3>1, <4>1
    <3> QED BY <3>1
  <2>3. j \in UpTo(j) /\ j \notin UpTo(i)
    BY <1>3, <1>6
  <2>4. Cardinality(UpTo(i)) < Cardinality(UpTo(j))
    <3> HIDE DEF UpTo
    <3> QED BY <1>4, <2>1, <2>2, <2>3
  <2> QED BY <2>4 DEF Rank
<1> QED BY <1>2, <1>5, <1>6

\* Each rank has its member, each member its rank, in the same order.
LEMMA RanksArePlaces ==
  ASSUME NEW m \in Nat, NEW kept \in SUBSET (1 .. m)
  PROVE  /\ Cardinality(kept) \in Nat
         /\ \A n \in 1 .. Cardinality(kept) : PlaceOf(kept, n) \in kept /\ Rank(kept, PlaceOf(kept, n)) = n
         /\ \A i \in kept : Rank(kept, i) \in 1 .. Cardinality(kept) /\ PlaceOf(kept, Rank(kept, i)) = i
         /\ \A n, l \in 1 .. Cardinality(kept) : n < l => PlaceOf(kept, n) < PlaceOf(kept, l)
<1>1. /\ Cardinality(kept) \in Nat
      /\ \A i \in kept : Rank(kept, i) \in 1 .. Cardinality(kept)
      /\ \A i, j \in kept : i < j => Rank(kept, i) < Rank(kept, j)
  BY Ranks
<1>2. ASSUME NEW n \in 1 .. Cardinality(kept)
      PROVE  PlaceOf(kept, n) \in kept /\ Rank(kept, PlaceOf(kept, n)) = n
  <2>1. \E i \in kept : Cardinality({ j \in kept : j <= i }) = n
    BY Ranked
  <2> QED BY <2>1 DEF PlaceOf, Rank
<1>3. kept \subseteq Nat /\ \A i \in kept : Rank(kept, i) \in Nat
  <2>1. ASSUME NEW i \in kept PROVE Rank(kept, i) \in Nat
    <3>1. Rank(kept, i) \in 1 .. Cardinality(kept)
      BY <1>1
    <3> QED BY <1>1, <3>1
  <2> QED BY <2>1
<1>4. ASSUME NEW i \in kept PROVE PlaceOf(kept, Rank(kept, i)) = i
  <2>1. PICK k \in kept : k = PlaceOf(kept, Rank(kept, i)) /\ Rank(kept, k) = Rank(kept, i)
    BY <1>1, <1>2
  <2>2. ~(k < i) /\ ~(i < k)
    BY <1>1, <1>3, <2>1
  <2>3. k \in Nat /\ i \in Nat
    BY <1>3
  <2> QED BY <2>1, <2>2, <2>3
<1>5. ASSUME NEW n \in 1 .. Cardinality(kept), NEW l \in 1 .. Cardinality(kept), n < l
      PROVE  PlaceOf(kept, n) < PlaceOf(kept, l)
  <2>1. PICK i \in kept : i = PlaceOf(kept, n) /\ Rank(kept, i) = n
    BY <1>2
  <2>2. PICK j \in kept : j = PlaceOf(kept, l) /\ Rank(kept, j) = l
    BY <1>2
  <2>3. i \in Nat /\ j \in Nat /\ n \in Nat /\ l \in Nat
    BY <1>1, <1>3
  <2>4. ~(j < i)
    <3>1. j < i => l < n
      BY <1>1, <2>1, <2>2
    <3> QED BY <1>5, <2>3, <3>1
  <2>5. i # j
    BY <1>5, <2>1, <2>2, <2>3
  <2>6. i < j
    BY <2>3, <2>4, <2>5
  <2> QED BY <2>1, <2>2, <2>6
<1> QED BY <1>1, <1>2, <1>4, <1>5

----------------------------------------------------------------------------
\* The elements at some positions are each at one of them, and in their order.
LEMMA ElementsHave ==
  ASSUME NEW R, NEW s \in Seq(R), NEW kept \in SUBSET (1 .. Len(s))
  PROVE  /\ Cardinality(kept) \in Nat
         /\ ElementsAt(s, kept) \in Seq(R) /\ DOMAIN ElementsAt(s, kept) = 1 .. Cardinality(kept)
         /\ Len(ElementsAt(s, kept)) = Cardinality(kept)
         /\ \A n \in DOMAIN ElementsAt(s, kept) :
              PlaceOf(kept, n) \in kept /\ ElementsAt(s, kept)[n] = s[PlaceOf(kept, n)]
         /\ \A i \in kept :
              Rank(kept, i) \in DOMAIN ElementsAt(s, kept) /\ PlaceOf(kept, Rank(kept, i)) = i
         /\ \A n, l \in DOMAIN ElementsAt(s, kept) : n < l => PlaceOf(kept, n) < PlaceOf(kept, l)
<1>1. Len(s) \in Nat
  OBVIOUS
<1>2. PICK E : E = ElementsAt(s, kept)
  OBVIOUS
<1>3. E = [n \in 1 .. Cardinality(kept) |-> s[PlaceOf(kept, n)]]
  BY <1>2 DEF ElementsAt, PlaceOf
<1>4. /\ Cardinality(kept) \in Nat
      /\ \A n \in 1 .. Cardinality(kept) : PlaceOf(kept, n) \in kept /\ Rank(kept, PlaceOf(kept, n)) = n
      /\ \A i \in kept : Rank(kept, i) \in 1 .. Cardinality(kept) /\ PlaceOf(kept, Rank(kept, i)) = i
      /\ \A n, l \in 1 .. Cardinality(kept) : n < l => PlaceOf(kept, n) < PlaceOf(kept, l)
  BY <1>1, RanksArePlaces
<1>5. DOMAIN E = 1 .. Cardinality(kept) /\ \A n \in DOMAIN E : E[n] = s[PlaceOf(kept, n)]
  BY <1>3
<1>6. E \in Seq(R) /\ Len(E) = Cardinality(kept)
  <2>1. PICK c \in Nat : c = Cardinality(kept)
    BY <1>4
  <2>2. ASSUME NEW n \in 1 .. c PROVE s[PlaceOf(kept, n)] \in R
    <3>1. PICK i \in kept : i = PlaceOf(kept, n)
      BY <1>4, <2>1
    <3>2. i \in DOMAIN s
      OBVIOUS
    <3> QED BY <3>1, <3>2
  <2>3. E \in [1 .. c -> R]
    BY <1>3, <2>1, <2>2
  <2> QED BY <1>3, <2>1, <2>3
<1> QED BY <1>2, <1>4, <1>5, <1>6

\* A sequence that takes its elements from growing positions has the elements at these.
LEMMA ElementsAre ==
  ASSUME NEW R, NEW s \in Seq(R), NEW t \in Seq(R), NEW f \in [1 .. Len(t) -> 1 .. Len(s)],
         \A n, l \in 1 .. Len(t) : n < l => f[n] < f[l],
         \A n \in 1 .. Len(t) : t[n] = s[f[n]]
  PROVE  ElementsAt(s, { f[n] : n \in 1 .. Len(t) }) = t
<1>1. PICK k \in Nat : k = Len(t)
  OBVIOUS
<1>2. PICK kept : kept = { f[n] : n \in 1 .. k }
  OBVIOUS
<1>3. \A n \in 1 .. k : f[n] \in Nat
  BY <1>1
<1>4. \A n, l \in 1 .. k : f[n] <= f[l] <=> n <= l
  <2>1. ASSUME NEW n \in 1 .. k, NEW l \in 1 .. k PROVE f[n] <= f[l] <=> n <= l
    <3>1. n < l => f[n] < f[l]
      BY <1>1
    <3>2. l < n => f[l] < f[n]
      BY <1>1
    <3>3. f[n] \in Nat /\ f[l] \in Nat /\ n \in Nat /\ l \in Nat
      BY <1>3
    <3> QED BY <3>1, <3>2, <3>3
  <2> QED BY <2>1
<1>5. ASSUME NEW n \in 0 .. k PROVE Cardinality({ f[l] : l \in 1 .. n }) = n
  <2>1. PICK S : S = { f[l] : l \in 1 .. n }
    OBVIOUS
  <2>2. PICK g : g = [l \in 1 .. n |-> f[l]]
    OBVIOUS
  <2>3. g \in [1 .. n -> S]
    BY <2>1, <2>2
  <2>4. \A l, m \in 1 .. n : g[l] = g[m] => l = m
    <3>1. ASSUME NEW l \in 1 .. n, NEW m \in 1 .. n, g[l] = g[m] PROVE l = m
      <4>1. f[l] = f[m] /\ l \in 1 .. k /\ m \in 1 .. k
        BY <2>2, <3>1
      <4>2. f[l] <= f[m] /\ f[m] <= f[l]
        BY <1>3, <4>1
      <4>3. l <= m /\ m <= l
        BY <1>4, <4>1, <4>2
      <4> QED BY <4>3
    <3> QED BY <3>1
  <2>5. \A x \in S : \E l \in 1 .. n : g[l] = x
    BY <2>1, <2>2
  <2>6. g \in Bijection(1 .. n, S)
    BY <2>3, <2>4, <2>5 DEF Bijection, Injection, Surjection, IsInjective
  <2>7. ExistsBijection(1 .. n, S)
    BY <2>6 DEF ExistsBijection
  <2>8. n \in Nat
    OBVIOUS
  <2> QED BY <2>1, <2>7, <2>8, FS_CountingElements
<1>6. Cardinality(kept) = k
  <2>1. k \in 0 .. k
    OBVIOUS
  <2> QED BY <1>2, <1>5, <2>1
<1>7. ASSUME NEW n \in 1 .. k PROVE Cardinality({ j \in kept : j <= f[n] }) = n
  <2>1. { j \in kept : j <= f[n] } = { f[l] : l \in 1 .. n }
    <3>1. ASSUME NEW j \in kept, j <= f[n] PROVE j \in { f[l] : l \in 1 .. n }
      <4>1. PICK l \in 1 .. k : j = f[l]
        BY <1>2
      <4>2. l <= n
        BY <1>4, <3>1, <4>1
      <4> QED BY <4>1, <4>2
    <3>2. ASSUME NEW l \in 1 .. n PROVE f[l] \in kept /\ f[l] <= f[n]
      <4>1. l \in 1 .. k /\ l <= n
        OBVIOUS
      <4> QED BY <1>2, <1>4, <4>1
    <3> QED BY <3>1, <3>2
  <2>2. n \in 0 .. k
    OBVIOUS
  <2> QED BY <1>5, <2>1, <2>2
<1>8. ASSUME NEW n \in 1 .. k PROVE (CHOOSE i \in kept : Cardinality({ j \in kept : j <= i }) = n) = f[n]
  <2>1. f[n] \in kept
    BY <1>2
  <2>2. ASSUME NEW i \in kept, Cardinality({ j \in kept : j <= i }) = n PROVE i = f[n]
    <3>1. PICK l \in 1 .. k : i = f[l]
      BY <1>2
    <3>2. Cardinality({ j \in kept : j <= i }) = l
      BY <1>7, <3>1
    <3> QED BY <2>2, <3>1, <3>2
  <2>3. Cardinality({ j \in kept : j <= f[n] }) = n
    BY <1>7
  <2> QED BY <2>1, <2>2, <2>3, Zenon
<1>9. ElementsAt(s, kept) = [n \in 1 .. k |-> s[CHOOSE i \in kept : Cardinality({ j \in kept : j <= i }) = n]]
  BY <1>6, Zenon DEF ElementsAt
<1>10. PICK E : E = ElementsAt(s, kept)
  OBVIOUS
<1>11. ASSUME NEW n \in 1 .. k PROVE E[n] = t[n]
  <2>1. E[n] = s[CHOOSE i \in kept : Cardinality({ j \in kept : j <= i }) = n]
    BY <1>9, <1>10, Zenon
  <2>2. E[n] = s[f[n]]
    BY <1>8, <2>1, Zenon
  <2> QED BY <1>1, <2>2
<1>12. E \in Seq(R) /\ Len(E) = k
  <2>1. kept \in SUBSET (1 .. Len(s))
    BY <1>1, <1>2
  <2> QED BY <1>6, <1>10, <2>1, ElementsHave
<1>13. E = t
  BY <1>1, <1>11, <1>12, SeqEqual
<1> QED BY <1>1, <1>2, <1>10, <1>13

\* A list without one of its elements.
LEMMA RemovedAt ==
  ASSUME NEW R, NEW s \in Seq(R), NEW i \in 1 .. Len(s)
  PROVE  /\ RemoveAt(s, i) \in Seq(R) /\ Len(RemoveAt(s, i)) = Len(s) - 1
         /\ \A k \in 1 .. Len(s) - 1 : RemoveAt(s, i)[k] = IF k < i THEN s[k] ELSE s[k + 1]
<1>1. PICK n \in Nat : n = Len(s)
  OBVIOUS
<1>2. PICK a : a = SubSeq(s, 1, i - 1)
  OBVIOUS
<1>3. PICK b : b = SubSeq(s, i + 1, n)
  OBVIOUS
<1>4. a \in Seq(R) /\ Len(a) = i - 1 /\ \A k \in 1 .. i - 1 : a[k] = s[k]
  BY <1>1, <1>2
<1>5. b \in Seq(R) /\ Len(b) = n - i /\ \A k \in 1 .. n - i : b[k] = s[i + k]
  <2>1. b \in Seq(R) /\ Len(b) = n - i
    BY <1>1, <1>3
  <2>2. ASSUME NEW k \in 1 .. n - i PROVE b[k] = s[i + k]
    BY <1>1, <1>3
  <2> QED BY <2>1, <2>2
<1>6. RemoveAt(s, i) = a \o b
  BY <1>1, <1>2, <1>3 DEF RemoveAt
<1>7. /\ a \o b \in Seq(R) /\ Len(a \o b) = n - 1
      /\ \A k \in 1 .. n - 1 : (a \o b)[k] = IF k < i THEN a[k] ELSE b[k - (i - 1)]
  <2>1. a \o b \in Seq(R) /\ Len(a \o b) = n - 1
    <3>1. a \o b \in Seq(R) /\ Len(a \o b) = Len(a) + Len(b)
      BY <1>4, <1>5, ConcatProperties
    <3> QED BY <1>1, <1>4, <1>5, <3>1
  <2>2. ASSUME NEW k \in 1 .. n - 1 PROVE (a \o b)[k] = IF k < i THEN a[k] ELSE b[k - (i - 1)]
    BY <1>1, <1>4, <1>5
  <2> QED BY <2>1, <2>2
<1>8. ASSUME NEW k \in 1 .. n - 1 PROVE RemoveAt(s, i)[k] = IF k < i THEN s[k] ELSE s[k + 1]
  <2>1. CASE k < i
    <3>1. k \in 1 .. i - 1
      BY <1>1, <2>1
    <3> QED BY <1>4, <1>6, <1>7, <2>1, <3>1
  <2>2. CASE ~(k < i)
    <3>1. PICK j \in 1 .. n - i : j = k - (i - 1)
      BY <1>1, <2>2
    <3>2. i + j = k + 1
      BY <1>1, <3>1
    <3> QED BY <1>5, <1>6, <1>7, <2>2, <3>1, <3>2
  <2> QED BY <2>1, <2>2
<1> QED BY <1>1, <1>6, <1>7, <1>8

----------------------------------------------------------------------------
(***************************************************************************)
(* A sequence is within another if it is found there at growing positions. *)
(* Sequences of records with an id name each of them once.                 *)
(***************************************************************************)
Within(s, t) ==
  \E f \in [1 .. Len(s) -> 1 .. Len(t)] :
    /\ \A n, l \in 1 .. Len(s) : n < l => f[n] < f[l]
    /\ \A n \in 1 .. Len(s) : s[n] = t[f[n]]

NamesOnce(s) == \A i, j \in 1 .. Len(s) : s[i].id = s[j].id => i = j

Names(s, d) == \E i \in 1 .. Len(s) : s[i].id = d

LEMMA WithinItself ==
  ASSUME NEW R, NEW s \in Seq(R)
  PROVE  Within(s, s)
<1>1. PICK f : f = [n \in 1 .. Len(s) |-> n]
  OBVIOUS
<1>2. f \in [1 .. Len(s) -> 1 .. Len(s)] /\ \A n \in 1 .. Len(s) : f[n] = n
  BY <1>1
<1>3. (\A n, l \in 1 .. Len(s) : n < l => f[n] < f[l]) /\ \A n \in 1 .. Len(s) : s[n] = s[f[n]]
  BY <1>2
<1> QED BY <1>2, <1>3 DEF Within

\* What of the rows is named in the records are the records.
LEMMA NamedAre ==
  ASSUME NEW R, NEW s \in Seq(R), NEW t \in Seq(R), NamesOnce(t), Within(s, t)
  PROVE  ElementsAt(t, { i \in 1 .. Len(t) : Names(s, t[i].id) }) = s
<1>1. PICK f \in [1 .. Len(s) -> 1 .. Len(t)] :
        /\ \A n, l \in 1 .. Len(s) : n < l => f[n] < f[l]
        /\ \A n \in 1 .. Len(s) : s[n] = t[f[n]]
  BY DEF Within
<1>2. { i \in 1 .. Len(t) : Names(s, t[i].id) } = { f[n] : n \in 1 .. Len(s) }
  <2>1. ASSUME NEW n \in 1 .. Len(s) PROVE f[n] \in 1 .. Len(t) /\ Names(s, t[f[n]].id)
    BY <1>1 DEF Names
  <2>2. ASSUME NEW i \in 1 .. Len(t), Names(s, t[i].id) PROVE \E n \in 1 .. Len(s) : i = f[n]
    <3>1. PICK n \in 1 .. Len(s) : s[n].id = t[i].id
      BY <2>2 DEF Names
    <3>2. t[f[n]].id = t[i].id /\ f[n] \in 1 .. Len(t)
      BY <1>1, <3>1
    <3> QED BY <3>2 DEF NamesOnce
  <2> QED BY <2>1, <2>2
<1>3. ElementsAt(t, { f[n] : n \in 1 .. Len(s) }) = s
  BY <1>1, ElementsAre
<1> QED BY <1>2, <1>3

\* The elements that are kept, of both.
Apart(s, x) == { i \in 1 .. Len(s) : s[i].id # x }

\* What is within another sequence remains so without an id.
LEMMA KeptFits ==
  ASSUME NEW R, NEW s \in Seq(R), NEW t \in Seq(R), NEW x, Within(s, t)
  PROVE  Within(ElementsAt(s, Apart(s, x)), ElementsAt(t, Apart(t, x)))
<1>1. PICK f \in [1 .. Len(s) -> 1 .. Len(t)] :
        /\ \A n, l \in 1 .. Len(s) : n < l => f[n] < f[l]
        /\ \A n \in 1 .. Len(s) : s[n] = t[f[n]]
  BY DEF Within
<1>2. PICK ks \in SUBSET (1 .. Len(s)) : ks = { i \in 1 .. Len(s) : s[i].id # x }
  OBVIOUS
<1>3. PICK kt \in SUBSET (1 .. Len(t)) : kt = { i \in 1 .. Len(t) : t[i].id # x }
  OBVIOUS
<1>4. PICK u : u = ElementsAt(s, ks)
  OBVIOUS
<1>5. PICK v : v = ElementsAt(t, kt)
  OBVIOUS
<1>6. /\ Len(u) \in Nat /\ DOMAIN u = 1 .. Len(u)
      /\ \A n \in 1 .. Len(u) : PlaceOf(ks, n) \in ks /\ u[n] = s[PlaceOf(ks, n)]
      /\ \A n, l \in 1 .. Len(u) : n < l => PlaceOf(ks, n) < PlaceOf(ks, l)
  BY <1>4, ElementsHave
<1>7. /\ Len(v) = Cardinality(kt) /\ DOMAIN v = 1 .. Len(v)
      /\ \A n \in 1 .. Len(v) : v[n] = t[PlaceOf(kt, n)]
      /\ \A i \in kt : Rank(kt, i) \in 1 .. Len(v) /\ PlaceOf(kt, Rank(kt, i)) = i
  BY <1>5, ElementsHave
<1>8. \A i, j \in kt : i < j => Rank(kt, i) < Rank(kt, j)
  <2>1. Len(t) \in Nat
    OBVIOUS
  <2> QED BY <2>1, Ranks
<1>9. \A n \in 1 .. Len(u) : f[PlaceOf(ks, n)] \in kt
  BY <1>1, <1>2, <1>3, <1>6
<1>10. PICK g : g = [n \in 1 .. Len(u) |-> Rank(kt, f[PlaceOf(ks, n)])]
  OBVIOUS
<1>11. g \in [1 .. Len(u) -> 1 .. Len(v)]
  BY <1>7, <1>9, <1>10
<1>12. ASSUME NEW n \in 1 .. Len(u), NEW l \in 1 .. Len(u), n < l PROVE g[n] < g[l]
  <2>1. PICK i \in ks, j \in ks : i = PlaceOf(ks, n) /\ j = PlaceOf(ks, l) /\ i < j
    BY <1>6, <1>12
  <2>2. f[i] < f[j] /\ f[i] \in kt /\ f[j] \in kt
    BY <1>1, <1>9, <2>1
  <2> QED BY <1>8, <1>10, <2>1, <2>2
<1>13. ASSUME NEW n \in 1 .. Len(u) PROVE u[n] = v[g[n]]
  <2>1. PICK i \in ks : i = PlaceOf(ks, n) /\ f[i] \in kt
    BY <1>6, <1>9
  <2>2. PICK r \in 1 .. Len(v) : r = Rank(kt, f[i]) /\ PlaceOf(kt, r) = f[i]
    BY <1>7, <2>1
  <2>3. g[n] = r /\ v[r] = t[f[i]] /\ u[n] = s[i]
    BY <1>6, <1>7, <1>10, <2>1, <2>2
  <2> QED BY <1>1, <2>1, <2>3
<1>14. Within(u, v)
  BY <1>11, <1>12, <1>13 DEF Within
<1> QED BY <1>2, <1>3, <1>4, <1>5, <1>14 DEF Apart

\* What is kept is named as before.
LEMMA KeptNames ==
  ASSUME NEW R, NEW s \in Seq(R), NEW kept \in SUBSET (1 .. Len(s))
  PROVE  /\ ElementsAt(s, kept) \in Seq(R)
         /\ NamesOnce(s) => NamesOnce(ElementsAt(s, kept))
         /\ \A n \in 1 .. Len(ElementsAt(s, kept)) : \E i \in kept : ElementsAt(s, kept)[n] = s[i]
         /\ \A i \in kept : \E n \in 1 .. Len(ElementsAt(s, kept)) : ElementsAt(s, kept)[n] = s[i]
<1>1. PICK u : u = ElementsAt(s, kept)
  OBVIOUS
<1>2. /\ u \in Seq(R) /\ Len(u) \in Nat /\ DOMAIN u = 1 .. Len(u)
      /\ \A n \in 1 .. Len(u) : PlaceOf(kept, n) \in kept /\ u[n] = s[PlaceOf(kept, n)]
      /\ \A n, l \in 1 .. Len(u) : n < l => PlaceOf(kept, n) < PlaceOf(kept, l)
      /\ \A i \in kept : Rank(kept, i) \in 1 .. Len(u) /\ PlaceOf(kept, Rank(kept, i)) = i
  BY <1>1, ElementsHave
<1>3. ASSUME NamesOnce(s) PROVE NamesOnce(u)
  <2>1. ASSUME NEW i \in 1 .. Len(u), NEW j \in 1 .. Len(u), u[i].id = u[j].id PROVE i = j
    <3>1. PICK k \in kept, l \in kept : k = PlaceOf(kept, i) /\ l = PlaceOf(kept, j) /\ u[i] = s[k] /\ u[j] = s[l]
      BY <1>2
    <3>2. k = l
      BY <1>3, <2>1, <3>1 DEF NamesOnce
    <3>3. k \in Nat /\ ~(k < l) /\ ~(l < k)
      BY <3>2
    <3>4. ~(i < j) /\ ~(j < i)
      BY <1>2, <3>1, <3>3
    <3> QED BY <1>2, <3>4
  <2> QED BY <2>1 DEF NamesOnce
<1>4. \A n \in 1 .. Len(u) : \E i \in kept : u[n] = s[i]
  BY <1>2
<1>5. \A i \in kept : \E n \in 1 .. Len(u) : u[n] = s[i]
  BY <1>2
<1> QED BY <1>1, <1>2, <1>3, <1>4, <1>5

\* The first record of that name.
FirstWithId(s, d) == SelectInSeq(s, LAMBDA r : r.id = d)

\* The first record of a name has it.
LEMMA FirstNamed ==
  ASSUME NEW R, NEW s \in Seq(R), NEW d, Names(s, d)
  PROVE  FirstWithId(s, d) \in 1 .. Len(s) /\ s[FirstWithId(s, d)].id = d
<1>1. PICK I : I = { i \in 1 .. Len(s) : s[i].id = d }
  OBVIOUS
<1>2. I \in SUBSET Nat /\ I # {}
  BY <1>1 DEF Names
<1>3. \E x \in I : \A y \in I : x <= y
  BY <1>2, LeastNumber
<1>4. Min(I) \in I
  BY <1>3 DEF Min
<1>5. FirstWithId(s, d) = Min(I)
  BY <1>1, <1>2, Zenon DEF FirstWithId, SelectInSeq
<1> QED BY <1>1, <1>4, <1>5

\* Adding at the front moves the others by one.
LEMMA FrontIs ==
  ASSUME NEW R, NEW s \in Seq(R), NEW x \in R
  PROVE  /\ << x >> \o s \in Seq(R) /\ Len(<< x >> \o s) = Len(s) + 1
         /\ (<< x >> \o s)[1] = x
         /\ \A i \in 2 .. Len(s) + 1 : i - 1 \in 1 .. Len(s) /\ (<< x >> \o s)[i] = s[i - 1]
<1>1. PICK u : u = << x >> \o s
  OBVIOUS
<1>2. << x >> \in Seq(R) /\ Len(<< x >>) = 1 /\ << x >>[1] = x
  OBVIOUS
<1>3. /\ u \in Seq(R) /\ Len(u) = 1 + Len(s)
      /\ \A i \in 1 .. 1 + Len(s) : u[i] = IF i <= 1 THEN << x >>[i] ELSE s[i - 1]
  BY <1>1, <1>2, ConcatProperties
<1>4. Len(s) \in Nat
  OBVIOUS
<1>5. u[1] = x
  BY <1>2, <1>3, <1>4
<1>6. \A i \in 2 .. Len(s) + 1 : i - 1 \in 1 .. Len(s) /\ u[i] = s[i - 1]
  BY <1>3, <1>4
<1>7. Len(u) = Len(s) + 1
  BY <1>3, <1>4
<1> QED BY <1>1, <1>3, <1>5, <1>6, <1>7
=============================================================================
