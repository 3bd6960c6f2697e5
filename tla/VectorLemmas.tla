----------------------------- MODULE VectorLemmas -----------------------------
(***************************************************************************)
(* Facts about vectors (sequences) and sets of indices that the proofs of  *)
(* the server rest on: what assigning, removing and appending an element   *)
(* does, that a least index exists, and how elements of a set of indices   *)
(* are numbered.                                                           *)
(***************************************************************************)
EXTENDS Integers, Sequences, FiniteSets, SequencesExt,
        SequenceTheorems, FiniteSetTheorems, WellFoundedInduction, TLAPS

\* A function on 1..n is a vector of length n.
LEMMA VectorOfFunction ==
    ASSUME NEW S, NEW n \in Nat, NEW f \in [1..n -> S]
    PROVE  f \in Seq(S) /\ Len(f) = n /\ DOMAIN f = 1..n
OBVIOUS

\* Assigning an element keeps the length and the other elements.
LEMMA AssignProperties ==
    ASSUME NEW S, NEW s \in Seq(S), NEW i, NEW e \in S
    PROVE  /\ [s EXCEPT ![i] = e] \in Seq(S)
           /\ Len([s EXCEPT ![i] = e]) = Len(s)
           /\ DOMAIN [s EXCEPT ![i] = e] = DOMAIN s
           /\ \A j \in DOMAIN s : [s EXCEPT ![i] = e][j] = IF j = i THEN e ELSE s[j]
<1>1. s \in [1..Len(s) -> S] /\ Len(s) \in Nat
  OBVIOUS
<1>2. [s EXCEPT ![i] = e] \in [1..Len(s) -> S]
  BY <1>1
<1>3. /\ [s EXCEPT ![i] = e] \in Seq(S)
      /\ Len([s EXCEPT ![i] = e]) = Len(s)
      /\ DOMAIN [s EXCEPT ![i] = e] = 1..Len(s)
  BY <1>1, <1>2, VectorOfFunction
<1> QED
  BY <1>1, <1>3

\* Removing element i keeps the order of the others.
LEMMA RemoveAtProperties ==
    ASSUME NEW S, NEW s \in Seq(S), NEW i \in 1..Len(s)
    PROVE  /\ RemoveAt(s, i) \in Seq(S)
           /\ Len(RemoveAt(s, i)) = Len(s) - 1
           /\ \A j \in 1..(Len(s) - 1) :
                 RemoveAt(s, i)[j] = IF j < i THEN s[j] ELSE s[j + 1]
<1> DEFINE before == SubSeq(s, 1, i - 1)
           after  == SubSeq(s, i + 1, Len(s))
<1>0. \A j \in 1..Len(s) : s[j] \in S
  BY ElementOfSeq
<1>1. Len(s) \in Nat
  OBVIOUS
<1>2. /\ before \in Seq(S) /\ Len(before) = i - 1
      /\ \A j \in 1..(i - 1) : before[j] = s[j]
  <2>1. \A j \in 1..(i - 1) : s[j] \in S
    BY <1>0, <1>1
  <2>2. /\ before \in Seq(S)
        /\ Len(before) = IF 1 <= i - 1 THEN i - 1 - 1 + 1 ELSE 0
        /\ \A j \in 1..(i - 1 - 1 + 1) : before[j] = s[1 + j - 1]
    BY <2>1, <1>1, SubSeqProperties
  <2> QED
    BY <2>2, <1>1
<1>3. /\ after \in Seq(S) /\ Len(after) = Len(s) - i
      /\ \A j \in 1..(Len(s) - i) : after[j] = s[i + j]
  <2>1. \A j \in (i + 1)..Len(s) : s[j] \in S
    BY <1>0, <1>1
  <2>2. /\ after \in Seq(S)
        /\ Len(after) = IF i + 1 <= Len(s) THEN Len(s) - (i + 1) + 1 ELSE 0
        /\ \A j \in 1..(Len(s) - (i + 1) + 1) : after[j] = s[i + 1 + j - 1]
    BY <2>1, <1>1, SubSeqProperties
  <2> QED
    BY <2>2, <1>1
<1>4. /\ before \o after \in Seq(S)
      /\ Len(before \o after) = Len(before) + Len(after)
      /\ \A j \in 1..(Len(before) + Len(after)) :
            (before \o after)[j] = IF j <= Len(before) THEN before[j] ELSE after[j - Len(before)]
  BY <1>2, <1>3, ConcatProperties
<1>5. RemoveAt(s, i) = before \o after
  BY DEF RemoveAt
<1> HIDE DEF before, after
<1>6. \A j \in 1..(Len(s) - 1) :
         (before \o after)[j] = IF j < i THEN s[j] ELSE s[j + 1]
  <2> TAKE j \in 1..(Len(s) - 1)
  <2>1. j \in 1..(Len(before) + Len(after))
    BY <1>1, <1>2, <1>3
  <2>2. CASE j < i
    BY <2>1, <2>2, <1>1, <1>2, <1>4
  <2>3. CASE ~(j < i)
    <3>1. j - (i - 1) \in 1..(Len(s) - i) /\ i + (j - (i - 1)) = j + 1
      BY <2>3, <1>1
    <3>2. after[j - (i - 1)] = s[j + 1]
      BY <3>1, <1>3
    <3> QED
      BY <2>1, <2>3, <3>2, <1>1, <1>2, <1>4
  <2> QED
    BY <2>2, <2>3
<1> QED
  BY <1>1, <1>2, <1>3, <1>4, <1>5, <1>6

\* Appending an element keeps those before it.
LEMMA AppendElements ==
    ASSUME NEW S, NEW s \in Seq(S), NEW e \in S
    PROVE  /\ Append(s, e) \in Seq(S)
           /\ Len(Append(s, e)) = Len(s) + 1
           /\ \A j \in 1..Len(s) : Append(s, e)[j] = s[j]
           /\ Append(s, e)[Len(s) + 1] = e
OBVIOUS

\* A nonempty set of natural numbers has a least element.
LEMMA MinProperties ==
    ASSUME NEW T, T \subseteq Nat, T # {}
    PROVE  Min(T) \in T /\ \A y \in T : Min(T) <= y
<1> DEFINE R == {p \in Nat \X Nat : p[1] < p[2]}
<1>1. IsWellFoundedOn(R, Nat)
  BY NatLessThanWellFounded DEF OpToRel
<1> HIDE DEF R
<1>2. PICK x \in T : \A y \in T : ~(<<y, x>> \in R)
  BY <1>1, WFMin
<1>3. \A y \in T : x <= y
  <2> TAKE y \in T
  <2>1. <<y, x>> \notin R /\ <<y, x>> \in Nat \X Nat
    BY <1>2
  <2>2. ~(y < x)
    BY <2>1 DEF R
  <2>3. x \in Nat /\ y \in Nat
    OBVIOUS
  <2> QED
    BY <2>2, <2>3
<1> QED
  BY <1>3 DEF Min

\* In a nonempty set of indices there is a first one with the least value of f.
LEMMA FirstLeast ==
    ASSUME NEW n \in Nat, NEW D \in SUBSET (1..n), D # {},
           NEW f, \A i \in D : f[i] \in Int
    PROVE  \E i \in D : \A j \in D : f[i] < f[j] \/ (f[i] = f[j] /\ i <= j)
<1> DEFINE Least(E) == \E i \in E : \A j \in E : f[i] < f[j] \/ (f[i] = f[j] /\ i <= j)
           Upto(k) == {i \in D : i <= k}
           Bad == {k \in 0..n : Upto(k) # {} /\ ~Least(Upto(k))}
<1>0. \A i \in D : i \in Int /\ 1 <= i /\ i <= n
  OBVIOUS
<1>1. SUFFICES ASSUME Bad # {} PROVE FALSE
  <2>1. Upto(n) = D
    <3>1. \A i : i \in Upto(n) <=> i \in D
      BY <1>0
    <3> QED
      BY <3>1
  <2>2. n \notin Bad => Least(D)
    BY <2>1
  <2> QED
    BY <1>1, <2>2
<1>2. Bad \subseteq Nat
  OBVIOUS
<1>3. PICK k \in Bad : \A y \in Bad : k <= y
  BY <1>1, <1>2, MinProperties
<1>4. k # 0
  <2>1. \A i \in D : ~(i <= 0)
    BY <1>0
  <2>2. Upto(0) = {}
    BY <2>1
  <2>3. Upto(k) # {}
    BY <1>3
  <2> QED
    BY <2>2, <2>3
<1>5. k - 1 \in 0..n /\ k - 1 \notin Bad /\ k \in 1..n
  BY <1>3, <1>4
<1>6. Upto(k) = Upto(k - 1) \cup (D \cap {k})
  <2>1. \A i \in D : i <= k <=> (i <= k - 1 \/ i = k)
    BY <1>0, <1>5
  <2> HIDE DEF Bad
  <2>2. \A i : i \in Upto(k) <=> i \in Upto(k - 1) \cup (D \cap {k})
    BY <2>1
  <2> QED
    BY <2>2
<1>7. CASE Upto(k - 1) = {}
  <2>1. Upto(k) = {k} /\ k \in D
    BY <1>3, <1>6, <1>7
  <2> QED
    BY <2>1, <1>3
<1>8. CASE Upto(k - 1) # {}
  <2>1. PICK m \in Upto(k - 1) :
           \A j \in Upto(k - 1) : f[m] < f[j] \/ (f[m] = f[j] /\ m <= j)
    BY <1>5, <1>8
  <2>2. m \in Upto(k) /\ m <= k /\ f[m] \in Int
    BY <2>1, <1>5, <1>6
  <2>3. k \in D
    <3>1. k \notin D => Upto(k) = Upto(k - 1)
      BY <1>6
    <3> QED
      BY <3>1, <2>1, <1>3
  <2>4. f[k] \in Int /\ k \in Upto(k)
    BY <2>3, <1>5
  <2>5. CASE f[k] < f[m]
    <3>1. \A j \in Upto(k) : f[k] < f[j] \/ (f[k] = f[j] /\ k <= j)
      <4> TAKE j \in Upto(k)
      <4>1. j = k \/ j \in Upto(k - 1)
        BY <1>6
      <4>2. CASE j = k
        BY <4>2, <1>5
      <4>3. CASE j \in Upto(k - 1)
        BY <4>3, <2>1, <2>2, <2>4, <2>5
      <4> QED
        BY <4>1, <4>2, <4>3
    <3> QED
      BY <3>1, <2>4, <1>3
  <2>6. CASE ~(f[k] < f[m])
    <3>1. \A j \in Upto(k) : f[m] < f[j] \/ (f[m] = f[j] /\ m <= j)
      <4> TAKE j \in Upto(k)
      <4>1. j = k \/ j \in Upto(k - 1)
        BY <1>6
      <4>2. CASE j = k
        BY <4>2, <2>2, <2>4, <2>6
      <4>3. CASE j \in Upto(k - 1)
        BY <4>3, <2>1
      <4> QED
        BY <4>1, <4>2, <4>3
    <3> QED
      BY <3>1, <2>2, <1>3
  <2> QED
    BY <2>5, <2>6
<1> QED
  BY <1>7, <1>8

\* The numbering of the elements of a set of indices by their order.
LEMMA RankProperties ==
    ASSUME NEW n \in Nat, NEW D \in SUBSET (1..n)
    PROVE  /\ IsFiniteSet(D) /\ Cardinality(D) \in Nat
           /\ \A i \in D : Cardinality({j \in D : j <= i}) \in 1..Cardinality(D)
           /\ \A i, k \in D :
                 i < k => Cardinality({j \in D : j <= i}) < Cardinality({j \in D : j <= k})
<1> DEFINE Upto(i) == {j \in D : j <= i}
<1>1. IsFiniteSet(D) /\ Cardinality(D) \in Nat
  <2>1. IsFiniteSet(1..n)
    BY FS_Interval
  <2>2. IsFiniteSet(D)
    BY <2>1, FS_Subset
  <2> QED
    BY <2>2, FS_CardinalityType
<1>2. \A i \in D : /\ IsFiniteSet(Upto(i))
                  /\ Cardinality(Upto(i)) \in 1..Cardinality(D)
  <2> TAKE i \in D
  <2>1. IsFiniteSet(Upto(i)) /\ Cardinality(Upto(i)) <= Cardinality(D)
    BY <1>1, FS_Subset
  <2>2. Cardinality(Upto(i)) \in Nat
    BY <2>1, FS_CardinalityType
  <2>3. i \in Upto(i)
    OBVIOUS
  <2>4. Cardinality(Upto(i)) # 0
    BY <2>1, <2>3, FS_EmptySet
  <2> QED
    BY <2>1, <2>2, <2>4, <1>1
<1>3. \A i, k \in D : i < k => Cardinality(Upto(i)) < Cardinality(Upto(k))
  <2> SUFFICES ASSUME NEW i \in D, NEW k \in D, i < k
               PROVE  Cardinality(Upto(i)) < Cardinality(Upto(k))
    OBVIOUS
  <2>0. \A j \in D : j \in Int
    OBVIOUS
  <2>1. Upto(i) \subseteq Upto(k) /\ k \in Upto(k) /\ k \notin Upto(i)
    <3>1. \A j \in D : j <= i => j <= k
      BY <2>0
    <3>2. k <= k /\ ~(k <= i)
      BY <2>0
    <3> QED
      BY <3>1, <3>2
  <2>2. /\ Cardinality(Upto(i)) <= Cardinality(Upto(k))
        /\ Cardinality(Upto(i)) # Cardinality(Upto(k))
    BY <2>1, <1>2, FS_Subset
  <2> QED
    BY <2>2, <1>1, <1>2
<1> QED
  BY <1>1, <1>2, <1>3

\* The numbers given to the elements of a set of indices are all those up to
\* the number of elements.
LEMMA RankOnto ==
    ASSUME NEW n \in Nat, NEW D \in SUBSET (1..n), NEW k \in 1..Cardinality(D)
    PROVE  \E i \in D : Cardinality({j \in D : j <= i}) = k
<1> DEFINE Upto(i) == {j \in D : j <= i}
           T == {m \in 0..n : k <= Cardinality(Upto(m))}
<1>0. \A i \in D : i \in Int /\ 1 <= i /\ i <= n
  OBVIOUS
<1>1. IsFiniteSet(D) /\ Cardinality(D) \in Nat /\ k \in Nat /\ 1 <= k
  BY RankProperties
<1>2. \A m \in 0..n : IsFiniteSet(Upto(m)) /\ Cardinality(Upto(m)) \in Nat
  BY <1>1, FS_Subset, FS_CardinalityType
<1>3. T \subseteq Nat /\ n \in T
  <2>1. \A j : j \in Upto(n) <=> j \in D
    BY <1>0
  <2>2. Upto(n) = D
    BY <2>1
  <2> QED
    BY <2>2
<1>4. PICK m \in T : \A y \in T : m <= y
  BY <1>3, MinProperties
<1>5. m # 0
  <2>0. \A j \in D : ~(j <= 0)
    BY <1>0
  <2>1. Upto(0) = {}
    BY <2>0
  <2>2. Cardinality(Upto(0)) = 0
    BY <2>1, FS_EmptySet
  <2> QED
    BY <1>4, <2>2
<1>6. m \in 0..n /\ m - 1 \in 0..n /\ ~(m <= m - 1) /\ k <= Cardinality(Upto(m))
  BY <1>4, <1>5
<1> DEFINE before == Cardinality(Upto(m - 1))
           upto   == Cardinality(Upto(m))
<1>7. before \in Nat /\ upto \in Nat /\ before < k /\ k <= upto
  <2>1. m - 1 \notin T
    BY <1>4, <1>6
  <2>2. ~(k <= before) /\ before \in Nat /\ upto \in Nat
    BY <1>2, <1>6, <2>1
  <2> HIDE DEF before, upto, T
  <2> QED
    BY <1>1, <1>6, <2>2 DEF upto
<1>8. \A j : j \in Upto(m) <=> j \in Upto(m - 1) \/ (j \in D /\ j = m)
  <2>1. \A j \in D : j <= m <=> j <= m - 1 \/ j = m
    BY <1>0, <1>6
  <2> HIDE DEF T
  <2> QED
    BY <2>1
<1>9. m \in D
  <2>1. m \notin D => Upto(m) = Upto(m - 1)
    BY <1>8
  <2>2. upto # before
    BY <1>1, <1>7
  <2> QED
    BY <2>1, <2>2
<1>10. upto = before + 1
  <2>0. \A j \in Upto(m - 1) : j <= m - 1
    OBVIOUS
  <2>1. m \notin Upto(m - 1)
    BY <1>6, <2>0
  <2>2. Upto(m) = Upto(m - 1) \cup {m}
    BY <1>8, <1>9
  <2>3. IsFiniteSet(Upto(m - 1))
    BY <1>2, <1>6
  <2> QED
    BY <2>1, <2>2, <2>3, FS_AddElement
<1>11. Cardinality(Upto(m)) = k
  <2>1. upto = k
    <3> HIDE DEF upto, before
    <3> QED
      BY <1>1, <1>7, <1>10
  <2> QED
    BY <2>1
<1> QED
  BY <1>9, <1>11

\* A set of indices that are all the same has at most one element.
LEMMA AtMostOne ==
    ASSUME NEW n \in Nat, NEW D \in SUBSET (1..n), \A i, j \in D : i = j
    PROVE  Cardinality(D) <= 1
<1>1. CASE D = {}
  BY <1>1, FS_EmptySet
<1>2. CASE D # {}
  <2>1. PICK x \in D : D = {x}
    BY <1>2
  <2> QED
    BY <2>1, FS_Singleton
<1> QED
  BY <1>1, <1>2

\* Induction over the indices up to n, for a set of them.
LEMMA UptoInduction ==
    ASSUME NEW n \in Nat, NEW T, 0 \in T, \A i \in 1..n : i - 1 \in T => i \in T
    PROVE  \A i \in 0..n : i \in T
<1> DEFINE Bad == {i \in 0..n : i \notin T}
<1>1. SUFFICES ASSUME Bad # {} PROVE FALSE
  OBVIOUS
<1>2. Bad \subseteq Nat
  OBVIOUS
<1>3. PICK m \in Bad : \A y \in Bad : m <= y
  BY <1>1, <1>2, MinProperties
<1>4. m \in 1..n /\ m \notin T
  BY <1>3
<1>5. m - 1 \in 0..n /\ ~(m <= m - 1)
  BY <1>4
<1>6. m - 1 \in T
  BY <1>3, <1>5
<1> QED
  BY <1>4, <1>6

===============================================================================
